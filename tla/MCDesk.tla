------------------------------- MODULE MCDesk -------------------------------
(***************************************************************************)
(* A small instance of Desk for TLC. Commands against changes of roles, a  *)
(* ticket resolved again and again, and the delivery of messages are       *)
(* explored side by side: a behaviour keeps to the one it focuses on,      *)
(* since their product is out of reach.                                    *)
(***************************************************************************)
EXTENDS Desk, TLC

CONSTANTS
  MaxCommands,  \* bound: updates of a ticket while roles change under commands
  MaxPresent    \* bound: members and connected users at a time while messages are delivered

VARIABLE focus  \* "commands", "resolutions", "issues" or "delivery"

Grants == \E a \in Users, u \in Users : RemoveMember(a, u) \/ \E r \in Roles : AddMember(a, u, r) \/ ChangeRole(a, u, r)
Within(n) == \A t \in Tickets : ticket'[t].updatedAt <= n

\* Whoever may be told of a message.
Present == {u \in Users : \/ role[u] # "none" \/ \E s \in Sockets : user[s] = u
                           \/ \E t \in Tickets : ticket[t].customer = u
                           \/ \E m \in Messages : u \in entitled[m]}

MCInit == Init /\ focus \in {"commands", "resolutions", "issues", "delivery"}
MCNext ==
  /\ UNCHANGED focus
  /\ \/ /\ focus = "commands" /\ (Grants \/ Commands) /\ Within(MaxCommands) /\ UNCHANGED realtimeVars
     \/ /\ focus = "resolutions" /\ Commands /\ UNCHANGED realtimeVars
     \/ /\ focus = "issues" /\ Members /\ UNCHANGED realtimeVars
     \/ /\ focus = "delivery"
        /\ \/ (Grants \/ \E a \in Users, t \in Tickets : CreateTicket(a, t)) /\ UNCHANGED realtimeVars
           \/ Talk
  /\ Remember
  /\ focus = "delivery" /\ <<role, user>>' # <<role, user>> => Cardinality(Present') <= MaxPresent
MCSpec == MCInit /\ [][MCNext]_<<vars, focus>>

DeskSymmetry == UNION {Permutations(S) : S \in {Users \ {Owner}, Requests, Sockets}}  \* Joins = Requests
=============================================================================
