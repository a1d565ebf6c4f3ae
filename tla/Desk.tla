--------------------------------- MODULE Desk ---------------------------------
(***************************************************************************)
(* The support desk: members, tickets, threads and sockets of one          *)
(* organization, and what holds of them together.                          *)
(***************************************************************************)
EXTENDS Membership, Ticketing, Conversation

VARIABLE entitled   \* history: of a message, who could read it at some time since it was posted

vars == <<deskVars, realtimeVars, entitled>>

Readers(t) == {u \in Users : CanAccess(u, t)}

Init == DeskInit /\ RealtimeInit /\ entitled = [m \in Messages |-> {}]

Remember == entitled' =
  [m \in Messages |-> IF m \in Posted' THEN entitled[m] \cup Readers(m[1])' ELSE {}]

Next ==
  /\ \/ (Members \/ Commands) /\ UNCHANGED realtimeVars
     \/ Talk
  /\ Remember

Spec == Init /\ [][Next]_vars

-----------------------------------------------------------------------------
TypeOK == DeskType /\ RealtimeType /\ entitled \in [Messages -> SUBSET Users]

\* Whoever holds an active ticket or an issue is staff of the organization,
\* although commands act on tickets they read before a role changed: removal
\* clears only active tickets, and a reopened ticket looks its assignee up.
HoldersAreStaff ==
  /\ \A t \in Tickets : ticket[t].status \in Active /\ ticket[t].assignee # None
                        => role[ticket[t].assignee] \in Staff
  /\ \A i \in Issues : issueAssignee[i] # None => role[issueAssignee[i]] \in Staff

\* A closed ticket keeps the time it was resolved at, also when a command for
\* an earlier resolution comes late; and a status moves only along the policy.
ResolutionKept == [][\A t \in Tickets :
  /\ ticket[t].status # "CLOSED" /\ ticket'[t].status = "CLOSED"
     => ticket[t].status = "RESOLVED" /\ ticket'[t].resolvedAt = ticket[t].resolvedAt
  /\ ticket'[t].status # ticket[t].status /\ Exists(t)
     => ticket'[t].status \in Transitions[ticket[t].status]]_vars

\* The first response is the first message that staff of the time sent; a note
\* is none, and neither is what a customer wrote before becoming staff.
FirstResponseIsFirst == \A t \in Tickets : LET n == ticket[t].firstResponseAt
                                               IsResponse(i) == thread[t][i].kind = "message" /\ thread[t][i].staff IN
  /\ n # 0 => n <= Len(thread[t]) /\ IsResponse(n)
  /\ \A i \in 1 .. Len(thread[t]) : IsResponse(i) => n # 0 /\ n <= i

\* Nobody is delivered a message who could not read it at some time since it
\* was posted: a room may be stale, a delivery is not. Notes reach no socket.
DeliveredToReaders == [][\A d \in delivered' \ delivered :
  /\ user[d[2]] \in entitled[d[1]]
  /\ thread[d[1][1]][d[1][2]].kind = "message"]_vars

\* A socket that left a ticket is delivered nothing of it until it joins again,
\* unless the leave came while a join of it was under way.
LeaveIsFinal == [][\A d \in delivered' \ delivered :
  d[1][1] \in wants[d[2]] \cup overtaken[d[2]]]_vars
=============================================================================
