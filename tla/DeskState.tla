------------------------------ MODULE DeskState ------------------------------
(***************************************************************************)
(* The tables of a support desk: one organization's members, its tickets   *)
(* with their threads, and who holds its knowledge issues; the ticket      *)
(* commands that are between their read and their transaction.             *)
(***************************************************************************)
EXTENDS Integers, Sequences, FiniteSets

CONSTANTS
  Users, Owner,   \* Owner founded the organization
  Tickets, Issues,
  Requests,       \* ticket commands at a time
  Sockets, Joins, \* sockets, and their joins under way at a time
  MaxWrites,      \* bound: updates of a ticket
  MaxThread,      \* bound: messages and notes of a ticket
  None,           \* nobody, nothing
  Faults          \* what may go wrong: "outage", "drop", "restart"

ASSUME DeskAssumption ==
  /\ Owner \in Users /\ None \notin Users
  /\ MaxWrites \in Nat \ {0} /\ MaxThread \in Nat
  /\ Faults \subseteq {"outage", "drop", "restart"}

VARIABLES
  role,          \* of a user in the organization, "none" for no member
  ticket,        \* the rows of the tickets
  thread,        \* a ticket's messages and internal notes, oldest first
  issueAssignee, \* the member an issue is assigned to
  request        \* a command's snapshot: its ticket and its actor's role

Roles    == {"OWNER", "ADMIN", "AGENT", "CUSTOMER"}
Staff    == {"OWNER", "ADMIN", "AGENT"}           \* isAssignableRole
Managers == {"OWNER", "ADMIN"}                    \* canAssignTicket

Statuses == {"OPEN", "IN_PROGRESS", "WAITING", "RESOLVED", "CLOSED"}
Active   == {"OPEN", "IN_PROGRESS", "WAITING"}    \* activeTicketStatuses

\* A time is the number of the ticket's update it was set by, a first response
\* the place of its message in the thread; 0 is null. updatedAt has millisecond
\* resolution: two updates are taken to have different ones.
Stamps == 0 .. MaxWrites
Ticket == [status : Statuses \cup {"none"}, assignee : Users \cup {None}, customer : Users \cup {None},
           resolvedAt : Stamps, closedAt : Stamps, firstResponseAt : 0 .. MaxThread, updatedAt : Stamps]
NoTicket == [status |-> "none", assignee |-> None, customer |-> None,
             resolvedAt |-> 0, closedAt |-> 0, firstResponseAt |-> 0, updatedAt |-> 0]

Entry   == [kind : {"message", "note"}, sender : Users, staff : BOOLEAN]
Command == [ticket : Tickets, actor : Users, snapshot : Ticket, role : Staff]

DeskInit ==
  /\ role = [u \in Users |-> IF u = Owner THEN "OWNER" ELSE "none"]
  /\ ticket = [t \in Tickets |-> NoTicket] /\ thread = [t \in Tickets |-> <<>>]
  /\ issueAssignee = [i \in Issues |-> None]
  /\ request = [q \in Requests |-> None]

DeskType ==
  /\ role \in [Users -> Roles \cup {"none"}]
  /\ ticket \in [Tickets -> Ticket]
  /\ thread \in [Tickets -> Seq(Entry)]
  /\ issueAssignee \in [Issues -> Users \cup {None}]
  /\ request \in [Requests -> Command \cup {None}]

Exists(t) == ticket[t].status # "none"

\* Customers see their own tickets, staff every ticket.
CanAccess(u, t) == Exists(t) /\ \/ role[u] \in Staff
                                \/ role[u] = "CUSTOMER" /\ ticket[t].customer = u

\* An update of a row moves its updatedAt.
Touched(row)   == [row EXCEPT !.updatedAt = @ + 1]
Writable(t)    == ticket[t].updatedAt < MaxWrites
=============================================================================
