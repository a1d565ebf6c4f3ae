------------------------------ MODULE Ticketing ------------------------------
(***************************************************************************)
(* Tickets (ticket.service, ticket.policy): a command reads the ticket and *)
(* its actor's role, and later, under the organization's lock, compares    *)
(* and sets. The membership read before the lock only refuses early.       *)
(***************************************************************************)
EXTENDS DeskState

Transitions ==
  [OPEN        |-> {"IN_PROGRESS", "WAITING", "RESOLVED"},
   IN_PROGRESS |-> {"OPEN", "WAITING", "RESOLVED"},
   WAITING     |-> {"OPEN", "IN_PROGRESS", "RESOLVED"},
   RESOLVED    |-> {"OPEN", "CLOSED"},
   CLOSED      |-> {"OPEN"}]

\* ticketStatusChange: a closed ticket keeps the time it was resolved at.
Moved(row, next, now) ==
  [row EXCEPT !.status = next,
              !.resolvedAt = IF next = "RESOLVED" THEN now ELSE IF next = "CLOSED" THEN @ ELSE 0,
              !.closedAt = IF next = "CLOSED" THEN now ELSE 0]

CreateTicket(a, t) ==
  /\ role[a] # "none" /\ ~Exists(t)
  /\ ticket' = [ticket EXCEPT ![t] = Touched([NoTicket EXCEPT !.status = "OPEN", !.customer = a])]
  /\ UNCHANGED <<role, thread, issueAssignee, request>>

\* getTicketOrThrow, as a command for staff begins.
ReadTicket(q, a, t) ==
  /\ request[q] = None /\ CanAccess(a, t) /\ role[a] \in Staff
  /\ request' = [request EXCEPT ![q] = [ticket |-> t, actor |-> a, snapshot |-> ticket[t], role |-> role[a]]]
  /\ UNCHANGED <<role, ticket, thread, issueAssignee>>

Done(q) == request' = [request EXCEPT ![q] = None]

\* Nothing was written to the ticket since it was read.
UnmovedStatus(c) ==               \* mutant: only the status is compared
  ticket[c.ticket].status = c.snapshot.status
Unmoved(c) == /\ ticket[c.ticket].updatedAt = c.snapshot.updatedAt
              /\ ticket[c.ticket].status = c.snapshot.status

\* An inactive ticket may have an assignee who is staff no more. The assignee
\* looked up is the one that was read.
Reopen(c, next, row) == LET u == c.snapshot.assignee IN
  IF u # None /\ u = row.assignee /\ next \in Active /\ role[u] \notin Staff
  THEN [row EXCEPT !.assignee = None] ELSE row

UpdateStatus(q, next) == LET c == request[q]
                             t == c.ticket
                             row == [ticket[t] EXCEPT !.resolvedAt = c.snapshot.resolvedAt] IN
  /\ c # None /\ next \in Transitions[c.snapshot.status]
  /\ role[c.actor] \in Staff /\ Unmoved(c) /\ Writable(t)
  /\ ticket' = [ticket EXCEPT ![t] =
                  Touched(Reopen(c, next, Moved(row, next, ticket[t].updatedAt + 1)))]
  /\ Done(q) /\ UNCHANGED <<role, thread, issueAssignee>>

Assign(q, u) == LET c == request[q] IN
  /\ c # None /\ c.role \in Managers /\ role[c.actor] \in Managers
  /\ u # None => role[u] \in Staff
  /\ ticket[c.ticket].assignee = c.snapshot.assignee
  /\ ticket[c.ticket].updatedAt = c.snapshot.updatedAt /\ Writable(c.ticket)
  /\ ticket' = [ticket EXCEPT ![c.ticket] = Touched([@ EXCEPT !.assignee = u])]
  /\ Done(q) /\ UNCHANGED <<role, thread, issueAssignee>>

\* Refused, in conflict, or the database failed: nothing is written.
Refuse(q) ==
  /\ request[q] # None /\ Done(q)
  /\ UNCHANGED <<role, ticket, thread, issueAssignee>>

Commands ==
  \/ \E a \in Users, t \in Tickets : CreateTicket(a, t) \/ \E q \in Requests : ReadTicket(q, a, t)
  \/ \E q \in Requests : \/ Refuse(q)
                         \/ \E next \in Statuses : UpdateStatus(q, next)
                         \/ \E u \in Users \cup {None} : Assign(q, u)
=============================================================================
