----------------------------- MODULE DeskProofs -----------------------------
(***************************************************************************)
(* The support desk for any number of users, tickets, issues, commands,    *)
(* sockets and faults: who may hold a ticket or an issue, what a           *)
(* resolution and a first response are, and who is delivered a message.    *)
(*                                                                         *)
(* Commands act on what they read before the lock, so the argument is that *)
(* every write of a ticket moves its updatedAt: a snapshot with the same   *)
(* updatedAt is the row. For deliveries it is that a look-up's answer stays *)
(* true of the message, however access, rooms and sockets change after it. *)
(***************************************************************************)
EXTENDS Desk, TLAPS

\* A command's snapshot is the ticket's row, or the row was written since.
Snapshots == \A q \in Requests : request[q] # None =>
  LET c == request[q] IN
  /\ c.snapshot.status # "none"
  /\ c.snapshot.updatedAt <= ticket[c.ticket].updatedAt
  /\ c.snapshot.updatedAt = ticket[c.ticket].updatedAt => c.snapshot = ticket[c.ticket]

\* A ticket that was not created has neither updates nor messages.
Blank == \A t \in Tickets : ~Exists(t) => ticket[t].updatedAt = 0 /\ thread[t] = <<>>

\* What is announced was posted as a message, and an answer that allows a
\* delivery was true of its socket's user since then.
IsMessage(m) == m \in Posted /\ thread[m[1]][m[2]].kind = "message"
Announcements ==
  /\ \A m \in unannounced : IsMessage(m)
  /\ \A d \in pending : /\ IsMessage(d.message)
                        /\ d.allowed = "yes" /\ user[d.socket] # None => user[d.socket] \in entitled[d.message]

\* A socket is, or will be once its joins end, in rooms it last asked to join,
\* or left while a join of them was under way.
Rooms == \A s \in Sockets :
  /\ room[s] \subseteq wants[s] \cup overtaken[s]
  /\ \A j \in Joins : UnderWay(j, s) /\ Live(s) => joining[j].ticket \in wants[s] \cup overtaken[s]

-----------------------------------------------------------------------------
(* Rows.                                                                   *)

LEMMA Consts == None \notin Users /\ Owner \in Users /\ MaxWrites \in Nat \ {0} /\ MaxThread \in Nat
  BY DeskAssumption

\* Two rows agree except in what a command may set.
LEMMA TouchedIs ==
  ASSUME NEW r \in Ticket, r.updatedAt < MaxWrites
  PROVE  /\ Touched(r) \in Ticket /\ Touched(r).updatedAt = r.updatedAt + 1
         /\ Touched(r).status = r.status /\ Touched(r).assignee = r.assignee
         /\ Touched(r).resolvedAt = r.resolvedAt /\ Touched(r).firstResponseAt = r.firstResponseAt
<1>1. r.updatedAt \in Stamps
  BY DEF Ticket
<1>2. r.updatedAt + 1 \in Stamps
  BY <1>1, Consts DEF Stamps
<1> QED  BY <1>2 DEF Touched, Ticket

LEMMA AssignedIs ==
  ASSUME NEW r \in Ticket, NEW u \in Users \cup {None}
  PROVE  LET x == [r EXCEPT !.assignee = u] IN
         /\ x \in Ticket /\ x.assignee = u /\ x.status = r.status /\ x.updatedAt = r.updatedAt
         /\ x.resolvedAt = r.resolvedAt /\ x.firstResponseAt = r.firstResponseAt
  BY DEF Ticket

LEMMA RespondedIs ==
  ASSUME NEW r \in Ticket, NEW n \in 0 .. MaxThread
  PROVE  LET x == [r EXCEPT !.firstResponseAt = n] IN
         /\ x \in Ticket /\ x.assignee = r.assignee /\ x.status = r.status /\ x.updatedAt = r.updatedAt
         /\ x.resolvedAt = r.resolvedAt /\ x.firstResponseAt = n
  BY DEF Ticket

LEMMA MovedIs ==
  ASSUME NEW r \in Ticket, NEW next \in Statuses, NEW now \in Stamps
  PROVE  LET x == Moved(r, next, now) IN
         /\ x \in Ticket /\ x.status = next /\ x.assignee = r.assignee /\ x.updatedAt = r.updatedAt
         /\ x.firstResponseAt = r.firstResponseAt
         /\ next = "CLOSED" => x.resolvedAt = r.resolvedAt
<1>1. 0 \in Stamps /\ r.resolvedAt \in Stamps
  BY Consts DEF Stamps, Ticket
<1>2. (IF next = "RESOLVED" THEN now ELSE IF next = "CLOSED" THEN r.resolvedAt ELSE 0) \in Stamps
      /\ (IF next = "CLOSED" THEN now ELSE 0) \in Stamps
  BY <1>1
<1> QED  BY <1>2 DEF Moved, Ticket, Statuses

LEMMA ReopenIs ==
  ASSUME NEW c, NEW next, NEW r \in Ticket
  PROVE  LET x == Reopen(c, next, r) IN
         /\ x \in Ticket /\ x.status = r.status /\ x.updatedAt = r.updatedAt /\ x.resolvedAt = r.resolvedAt
         /\ x.firstResponseAt = r.firstResponseAt
         /\ x.assignee = r.assignee \/ x.assignee = None
         /\ c.snapshot.assignee = r.assignee /\ next \in Active /\ x.assignee # None
            => role[x.assignee] \in Staff
  BY AssignedIs DEF Reopen

-----------------------------------------------------------------------------
(* Every write of a ticket moves its updatedAt.                            *)

Writes(t) == \/ ticket'[t] = ticket[t]
             \/ ticket'[t].updatedAt = ticket[t].updatedAt + 1 /\ ticket'[t].status # "none"
Rewrites == ticket' \in [Tickets -> Ticket] /\ \A t \in Tickets : Writes(t)

LEMMA OneRow ==
  ASSUME ticket \in [Tickets -> Ticket], NEW t \in Tickets, NEW r \in Ticket,
         ticket' = [ticket EXCEPT ![t] = r],
         r = ticket[t] \/ (r.updatedAt = ticket[t].updatedAt + 1 /\ r.status # "none")
  PROVE  Rewrites /\ ticket'[t] = r /\ \A u \in Tickets : u # t => ticket'[u] = ticket[u]
  BY DEF Rewrites, Writes

\* Nobody's active tickets are held by the member who is released.
LEMMA Released ==
  ASSUME DeskType, NEW u \in Users, Release(u)
  PROVE  /\ Rewrites /\ issueAssignee' \in [Issues -> Users \cup {None}]
         /\ \A t \in Tickets :
              /\ ticket'[t].status = ticket[t].status /\ ticket'[t].resolvedAt = ticket[t].resolvedAt
              /\ ticket'[t].firstResponseAt = ticket[t].firstResponseAt
              /\ ticket'[t].assignee \in {ticket[t].assignee, None}
              /\ ticket'[t].status \in Active => ticket'[t].assignee # u
         /\ \A i \in Issues : issueAssignee'[i] \in {issueAssignee[i], None} /\ issueAssignee'[i] # u
<1>1. \A t \in Tickets :
        LET x == Touched([ticket[t] EXCEPT !.assignee = None]) IN
        Holds(u, t) => /\ x \in Ticket /\ x.updatedAt = ticket[t].updatedAt + 1
                       /\ x.status = ticket[t].status /\ x.assignee = None
                       /\ x.resolvedAt = ticket[t].resolvedAt /\ x.firstResponseAt = ticket[t].firstResponseAt
  <2> SUFFICES ASSUME NEW t \in Tickets, Holds(u, t)
               PROVE  LET x == Touched([ticket[t] EXCEPT !.assignee = None]) IN
                      /\ x \in Ticket /\ x.updatedAt = ticket[t].updatedAt + 1
                      /\ x.status = ticket[t].status /\ x.assignee = None
                      /\ x.resolvedAt = ticket[t].resolvedAt /\ x.firstResponseAt = ticket[t].firstResponseAt
    OBVIOUS
  <2> DEFINE y == [ticket[t] EXCEPT !.assignee = None]
  <2>1. /\ y \in Ticket /\ y.updatedAt = ticket[t].updatedAt /\ y.status = ticket[t].status /\ y.assignee = None
        /\ y.resolvedAt = ticket[t].resolvedAt /\ y.firstResponseAt = ticket[t].firstResponseAt
    <3>1. ticket[t] \in Ticket
      BY DEF DeskType
    <3> QED  BY <3>1, AssignedIs
  <2>2. ticket[t].updatedAt < MaxWrites
    BY DEF Release, Writable
  <2> HIDE DEF y
  <2> QED  BY <2>1, <2>2, TouchedIs DEF y
<1>2. \A t \in Tickets :
        ticket'[t] = IF Holds(u, t) THEN Touched([ticket[t] EXCEPT !.assignee = None]) ELSE ticket[t]
  BY DEF Release
<1>3. \A t \in Tickets : Holds(u, t) <=> ticket[t].assignee = u /\ ticket[t].status \in Active
  BY DEF Holds
<1>4. ticket' \in [Tickets -> Ticket]
  <2>1. \A t \in Tickets : ticket'[t] \in Ticket
    BY <1>1, <1>2 DEF DeskType
  <2>2. ticket' = [t \in Tickets |-> ticket'[t]]
    BY DEF Release
  <2> QED  BY <2>1, <2>2
<1>5. \A t \in Tickets : ticket[t].status \in Active => ticket[t].status # "none"
  BY DEF Active
<1>6. Rewrites
  BY <1>1, <1>2, <1>3, <1>4, <1>5 DEF Rewrites, Writes
<1>7. /\ issueAssignee' \in [Issues -> Users \cup {None}]
      /\ \A i \in Issues : issueAssignee'[i] \in {issueAssignee[i], None} /\ issueAssignee'[i] # u
  BY Consts DEF Release, DeskType
<1>8. \A t \in Tickets :
        /\ ticket'[t].status = ticket[t].status /\ ticket'[t].resolvedAt = ticket[t].resolvedAt
        /\ ticket'[t].firstResponseAt = ticket[t].firstResponseAt
        /\ ticket'[t].assignee \in {ticket[t].assignee, None}
        /\ ticket'[t].status \in Active => ticket'[t].assignee # u
  BY <1>1, <1>2, <1>3, Consts
<1> QED  BY <1>6, <1>7, <1>8

\* A new status, written over the row that was read.
LEMMA StatusIs ==
  ASSUME DeskType, Snapshots, NEW q \in Requests, NEW next \in Statuses, UpdateStatus(q, next)
  PROVE  LET t == request[q].ticket IN
         /\ t \in Tickets /\ Exists(t) /\ Rewrites
         /\ \A u \in Tickets : u # t => ticket'[u] = ticket[u]
         /\ next \in Transitions[ticket[t].status] /\ ticket'[t].status = next
         /\ ticket'[t].firstResponseAt = ticket[t].firstResponseAt
         /\ next = "CLOSED" => ticket'[t].resolvedAt = ticket[t].resolvedAt
         /\ next \in Active /\ ticket'[t].assignee # None => role[ticket'[t].assignee] \in Staff
<1> DEFINE c == request[q]
           t == c.ticket
           old == ticket[t]
           base == [old EXCEPT !.resolvedAt = c.snapshot.resolvedAt]
           moved == Moved(base, next, old.updatedAt + 1)
           row == Reopen(c, next, moved)
<1>1. c \in Command /\ t \in Tickets /\ old \in Ticket /\ next \in Transitions[c.snapshot.status]
      /\ Unmoved(c) /\ old.updatedAt < MaxWrites /\ c # None
  BY DEF UpdateStatus, DeskType, Command, Writable
<1>2. c.snapshot = old /\ old.status # "none"
  BY <1>1 DEF Snapshots, Unmoved
<1>3. base = old
  BY <1>1, <1>2 DEF Ticket
<1>4. old.updatedAt \in Stamps /\ old.updatedAt + 1 \in Stamps
  BY <1>1, Consts DEF Ticket, Stamps
<1>5. ticket' = [ticket EXCEPT ![t] = Touched(row)]
  BY DEF UpdateStatus
<1> HIDE DEF base
<1>6. /\ moved \in Ticket /\ moved.status = next /\ moved.assignee = old.assignee
      /\ moved.updatedAt = old.updatedAt /\ moved.firstResponseAt = old.firstResponseAt
      /\ next = "CLOSED" => moved.resolvedAt = old.resolvedAt
  <2> HIDE DEF old
  <2> QED  BY <1>1, <1>3, <1>4, MovedIs
<1> HIDE DEF moved
<1>7. /\ row \in Ticket /\ row.status = next /\ row.updatedAt = old.updatedAt
      /\ row.firstResponseAt = old.firstResponseAt
      /\ next = "CLOSED" => row.resolvedAt = old.resolvedAt
      /\ next \in Active /\ row.assignee # None => role[row.assignee] \in Staff
  <2>1. c.snapshot.assignee = moved.assignee
    BY <1>2, <1>6
  <2> HIDE DEF c, old
  <2> QED  BY <1>6, <2>1, ReopenIs
<1> HIDE DEF row
<1> DEFINE new == Touched(row)
<1>8. /\ new \in Ticket /\ new.updatedAt = old.updatedAt + 1 /\ new.status = next
      /\ new.assignee = row.assignee
      /\ new.firstResponseAt = old.firstResponseAt
      /\ next = "CLOSED" => new.resolvedAt = old.resolvedAt
  <2> HIDE DEF old
  <2> QED  BY <1>1, <1>7, TouchedIs
<1>9. next # "none"
  BY DEF Statuses
<1>10. Rewrites /\ ticket'[t] = new /\ \A u \in Tickets : u # t => ticket'[u] = ticket[u]
  <2> HIDE DEF new, t
  <2> QED  BY <1>1, <1>5, <1>8, <1>9, OneRow DEF DeskType, new
<1> QED  BY <1>1, <1>2, <1>7, <1>8, <1>10 DEF Exists

LEMMA AssignIs ==
  ASSUME DeskType, Snapshots, NEW q \in Requests, NEW u \in Users \cup {None}, Assign(q, u)
  PROVE  LET t == request[q].ticket IN
         /\ t \in Tickets /\ Rewrites /\ \A v \in Tickets : v # t => ticket'[v] = ticket[v]
         /\ ticket'[t].status = ticket[t].status /\ ticket'[t].firstResponseAt = ticket[t].firstResponseAt
         /\ ticket'[t].resolvedAt = ticket[t].resolvedAt
         /\ ticket'[t].assignee = u /\ (u # None => role[u] \in Staff)
<1> DEFINE t == request[q].ticket
           old == ticket[t]
           row == [old EXCEPT !.assignee = u]
           new == Touched(row)
<1>1. request[q] \in Command /\ t \in Tickets /\ old \in Ticket /\ old.updatedAt < MaxWrites /\ request[q] # None
      /\ old.updatedAt = request[q].snapshot.updatedAt
  BY DEF Assign, DeskType, Command, Writable
<1>2. old.status # "none"
  BY <1>1 DEF Snapshots
<1>3. /\ row \in Ticket /\ row.assignee = u /\ row.status = old.status /\ row.updatedAt = old.updatedAt
      /\ row.resolvedAt = old.resolvedAt /\ row.firstResponseAt = old.firstResponseAt
  <2> HIDE DEF old
  <2> QED  BY <1>1, AssignedIs
<1>4. ticket' = [ticket EXCEPT ![t] = new]
  BY DEF Assign
<1> HIDE DEF row
<1>5. /\ new \in Ticket /\ new.updatedAt = old.updatedAt + 1 /\ new.status = old.status
      /\ new.assignee = u /\ new.firstResponseAt = old.firstResponseAt /\ new.resolvedAt = old.resolvedAt
  <2> HIDE DEF old
  <2> QED  BY <1>1, <1>3, TouchedIs
<1>6. Rewrites /\ ticket'[t] = new /\ \A v \in Tickets : v # t => ticket'[v] = ticket[v]
  <2> HIDE DEF new, t
  <2> QED  BY <1>1, <1>2, <1>4, <1>5, OneRow DEF DeskType
<1> QED  BY <1>1, <1>5, <1>6 DEF Assign

LEMMA CreateIs ==
  ASSUME DeskType, NEW a \in Users, NEW t \in Tickets, CreateTicket(a, t), ticket[t].updatedAt = 0
  PROVE  /\ Rewrites /\ \A v \in Tickets : v # t => ticket'[v] = ticket[v]
         /\ ticket'[t].assignee = None /\ ticket'[t].firstResponseAt = 0 /\ ~Exists(t)
         /\ ticket'[t].status = "OPEN"
<1> DEFINE row == [NoTicket EXCEPT !.status = "OPEN", !.customer = a]
           new == Touched(row)
<1>1. /\ row \in Ticket /\ row.updatedAt = 0 /\ row.status = "OPEN" /\ row.assignee = None
      /\ row.firstResponseAt = 0
  <2>1. NoTicket \in [status : Statuses \cup {"none"}, assignee : Users \cup {None}, customer : Users \cup {None},
                      resolvedAt : Stamps, closedAt : Stamps, firstResponseAt : 0 .. MaxThread, updatedAt : Stamps]
    BY Consts DEF NoTicket, Stamps
  <2> QED  BY <2>1 DEF Ticket, Statuses, NoTicket
<1>2. row.updatedAt < MaxWrites
  BY <1>1, Consts
<1> HIDE DEF row
<1>3. new \in Ticket /\ new.updatedAt = 0 + 1 /\ new.status = "OPEN" /\ new.assignee = None /\ new.firstResponseAt = 0
  BY <1>1, <1>2, TouchedIs
<1>4. ticket' = [ticket EXCEPT ![t] = new] /\ ~Exists(t)
  BY DEF CreateTicket, row
<1> HIDE DEF new
<1>5. new.updatedAt = ticket[t].updatedAt + 1
  BY <1>3
<1> QED  BY <1>3, <1>4, <1>5, OneRow DEF DeskType

LEMMA AppendIs ==
  ASSUME DeskType, NEW t \in Tickets, NEW a \in Users, NEW kind \in {"message", "note"}, Append1(t, a, kind)
  PROVE  /\ thread' \in [Tickets -> Seq(Entry)] /\ Len(thread[t]) \in Nat
         /\ Len(thread'[t]) = Len(thread[t]) + 1
         /\ \A i \in 1 .. Len(thread[t]) : thread'[t][i] = thread[t][i]
         /\ thread'[t][Len(thread[t]) + 1] = [kind |-> kind, sender |-> a, staff |-> role[a] \in Staff]
         /\ \A u \in Tickets : u # t => thread'[u] = thread[u]
<1> DEFINE e == [kind |-> kind, sender |-> a, staff |-> role[a] \in Staff]
<1>1. e \in Entry
  BY DEF Entry
<1>2. thread[t] \in Seq(Entry)
  BY DEF DeskType
<1>3. thread' = [thread EXCEPT ![t] = Append(thread[t], e)]
  BY DEF Append1
<1> HIDE DEF e
<1>4. Append(thread[t], e) \in Seq(Entry) /\ Len(Append(thread[t], e)) = Len(thread[t]) + 1
      /\ (\A i \in 1 .. Len(thread[t]) : Append(thread[t], e)[i] = thread[t][i])
      /\ Append(thread[t], e)[Len(thread[t]) + 1] = e /\ Len(thread[t]) \in Nat
  BY <1>1, <1>2
<1>5. thread'[t] = Append(thread[t], e) /\ thread' \in [Tickets -> Seq(Entry)]
      /\ \A u \in Tickets : u # t => thread'[u] = thread[u]
  BY <1>3, <1>4 DEF DeskType
<1> QED  BY <1>4, <1>5 DEF e

LEMMA PostIs ==
  ASSUME DeskType, NEW a \in Users, NEW t \in Tickets, Post(a, t)
  PROVE  LET n == Len(thread[t]) + 1 IN
         /\ Exists(t) /\ Rewrites /\ n \in 1 .. MaxThread /\ Append1(t, a, "message")
         /\ \A u \in Tickets : u # t => ticket'[u] = ticket[u]
         /\ ticket'[t].status = ticket[t].status /\ ticket'[t].assignee = ticket[t].assignee
         /\ ticket'[t].resolvedAt = ticket[t].resolvedAt
         /\ IF role[a] \in Staff /\ ticket[t].firstResponseAt = 0
            THEN ticket'[t].firstResponseAt = n ELSE ticket'[t].firstResponseAt = ticket[t].firstResponseAt
<1> DEFINE n == Len(thread[t]) + 1
           old == ticket[t]
           row == [old EXCEPT !.firstResponseAt = n]
           new == FirstResponse(old, a, n)
<1>1. Exists(t) /\ Append1(t, a, "message") /\ old \in Ticket /\ old.updatedAt < MaxWrites
      /\ ticket' = [ticket EXCEPT ![t] = new] /\ Len(thread[t]) < MaxThread
  BY DEF Post, CanAccess, DeskType, Writable, FitsThread
<1>2. n \in 1 .. MaxThread
  BY <1>1, AppendIs, Consts
<1>3. /\ row \in Ticket /\ row.assignee = old.assignee /\ row.status = old.status
      /\ row.updatedAt = old.updatedAt /\ row.resolvedAt = old.resolvedAt /\ row.firstResponseAt = n
  <2> HIDE DEF old, n
  <2> QED  BY <1>1, <1>2, RespondedIs
<1>4. new = IF role[a] \in Staff /\ old.firstResponseAt = 0 THEN Touched(row) ELSE old
  BY DEF FirstResponse
<1> HIDE DEF row
<1>5. /\ Touched(row) \in Ticket /\ Touched(row).updatedAt = old.updatedAt + 1
      /\ Touched(row).status = old.status /\ Touched(row).assignee = old.assignee
      /\ Touched(row).resolvedAt = old.resolvedAt /\ Touched(row).firstResponseAt = n
  <2> HIDE DEF old, n
  <2> QED  BY <1>1, <1>3, TouchedIs
<1> HIDE DEF new
<1>6. new \in Ticket /\ (new = old \/ (new.updatedAt = old.updatedAt + 1 /\ new.status # "none"))
  BY <1>1, <1>4, <1>5 DEF Exists
<1>7. Rewrites /\ ticket'[t] = new /\ \A u \in Tickets : u # t => ticket'[u] = ticket[u]
  BY <1>1, <1>6, OneRow DEF DeskType
<1> QED  BY <1>1, <1>2, <1>4, <1>5, <1>7

-----------------------------------------------------------------------------
(* What a step does to the desk's tables.                                  *)

\* The commands and members leave the sockets, and those leave the desk.
Quiet == UNCHANGED deskVars

LEMMA DeskStep ==
  ASSUME DeskType, Snapshots, Blank, [Next]_vars
  PROVE  DeskType' /\ Rewrites
<1>1. CASE Quiet
  BY <1>1 DEF Quiet, deskVars, DeskType, Rewrites, Writes
<1>2. ASSUME NEW a \in Users, NEW u \in Users, NEW r \in Roles, AddMember(a, u, r) PROVE DeskType' /\ Rewrites
  BY <1>2 DEF AddMember, DeskType, Rewrites, Writes
<1>3. ASSUME NEW a \in Users, NEW u \in Users, NEW r \in Roles, ChangeRole(a, u, r) PROVE DeskType' /\ Rewrites
  <2>1. CASE r \in Staff
    BY <1>3, <2>1 DEF ChangeRole, DeskType, Rewrites, Writes
  <2>2. CASE r \notin Staff
    <3>1. role' \in [Users -> Roles \cup {"none"}] /\ Release(u) /\ UNCHANGED <<thread, request>>
      BY <1>3, <2>2 DEF ChangeRole, DeskType
    <3>2. Rewrites /\ issueAssignee' \in [Issues -> Users \cup {None}]
      BY <3>1, Released
    <3> QED  BY <3>1, <3>2 DEF DeskType, Rewrites
  <2> QED  BY <2>1, <2>2
<1>4. ASSUME NEW a \in Users, NEW u \in Users, RemoveMember(a, u) PROVE DeskType' /\ Rewrites
  <2>1. role' \in [Users -> Roles \cup {"none"}] /\ Release(u) /\ UNCHANGED <<thread, request>>
    BY <1>4 DEF RemoveMember, DeskType
  <2>2. Rewrites /\ issueAssignee' \in [Issues -> Users \cup {None}]
    BY <2>1, Released
  <2> QED  BY <2>1, <2>2 DEF DeskType, Rewrites
<1>5. ASSUME NEW a \in Users, NEW i \in Issues, NEW u \in Users \cup {None}, AssignIssue(a, i, u)
      PROVE DeskType' /\ Rewrites
  BY <1>5 DEF AssignIssue, DeskType, Rewrites, Writes
<1>6. ASSUME NEW a \in Users, NEW t \in Tickets, CreateTicket(a, t) PROVE DeskType' /\ Rewrites
  <2>1. ticket[t].updatedAt = 0
    BY <1>6 DEF CreateTicket, Blank
  <2>2. Rewrites
    BY <1>6, <2>1, CreateIs
  <2> QED  BY <1>6, <2>2 DEF CreateTicket, DeskType, Rewrites
<1>7. ASSUME NEW a \in Users, NEW t \in Tickets, NEW q \in Requests, ReadTicket(q, a, t)
      PROVE DeskType' /\ Rewrites
  <2>1. [ticket |-> t, actor |-> a, snapshot |-> ticket[t], role |-> role[a]] \in Command
    BY <1>7 DEF ReadTicket, DeskType, Command
  <2> QED  BY <1>7, <2>1 DEF ReadTicket, DeskType, Rewrites, Writes
<1>8. ASSUME NEW q \in Requests, Refuse(q) PROVE DeskType' /\ Rewrites
  BY <1>8 DEF Refuse, Done, DeskType, Rewrites, Writes
<1>9. ASSUME NEW q \in Requests, NEW next \in Statuses, UpdateStatus(q, next) PROVE DeskType' /\ Rewrites
  <2>1. Rewrites
    BY <1>9, StatusIs
  <2>2. UNCHANGED <<role, thread, issueAssignee>> /\ request' = [request EXCEPT ![q] = None]
    BY <1>9 DEF UpdateStatus, Done
  <2> QED  BY <2>1, <2>2 DEF DeskType, Rewrites
<1>10. ASSUME NEW q \in Requests, NEW u \in Users \cup {None}, Assign(q, u) PROVE DeskType' /\ Rewrites
  <2>1. Rewrites
    BY <1>10, AssignIs
  <2>2. UNCHANGED <<role, thread, issueAssignee>> /\ request' = [request EXCEPT ![q] = None]
    BY <1>10 DEF Assign, Done
  <2> QED  BY <2>1, <2>2 DEF DeskType, Rewrites
<1>11. ASSUME NEW a \in Users, NEW t \in Tickets, Post(a, t) PROVE DeskType' /\ Rewrites
  <2>1. Rewrites /\ Append1(t, a, "message")
    BY <1>11, PostIs
  <2>2. thread' \in [Tickets -> Seq(Entry)]
    BY <2>1, AppendIs
  <2> QED  BY <1>11, <2>1, <2>2 DEF Post, DeskType, Rewrites
<1>12. ASSUME NEW a \in Users, NEW t \in Tickets, AddNote(a, t) PROVE DeskType' /\ Rewrites
  <2>1. thread' \in [Tickets -> Seq(Entry)]
    BY <1>12, AppendIs DEF AddNote
  <2> QED  BY <1>12, <2>1 DEF AddNote, DeskType, Rewrites, Writes
<1>13. CASE UNCHANGED vars
  BY <1>1, <1>13 DEF vars, Quiet
<1>14. CASE Members
  BY <1>2, <1>3, <1>4, <1>5, <1>14 DEF Members
<1>15. CASE Commands
  BY <1>6, <1>7, <1>8, <1>9, <1>10, <1>15 DEF Commands
<1>16. CASE Talk
  BY <1>1, <1>11, <1>12, <1>16
  DEF Talk, Disconnect, LookUpJoin, FinishJoin, Connect, Join, Leave, Announce, LookUpDelivery, Deliver,
      DeliveryFails, Restart, Quiet
<1> QED  BY <1>13, <1>14, <1>15, <1>16 DEF Next

\* A request is as it was, or done, or reads a ticket that nobody writes now.
Reads(q) == \/ request'[q] \in {request[q], None}
            \/ /\ ticket' = ticket /\ Exists(request'[q].ticket)
               /\ request'[q].snapshot = ticket[request'[q].ticket]

LEMMA RequestStep == ASSUME DeskType, [Next]_vars, NEW q \in Requests PROVE Reads(q)
<1>1. CASE UNCHANGED request
  BY <1>1 DEF Reads
<1>2. ASSUME NEW p \in Requests, request' = [request EXCEPT ![p] = None] PROVE Reads(q)
  BY <1>2 DEF DeskType, Reads
<1>3. ASSUME NEW a \in Users, NEW t \in Tickets, NEW p \in Requests, ReadTicket(p, a, t) PROVE Reads(q)
  BY <1>3 DEF ReadTicket, CanAccess, DeskType, Reads
<1>4. Commands => \/ UNCHANGED request
                  \/ \E p \in Requests : request' = [request EXCEPT ![p] = None]
                  \/ \E a \in Users, t \in Tickets, p \in Requests : ReadTicket(p, a, t)
  BY DEF Commands, CreateTicket, Refuse, UpdateStatus, Assign, Done
<1>5. Members \/ Talk \/ UNCHANGED vars => UNCHANGED request
  BY DEF Members, AddMember, ChangeRole, RemoveMember, AssignIssue, Talk, Post, AddNote, Disconnect,
         LookUpJoin, FinishJoin, Connect, Join, Leave, Announce, LookUpDelivery, Deliver, DeliveryFails,
         Restart, deskVars, vars
<1> QED  BY <1>1, <1>2, <1>3, <1>4, <1>5 DEF Next

LEMMA SnapshotsNext == ASSUME DeskType, Snapshots, Rewrites, \A q \in Requests : Reads(q), DeskType' PROVE Snapshots'
<1> SUFFICES ASSUME NEW q \in Requests, request'[q] # None
             PROVE  LET c == request'[q] IN
                    /\ c.snapshot.status # "none"
                    /\ c.snapshot.updatedAt <= ticket'[c.ticket].updatedAt
                    /\ c.snapshot.updatedAt = ticket'[c.ticket].updatedAt => c.snapshot = ticket'[c.ticket]
  BY DEF Snapshots
<1> DEFINE c == request'[q]
<1>1. c \in Command
  BY DEF DeskType
<1>2. c.ticket \in Tickets /\ c.snapshot.updatedAt \in Stamps
  BY <1>1 DEF Command, Ticket
<1>3. \A s \in Stamps : s \in Nat
  BY DEF Stamps
<1>4. ticket[c.ticket].updatedAt \in Nat /\ c.snapshot.updatedAt \in Nat
  BY <1>2, <1>3 DEF DeskType, Ticket
<1>5. CASE c = request[q]
  <2>1. /\ c.snapshot.status # "none" /\ c.snapshot.updatedAt <= ticket[c.ticket].updatedAt
        /\ c.snapshot.updatedAt = ticket[c.ticket].updatedAt => c.snapshot = ticket[c.ticket]
    BY <1>5 DEF Snapshots
  <2>2. ticket'[c.ticket] = ticket[c.ticket] \/ ticket'[c.ticket].updatedAt = ticket[c.ticket].updatedAt + 1
    BY <1>2 DEF Rewrites, Writes
  <2>3. \A x, y, z \in Nat : x <= y /\ z = y + 1 => x <= z /\ x # z
    OBVIOUS
  <2> QED  BY <1>4, <2>1, <2>2, <2>3
<1>6. CASE ticket' = ticket /\ Exists(c.ticket) /\ c.snapshot = ticket[c.ticket]
  <2>1. c.snapshot.updatedAt = ticket[c.ticket].updatedAt /\ ticket[c.ticket].status # "none"
    BY <1>6 DEF Exists
  <2> QED  BY <1>4, <1>6, <2>1
<1> QED  BY <1>5, <1>6 DEF Reads

\* A thread grows by one entry, of a ticket that exists, or stays.
Grows(t) == \/ thread'[t] = thread[t]
            \/ Exists(t) /\ \E a \in Users, kind \in {"message", "note"} : Append1(t, a, kind)

LEMMA ThreadStep == ASSUME DeskType, [Next]_vars, NEW t \in Tickets PROVE Grows(t)
<1>1. CASE UNCHANGED thread
  BY <1>1 DEF Grows
<1>2. ASSUME NEW a \in Users, NEW u \in Tickets, Post(a, u) \/ AddNote(a, u) PROVE Grows(t)
  <2>1. Exists(u) /\ \E kind \in {"message", "note"} : Append1(u, a, kind)
    BY <1>2 DEF Post, AddNote, CanAccess
  <2>2. u # t => thread'[t] = thread[t]
    BY <2>1, AppendIs
  <2> QED  BY <2>1, <2>2 DEF Grows
<1>3. Commands \/ Members \/ UNCHANGED vars => UNCHANGED thread
  BY DEF Commands, CreateTicket, ReadTicket, Refuse, UpdateStatus, Assign, Members, AddMember, ChangeRole,
         RemoveMember, AssignIssue, vars, deskVars
<1>4. Talk => UNCHANGED thread \/ \E a \in Users, u \in Tickets : Post(a, u) \/ AddNote(a, u)
  BY DEF Talk, Disconnect, LookUpJoin, FinishJoin, Connect, Join, Leave, Announce, LookUpDelivery, Deliver,
         DeliveryFails, Restart, deskVars
<1> QED  BY <1>1, <1>2, <1>3, <1>4 DEF Next

LEMMA BlankNext == ASSUME Blank, Rewrites, \A t \in Tickets : Grows(t) PROVE Blank'
  BY DEF Blank, Rewrites, Writes, Grows, Exists

LEMMA InitDesk == Init => DeskType /\ Snapshots /\ Blank
<1> SUFFICES ASSUME Init PROVE DeskType /\ Snapshots /\ Blank
  OBVIOUS
<1>1. NoTicket \in Ticket /\ NoTicket.updatedAt = 0 /\ NoTicket.status = "none"
  BY Consts DEF NoTicket, Ticket, Stamps
<1>2. <<>> \in Seq(Entry)
  OBVIOUS
<1> QED
  BY <1>1, <1>2, Consts DEF Init, DeskInit, DeskType, Snapshots, Blank, Exists, Roles

LEMMA DeskNext ==
  ASSUME DeskType, Snapshots, Blank, [Next]_vars
  PROVE  DeskType' /\ Snapshots' /\ Blank' /\ Rewrites
  BY DeskStep, RequestStep, SnapshotsNext, ThreadStep, BlankNext

-----------------------------------------------------------------------------
(* Who may hold a ticket or an issue.                                      *)

LEMMA HoldersNext ==
  ASSUME DeskType, Snapshots, Blank, HoldersAreStaff, [Next]_vars
  PROVE  HoldersAreStaff'
<1>1. ASSUME UNCHANGED <<role, ticket, issueAssignee>> PROVE HoldersAreStaff'
  BY <1>1 DEF HoldersAreStaff
<1>2. ASSUME NEW a \in Users, NEW u \in Users, NEW r \in Roles, AddMember(a, u, r) PROVE HoldersAreStaff'
  BY <1>2 DEF AddMember, HoldersAreStaff, Staff, DeskType, Ticket
<1>3. ASSUME NEW u \in Users, NEW r, role' = [role EXCEPT ![u] = r], Release(u) PROVE HoldersAreStaff'
  <2>1. /\ \A t \in Tickets : /\ ticket'[t].status = ticket[t].status
                              /\ ticket'[t].assignee \in {ticket[t].assignee, None}
                              /\ ticket'[t].status \in Active => ticket'[t].assignee # u
        /\ \A i \in Issues : issueAssignee'[i] \in {issueAssignee[i], None} /\ issueAssignee'[i] # u
    BY <1>3, Released
  <2>2. \A v : v # u => role'[v] = role[v]
    BY <1>3 DEF DeskType
  <2> QED  BY <2>1, <2>2 DEF HoldersAreStaff
<1>4. ASSUME NEW a \in Users, NEW u \in Users, NEW r \in Roles, ChangeRole(a, u, r) PROVE HoldersAreStaff'
  <2>1. CASE r \in Staff
    BY <1>4, <2>1 DEF ChangeRole, HoldersAreStaff, DeskType
  <2>2. CASE r \notin Staff
    BY <1>3, <1>4, <2>2 DEF ChangeRole
  <2> QED  BY <2>1, <2>2
<1>5. ASSUME NEW a \in Users, NEW u \in Users, RemoveMember(a, u) PROVE HoldersAreStaff'
  BY <1>3, <1>5 DEF RemoveMember
<1>6. ASSUME NEW a \in Users, NEW i \in Issues, NEW u \in Users \cup {None}, AssignIssue(a, i, u)
      PROVE HoldersAreStaff'
  BY <1>6 DEF AssignIssue, HoldersAreStaff, DeskType
<1>7. ASSUME NEW t \in Tickets, UNCHANGED <<role, issueAssignee>>, \A u \in Tickets : u # t => ticket'[u] = ticket[u],
             ticket'[t].status \in Active /\ ticket'[t].assignee # None => role[ticket'[t].assignee] \in Staff
      PROVE HoldersAreStaff'
  BY <1>7 DEF HoldersAreStaff
<1>8. ASSUME NEW a \in Users, NEW t \in Tickets, CreateTicket(a, t) PROVE HoldersAreStaff'
  <2>1. ticket[t].updatedAt = 0
    BY <1>8 DEF CreateTicket, Blank
  <2> QED  BY <1>7, <1>8, <2>1, CreateIs DEF CreateTicket
<1>9. ASSUME NEW q \in Requests, NEW next \in Statuses, UpdateStatus(q, next) PROVE HoldersAreStaff'
  <2>1. UNCHANGED <<role, issueAssignee>>
    BY <1>9 DEF UpdateStatus
  <2> QED  BY <1>7, <1>9, <2>1, StatusIs
<1>10. ASSUME NEW q \in Requests, NEW u \in Users \cup {None}, Assign(q, u) PROVE HoldersAreStaff'
  <2>1. UNCHANGED <<role, issueAssignee>>
    BY <1>10 DEF Assign
  <2> QED  BY <1>7, <1>10, <2>1, AssignIs
<1>11. ASSUME NEW a \in Users, NEW t \in Tickets, Post(a, t) PROVE HoldersAreStaff'
  <2>1. UNCHANGED <<role, issueAssignee>>
    BY <1>11 DEF Post
  <2>2. ticket'[t].status = ticket[t].status /\ ticket'[t].assignee = ticket[t].assignee
        /\ \A u \in Tickets : u # t => ticket'[u] = ticket[u]
    BY <1>11, PostIs
  <2> QED  BY <1>7, <2>1, <2>2 DEF HoldersAreStaff
<1>12. Members => HoldersAreStaff'
  BY <1>2, <1>4, <1>5, <1>6 DEF Members
<1>13. Commands => HoldersAreStaff'
  BY <1>1, <1>8, <1>9, <1>10 DEF Commands, ReadTicket, Refuse
<1>14. Talk \/ UNCHANGED vars => HoldersAreStaff'
  BY <1>1, <1>11
  DEF Talk, AddNote, Disconnect, LookUpJoin, FinishJoin, Connect, Join, Leave, Announce, LookUpDelivery,
      Deliver, DeliveryFails, Restart, deskVars, vars
<1> QED  BY <1>12, <1>13, <1>14 DEF Next

LEMMA InitHolders == Init => HoldersAreStaff
  BY DEF Init, DeskInit, HoldersAreStaff, NoTicket, Active

\* Whoever holds an active ticket or an issue is staff, whatever commands were
\* under way while roles changed (org.service, assignment.service, ticket.service).
THEOREM OnlyStaffHolds == Spec => []HoldersAreStaff
<1>1. DeskType /\ Snapshots /\ Blank /\ HoldersAreStaff /\ [Next]_vars => HoldersAreStaff'
  BY HoldersNext
<1>2. DeskType /\ Snapshots /\ Blank /\ [Next]_vars => DeskType' /\ Snapshots' /\ Blank'
  BY DeskNext
<1> QED  BY <1>1, <1>2, InitDesk, InitHolders, PTL DEF Spec

-----------------------------------------------------------------------------
(* What a resolution is.                                                   *)

MovesAlong(t) ==
  \/ ticket'[t].status = ticket[t].status
  \/ ~Exists(t) /\ ticket'[t].status = "OPEN"
  \/ /\ Exists(t) /\ ticket'[t].status \in Transitions[ticket[t].status]
     /\ ticket'[t].status = "CLOSED" => ticket'[t].resolvedAt = ticket[t].resolvedAt

LEMMA StatusStep == ASSUME DeskType, Snapshots, Blank, [Next]_vars, NEW t \in Tickets PROVE MovesAlong(t)
<1>1. CASE UNCHANGED ticket
  BY <1>1 DEF MovesAlong
<1>2. ASSUME NEW u \in Users, Release(u) PROVE MovesAlong(t)
  BY <1>2, Released DEF MovesAlong
<1>3. ASSUME NEW a \in Users, NEW v \in Tickets, CreateTicket(a, v) PROVE MovesAlong(t)
  <2>1. ticket[v].updatedAt = 0
    BY <1>3 DEF CreateTicket, Blank
  <2>2. ~Exists(v) /\ ticket'[v].status = "OPEN" /\ (t # v => ticket'[t] = ticket[t])
    BY <1>3, <2>1, CreateIs
  <2> QED  BY <2>2 DEF MovesAlong
<1>4. ASSUME NEW q \in Requests, NEW next \in Statuses, UpdateStatus(q, next) PROVE MovesAlong(t)
  <2> DEFINE v == request[q].ticket
  <2>1. /\ Exists(v) /\ ticket'[v].status = next /\ next \in Transitions[ticket[v].status]
        /\ next = "CLOSED" => ticket'[v].resolvedAt = ticket[v].resolvedAt
        /\ t # v => ticket'[t] = ticket[t]
    BY <1>4, StatusIs
  <2> QED  BY <2>1 DEF MovesAlong
<1>5. ASSUME NEW q \in Requests, NEW u \in Users \cup {None}, Assign(q, u) PROVE MovesAlong(t)
  <2> DEFINE v == request[q].ticket
  <2>1. ticket'[v].status = ticket[v].status /\ (t # v => ticket'[t] = ticket[t])
    BY <1>5, AssignIs
  <2> QED  BY <2>1 DEF MovesAlong
<1>6. ASSUME NEW a \in Users, NEW v \in Tickets, Post(a, v) PROVE MovesAlong(t)
  <2>1. ticket'[v].status = ticket[v].status /\ (t # v => ticket'[t] = ticket[t])
    BY <1>6, PostIs
  <2> QED  BY <2>1 DEF MovesAlong
<1>7. Members => UNCHANGED ticket \/ \E u \in Users : Release(u)
  BY DEF Members, AddMember, ChangeRole, RemoveMember, AssignIssue
<1>8. Commands => MovesAlong(t)
  BY <1>1, <1>3, <1>4, <1>5 DEF Commands, ReadTicket, Refuse
<1>9. Talk \/ UNCHANGED vars => MovesAlong(t)
  BY <1>1, <1>6
  DEF Talk, AddNote, Disconnect, LookUpJoin, FinishJoin, Connect, Join, Leave, Announce, LookUpDelivery,
      Deliver, DeliveryFails, Restart, deskVars, vars
<1> QED  BY <1>1, <1>2, <1>7, <1>8, <1>9 DEF Next

LEMMA ResolutionStep ==
  ASSUME DeskType, Snapshots, Blank, [Next]_vars, NEW t \in Tickets
  PROVE  /\ ticket[t].status # "CLOSED" /\ ticket'[t].status = "CLOSED"
            => ticket[t].status = "RESOLVED" /\ ticket'[t].resolvedAt = ticket[t].resolvedAt
         /\ ticket'[t].status # ticket[t].status /\ Exists(t)
            => ticket'[t].status \in Transitions[ticket[t].status]
<1>1. MovesAlong(t)
  BY StatusStep
<1>2. ticket[t].status \in Statuses \cup {"none"}
  BY DEF DeskType, Ticket
<1>3. Exists(t) /\ "CLOSED" \in Transitions[ticket[t].status] => ticket[t].status = "RESOLVED"
  BY <1>2 DEF Exists, Statuses, Transitions
<1> QED  BY <1>1, <1>3 DEF MovesAlong

\* Statuses move only along the policy, and a closed ticket keeps the time it
\* was resolved at, also when the closing command is older (ticketStatusChange).
THEOREM ResolutionsAreKept == Spec => ResolutionKept
<1>1. DeskType /\ Snapshots /\ Blank /\ [Next]_vars => DeskType' /\ Snapshots' /\ Blank'
  BY DeskNext
<1>2. DeskType /\ Snapshots /\ Blank /\ [Next]_vars =>
        [\A t \in Tickets :
           /\ ticket[t].status # "CLOSED" /\ ticket'[t].status = "CLOSED"
              => ticket[t].status = "RESOLVED" /\ ticket'[t].resolvedAt = ticket[t].resolvedAt
           /\ ticket'[t].status # ticket[t].status /\ Exists(t)
              => ticket'[t].status \in Transitions[ticket[t].status]]_vars
  BY ResolutionStep
<1> QED  BY <1>1, <1>2, InitDesk, PTL DEF Spec, ResolutionKept

-----------------------------------------------------------------------------
(* What a first response is.                                               *)

\* The parts of FirstResponseIsFirst for one ticket.
IsResponse(s, i) == s[i].kind = "message" /\ s[i].staff
RespondedFirst(n, s) ==
  /\ n # 0 => n <= Len(s) /\ IsResponse(s, n)
  /\ \A i \in 1 .. Len(s) : IsResponse(s, i) => n # 0 /\ n <= i

LEMMA FirstResponseNext ==
  ASSUME DeskType, Snapshots, Blank, FirstResponseIsFirst, [Next]_vars
  PROVE  FirstResponseIsFirst'
<1> SUFFICES ASSUME NEW t \in Tickets
             PROVE  RespondedFirst(ticket'[t].firstResponseAt, thread'[t])
  BY DEF FirstResponseIsFirst, RespondedFirst, IsResponse
<1>0. /\ ticket[t].firstResponseAt \in Nat /\ Len(thread[t]) \in Nat
      /\ ticket[t].firstResponseAt # 0 => /\ ticket[t].firstResponseAt <= Len(thread[t])
                                          /\ IsResponse(thread[t], ticket[t].firstResponseAt)
      /\ \A i \in 1 .. Len(thread[t]) :
           IsResponse(thread[t], i) => ticket[t].firstResponseAt # 0 /\ ticket[t].firstResponseAt <= i
  <2>1. ticket[t] \in Ticket /\ thread[t] \in Seq(Entry)
    BY DEF DeskType
  <2>2. ticket[t].firstResponseAt \in Nat
    BY <2>1, Consts DEF Ticket
  <2>3. Len(thread[t]) \in Nat
    BY <2>1
  <2> QED  BY <2>2, <2>3 DEF FirstResponseIsFirst, IsResponse
<1>1. ASSUME thread'[t] = thread[t], ticket'[t].firstResponseAt = ticket[t].firstResponseAt
      PROVE  RespondedFirst(ticket'[t].firstResponseAt, thread'[t])
  BY <1>0, <1>1 DEF RespondedFirst, IsResponse
<1>2. ASSUME NEW a \in Users, NEW kind \in {"message", "note"}, Append1(t, a, kind),
             IF kind = "message" /\ role[a] \in Staff /\ ticket[t].firstResponseAt = 0
             THEN ticket'[t].firstResponseAt = Len(thread[t]) + 1
             ELSE ticket'[t].firstResponseAt = ticket[t].firstResponseAt
      PROVE  RespondedFirst(ticket'[t].firstResponseAt, thread'[t])
  <2> DEFINE n == ticket[t].firstResponseAt
             m == ticket'[t].firstResponseAt
             len == Len(thread[t])
             new == thread'[t]
  <2>1. /\ len \in Nat /\ Len(thread'[t]) = len + 1 /\ n \in Nat
        /\ \A i \in 1 .. len : thread'[t][i] = thread[t][i]
        /\ thread'[t][len + 1] = [kind |-> kind, sender |-> a, staff |-> role[a] \in Staff]
    BY <1>0, <1>2, AppendIs
  <2>2. /\ \A i \in 1 .. len : IsResponse(new, i) <=> IsResponse(thread[t], i)
        /\ thread'[t][len + 1].kind = "message" /\ thread'[t][len + 1].staff
           <=> kind = "message" /\ role[a] \in Staff
    <3>1. \A i \in 1 .. len : IsResponse(new, i) <=> IsResponse(thread[t], i)
      BY <2>1 DEF IsResponse
    <3>2. thread'[t][len + 1].kind = kind /\ thread'[t][len + 1].staff = (role[a] \in Staff)
      BY <2>1
    <3> QED  BY <3>1, <3>2
  <2>3. CASE kind = "message" /\ role[a] \in Staff /\ n = 0
    <3>1. m = len + 1
      BY <1>2, <2>3
    <3>2. \A i \in 1 .. len : ~IsResponse(new, i)
      BY <1>0, <2>2, <2>3
    <3> QED  BY <2>1, <2>2, <2>3, <3>1, <3>2 DEF RespondedFirst, IsResponse
  <2>4. CASE ~(kind = "message" /\ role[a] \in Staff /\ n = 0)
    <3>1. m = n
      BY <1>2, <2>4
    <3>2. n # 0 => n \in 1 .. len /\ IsResponse(new, n) /\ n <= len + 1
      BY <1>0, <2>1, <2>2
    <3>3. \A i \in 1 .. len + 1 : IsResponse(new, i) => n # 0 /\ n <= i
      <4>1. \A i \in 1 .. len : IsResponse(new, i) => n # 0 /\ n <= i
        BY <1>0, <2>2
      <4>2. IsResponse(new, len + 1) => n # 0
        BY <2>1, <2>2, <2>4 DEF IsResponse
      <4>3. \A i \in 1 .. len + 1 : i \in 1 .. len \/ i = len + 1
        BY <2>1
      <4> QED  BY <3>2, <4>1, <4>2, <4>3 DEF IsResponse
    <3> QED  BY <2>1, <3>1, <3>2, <3>3 DEF RespondedFirst
  <2> QED  BY <2>3, <2>4
<1>3. Blank /\ ~Exists(t) => ticket[t].firstResponseAt = 0
  <2>1. ~Exists(t) => Len(thread[t]) = 0
    BY DEF Blank
  <2> QED  BY <1>0, <2>1
<1>4. ASSUME UNCHANGED <<ticket, thread>> PROVE RespondedFirst(ticket'[t].firstResponseAt, thread'[t])
  BY <1>1, <1>4
<1>5. ASSUME NEW u \in Users, Release(u), UNCHANGED thread PROVE RespondedFirst(ticket'[t].firstResponseAt, thread'[t])
  BY <1>1, <1>5, Released
<1>6. ASSUME NEW a \in Users, NEW v \in Tickets, CreateTicket(a, v) PROVE RespondedFirst(ticket'[t].firstResponseAt, thread'[t])
  <2>1. ticket[v].updatedAt = 0
    BY <1>6 DEF CreateTicket, Blank
  <2>2. ~Exists(v) /\ ticket'[v].firstResponseAt = 0 /\ (t # v => ticket'[t] = ticket[t]) /\ thread' = thread
    BY <1>6, <2>1, CreateIs DEF CreateTicket
  <2> QED  BY <1>1, <1>3, <2>2
<1>7. ASSUME NEW q \in Requests, NEW next \in Statuses, UpdateStatus(q, next) PROVE RespondedFirst(ticket'[t].firstResponseAt, thread'[t])
  <2> DEFINE v == request[q].ticket
  <2>1. /\ ticket'[v].firstResponseAt = ticket[v].firstResponseAt /\ (t # v => ticket'[t] = ticket[t])
        /\ thread' = thread
    BY <1>7, StatusIs DEF UpdateStatus
  <2> QED  BY <1>1, <2>1
<1>8. ASSUME NEW q \in Requests, NEW u \in Users \cup {None}, Assign(q, u) PROVE RespondedFirst(ticket'[t].firstResponseAt, thread'[t])
  <2> DEFINE v == request[q].ticket
  <2>1. /\ ticket'[v].firstResponseAt = ticket[v].firstResponseAt /\ (t # v => ticket'[t] = ticket[t])
        /\ thread' = thread
    BY <1>8, AssignIs DEF Assign
  <2> QED  BY <1>1, <2>1
<1>9. ASSUME NEW a \in Users, NEW v \in Tickets, Post(a, v) PROVE RespondedFirst(ticket'[t].firstResponseAt, thread'[t])
  <2>1. /\ Append1(v, a, "message")
        /\ t # v => ticket'[t] = ticket[t] /\ thread'[t] = thread[t]
        /\ IF role[a] \in Staff /\ ticket[v].firstResponseAt = 0
           THEN ticket'[v].firstResponseAt = Len(thread[v]) + 1
           ELSE ticket'[v].firstResponseAt = ticket[v].firstResponseAt
    BY <1>9, PostIs, AppendIs
  <2> QED  BY <1>1, <1>2, <2>1
<1>10. ASSUME NEW a \in Users, NEW v \in Tickets, AddNote(a, v) PROVE RespondedFirst(ticket'[t].firstResponseAt, thread'[t])
  <2>1. Append1(v, a, "note") /\ ticket' = ticket /\ (t # v => thread'[t] = thread[t])
    BY <1>10, AppendIs DEF AddNote
  <2> QED  BY <1>1, <1>2, <2>1
<1>11. Members => UNCHANGED <<ticket, thread>> \/ \E u \in Users : Release(u) /\ UNCHANGED thread
  BY DEF Members, AddMember, ChangeRole, RemoveMember, AssignIssue
<1>12. Commands => RespondedFirst(ticket'[t].firstResponseAt, thread'[t])
  BY <1>4, <1>6, <1>7, <1>8 DEF Commands, ReadTicket, Refuse
<1>13. Talk \/ UNCHANGED vars => RespondedFirst(ticket'[t].firstResponseAt, thread'[t])
  BY <1>4, <1>9, <1>10
  DEF Talk, Disconnect, LookUpJoin, FinishJoin, Connect, Join, Leave, Announce, LookUpDelivery,
      Deliver, DeliveryFails, Restart, deskVars, vars
<1> QED  BY <1>4, <1>5, <1>11, <1>12, <1>13 DEF Next

LEMMA InitFirst == Init => FirstResponseIsFirst
<1> SUFFICES ASSUME Init, NEW t \in Tickets
             PROVE  ticket[t].firstResponseAt = 0 /\ Len(thread[t]) = 0
  BY DEF FirstResponseIsFirst
<1> QED  BY DEF Init, DeskInit, NoTicket

\* The first response is the first message staff of the time sent, whoever
\* posts and changes roles meanwhile (persistTicketMessage).
THEOREM ResponsesAreFirst == Spec => []FirstResponseIsFirst
<1>1. DeskType /\ Snapshots /\ Blank /\ [Next]_vars => DeskType' /\ Snapshots' /\ Blank'
  BY DeskNext
<1>2. DeskType /\ Snapshots /\ Blank /\ FirstResponseIsFirst /\ [Next]_vars => FirstResponseIsFirst'
  BY FirstResponseNext
<1> QED  BY <1>1, <1>2, InitDesk, InitFirst, PTL DEF Spec

-----------------------------------------------------------------------------
(* Sockets, rooms and deliveries.                                          *)

LEMMA DeliveryIs ==
  ASSUME NEW d \in Delivery, NEW x \in {"unknown", "yes", "no"}
  PROVE  /\ [d EXCEPT !.allowed = x] \in Delivery
         /\ [d EXCEPT !.allowed = x].message = d.message
         /\ [d EXCEPT !.allowed = x].socket = d.socket
         /\ [d EXCEPT !.allowed = x].allowed = x
  BY DEF Delivery

LEMMA AnswerIs == \A u, t : /\ Answer(u, t) \in {"yes", "no"}
                            /\ Answer(u, t) = "yes" => u # None /\ CanAccess(u, t)
  BY DEF Answer

\* The step's part that is the sockets' and the announcements'.
SocketStep == \/ \E s \in Sockets : \/ Disconnect(s)
                                    \/ \E u \in Users : Connect(s, u)
                                    \/ \E t \in Tickets : Leave(s, t) \/ \E j \in Joins : Join(j, s, t)
              \/ \E j \in Joins : LookUpJoin(j) \/ FinishJoin(j)
              \/ \E m \in unannounced : Announce(m)
              \/ \E d \in pending : LookUpDelivery(d) \/ Deliver(d) \/ DeliveryFails(d)
              \/ Restart
PostStep == \E a \in Users, t \in Tickets : Post(a, t)

LEMMA StepIs == [Next]_vars => \/ UNCHANGED realtimeVars
                               \/ PostStep
                               \/ SocketStep /\ UNCHANGED deskVars
  BY DEF Next, Talk, AddNote, PostStep, SocketStep, Disconnect, LookUpJoin, FinishJoin, Connect, Join,
         Leave, Announce, LookUpDelivery, Deliver, DeliveryFails, Restart, vars

LEMMA PostTells ==
  ASSUME DeskType, RealtimeType, NEW a \in Users, NEW t \in Tickets, Post(a, t)
  PROVE  LET m == <<t, Len(thread[t]) + 1>> IN
         /\ m \in Messages /\ unannounced' \subseteq unannounced \cup {m}
         /\ UNCHANGED <<roomVars, pending, delivered, wants, overtaken>>
         /\ m \in Posted' /\ thread'[m[1]][m[2]].kind = "message"
<1>1. Len(thread[t]) + 1 \in 1 .. MaxThread /\ Append1(t, a, "message")
  BY PostIs
<1>2. /\ Len(thread'[t]) = Len(thread[t]) + 1
      /\ thread'[t][Len(thread[t]) + 1] = [kind |-> "message", sender |-> a, staff |-> role[a] \in Staff]
  BY <1>1, AppendIs
<1>3. <<t, Len(thread[t]) + 1>> \in Messages
  BY <1>1 DEF Messages
<1>4. <<t, Len(thread[t]) + 1>> \in Posted' /\ thread'[t][Len(thread[t]) + 1].kind = "message"
  BY <1>1, <1>2, <1>3 DEF Posted
<1> QED  BY <1>3, <1>4 DEF Post

LEMMA RealtimeNext == ASSUME DeskType, RealtimeType, [Next]_vars PROVE RealtimeType'
<1>1. CASE UNCHANGED realtimeVars
  BY <1>1 DEF realtimeVars, RealtimeType
<1>2. CASE PostStep
  <2> PICK a \in Users, t \in Tickets : Post(a, t)
    BY <1>2 DEF PostStep
  <2> DEFINE m == <<t, Len(thread[t]) + 1>>
  <2>1. m \in Messages /\ unannounced' \subseteq unannounced \cup {m}
        /\ UNCHANGED <<roomVars, pending, delivered, wants, overtaken>>
    BY PostTells
  <2> HIDE DEF m
  <2> QED  BY <2>1 DEF roomVars, RealtimeType
<1>3. ASSUME NEW s \in Sockets, Disconnect(s) PROVE RealtimeType'
  BY <1>3 DEF Disconnect, Gone, RealtimeType
<1>4. ASSUME NEW j \in Joins, LookUpJoin(j) PROVE RealtimeType'
  <2>1. joining[j] \in JoinCall
    BY <1>4 DEF LookUpJoin, RealtimeType
  <2>2. Answer(user[joining[j].socket], joining[j].ticket) \in {"unknown", "yes", "no"}
    BY AnswerIs
  <2>3. [joining[j] EXCEPT !.allowed = Answer(user[joining[j].socket], joining[j].ticket)] \in JoinCall
    BY <2>1, <2>2 DEF JoinCall
  <2>4. joining' \in [Joins -> JoinCall \cup {None}]
    BY <1>4, <2>3 DEF LookUpJoin, RealtimeType
  <2> QED  BY <1>4, <2>4 DEF LookUpJoin, RealtimeType
<1>5. ASSUME NEW j \in Joins, FinishJoin(j) PROVE RealtimeType'
  <2>1. joining[j].ticket \in Tickets /\ joining[j].socket \in Sockets
    BY <1>5 DEF FinishJoin, RealtimeType, JoinCall
  <2> QED  BY <1>5, <2>1 DEF FinishJoin, RealtimeType
<1>6. ASSUME NEW s \in Sockets, NEW u \in Users, Connect(s, u) PROVE RealtimeType'
  BY <1>6 DEF Connect, RealtimeType
<1>7. ASSUME NEW s \in Sockets, NEW t \in Tickets, NEW j \in Joins, Join(j, s, t) PROVE RealtimeType'
  <2>1. [socket |-> s, ticket |-> t, allowed |-> "unknown"] \in JoinCall
    BY DEF JoinCall
  <2>2. joining' \in [Joins -> JoinCall \cup {None}]
    BY <1>7, <2>1 DEF Join, RealtimeType
  <2> QED  BY <1>7, <2>2 DEF Join, RealtimeType
<1>8. ASSUME NEW s \in Sockets, NEW t \in Tickets, Leave(s, t) PROVE RealtimeType'
  BY <1>8 DEF Leave, RealtimeType
<1>9. ASSUME NEW m \in unannounced, Announce(m) PROVE RealtimeType'
  <2>1. \A s \in Sockets : [message |-> m, socket |-> s, allowed |-> "unknown"] \in Delivery
    BY DEF RealtimeType, Delivery
  <2> QED  BY <1>9, <2>1 DEF Announce, roomVars, RealtimeType
<1>10. ASSUME NEW d \in pending, LookUpDelivery(d) PROVE RealtimeType'
  <2>1. d \in Delivery /\ LookUp(d) \in {"unknown", "yes", "no"}
    BY AnswerIs DEF LookUp, RealtimeType
  <2>2. [d EXCEPT !.allowed = LookUp(d)] \in Delivery
    BY <2>1, DeliveryIs
  <2> QED  BY <1>10, <2>2 DEF LookUpDelivery, roomVars, RealtimeType
<1>11. ASSUME NEW d \in pending, Deliver(d) PROVE RealtimeType'
  <2>1. d.message \in Messages /\ d.socket \in Sockets
    BY DEF RealtimeType, Delivery
  <2>2. room' \in [Sockets -> SUBSET Tickets] /\ delivered' \subseteq Messages \X Sockets
    BY <1>11, <2>1 DEF Deliver, RealtimeType
  <2> QED  BY <1>11, <2>2 DEF Deliver, RealtimeType
<1>12. ASSUME NEW d \in pending, DeliveryFails(d) PROVE RealtimeType'
  BY <1>12 DEF DeliveryFails, Gone, RealtimeType
<1>13. ASSUME Restart PROVE RealtimeType'
  BY <1>13 DEF Restart, RealtimeType
<1>14. SocketStep => RealtimeType'
  BY <1>3, <1>4, <1>5, <1>6, <1>7, <1>8, <1>9, <1>10, <1>11, <1>12, <1>13 DEF SocketStep
<1> QED  BY <1>1, <1>2, <1>14, StepIs

Entitled == entitled \in [Messages -> SUBSET Users]

LEMMA EntitledNext == ASSUME Entitled, [Next]_vars PROVE Entitled'
<1>1. CASE Next
  <2>1. \A m \in Messages : (IF m \in Posted' THEN entitled[m] \cup Readers(m[1])' ELSE {}) \in SUBSET Users
    BY DEF Entitled, Readers
  <2> QED  BY <1>1, <2>1 DEF Next, Remember, Entitled
<1>2. CASE UNCHANGED vars
  BY <1>2 DEF vars, Entitled
<1> QED  BY <1>1, <1>2

LEMMA InitRealtime == Init => RealtimeType /\ Entitled
  BY DEF Init, RealtimeInit, RealtimeType, Entitled

\* The types, for any number of users, tickets, commands and sockets.
THEOREM DeskTyped == Spec => []TypeOK
<1>1. DeskType /\ Snapshots /\ Blank /\ [Next]_vars => DeskType' /\ Snapshots' /\ Blank'
  BY DeskNext
<1>2. DeskType /\ RealtimeType /\ Entitled /\ [Next]_vars => RealtimeType' /\ Entitled'
  BY RealtimeNext, EntitledNext
<1>3. DeskType /\ RealtimeType /\ Entitled => TypeOK
  BY DEF TypeOK, Entitled
<1> QED  BY <1>1, <1>2, <1>3, InitDesk, InitRealtime, PTL DEF Spec

-----------------------------------------------------------------------------
(* Who is delivered a message.                                             *)

\* What was posted stays, as what it was.
LEMMA MessagesStay ==
  ASSUME DeskType, \A t \in Tickets : Grows(t), NEW m \in Posted
  PROVE  m \in Posted' /\ thread'[m[1]][m[2]] = thread[m[1]][m[2]]
<1> DEFINE t == m[1]
<1>1. m \in Messages /\ t \in Tickets /\ m[2] \in Nat /\ m[2] >= 1 /\ m[2] <= Len(thread[t])
  BY DEF Posted, Messages
<1>2. CASE thread'[t] = thread[t]
  BY <1>1, <1>2 DEF Posted
<1>3. CASE \E a \in Users, kind \in {"message", "note"} : Append1(t, a, kind)
  <2>1. /\ Len(thread[t]) \in Nat /\ Len(thread'[t]) = Len(thread[t]) + 1
        /\ \A i \in 1 .. Len(thread[t]) : thread'[t][i] = thread[t][i]
    BY <1>1, <1>3, AppendIs
  <2>2. m[2] \in 1 .. Len(thread[t]) /\ m[2] <= Len(thread'[t])
    BY <1>1, <2>1
  <2> QED  BY <1>1, <2>1, <2>2 DEF Posted
<1> QED  BY <1>1, <1>2, <1>3 DEF Grows

\* Who could read a message at some time since it was posted.
LEMMA EntitledGrows ==
  ASSUME [Next]_vars, NEW m \in Posted, m \in Posted'
  PROVE  /\ entitled[m] \subseteq entitled'[m]
         /\ UNCHANGED deskVars /\ ~UNCHANGED vars => Readers(m[1]) \subseteq entitled'[m]
<1>1. m \in Messages
  BY DEF Posted
<1>2. CASE Next
  <2>1. entitled'[m] = entitled[m] \cup Readers(m[1])'
    BY <1>1, <1>2 DEF Next, Remember
  <2>2. UNCHANGED deskVars => Readers(m[1])' = Readers(m[1])
    BY DEF deskVars, Readers, CanAccess, Exists
  <2> QED  BY <2>1, <2>2
<1>3. CASE UNCHANGED vars
  BY <1>3 DEF vars
<1> QED  BY <1>2, <1>3

\* An announcement that may stay under way: of a message, to a socket whose
\* user, if it is still connected, could read it.
Sound(d) == /\ IsMessage(d.message)
            /\ d.allowed = "yes" /\ user[d.socket] # None => user[d.socket] \in entitled[d.message]

LEMMA StaysSound ==
  ASSUME DeskType, \A t \in Tickets : Grows(t), [Next]_vars, NEW d, Sound(d),
         user'[d.socket] \in {user[d.socket], None}
  PROVE  Sound(d)'
<1>1. d.message \in Posted /\ thread[d.message[1]][d.message[2]].kind = "message"
  BY DEF Sound, IsMessage
<1>2. d.message \in Posted' /\ thread'[d.message[1]][d.message[2]].kind = "message"
  BY <1>1, MessagesStay
<1>3. entitled[d.message] \subseteq entitled'[d.message]
  BY <1>1, <1>2, EntitledGrows
<1> QED  BY <1>1, <1>2, <1>3 DEF Sound, IsMessage

LEMMA SoundNext ==
  ASSUME DeskType, RealtimeType, Snapshots, Blank, Announcements, [Next]_vars
  PROVE  Announcements'
<1>1. \A t \in Tickets : Grows(t)
  BY ThreadStep
<1>2. \A m \in unannounced : IsMessage(m) /\ IsMessage(m)'
  BY <1>1, MessagesStay DEF Announcements, IsMessage
<1>3. \A d \in pending : Sound(d) /\ d \in Delivery
  BY DEF Announcements, Sound, RealtimeType
<1>4. ASSUME NEW d \in pending, user'[d.socket] \in {user[d.socket], None} PROVE Sound(d)'
  BY <1>1, <1>3, <1>4, StaysSound
<1>5. ASSUME unannounced' \subseteq unannounced, pending' \subseteq pending,
             \A s \in Sockets : user'[s] \in {user[s], None}
      PROVE Announcements'
  <2>1. \A d \in pending' : Sound(d)'
    BY <1>3, <1>4, <1>5 DEF Delivery
  <2> QED  BY <1>2, <1>5, <2>1 DEF Announcements, Sound
<1>6. CASE UNCHANGED realtimeVars
  BY <1>5, <1>6 DEF realtimeVars
<1>7. CASE PostStep
  <2> PICK a \in Users, t \in Tickets : Post(a, t)
    BY <1>7 DEF PostStep
  <2> PICK n : n = Len(thread[t]) + 1
    OBVIOUS
  <2>1. /\ unannounced' \subseteq unannounced \cup {<<t, n>>}
        /\ UNCHANGED <<roomVars, pending>> /\ <<t, n>> \in Posted' /\ thread'[t][n].kind = "message"
    BY PostTells
  <2>2. \A d \in pending' : Sound(d)'
    BY <1>4, <2>1 DEF roomVars
  <2>3. IsMessage(<<t, n>>)'
    BY <2>1 DEF IsMessage
  <2> QED  BY <1>2, <2>1, <2>2, <2>3 DEF Announcements, Sound
<1>8. /\ \A s \in Sockets : Disconnect(s) => Announcements'
      /\ \A j \in Joins : LookUpJoin(j) \/ FinishJoin(j) => Announcements'
  BY <1>5 DEF Disconnect, Gone, LookUpJoin, FinishJoin, RealtimeType
<1>9. ASSUME NEW s \in Sockets, NEW u \in Users, Connect(s, u) PROVE Announcements'
  <2>1. \A d \in pending : user'[d.socket] = user[d.socket]
    BY <1>3, <1>9 DEF Connect, Delivery, RealtimeType
  <2>2. \A d \in pending' : Sound(d)'
    BY <1>4, <1>9, <2>1 DEF Connect
  <2> QED  BY <1>2, <1>9, <2>2 DEF Connect, Announcements, Sound
<1>10. \A s \in Sockets, t \in Tickets : Leave(s, t) \/ (\E j \in Joins : Join(j, s, t)) => Announcements'
  BY <1>5 DEF Join, Leave
<1>11. ASSUME NEW m \in unannounced, Announce(m) PROVE Announcements'
  <2>1. \A s \in Sockets : LET d == [message |-> m, socket |-> s, allowed |-> "unknown"] IN Sound(d)'
    BY <1>2 DEF Sound, IsMessage
  <2>2. \A d \in pending : Sound(d)'
    BY <1>4, <1>11 DEF Announce, roomVars
  <2>3. \A d \in pending' : Sound(d)'
    BY <1>11, <2>1, <2>2 DEF Announce
  <2> QED  BY <1>2, <1>11, <2>3 DEF Announce, Announcements, Sound
<1>12. ASSUME NEW d \in pending, LookUpDelivery(d) PROVE Announcements'
  <2>1. d \in Delivery /\ LookUp(d) \in {"yes", "no"} /\ Sound(d) /\ d.socket \in Sockets
        /\ UNCHANGED <<deskVars, roomVars, unannounced>>
    BY <1>3, <1>12, AnswerIs DEF LookUp, LookUpDelivery, Delivery
  <2> PICK e : e = [d EXCEPT !.allowed = LookUp(d)]
    OBVIOUS
  <2>2. e.message = d.message /\ e.socket = d.socket /\ e.allowed = LookUp(d)
    BY <2>1, DeliveryIs
  <2>3. d.message \in Posted /\ d.message \in Posted' /\ IsMessage(d.message)'
    BY <1>1, <2>1, MessagesStay DEF Sound, IsMessage
  <2>4. LookUp(d) = "yes" => user[d.socket] \in Readers(d.message[1])
    BY <2>1, AnswerIs DEF LookUp, Readers, RealtimeType
  <2>5. d.allowed # e.allowed => ~UNCHANGED vars
    <3>1. d.allowed # e.allowed => e \notin pending \/ d \notin pending'
      BY <1>12, <2>2 DEF LookUpDelivery
    <3>2. e \in pending'
      BY <1>12 DEF LookUpDelivery
    <3> QED  BY <3>1, <3>2 DEF vars, realtimeVars
  <2>6. d.allowed = "unknown"
    BY <1>12 DEF LookUpDelivery
  <2>7. LookUp(d) = "yes" => user[d.socket] \in entitled'[d.message]
    BY <2>1, <2>2, <2>3, <2>4, <2>5, <2>6, EntitledGrows
  <2>8. Sound(e)'
    BY <2>1, <2>2, <2>3, <2>7 DEF Sound, roomVars
  <2>9. \A f \in pending : Sound(f)'
    BY <1>4, <2>1 DEF roomVars
  <2>10. \A f \in pending' : Sound(f)'
    BY <1>12, <2>8, <2>9 DEF LookUpDelivery
  <2> QED  BY <1>2, <2>1, <2>10 DEF Announcements, Sound
<1>13. ASSUME NEW d \in pending, Deliver(d) \/ DeliveryFails(d) PROVE Announcements'
  BY <1>5, <1>13 DEF Deliver, DeliveryFails, Gone, RealtimeType
<1>14. ASSUME Restart PROVE Announcements'
  BY <1>5, <1>14 DEF Restart
<1>15. SocketStep => Announcements'
  BY <1>8, <1>9, <1>10, <1>11, <1>12, <1>13, <1>14 DEF SocketStep
<1> QED  BY <1>6, <1>7, <1>15, StepIs

LEMMA InitAnnouncements == Init => Announcements
  BY DEF Init, RealtimeInit, Announcements

LEMMA DeliversStep ==
  ASSUME DeskType, RealtimeType, Announcements, [Next]_vars, NEW x \in delivered' \ delivered
  PROVE  user[x[2]] \in entitled[x[1]] /\ thread[x[1][1]][x[1][2]].kind = "message"
<1>1. PICK d \in pending : Deliver(d)
  <2>1. delivered' # delivered
    OBVIOUS
  <2>2. ~UNCHANGED realtimeVars
    BY <2>1 DEF realtimeVars
  <2>3. PostStep => UNCHANGED delivered
    BY DEF PostStep, Post
  <2>4. SocketStep => UNCHANGED delivered \/ \E d \in pending : Deliver(d)
    BY DEF SocketStep, Disconnect, LookUpJoin, FinishJoin, Connect, Join, Leave, Announce, LookUpDelivery,
           DeliveryFails, Restart
  <2> QED  BY <2>1, <2>2, <2>3, <2>4, StepIs
<1>2. x = <<d.message, d.socket>> /\ d.allowed = "yes" /\ user[d.socket] # None
  BY <1>1 DEF Deliver, Emits, Live
<1> QED  BY <1>2 DEF Announcements, IsMessage

\* Nobody is delivered a message who could not read it since it was posted,
\* however roles, rooms and sockets change between look-ups (realtime.service).
THEOREM DeliveriesAreToReaders == Spec => DeliveredToReaders
<1>1. DeskType /\ Snapshots /\ Blank /\ [Next]_vars => DeskType' /\ Snapshots' /\ Blank'
  BY DeskNext
<1>2. DeskType /\ RealtimeType /\ Snapshots /\ Blank /\ Announcements /\ [Next]_vars
        => RealtimeType' /\ Announcements'
  BY RealtimeNext, SoundNext
<1>3. DeskType /\ RealtimeType /\ Announcements /\ [Next]_vars =>
        [\A d \in delivered' \ delivered : /\ user[d[2]] \in entitled[d[1]]
                                           /\ thread[d[1][1]][d[1][2]].kind = "message"]_vars
  BY DeliversStep
<1> QED  BY <1>1, <1>2, <1>3, InitDesk, InitRealtime, InitAnnouncements, PTL DEF Spec, DeliveredToReaders

-----------------------------------------------------------------------------
(* What a socket that left is delivered.                                   *)

RoomsOf(s) ==
  /\ room[s] \subseteq wants[s] \cup overtaken[s]
  /\ \A j \in Joins : UnderWay(j, s) /\ Live(s) => joining[j].ticket \in wants[s] \cup overtaken[s]

LEMMA RoomsNext == ASSUME RealtimeType, Rooms, [Next]_vars PROVE Rooms'
<1>0. \A s \in Sockets : RoomsOf(s)
  BY DEF Rooms, RoomsOf
<1> SUFFICES ASSUME NEW z \in Sockets PROVE RoomsOf(z)'
  BY DEF Rooms, RoomsOf
<1>1. ASSUME UNCHANGED <<roomVars, wants, overtaken>> PROVE RoomsOf(z)'
  BY <1>0, <1>1 DEF roomVars, RoomsOf, UnderWay, Live
<1>2. ASSUME NEW s \in Sockets, Gone(s), joining' = joining PROVE RoomsOf(z)'
  BY <1>0, <1>2 DEF Gone, RoomsOf, RealtimeType, UnderWay, Live
<1>3. ASSUME NEW j \in Joins, LookUpJoin(j) PROVE RoomsOf(z)'
  <2>1. joining[j] \in JoinCall /\ joining[j] # None
    BY <1>3 DEF LookUpJoin, RealtimeType
  <2>2. LET call == [joining[j] EXCEPT !.allowed = Answer(user[joining[j].socket], joining[j].ticket)]
        IN  call.ticket = joining[j].ticket /\ call.socket = joining[j].socket
    BY <2>1 DEF JoinCall
  <2>3. joining'[j] = None \/ (joining'[j].ticket = joining[j].ticket /\ joining'[j].socket = joining[j].socket)
    BY <1>3, <2>2 DEF LookUpJoin, RealtimeType
  <2>4. \A i \in Joins : i # j => joining'[i] = joining[i]
    BY <1>3 DEF LookUpJoin, RealtimeType
  <2>5. UNCHANGED <<user, room, wants, overtaken>>
    BY <1>3 DEF LookUpJoin
  <2>6. \A i \in Joins : UnderWay(i, z)' => UnderWay(i, z) /\ joining'[i].ticket = joining[i].ticket
    BY <2>1, <2>3, <2>4 DEF UnderWay
  <2> QED  BY <1>0, <2>5, <2>6 DEF RoomsOf, Live
<1>4. ASSUME NEW j \in Joins, FinishJoin(j) PROVE RoomsOf(z)'
  <2>1. joining[j] \in JoinCall /\ joining[j] # None
    BY <1>4 DEF FinishJoin, RealtimeType
  <2>2. joining[j].socket = z /\ Live(z) => joining[j].ticket \in wants[z] \cup overtaken[z]
    BY <1>0, <2>1 DEF RoomsOf, UnderWay
  <2>3. UNCHANGED <<user, wants, overtaken>>
    BY <1>4 DEF FinishJoin
  <2>4. room'[z] \subseteq wants[z] \cup overtaken[z]
    BY <1>0, <1>4, <2>2 DEF FinishJoin, RoomsOf, RealtimeType
  <2>5. \A i \in Joins : UnderWay(i, z)' => UnderWay(i, z) /\ joining'[i] = joining[i]
    BY <1>4 DEF FinishJoin, UnderWay, RealtimeType
  <2> QED  BY <1>0, <2>3, <2>4, <2>5 DEF RoomsOf, Live
<1>5. ASSUME NEW s \in Sockets, NEW u \in Users, Connect(s, u) PROVE RoomsOf(z)'
  BY <1>0, <1>5 DEF Connect, RoomsOf, RealtimeType, UnderWay, Live
<1>6. ASSUME NEW s \in Sockets, NEW t \in Tickets, NEW j \in Joins, Join(j, s, t) PROVE RoomsOf(z)'
  <2>1. /\ joining'[j].socket = s /\ joining'[j].ticket = t
        /\ \A i \in Joins : i # j => joining'[i] = joining[i]
    BY <1>6 DEF Join, RealtimeType
  <2>2. wants'[s] = wants[s] \cup {t} /\ (z # s => wants'[z] = wants[z]) /\ UNCHANGED <<user, room, overtaken>>
    BY <1>6 DEF Join, RealtimeType
  <2>3. \A i \in Joins : i # j /\ UnderWay(i, z)' => UnderWay(i, z)
    BY <2>1 DEF UnderWay
  <2>4. UnderWay(j, z)' => z = s
    BY <2>1 DEF UnderWay
  <2> QED  BY <1>0, <2>1, <2>2, <2>3, <2>4 DEF RoomsOf, Live
<1>7. ASSUME NEW s \in Sockets, NEW t \in Tickets, Leave(s, t) PROVE RoomsOf(z)'
  <2>1. /\ UNCHANGED <<user, joining>>
        /\ z # s => room'[z] = room[z] /\ wants'[z] = wants[z] /\ overtaken'[z] = overtaken[z]
        /\ room'[s] = room[s] \ {t} /\ wants'[s] = wants[s] \ {t}
    BY <1>7 DEF Leave, RealtimeType
  <2>2. /\ (\E j \in Joins : UnderWay(j, s) /\ joining[j].ticket = t) => overtaken'[s] = overtaken[s] \cup {t}
        /\ overtaken[s] \ {t} \subseteq overtaken'[s]
    BY <1>7 DEF Leave, RealtimeType
  <2>3. \A j \in Joins : UnderWay(j, z)' => UnderWay(j, z)
    BY <2>1 DEF UnderWay
  <2>4. CASE z = s
    <3>1. room'[z] \subseteq wants'[z] \cup overtaken'[z]
      BY <1>0, <2>1, <2>2, <2>4 DEF RoomsOf
    <3>2. ASSUME NEW j \in Joins, UnderWay(j, z), Live(z) PROVE joining[j].ticket \in wants'[z] \cup overtaken'[z]
      BY <1>0, <2>1, <2>2, <2>4, <3>2 DEF RoomsOf
    <3> QED  BY <2>1, <2>3, <3>1, <3>2 DEF RoomsOf, Live
  <2>5. CASE z # s
    BY <1>0, <2>1, <2>3, <2>5 DEF RoomsOf, Live
  <2> QED  BY <2>4, <2>5
<1>8. ASSUME NEW d \in pending, Deliver(d) PROVE RoomsOf(z)'
  BY <1>0, <1>8 DEF Deliver, RoomsOf, RealtimeType, UnderWay, Live
<1>9. ASSUME NEW d \in pending, DeliveryFails(d) PROVE RoomsOf(z)'
  BY <1>2, <1>9 DEF DeliveryFails, RealtimeType, Delivery
<1>10. ASSUME Restart PROVE RoomsOf(z)'
  BY <1>10 DEF Restart, RoomsOf, UnderWay
<1>11. SocketStep => RoomsOf(z)'
  BY <1>1, <1>2, <1>3, <1>4, <1>5, <1>6, <1>7, <1>8, <1>9, <1>10
  DEF SocketStep, Disconnect, Announce, LookUpDelivery
<1>12. PostStep \/ UNCHANGED realtimeVars => RoomsOf(z)'
  BY <1>1 DEF PostStep, Post, realtimeVars, roomVars
<1> QED  BY <1>11, <1>12, StepIs

LEMMA InitRooms == Init => Rooms
  BY DEF Init, RealtimeInit, Rooms, UnderWay

LEMMA LeaveStep ==
  ASSUME Rooms, RealtimeType, [Next]_vars, NEW x \in delivered' \ delivered
  PROVE  x[1][1] \in wants[x[2]] \cup overtaken[x[2]]
<1>1. PICK d \in pending : Deliver(d)
  <2>1. delivered' # delivered
    OBVIOUS
  <2>2. ~UNCHANGED realtimeVars
    BY <2>1 DEF realtimeVars
  <2>3. PostStep => UNCHANGED delivered
    BY DEF PostStep, Post
  <2>4. SocketStep => UNCHANGED delivered \/ \E d \in pending : Deliver(d)
    BY DEF SocketStep, Disconnect, LookUpJoin, FinishJoin, Connect, Join, Leave, Announce, LookUpDelivery,
           DeliveryFails, Restart
  <2> QED  BY <2>1, <2>2, <2>3, <2>4, StepIs
<1>2. x = <<d.message, d.socket>> /\ d.message[1] \in room[d.socket] /\ d.socket \in Sockets
  BY <1>1 DEF Deliver, Emits, RealtimeType, Delivery
<1> QED  BY <1>2 DEF Rooms

\* A socket that left a ticket is delivered nothing of it before it joins
\* again, unless a join of it was under way (realtime.service, MessageThread).
THEOREM LeavesAreFinal == Spec => LeaveIsFinal
<1>1. DeskType /\ Snapshots /\ Blank /\ [Next]_vars => DeskType' /\ Snapshots' /\ Blank'
  BY DeskNext
<1>2. DeskType /\ RealtimeType /\ Rooms /\ [Next]_vars => RealtimeType' /\ Rooms'
  BY RealtimeNext, RoomsNext
<1>3. RealtimeType /\ Rooms /\ [Next]_vars =>
        [\A d \in delivered' \ delivered : d[1][1] \in wants[d[2]] \cup overtaken[d[2]]]_vars
  BY LeaveStep
<1> QED  BY <1>1, <1>2, <1>3, InitDesk, InitRealtime, InitRooms, PTL DEF Spec, LeaveIsFinal
=============================================================================
