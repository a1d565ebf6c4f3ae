---------------------------- MODULE Conversation ----------------------------
(***************************************************************************)
(* Messages and internal notes (message.service, note.service), and the    *)
(* sockets they are announced to (realtime.service). A post is decided in  *)
(* one transaction, whose checks under the lock cover the ones before it.  *)
(* Realtime is outside it: rooms live in the process, and every join and   *)
(* every delivery awaits a look-up of the access it is about to use.       *)
(***************************************************************************)
EXTENDS DeskState

VARIABLES
  user,         \* of a socket, from its handshake; None if not connected
  room,         \* the tickets whose room a socket is in
  joining,      \* the joins under way, with their look-up's answer
  unannounced,  \* committed messages nobody was told of yet
  pending,      \* deliveries under way, with their look-up's answer
  delivered,    \* history: deliveries made
  wants,        \* history: tickets of which a socket asked last to join
  overtaken     \* history: tickets left while a join of them was under way

roomVars     == <<user, room, joining>>
realtimeVars == <<user, room, joining, unannounced, pending, delivered, wants, overtaken>>
deskVars     == <<role, ticket, thread, issueAssignee, request>>

Messages == Tickets \X (1 .. MaxThread)
Posted   == {m \in Messages : m[2] <= Len(thread[m[1]])}
Delivery == [message : Messages, socket : Sockets, allowed : {"unknown", "yes", "no"}]
JoinCall == [socket : Sockets, ticket : Tickets, allowed : {"unknown", "yes", "no"}]

RealtimeInit ==
  /\ user = [s \in Sockets |-> None] /\ room = [s \in Sockets |-> {}]
  /\ joining = [j \in Joins |-> None]
  /\ unannounced = {} /\ pending = {} /\ delivered = {}
  /\ wants = [s \in Sockets |-> {}] /\ overtaken = [s \in Sockets |-> {}]

RealtimeType ==
  /\ user \in [Sockets -> Users \cup {None}]
  /\ room \in [Sockets -> SUBSET Tickets]
  /\ joining \in [Joins -> JoinCall \cup {None}]
  /\ unannounced \subseteq Messages /\ pending \subseteq Delivery
  /\ delivered \subseteq Messages \X Sockets
  /\ wants \in [Sockets -> SUBSET Tickets] /\ overtaken \in [Sockets -> SUBSET Tickets]

-----------------------------------------------------------------------------
(* The thread.                                                             *)

FitsThread(t) == Len(thread[t]) < MaxThread
Append1(t, a, kind) == thread' = [thread EXCEPT ![t] =
  Append(@, [kind |-> kind, sender |-> a, staff |-> role[a] \in Staff])]

\* The first message of the staff is the first response, and stays it.
FirstResponseAlways(row, a, n) ==         \* mutant: the update is unconditional
  IF role[a] \in Staff THEN Touched([row EXCEPT !.firstResponseAt = n]) ELSE row
FirstResponse(row, a, n) ==
  IF role[a] \in Staff /\ row.firstResponseAt = 0
  THEN Touched([row EXCEPT !.firstResponseAt = n]) ELSE row

\* persistTicketMessage, then notifyTicketMessage: announced once, best effort.
Post(a, t) == LET n == Len(thread[t]) + 1 IN
  /\ CanAccess(a, t) /\ FitsThread(t) /\ Writable(t)
  /\ Append1(t, a, "message")
  /\ ticket' = [ticket EXCEPT ![t] = FirstResponse(@, a, n)]
  /\ unannounced' = IF Sockets = {} THEN {} ELSE unannounced \cup {<<t, n>>}
  /\ UNCHANGED <<role, issueAssignee, request, roomVars, pending, delivered, wants, overtaken>>

AddNote(a, t) ==
  /\ CanAccess(a, t) /\ role[a] \in Staff /\ FitsThread(t)
  /\ Append1(t, a, "note")
  /\ UNCHANGED <<role, ticket, issueAssignee, request, realtimeVars>>

-----------------------------------------------------------------------------
(* Sockets. Nothing awaits a join: a remount or another ticket leaves and   *)
(* joins again while earlier joins of the socket still look access up.     *)

Live(s) == user[s] # None
UnderWay(j, s) == joining[j] # None /\ joining[j].socket = s

\* A socket that connects again is a new one: nothing of it is under way.
Connect(s, u) ==
  /\ ~Live(s) /\ (\A j \in Joins : ~UnderWay(j, s)) /\ \A d \in pending : d.socket # s
  /\ user' = [user EXCEPT ![s] = u]
  /\ UNCHANGED <<deskVars, room, joining, unannounced, pending, delivered, wants, overtaken>>

\* The client goes away, or its access token expires (enforceExpiry).
Gone(s) == /\ user' = [user EXCEPT ![s] = None] /\ room' = [room EXCEPT ![s] = {}]
           /\ wants' = [wants EXCEPT ![s] = {}] /\ overtaken' = [overtaken EXCEPT ![s] = {}]
Disconnect(s) ==
  /\ "drop" \in Faults /\ Live(s) /\ Gone(s)
  /\ UNCHANGED <<deskVars, joining, unannounced, pending, delivered>>

Join(j, s, t) ==
  /\ Live(s) /\ joining[j] = None
  /\ joining' = [joining EXCEPT ![j] = [socket |-> s, ticket |-> t, allowed |-> "unknown"]]
  /\ wants' = [wants EXCEPT ![s] = @ \cup {t}]
  /\ UNCHANGED <<deskVars, user, room, unannounced, pending, delivered, overtaken>>

Answer(u, t) == IF u # None /\ CanAccess(u, t) THEN "yes" ELSE "no"

LookUpJoin(j) == LET call == joining[j] IN
  /\ call # None /\ call.allowed = "unknown"
  /\ \/ joining' = [joining EXCEPT ![j] = [call EXCEPT !.allowed = Answer(user[call.socket], call.ticket)]]
     \/ "outage" \in Faults /\ joining' = [joining EXCEPT ![j] = None]
  /\ UNCHANGED <<deskVars, user, room, unannounced, pending, delivered, wants, overtaken>>

FinishJoin(j) == LET call == joining[j] IN
  /\ call # None /\ call.allowed # "unknown"
  /\ room' = [room EXCEPT ![call.socket] = IF ~Live(call.socket) THEN @ ELSE
                IF call.allowed = "yes" THEN @ \cup {call.ticket} ELSE @ \ {call.ticket}]
  /\ joining' = [joining EXCEPT ![j] = None]
  /\ UNCHANGED <<deskVars, user, unannounced, pending, delivered, wants, overtaken>>

\* A leave takes effect at once, whatever joins are under way.
Leave(s, t) ==
  /\ Live(s)
  /\ room' = [room EXCEPT ![s] = @ \ {t}]
  /\ wants' = [wants EXCEPT ![s] = @ \ {t}]
  /\ overtaken' = [overtaken EXCEPT ![s] =
       IF \E j \in Joins : UnderWay(j, s) /\ joining[j].ticket = t THEN @ \cup {t} ELSE @ \ {t}]
  /\ UNCHANGED <<deskVars, user, joining, unannounced, pending, delivered>>

-----------------------------------------------------------------------------
(* Announcements (emitTicketMessageCreated).                               *)

\* The room is the list of candidates; each is looked up on its own.
Announce(m) ==
  /\ m \in unannounced /\ unannounced' = unannounced \ {m}
  /\ pending' = pending \cup {[message |-> m, socket |-> s, allowed |-> "unknown"] :
                              s \in {s \in Sockets : m[1] \in room[s]}}
  /\ UNCHANGED <<deskVars, roomVars, delivered, wants, overtaken>>

TrustRoom(d) == "yes"             \* mutant: who is in the room may read
LookUp(d) == Answer(user[d.socket], d.message[1])

LookUpDelivery(d) ==
  /\ d.allowed = "unknown"
  /\ pending' = (pending \ {d}) \cup {[d EXCEPT !.allowed = LookUp(d)]}
  /\ UNCHANGED <<deskVars, roomVars, unannounced, delivered, wants, overtaken>>

\* After the look-up the socket must still be there and in the room.
EmitLate(d) == d.allowed = "yes" /\ Live(d.socket)        \* mutant: the room is not looked at again
Emits(d) == d.allowed = "yes" /\ Live(d.socket) /\ d.message[1] \in room[d.socket]

Deliver(d) ==
  /\ d.allowed # "unknown" /\ pending' = pending \ {d}
  /\ delivered' = IF Emits(d) THEN delivered \cup {<<d.message, d.socket>>} ELSE delivered
  /\ room' = IF d.allowed = "no" THEN [room EXCEPT ![d.socket] = @ \ {d.message[1]}] ELSE room
  /\ UNCHANGED <<deskVars, user, joining, unannounced, wants, overtaken>>

\* A look-up that fails closes the socket.
DeliveryFails(d) ==
  /\ "outage" \in Faults /\ d.allowed = "unknown" /\ pending' = pending \ {d}
  /\ Gone(d.socket)
  /\ UNCHANGED <<deskVars, joining, unannounced, delivered>>

\* The process restarts: rooms and announcements are gone.
Restart ==
  /\ "restart" \in Faults
  /\ user' = [s \in Sockets |-> None] /\ room' = [s \in Sockets |-> {}]
  /\ joining' = [j \in Joins |-> None]
  /\ unannounced' = {} /\ pending' = {}
  /\ wants' = [s \in Sockets |-> {}] /\ overtaken' = [s \in Sockets |-> {}]
  /\ UNCHANGED <<deskVars, delivered>>

Talk ==
  \/ \E a \in Users, t \in Tickets : Post(a, t) \/ AddNote(a, t)
  \/ \E s \in Sockets : \/ Disconnect(s)
                        \/ \E u \in Users : Connect(s, u)
                        \/ \E t \in Tickets : Leave(s, t) \/ \E j \in Joins : Join(j, s, t)
  \/ \E j \in Joins : LookUpJoin(j) \/ FinishJoin(j)
  \/ \E m \in unannounced : Announce(m)
  \/ \E d \in pending : LookUpDelivery(d) \/ Deliver(d) \/ DeliveryFails(d)
  \/ Restart
=============================================================================
