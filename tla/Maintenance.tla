---------------------------- MODULE Maintenance -----------------------------
(***************************************************************************)
(* The maintenance loop of a worker process: dispatchKnowledgeOutbox,      *)
(* reconcileKnowledge and cleanupDispatchedOutbox. A tick runs them in     *)
(* turn, each as often as there are rows; here a resting loop picks any.   *)
(***************************************************************************)
EXTENDS IngestionState

Move(l, next) == loop' = [loop EXCEPT ![l].pc = next]
Rest(l)       == loop' = [loop EXCEPT ![l] = Resting]

\* The conditional UPDATE ... SKIP LOCKED that takes one due row.
DueForever(r) ==                  \* mutant: dispatches are not counted out
  r.exists /\ r.dispatched = "no" /\ r.available /\ r.claim # "live"
Due(r) == DueForever(r) /\ r.attempts < DispatchLimit

ClaimRow(l, v, g) == LET r == outbox[<<v, g>>] IN
  /\ loop[l].pc = "idle" /\ Due(r)
  /\ outbox' = [outbox EXCEPT ![<<v, g>>] = [r EXCEPT !.claim = "live", !.attempts = @ + 1]]
  /\ loop' = [loop EXCEPT ![l] = [pc |-> "send", v |-> v, g |-> g, n |-> r.attempts + 1]]
  /\ UNCHANGED <<dbVars, archived, queue, processVars>>

\* The queue ignores a job whose identity it still knows. The call may time
\* out although the job was added.
Send(l) == LET p == loop[l] IN
  /\ p.pc = "send"
  /\ queue' = IF queue[<<p.v, p.g>>].state # "absent" THEN queue
              ELSE [queue EXCEPT ![<<p.v, p.g>>].state = "waiting"]
  /\ Move(l, "ack") \/ ("outage" \in Faults /\ Move(l, "release"))
  /\ UNCHANGED <<dbVars, archived, outbox, processVars>>

SendErrorIgnored(l) ==            \* mutant: the error does not reach the catch
  /\ "outage" \in Faults /\ loop[l].pc = "send" /\ Move(l, "ack")
  /\ UNCHANGED <<dbVars, archived, outbox, queue, processVars>>

SendFails(l) ==
  /\ "outage" \in Faults /\ loop[l].pc = "send" /\ Move(l, "release")
  /\ UNCHANGED <<dbVars, archived, outbox, queue, processVars>>

\* The claim token of a row is the dispatch that last took it.
OwnsAnyClaim(p) ==                \* mutant: another dispatch's claim will do
  outbox[<<p.v, p.g>>].exists /\ outbox[<<p.v, p.g>>].claim # "none"
Owns(p) == LET r == outbox[<<p.v, p.g>>] IN r.exists /\ r.claim # "none" /\ r.attempts = p.n

AckRow(l) == LET p == loop[l] IN
  /\ p.pc = "ack"
  /\ outbox' = IF ~Owns(p) THEN outbox
               ELSE [outbox EXCEPT ![<<p.v, p.g>>] = [@ EXCEPT !.dispatched = "recent", !.claim = "none"]]
  /\ Rest(l)
  /\ UNCHANGED <<dbVars, archived, queue, processVars>>

AckFails(l) ==
  /\ "outage" \in Faults /\ loop[l].pc = "ack" /\ Move(l, "release")
  /\ UNCHANGED <<dbVars, archived, outbox, queue, processVars>>

\* A failed dispatch releases its claim and backs off.
ReleaseRow(l) == LET p == loop[l] IN
  /\ p.pc = "release"
  /\ outbox' = IF ~Owns(p) THEN outbox
               ELSE [outbox EXCEPT ![<<p.v, p.g>>] = [@ EXCEPT !.claim = "none", !.available = FALSE]]
  /\ IF p.n >= DispatchLimit THEN Move(l, "exhaust") ELSE Rest(l)
  /\ UNCHANGED <<dbVars, archived, queue, processVars>>

\* The last dispatch failed: a version still queued under it is failed.
Exhaust(l) == LET p == loop[l] IN
  /\ p.pc = "exhaust" /\ Rest(l)
  /\ IF generation[p.v] = p.g /\ stage[p.v] = "QUEUED" /\ status[p.v] = "UPLOADED"
     THEN /\ status' = [status EXCEPT ![p.v] = "FAILED"]
          /\ stage' = [stage EXCEPT ![p.v] = "FAILED"]
          /\ retryable' = [retryable EXCEPT ![p.v] = TRUE]
          /\ idle' = [idle EXCEPT ![p.v] = FALSE]
     ELSE UNCHANGED <<status, stage, retryable, idle>>
  /\ UNCHANGED <<token, lease, model, indexed, generation, attempts, embedded,
       attemptVars, chunkVars, archived, outbox, queue, processVars>>

\* The loop's process dies, or the database fails it out of its tick. (Between
\* a look and its transaction that undoes the look and nothing else.)
LoopStops(l) ==
  /\ "halt" \in Faults /\ loop[l].pc \in {"send", "ack", "release", "exhaust"} /\ Rest(l)
  /\ UNCHANGED <<dbVars, archived, outbox, queue, processVars>>

\* A version of the page is worth a look; it is looked at again under the lock.
Scan(l, v) ==
  /\ loop[l].pc = "idle"
  /\ status[v] # "READY" /\ v \notin archived /\ retryable[v]
  /\ loop' = [loop EXCEPT ![l] = [Resting EXCEPT !.pc = "reconcile", !.v = v]]
  /\ UNCHANGED <<dbVars, archived, outbox, queue, processVars>>

NoRowLeft(v) ==                   \* mutant: lost jobs are not looked for
  status[v] \in {"UPLOADED", "FAILED"} /\ ~outbox[<<v, generation[v]>>].exists
Stranded(v) == LET r == outbox[<<v, generation[v]>>] IN
  status[v] \in {"UPLOADED", "FAILED"} /\ (~r.exists \/ (r.dispatched = "old" /\ idle[v]))

RecoverableUnleased(v) ==         \* mutant: an expired lease still protects
  /\ status[v] # "READY" /\ lease[v] = "none" /\ retryable[v]
  /\ status[v] = "PROCESSING" \/ Stranded(v)
Recoverable(v) == /\ status[v] # "READY" /\ lease[v] # "live" /\ retryable[v]
                  /\ status[v] = "PROCESSING" \/ Stranded(v)

Exhausted(v) == attempts[v] >= MaxAttempts \/ generation[v] >= MaxAttempts

Reissue(l) == LET v == loop[l].v IN
  /\ loop[l].pc = "reconcile" /\ Rest(l) /\ Recoverable(v) /\ ~Exhausted(v)
  /\ open' = [open EXCEPT ![v] = {}]
  /\ RequestProcessing(v)
  /\ UNCHANGED <<archived, queue, processVars>>

GiveUp(l) == LET v == loop[l].v IN
  /\ loop[l].pc = "reconcile" /\ Rest(l) /\ Recoverable(v) /\ Exhausted(v)
  /\ status' = [status EXCEPT ![v] = "FAILED"]
  /\ FreeLease(v)
  /\ stage' = [stage EXCEPT ![v] = "FAILED"]
  /\ idle' = [idle EXCEPT ![v] = FALSE]
  /\ UNCHANGED <<model, indexed, generation, attempts, retryable, embedded, attemptVars,
                 chunkVars, archived, outbox, queue, processVars>>

LeaveAlone(l) ==
  /\ loop[l].pc = "reconcile" /\ Rest(l) /\ ~Recoverable(loop[l].v)
  /\ UNCHANGED <<dbVars, archived, outbox, queue, processVars>>

\* Rows dispatched long ago are read, then deleted without another look at
\* the ingestion. (30 days: any moment after the row is "old" will do.)
OldRow(v, g)  == outbox[<<v, g>>].dispatched = "old"   \* mutant: whatever the stage
Expired(v, g) == OldRow(v, g) /\ stage[v] \in {"READY", "FAILED"}

FindExpired(l, v, g) ==
  /\ "cleanup" \in Faults /\ loop[l].pc = "idle" /\ Expired(v, g)
  /\ loop' = [loop EXCEPT ![l] = [Resting EXCEPT !.pc = "cleanup", !.v = v, !.g = g]]
  /\ UNCHANGED <<dbVars, archived, outbox, queue, processVars>>

DeleteExpired(l) == LET p == loop[l] IN
  /\ p.pc = "cleanup" /\ Rest(l)
  /\ outbox' = IF outbox[<<p.v, p.g>>].dispatched = "no" THEN outbox
               ELSE [outbox EXCEPT ![<<p.v, p.g>>] = NoRow]
  /\ UNCHANGED <<dbVars, archived, queue, processVars>>
=============================================================================
