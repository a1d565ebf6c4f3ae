----------------------------- MODULE Processing -----------------------------
(***************************************************************************)
(* A processing attempt (processKnowledgeDocument): the claim, the fenced  *)
(* steps, the embedding batches, READY or the recorded failure, and the    *)
(* job of the queue it is run for.                                         *)
(*                                                                         *)
(* One action is one transaction, one provider call or one queue operation;*)
(* transactions hold the document's row lock, so each is atomic. Reading   *)
(* and parsing change nothing and belong to the heartbeat after them.      *)
(***************************************************************************)
EXTENDS IngestionState

\* A job slot receives a waiting job.
Take(s, v, g) ==
  /\ worker[s].pc = "idle" /\ queue[<<v, g>>].state = "waiting"
  /\ queue' = [queue EXCEPT ![<<v, g>>] = [@ EXCEPT !.state = "active", !.holder = s]]
  /\ worker' = [worker EXCEPT ![s] = [Idle EXCEPT !.pc = "claim", !.v = v, !.g = g]]
  /\ UNCHANGED <<dbVars, archived, outbox, env, calls, loop>>

\* The attempt leaves the try block; what it held for it is forgotten.
Leave(s, next, again) == LET w == worker[s] IN
  worker' = [worker EXCEPT ![s] = [Idle EXCEPT !.pc = next, !.v = w.v, !.g = w.g,
                                               !.token = w.token, !.again = again]]

\* The claim declines a version that is finished, superseded by a newer
\* generation, not retryable, or under somebody else's live lease.
DeclinesReopening(v, g) ==        \* mutant: a finished version is claimed again
  generation[v] # g \/ ~retryable[v] \/ lease[v] = "live"
Declines(v, g) == \/ status[v] = "READY" \/ generation[v] # g
                  \/ ~retryable[v]       \/ lease[v] = "live"

Decline(s) == LET w == worker[s] IN
  /\ w.pc = "claim" /\ w.v \notin archived /\ Declines(w.v, w.g)
  /\ worker' = [worker EXCEPT ![s].pc = "ack"]
  /\ UNCHANGED <<dbVars, archived, outbox, queue, env, calls, loop>>

\* The claim transaction: the document is archived, or the database fails.
ClaimFails(s) ==
  /\ worker[s].pc = "claim" /\ (worker[s].v \in archived \/ "fail" \in Faults)
  /\ worker' = [worker EXCEPT ![s] = [@ EXCEPT !.pc = "ack", !.again = TRUE]]
  /\ UNCHANGED <<dbVars, archived, outbox, queue, env, calls, loop>>

Claim(s) == LET w == worker[s] v == w.v n == attempts[v] + 1 IN
  /\ w.pc = "claim" /\ v \notin archived /\ ~Declines(v, w.g) /\ n <= MaxClaims
  /\ open' = [open EXCEPT ![v] = {n}]
  /\ status' = [status EXCEPT ![v] = "PROCESSING"]
  /\ token' = [token EXCEPT ![v] = n]
  /\ lease' = [lease EXCEPT ![v] = "live"]
  /\ indexed' = [indexed EXCEPT ![v] = NotIndexed]
  /\ stage' = [stage EXCEPT ![v] = "FETCHING_SOURCE"]
  /\ attempts' = [attempts EXCEPT ![v] = n]
  /\ idle' = [idle EXCEPT ![v] = FALSE]
  /\ worker' = [worker EXCEPT ![s] = [w EXCEPT !.pc = "fetch", !.token = n, !.base = model[v]]]
  /\ UNCHANGED <<model, generation, retryable, embedded, succeeded, chunkVars,
                 archived, outbox, queue, env, calls, loop>>

\* fenced(): the transaction goes on only for the holder of a live lease.
FencedAnyToken(v, n) ==           \* mutant: another attempt's lease will do
  status[v] = "PROCESSING" /\ lease[v] = "live"
FencedAnyLease(v, n) ==           \* mutant: the lease may have run out
  status[v] = "PROCESSING" /\ token[v] = n
Fenced(v, n) == status[v] = "PROCESSING" /\ token[v] = n /\ lease[v] = "live"

\* heartbeat(to) after the step pc: the lease is extended, the stage set.
\* Later heartbeats of the same stage and the timer's change nothing here.
Advance(s, from, to, next) == LET w == worker[s] IN
  /\ w.pc = from /\ Fenced(w.v, w.token)
  /\ stage' = [stage EXCEPT ![w.v] = to]
  /\ worker' = [worker EXCEPT ![s].pc = next]
  /\ UNCHANGED <<versionVars, generation, attempts, retryable, idle, embedded,
       attemptVars, chunkVars, archived, outbox, queue, env, calls, loop>>

FetchSource(s) == Advance(s, "fetch", "EXTRACTING", "extract")
ExtractText(s) == Advance(s, "extract", "CHUNKING", "chunk")

\* A version's vectors come from one model: the one read by the claim counts.
AnyModelAccepted(w, e) == TRUE    \* mutant: a changed model is not noticed
ModelAccepted(w, e) == w.base \in {NoModel, e.model}

\* Chunk rows are created once; the model recorded is the configured one, or
\* NULL without a key.
SaveChunks(s) == LET w == worker[s] v == w.v IN
  /\ w.pc = "chunk" /\ Fenced(v, w.token) /\ ModelAccepted(w, env[s])
  /\ chunked' = [chunked EXCEPT ![v] = TRUE]
  /\ model' = [model EXCEPT ![v] = IF env[s].key THEN env[s].model ELSE NoModel]
  /\ worker' = [worker EXCEPT ![s].pc = "embed"]
  /\ UNCHANGED <<status, token, lease, indexed, ingestionVars, attemptVars, vector,
                 archived, outbox, queue, env, calls, loop>>

StartEmbedding(s) == Advance(s, "embed", "EMBEDDING", IF env[s].key THEN "saving" ELSE "index")

Batch(w) == {c \in Chunks : w.offset < c /\ c <= w.offset + BatchSize}

InFlight(s, c) == \E k \in calls : k.slot = s /\ k.token = worker[s].token
                                   /\ k.v = worker[s].v /\ k.chunk = c

\* saveKnowledgeChunkEmbedding, first half: a vector already stored under the
\* configured model is reused, otherwise the provider is called.
LookupVector(s, c) == LET w == worker[s] v == w.v IN
  /\ w.pc = "saving" /\ c \in Batch(w) \ (w.saved \cup w.missed) /\ ~InFlight(s, c)
  /\ IF vector[v][c] # NoModel /\ model[v] = env[s].model /\ token[v] = w.token
     THEN worker' = [worker EXCEPT ![s].saved = @ \cup {c}] /\ UNCHANGED calls
     ELSE /\ calls' = calls \cup {[slot |-> s, v |-> v, token |-> w.token,
                                   chunk |-> c, model |-> env[s].model]}
          /\ UNCHANGED worker
  /\ UNCHANGED <<dbVars, archived, outbox, queue, env, loop>>

\* The attempt that made the call still waits for it.
Awaited(k) == LET w == worker[k.slot] IN
  w.pc = "saving" /\ w.v = k.v /\ w.token = k.token

\* Second half: the vector is written under the lease, whether or not the
\* attempt that asked for it still runs.
StoreVector(k) ==
  /\ Fenced(k.v, k.token)
  /\ vector' = [vector EXCEPT ![k.v][k.chunk] = k.model]
  /\ worker' = IF Awaited(k) THEN [worker EXCEPT ![k.slot].saved = @ \cup {k.chunk}]
               ELSE worker
  /\ calls' = calls \ {k}
  /\ UNCHANGED <<versionVars, ingestionVars, attemptVars, chunked, archived, outbox,
                 queue, env, loop>>

\* The provider failed, or the lease was lost: nothing is written.
MissVector(k) ==
  /\ ~Fenced(k.v, k.token) \/ "fail" \in Faults
  /\ worker' = IF Awaited(k) THEN [worker EXCEPT ![k.slot].missed = @ \cup {k.chunk}]
               ELSE worker
  /\ calls' = calls \ {k}
  /\ UNCHANGED <<dbVars, archived, outbox, queue, env, loop>>

\* The batch's Promise.all has settled: progress is recorded, then a missing
\* vector fails the attempt, or the loop goes on to the next batch.
FinishBatch(s) == LET w == worker[s] IN
  /\ w.pc = "saving" /\ Batch(w) \subseteq w.saved \cup w.missed /\ Fenced(w.v, w.token)
  /\ embedded' = [embedded EXCEPT ![w.v] = Cardinality(w.saved)]
  /\ IF w.missed # {} THEN Leave(s, "failing", TRUE)
     ELSE worker' = IF w.offset + BatchSize < NumChunks
                    THEN [worker EXCEPT ![s].offset = @ + BatchSize]
                    ELSE [worker EXCEPT ![s].pc = "index"]
  /\ UNCHANGED <<versionVars, stage, generation, attempts, retryable, idle, attemptVars,
                 chunkVars, archived, outbox, queue, env, calls, loop>>

\* The semantic index is required and no key is configured.
KeyMissing(w, e) == w.pc = "index" /\ RequireSemantic /\ ~e.key

StartIndexing(s) ==
  ~KeyMissing(worker[s], env[s]) /\ Advance(s, "index", "INDEXING", "commit")

\* READY commits only with every chunk and, with a key, every vector. The
\* worker may miss the acknowledgement of a commit that took place.
Complete(s) == LET w == worker[s] v == w.v IN
  env[s].key => /\ Cardinality(w.saved) = NumChunks
                /\ \A c \in Chunks : vector[v][c] # NoModel

Commit(s) == LET w == worker[s] v == w.v count == Cardinality(w.saved) IN
  /\ w.pc = "commit" /\ Fenced(v, w.token) /\ chunked[v] /\ Complete(s)
  /\ status' = [status EXCEPT ![v] = "READY"]
  /\ indexed' = [indexed EXCEPT ![v] = count]
  /\ model' = [model EXCEPT ![v] = IF count # 0 THEN env[s].model ELSE NoModel]
  /\ FreeLease(v)
  /\ stage' = [stage EXCEPT ![v] = "READY"]
  /\ idle' = [idle EXCEPT ![v] = FALSE]
  /\ embedded' = [embedded EXCEPT ![v] = count]
  /\ open' = [open EXCEPT ![v] = @ \ {w.token}]
  /\ succeeded' = [succeeded EXCEPT ![v] = @ \cup {w.token}]
  /\ Leave(s, "ack", FALSE) \/ Leave(s, "failing", TRUE)
  /\ UNCHANGED <<generation, attempts, retryable, chunkVars, archived, outbox, queue,
                 env, calls, loop>>

Fail(s, again) ==
  /\ Leave(s, "failing", again)
  /\ UNCHANGED <<dbVars, archived, outbox, queue, env, calls, loop>>

\* Any step inside the try block may throw a retryable failure: the fence, a
\* lost lease seen by the timer, an incomplete index, a required key that is
\* missing, or the database, the storage or the provider ("fail").
StepFails(s) == LET w == worker[s] IN
  /\ w.pc \in Trying
  /\ \/ ~Fenced(w.v, w.token) \/ KeyMissing(w, env[s])
     \/ w.pc = "commit" /\ ~Complete(s)
     \/ "fail" \in Faults
  /\ Fail(s, TRUE)

\* Missing, changed or invalid bytes and a changed model are final.
SourceRejected(s) ==
  \/ "reject" \in Faults /\ worker[s].pc \in {"fetch", "extract", "chunk"} /\ Fail(s, FALSE)
  \/ worker[s].pc = "chunk" /\ ~ModelAccepted(worker[s], env[s]) /\ Fail(s, FALSE)

\* The catch block: only the attempt that still owns the version fails it.
RecordFailure(s) == LET w == worker[s] v == w.v IN
  /\ w.pc = "failing" /\ Leave(s, "ack", w.again)
  /\ IF status[v] = "PROCESSING" /\ token[v] = w.token
     THEN /\ status' = [status EXCEPT ![v] = "FAILED"]
          /\ FreeLease(v)
          /\ stage' = [stage EXCEPT ![v] = "FAILED"]
          /\ retryable' = [retryable EXCEPT ![v] = w.again]
          /\ idle' = [idle EXCEPT ![v] = FALSE]
          /\ open' = [open EXCEPT ![v] = @ \ {w.token}]
     ELSE UNCHANGED <<status, token, lease, stage, retryable, idle, open>>
  /\ UNCHANGED <<model, indexed, generation, attempts, embedded, succeeded, chunkVars,
                 archived, outbox, queue, env, calls, loop>>

\* The failure's own transaction fails: the lease is left to run out.
DeferFailure(s) ==
  /\ "defer" \in Faults /\ worker[s].pc = "failing" /\ Leave(s, "ack", worker[s].again)
  /\ UNCHANGED <<dbVars, archived, outbox, queue, env, calls, loop>>

-----------------------------------------------------------------------------
(* BullMQ: at-least-once delivery, one job per identity.                   *)

\* The job ends, or waits for another of its INGESTION_MAX_ATTEMPTS tries. A
\* slot whose job was handed to another one is not listened to.
Acknowledge(s) == LET w == worker[s] j == queue[<<w.v, w.g>>] IN
  /\ w.pc = "ack"
  /\ worker' = [worker EXCEPT ![s] = Idle]
  /\ queue' = IF j.holder # s THEN queue
              ELSE [queue EXCEPT ![<<w.v, w.g>>] =
                      IF w.again /\ j.tries + 1 < MaxAttempts
                      THEN [j EXCEPT !.state = "waiting", !.tries = @ + 1, !.holder = NoSlot]
                      ELSE EndedJob]
  /\ UNCHANGED <<dbVars, archived, outbox, env, calls, loop>>

\* The process dies or is shut down by force, with its calls.
Crash(s) == LET w == worker[s] IN
  /\ "crash" \in Faults /\ w.pc # "idle"
  /\ worker' = [worker EXCEPT ![s] = Idle]
  /\ calls' = {k \in calls : k.slot # s}
  /\ queue' = IF queue[<<w.v, w.g>>].holder # s THEN queue
              ELSE [queue EXCEPT ![<<w.v, w.g>>].holder = NoSlot]
  /\ UNCHANGED <<dbVars, archived, outbox, env, loop>>

\* A job whose lock expired is delivered again once, then given up. Its slot
\* may be dead, or merely slow: it then runs on as a zombie.
Stalled(v, g) == LET j == queue[<<v, g>>] IN
  /\ j.state = "active" /\ (j.holder = NoSlot \/ "stall" \in Faults)
  /\ queue' = [queue EXCEPT ![<<v, g>>] = IF j.stalls = 0
                 THEN [j EXCEPT !.state = "waiting", !.stalls = 1, !.holder = NoSlot]
                 ELSE EndedJob]
  /\ UNCHANGED <<dbVars, archived, outbox, processVars, loop>>

\* Finished jobs are kept for a while, then their identity is free again.
JobExpires(v, g) ==
  /\ "expire" \in Faults /\ queue[<<v, g>>].state = "ended"
  /\ queue' = [queue EXCEPT ![<<v, g>>] = NoJob]
  /\ UNCHANGED <<dbVars, archived, outbox, processVars, loop>>

\* A process restarts with another configuration.
Redeploy(s) ==
  /\ worker[s].pc = "idle" /\ \A k \in calls : k.slot # s
  /\ \E e \in Envs \ {env[s]} : env' = [env EXCEPT ![s] = e]
  /\ UNCHANGED <<dbVars, archived, outbox, queue, worker, calls, loop>>
=============================================================================
