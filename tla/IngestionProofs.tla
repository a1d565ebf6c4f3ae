-------------------------- MODULE IngestionProofs --------------------------
(***************************************************************************)
(* The safety of Ingestion for every value of the constants: the inductive *)
(* invariant Agreement, the writes it fences, the refinement of FencedTask,*)
(* the whole index, whose vectors are of one model, and the transactional  *)
(* outbox: a queued version keeps the row that will get it processed, and  *)
(* a row is marked dispatched only when its job has reached the queue.     *)
(***************************************************************************)
EXTENDS IngestionTypes

-----------------------------------------------------------------------------
(* The version, its ingestion and its attempts agree.                      *)

LEMMA AgreementStep == ASSUME TypeOK, Agreement, Next
                       PROVE  Agreement'
<1> USE DEF TypeOK, TablesOK, Agreement
<1>1. ASSUME NEW s \in Slots, AttemptWrites(s)
      PROVE  Agreement'
  <2> DEFINE w == worker[s]
  <2>0. w.v \in Versions /\ w.token \in Nat
    BY DEF SlotsOK, Worker
  <2>1. CASE Claim(s)
    BY <2>0, <2>1 DEF Claim, InProgress
  <2>2. CASE FetchSource(s) \/ ExtractText(s) \/ StartEmbedding(s) \/ StartIndexing(s)
    BY <2>0, <2>2 DEF FetchSource, ExtractText, StartEmbedding, StartIndexing, Advance, Fenced,
       InProgress, versionVars, attemptVars
  <2>3. CASE SaveChunks(s)
    BY <2>0, <2>3 DEF SaveChunks, ingestionVars, attemptVars
  <2>4. CASE FinishBatch(s)
    BY <2>0, <2>4 DEF FinishBatch, versionVars, attemptVars
  <2>5. CASE Commit(s)
    BY <2>0, <2>5 DEF Commit, FreeLease, Fenced, InProgress
  <2>6. CASE RecordFailure(s)
    BY <2>0, <2>6 DEF RecordFailure, FreeLease, InProgress
  <2> QED  BY <1>1, <2>1, <2>2, <2>3, <2>4, <2>5, <2>6 DEF AttemptWrites
<1>2. ASSUME NEW l \in Loops, LoopWrites(l)
      PROVE  Agreement'
  <2>0. loop[l].v \in Versions
    BY DEF LoopsOK, Loop
  <2>1. CASE Exhaust(l)
    BY <2>0, <2>1 DEF Exhaust, InProgress, attemptVars
  <2>2. CASE Reissue(l)
    BY <2>0, <2>2 DEF Reissue, RequestProcessing, FreeLease, InProgress
  <2>3. CASE GiveUp(l)
    BY <2>0, <2>3 DEF GiveUp, FreeLease, InProgress, attemptVars, Recoverable
  <2> QED  BY <1>2, <2>1, <2>2, <2>3 DEF LoopWrites
<1>3. ASSUME NEW v \in Versions, VersionWrites(v)
      PROVE  Agreement'
  BY <1>3 DEF VersionWrites, Reprocess, RequestProcessing, FreeLease, LeaseLapses, TurnsIdle,
     InProgress, Ages, versionVars, ingestionVars, attemptVars
<1>4. ASSUME NEW k \in calls, StoreVector(k)
      PROVE  Agreement'
  BY <1>4 DEF StoreVector, versionVars, ingestionVars, attemptVars
<1>5. CASE UNCHANGED dbVars
  BY <1>5 DEF dbVars, versionVars, ingestionVars, attemptVars
<1> QED  BY <1>1, <1>2, <1>3, <1>4, <1>5, TablesFrame DEF TablesWritten

\* Status, stage, token, lease and the open attempt never contradict each
\* other, whichever of the writers came last.
THEOREM AgreementHolds == Spec => []Agreement
<1>1. Init => Agreement
  BY DEF Init, Agreement, InProgress
<1>2. TypeOK /\ Agreement /\ [Next]_vars => Agreement'
  <2>1. ASSUME TypeOK, Agreement, UNCHANGED vars PROVE Agreement'
    BY <2>1 DEF Agreement, vars, dbVars, versionVars, ingestionVars, attemptVars
  <2> QED  BY <2>1, AgreementStep
<1> QED  BY <1>1, <1>2, TypeCorrect, PTL DEF Spec

-----------------------------------------------------------------------------
(* What is fenced.                                                         *)

\* An attempt that leaves the try block moves to the step named.
LEMMA LeaveFields == ASSUME NEW s \in Slots, worker \in [Slots -> Worker], NEW p, NEW b, Leave(s, p, b)
                     PROVE  /\ worker'[s].pc = p /\ worker'[s].saved = {}
                            /\ \A t \in Slots \ {s} : worker'[t] = worker[t]
<1> DEFINE w == worker[s]
           x == [Idle EXCEPT !.pc = p, !.v = w.v, !.g = w.g, !.token = w.token, !.again = b]
<1>1. worker' = [worker EXCEPT ![s] = x]
  BY DEF Leave
<1>2. x.pc = p /\ x.saved = {}
  BY DEF Idle
<1> HIDE DEF x
<1> QED  BY <1>1, <1>2

LEMMA FrozenStep == ASSUME TypeOK, Next, NEW u \in Versions
                    PROVE  ReadyFrozen(u)
<1> DEFINE Frozen == UNCHANGED <<status[u], model[u], indexed[u], stage[u],
                                 embedded[u], succeeded[u], open[u]>>
           Goal == status[u] = "READY" => Frozen
<1> SUFFICES Goal
  BY DEF ReadyFrozen
<1> USE DEF TypeOK, TablesOK
<1>1. ASSUME NEW s \in Slots, AttemptWrites(s)
      PROVE  Goal
  <2>0. worker[s].v \in Versions
    BY DEF SlotsOK, Worker
  <2>1. CASE Claim(s)
    BY <2>0, <2>1 DEF Claim, Declines, chunkVars
  <2>2. CASE FetchSource(s) \/ ExtractText(s) \/ StartEmbedding(s) \/ StartIndexing(s)
    BY <2>0, <2>2 DEF FetchSource, ExtractText, StartEmbedding, StartIndexing, Advance, Fenced,
       versionVars, attemptVars, chunkVars
  <2>3. CASE SaveChunks(s)
    BY <2>0, <2>3 DEF SaveChunks, Fenced, ingestionVars, attemptVars
  <2>4. CASE FinishBatch(s)
    BY <2>0, <2>4 DEF FinishBatch, Fenced, versionVars, attemptVars, chunkVars
  <2>5. CASE Commit(s)
    BY <2>0, <2>5 DEF Commit, Fenced, chunkVars
  <2>6. CASE RecordFailure(s)
    BY <2>0, <2>6 DEF RecordFailure, chunkVars
  <2> QED  BY <1>1, <2>1, <2>2, <2>3, <2>4, <2>5, <2>6 DEF AttemptWrites
<1>2. ASSUME NEW l \in Loops, LoopWrites(l)
      PROVE  Goal
  <2>0. loop[l].v \in Versions
    BY DEF LoopsOK, Loop
  <2> QED
    BY <1>2, <2>0 DEF LoopWrites, Exhaust, Reissue, GiveUp, Recoverable, RequestProcessing,
       attemptVars, chunkVars
<1>3. ASSUME NEW v \in Versions, VersionWrites(v)
      PROVE  Goal
  BY <1>3 DEF VersionWrites, Reprocess, RequestProcessing, LeaseLapses, TurnsIdle,
     versionVars, ingestionVars, attemptVars, chunkVars
<1>4. ASSUME NEW k \in calls, StoreVector(k)
      PROVE  Goal
  BY <1>4 DEF StoreVector, versionVars, ingestionVars, attemptVars
<1>5. CASE UNCHANGED dbVars
  BY <1>5 DEF dbVars, versionVars, ingestionVars, attemptVars, chunkVars
<1> QED  BY <1>1, <1>2, <1>3, <1>4, <1>5, TablesFrame DEF TablesWritten

\* A step under the fence, of a worker that changes, is the holder's.
LEMMA FencedMoves == ASSUME TypeOK, NEW s \in Slots, NEW u \in Versions, worker[s].pc \in Trying,
                            Fenced(worker[s].v, worker[s].token), worker'[s] # worker[s],
                            worker[s].v = u
                     PROVE  HolderMoves(u)
BY DEF HolderMoves, Fenced

\* The worker moves on: its step is not the one it stands at.
LEMMA MovesOn == ASSUME TypeOK, NEW s \in Slots,
                        \/ FetchSource(s) \/ ExtractText(s) \/ StartEmbedding(s) \/ StartIndexing(s)
                        \/ SaveChunks(s) \/ FinishBatch(s) \/ Commit(s)
                 PROVE  worker[s].pc \in Trying /\ worker'[s] # worker[s]
<1> DEFINE w == worker[s]
<1>0. worker \in [Slots -> Worker] /\ w.offset \in Nat /\ BatchSize \in Nat \ {0}
  BY IngestionAssumption DEF TypeOK, SlotsOK, Worker
<1>1. CASE FetchSource(s) \/ ExtractText(s) \/ StartIndexing(s) \/ SaveChunks(s)
  <2>1. w.pc \in Trying /\ worker'[s].pc # w.pc
    BY <1>0, <1>1 DEF FetchSource, ExtractText, StartIndexing, Advance, SaveChunks, Trying, Worker
  <2> QED  BY <2>1
<1>2. CASE StartEmbedding(s)
  <2>1. w.pc \in Trying /\ worker'[s].pc # w.pc
    BY <1>0, <1>2 DEF StartEmbedding, Advance, Trying, Worker
  <2> QED  BY <2>1
<1>3. CASE FinishBatch(s)
  <2>1. w.pc = "saving" /\ "saving" \in Trying
    BY <1>3 DEF FinishBatch, Trying
  <2>2. CASE Leave(s, "failing", TRUE)
    <3>1. worker'[s].pc = "failing"
      BY <1>0, <2>2, LeaveFields
    <3> QED  BY <2>1, <3>1
  <2>3. CASE worker' = [worker EXCEPT ![s].offset = @ + BatchSize]
    <3>1. worker'[s].offset = w.offset + BatchSize
      BY <1>0, <2>3 DEF Worker
    <3> QED  BY <1>0, <2>1, <3>1
  <2>4. CASE worker' = [worker EXCEPT ![s].pc = "index"]
    <3>1. worker'[s].pc = "index"
      BY <1>0, <2>4 DEF Worker
    <3> QED  BY <2>1, <3>1
  <2> QED  BY <1>3, <2>2, <2>3, <2>4 DEF FinishBatch
<1>4. CASE Commit(s)
  <2>1. w.pc = "commit" /\ "commit" \in Trying /\ (Leave(s, "ack", FALSE) \/ Leave(s, "failing", TRUE))
    BY <1>4 DEF Commit, Trying
  <2>2. worker'[s].pc = "ack" \/ worker'[s].pc = "failing"
    BY <1>0, <2>1, LeaveFields
  <2> QED  BY <2>1, <2>2
<1> QED  BY <1>1, <1>2, <1>3, <1>4

\* What a step that is not the holder's leaves alone.
Untouched(u) == /\ UNCHANGED <<chunked[u], model[u], embedded[u], succeeded[u], vector[u]>>
                /\ stage'[u] = stage[u] \/ stage'[u] \in {"QUEUED", "FETCHING_SOURCE", "FAILED"}

LEMMA HolderStep == ASSUME TypeOK, Next, NEW u \in Versions
                    PROVE  ByHolder(u)
<1>0. Untouched(u) => ByHolder(u)
  BY DEF Untouched, ByHolder
<1>1. ASSUME NEW s \in Slots, AttemptWrites(s)
      PROVE  ByHolder(u)
  <2> DEFINE w == worker[s]
  <2>0. w.v \in Versions
    BY DEF TypeOK, SlotsOK, Worker
  <2>1. CASE Claim(s) \/ RecordFailure(s)
    <3>1. Untouched(u)
      BY <2>0, <2>1 DEF TypeOK, TablesOK, Claim, RecordFailure, chunkVars, Untouched
    <3> QED  BY <1>0, <3>1
  <2>2. CASE \/ FetchSource(s) \/ ExtractText(s) \/ StartEmbedding(s) \/ StartIndexing(s)
             \/ SaveChunks(s) \/ FinishBatch(s) \/ Commit(s)
    <3>1. Fenced(w.v, w.token) /\ w.pc \in Trying /\ w' # w
      BY <2>2, MovesOn DEF FetchSource, ExtractText, StartEmbedding, StartIndexing, Advance,
         SaveChunks, FinishBatch, Commit
    <3>2. vector' = vector
      BY <2>2 DEF FetchSource, ExtractText, StartEmbedding, StartIndexing, Advance,
         SaveChunks, FinishBatch, Commit, chunkVars
    <3>3. CASE w.v = u
      <4>1. HolderMoves(u)
        BY <3>1, <3>3, FencedMoves
      <4> QED  BY <3>2, <4>1 DEF ByHolder
    <3>4. CASE w.v # u
      <4>1. Untouched(u)
        BY <2>0, <2>2, <3>2, <3>4 DEF TypeOK, TablesOK, FetchSource, ExtractText, StartEmbedding,
           StartIndexing, Advance, SaveChunks, FinishBatch, Commit, versionVars, ingestionVars,
           attemptVars, chunkVars, Untouched
      <4> QED  BY <1>0, <4>1
    <3> QED  BY <3>3, <3>4
  <2> QED  BY <1>1, <2>1, <2>2 DEF AttemptWrites
<1>2. ASSUME NEW l \in Loops, LoopWrites(l)
      PROVE  ByHolder(u)
  <2>0. loop[l].v \in Versions
    BY DEF TypeOK, LoopsOK, Loop
  <2>1. Untouched(u)
    BY <1>2, <2>0 DEF TypeOK, TablesOK, LoopWrites, Exhaust, Reissue, GiveUp, RequestProcessing,
       attemptVars, chunkVars, Untouched
  <2> QED  BY <1>0, <2>1
<1>3. ASSUME NEW v \in Versions, VersionWrites(v)
      PROVE  ByHolder(u)
  <2>1. Untouched(u)
    BY <1>3 DEF TypeOK, TablesOK, VersionWrites, Reprocess, RequestProcessing, LeaseLapses, TurnsIdle,
       versionVars, ingestionVars, attemptVars, chunkVars, Untouched
  <2> QED  BY <1>0, <2>1
<1>4. ASSUME NEW k \in calls, StoreVector(k)
      PROVE  ByHolder(u)
  <2>0. k.v \in Versions /\ k.chunk \in Chunks
    BY DEF TypeOK, CallsOK, Call
  <2>1. UNCHANGED <<chunked, model, embedded, succeeded, stage>>
    BY <1>4 DEF StoreVector, versionVars, ingestionVars, attemptVars
  <2>2. ASSUME NEW c \in Chunks, vector'[u][c] # vector[u][c]
        PROVE  CallReturns(u, c)
    <3>1. k.v = u /\ k.chunk = c /\ k.model = vector'[u][c]
      BY <1>4, <2>0, <2>2 DEF StoreVector, TypeOK, VectorsOK
    <3>2. k \in calls \ calls' /\ lease[u] = "live" /\ token[u] = k.token
      BY <1>4, <3>1 DEF StoreVector, Fenced
    <3> QED  BY <3>1, <3>2 DEF CallReturns
  <2> QED  BY <2>1, <2>2 DEF ByHolder
<1>5. CASE UNCHANGED dbVars
  <2>1. Untouched(u)
    BY <1>5 DEF dbVars, versionVars, ingestionVars, attemptVars, chunkVars, Untouched
  <2> QED  BY <1>0, <2>1
<1> QED  BY <1>1, <1>2, <1>3, <1>4, <1>5, TablesFrame DEF TablesWritten

\* A READY version is frozen; what an attempt produces, and every vector, is
\* written by the attempt that holds the live lease or by a call it made.
THEOREM WritesAreFenced == Spec => WritesFenced
<1>1. TypeOK /\ [Next]_vars => [\A v \in Versions : ReadyFrozen(v) /\ ByHolder(v)]_vars
  BY FrozenStep, HolderStep
<1> QED  BY <1>1, TypeCorrect, PTL DEF Spec, WritesFenced

-----------------------------------------------------------------------------
(* Processing refines FencedTask: attempts, token and succeeded are its    *)
(* epoch, holder and done. The link is that a version is READY exactly     *)
(* when one of its attempts succeeded.                                     *)

DoneWhenReady == \A v \in Versions : status[v] = "READY" <=> succeeded[v] # {}

LEMMA DoneStep == ASSUME TypeOK, DoneWhenReady, Next
                  PROVE  DoneWhenReady'
<1> USE DEF TypeOK, TablesOK, DoneWhenReady
<1>1. ASSUME NEW s \in Slots, AttemptWrites(s)
      PROVE  DoneWhenReady'
  <2>0. worker[s].v \in Versions
    BY DEF SlotsOK, Worker
  <2>1. CASE Claim(s) \/ SaveChunks(s) \/ FinishBatch(s)
    BY <2>0, <2>1 DEF Claim, Declines, SaveChunks, FinishBatch, ingestionVars, attemptVars,
       versionVars
  <2>2. CASE FetchSource(s) \/ ExtractText(s) \/ StartEmbedding(s) \/ StartIndexing(s)
    BY <2>2 DEF FetchSource, ExtractText, StartEmbedding, StartIndexing, Advance, versionVars,
       attemptVars
  <2>3. CASE Commit(s)
    BY <2>0, <2>3 DEF Commit
  <2>4. CASE RecordFailure(s)
    BY <2>0, <2>4 DEF RecordFailure
  <2> QED  BY <1>1, <2>1, <2>2, <2>3, <2>4 DEF AttemptWrites
<1>2. ASSUME NEW l \in Loops, LoopWrites(l)
      PROVE  DoneWhenReady'
  <2>0. loop[l].v \in Versions
    BY DEF LoopsOK, Loop
  <2> QED
    BY <1>2, <2>0 DEF LoopWrites, Exhaust, Reissue, GiveUp, Recoverable, RequestProcessing,
       attemptVars
<1>3. ASSUME NEW v \in Versions, VersionWrites(v)
      PROVE  DoneWhenReady'
  BY <1>3 DEF VersionWrites, Reprocess, RequestProcessing, LeaseLapses, TurnsIdle, versionVars,
     attemptVars
<1>4. ASSUME NEW k \in calls, StoreVector(k)
      PROVE  DoneWhenReady'
  BY <1>4 DEF StoreVector, versionVars, attemptVars
<1>5. CASE UNCHANGED dbVars
  BY <1>5 DEF dbVars, versionVars, attemptVars
<1> QED  BY <1>1, <1>2, <1>3, <1>4, <1>5, TablesFrame DEF TablesWritten

\* An attempt is recorded as having succeeded exactly for READY versions: the
\* commit writes both, and nothing after it writes either (kb.processing).
THEOREM DoneInvariant == Spec => []DoneWhenReady
<1>1. Init => DoneWhenReady
  BY DEF Init, DoneWhenReady
<1>2. TypeOK /\ DoneWhenReady /\ [Next]_vars => DoneWhenReady'
  <2>1. ASSUME DoneWhenReady, UNCHANGED vars PROVE DoneWhenReady'
    BY <2>1 DEF DoneWhenReady, vars, dbVars, versionVars, attemptVars
  <2> QED  BY <2>1, DoneStep
<1> QED  BY <1>1, <1>2, TypeCorrect, PTL DEF Spec

LEMMA TaskStep == ASSUME TypeOK, Agreement, DoneWhenReady, Next
                  PROVE  [Task!Next]_(Task!vars)
<1> USE DEF TypeOK, TablesOK, Task!vars
<1>1. ASSUME NEW s \in Slots, AttemptWrites(s)
      PROVE  [Task!Next]_(Task!vars)
  <2> DEFINE v == worker[s].v
  <2>0. v \in Versions
    BY DEF SlotsOK, Worker
  <2>1. CASE Claim(s)
    <3>1. Task!Acquire(v)
      BY <2>0, <2>1 DEF Claim, Declines, DoneWhenReady, Task!Acquire
    <3> QED  BY <2>0, <3>1 DEF Task!Next
  <2>2. CASE Commit(s)
    <3>1. Task!Finish(v)
      BY <2>0, <2>2 DEF Commit, Fenced, FreeLease, Agreement, DoneWhenReady, Task!Finish
    <3> QED  BY <2>0, <3>1 DEF Task!Next
  <2>3. CASE RecordFailure(s)
    <3>1. Task!Drop(v) \/ UNCHANGED Task!vars
      BY <2>0, <2>3 DEF RecordFailure, FreeLease, Agreement, Task!Drop
    <3> QED  BY <2>0, <3>1 DEF Task!Next
  <2>4. CASE SaveChunks(s) \/ FinishBatch(s)
    BY <2>4 DEF SaveChunks, FinishBatch, ingestionVars, attemptVars, versionVars
  <2>5. CASE FetchSource(s) \/ ExtractText(s) \/ StartEmbedding(s) \/ StartIndexing(s)
    BY <2>5 DEF FetchSource, ExtractText, StartEmbedding, StartIndexing, Advance, versionVars,
       attemptVars
  <2> QED  BY <1>1, <2>1, <2>2, <2>3, <2>4, <2>5 DEF AttemptWrites
<1>2. ASSUME NEW v \in Versions, FreeLease(v), UNCHANGED <<attempts, succeeded>>
      PROVE  [Task!Next]_(Task!vars)
  <2>1. Task!Drop(v) \/ UNCHANGED Task!vars
    BY <1>2 DEF FreeLease, Task!Drop
  <2> QED  BY <2>1 DEF Task!Next
<1>3. ASSUME NEW l \in Loops, LoopWrites(l)
      PROVE  [Task!Next]_(Task!vars)
  <2>0. loop[l].v \in Versions
    BY DEF LoopsOK, Loop
  <2>1. CASE Exhaust(l)
    BY <2>1 DEF Exhaust, attemptVars
  <2>2. CASE Reissue(l) \/ GiveUp(l)
    BY <1>2, <2>0, <2>2 DEF Reissue, GiveUp, RequestProcessing, attemptVars
  <2> QED  BY <1>3, <2>1, <2>2 DEF LoopWrites
<1>4. ASSUME NEW v \in Versions, VersionWrites(v)
      PROVE  [Task!Next]_(Task!vars)
  <2>1. CASE Reprocess(v)
    BY <1>2, <2>1 DEF Reprocess, RequestProcessing
  <2>2. CASE LeaseLapses(v) \/ TurnsIdle(v)
    BY <2>2 DEF LeaseLapses, TurnsIdle, versionVars, ingestionVars, attemptVars
  <2> QED  BY <1>4, <2>1, <2>2 DEF VersionWrites
<1>5. CASE UNCHANGED dbVars \/ \E k \in calls : StoreVector(k)
  BY <1>5 DEF dbVars, StoreVector, versionVars, ingestionVars, attemptVars
<1> QED  BY <1>1, <1>3, <1>4, <1>5, TablesFrame DEF TablesWritten

\* Processing a version is a fenced task: one holder at a time, the latest
\* one, and at most one success, never taken again.
THEOREM Refinement == Spec => ImplementsFencedTask
<1>1. Init => Task!Init
  BY DEF Init, Task!Init
<1>2. TypeOK /\ Agreement /\ DoneWhenReady /\ [Next]_vars => [Task!Next]_(Task!vars)
  <2>1. ASSUME UNCHANGED vars PROVE UNCHANGED Task!vars
    BY <2>1 DEF vars, dbVars, versionVars, ingestionVars, attemptVars, Task!vars
  <2> QED  BY <2>1, TaskStep
<1> QED
  BY <1>1, <1>2, TypeCorrect, AgreementHolds, DoneInvariant, PTL
  DEF Spec, ImplementsFencedTask, Task!Spec

-----------------------------------------------------------------------------
(* A READY version's index is whole. A slot without a key saves no vector, *)
(* so a commit counts all of them or none.                                 *)

Keyless(w, key)  == /\ w.pc = "idle" => w.saved = {}
                    /\ ~key => w.saved = {} /\ w.pc # "saving"
KeylessSavesNothing == \A s \in Slots : Keyless(worker[s], env[s].key)

\* A slot's step, other than a redeployment, changes its own worker only.
LEMMA SlotLocal == ASSUME TypeOK, NEW s \in Slots, SlotStep(s), ~Redeploy(s)
                   PROVE  UNCHANGED env /\ \A t \in Slots \ {s} : worker'[t] = worker[t]
<1>0. worker \in [Slots -> Worker]
  BY DEF TypeOK, SlotsOK
<1>1. CASE \/ FinishBatch(s) \/ Commit(s) \/ StepFails(s) \/ SourceRejected(s) \/ RecordFailure(s) \/ DeferFailure(s)
  BY <1>0, <1>1, LeaveFields DEF FinishBatch, Commit, StepFails, SourceRejected, Fail, RecordFailure, DeferFailure
<1>2. CASE \/ Receive(s) \/ Decline(s) \/ ClaimFails(s) \/ Claim(s) \/ FetchSource(s) \/ ExtractText(s)
           \/ SaveChunks(s) \/ StartEmbedding(s) \/ StartIndexing(s) \/ Acknowledge(s) \/ Crash(s)
           \/ \E c \in Chunks : LookupVector(s, c)
  BY <1>0, <1>2 DEF Receive, Take, Decline, ClaimFails, Claim, FetchSource, ExtractText, SaveChunks,
     StartEmbedding, StartIndexing, Advance, Acknowledge, Crash, LookupVector
<1> QED  BY <1>1, <1>2 DEF SlotStep, AttemptStep

LEMMA KeylessSlot == ASSUME TypeOK, NEW s \in Slots, SlotStep(s), ~Redeploy(s), Keyless(worker[s], env[s].key)
                     PROVE  Keyless(worker'[s], env[s].key)
<1> DEFINE key == env[s].key
<1>0. worker \in [Slots -> Worker] /\ worker[s] \in Worker
  BY DEF TypeOK, SlotsOK
<1>a. ASSUME NEW p, p \notin {"idle", "saving"}, worker'[s] = [worker[s] EXCEPT !.pc = p], worker[s].pc # "idle"
      PROVE  Keyless(worker'[s], key)
  BY <1>0, <1>a DEF Keyless, Worker
<1>b. ASSUME NEW p, NEW b, Leave(s, p, b), p # "saving"
      PROVE  Keyless(worker'[s], key)
  BY <1>0, <1>b, LeaveFields DEF Keyless
<1>c. Keyless(Idle, key)
  BY DEF Keyless, Idle
<1>1. CASE Receive(s)
  <2>1. worker'[s].saved = {} /\ worker'[s].pc = "claim"
    BY <1>0, <1>1 DEF Receive, Take, Idle
  <2> QED  BY <2>1 DEF Keyless
<1>2. CASE Decline(s) \/ FetchSource(s) \/ ExtractText(s) \/ SaveChunks(s) \/ StartIndexing(s)
  BY <1>0, <1>2, <1>a DEF Decline, FetchSource, ExtractText, SaveChunks, StartIndexing, Advance
<1>3. CASE ClaimFails(s) \/ Claim(s)
  <2>1. ClaimFails(s) => worker'[s].pc = "ack" /\ worker'[s].saved = worker[s].saved
    BY <1>0 DEF ClaimFails, Worker
  <2>2. Claim(s) => worker'[s].pc = "fetch" /\ worker'[s].saved = worker[s].saved
    BY <1>0 DEF Claim, Worker
  <2>3. worker'[s].pc \in {"ack", "fetch"} /\ worker'[s].saved = worker[s].saved
    BY <1>3, <2>1, <2>2
  <2> QED  BY <2>3, <1>3 DEF Keyless
<1>4. CASE StartEmbedding(s)
  <2>1. worker'[s].pc = (IF key THEN "saving" ELSE "index") /\ worker'[s].saved = worker[s].saved
    BY <1>0, <1>4 DEF StartEmbedding, Advance, Worker
  <2> QED  BY <2>1 DEF Keyless
<1>5. CASE FinishBatch(s)
  <2>1. CASE Leave(s, "failing", TRUE)
    BY <1>b, <2>1
  <2>2. CASE worker' = [worker EXCEPT ![s].offset = @ + BatchSize]
    BY <1>0, <1>5, <2>2 DEF FinishBatch, Keyless, Worker
  <2>3. CASE worker' = [worker EXCEPT ![s].pc = "index"]
    BY <1>0, <1>5, <1>a, <2>3 DEF FinishBatch
  <2> QED  BY <1>5, <2>1, <2>2, <2>3 DEF FinishBatch
<1>6. ASSUME NEW c \in Chunks, LookupVector(s, c)
      PROVE  Keyless(worker'[s], key)
  <2>1. worker[s].pc = "saving" /\ worker'[s].pc = "saving" /\ key
    BY <1>0, <1>6 DEF LookupVector, Keyless, Worker
  <2> QED  BY <2>1 DEF Keyless
<1>7. CASE Commit(s) \/ StepFails(s) \/ SourceRejected(s) \/ RecordFailure(s) \/ DeferFailure(s)
  BY <1>7, <1>b DEF Commit, StepFails, SourceRejected, Fail, RecordFailure, DeferFailure
<1>8. CASE Acknowledge(s) \/ Crash(s)
  BY <1>0, <1>8, <1>c DEF Acknowledge, Crash
<1> QED  BY <1>1, <1>2, <1>3, <1>4, <1>5, <1>6, <1>7, <1>8 DEF SlotStep, AttemptStep

LEMMA KeylessStep == ASSUME TypeOK, KeylessSavesNothing, Next
                     PROVE  KeylessSavesNothing'
<1>0. worker \in [Slots -> Worker] /\ env \in [Slots -> Envs]
  BY DEF TypeOK, SlotsOK
<1>1. ASSUME NEW s \in Slots, SlotStep(s), ~Redeploy(s)
      PROVE  KeylessSavesNothing'
  <2>1. UNCHANGED env /\ \A t \in Slots \ {s} : worker'[t] = worker[t]
    BY <1>1, SlotLocal
  <2>2. Keyless(worker'[s], env[s].key)
    BY <1>1, KeylessSlot DEF KeylessSavesNothing
  <2> QED  BY <2>1, <2>2 DEF KeylessSavesNothing
<1>2. ASSUME NEW s \in Slots, Redeploy(s)
      PROVE  KeylessSavesNothing'
  <2>1. UNCHANGED worker /\ worker[s].pc = "idle" /\ \A t \in Slots \ {s} : env'[t] = env[t]
    BY <1>0, <1>2 DEF Redeploy
  <2>2. Keyless(worker[s], env'[s].key)
    BY <2>1 DEF KeylessSavesNothing, Keyless
  <2> QED  BY <2>1, <2>2 DEF KeylessSavesNothing
<1>3. ASSUME NEW k \in calls, StoreVector(k) \/ MissVector(k)
      PROVE  KeylessSavesNothing'
  <2> DEFINE s == k.slot
  <2>0. s \in Slots /\ worker[s] \in Worker
    BY <1>0 DEF TypeOK, CallsOK, Call
  <2>1. UNCHANGED env /\ \A t \in Slots \ {s} : worker'[t] = worker[t]
    BY <1>0, <1>3 DEF StoreVector, MissVector
  <2>2. CASE ~Awaited(k)
    BY <1>3, <2>1, <2>2 DEF StoreVector, MissVector, KeylessSavesNothing
  <2>3. CASE Awaited(k)
    <3>1. worker[s].pc = "saving" /\ env[s].key
      BY <2>0, <2>3 DEF Awaited, KeylessSavesNothing, Keyless
    <3>2. worker'[s].pc = worker[s].pc
      BY <1>0, <1>3, <2>0 DEF StoreVector, MissVector, Worker
    <3> QED  BY <2>1, <3>1, <3>2 DEF KeylessSavesNothing, Keyless
  <2> QED  BY <2>2, <2>3
<1>4. UNCHANGED <<worker, env>> => KeylessSavesNothing'
  BY DEF KeylessSavesNothing
<1> QED
  BY <1>1, <1>2, <1>3, <1>4, LoopFrame, DeliveryFrame, OperatorFrame, TimeFrame
  DEF Next, CallStep, Operators

WholeIndex(v) ==
  /\ chunked[v] /\ embedded[v] = indexed[v] /\ indexed[v] \in {0, NumChunks}
  /\ indexed[v] = 0 <=> model[v] = NoModel
  /\ indexed[v] # 0 => \A c \in Chunks : vector[v][c] # NoModel

LEMMA CommitWhole == ASSUME TypeOK, KeylessSavesNothing, NEW s \in Slots, Commit(s),
                            NEW v \in Versions, worker[s].v = v
                     PROVE  WholeIndex(v)'
<1> DEFINE w == worker[s]  count == Cardinality(w.saved)
<1>1. w.saved \in SUBSET Chunks /\ env[s].model \in Models
  BY Parameters DEF TypeOK, SlotsOK, Worker
<1>2. /\ chunked'[v] = chunked[v] /\ chunked[v] /\ UNCHANGED vector
      /\ embedded'[v] = count /\ indexed'[v] = count
      /\ model'[v] = IF count # 0 THEN env[s].model ELSE NoModel
      /\ Complete(s)
  BY <1>1 DEF Commit, TypeOK, TablesOK, chunkVars
<1>3. CASE env[s].key
  <2>1. count = NumChunks /\ \A c \in Chunks : vector[v][c] # NoModel
    BY <1>2, <1>3 DEF Complete
  <2>2. NumChunks # 0 /\ env[s].model # NoModel
    BY <1>1, IngestionAssumption
  <2> QED  BY <1>2, <2>1, <2>2 DEF WholeIndex
<1>4. CASE ~env[s].key
  <2>1. count = 0
    BY <1>4, FS_EmptySet DEF KeylessSavesNothing, Keyless
  <2> QED  BY <1>2, <2>1 DEF WholeIndex
<1> QED  BY <1>3, <1>4

LEMMA IndexStep == ASSUME TypeOK, Agreement, DoneWhenReady, IndexComplete, KeylessSavesNothing, Next
                   PROVE  IndexComplete'
<1>1. DoneWhenReady'
  BY DoneStep
<1>2. ASSUME NEW u \in Versions, status'[u] = "READY"
      PROVE  WholeIndex(u)'
  <2>1. CASE status[u] = "READY"
    <3>1. lease[u] = "none"
      BY <2>1 DEF Agreement
    <3>2. ReadyFrozen(u) /\ ByHolder(u) /\ lease[u] # "live"
      BY <3>1, FrozenStep, HolderStep
    <3>3. /\ UNCHANGED <<model[u], indexed[u], embedded[u], chunked[u]>>
          /\ \A c \in Chunks : vector'[u][c] = vector[u][c]
      BY <2>1, <3>2 DEF ReadyFrozen, ByHolder, HolderMoves, CallReturns
    <3>4. WholeIndex(u)
      BY <2>1 DEF IndexComplete, WholeIndex
    <3> QED  BY <3>3, <3>4 DEF WholeIndex
  <2>2. CASE status[u] # "READY"
    <3>1. PICK s \in Slots : Commit(s) /\ worker[s].v = u
      <4>1. ASSUME NEW s \in Slots, AttemptWrites(s)
            PROVE  Commit(s) /\ worker[s].v = u
        <5>1. worker[s].v \in Versions
          BY DEF TypeOK, SlotsOK, Worker
        <5>2. CASE Commit(s)
          BY <1>2, <2>2, <5>1, <5>2 DEF Commit, TypeOK, TablesOK
        <5>3. CASE Claim(s) \/ RecordFailure(s)
          BY <1>2, <2>2, <5>1, <5>3 DEF Claim, RecordFailure, TypeOK, TablesOK
        <5>4. CASE \/ FetchSource(s) \/ ExtractText(s) \/ SaveChunks(s) \/ StartEmbedding(s)
                   \/ FinishBatch(s) \/ StartIndexing(s)
          BY <1>2, <2>2, <5>4 DEF FetchSource, ExtractText, SaveChunks, StartEmbedding,
             FinishBatch, StartIndexing, Advance, versionVars
        <5> QED  BY <4>1, <5>2, <5>3, <5>4 DEF AttemptWrites
      <4>2. ASSUME NEW l \in Loops, LoopWrites(l)
            PROVE  FALSE
        BY <1>2, <2>2, <4>2 DEF LoopWrites, Exhaust, Reissue, GiveUp, RequestProcessing,
           TypeOK, TablesOK
      <4>3. ASSUME NEW v \in Versions, VersionWrites(v)
            PROVE  FALSE
        BY <1>2, <2>2, <4>3 DEF VersionWrites, Reprocess, RequestProcessing, LeaseLapses,
           TurnsIdle, TypeOK, TablesOK, versionVars
      <4>4. ASSUME UNCHANGED dbVars \/ \E k \in calls : StoreVector(k)
            PROVE  FALSE
        BY <1>2, <2>2, <4>4 DEF StoreVector, dbVars, versionVars
      <4> QED  BY <4>1, <4>2, <4>3, <4>4, TablesFrame DEF TablesWritten
    <3> QED  BY <3>1, CommitWhole
  <2> QED  BY <2>1, <2>2
<1> QED  BY <1>1, <1>2 DEF DoneWhenReady, IndexComplete, WholeIndex

\* No version is ever published as READY with a partial index.
THEOREM IndexIsComplete == Spec => []IndexComplete
<1>1. Init => IndexComplete /\ KeylessSavesNothing
  BY DEF Init, IndexComplete, KeylessSavesNothing, Keyless, Idle
<1>2. TypeOK /\ Agreement /\ DoneWhenReady /\ IndexComplete /\ KeylessSavesNothing /\ [Next]_vars
      => IndexComplete' /\ KeylessSavesNothing'
  <2>1. ASSUME IndexComplete, KeylessSavesNothing, UNCHANGED vars
        PROVE  IndexComplete' /\ KeylessSavesNothing'
    BY <2>1 DEF IndexComplete, KeylessSavesNothing, vars, dbVars, versionVars, ingestionVars,
       attemptVars, chunkVars, processVars
  <2> QED  BY <2>1, IndexStep, KeylessStep
<1> QED  BY <1>1, <1>2, TypeCorrect, AgreementHolds, DoneInvariant, PTL DEF Spec

-----------------------------------------------------------------------------
(* The vectors of a version. An attempt's token is its own: no other slot  *)
(* holds it, no call carries it before the attempt has recorded the        *)
(* version's model, and a call stores vectors of the model its slot runs   *)
(* with.                                                                   *)

Early       == {"fetch", "extract", "chunk"}         \* the model is not recorded yet
AfterChunks == {"saving", "index", "commit"}
Current(v, n) == status[v] = "PROCESSING" /\ token[v] = n

TokensFresh == /\ \A s \in Slots : worker[s].token <= attempts[worker[s].v]
               /\ \A k \in calls : k.token <= attempts[k.v]

TokensUnique == \A s, t \in Slots : LET w == worker[s] x == worker[t] IN
  s # t /\ w.pc \in Trying /\ x.pc \in Trying /\ w.v = x.v => w.token # x.token

CallsAfterChunks == \A k \in calls, s \in Slots : LET w == worker[s] IN
  w.pc \in Trying /\ w.v = k.v /\ w.token = k.token => w.pc \in AfterChunks

CallsModel == \A k \in calls : k.model = env[k.slot].model

TokenInv == TokensFresh /\ TokensUnique /\ CallsAfterChunks /\ CallsModel

\* What a slot's step makes of its worker.
LEMMA SlotMoves == ASSUME TypeOK, NEW s \in Slots, SlotStep(s), ~Redeploy(s)
  PROVE  LET w == worker[s] x == worker'[s] IN
         \/ Claim(s)
         \/ x.pc \notin Trying /\ (x.token = 0 \/ (x.token = w.token /\ x.v = w.v))
         \/ /\ w.pc \in Trying /\ x.v = w.v /\ x.token = w.token /\ x.base = w.base
            /\ \/ w.pc \in Early /\ x.pc \in Early
               \/ SaveChunks(s) /\ w.pc = "chunk" /\ x.pc = "embed"
               \/ w.pc \notin Early /\ x.pc \in AfterChunks
<1> DEFINE w == worker[s]
<1>0. worker \in [Slots -> Worker] /\ w \in Worker
  BY DEF TypeOK, SlotsOK
<1>a. ASSUME NEW p, NEW b, Leave(s, p, b)
      PROVE  worker'[s].pc = p /\ worker'[s].token = w.token /\ worker'[s].v = w.v
  <2> DEFINE x == [Idle EXCEPT !.pc = p, !.v = w.v, !.g = w.g, !.token = w.token, !.again = b]
  <2>1. worker' = [worker EXCEPT ![s] = x]
    BY <1>a DEF Leave
  <2>2. x.pc = p /\ x.token = w.token /\ x.v = w.v
    BY DEF Idle
  <2> HIDE DEF x
  <2> QED  BY <1>0, <2>1, <2>2
<1>b. ASSUME NEW p, worker' = [worker EXCEPT ![s].pc = p]
      PROVE  /\ worker'[s].pc = p /\ worker'[s].token = w.token
             /\ worker'[s].v = w.v /\ worker'[s].base = w.base
  BY <1>0, <1>b DEF Worker
<1>2. CASE Receive(s) \/ Acknowledge(s) \/ Crash(s)
  <2>1. worker'[s].pc \in {"idle", "claim"} /\ worker'[s].token = 0
    <3>1. Receive(s) => worker'[s].pc = "claim" /\ worker'[s].token = 0
      BY <1>0 DEF Receive, Take, Idle
    <3>2. Acknowledge(s) \/ Crash(s) => worker'[s] = Idle
      BY <1>0 DEF Acknowledge, Crash
    <3> QED  BY <1>2, <3>1, <3>2 DEF Idle
  <2> QED  BY <2>1 DEF Trying
<1>3. CASE Decline(s)
  BY <1>3, <1>b DEF Decline, Trying
<1>4. CASE ClaimFails(s)
  BY <1>0, <1>4 DEF ClaimFails, Trying, Worker
<1>5. CASE StepFails(s) \/ SourceRejected(s) \/ RecordFailure(s) \/ DeferFailure(s) \/ Commit(s)
  <2>1. /\ worker'[s].pc \in {"failing", "ack"}
        /\ worker'[s].token = w.token /\ worker'[s].v = w.v
    BY <1>5, <1>a DEF StepFails, SourceRejected, RecordFailure, DeferFailure, Commit, Fail
  <2> QED  BY <2>1 DEF Trying
<1>6. CASE FetchSource(s) \/ ExtractText(s)
  BY <1>6, <1>b DEF FetchSource, ExtractText, Advance, Trying, Early
<1>7. CASE SaveChunks(s)
  BY <1>7, <1>b DEF SaveChunks, Trying
<1>8. CASE StartEmbedding(s)
  BY <1>8, <1>b DEF StartEmbedding, Advance, Trying, Early, AfterChunks
<1>9. CASE StartIndexing(s)
  BY <1>9, <1>b DEF StartIndexing, Advance, Trying, Early, AfterChunks
<1>10. CASE FinishBatch(s)
  <2>1. CASE Leave(s, "failing", TRUE)
    <3>1. worker'[s].pc = "failing" /\ worker'[s].token = w.token /\ worker'[s].v = w.v
      BY <2>1, <1>a
    <3> QED  BY <3>1 DEF Trying
  <2>2. CASE worker' = [worker EXCEPT ![s].offset = @ + BatchSize]
    <3>1. /\ worker'[s].pc = w.pc /\ worker'[s].token = w.token
          /\ worker'[s].v = w.v /\ worker'[s].base = w.base
      BY <1>0, <2>2 DEF Worker
    <3> QED  BY <1>10, <3>1 DEF FinishBatch, Trying, Early, AfterChunks
  <2>3. CASE worker' = [worker EXCEPT ![s].pc = "index"]
    BY <1>10, <2>3, <1>b DEF FinishBatch, Trying, Early, AfterChunks
  <2> QED  BY <1>10, <2>1, <2>2, <2>3 DEF FinishBatch
<1>11. ASSUME NEW c \in Chunks, LookupVector(s, c)
       PROVE  /\ w.pc = "saving" /\ worker'[s].pc = w.pc /\ worker'[s].token = w.token
              /\ worker'[s].v = w.v /\ worker'[s].base = w.base
  BY <1>0, <1>11 DEF LookupVector, Worker
<1> QED
  BY <1>2, <1>3, <1>4, <1>5, <1>6, <1>7, <1>8, <1>9, <1>10, <1>11
  DEF SlotStep, AttemptStep, Trying, Early, AfterChunks

LEMMA ClaimMoves == ASSUME TypeOK, NEW s \in Slots, Claim(s)
  PROVE  LET w == worker[s] x == worker'[s] n == attempts[w.v] + 1 IN
         /\ w.v \in Versions /\ x.pc = "fetch" /\ x.v = w.v /\ x.token = n /\ x.base = model[w.v]
         /\ status' = [status EXCEPT ![w.v] = "PROCESSING"] /\ token' = [token EXCEPT ![w.v] = n]
         /\ attempts' = [attempts EXCEPT ![w.v] = n]
         /\ UNCHANGED <<model, vector, env, calls>>
         /\ \A t \in Slots \ {s} : worker'[t] = worker[t]
<1>0. worker \in [Slots -> Worker] /\ worker[s] \in Worker /\ worker[s].v \in Versions
  BY DEF TypeOK, SlotsOK, Worker
<1> QED  BY <1>0 DEF Claim, Worker, chunkVars

\* The calls a slot's step leaves are those there were, and the one it makes.
LEMMA CallsMade == ASSUME TypeOK, NEW s \in Slots, SlotStep(s), ~Redeploy(s)
  PROVE  LET w == worker[s] x == worker'[s] IN \A k \in calls' :
         k \in calls \/ (/\ w.pc = "saving" /\ x.pc = "saving" /\ x.v = w.v /\ x.token = w.token
                         /\ k.slot = s /\ k.v = w.v /\ k.token = w.token /\ k.model = env[s].model)
<1>0. worker \in [Slots -> Worker] /\ worker[s] \in Worker
  BY DEF TypeOK, SlotsOK
<1> SUFFICES ASSUME NEW k \in calls'
             PROVE  LET w == worker[s] x == worker'[s] IN
                    k \in calls \/ (/\ w.pc = "saving" /\ x.pc = "saving" /\ x.v = w.v /\ x.token = w.token
                                    /\ k.slot = s /\ k.v = w.v /\ k.token = w.token /\ k.model = env[s].model)
  OBVIOUS
<1>1. ASSUME NEW c \in Chunks, LookupVector(s, c), k \notin calls
      PROVE  /\ worker[s].pc = "saving" /\ UNCHANGED worker /\ k.slot = s /\ k.v = worker[s].v
             /\ k.token = worker[s].token /\ k.model = env[s].model
  BY <1>1 DEF LookupVector
<1>2. CASE Crash(s)
  BY <1>2 DEF Crash
<1>3. CASE AttemptStep(s) /\ ~\E c \in Chunks : LookupVector(s, c)
  BY <1>3 DEF AttemptStep, Decline, ClaimFails, Claim, FetchSource, ExtractText, SaveChunks,
     StartEmbedding, FinishBatch, StartIndexing, Advance, Commit, StepFails,
     SourceRejected, Fail, RecordFailure, DeferFailure, Acknowledge
<1>4. CASE Receive(s)
  BY <1>4 DEF Receive, Take
<1> QED  BY <1>1, <1>2, <1>3, <1>4 DEF SlotStep, AttemptStep

\* Only a claim starts an attempt, or makes a token the version's own.
LEMMA OnlyClaims == ASSUME TypeOK, Next, \A s \in Slots : ~Claim(s)
                    PROVE  /\ UNCHANGED attempts
                           /\ \A v \in Versions : status'[v] = "PROCESSING" =>
                                status[v] = "PROCESSING" /\ token'[v] = token[v]
<1> DEFINE Goal == /\ UNCHANGED attempts
                   /\ \A v \in Versions : status'[v] = "PROCESSING" =>
                        status[v] = "PROCESSING" /\ token'[v] = token[v]
<1> USE DEF TypeOK, TablesOK
<1>1. ASSUME NEW s \in Slots, AttemptWrites(s)
      PROVE  Goal
  <2>0. worker[s].v \in Versions
    BY DEF SlotsOK, Worker
  <2>1. CASE Commit(s)
    BY <2>0, <2>1 DEF Commit, FreeLease
  <2>3. CASE RecordFailure(s)
    <3>1. /\ UNCHANGED attempts
          /\ UNCHANGED <<status, token>> \/ (FreeLease(worker[s].v) /\ status' = [status EXCEPT ![worker[s].v] = "FAILED"])
      BY <2>0, <2>3 DEF RecordFailure
    <3> QED  BY <2>0, <3>1 DEF FreeLease
  <2>2. CASE \/ FetchSource(s) \/ ExtractText(s) \/ SaveChunks(s) \/ StartEmbedding(s)
             \/ FinishBatch(s) \/ StartIndexing(s)
    BY <2>2 DEF FetchSource, ExtractText, SaveChunks, StartEmbedding, FinishBatch,
       StartIndexing, Advance, versionVars, ingestionVars
  <2> QED  BY <1>1, <2>1, <2>2, <2>3 DEF AttemptWrites
<1>2. ASSUME NEW l \in Loops, LoopWrites(l)
      PROVE  Goal
  <2>0. loop[l].v \in Versions
    BY DEF LoopsOK, Loop
  <2> QED
    BY <1>2, <2>0 DEF LoopWrites, Exhaust, Reissue, GiveUp, RequestProcessing, FreeLease
<1>3. ASSUME NEW v \in Versions, VersionWrites(v)
      PROVE  Goal
  <2>1. CASE Reprocess(v)
    BY <2>1 DEF Reprocess, RequestProcessing, FreeLease
  <2>2. CASE LeaseLapses(v) \/ TurnsIdle(v)
    BY <2>2 DEF LeaseLapses, TurnsIdle, versionVars, ingestionVars
  <2> QED  BY <1>3, <2>1, <2>2 DEF VersionWrites
<1>4. ASSUME NEW k \in calls, StoreVector(k)
      PROVE  Goal
  BY <1>4 DEF StoreVector, versionVars, ingestionVars
<1>5. CASE UNCHANGED dbVars
  BY <1>5 DEF dbVars, versionVars, ingestionVars
<1> QED  BY <1>1, <1>2, <1>3, <1>4, <1>5, TablesFrame DEF TablesWritten

\* Steps that start no attempt keep TokenInv, if a slot's worker does not go
\* back and a new call is its slot's own.
LEMMA TokenSlot == ASSUME TypeOK, TokenInv, Next, NEW s \in Slots, SlotStep(s), ~Redeploy(s),
                          \A t \in Slots : ~Claim(t)
                   PROVE  TokenInv'
<1> DEFINE w == worker[s]  x == worker'[s]
<1>0. /\ \A t \in Slots : /\ worker[t].v \in Versions /\ worker[t].token \in Nat
                          /\ worker'[t].v \in Versions /\ worker'[t].token \in Nat
      /\ \A v \in Versions : attempts[v] \in Nat
  BY SlotsStep DEF TypeOK, SlotsOK, TablesOK, Worker
<1>1. UNCHANGED <<attempts, env>> /\ \A t \in Slots \ {s} : worker'[t] = worker[t]
  BY SlotLocal, OnlyClaims
<1>2. \/ x.pc \notin Trying /\ (x.token = 0 \/ (x.token = w.token /\ x.v = w.v))
      \/ w.pc \in Trying /\ x.v = w.v /\ x.token = w.token /\ (w.pc \in AfterChunks => x.pc \in AfterChunks)
  <2>1. w.pc \in AfterChunks => w.pc \notin Early /\ w.pc # "chunk"
    BY DEF AfterChunks, Early
  <2> QED  BY <2>1, SlotMoves
<1>3. \A k \in calls' :
        k \in calls \/ (/\ w.pc = "saving" /\ x.pc = "saving" /\ x.v = w.v /\ x.token = w.token
                        /\ k.slot = s /\ k.v = w.v /\ k.token = w.token /\ k.model = env[s].model)
  BY CallsMade
<1>4. "saving" \in Trying /\ "saving" \in AfterChunks
  BY DEF Trying, AfterChunks
<1>5. TokensFresh'
  <2>1. \A t \in Slots : worker'[t].token <= attempts[worker'[t].v]
    BY <1>0, <1>1, <1>2 DEF TokenInv, TokensFresh
  <2>2. \A k \in calls' : k.token <= attempts[k.v]
    BY <1>0, <1>3 DEF TokenInv, TokensFresh
  <2> QED  BY <1>1, <2>1, <2>2 DEF TokensFresh
<1>6. TokensUnique'
  BY <1>1, <1>2 DEF TokenInv, TokensUnique
<1>7. CallsAfterChunks'
  BY <1>1, <1>2, <1>3, <1>4 DEF TokenInv, TokensUnique, CallsAfterChunks
<1>8. CallsModel'
  BY <1>1, <1>3 DEF TokenInv, CallsModel
<1> QED  BY <1>5, <1>6, <1>7, <1>8 DEF TokenInv

LEMMA TokenClaim == ASSUME TypeOK, TokenInv, NEW s \in Slots, Claim(s)
                    PROVE  TokenInv'
<1> DEFINE w == worker[s]  n == attempts[w.v] + 1
<1>0. /\ \A t \in Slots : worker[t].v \in Versions /\ worker[t].token \in Nat
      /\ \A v \in Versions : attempts[v] \in Nat
      /\ \A k \in calls : k.v \in Versions /\ k.token \in Nat
      /\ attempts \in [Versions -> Nat]
  BY DEF TypeOK, SlotsOK, TablesOK, CallsOK, Worker, Call
<1>1. /\ worker'[s].pc = "fetch" /\ worker'[s].v = w.v /\ worker'[s].token = n
      /\ attempts' = [attempts EXCEPT ![w.v] = n] /\ UNCHANGED <<env, calls>>
      /\ \A t \in Slots \ {s} : worker'[t] = worker[t]
  BY ClaimMoves
<1>2. /\ attempts'[w.v] = n /\ \A v \in Versions \ {w.v} : attempts'[v] = attempts[v]
      /\ n \in Nat /\ attempts[w.v] < n
  BY <1>0, <1>1
<1>3. TokensFresh'
  <2>1. \A t \in Slots : worker'[t].token <= attempts'[worker'[t].v]
    BY <1>0, <1>1, <1>2 DEF TokenInv, TokensFresh
  <2>2. \A k \in calls : k.token <= attempts'[k.v]
    BY <1>0, <1>1, <1>2 DEF TokenInv, TokensFresh
  <2> QED  BY <1>1, <2>1, <2>2 DEF TokensFresh
<1>4. \A t \in Slots : worker[t].v = w.v => worker[t].token # n
  BY <1>0, <1>2 DEF TokenInv, TokensFresh
<1>5. \A k \in calls : k.v = w.v => k.token # n
  BY <1>0, <1>2 DEF TokenInv, TokensFresh
<1>6. TokensUnique'
  BY <1>1, <1>4 DEF TokenInv, TokensUnique
<1>7. CallsAfterChunks'
  BY <1>1, <1>5 DEF TokenInv, CallsAfterChunks
<1>8. CallsModel'
  BY <1>1 DEF TokenInv, CallsModel
<1> QED  BY <1>3, <1>6, <1>7, <1>8 DEF TokenInv

LEMMA CallEnds == ASSUME TypeOK, NEW k \in calls, StoreVector(k) \/ MissVector(k)
  PROVE  /\ calls' = calls \ {k} /\ UNCHANGED <<attempts, env, model, status, token>>
         /\ \A t \in Slots : LET w == worker[t] x == worker'[t] IN
              x.pc = w.pc /\ x.v = w.v /\ x.token = w.token /\ x.base = w.base
<1>0. worker \in [Slots -> Worker] /\ k.slot \in Slots /\ worker[k.slot] \in Worker
  BY DEF TypeOK, SlotsOK, CallsOK, Call
<1>1. calls' = calls \ {k} /\ UNCHANGED <<attempts, env, model, status, token>>
  BY DEF StoreVector, MissVector, versionVars, ingestionVars, dbVars
<1>2. \/ UNCHANGED worker
      \/ worker' = [worker EXCEPT ![k.slot].saved = @ \cup {k.chunk}]
      \/ worker' = [worker EXCEPT ![k.slot].missed = @ \cup {k.chunk}]
  BY DEF StoreVector, MissVector
<1> QED  BY <1>0, <1>1, <1>2 DEF Worker

LEMMA TokenStep == ASSUME TypeOK, TokenInv, Next
                   PROVE  TokenInv'
<1>1. ASSUME NEW s \in Slots, Claim(s)
      PROVE  TokenInv'
  BY <1>1, TokenClaim
<1>2. ASSUME \A t \in Slots : ~Claim(t), NEW s \in Slots, SlotStep(s), ~Redeploy(s)
      PROVE  TokenInv'
  BY <1>2, TokenSlot
<1>3. ASSUME NEW s \in Slots, Redeploy(s)
      PROVE  TokenInv'
  <2>1. /\ UNCHANGED <<worker, calls, attempts>> /\ \A k \in calls : k.slot # s
        /\ \A t \in Slots \ {s} : env'[t] = env[t]
    BY <1>3 DEF Redeploy, TypeOK, SlotsOK, dbVars, ingestionVars
  <2>2. \A k \in calls : k.slot \in Slots
    BY DEF TypeOK, CallsOK, Call
  <2> QED  BY <2>1, <2>2 DEF TokenInv, TokensFresh, TokensUnique, CallsAfterChunks, CallsModel
<1>4. ASSUME NEW k \in calls, StoreVector(k) \/ MissVector(k)
      PROVE  TokenInv'
  BY <1>4, CallEnds DEF TokenInv, TokensFresh, TokensUnique, CallsAfterChunks, CallsModel
<1>5. ASSUME UNCHANGED <<worker, env, calls, attempts>>
      PROVE  TokenInv'
  BY <1>5 DEF TokenInv, TokensFresh, TokensUnique, CallsAfterChunks, CallsModel
<1> QED
  BY <1>1, <1>2, <1>3, <1>4, <1>5, OnlyClaims, LoopFrame, DeliveryFrame, OperatorFrame, TimeFrame
  DEF Next, CallStep, Operators


\* A processing token is its attempt's own: no two slots inside an attempt of
\* the same version hold the same one, zombies included, and an embedding call
\* under way was made by an attempt past its chunks, for the model its slot
\* runs with (kb.processing: the randomUUID of the claim).
THEOREM TokenInvariant == Spec => []TokenInv
<1>1. Init => TokenInv
  BY Parameters DEF Init, TokenInv, TokensFresh, TokensUnique, CallsAfterChunks, CallsModel, Idle, Trying
<1>2. TypeOK /\ TokenInv /\ [Next]_vars => TokenInv'
  <2>1. ASSUME TokenInv, UNCHANGED vars PROVE TokenInv'
    BY <2>1 DEF TokenInv, TokensFresh, TokensUnique, CallsAfterChunks, CallsModel, vars, dbVars,
       ingestionVars, processVars
  <2> QED  BY <2>1, TokenStep
<1> QED  BY <1>1, <1>2, TypeCorrect, PTL DEF Spec

-----------------------------------------------------------------------------
(* The vectors of a version, with a key that stays: they are of the model  *)
(* recorded, an attempt that has not recorded it yet knows what it was, one*)
(* that has runs with it, and so does every call that may still store.     *)

VectorsOfModel == \A v \in Versions, c \in Chunks : vector[v][c] \in {NoModel, model[v]}
AttemptModel == \A s \in Slots : LET w == worker[s] IN
  w.pc \in Trying /\ Current(w.v, w.token) =>
    IF w.pc \in Early THEN w.base = model[w.v] ELSE model[w.v] = env[s].model
CallModel == \A k \in calls : Current(k.v, k.token) => k.model = model[k.v]
VectorInv == VectorsOfModel /\ AttemptModel /\ CallModel

KeysKept == \A e \in Envs : e.key
OneModel == \A e, f \in Envs : e.model = f.model

LEMMA ModelWriters == ASSUME TypeOK, Next, \A s \in Slots : ~SaveChunks(s) /\ ~Commit(s)
                      PROVE  UNCHANGED model
<1>1. ASSUME NEW s \in Slots, AttemptWrites(s)
      PROVE  UNCHANGED model
  BY <1>1 DEF AttemptWrites, Claim, FetchSource, ExtractText, StartEmbedding, FinishBatch,
     StartIndexing, Advance, RecordFailure, versionVars
<1>2. ASSUME NEW l \in Loops, LoopWrites(l)
      PROVE  UNCHANGED model
  BY <1>2 DEF LoopWrites, Exhaust, Reissue, GiveUp, RequestProcessing
<1>3. ASSUME NEW v \in Versions, VersionWrites(v)
      PROVE  UNCHANGED model
  BY <1>3 DEF VersionWrites, Reprocess, RequestProcessing, LeaseLapses, TurnsIdle, versionVars
<1> QED  BY <1>1, <1>2, <1>3, TablesFrame DEF TablesWritten, StoreVector, dbVars, versionVars

LEMMA VectorWriters == ASSUME TypeOK, Next, \A k \in calls : ~StoreVector(k)
                       PROVE  UNCHANGED vector
  BY SlotFrame, LoopFrame, CallFrame, DeliveryFrame, OperatorFrame, TimeFrame
  DEF Next, CallStep, Operators, dbVars, chunkVars

LEMMA VectorClaim == ASSUME TypeOK, TokenInv, VectorInv, NEW s \in Slots, Claim(s)
                     PROVE  VectorInv'
<1> DEFINE w == worker[s]  n == attempts[w.v] + 1
<1>0. /\ \A t \in Slots : worker[t].v \in Versions /\ worker[t].token \in Nat
      /\ \A k \in calls : k.v \in Versions /\ k.token \in Nat
      /\ attempts \in [Versions -> Nat]
      /\ status \in [Versions -> Statuses] /\ token \in [Versions -> Nat]
  BY DEF TypeOK, SlotsOK, TablesOK, CallsOK, Worker, Call
<1>1. /\ worker'[s].pc = "fetch" /\ worker'[s].v = w.v /\ worker'[s].base = model[w.v]
      /\ UNCHANGED <<model, vector, env, calls>>
      /\ status' = [status EXCEPT ![w.v] = "PROCESSING"] /\ token' = [token EXCEPT ![w.v] = n]
      /\ \A t \in Slots \ {s} : worker'[t] = worker[t]
  BY ClaimMoves
<1>2. /\ \A t \in Slots : worker[t].v = w.v => worker[t].token # n
      /\ \A k \in calls : k.v = w.v => k.token # n
  BY <1>0 DEF TokenInv, TokensFresh
<1>3. \A v \in Versions, m \in Nat : Current(v, m)' => (v = w.v /\ m = n) \/ Current(v, m)
  BY <1>0, <1>1 DEF Current
<1>4. VectorsOfModel' /\ CallModel'
  BY <1>0, <1>1, <1>2, <1>3 DEF VectorInv, VectorsOfModel, CallModel
<1>5. ASSUME NEW t \in Slots, worker'[t].pc \in Trying,
             status'[worker'[t].v] = "PROCESSING", token'[worker'[t].v] = worker'[t].token
      PROVE  IF worker'[t].pc \in Early THEN worker'[t].base = model'[worker'[t].v]
             ELSE model'[worker'[t].v] = env'[t].model
  <2>1. CASE t = s
    BY <1>1, <2>1 DEF Early
  <2>2. CASE t # s
    <3>1. worker'[t] = worker[t]
      BY <1>1, <2>2
    <3>2. Current(worker[t].v, worker[t].token)
      <4> PICK v \in Versions, m \in Nat : v = worker[t].v /\ m = worker[t].token
        BY <1>0
      <4>1. Current(v, m)'
        BY <1>5, <3>1 DEF Current
      <4> QED  BY <1>2, <1>3, <4>1
    <3> QED  BY <1>1, <1>5, <3>1, <3>2 DEF VectorInv, AttemptModel
  <2> QED  BY <2>1, <2>2
<1> QED  BY <1>4, <1>5 DEF VectorInv, AttemptModel, Current

\* The model is recorded by the attempt that holds the version, after it found
\* that it may go on with the vectors there are.
LEMMA VectorSave == ASSUME TypeOK, TokenInv, VectorInv, KeysKept, NEW s \in Slots, SaveChunks(s)
                    PROVE  VectorInv'
<1> DEFINE w == worker[s]
<1>0. /\ \A t \in Slots : worker[t] \in Worker /\ worker[t].v \in Versions /\ worker[t].token \in Nat
      /\ \A k \in calls : k.v \in Versions /\ k.token \in Nat
      /\ worker \in [Slots -> Worker] /\ model \in [Versions -> Models \cup {NoModel}]
      /\ env[s].key
  BY DEF TypeOK, SlotsOK, TablesOK, CallsOK, Worker, Call, KeysKept
<1>1. /\ model' = [model EXCEPT ![w.v] = env[s].model]
      /\ worker' = [worker EXCEPT ![s].pc = "embed"]
      /\ UNCHANGED <<status, token, vector, env, calls>>
      /\ w.pc = "chunk" /\ Current(w.v, w.token) /\ w.base \in {NoModel, env[s].model}
  BY <1>0 DEF SaveChunks, Fenced, Current, ModelAccepted
<1>2. "chunk" \in Trying /\ "chunk" \in Early /\ "chunk" \notin AfterChunks /\ "embed" \notin Early
  BY DEF Trying, Early, AfterChunks
<1>3. w.base = model[w.v]
  BY <1>1, <1>2 DEF VectorInv, AttemptModel
<1>4. VectorsOfModel'
  BY <1>0, <1>1, <1>3 DEF VectorInv, VectorsOfModel
<1>5. \A k \in calls : Current(k.v, k.token) => k.v # w.v
  BY <1>1, <1>2 DEF TokenInv, CallsAfterChunks, Current
<1>6. CallModel'
  BY <1>0, <1>1, <1>5 DEF VectorInv, CallModel, Current
<1>7. \A t \in Slots \ {s} : worker[t].pc \in Trying /\ Current(worker[t].v, worker[t].token)
                            => worker[t].v # w.v
  BY <1>1, <1>2 DEF TokenInv, TokensUnique, Current
<1>8. AttemptModel'
  <2>1. worker'[s].pc = "embed" /\ worker'[s].v = w.v /\ model'[w.v] = env'[s].model
    BY <1>0, <1>1 DEF Worker
  <2>2. \A t \in Slots \ {s} : worker'[t] = worker[t]
    BY <1>0, <1>1
  <2> QED  BY <1>0, <1>1, <1>2, <1>7, <2>1, <2>2 DEF VectorInv, AttemptModel, Current
<1> QED  BY <1>4, <1>6, <1>8 DEF VectorInv

\* With a key, the commit records the model that is recorded already.
LEMMA CommitModel == ASSUME TypeOK, VectorInv, KeysKept, NEW s \in Slots, Commit(s)
                     PROVE  UNCHANGED model
<1> DEFINE w == worker[s]
<1>1. w.v \in Versions /\ env[s].key /\ model \in [Versions -> Models \cup {NoModel}]
  BY DEF TypeOK, SlotsOK, TablesOK, Worker, KeysKept
<1>2. /\ w.pc = "commit" /\ Current(w.v, w.token) /\ Cardinality(w.saved) = NumChunks
      /\ model' = [model EXCEPT ![w.v] = IF Cardinality(w.saved) # 0 THEN env[s].model ELSE NoModel]
  BY <1>1 DEF Commit, Complete, Fenced, Current
<1>3. "commit" \in Trying /\ "commit" \notin Early
  BY DEF Trying, Early
<1>4. model[w.v] = env[s].model
  BY <1>2, <1>3 DEF VectorInv, AttemptModel
<1>5. NumChunks # 0
  BY IngestionAssumption
<1> QED  BY <1>1, <1>2, <1>4, <1>5

LEMMA VectorSlot == ASSUME TypeOK, VectorInv, Next, NEW s \in Slots, SlotStep(s), ~Redeploy(s),
                           \A t \in Slots : ~Claim(t), ~SaveChunks(s), UNCHANGED model
                    PROVE  VectorInv'
<1> DEFINE w == worker[s]  x == worker'[s]
<1>0. /\ \A t \in Slots : worker[t].v \in Versions /\ worker[t].token \in Nat
      /\ \A t \in Slots : worker'[t].v \in Versions /\ worker'[t].token \in Nat
      /\ \A k \in calls' : k.v \in Versions /\ k.token \in Nat
  BY SlotsStep, CallsStep DEF TypeOK, SlotsOK, CallsOK, Worker, Call
<1>1. /\ UNCHANGED <<model, vector, env>> /\ \A t \in Slots \ {s} : worker'[t] = worker[t]
      /\ \A v \in Versions : status'[v] = "PROCESSING" => status[v] = "PROCESSING" /\ token'[v] = token[v]
  BY SlotFrame, SlotLocal, OnlyClaims
<1>2. \/ x.pc \notin Trying
      \/ /\ w.pc \in Trying /\ x.v = w.v /\ x.token = w.token /\ x.base = w.base
         /\ x.pc \in Early <=> w.pc \in Early
  <2>1. \A p \in AfterChunks : p \notin Early
    BY DEF AfterChunks, Early
  <2> QED  BY <2>1, SlotMoves
<1>3. VectorsOfModel'
  BY <1>1 DEF VectorInv, VectorsOfModel
<1>4. AttemptModel'
  BY <1>0, <1>1, <1>2 DEF VectorInv, AttemptModel, Current
<1>5. CallModel'
  <2> SUFFICES ASSUME NEW k \in calls', status'[k.v] = "PROCESSING", token'[k.v] = k.token
               PROVE  k.model = model[k.v]
    BY <1>1 DEF CallModel, Current
  <2>1. Current(k.v, k.token)
    BY <1>0, <1>1 DEF Current
  <2>2. CASE k \in calls
    BY <2>1, <2>2 DEF VectorInv, CallModel
  <2>3. CASE k \notin calls
    <3>1. w.pc = "saving" /\ k.v = w.v /\ k.token = w.token /\ k.model = env[s].model
      BY <2>3, CallsMade
    <3>2. "saving" \in Trying /\ "saving" \notin Early
      BY DEF Trying, Early
    <3> QED  BY <2>1, <3>1, <3>2 DEF VectorInv, AttemptModel
  <2> QED  BY <2>2, <2>3
<1> QED  BY <1>3, <1>4, <1>5 DEF VectorInv

LEMMA VectorCall == ASSUME TypeOK, VectorInv, NEW k \in calls, StoreVector(k) \/ MissVector(k)
                    PROVE  VectorInv'
<1>1. /\ calls' = calls \ {k} /\ UNCHANGED <<env, model, status, token>>
      /\ \A t \in Slots : /\ worker'[t].pc = worker[t].pc /\ worker'[t].v = worker[t].v
                          /\ worker'[t].token = worker[t].token /\ worker'[t].base = worker[t].base
  BY CallEnds
<1>2. VectorsOfModel'
  <2>1. CASE StoreVector(k)
    <3>1. k.model = model[k.v] /\ vector' = [vector EXCEPT ![k.v][k.chunk] = k.model]
      BY <2>1 DEF StoreVector, Fenced, VectorInv, CallModel, Current
    <3> QED
      BY <1>1, <3>1 DEF VectorInv, VectorsOfModel, TypeOK, VectorsOK
  <2>2. CASE MissVector(k)
    BY <1>1, <2>2 DEF MissVector, VectorInv, VectorsOfModel, dbVars, chunkVars
  <2> QED  BY <2>1, <2>2
<1>3. AttemptModel' /\ CallModel'
  BY <1>1 DEF VectorInv, AttemptModel, CallModel, Current
<1> QED  BY <1>2, <1>3 DEF VectorInv

LEMMA VectorStep == ASSUME TypeOK, TokenInv, VectorInv, KeysKept, Next
                    PROVE  VectorInv'
<1>1. CASE \E s \in Slots : Claim(s)
  BY <1>1, VectorClaim
<1>2. CASE \E s \in Slots : SaveChunks(s)
  BY <1>2, VectorSave
<1>3. CASE \A s \in Slots : ~Claim(s) /\ ~SaveChunks(s)
  <2>1. /\ UNCHANGED model
        /\ \A v \in Versions : status'[v] = "PROCESSING" => status[v] = "PROCESSING" /\ token'[v] = token[v]
    BY <1>3, ModelWriters, CommitModel, OnlyClaims
  <2>2. ASSUME NEW s \in Slots, SlotStep(s), ~Redeploy(s)
        PROVE  VectorInv'
    BY <1>3, <2>1, <2>2, VectorSlot
  <2>3. ASSUME NEW s \in Slots, Redeploy(s)
        PROVE  VectorInv'
    <3>1. /\ UNCHANGED <<worker, calls, model, status, token, vector>> /\ worker[s].pc \notin Trying
          /\ \A t \in Slots \ {s} : env'[t] = env[t]
      BY <2>3 DEF Redeploy, TypeOK, SlotsOK, dbVars, versionVars, chunkVars, Trying
    <3> QED  BY <3>1 DEF VectorInv, VectorsOfModel, AttemptModel, CallModel, Current
  <2>4. ASSUME NEW k \in calls, StoreVector(k) \/ MissVector(k)
        PROVE  VectorInv'
    BY <2>4, VectorCall
  <2>5. ASSUME UNCHANGED <<worker, env, calls, vector>>
        PROVE  VectorInv'
    <3>1. /\ \A t \in Slots : worker[t].v \in Versions
          /\ \A k \in calls : k.v \in Versions
      BY DEF TypeOK, SlotsOK, CallsOK, Worker, Call
    <3> QED  BY <2>1, <2>5, <3>1 DEF VectorInv, VectorsOfModel, AttemptModel, CallModel, Current
  <2> QED
    BY <2>2, <2>3, <2>4, <2>5, LoopFrame, DeliveryFrame, OperatorFrame, TimeFrame
    DEF Next, CallStep, Operators, dbVars, chunkVars
<1> QED  BY <1>1, <1>2, <1>3

\* With one model in all configurations, nothing else is ever recorded.
OnlyModel == \A e \in Envs :
  /\ \A v \in Versions : model[v] \in {NoModel, e.model} /\ \A c \in Chunks : vector[v][c] \in {NoModel, e.model}
  /\ \A k \in calls : k.model = e.model

LEMMA OnlyModelStep == ASSUME TypeOK, TokenInv, OnlyModel, OneModel, Next
                       PROVE  OnlyModel'
<1> SUFFICES ASSUME NEW e \in Envs
             PROVE  /\ \A v \in Versions : /\ model'[v] \in {NoModel, e.model}
                                            /\ \A c \in Chunks : vector'[v][c] \in {NoModel, e.model}
                    /\ \A k \in calls' : k.model = e.model
  BY DEF OnlyModel
<1>0. \A s \in Slots : env[s].model = e.model /\ env'[s].model = e.model
  BY SlotsStep DEF OneModel, TypeOK, SlotsOK
<1>1. \A v \in Versions : model'[v] \in {NoModel, e.model}
  <2>1. ASSUME NEW s \in Slots, SaveChunks(s) \/ Commit(s)
        PROVE  \A v \in Versions : model'[v] \in {model[v], NoModel, e.model}
    BY <1>0, <2>1 DEF SaveChunks, Commit, TypeOK, TablesOK
  <2> QED  BY <2>1, ModelWriters DEF OnlyModel
<1>2. \A v \in Versions, c \in Chunks : vector'[v][c] \in {NoModel, e.model}
  <2>1. ASSUME NEW k \in calls, StoreVector(k)
        PROVE  \A v \in Versions, c \in Chunks : vector'[v][c] \in {vector[v][c], e.model}
    BY <2>1 DEF StoreVector, TypeOK, VectorsOK, OnlyModel
  <2> QED  BY <2>1, VectorWriters DEF OnlyModel
<1>3. ASSUME NEW k \in calls'
      PROVE  k.model = e.model
  BY <1>0, TokenStep, CallsStep DEF TokenInv, CallsModel, CallsOK, Call
<1> QED  BY <1>1, <1>2, <1>3

\* A READY version's vectors all come from the model it names, if every
\* deployment has a key, or all use one model (MCIngestion_mixed_vectors
\* shows what happens with neither): a call that outlives its attempt, or an
\* attempt that was taken over, stores nothing under another one's model.
THEOREM VectorsAreOfOneModel == ASSUME KeysKept \/ OneModel
                                PROVE  Spec => []VectorsMatchModel
<1>1. Init => (KeysKept => VectorInv) /\ (OneModel => OnlyModel)
  BY DEF Init, VectorInv, VectorsOfModel, AttemptModel, CallModel, OnlyModel, Idle, Trying
<1>2. TypeOK /\ TokenInv /\ (KeysKept => VectorInv) /\ (OneModel => OnlyModel) /\ [Next]_vars
      => ((KeysKept => VectorInv) /\ (OneModel => OnlyModel))'
  <2>1. ASSUME UNCHANGED vars
        PROVE  (VectorInv => VectorInv') /\ (OnlyModel => OnlyModel')
    BY <2>1 DEF VectorInv, VectorsOfModel, AttemptModel, CallModel, OnlyModel, Current, vars, dbVars,
       versionVars, chunkVars, processVars
  <2> QED  BY <2>1, VectorStep, OnlyModelStep
<1>3. IndexComplete /\ TypeOK /\ (KeysKept => VectorInv) /\ (OneModel => OnlyModel) => VectorsMatchModel
  <2> SUFFICES ASSUME IndexComplete, TypeOK, KeysKept => VectorInv, OneModel => OnlyModel,
                      NEW v \in Versions, status[v] = "READY", model[v] # NoModel, NEW c \in Chunks
               PROVE  vector[v][c] = model[v]
    BY DEF VectorsMatchModel
  <2>1. vector[v][c] # NoModel
    BY DEF IndexComplete
  <2>2. CASE KeysKept
    BY <2>1, <2>2 DEF VectorInv, VectorsOfModel
  <2>3. CASE OneModel
    <3>1. \A e \in Envs : vector[v][c] = e.model /\ model[v] = e.model
      BY <2>1, <2>3 DEF OnlyModel
    <3> QED  BY <2>2, <3>1 DEF KeysKept
  <2> QED  BY <2>2, <2>3
<1> QED  BY <1>1, <1>2, <1>3, TypeCorrect, TokenInvariant, IndexIsComplete, PTL DEF Spec

-----------------------------------------------------------------------------
(* The intent. Rows belong to generations that were requested, and a loop  *)
(* about to delete one found it when its ingestion was over: if that is    *)
(* still the current generation, it has not been queued again since,       *)
(* because every request opens a new generation.                           *)

PastRows == \A v \in Versions, g \in Generations :
  /\ outbox[<<v, g>>].exists => g <= generation[v]
  /\ outbox[<<v, g>>].dispatched # "no" => outbox[<<v, g>>].exists

HarmlessCleanup == \A l \in Loops : LET p == loop[l] IN
  p.pc = "cleanup" => /\ p.g <= generation[p.v]
                      /\ p.g = generation[p.v] => stage[p.v] # "QUEUED"

IntentInv == QueuedHasIntent /\ PastRows /\ HarmlessCleanup

\* Steps that queue nothing, open no generation, delete no row and start no
\* cleanup.
LEMMA Calm == ASSUME TypeOK, IntentInv, UNCHANGED generation,
                     \A v \in Versions : stage'[v] = stage[v] \/ stage'[v] # "QUEUED",
                     \A l \in Loops : loop'[l] = loop[l] \/ loop'[l].pc # "cleanup",
                     \A v \in Versions, g \in Generations :
                       /\ outbox'[<<v, g>>].exists <=> outbox[<<v, g>>].exists
                       /\ outbox'[<<v, g>>].dispatched # "no" => outbox[<<v, g>>].exists
              PROVE  IntentInv'
<1>0. /\ \A v \in Versions : generation[v] \in Generations
      /\ \A l \in Loops : loop[l].v \in Versions
  BY DEF TypeOK, TablesOK, LoopsOK, Loop
<1>1. QueuedHasIntent' /\ PastRows'
  BY <1>0 DEF IntentInv, QueuedHasIntent, PastRows
<1>2. HarmlessCleanup'
  BY <1>0 DEF IntentInv, HarmlessCleanup
<1> QED  BY <1>1, <1>2 DEF IntentInv

\* What a new request does: the generation after the current one is queued
\* with a row of its own.
LEMMA Requested == ASSUME TypeOK, IntentInv, NEW v \in Versions, RequestProcessing(v),
                          generation[v] + 1 \in Generations,
                          \A l \in Loops : loop'[l] = loop[l] \/ loop'[l].pc = "idle"
                   PROVE  IntentInv'
<1> DEFINE g == generation[v] + 1
<1>1. /\ generation' = [generation EXCEPT ![v] = g]
      /\ stage' = [stage EXCEPT ![v] = "QUEUED"]
      /\ outbox' = [outbox EXCEPT ![<<v, g>>] = FreshRow]
  BY DEF RequestProcessing
<1>2. FreshRow.exists = TRUE /\ FreshRow.dispatched = "no"
  BY DEF FreshRow, NoRow
<1>3. \A u \in Versions : generation[u] \in Generations /\ generation[u] \in Nat
  BY DEF TypeOK, TablesOK, Generations
<1>4. /\ generation'[v] = g /\ stage'[v] = "QUEUED"
      /\ \A u \in Versions \ {v} : generation'[u] = generation[u] /\ stage'[u] = stage[u]
      /\ outbox'[<<v, g>>] = FreshRow
      /\ \A u \in Versions, h \in Generations :
           u # v \/ h # g => outbox'[<<u, h>>] = outbox[<<u, h>>]
  BY <1>1 DEF TypeOK, TablesOK, RowsOK
<1>5. QueuedHasIntent'
  BY <1>2, <1>3, <1>4 DEF IntentInv, QueuedHasIntent
<1>6. PastRows'
  <2> SUFFICES ASSUME NEW u \in Versions, NEW h \in Generations
               PROVE  /\ outbox'[<<u, h>>].exists => h <= generation'[u]
                      /\ outbox'[<<u, h>>].dispatched # "no" => outbox'[<<u, h>>].exists
    BY DEF PastRows
  <2>1. CASE u = v /\ h = g
    BY <1>2, <1>4, <2>1 DEF Generations
  <2>2. CASE u # v \/ h # g
    <3>1. outbox'[<<u, h>>] = outbox[<<u, h>>] /\ h \in Nat
      BY <1>4, <2>2 DEF Generations
    <3>2. /\ outbox[<<u, h>>].exists => h <= generation[u]
          /\ outbox[<<u, h>>].dispatched # "no" => outbox[<<u, h>>].exists
      BY DEF IntentInv, PastRows
    <3>3. generation[u] <= generation'[u]
      BY <1>3, <1>4
    <3>4. generation'[u] \in Nat
      BY <1>3, <1>4
    <3> QED  BY <1>3, <3>1, <3>2, <3>3, <3>4
  <2> QED  BY <2>1, <2>2
<1>7. HarmlessCleanup'
  <2> SUFFICES ASSUME NEW l \in Loops, loop'[l].pc = "cleanup"
               PROVE  /\ loop'[l].g <= generation'[loop'[l].v]
                      /\ loop'[l].g = generation'[loop'[l].v] => stage'[loop'[l].v] # "QUEUED"
    BY DEF HarmlessCleanup
  <2>1. /\ loop'[l] = loop[l] /\ loop[l].v \in Versions /\ loop[l].g \in Nat
        /\ loop[l].g <= generation[loop[l].v]
        /\ loop[l].g = generation[loop[l].v] => stage[loop[l].v] # "QUEUED"
    BY DEF TypeOK, LoopsOK, Loop, IntentInv, HarmlessCleanup, Generations
  <2> QED  BY <1>3, <1>4, <2>1
<1> QED  BY <1>5, <1>6, <1>7 DEF IntentInv

LEMMA IntentStep == ASSUME TypeOK, IntentInv, Next
                    PROVE  IntentInv'
<1>0. /\ \A v \in Versions : generation[v] \in Generations
      /\ \A l \in Loops : loop[l] \in Loop /\ loop[l].v \in Versions /\ loop[l].g \in Generations
      /\ loop \in [Loops -> Loop] /\ outbox \in [Versions \X Generations -> OutboxRow]
      /\ stage \in [Versions -> Stages]
  BY DEF TypeOK, TablesOK, LoopsOK, Loop, RowsOK
<1>a. \A v \in Versions, g \in Generations : outbox[<<v, g>>].dispatched # "no" => outbox[<<v, g>>].exists
  BY DEF IntentInv, PastRows
<1>1. ASSUME NEW s \in Slots, SlotStep(s)
      PROVE  IntentInv'
  <2>1. CASE UNCHANGED dbVars
    BY <1>1, <1>a, <2>1, SlotFrame, Calm DEF dbVars, ingestionVars
  <2>2. CASE AttemptWrites(s)
    <3>0. worker[s].v \in Versions
      BY DEF TypeOK, SlotsOK, Worker
    <3>1. UNCHANGED generation /\ \A v \in Versions : stage'[v] = stage[v] \/ stage'[v] # "QUEUED"
      <4>1. CASE Claim(s) \/ Commit(s) \/ RecordFailure(s)
        BY <1>0, <3>0, <4>1 DEF Claim, Commit, RecordFailure
      <4>2. CASE FetchSource(s) \/ ExtractText(s) \/ StartEmbedding(s) \/ StartIndexing(s)
        BY <1>0, <3>0, <4>2 DEF FetchSource, ExtractText, StartEmbedding, StartIndexing, Advance
      <4>3. CASE SaveChunks(s) \/ FinishBatch(s)
        BY <4>3 DEF SaveChunks, FinishBatch, ingestionVars
      <4> QED  BY <2>2, <4>1, <4>2, <4>3 DEF AttemptWrites
    <3> QED  BY <1>1, <1>a, <3>1, SlotFrame, Calm
  <2> QED  BY <1>1, <2>1, <2>2, SlotFrame
<1>2. ASSUME NEW l \in Loops, Rest(l)
      PROVE  \A m \in Loops : loop'[m] = loop[m] \/ loop'[m].pc = "idle"
  BY <1>0, <1>2 DEF Rest, Resting
<1>3. ASSUME NEW l \in Loops, Reissue(l)
      PROVE  IntentInv'
  <2>1. generation[loop[l].v] + 1 \in Generations
    BY <1>0, <1>3, IngestionAssumption DEF Reissue, Exhausted, Generations
  <2> QED  BY <1>0, <1>2, <1>3, <2>1, Requested DEF Reissue
<1>4. ASSUME NEW l \in Loops, Exhaust(l) \/ GiveUp(l)
      PROVE  IntentInv'
  <2>1. /\ UNCHANGED <<generation, outbox>>
        /\ \A v \in Versions : stage'[v] = stage[v] \/ stage'[v] # "QUEUED"
    BY <1>0, <1>4 DEF Exhaust, GiveUp
  <2> QED  BY <1>2, <1>4, <1>a, <2>1, Calm DEF Exhaust, GiveUp
<1>5. ASSUME NEW l \in Loops, DeleteExpired(l)
      PROVE  IntentInv'
  <2> DEFINE p == loop[l]
  <2>1. \A v \in Versions, g \in Generations :
          outbox'[<<v, g>>] = outbox[<<v, g>>] \/ (v = p.v /\ g = p.g /\ outbox'[<<v, g>>] = NoRow)
    BY <1>0, <1>5 DEF DeleteExpired
  <2>2. /\ UNCHANGED <<generation, stage>>
        /\ \A m \in Loops : loop'[m] = loop[m] \/ loop'[m].pc = "idle"
    BY <1>2, <1>5 DEF DeleteExpired, dbVars, ingestionVars
  <2>3. p.g = generation[p.v] => stage[p.v] # "QUEUED"
    BY <1>5 DEF DeleteExpired, IntentInv, HarmlessCleanup
  <2>4. NoRow.exists = FALSE /\ NoRow.dispatched = "no"
    BY DEF NoRow
  <2>5. QueuedHasIntent'
    BY <1>0, <2>1, <2>2, <2>3 DEF IntentInv, QueuedHasIntent
  <2>6. PastRows'
    BY <2>1, <2>2, <2>4 DEF IntentInv, PastRows
  <2>7. HarmlessCleanup'
    BY <2>2 DEF IntentInv, HarmlessCleanup
  <2> QED  BY <2>5, <2>6, <2>7 DEF IntentInv
<1>6. ASSUME NEW l \in Loops, NEW v \in Versions, NEW g \in Generations, FindExpired(l, v, g)
      PROVE  IntentInv'
  <2>1. /\ UNCHANGED <<generation, stage, outbox>>
        /\ g <= generation[v] /\ stage[v] # "QUEUED"
    BY <1>6 DEF FindExpired, Expired, OldRow, dbVars, ingestionVars, IntentInv, PastRows
  <2>2. /\ loop'[l].pc = "cleanup" /\ loop'[l].v = v /\ loop'[l].g = g
        /\ \A m \in Loops \ {l} : loop'[m] = loop[m]
    BY <1>0, <1>6 DEF FindExpired, Resting
  <2>3. HarmlessCleanup'
    BY <2>1, <2>2 DEF IntentInv, HarmlessCleanup
  <2> QED  BY <2>1, <2>3 DEF IntentInv, QueuedHasIntent, PastRows
<1>7. ASSUME NEW l \in Loops, NEW v \in Versions, NEW g \in Generations, ClaimRow(l, v, g)
      PROVE  IntentInv'
  <2>1. UNCHANGED <<generation, stage>> /\ \A m \in Loops : loop'[m] = loop[m] \/ loop'[m].pc # "cleanup"
    BY <1>0, <1>7 DEF ClaimRow, dbVars, ingestionVars
  <2>2. \A u \in Versions, h \in Generations :
          /\ outbox'[<<u, h>>].exists = outbox[<<u, h>>].exists
          /\ outbox'[<<u, h>>].dispatched = outbox[<<u, h>>].dispatched
    BY <1>0, <1>7 DEF ClaimRow, OutboxRow
  <2> QED  BY <1>a, <2>1, <2>2, Calm
<1>8. ASSUME NEW l \in Loops, AckRow(l) \/ ReleaseRow(l)
      PROVE  IntentInv'
  <2> DEFINE p == loop[l]  r == outbox[<<p.v, p.g>>]
  <2>1. UNCHANGED <<generation, stage>> /\ \A m \in Loops : loop'[m] = loop[m] \/ loop'[m].pc # "cleanup"
    BY <1>0, <1>8 DEF AckRow, ReleaseRow, Rest, Move, Resting, Loop, dbVars, ingestionVars
  <2>2. r \in OutboxRow
    BY <1>0
  <2>3. \/ outbox' = outbox
        \/ outbox' = [outbox EXCEPT ![<<p.v, p.g>>] = [r EXCEPT !.dispatched = "recent", !.claim = "none"]]
           /\ r.exists
        \/ outbox' = [outbox EXCEPT ![<<p.v, p.g>>] = [r EXCEPT !.claim = "none", !.available = FALSE]]
    BY <1>8 DEF AckRow, ReleaseRow, Owns
  <2>4. /\ [r EXCEPT !.dispatched = "recent", !.claim = "none"].exists = r.exists
        /\ [r EXCEPT !.claim = "none", !.available = FALSE].exists = r.exists
        /\ [r EXCEPT !.claim = "none", !.available = FALSE].dispatched = r.dispatched
    BY <2>2 DEF OutboxRow
  <2>5. ASSUME NEW u \in Versions, NEW h \in Generations
        PROVE  /\ outbox'[<<u, h>>].exists <=> outbox[<<u, h>>].exists
               /\ outbox'[<<u, h>>].dispatched # "no" => outbox[<<u, h>>].exists
    BY <1>0, <1>a, <2>3, <2>4
  <2> QED  BY <2>1, <2>5, Calm
<1>9. ASSUME NEW l \in Loops, LoopStops(l) \/ (\E v \in Versions : Scan(l, v))
             \/ Send(l) \/ SendFails(l) \/ AckFails(l) \/ LeaveAlone(l)
      PROVE  IntentInv'
  <2>1. UNCHANGED <<generation, stage, outbox>>
    BY <1>9 DEF LoopStops, Scan, Send, SendFails, AckFails, LeaveAlone, dbVars, ingestionVars
  <2>2. \A m \in Loops : loop'[m] = loop[m] \/ loop'[m].pc # "cleanup"
    <3>1. CASE Rest(l)
      BY <1>2, <3>1
    <3>2. CASE Move(l, "ack") \/ Move(l, "release")
      BY <1>0, <3>2 DEF Move, Loop
    <3>3. CASE \E v \in Versions : Scan(l, v)
      BY <1>0, <3>3 DEF Scan, Resting
    <3> QED  BY <1>9, <3>1, <3>2, <3>3 DEF LoopStops, Send, SendFails, AckFails, LeaveAlone
  <2> QED  BY <1>a, <2>1, <2>2, Calm
<1>10. ASSUME NEW v \in Versions, Reprocess(v)
       PROVE  IntentInv'
  <2>1. generation[v] + 1 \in Generations
    BY <1>0, <1>10, IngestionAssumption DEF Reprocess, Generations
  <2> QED  BY <1>10, <2>1, Requested DEF Reprocess
<1>11. ASSUME NEW v \in Versions, NEW g \in Generations, RowAges(v, g)
       PROVE  IntentInv'
  <2> DEFINE r == outbox[<<v, g>>]
  <2>1. UNCHANGED <<generation, stage, loop>>
    BY <1>11 DEF RowAges, dbVars, ingestionVars
  <2>2. r \in OutboxRow
    BY <1>0
  <2>3. \/ outbox' = [outbox EXCEPT ![<<v, g>>] = [r EXCEPT !.claim = "lapsed"]]
        \/ outbox' = [outbox EXCEPT ![<<v, g>>] = [r EXCEPT !.available = TRUE]]
        \/ outbox' = [outbox EXCEPT ![<<v, g>>] = [r EXCEPT !.dispatched = "old"]] /\ r.exists
    BY <1>11, <1>a DEF RowAges
  <2>4. /\ [r EXCEPT !.claim = "lapsed"].exists = r.exists
        /\ [r EXCEPT !.claim = "lapsed"].dispatched = r.dispatched
        /\ [r EXCEPT !.available = TRUE].exists = r.exists
        /\ [r EXCEPT !.available = TRUE].dispatched = r.dispatched
        /\ [r EXCEPT !.dispatched = "old"].exists = r.exists
    BY <2>2 DEF OutboxRow
  <2>5. ASSUME NEW u \in Versions, NEW h \in Generations
        PROVE  /\ outbox'[<<u, h>>].exists <=> outbox[<<u, h>>].exists
               /\ outbox'[<<u, h>>].dispatched # "no" => outbox[<<u, h>>].exists
    BY <1>0, <1>a, <2>3, <2>4
  <2> QED  BY <2>1, <2>5, Calm
<1>12. ASSUME UNCHANGED <<generation, stage, loop, outbox>>
       PROVE  IntentInv'
  BY <1>12, <1>a, Calm
<1>13. ASSUME NEW v \in Versions, LeaseLapses(v) \/ TurnsIdle(v) \/ Archive(v)
       PROVE  IntentInv'
  BY <1>12, <1>13 DEF LeaseLapses, TurnsIdle, Archive, dbVars, ingestionVars
<1>14. ASSUME CallStep \/ Delivery
       PROVE  IntentInv'
  <2>1. UNCHANGED <<generation, stage, loop, outbox>>
    BY <1>14, DeliveryFrame DEF CallStep, StoreVector, MissVector, dbVars, ingestionVars
  <2> QED  BY <1>12, <2>1
<1>15. ASSUME NEW l \in Loops, LoopTurn(l)
       PROVE  IntentInv'
  BY <1>3, <1>4, <1>5, <1>6, <1>7, <1>8, <1>9, <1>15 DEF LoopTurn, LoopStep, Dispatch
<1> QED
  BY <1>1, <1>10, <1>11, <1>13, <1>14, <1>15 DEF Next, Operators, Time

\* Rows belong to requested generations, and no loop is about to delete the row
\* of a version that waits.
THEOREM IntentInvariant == Spec => []IntentInv
<1>1. Init => IntentInv
  <2> SUFFICES ASSUME Init PROVE IntentInv
    OBVIOUS
  <2>1. /\ FreshRow.exists /\ FreshRow.dispatched = "no"
        /\ ~NoRow.exists /\ NoRow.dispatched = "no" /\ Resting.pc = "idle"
    BY DEF FreshRow, NoRow, Resting
  <2>2. \A v \in Versions : \A g \in Generations :
          outbox[<<v, g>>] = IF g = 1 THEN FreshRow ELSE NoRow
    BY DEF Init
  <2>3. \A v \in Versions : generation[v] = 1
    BY DEF Init
  <2>4. QueuedHasIntent
    BY <2>1, <2>2, <2>3, Parameters DEF QueuedHasIntent
  <2>5. PastRows
    <3> SUFFICES ASSUME NEW v \in Versions, NEW g \in Generations
                 PROVE  /\ outbox[<<v, g>>].exists => g <= generation[v]
                        /\ outbox[<<v, g>>].dispatched # "no" => outbox[<<v, g>>].exists
      BY DEF PastRows
    <3>1. outbox[<<v, g>>] = (IF g = 1 THEN FreshRow ELSE NoRow) /\ generation[v] = 1
      BY <2>2, <2>3
    <3> QED  BY <2>1, <3>1
  <2>6. HarmlessCleanup
    BY <2>1 DEF Init, HarmlessCleanup
  <2> QED  BY <2>4, <2>5, <2>6 DEF IntentInv
<1>2. TypeOK /\ IntentInv /\ [Next]_vars => IntentInv'
  <2>1. ASSUME IntentInv, UNCHANGED vars PROVE IntentInv'
    BY <2>1 DEF IntentInv, QueuedHasIntent, PastRows, HarmlessCleanup, vars, dbVars, ingestionVars
  <2> QED  BY <2>1, IntentStep
<1> QED  BY <1>1, <1>2, TypeCorrect, PTL DEF Spec

\* Neither a reissue, nor an exhausted dispatch, nor the cleanup loses the
\* intent to process a version that waits in QUEUED.
THEOREM IntentIsKept == Spec => []QueuedHasIntent
<1>1. IntentInv => QueuedHasIntent
  BY DEF IntentInv
<1> QED  BY <1>1, IntentInvariant, PTL

-----------------------------------------------------------------------------
(* Dispatch. A loop that is about to acknowledge a row has handed its job  *)
(* to the queue, which forgets a job only when its retention runs out.     *)

JobSent == \A l \in Loops : LET p == loop[l] IN
  p.pc = "ack" => queue[<<p.v, p.g>>].state # "absent"

\* Without expiry no job is forgotten.
LEMMA JobsStay == ASSUME TypeOK, Next, "expire" \notin Faults, NEW v \in Versions, NEW g \in Generations,
                         queue[<<v, g>>].state # "absent"
                  PROVE  queue'[<<v, g>>].state # "absent"
<1>0. queue \in [Versions \X Generations -> Job] /\ queue[<<v, g>>] \in Job
  BY DEF TypeOK, JobsOK
<1>1. ASSUME NEW j \in Job
      PROVE  /\ [j EXCEPT !.state = "active", !.holder = NoSlot].state # "absent"
             /\ EndedJob.state # "absent"
             /\ [j EXCEPT !.holder = NoSlot].state = j.state
             /\ [j EXCEPT !.state = "waiting"].state # "absent"
             /\ [j EXCEPT !.state = "waiting", !.tries = @ + 1, !.holder = NoSlot].state # "absent"
             /\ [j EXCEPT !.state = "waiting", !.stalls = 1, !.holder = NoSlot].state # "absent"
             /\ \A s : [j EXCEPT !.state = "active", !.holder = s].state # "absent"
  BY DEF Job, EndedJob, NoJob
<1>2. ASSUME NEW s \in Slots, SlotStep(s)
      PROVE  queue'[<<v, g>>].state # "absent"
  <2>1. CASE Receive(s)
    BY <1>0, <1>1, <2>1 DEF Receive, Take
  <2>2. CASE Acknowledge(s)
    BY <1>0, <1>1, <2>2 DEF Acknowledge
  <2>3. CASE Crash(s)
    BY <1>0, <1>1, <2>3 DEF Crash
  <2>4. CASE UNCHANGED queue
    BY <2>4
  <2> QED  BY <1>2, <2>1, <2>2, <2>3, <2>4, QueueFrame
<1>3. CASE Delivery
  <2>1. PICK u \in Versions, h \in Generations : Stalled(u, h)
    BY <1>3 DEF Delivery, JobExpires
  <2> DEFINE j == queue[<<u, h>>]
  <2>2. j \in Job
    BY <1>0
  <2>3. \/ queue' = [queue EXCEPT ![<<u, h>>] =
                       [j EXCEPT !.state = "waiting", !.stalls = 1, !.holder = NoSlot]]
        \/ queue' = [queue EXCEPT ![<<u, h>>] = EndedJob]
    BY <2>1 DEF Stalled
  <2>4. /\ [j EXCEPT !.state = "waiting", !.stalls = 1, !.holder = NoSlot].state # "absent"
        /\ EndedJob.state # "absent"
    BY <1>1, <2>2
  <2> HIDE DEF j
  <2> QED  BY <1>0, <2>3, <2>4
<1>4. ASSUME NEW l \in Loops, LoopTurn(l)
      PROVE  queue'[<<v, g>>].state # "absent"
  <2>1. CASE Send(l)
    <3> DEFINE p == loop[l]  j == queue[<<p.v, p.g>>]
    <3>1. j \in Job
      BY <1>0 DEF TypeOK, LoopsOK, Loop
    <3>2. [j EXCEPT !.state = "waiting"].state # "absent"
      BY <1>1, <3>1
    <3>3. queue' = queue \/ queue' = [queue EXCEPT ![<<p.v, p.g>>] = [j EXCEPT !.state = "waiting"]]
      BY <2>1 DEF Send
    <3> HIDE DEF p, j
    <3> QED  BY <1>0, <3>2, <3>3
  <2> QED  BY <1>4, <2>1, LoopFrame
<1>5. CASE UNCHANGED queue
  BY <1>5
<1> QED
  BY <1>2, <1>3, <1>4, <1>5, CallFrame, OperatorFrame, TimeFrame DEF Next, CallStep, Operators

LEMMA JobSentStep == ASSUME TypeOK, JobSent, Next, "expire" \notin Faults
                     PROVE  JobSent'
<1> SUFFICES ASSUME NEW l \in Loops, loop'[l].pc = "ack"
             PROVE  queue'[<<loop'[l].v, loop'[l].g>>].state # "absent"
  BY DEF JobSent
<1>0. loop \in [Loops -> Loop] /\ loop[l] \in Loop /\ loop[l].v \in Versions /\ loop[l].g \in Generations
  BY DEF TypeOK, LoopsOK, Loop
<1>1. CASE loop'[l] = loop[l]
  BY <1>0, <1>1, JobsStay DEF JobSent
<1>2. ASSUME NEW m \in Loops, Send(m)
      PROVE  queue'[<<loop'[l].v, loop'[l].g>>].state # "absent"
  <2>1. CASE l # m
    BY <1>0, <1>1, <1>2, <2>1 DEF Send, Move
  <2>2. CASE l = m
    <3>1. loop'[l].v = loop[l].v /\ loop'[l].g = loop[l].g
      BY <1>0, <1>2, <2>2 DEF Send, Move, Loop
    <3>2. queue \in [Versions \X Generations -> Job]
      BY DEF TypeOK, JobsOK
    <3>3. queue'[<<loop[l].v, loop[l].g>>].state # "absent"
      BY <1>0, <1>2, <2>2, <3>2 DEF Send, Job
    <3> QED  BY <3>1, <3>3
  <2> QED  BY <2>1, <2>2
<1>3. ASSUME NEW m \in Loops, LoopTurn(m), ~Send(m)
      PROVE  loop'[l] = loop[l]
  <2>1. CASE Rest(m)
    BY <1>0, <2>1 DEF Rest, Resting
  <2>2. CASE Move(m, "release") \/ Move(m, "exhaust")
    BY <1>0, <2>2 DEF Move, Loop
  <2>3. CASE Dispatch(m)
    BY <1>0, <2>3 DEF Dispatch, ClaimRow
  <2>4. CASE \/ \E v \in Versions : Scan(m, v)
             \/ \E v \in Versions, g \in Generations : FindExpired(m, v, g)
    BY <1>0, <2>4 DEF Scan, FindExpired, Resting
  <2> QED
    BY <1>3, <2>1, <2>2, <2>3, <2>4 DEF LoopTurn, LoopStep, LoopStops, SendFails, AckRow,
       AckFails, ReleaseRow, Exhaust, Reissue, GiveUp, LeaveAlone, DeleteExpired
<1> QED
  BY <1>1, <1>2, <1>3, SlotFrame, CallFrame, DeliveryFrame, OperatorFrame, TimeFrame
  DEF Next, CallStep, Operators

LEMMA DispatchedStep == ASSUME TypeOK, DispatchedWasQueued, JobSent, Next, "expire" \notin Faults
                        PROVE  DispatchedWasQueued'
<1> SUFFICES ASSUME NEW v \in Versions, NEW g \in Generations,
                    outbox'[<<v, g>>].dispatched # "no"
             PROVE  queue'[<<v, g>>].state # "absent"
  BY DEF DispatchedWasQueued
<1>0. /\ outbox \in [Versions \X Generations -> OutboxRow] /\ outbox[<<v, g>>] \in OutboxRow
      /\ \A l \in Loops : loop[l].v \in Versions /\ loop[l].g \in Generations
  BY DEF TypeOK, RowsOK, LoopsOK, Loop
<1>1. CASE outbox[<<v, g>>].dispatched # "no"
  BY <1>1, JobsStay DEF DispatchedWasQueued
<1>2. ASSUME NEW l \in Loops, AckRow(l), outbox[<<v, g>>].dispatched = "no"
      PROVE  queue'[<<v, g>>].state # "absent"
  <2>1. loop[l].pc = "ack" /\ loop[l].v = v /\ loop[l].g = g
    BY <1>0, <1>2 DEF AckRow
  <2> QED  BY <2>1, JobsStay DEF JobSent
<1>3. FreshRow.dispatched = "no" /\ NoRow.dispatched = "no"
  BY DEF FreshRow, NoRow
<1>4. ASSUME NEW u \in Versions, RequestProcessing(u)
      PROVE  outbox'[<<v, g>>].dispatched # "no" => outbox[<<v, g>>].dispatched # "no"
  BY <1>0, <1>3, <1>4 DEF RequestProcessing
<1>5. ASSUME NEW l \in Loops, ReleaseRow(l) \/ DeleteExpired(l) \/ Reissue(l)
      PROVE  outbox'[<<v, g>>].dispatched # "no" => outbox[<<v, g>>].dispatched # "no"
  <2>1. CASE ReleaseRow(l)
    BY <1>0, <2>1 DEF ReleaseRow, OutboxRow
  <2>2. CASE DeleteExpired(l)
    BY <1>0, <1>3, <2>2 DEF DeleteExpired
  <2> QED  BY <1>0, <1>4, <1>5, <2>1, <2>2 DEF Reissue
<1>6. ASSUME NEW l \in Loops, NEW u \in Versions, NEW h \in Generations, ClaimRow(l, u, h)
      PROVE  outbox'[<<v, g>>].dispatched = outbox[<<v, g>>].dispatched
  BY <1>0, <1>6 DEF ClaimRow, OutboxRow
<1>7. ASSUME NEW u \in Versions, NEW h \in Generations, RowAges(u, h)
      PROVE  outbox'[<<v, g>>].dispatched # "no" => outbox[<<v, g>>].dispatched # "no"
  <2> DEFINE r == outbox[<<u, h>>]
  <2>1. r \in OutboxRow
    BY <1>0
  <2>2. \/ outbox' = [outbox EXCEPT ![<<u, h>>] = [r EXCEPT !.claim = "lapsed"]]
        \/ outbox' = [outbox EXCEPT ![<<u, h>>] = [r EXCEPT !.available = TRUE]]
        \/ outbox' = [outbox EXCEPT ![<<u, h>>] = [r EXCEPT !.dispatched = "old"]]
           /\ r.dispatched # "no"
    BY <1>7 DEF RowAges
  <2>3. /\ [r EXCEPT !.claim = "lapsed"].dispatched = r.dispatched
        /\ [r EXCEPT !.available = TRUE].dispatched = r.dispatched
    BY <2>1 DEF OutboxRow
  <2> QED  BY <1>0, <2>2, <2>3
<1>8. ASSUME NEW u \in Versions, Reprocess(u)
      PROVE  outbox'[<<v, g>>].dispatched # "no" => outbox[<<v, g>>].dispatched # "no"
  BY <1>4, <1>8 DEF Reprocess
<1> QED  BY <1>1, <1>2, <1>5, <1>6, <1>7, <1>8, RowsFrame DEF RowsWritten

\* A row marked dispatched has its job in the queue, whichever loop marked it
\* and however late, as long as the queue retains its jobs.
THEOREM DispatchIsReal == Spec => []DispatchedWasQueued
<1> DEFINE Inv == DispatchedWasQueued /\ ("expire" \notin Faults => JobSent)
<1>1. Init => Inv
  BY DEF Init, DispatchedWasQueued, JobSent, Resting, NoRow, FreshRow
<1>2. TypeOK /\ Inv /\ [Next]_vars => Inv'
  <2>1. ASSUME Inv, UNCHANGED vars PROVE Inv'
    BY <2>1 DEF DispatchedWasQueued, JobSent, vars
  <2>2. ASSUME TypeOK, Inv, Next PROVE Inv'
    <3>1. CASE "expire" \notin Faults
      BY <2>2, <3>1, JobSentStep, DispatchedStep
    <3>2. CASE "expire" \in Faults
      BY <3>2 DEF DispatchedWasQueued
    <3> QED  BY <3>1, <3>2
  <2> QED  BY <2>1, <2>2
<1> QED  BY <1>1, <1>2, TypeCorrect, PTL DEF Spec

-----------------------------------------------------------------------------
(* Claims. Only a row that is not dispatched yet is under a claim, so the  *)
(* cleanup finds no claim to delete, and a loop that acknowledges or       *)
(* releases compares the row's dispatch with its own.                      *)

OpenClaim(r)  == r.claim # "none" => r.exists /\ r.dispatched = "no"
ClaimsOpen    == \A v \in Versions, g \in Generations : OpenClaim(outbox[<<v, g>>])
Ends(v, g)    == outbox[<<v, g>>].claim = "live" /\ outbox'[<<v, g>>].claim = "none"
Kept(v, g)    == OpenClaim(outbox'[<<v, g>>]) /\ (Ends(v, g) => \E l \in Loops : GivesUp(l, v, g))

LEMMA ClaimStep == ASSUME TypeOK, IntentInv, ClaimsOpen, Next, NEW v \in Versions, NEW g \in Generations
                   PROVE  Kept(v, g)
<1> DEFINE r == outbox[<<v, g>>]
           x == outbox'[<<v, g>>]
<1>0. /\ outbox \in [Versions \X Generations -> OutboxRow] /\ r \in OutboxRow
      /\ loop \in [Loops -> Loop]
      /\ \A l \in Loops : loop[l].v \in Versions /\ loop[l].g \in Generations
  BY DEF TypeOK, RowsOK, LoopsOK, Loop
<1>1. OpenClaim(r)
  BY DEF ClaimsOpen
<1>2. x = r => Kept(v, g)
  BY <1>1 DEF Kept, Ends
<1>3. /\ FreshRow.claim = "none" /\ NoRow.claim = "none"
  BY DEF FreshRow, NoRow
<1>4. ASSUME NEW u \in Versions, RequestProcessing(u)
      PROVE  Kept(v, g)
  <2>1. CASE v = u /\ g = generation[u] + 1
    <3>1. ~r.exists
      BY <2>1 DEF IntentInv, PastRows, TypeOK, TablesOK, Generations
    <3>2. x = FreshRow
      BY <1>0, <1>4, <2>1 DEF RequestProcessing
    <3> QED  BY <1>1, <1>3, <3>1, <3>2 DEF Kept, OpenClaim, Ends
  <2>2. CASE v # u \/ g # generation[u] + 1
    <3>1. x = r
      BY <1>0, <1>4, <2>2 DEF RequestProcessing
    <3> QED  BY <1>2, <3>1
  <2> QED  BY <2>1, <2>2
<1>5. ASSUME NEW l \in Loops, NEW u \in Versions, NEW h \in Generations, ClaimRow(l, u, h)
      PROVE  Kept(v, g)
  <2>1. CASE u = v /\ h = g
    <3>1. x = [r EXCEPT !.claim = "live", !.attempts = @ + 1] /\ Due(r)
      BY <1>0, <1>5, <2>1 DEF ClaimRow
    <3>2. x.claim = "live" /\ x.exists = r.exists /\ x.dispatched = r.dispatched
      BY <1>0, <3>1 DEF OutboxRow
    <3> QED  BY <3>1, <3>2 DEF Kept, OpenClaim, Ends, Due, DueForever
  <2>2. CASE u # v \/ h # g
    <3>1. x = r
      BY <1>0, <1>5, <2>2 DEF ClaimRow
    <3> QED  BY <1>2, <3>1
  <2> QED  BY <2>1, <2>2
<1>6. ASSUME NEW l \in Loops, AckRow(l) \/ ReleaseRow(l)
      PROVE  Kept(v, g)
  <2> DEFINE p == loop[l]
  <2>1. CASE p.v = v /\ p.g = g /\ Owns(p)
    <3>1. x = [r EXCEPT !.dispatched = "recent", !.claim = "none"] \/ x = [r EXCEPT !.claim = "none", !.available = FALSE]
      BY <1>0, <1>6, <2>1 DEF AckRow, ReleaseRow
    <3>2. x.claim = "none"
      BY <1>0, <3>1 DEF OutboxRow
    <3>3. p.n = r.attempts
      BY <2>1 DEF Owns
    <3>4. p.pc \in {"ack", "release"} /\ loop'[l].pc \in {"idle", "exhaust"}
      BY <1>0, <1>6 DEF AckRow, ReleaseRow, Rest, Move, Resting, Loop
    <3>5. GivesUp(l, v, g)
      BY <2>1, <3>3, <3>4 DEF GivesUp
    <3> QED  BY <3>2, <3>5 DEF Kept, OpenClaim
  <2>2. CASE ~(p.v = v /\ p.g = g /\ Owns(p))
    <3>1. x = r
      BY <1>0, <1>6, <2>2 DEF AckRow, ReleaseRow
    <3> QED  BY <1>2, <3>1
  <2> QED  BY <2>1, <2>2
<1>7. ASSUME NEW l \in Loops, DeleteExpired(l)
      PROVE  Kept(v, g)
  <2>1. x = r \/ (x = NoRow /\ r.dispatched # "no")
    BY <1>0, <1>7 DEF DeleteExpired
  <2>2. ASSUME x = NoRow, r.dispatched # "no"
        PROVE  Kept(v, g)
    BY <1>1, <1>3, <2>2 DEF Kept, OpenClaim, Ends
  <2> QED  BY <1>2, <2>1, <2>2
<1>8. ASSUME NEW u \in Versions, NEW h \in Generations, RowAges(u, h)
      PROVE  Kept(v, g)
  <2>1. CASE u = v /\ h = g
    <3>1. \/ x = [r EXCEPT !.claim = "lapsed"] /\ r.claim = "live"
          \/ x = [r EXCEPT !.available = TRUE]
          \/ x = [r EXCEPT !.dispatched = "old"] /\ r.dispatched = "recent"
      BY <1>0, <1>8, <2>1 DEF RowAges
    <3>2. CASE x = [r EXCEPT !.claim = "lapsed"] /\ r.claim = "live"
      <4>1. x.claim = "lapsed" /\ x.exists = r.exists /\ x.dispatched = r.dispatched
        BY <1>0, <3>2 DEF OutboxRow
      <4> QED  BY <1>1, <3>2, <4>1 DEF Kept, OpenClaim, Ends
    <3>3. CASE x = [r EXCEPT !.available = TRUE]
      <4>1. x.claim = r.claim /\ x.exists = r.exists /\ x.dispatched = r.dispatched
        BY <1>0, <3>3 DEF OutboxRow
      <4> QED  BY <1>1, <4>1 DEF Kept, OpenClaim, Ends
    <3>4. CASE x = [r EXCEPT !.dispatched = "old"] /\ r.dispatched = "recent"
      <4>1. x.claim = r.claim /\ r.claim = "none"
        BY <1>0, <1>1, <3>4 DEF OutboxRow, OpenClaim
      <4> QED  BY <4>1 DEF Kept, OpenClaim, Ends
    <3> QED  BY <3>1, <3>2, <3>3, <3>4
  <2>2. CASE u # v \/ h # g
    <3>1. x = r
      BY <1>0, <1>8, <2>2 DEF RowAges
    <3> QED  BY <1>2, <3>1
  <2> QED  BY <2>1, <2>2
<1>9. CASE UNCHANGED outbox
  BY <1>2, <1>9
<1>10. ASSUME NEW u \in Versions, Reprocess(u)
       PROVE  Kept(v, g)
  BY <1>4, <1>10 DEF Reprocess
<1>11. ASSUME NEW l \in Loops, Reissue(l)
       PROVE  Kept(v, g)
  BY <1>0, <1>4, <1>11 DEF Reissue
<1> QED  BY <1>5, <1>6, <1>7, <1>8, <1>9, <1>10, <1>11, RowsFrame DEF RowsWritten

\* A live claim of an outbox row ends by time or by the loop that took it, and
\* not by a loop that comes back late to a row claimed again.
THEOREM ClaimsAreKept == Spec => ClaimsKept
<1>1. Init => ClaimsOpen
  BY DEF Init, ClaimsOpen, OpenClaim, FreshRow, NoRow
<1>2. TypeOK /\ IntentInv /\ ClaimsOpen /\ [Next]_vars => ClaimsOpen'
  <2>1. ASSUME ClaimsOpen, UNCHANGED vars PROVE ClaimsOpen'
    BY <2>1 DEF ClaimsOpen, vars
  <2>2. ASSUME TypeOK, IntentInv, ClaimsOpen, Next PROVE ClaimsOpen'
    <3>1. \A v \in Versions, g \in Generations : Kept(v, g)
      BY <2>2, ClaimStep
    <3> QED  BY <3>1 DEF ClaimsOpen, Kept
  <2> QED  BY <2>1, <2>2
<1>3. TypeOK /\ IntentInv /\ ClaimsOpen /\ [Next]_vars =>
        [\A v \in Versions, g \in Generations :
           outbox[<<v, g>>].claim = "live" /\ outbox'[<<v, g>>].claim = "none" => \E l \in Loops : GivesUp(l, v, g)]_vars
  <2>1. ASSUME TypeOK, IntentInv, ClaimsOpen, Next, NEW v \in Versions, NEW g \in Generations
        PROVE  Ends(v, g) => \E l \in Loops : GivesUp(l, v, g)
    BY <2>1, ClaimStep DEF Kept
  <2> QED  BY <2>1 DEF Ends
<1> QED  BY <1>1, <1>2, <1>3, TypeCorrect, IntentInvariant, PTL DEF Spec, ClaimsKept
=============================================================================
