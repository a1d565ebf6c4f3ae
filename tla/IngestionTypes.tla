--------------------------- MODULE IngestionTypes ---------------------------
(***************************************************************************)
(* Type correctness of Ingestion, for every value of the constants, and    *)
(* the frames of its steps: who writes the tables, the outbox, the queue,  *)
(* the job slots, the calls and the loops. Other proofs start from these.  *)
(***************************************************************************)
EXTENDS Ingestion, FiniteSetTheorems, TLAPS

-----------------------------------------------------------------------------
(* The values the actions build.                                           *)

LEMMA Parameters == AnyVersion \in Versions /\ 1 \in Generations /\ NumChunks \in Nat
                    /\ DispatchLimit \in Nat /\ MaxAttempts \in Nat /\ Envs \subseteq [model : Models, key : BOOLEAN]
  BY IngestionAssumption DEF AnyVersion, Generations

LEMMA ChunkCount == ASSUME NEW S \in SUBSET Chunks
                    PROVE  Cardinality(S) \in Counts
<1>1. IsFiniteSet(Chunks) /\ Cardinality(Chunks) = NumChunks
  BY FS_Interval, IngestionAssumption DEF Chunks
<1>2. Cardinality(S) \in Nat /\ Cardinality(S) <= NumChunks
  BY <1>1, FS_Subset, FS_CardinalityType
<1> QED  BY <1>2, IngestionAssumption DEF Counts

LEMMA Records == /\ Idle \in Worker /\ Resting \in Loop
                 /\ NoJob \in Job /\ EndedJob \in Job
                 /\ NoRow \in OutboxRow /\ FreshRow \in OutboxRow
<1>1. Idle \in Worker
  BY Parameters DEF Idle, Worker, Steps
<1>2. Resting \in Loop
  BY Parameters DEF Resting, Loop, Turns
<1>3. NoJob \in Job /\ EndedJob \in Job
  BY Parameters DEF NoJob, EndedJob, Job
<1>4. NoRow \in OutboxRow
  BY Parameters DEF NoRow, OutboxRow, Ages
<1>5. FreshRow \in OutboxRow
  BY <1>4 DEF FreshRow, OutboxRow
<1> QED  BY <1>1, <1>2, <1>3, <1>4, <1>5

LEMMA Update == ASSUME NEW D, NEW R, NEW f \in [D -> R], NEW x, NEW r \in R
                PROVE  [f EXCEPT ![x] = r] \in [D -> R]
  OBVIOUS

LEMMA RowUpdates == ASSUME NEW r \in OutboxRow
                    PROVE  /\ [r EXCEPT !.claim = "lapsed"] \in OutboxRow
                           /\ [r EXCEPT !.available = TRUE] \in OutboxRow
                           /\ [r EXCEPT !.dispatched = "old"] \in OutboxRow
                           /\ [r EXCEPT !.dispatched = "recent", !.claim = "none"] \in OutboxRow
                           /\ [r EXCEPT !.claim = "none", !.available = FALSE] \in OutboxRow
                           /\ Due(r) => [r EXCEPT !.claim = "live", !.attempts = @ + 1] \in OutboxRow
<1>1. Due(r) => r.attempts + 1 \in 0 .. DispatchLimit
  BY Parameters DEF Due, DueForever, OutboxRow
<1>2. Due(r) => [r EXCEPT !.claim = "live", !.attempts = @ + 1] \in OutboxRow
  BY <1>1 DEF OutboxRow, Ages
<1> QED  BY <1>2 DEF OutboxRow, Ages

LEMMA JobUpdates == ASSUME NEW j \in Job
                    PROVE  /\ \A s \in Slots : [j EXCEPT !.state = "active", !.holder = s] \in Job
                           /\ [j EXCEPT !.holder = NoSlot] \in Job
                           /\ [j EXCEPT !.state = "waiting"] \in Job
                           /\ [j EXCEPT !.state = "waiting", !.stalls = 1, !.holder = NoSlot] \in Job
                           /\ j.tries + 1 < MaxAttempts =>
                                [j EXCEPT !.state = "waiting", !.tries = @ + 1, !.holder = NoSlot] \in Job
<1>1. j.tries + 1 < MaxAttempts => j.tries + 1 \in 0 .. MaxAttempts
  BY Parameters DEF Job
<1>2. j.tries + 1 < MaxAttempts =>
        [j EXCEPT !.state = "waiting", !.tries = @ + 1, !.holder = NoSlot] \in Job
  BY <1>1 DEF Job
<1>3. ASSUME NEW s \in Slots
      PROVE  [j EXCEPT !.state = "active", !.holder = s] \in Job
  BY DEF Job
<1>4. /\ [j EXCEPT !.holder = NoSlot] \in Job
      /\ [j EXCEPT !.state = "waiting"] \in Job
  BY DEF Job
<1>5. [j EXCEPT !.state = "waiting", !.stalls = 1, !.holder = NoSlot] \in Job
  <2>1. 1 \in 0 .. 1
    OBVIOUS
  <2> QED  BY <2>1 DEF Job
<1> QED  BY <1>2, <1>3, <1>4, <1>5

LEMMA WorkerUpdates == ASSUME NEW w \in Worker
  PROVE  /\ \A p \in Steps : [w EXCEPT !.pc = p] \in Worker
         /\ [w EXCEPT !.pc = "ack", !.again = TRUE] \in Worker
         /\ \A n \in Nat, m \in Models \cup {NoModel} :
              [w EXCEPT !.pc = "fetch", !.token = n, !.base = m] \in Worker
         /\ \A c \in Chunks : /\ [w EXCEPT !.saved = @ \cup {c}] \in Worker
                              /\ [w EXCEPT !.missed = @ \cup {c}] \in Worker
         /\ [w EXCEPT !.offset = @ + BatchSize] \in Worker
         /\ \A p \in Steps, b \in BOOLEAN :
              [Idle EXCEPT !.pc = p, !.v = w.v, !.g = w.g, !.token = w.token, !.again = b] \in Worker
<1>1. ASSUME NEW p \in Steps PROVE [w EXCEPT !.pc = p] \in Worker
  BY DEF Worker
<1>2. [w EXCEPT !.pc = "ack", !.again = TRUE] \in Worker
  BY DEF Worker, Steps
<1>3. ASSUME NEW n \in Nat, NEW m \in Models \cup {NoModel}
      PROVE  [w EXCEPT !.pc = "fetch", !.token = n, !.base = m] \in Worker
  BY DEF Worker, Steps, Trying
<1>4. ASSUME NEW c \in Chunks
      PROVE  /\ [w EXCEPT !.saved = @ \cup {c}] \in Worker
             /\ [w EXCEPT !.missed = @ \cup {c}] \in Worker
  BY DEF Worker
<1>5. [w EXCEPT !.offset = @ + BatchSize] \in Worker
  <2>1. w.offset + BatchSize \in Nat
    BY IngestionAssumption DEF Worker
  <2> QED  BY <2>1 DEF Worker
<1>6. ASSUME NEW p \in Steps, NEW b \in BOOLEAN
      PROVE  [Idle EXCEPT !.pc = p, !.v = w.v, !.g = w.g, !.token = w.token, !.again = b] \in Worker
  BY Records DEF Worker
<1> QED  BY <1>1, <1>2, <1>3, <1>4, <1>5, <1>6

LEMMA InitType == Init => TypeOK
<1> SUFFICES ASSUME Init PROVE TypeOK
  OBVIOUS
<1>1. TablesOK
  BY Parameters DEF Init, TablesOK, Statuses, Stages, Ages, Counts, NotIndexed
<1>2. VectorsOK /\ ArchivedOK
  BY DEF Init, VectorsOK, ArchivedOK
<1>3. RowsOK /\ JobsOK
  BY Records DEF Init, RowsOK, JobsOK
<1>4. SlotsOK /\ CallsOK /\ LoopsOK
  BY Records DEF Init, SlotsOK, CallsOK, LoopsOK
<1> QED  BY <1>1, <1>2, <1>3, <1>4 DEF TypeOK

-----------------------------------------------------------------------------
(* Frames. Every step is one of six kinds, and each kind has its writers.  *)

AttemptWrites(s) == \/ Claim(s) \/ FetchSource(s) \/ ExtractText(s) \/ SaveChunks(s)
                    \/ StartEmbedding(s) \/ FinishBatch(s) \/ StartIndexing(s) \/ Commit(s)
                    \/ RecordFailure(s)
LoopWrites(l)    == Exhaust(l) \/ Reissue(l) \/ GiveUp(l)
VersionWrites(v) == Reprocess(v) \/ LeaseLapses(v) \/ TurnsIdle(v)

LEMMA SlotFrame == ASSUME NEW s \in Slots, SlotStep(s)
                   PROVE  /\ UNCHANGED <<archived, outbox, loop, vector>>
                          /\ AttemptWrites(s) \/ UNCHANGED dbVars
<1>1. CASE AttemptWrites(s)
  BY <1>1 DEF AttemptWrites, Claim, FetchSource, ExtractText, SaveChunks, StartEmbedding,
     FinishBatch, StartIndexing, Advance, Commit, RecordFailure, chunkVars
<1>2. CASE \/ Decline(s) \/ ClaimFails(s) \/ StepFails(s) \/ SourceRejected(s) \/ DeferFailure(s)
           \/ Acknowledge(s) \/ Crash(s) \/ Redeploy(s)
  BY <1>2 DEF Decline, ClaimFails, StepFails, SourceRejected, Fail, DeferFailure, Acknowledge,
     Crash, Redeploy, dbVars, chunkVars
<1>3. CASE Receive(s) \/ \E c \in Chunks : LookupVector(s, c)
  BY <1>3 DEF Receive, Take, LookupVector, dbVars, chunkVars
<1> QED  BY <1>1, <1>2, <1>3 DEF SlotStep, AttemptStep, AttemptWrites

LEMMA QueueFrame == ASSUME NEW s \in Slots, SlotStep(s)
                    PROVE  Receive(s) \/ Acknowledge(s) \/ Crash(s) \/ UNCHANGED queue
  BY DEF SlotStep, AttemptStep, Decline, ClaimFails, Claim, FetchSource, ExtractText, SaveChunks,
     StartEmbedding, FinishBatch, LookupVector, StartIndexing, Advance, Commit, StepFails,
     SourceRejected, Fail, RecordFailure, DeferFailure, Redeploy

LEMMA LoopFrame == ASSUME NEW l \in Loops, LoopTurn(l)
                   PROVE  /\ UNCHANGED <<archived, worker, env, calls, vector>>
                          /\ LoopWrites(l) \/ UNCHANGED dbVars
                          /\ Send(l) \/ UNCHANGED queue
<1>1. CASE LoopWrites(l)
  BY <1>1 DEF LoopWrites, Exhaust, Reissue, GiveUp, RequestProcessing, processVars, chunkVars
<1>2. CASE \/ Send(l) \/ SendFails(l) \/ AckRow(l) \/ AckFails(l) \/ ReleaseRow(l)
           \/ LeaveAlone(l) \/ DeleteExpired(l) \/ LoopStops(l)
  BY <1>2 DEF Send, SendFails, AckRow, AckFails, ReleaseRow, LeaveAlone, DeleteExpired, LoopStops,
     processVars, dbVars, chunkVars
<1>3. CASE \/ Dispatch(l) \/ \E v \in Versions : Scan(l, v)
           \/ \E v \in Versions, g \in Generations : FindExpired(l, v, g)
  BY <1>3 DEF Dispatch, ClaimRow, Scan, FindExpired, processVars, dbVars, chunkVars
<1> QED  BY <1>1, <1>2, <1>3 DEF LoopTurn, LoopStep, LoopWrites

LEMMA CallFrame == ASSUME NEW k \in calls, StoreVector(k) \/ MissVector(k)
                   PROVE  /\ UNCHANGED <<archived, outbox, queue, env, loop>>
                          /\ StoreVector(k) \/ UNCHANGED dbVars
  BY DEF StoreVector, MissVector

LEMMA DeliveryFrame == ASSUME Delivery
                       PROVE  UNCHANGED <<dbVars, archived, outbox, worker, env, calls, loop>>
  BY DEF Delivery, Stalled, JobExpires, processVars

LEMMA OperatorFrame == ASSUME NEW v \in Versions, Reprocess(v) \/ Archive(v)
                       PROVE  /\ UNCHANGED <<queue, worker, env, calls, loop, vector>>
                              /\ Reprocess(v) \/ UNCHANGED <<dbVars, outbox>>
                              /\ Archive(v) \/ UNCHANGED archived
  BY DEF Reprocess, Archive, RequestProcessing, processVars, dbVars, chunkVars

LEMMA TimeFrame == ASSUME Time
                   PROVE  /\ UNCHANGED <<archived, queue, worker, env, calls, loop, vector>>
                          /\ (\E v \in Versions : VersionWrites(v)) \/ UNCHANGED dbVars
                          /\ (\E v \in Versions, g \in Generations : RowAges(v, g)) \/ UNCHANGED outbox
  BY DEF Time, LeaseLapses, TurnsIdle, RowAges, VersionWrites, processVars, dbVars, chunkVars

\* Who writes the tables, and who the outbox.
TablesWritten == \/ \E s \in Slots : AttemptWrites(s)
                 \/ \E l \in Loops : LoopWrites(l)
                 \/ \E v \in Versions : VersionWrites(v)
                 \/ \E k \in calls : StoreVector(k)
RowsWritten ==
  \/ \E l \in Loops, v \in Versions, g \in Generations : ClaimRow(l, v, g)
  \/ \E l \in Loops : AckRow(l) \/ ReleaseRow(l) \/ DeleteExpired(l) \/ Reissue(l)
  \/ \E v \in Versions : Reprocess(v)
  \/ \E v \in Versions, g \in Generations : RowAges(v, g)

LEMMA TablesFrame == ASSUME Next
                     PROVE  TablesWritten \/ UNCHANGED dbVars
  BY SlotFrame, LoopFrame, CallFrame, DeliveryFrame, OperatorFrame, TimeFrame
  DEF Next, CallStep, Operators, TablesWritten, VersionWrites

LEMMA RowsFrame == ASSUME Next
                   PROVE  RowsWritten \/ UNCHANGED outbox
<1>1. ASSUME NEW l \in Loops, LoopTurn(l)
      PROVE  RowsWritten \/ UNCHANGED outbox
  BY <1>1 DEF LoopTurn, LoopStep, LoopStops, Dispatch, RowsWritten, Send, SendFails, AckFails,
     Exhaust, GiveUp, LeaveAlone, Scan, FindExpired
<1> QED
  BY <1>1, SlotFrame, CallFrame, DeliveryFrame, OperatorFrame, TimeFrame
  DEF Next, CallStep, Operators, RowsWritten

-----------------------------------------------------------------------------
(* Each part of TypeOK is preserved by every step.                         *)

LEMMA AttemptTables == ASSUME TypeOK, NEW s \in Slots, AttemptWrites(s)
                       PROVE  TablesOK'
<1> DEFINE w == worker[s]
<1>0. w \in Worker /\ w.v \in Versions /\ w.token \in Nat /\ w.saved \in SUBSET Chunks
      /\ env[s] \in Envs
  BY DEF TypeOK, SlotsOK, Worker
<1> USE DEF TypeOK, TablesOK
<1>1. CASE Claim(s)
  BY <1>0, <1>1 DEF Claim, Statuses, Stages, InProgress, Ages, chunkVars
<1>2. CASE FetchSource(s) \/ ExtractText(s) \/ StartEmbedding(s) \/ StartIndexing(s)
  BY <1>0, <1>2 DEF FetchSource, ExtractText, StartEmbedding, StartIndexing, Advance, Stages,
     InProgress, versionVars, attemptVars, chunkVars
<1>3. CASE SaveChunks(s)
  BY <1>0, <1>3, Parameters DEF SaveChunks, ingestionVars, attemptVars
<1>4. CASE FinishBatch(s)
  BY <1>0, <1>4, ChunkCount DEF FinishBatch, versionVars, attemptVars, chunkVars
<1>5. CASE Commit(s)
  <2>1. Cardinality(w.saved) \in Counts
    BY <1>0, ChunkCount
  <2> QED
    BY <1>0, <1>5, <2>1, Parameters DEF Commit, FreeLease, Statuses, Stages, Ages, chunkVars
<1>6. CASE RecordFailure(s)
  <2>1. retryable' \in [Versions -> BOOLEAN]
    BY <1>0, <1>6 DEF RecordFailure, Worker
  <2>2. CASE status[w.v] = "PROCESSING" /\ token[w.v] = w.token
    <3>1. /\ status' = [status EXCEPT ![w.v] = "FAILED"] /\ FreeLease(w.v)
          /\ stage' = [stage EXCEPT ![w.v] = "FAILED"] /\ idle' = [idle EXCEPT ![w.v] = FALSE]
          /\ open' = [open EXCEPT ![w.v] = @ \ {w.token}]
          /\ UNCHANGED <<model, indexed, generation, attempts, embedded, succeeded, chunkVars,
                         archived>>
      BY <1>6, <2>2 DEF RecordFailure
    <3> QED
      BY <1>0, <2>1, <3>1 DEF FreeLease, Statuses, Stages, Ages, chunkVars
  <2>3. CASE ~(status[w.v] = "PROCESSING" /\ token[w.v] = w.token)
    BY <1>0, <1>6, <2>1, <2>3 DEF RecordFailure, chunkVars
  <2> QED  BY <2>2, <2>3
<1> QED  BY <1>1, <1>2, <1>3, <1>4, <1>5, <1>6 DEF AttemptWrites

LEMMA LoopTables == ASSUME TypeOK, NEW l \in Loops, LoopWrites(l)
                    PROVE  TablesOK'
<1>0. loop[l].v \in Versions /\ generation[loop[l].v] + 1 \in Nat
  BY DEF TypeOK, LoopsOK, Loop, TablesOK, Generations
<1> USE DEF TypeOK, TablesOK
<1>1. CASE Exhaust(l)
  BY <1>0, <1>1 DEF Exhaust, Statuses, Stages, attemptVars, chunkVars
<1>2. CASE Reissue(l)
  <2>1. generation[loop[l].v] + 1 \in Generations
    BY <1>0, <1>2, IngestionAssumption DEF Reissue, Exhausted, Generations
  <2> QED
    BY <1>0, <1>2, <2>1 DEF Reissue, RequestProcessing, FreeLease, Statuses, Stages, Ages, chunkVars
<1>3. CASE GiveUp(l)
  BY <1>0, <1>3 DEF GiveUp, FreeLease, Statuses, Stages, Ages, attemptVars, chunkVars
<1> QED  BY <1>1, <1>2, <1>3 DEF LoopWrites

LEMMA TablesStep == ASSUME TypeOK, Next
                    PROVE  TablesOK'
<1> USE DEF TypeOK, TablesOK
<1>1. ASSUME NEW v \in Versions, Reprocess(v)
      PROVE  TablesOK'
  <2>1. generation[v] + 1 \in Generations
    BY <1>1, IngestionAssumption DEF Reprocess, Generations
  <2> QED
    BY <1>1, <2>1 DEF Reprocess, RequestProcessing, FreeLease, Statuses, Stages, Ages, chunkVars
<1>2. ASSUME NEW v \in Versions, LeaseLapses(v) \/ TurnsIdle(v)
      PROVE  TablesOK'
  BY <1>2 DEF LeaseLapses, TurnsIdle, Ages, versionVars, ingestionVars, attemptVars, chunkVars
<1>3. ASSUME NEW k \in calls, StoreVector(k)
      PROVE  TablesOK'
  BY <1>3 DEF StoreVector, versionVars, ingestionVars, attemptVars
<1>4. CASE UNCHANGED dbVars
  BY <1>4 DEF dbVars, versionVars, ingestionVars, attemptVars, chunkVars
<1> QED
  BY <1>1, <1>2, <1>3, <1>4, AttemptTables, LoopTables, TablesFrame DEF TablesWritten, VersionWrites

LEMMA VectorsStep == ASSUME TypeOK, Next
                     PROVE  VectorsOK'
<1>1. ASSUME NEW k \in calls, StoreVector(k)
      PROVE  VectorsOK'
  <2>1. k.v \in Versions /\ k.model \in Models
    BY DEF TypeOK, CallsOK, Call
  <2>2. [vector[k.v] EXCEPT ![k.chunk] = k.model] \in [Chunks -> Models \cup {NoModel}]
    BY <2>1 DEF TypeOK, VectorsOK
  <2> QED  BY <1>1, <2>2 DEF TypeOK, VectorsOK, StoreVector
<1>2. UNCHANGED vector => VectorsOK'
  BY DEF TypeOK, VectorsOK
<1>3. ASSUME NEW k \in calls, MissVector(k)
      PROVE  UNCHANGED vector
  BY <1>3 DEF MissVector, dbVars, chunkVars
<1> QED
  BY <1>1, <1>2, <1>3, SlotFrame, LoopFrame, DeliveryFrame, OperatorFrame, TimeFrame
  DEF Next, CallStep, Operators, dbVars, chunkVars

LEMMA RowsStep == ASSUME TypeOK, Next
                  PROVE  RowsOK'
<1> USE DEF RowsOK
<1>0. outbox \in [Versions \X Generations -> OutboxRow]
  BY DEF TypeOK
<1>1. ASSUME NEW l \in Loops, NEW v \in Versions, NEW g \in Generations, ClaimRow(l, v, g)
      PROVE  RowsOK'
  <2> DEFINE r == outbox[<<v, g>>]
  <2>1. r \in OutboxRow
    BY <1>0
  <2>2. [r EXCEPT !.claim = "live", !.attempts = @ + 1] \in OutboxRow
    BY <1>1, <2>1, RowUpdates DEF ClaimRow
  <2> HIDE DEF r
  <2> QED  BY <1>0, <1>1, <2>2, Update DEF ClaimRow, r
<1>2. ASSUME NEW l \in Loops, AckRow(l) \/ ReleaseRow(l) \/ DeleteExpired(l)
      PROVE  RowsOK'
  <2> DEFINE p == loop[l]  r == outbox[<<p.v, p.g>>]
  <2>1. r \in OutboxRow
    BY <1>0 DEF TypeOK, LoopsOK, Loop
  <2>2. /\ [r EXCEPT !.dispatched = "recent", !.claim = "none"] \in OutboxRow
        /\ [r EXCEPT !.claim = "none", !.available = FALSE] \in OutboxRow
        /\ NoRow \in OutboxRow
    BY <2>1, RowUpdates, Records
  <2>3. \/ outbox' = outbox
        \/ outbox' = [outbox EXCEPT ![<<p.v, p.g>>] = [r EXCEPT !.dispatched = "recent", !.claim = "none"]]
        \/ outbox' = [outbox EXCEPT ![<<p.v, p.g>>] = [r EXCEPT !.claim = "none", !.available = FALSE]]
        \/ outbox' = [outbox EXCEPT ![<<p.v, p.g>>] = NoRow]
    BY <1>2 DEF AckRow, ReleaseRow, DeleteExpired
  <2> HIDE DEF r
  <2> QED  BY <1>0, <2>2, <2>3, Update
<1>3. ASSUME NEW l \in Loops, Reissue(l)
      PROVE  RowsOK'
  BY <1>0, <1>3, Records, Update DEF Reissue, RequestProcessing
<1>4. ASSUME NEW v \in Versions, Reprocess(v)
      PROVE  RowsOK'
  BY <1>0, <1>4, Records, Update DEF Reprocess, RequestProcessing
<1>5. ASSUME NEW v \in Versions, NEW g \in Generations, RowAges(v, g)
      PROVE  RowsOK'
  <2> DEFINE r == outbox[<<v, g>>]
  <2>1. r \in OutboxRow
    BY <1>0
  <2>2. /\ [r EXCEPT !.claim = "lapsed"] \in OutboxRow
        /\ [r EXCEPT !.available = TRUE] \in OutboxRow
        /\ [r EXCEPT !.dispatched = "old"] \in OutboxRow
    BY <2>1, RowUpdates
  <2>3. \/ outbox' = [outbox EXCEPT ![<<v, g>>] = [r EXCEPT !.claim = "lapsed"]]
        \/ outbox' = [outbox EXCEPT ![<<v, g>>] = [r EXCEPT !.available = TRUE]]
        \/ outbox' = [outbox EXCEPT ![<<v, g>>] = [r EXCEPT !.dispatched = "old"]]
    BY <1>5 DEF RowAges
  <2>4. ASSUME NEW x \in OutboxRow
        PROVE  [outbox EXCEPT ![<<v, g>>] = x] \in [Versions \X Generations -> OutboxRow]
    BY <1>0, Update
  <2> HIDE DEF r
  <2> QED  BY <2>2, <2>3, <2>4
<1>6. CASE UNCHANGED outbox
  BY <1>0, <1>6
<1> QED  BY <1>1, <1>2, <1>3, <1>4, <1>5, <1>6, RowsFrame DEF RowsWritten

LEMMA JobsStep == ASSUME TypeOK, Next
                  PROVE  JobsOK'
<1> USE DEF JobsOK
<1>0. queue \in [Versions \X Generations -> Job]
  BY DEF TypeOK
<1>a. ASSUME NEW v \in Versions, NEW g \in Generations, NEW x \in Job
      PROVE  [queue EXCEPT ![<<v, g>>] = x] \in [Versions \X Generations -> Job]
  BY <1>0, Update
<1>1. ASSUME NEW s \in Slots, NEW v \in Versions, NEW g \in Generations, Take(s, v, g)
      PROVE  JobsOK'
  <2> DEFINE j == queue[<<v, g>>]
  <2>1. [j EXCEPT !.state = "active", !.holder = s] \in Job
    BY <1>0, JobUpdates
  <2> QED  BY <1>a, <1>1, <2>1 DEF Take
<1>2. ASSUME NEW s \in Slots, Acknowledge(s)
      PROVE  JobsOK'
  <2> DEFINE w == worker[s]  j == queue[<<w.v, w.g>>]
             next == [j EXCEPT !.state = "waiting", !.tries = @ + 1, !.holder = NoSlot]
  <2>1. w.v \in Versions /\ w.g \in Generations /\ j \in Job
    BY <1>0 DEF TypeOK, SlotsOK, Worker
  <2>2. (j.tries + 1 < MaxAttempts => next \in Job) /\ EndedJob \in Job
    BY <2>1, JobUpdates, Records
  <2>3. \/ queue' = queue
        \/ queue' = [queue EXCEPT ![<<w.v, w.g>>] = next] /\ j.tries + 1 < MaxAttempts
        \/ queue' = [queue EXCEPT ![<<w.v, w.g>>] = EndedJob]
    BY <1>2 DEF Acknowledge
  <2> HIDE DEF w, j, next
  <2> QED  BY <1>0, <1>a, <2>1, <2>2, <2>3
<1>3. ASSUME NEW s \in Slots, Crash(s)
      PROVE  JobsOK'
  <2> DEFINE w == worker[s]  j == queue[<<w.v, w.g>>]
  <2>1. w.v \in Versions /\ w.g \in Generations /\ j \in Job
    BY <1>0 DEF TypeOK, SlotsOK, Worker
  <2>2. [j EXCEPT !.holder = NoSlot] \in Job
    BY <2>1, JobUpdates
  <2>3. queue' = queue \/ queue' = [queue EXCEPT ![<<w.v, w.g>>] = [j EXCEPT !.holder = NoSlot]]
    BY <1>3 DEF Crash
  <2> HIDE DEF w, j
  <2> QED  BY <1>0, <1>a, <2>1, <2>2, <2>3
<1>4. ASSUME NEW v \in Versions, NEW g \in Generations, Stalled(v, g) \/ JobExpires(v, g)
      PROVE  JobsOK'
  <2> DEFINE j == queue[<<v, g>>]
  <2>1. /\ [j EXCEPT !.state = "waiting", !.stalls = 1, !.holder = NoSlot] \in Job
        /\ EndedJob \in Job /\ NoJob \in Job
    BY <1>0, JobUpdates, Records
  <2>2. \/ queue' = [queue EXCEPT ![<<v, g>>] =
                       [j EXCEPT !.state = "waiting", !.stalls = 1, !.holder = NoSlot]]
        \/ queue' = [queue EXCEPT ![<<v, g>>] = EndedJob]
        \/ queue' = [queue EXCEPT ![<<v, g>>] = NoJob]
    BY <1>4 DEF Stalled, JobExpires
  <2> HIDE DEF j
  <2> QED  BY <1>a, <2>1, <2>2
<1>5. ASSUME NEW l \in Loops, Send(l)
      PROVE  JobsOK'
  <2> DEFINE p == loop[l]  j == queue[<<p.v, p.g>>]
  <2>1. p.v \in Versions /\ p.g \in Generations /\ j \in Job
    BY <1>0 DEF TypeOK, LoopsOK, Loop
  <2>2. [j EXCEPT !.state = "waiting"] \in Job
    BY <2>1, JobUpdates
  <2>3. queue' = queue \/ queue' = [queue EXCEPT ![<<p.v, p.g>>] = [j EXCEPT !.state = "waiting"]]
    BY <1>5 DEF Send
  <2> HIDE DEF p, j
  <2> QED  BY <1>0, <1>a, <2>1, <2>2, <2>3
<1>6. CASE UNCHANGED queue
  BY <1>0, <1>6
<1> QED
  BY <1>1, <1>2, <1>3, <1>4, <1>5, <1>6, QueueFrame, LoopFrame, CallFrame, OperatorFrame, TimeFrame
  DEF Next, Receive, CallStep, Delivery, Operators

LEMMA LeaveType == ASSUME TypeOK, NEW s \in Slots, NEW p \in Steps, NEW b \in BOOLEAN, Leave(s, p, b)
                   PROVE  worker' \in [Slots -> Worker]
<1> DEFINE w == worker[s]
           x == [Idle EXCEPT !.pc = p, !.v = w.v, !.g = w.g, !.token = w.token, !.again = b]
<1>1. w \in Worker /\ worker \in [Slots -> Worker]
  BY DEF TypeOK, SlotsOK
<1>2. x \in Worker
  BY <1>1, WorkerUpdates
<1>3. worker' = [worker EXCEPT ![s] = x]
  BY DEF Leave
<1> HIDE DEF x
<1> QED  BY <1>1, <1>2, <1>3, Update

LEMMA AttemptSlots == ASSUME TypeOK, NEW s \in Slots, AttemptStep(s)
                      PROVE  worker' \in [Slots -> Worker]
<1> DEFINE w == worker[s]
<1>0. w \in Worker /\ worker \in [Slots -> Worker] /\ env[s] \in Envs
  BY DEF TypeOK, SlotsOK
<1>a. ASSUME NEW x \in Worker PROVE [worker EXCEPT ![s] = x] \in [Slots -> Worker]
  BY <1>0, Update
<1>b. {"ack", "failing", "fetch", "extract", "chunk", "embed", "saving", "index", "commit"} \subseteq Steps
  BY DEF Steps, Trying
<1>c. ASSUME NEW p \in Steps, worker' = [worker EXCEPT ![s].pc = p]
      PROVE  worker' \in [Slots -> Worker]
  <2>1. [w EXCEPT !.pc = p] \in Worker
    BY <1>0, WorkerUpdates
  <2> QED  BY <1>a, <1>c, <2>1
<1>1. CASE Decline(s)
  BY <1>1, <1>b, <1>c DEF Decline
<1>2. CASE ClaimFails(s)
  <2>1. [w EXCEPT !.pc = "ack", !.again = TRUE] \in Worker
    BY <1>0, WorkerUpdates
  <2> QED  BY <1>2, <1>a, <2>1 DEF ClaimFails
<1>3. CASE Claim(s)
  <2> DEFINE x == [w EXCEPT !.pc = "fetch", !.token = attempts[w.v] + 1, !.base = model[w.v]]
  <2>1. w.v \in Versions /\ attempts[w.v] + 1 \in Nat /\ model[w.v] \in Models \cup {NoModel}
    BY <1>0 DEF TypeOK, TablesOK, Worker
  <2>2. x \in Worker
    BY <1>0, <2>1, WorkerUpdates
  <2>3. worker' = [worker EXCEPT ![s] = x]
    BY <1>3 DEF Claim
  <2> HIDE DEF x
  <2> QED  BY <1>a, <2>2, <2>3
<1>4. CASE FetchSource(s) \/ ExtractText(s) \/ StartIndexing(s) \/ StartEmbedding(s)
  <2>1. PICK p \in Steps : worker' = [worker EXCEPT ![s].pc = p]
    BY <1>4, <1>b DEF FetchSource, ExtractText, StartIndexing, StartEmbedding, Advance
  <2> QED  BY <1>c, <2>1
<1>5. CASE SaveChunks(s)
  BY <1>5, <1>b, <1>c DEF SaveChunks
<1>6. CASE FinishBatch(s)
  <2>1. [w EXCEPT !.offset = @ + BatchSize] \in Worker
    BY <1>0, WorkerUpdates
  <2>2. \/ Leave(s, "failing", TRUE) \/ worker' = [worker EXCEPT ![s].pc = "index"]
        \/ worker' = [worker EXCEPT ![s] = [w EXCEPT !.offset = @ + BatchSize]]
    BY <1>6 DEF FinishBatch
  <2> QED  BY <1>a, <1>b, <1>c, <2>1, <2>2, LeaveType
<1>7. ASSUME NEW c \in Chunks, LookupVector(s, c)
      PROVE  worker' \in [Slots -> Worker]
  <2>1. [w EXCEPT !.saved = @ \cup {c}] \in Worker
    BY <1>0, WorkerUpdates
  <2>2. worker' = worker \/ worker' = [worker EXCEPT ![s] = [w EXCEPT !.saved = @ \cup {c}]]
    BY <1>7 DEF LookupVector
  <2> QED  BY <1>0, <1>a, <2>1, <2>2
<1>8. CASE Commit(s)
  BY <1>8, <1>b, LeaveType DEF Commit
<1>9. CASE StepFails(s) \/ SourceRejected(s)
  BY <1>9, <1>b, LeaveType DEF StepFails, SourceRejected, Fail
<1>10. CASE RecordFailure(s) \/ DeferFailure(s)
  <2>1. w.again \in BOOLEAN
    BY <1>0 DEF Worker
  <2>2. Leave(s, "ack", w.again)
    BY <1>10 DEF RecordFailure, DeferFailure
  <2> QED  BY <1>b, <2>1, <2>2, LeaveType
<1>11. CASE Acknowledge(s)
  BY <1>11, <1>a, Records DEF Acknowledge
<1> QED
  BY <1>1, <1>2, <1>3, <1>4, <1>5, <1>6, <1>7, <1>8, <1>9, <1>10, <1>11 DEF AttemptStep

LEMMA SlotsStep == ASSUME TypeOK, Next
                   PROVE  SlotsOK'
<1>0. worker \in [Slots -> Worker] /\ env \in [Slots -> Envs]
  BY DEF TypeOK, SlotsOK
<1>1. ASSUME NEW s \in Slots, AttemptStep(s)
      PROVE  SlotsOK'
  <2>1. UNCHANGED env
    BY <1>1 DEF AttemptStep, Decline, ClaimFails, Claim, FetchSource, ExtractText, SaveChunks,
     StartEmbedding, FinishBatch, LookupVector, StartIndexing, Advance, Commit, StepFails,
     SourceRejected, Fail, RecordFailure, DeferFailure, Acknowledge
  <2> QED  BY <1>0, <1>1, <2>1, AttemptSlots DEF SlotsOK
<1>2. ASSUME NEW s \in Slots, Crash(s) \/ Redeploy(s)
      PROVE  SlotsOK'
  BY <1>0, <1>2, Records, Update DEF Crash, Redeploy, SlotsOK
<1>3. ASSUME NEW s \in Slots, NEW v \in Versions, NEW g \in Generations, Take(s, v, g)
      PROVE  SlotsOK'
  <2>1. [Idle EXCEPT !.pc = "claim", !.v = v, !.g = g] \in Worker
    BY Records DEF Worker, Steps
  <2> QED  BY <1>0, <1>3, <2>1, Update DEF Take, SlotsOK
<1>4. ASSUME NEW k \in calls, StoreVector(k) \/ MissVector(k)
      PROVE  SlotsOK'
  <2> DEFINE w == worker[k.slot]
  <2>1. k.chunk \in Chunks /\ w \in Worker
    BY <1>0 DEF TypeOK, CallsOK, Call
  <2>2. /\ [w EXCEPT !.saved = @ \cup {k.chunk}] \in Worker
        /\ [w EXCEPT !.missed = @ \cup {k.chunk}] \in Worker
    BY <2>1, WorkerUpdates
  <2>3. /\ UNCHANGED env
        /\ \/ worker' = worker
           \/ worker' = [worker EXCEPT ![k.slot] = [w EXCEPT !.saved = @ \cup {k.chunk}]]
           \/ worker' = [worker EXCEPT ![k.slot] = [w EXCEPT !.missed = @ \cup {k.chunk}]]
    BY <1>4 DEF StoreVector, MissVector
  <2> HIDE DEF w
  <2> QED  BY <1>0, <2>2, <2>3, Update DEF SlotsOK
<1>5. UNCHANGED <<worker, env>> => SlotsOK'
  BY <1>0 DEF SlotsOK
<1> QED
  BY <1>1, <1>2, <1>3, <1>4, <1>5, LoopFrame, DeliveryFrame, OperatorFrame, TimeFrame
  DEF Next, SlotStep, Receive, CallStep, Operators

LEMMA CallsStep == ASSUME TypeOK, Next
                   PROVE  CallsOK'
<1>0. calls \subseteq Call
  BY DEF TypeOK, CallsOK
<1>1. ASSUME NEW s \in Slots, NEW c \in Chunks, LookupVector(s, c)
      PROVE  CallsOK'
  <2> DEFINE w == worker[s]
             k == [slot |-> s, v |-> w.v, token |-> w.token, chunk |-> c, model |-> env[s].model]
  <2>1. w.v \in Versions /\ w.token \in Nat /\ env[s].model \in Models
    BY Parameters DEF TypeOK, SlotsOK, Worker
  <2>2. k \in Call
    BY <2>1 DEF Call
  <2>3. calls' = calls \/ calls' = calls \cup {k}
    BY <1>1 DEF LookupVector
  <2> HIDE DEF k
  <2> QED  BY <1>0, <2>2, <2>3 DEF CallsOK
<1>2. ASSUME NEW s \in Slots, AttemptStep(s)
      PROVE  UNCHANGED calls \/ \E c \in Chunks : LookupVector(s, c)
  BY <1>2 DEF AttemptStep, Decline, ClaimFails, Claim, FetchSource, ExtractText, SaveChunks,
     StartEmbedding, FinishBatch, StartIndexing, Advance, Commit, StepFails,
     SourceRejected, Fail, RecordFailure, DeferFailure, Acknowledge
<1>3. ASSUME NEW s \in Slots, Crash(s) \/ Redeploy(s)
      PROVE  CallsOK'
  BY <1>0, <1>3 DEF Crash, Redeploy, CallsOK
<1>4. ASSUME NEW k \in calls, StoreVector(k) \/ MissVector(k)
      PROVE  CallsOK'
  BY <1>0, <1>4 DEF StoreVector, MissVector, CallsOK
<1>5. ASSUME NEW s \in Slots, Receive(s)
      PROVE  UNCHANGED calls
  BY <1>5 DEF Receive, Take
<1>6. UNCHANGED calls => CallsOK'
  BY <1>0 DEF CallsOK
<1> QED
  BY <1>1, <1>2, <1>3, <1>4, <1>5, <1>6, LoopFrame, DeliveryFrame, OperatorFrame, TimeFrame
  DEF Next, SlotStep, CallStep, Operators

LEMMA LoopsStep == ASSUME TypeOK, Next
                   PROVE  LoopsOK'
<1> USE DEF LoopsOK
<1>0. loop \in [Loops -> Loop]
  BY DEF TypeOK
<1>a. ASSUME NEW l \in Loops, NEW x \in Loop
      PROVE  [loop EXCEPT ![l] = x] \in [Loops -> Loop]
  BY <1>0, Update
<1>b. ASSUME NEW l \in Loops, \/ Rest(l) \/ Move(l, "ack") \/ Move(l, "release") \/ Move(l, "exhaust")
      PROVE  LoopsOK'
  <2> DEFINE p == loop[l]
  <2>1. p \in Loop
    BY <1>0
  <2>2. /\ [p EXCEPT !.pc = "ack"] \in Loop /\ [p EXCEPT !.pc = "release"] \in Loop
        /\ [p EXCEPT !.pc = "exhaust"] \in Loop
    BY <2>1 DEF Loop, Turns
  <2>3. \/ loop' = [loop EXCEPT ![l] = Resting]
        \/ loop' = [loop EXCEPT ![l] = [p EXCEPT !.pc = "ack"]]
        \/ loop' = [loop EXCEPT ![l] = [p EXCEPT !.pc = "release"]]
        \/ loop' = [loop EXCEPT ![l] = [p EXCEPT !.pc = "exhaust"]]
    BY <1>b DEF Rest, Move
  <2> HIDE DEF p
  <2> QED  BY <1>a, <2>2, <2>3, Records
<1>1. ASSUME NEW l \in Loops, LoopStep(l) \/ LoopStops(l)
      PROVE  LoopsOK'
  BY <1>b, <1>1 DEF LoopStep, LoopStops, Send, SendFails, AckRow, AckFails, ReleaseRow, Exhaust,
     Reissue, GiveUp, LeaveAlone, DeleteExpired
<1>2. ASSUME NEW l \in Loops, NEW v \in Versions, NEW g \in Generations, ClaimRow(l, v, g)
      PROVE  LoopsOK'
  <2> DEFINE x == [pc |-> "send", v |-> v, g |-> g, n |-> outbox[<<v, g>>].attempts + 1]
  <2>1. outbox[<<v, g>>].attempts + 1 \in 0 .. DispatchLimit
    BY <1>2, Parameters DEF TypeOK, RowsOK, OutboxRow, ClaimRow, Due, DueForever
  <2>2. x \in Loop
    BY <2>1 DEF Loop, Turns
  <2>3. loop' = [loop EXCEPT ![l] = x]
    BY <1>2 DEF ClaimRow
  <2> HIDE DEF x
  <2> QED  BY <1>a, <2>2, <2>3
<1>3. ASSUME NEW l \in Loops, NEW v \in Versions, Scan(l, v)
      PROVE  LoopsOK'
  <2>1. [Resting EXCEPT !.pc = "reconcile", !.v = v] \in Loop
    BY Records DEF Loop, Turns
  <2> QED  BY <1>3, <1>a, <2>1 DEF Scan
<1>4. ASSUME NEW l \in Loops, NEW v \in Versions, NEW g \in Generations, FindExpired(l, v, g)
      PROVE  LoopsOK'
  <2>1. [Resting EXCEPT !.pc = "cleanup", !.v = v, !.g = g] \in Loop
    BY Records DEF Loop, Turns
  <2> QED  BY <1>4, <1>a, <2>1 DEF FindExpired
<1>5. UNCHANGED loop => LoopsOK'
  BY <1>0
<1> QED
  BY <1>1, <1>2, <1>3, <1>4, <1>5, SlotFrame, CallFrame, DeliveryFrame, OperatorFrame, TimeFrame
  DEF Next, LoopTurn, Dispatch, CallStep, Operators

LEMMA ArchivedStep == ASSUME TypeOK, Next
                      PROVE  ArchivedOK'
<1>1. ASSUME NEW v \in Versions, Archive(v)
      PROVE  ArchivedOK'
  BY <1>1 DEF TypeOK, ArchivedOK, Archive
<1>2. UNCHANGED archived => ArchivedOK'
  BY DEF TypeOK, ArchivedOK
<1> QED
  BY <1>1, <1>2, SlotFrame, LoopFrame, CallFrame, DeliveryFrame, OperatorFrame, TimeFrame
  DEF Next, CallStep, Operators

\* Every table, row, job, slot, call and loop keeps its type, whatever the
\* workers, the queue, the maintenance loops and the operators do.
THEOREM TypeCorrect == Spec => []TypeOK
<1>1. TypeOK /\ Next => TypeOK'
  BY TablesStep, ArchivedStep, VectorsStep, RowsStep, JobsStep, SlotsStep, CallsStep, LoopsStep
  DEF TypeOK
<1>2. TypeOK /\ UNCHANGED vars => TypeOK'
  BY DEF TypeOK, TablesOK, ArchivedOK, VectorsOK, RowsOK, JobsOK, SlotsOK, CallsOK, LoopsOK, vars,
     dbVars, versionVars, ingestionVars, attemptVars, chunkVars, processVars
<1> QED  BY InitType, <1>1, <1>2, PTL DEF Spec
=============================================================================
