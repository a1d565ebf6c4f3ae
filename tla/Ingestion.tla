----------------------------- MODULE Ingestion ------------------------------
(***************************************************************************)
(* Durable ingestion of knowledge versions: processing attempts and        *)
(* maintenance loops composed over one database and one queue, with the    *)
(* operators' requests and the passage of time.                            *)
(***************************************************************************)
EXTENDS Processing, Maintenance

-----------------------------------------------------------------------------
(* Operators and time.                                                     *)

\* The reprocess endpoint: refused while the lease is live, no-op when queued.
Reprocess(v) ==
  /\ "reprocess" \in Faults /\ v \notin archived /\ status[v] # "READY" /\ lease[v] # "live"
  /\ stage[v] # "QUEUED" /\ retryable[v] /\ generation[v] < MaxGeneration
  /\ RequestProcessing(v)
  /\ UNCHANGED <<open, archived, queue, processVars, loop>>

Archive(v) ==
  /\ "archive" \in Faults /\ v \notin archived /\ archived' = archived \cup {v}
  /\ UNCHANGED <<dbVars, outbox, queue, processVars, loop>>

LeaseLapses(v) ==
  /\ lease[v] = "live" /\ lease' = [lease EXCEPT ![v] = "lapsed"]
  /\ UNCHANGED <<status, token, model, indexed, ingestionVars, attemptVars, chunkVars,
                 archived, outbox, queue, processVars, loop>>

\* Ten minutes without an update; read only for queued and failed versions.
TurnsIdle(v) ==
  /\ ~idle[v] /\ stage[v] \in {"QUEUED", "FAILED"} /\ idle' = [idle EXCEPT ![v] = TRUE]
  /\ UNCHANGED <<versionVars, stage, generation, attempts, retryable, embedded, attemptVars,
                 chunkVars, archived, outbox, queue, processVars, loop>>

\* A claim runs out, a back-off ends, or a dispatched row gets old. Only the
\* cleanup reads the age of an earlier generation's row.
RowAges(v, g) == LET r == outbox[<<v, g>>] IN
  /\ \/ r.claim = "live" /\ outbox' = [outbox EXCEPT ![<<v, g>>].claim = "lapsed"]
     \/ r.exists /\ ~r.available /\ outbox' = [outbox EXCEPT ![<<v, g>>].available = TRUE]
     \/ /\ r.dispatched = "recent" /\ (g = generation[v] \/ "cleanup" \in Faults)
        /\ outbox' = [outbox EXCEPT ![<<v, g>>].dispatched = "old"]
  /\ UNCHANGED <<dbVars, archived, queue, processVars, loop>>

-----------------------------------------------------------------------------
AttemptStep(s) ==
  \/ Decline(s) \/ ClaimFails(s) \/ Claim(s) \/ FetchSource(s) \/ ExtractText(s)
  \/ SaveChunks(s) \/ StartEmbedding(s) \/ FinishBatch(s)
  \/ \E c \in Chunks : LookupVector(s, c)
  \/ StartIndexing(s) \/ Commit(s) \/ StepFails(s) \/ SourceRejected(s)
  \/ RecordFailure(s) \/ DeferFailure(s) \/ Acknowledge(s)

LoopStep(l) ==
  \/ Send(l) \/ SendFails(l) \/ AckRow(l) \/ AckFails(l) \/ ReleaseRow(l) \/ Exhaust(l)
  \/ Reissue(l) \/ GiveUp(l) \/ LeaveAlone(l) \/ DeleteExpired(l)

Dispatch(l) == \E v \in Versions, g \in Generations : ClaimRow(l, v, g)
LoopTurn(l) == \/ LoopStep(l) \/ LoopStops(l) \/ Dispatch(l)
               \/ \E v \in Versions : Scan(l, v)
               \/ \E v \in Versions, g \in Generations : FindExpired(l, v, g)

Receive(s)  == \E v \in Versions, g \in Generations : Take(s, v, g)
SlotStep(s) == AttemptStep(s) \/ Receive(s) \/ Crash(s) \/ Redeploy(s)
CallStep    == \E k \in calls : StoreVector(k) \/ MissVector(k)
Delivery    == \E v \in Versions, g \in Generations : Stalled(v, g) \/ JobExpires(v, g)
Operators   == \E v \in Versions : Reprocess(v) \/ Archive(v)
Time        == \/ \E v \in Versions : LeaseLapses(v) \/ TurnsIdle(v)
               \/ \E v \in Versions, g \in Generations : RowAges(v, g)

Next == \/ \E s \in Slots : SlotStep(s)
        \/ \E l \in Loops : LoopTurn(l)
        \/ CallStep \/ Delivery \/ Operators \/ Time

Spec == Init /\ [][Next]_vars

(* Fairness: a process that runs keeps running, the queue delivers and     *)
(* notices dead slots, clocks advance, and every tick visits every row and *)
(* every version, however busy it is. Nothing is assumed of operators, of  *)
(* faults, or of a step that only a fault enables.                         *)
Fairness ==
  /\ \A s \in Slots : WF_vars(AttemptStep(s))
  /\ \A l \in Loops : WF_vars(LoopStep(l))
  /\ WF_vars(CallStep) /\ WF_vars(Time)
  /\ WF_vars(\E s \in Slots : Receive(s))
  /\ \A v \in Versions : \A g \in Generations :
       /\ WF_vars(Stalled(v, g) /\ queue[<<v, g>>].holder = NoSlot)
       /\ SF_vars(\E l \in Loops : ClaimRow(l, v, g))
  /\ \A v \in Versions : SF_vars(\E l \in Loops : Scan(l, v))

FairSpec == Spec /\ Fairness

-----------------------------------------------------------------------------
TablesOK ==
  /\ status \in [Versions -> Statuses] /\ token \in [Versions -> Nat]
  /\ lease \in [Versions -> Ages] /\ model \in [Versions -> Models \cup {NoModel}]
  /\ indexed \in [Versions -> Counts \cup {NotIndexed}]
  /\ stage \in [Versions -> Stages] /\ generation \in [Versions -> Generations]
  /\ attempts \in [Versions -> Nat] /\ retryable \in [Versions -> BOOLEAN]
  /\ idle \in [Versions -> BOOLEAN] /\ embedded \in [Versions -> Counts]
  /\ open \in [Versions -> SUBSET Nat] /\ succeeded \in [Versions -> SUBSET Nat]
  /\ chunked \in [Versions -> BOOLEAN]

ArchivedOK == archived \subseteq Versions
VectorsOK == vector \in [Versions -> [Chunks -> Models \cup {NoModel}]]
RowsOK    == outbox \in [Versions \X Generations -> OutboxRow]
JobsOK    == queue \in [Versions \X Generations -> Job]
SlotsOK   == worker \in [Slots -> Worker] /\ env \in [Slots -> Envs]
CallsOK   == calls \subseteq Call
LoopsOK   == loop \in [Loops -> Loop]

TypeOK == TablesOK /\ ArchivedOK /\ VectorsOK /\ RowsOK /\ JobsOK /\ SlotsOK /\ CallsOK /\ LoopsOK

\* The three tables tell one story: the version's status, the ingestion's
\* stage, and the token and lease of the attempt that is running, which is
\* the latest one and the only one that is open (kb.processing, kb.outbox and
\* kb.reconcile write them in separate places).
Agreement == \A v \in Versions :
  /\ status[v] = "UPLOADED"   <=> stage[v] = "QUEUED"
  /\ status[v] = "PROCESSING" <=> stage[v] \in InProgress
  /\ status[v] = "READY"      <=> stage[v] = "READY"
  /\ status[v] = "PROCESSING" <=> token[v] # 0
  /\ status[v] = "PROCESSING" <=> lease[v] # "none"
  /\ status[v] = "PROCESSING" => token[v] = attempts[v] /\ open[v] = {token[v]}
  /\ open[v] \subseteq {attempts[v]}

\* A version waiting in QUEUED always has an outbox row for its generation:
\* neither the cleanup nor a reissue loses the intent to process it.
QueuedHasIntent == \A v \in Versions :
  stage[v] = "QUEUED" => outbox[<<v, generation[v]>>].exists

\* A row is marked dispatched only after its job was handed to the queue,
\* whichever loop marks it (the queue's retention apart).
DispatchedWasQueued == "expire" \notin Faults =>
  \A v \in Versions, g \in Generations :
    outbox[<<v, g>>].dispatched # "no" => queue[<<v, g>>].state # "absent"

\* The loop at a row gives it up, under the claim it took.
GivesUp(l, v, g) == /\ loop[l].pc \in {"ack", "release"} /\ loop'[l] # loop[l]
                    /\ loop[l].v = v /\ loop[l].g = g /\ loop[l].n = outbox[<<v, g>>].attempts

\* A live claim of a row is given up by the loop that holds it, or runs out. A
\* loop whose claim ran out and was taken over, and which comes back from the
\* queue late, neither acknowledges nor releases its successor's claim.
ClaimsKept == [][\A v \in Versions, g \in Generations :
  outbox[<<v, g>>].claim = "live" /\ outbox'[<<v, g>>].claim = "none" => \E l \in Loops : GivesUp(l, v, g)]_vars

\* READY means the whole index: all chunks, and either no vector counted or
\* every chunk with its vector; one attempt is recorded as having succeeded.
IndexComplete == \A v \in Versions :
  /\ status[v] = "READY" <=> succeeded[v] # {}
  /\ status[v] = "READY" =>
       /\ chunked[v] /\ embedded[v] = indexed[v] /\ indexed[v] \in {0, NumChunks}
       /\ indexed[v] = 0 <=> model[v] = NoModel
       /\ indexed[v] # 0 => \A c \in Chunks : vector[v][c] # NoModel

\* Vectors counted in a READY version all come from the model it names.
VectorsMatchModel == \A v \in Versions :
  status[v] = "READY" /\ model[v] # NoModel => \A c \in Chunks : vector[v][c] = model[v]

\* In this step the attempt that holds the live lease of v moves on, or one of
\* its own embedding calls brings back the vector of chunk c.
HolderMoves(v) == lease[v] = "live" /\ \E s \in Slots :
  worker[s].pc \in Trying /\ worker[s].v = v /\ worker[s].token = token[v] /\ worker'[s] # worker[s]
CallReturns(v, c) == lease[v] = "live" /\ \E k \in calls \ calls' :
  k.v = v /\ k.token = token[v] /\ k.chunk = c /\ k.model = vector'[v][c]

ReadyFrozen(v) == status[v] = "READY" =>
  UNCHANGED <<status[v], model[v], indexed[v], stage[v], embedded[v], succeeded[v], open[v]>>

ByHolder(v) ==
  /\ <<chunked[v], model[v], embedded[v], succeeded[v]>>'
       # <<chunked[v], model[v], embedded[v], succeeded[v]>> => HolderMoves(v)
  /\ stage'[v] # stage[v] /\ stage'[v] \notin {"QUEUED", "FETCHING_SOURCE", "FAILED"} => HolderMoves(v)
  /\ \A c \in Chunks : vector'[v][c] # vector[v][c] => CallReturns(v, c)

\* What readers and publication rely on never changes once READY, and what an
\* attempt produces is written by the current attempt alone, under its live
\* lease: a zombie's step and a call that outlives its attempt write nothing,
\* also while a successor holds a live lease of its own (kb.processing's
\* fenced(), kb.vector).
WritesFenced == [][\A v \in Versions : ReadyFrozen(v) /\ ByHolder(v)]_vars

\* The processing of versions is a set of fenced tasks.
Task == INSTANCE FencedTask WITH
  Tasks <- Versions, epoch <- attempts, holder <- token, done <- succeeded
ImplementsFencedTask == Task!Spec

\* An accepted version is processed or reported failed, unless its document
\* is archived: the outbox, the queue's redelivery and the reconciliation
\* leave no version behind (kb.outbox, kb.reconcile).
Settles == \A v \in Versions :
  status[v] = "UPLOADED" ~> status[v] \in {"READY", "FAILED"} \/ v \in archived

\* A running attempt ends or is taken over; no version stays PROCESSING.
AttemptsEnd == \A v \in Versions :
  status[v] = "PROCESSING" ~> status[v] # "PROCESSING" \/ v \in archived

=============================================================================
