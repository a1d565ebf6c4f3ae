-------------------------- MODULE MCIngestionParts --------------------------
(***************************************************************************)
(* Ingestion with everything that may go wrong or be asked, explored in    *)
(* four parts whose product is out of reach: a behaviour has a focus from  *)
(* beginning to end, which says what happens in it and what keeps still.   *)
(***************************************************************************)
EXTENDS MCIngestion

VARIABLE focus

Rows == Versions \X Generations

LoopsRest == \A l \in Loops : loop[l] = Resting

\* Between two jobs, and the steps that work on one.
Between(s) == Receive(s) \/ Decline(s) \/ Claim(s) \/ RecordFailure(s) \/ Acknowledge(s)
Works(s) ==
  \/ FetchSource(s) \/ ExtractText(s) \/ SaveChunks(s) \/ StartEmbedding(s)
  \/ \E c \in Chunks : LookupVector(s, c)
  \/ FinishBatch(s) \/ StartIndexing(s) \/ Commit(s)

\* A loop's tick, seen by the attempts as one step at a time.
Dispatches(l) == Dispatch(l) \/ Send(l) \/ AckRow(l)
Reconciles(l) == (\E v \in Versions : Scan(l, v)) \/ Reissue(l) \/ GiveUp(l) \/ LeaveAlone(l)
Tick == \E l \in Loops : /\ \A other \in Loops \ {l} : loop[other] = Resting
                         /\ Dispatches(l) \/ Reconciles(l)
                         /\ loop'[l].pc # "release"

-----------------------------------------------------------------------------
\* Two slots with stalled jobs, takeovers and failures that go unrecorded.
\* Attempts fail by the fence alone, or as they miss their own commit; the
\* calls of one batch follow one another, those of two attempts overlap.
Attempts ==
  \/ Tick
  \/ LoopsRest /\ \/ \E s \in Slots :
                       \/ Between(s) \/ Works(s) \/ DeferFailure(s)
                       \/ ~Fenced(worker[s].v, worker[s].token) /\ StepFails(s)
                  \/ \E k \in calls : StoreVector(k) \/ (~Fenced(k.v, k.token) /\ MissVector(k))
                  \/ Delivery \/ \E v \in Versions : LeaseLapses(v)
OneCall == \A k, j \in calls' : k.token = j.token => k = j

\* One slot at a time, redeployed with other models; any of its steps fails,
\* a batch's calls settle apart, retries are automatic or asked for.
Deployments ==
  \/ Tick
  \/ LoopsRest /\ \/ \E s \in Slots :
                       \/ Between(s) \/ Works(s) \/ Redeploy(s)
                       \/ ClaimFails(s) \/ StepFails(s) \/ SourceRejected(s)
                  \/ CallStep \/ \E v \in Versions : LeaseLapses(v) \/ Reprocess(v)
OneSlot == Cardinality({s \in Slots : worker'[s] # Idle}) <= 1

\* Attempts as short as they get: they fail before there is anything to embed.
Brief(s) == \/ Between(s) \/ ClaimFails(s) \/ DeferFailure(s)
            \/ worker[s].pc = "fetch" /\ (StepFails(s) \/ SourceRejected(s))

\* Two loops dispatching: claims lapse and are taken over, calls are lost,
\* loops stop, a row is dispatched again until its dispatches are used up.
Dispatching ==
  \/ \E l \in Loops : \/ Dispatches(l) \/ SendFails(l) \/ AckFails(l) \/ ReleaseRow(l)
                      \/ Exhaust(l) \/ LoopStops(l)
  \/ \E s \in Slots : Brief(s)
  \/ \E v \in Versions : LeaseLapses(v)
  \/ \E v \in Versions, g \in Generations : RowAges(v, g)
NoOldRow == \A r \in Rows : outbox'[r].dispatched # "old"

\* Two loops deleting old rows, reissuing and giving up, while operators
\* reprocess and archive.
Cleaning ==
  \/ \E l \in Loops : \/ Dispatches(l) \/ Reconciles(l) \/ LoopStops(l) \/ DeleteExpired(l)
                      \/ \E v \in Versions, g \in Generations : FindExpired(l, v, g)
  \/ \E s \in Slots : Brief(s)
  \/ Operators \/ Time
NoLapsedClaim == \A r \in Rows : outbox'[r].claim # "lapsed"
NoRelease     == \A l \in Loops : loop'[l].pc # "release"

-----------------------------------------------------------------------------
PartsInit == /\ Init /\ focus \in {"attempts", "deployments", "dispatching", "cleaning"}
             /\ focus # "deployments" => \A s \in Slots : env[s].model = m1
PartsNext ==
  /\ UNCHANGED focus
  /\ \/ focus = "attempts"    /\ Attempts    /\ OneCall
     \/ focus = "deployments" /\ Deployments /\ OneSlot
     \/ focus = "dispatching" /\ Dispatching /\ OneSlot /\ NoOldRow
     \/ focus = "cleaning"    /\ Cleaning    /\ OneSlot /\ NoLapsedClaim /\ NoRelease
PartsSpec == PartsInit /\ [][PartsNext]_<<vars, focus>>
=============================================================================
