--------------------------- MODULE IngestionState ---------------------------
(***************************************************************************)
(* The state of knowledge ingestion: the PostgreSQL tables of a version    *)
(* (KnowledgeDocumentVersion, KnowledgeIngestion, its attempts, chunks and *)
(* outbox rows), the BullMQ queue, the job slots and the maintenance loops *)
(* of the worker processes, and the two transactions' parts that several   *)
(* modules share.                                                          *)
(*                                                                         *)
(* A processing token (a UUID, also the id of the attempt's row) is        *)
(* represented by the attempt's number, 0 standing for NULL; the claim     *)
(* token of an outbox row by the number of the dispatch that took it. Time *)
(* is abstract: a lease or a claim is "none", "live" or "lapsed".          *)
(***************************************************************************)
EXTENDS Integers, FiniteSets

CONSTANTS Versions,        \* knowledge versions, one document each
          Slots,           \* job slots of the worker processes
          Loops,           \* maintenance loops, one per worker process
          NoSlot,          \* no job slot
          Models,          \* embedding models
          NoModel,         \* NULL where a model or a vector may stand
          Envs,            \* deployed configurations [model, key]
          NumChunks,       \* chunks the deterministic chunker yields
          BatchSize,       \* INGESTION_EMBEDDING_BATCH
          MaxAttempts,     \* INGESTION_MAX_ATTEMPTS
          DispatchLimit,   \* dispatches of one outbox row (20 in the code)
          RequireSemantic, \* INGESTION_REQUIRE_SEMANTIC
          MaxGeneration,   \* bound: operators stop reprocessing there
          MaxClaims,       \* bound: attempts of a version explored
          Faults           \* bound: what may go wrong, or be asked, at all

Chunks      == 1 .. NumChunks
Generations == 1 .. MaxGeneration
Counts      == 0 .. NumChunks
NotIndexed  == -1
FaultKinds  == {"fail", "reject", "defer", "crash", "stall", "expire",
                "outage", "halt", "cleanup", "archive", "reprocess"}

ASSUME IngestionAssumption ==
  /\ Versions # {}
  /\ NoSlot \notin Slots /\ NoModel \notin Models
  /\ Envs \subseteq [model : Models, key : BOOLEAN]
  /\ NumChunks \in Nat \ {0} /\ BatchSize \in Nat \ {0}
  /\ MaxAttempts \in Nat \ {0} /\ DispatchLimit \in Nat \ {0}
  /\ MaxGeneration \in Nat /\ MaxGeneration >= MaxAttempts /\ MaxClaims \in Nat
  /\ RequireSemantic \in BOOLEAN /\ Faults \subseteq FaultKinds

VARIABLES
  status, token, lease, model, indexed,       \* KnowledgeDocumentVersion
  stage, generation, attempts, retryable, idle, embedded, \* KnowledgeIngestion
  open, succeeded,     \* KnowledgeIngestionAttempt: rows not closed, rows READY
  chunked, vector,     \* KnowledgeChunk: rows created, their embeddings
  archived,            \* versions whose document is archived
  outbox,              \* KnowledgeOutbox, by version and generation
  queue,               \* BullMQ, by version and generation (the job id)
  worker, env,         \* job slots and the configuration each runs with
  calls,               \* embedding calls in flight
  loop                 \* maintenance loops

versionVars   == <<status, token, lease, model, indexed>>
ingestionVars == <<stage, generation, attempts, retryable, idle, embedded>>
attemptVars   == <<open, succeeded>>
chunkVars     == <<chunked, vector>>
processVars   == <<worker, env, calls>>
dbVars == <<versionVars, ingestionVars, attemptVars, chunkVars>>
vars   == <<dbVars, archived, outbox, queue, processVars, loop>>

Statuses   == {"UPLOADED", "PROCESSING", "READY", "FAILED"}
InProgress == {"FETCHING_SOURCE", "EXTRACTING", "CHUNKING", "EMBEDDING", "INDEXING"}
Stages     == {"QUEUED", "READY", "FAILED"} \cup InProgress
Ages       == {"none", "live", "lapsed"}

\* pc values inside the try block: a failure there is recorded by the catch.
Trying  == {"fetch", "extract", "chunk", "embed", "saving", "index", "commit"}
Steps   == {"idle", "claim", "failing", "ack"} \cup Trying
Turns   == {"idle", "send", "ack", "release", "exhaust", "reconcile", "cleanup"}

OutboxRow == [exists : BOOLEAN, attempts : 0 .. DispatchLimit, claim : Ages,
              available : BOOLEAN, dispatched : {"no", "recent", "old"}]
Job       == [state : {"absent", "waiting", "active", "ended"},
              tries : 0 .. MaxAttempts, stalls : 0 .. 1, holder : Slots \cup {NoSlot}]
Worker    == [pc : Steps, v : Versions, g : Generations, token : Nat,
              base : Models \cup {NoModel},       \* embeddingModel read at claim
              offset : Nat, saved : SUBSET Chunks, missed : SUBSET Chunks,
              again : BOOLEAN]                    \* failure worth a queue retry
Call      == [slot : Slots, v : Versions, token : Nat, chunk : Chunks, model : Models]
Loop      == [pc : Turns, v : Versions, g : Generations, n : 0 .. DispatchLimit]

NoRow    == [exists |-> FALSE, attempts |-> 0, claim |-> "none",
             available |-> FALSE, dispatched |-> "no"]
FreshRow == [NoRow EXCEPT !.exists = TRUE, !.available = TRUE]
AnyVersion == CHOOSE v \in Versions : TRUE
Idle     == [pc |-> "idle", v |-> AnyVersion, g |-> 1, token |-> 0, base |-> NoModel,
             offset |-> 0, saved |-> {}, missed |-> {}, again |-> FALSE]
Resting  == [pc |-> "idle", v |-> AnyVersion, g |-> 1, n |-> 0]
NoJob    == [state |-> "absent", tries |-> 0, stalls |-> 0, holder |-> NoSlot]
EndedJob == [NoJob EXCEPT !.state = "ended"]

\* Every version has just been committed by createVersionRecord.
Init ==
  /\ status = [v \in Versions |-> "UPLOADED"] /\ token = [v \in Versions |-> 0]
  /\ lease = [v \in Versions |-> "none"] /\ model = [v \in Versions |-> NoModel]
  /\ indexed = [v \in Versions |-> NotIndexed]
  /\ stage = [v \in Versions |-> "QUEUED"] /\ generation = [v \in Versions |-> 1]
  /\ attempts = [v \in Versions |-> 0] /\ retryable = [v \in Versions |-> TRUE]
  /\ idle = [v \in Versions |-> FALSE] /\ embedded = [v \in Versions |-> 0]
  /\ open = [v \in Versions |-> {}] /\ succeeded = [v \in Versions |-> {}]
  /\ chunked = [v \in Versions |-> FALSE]
  /\ vector = [v \in Versions |-> [c \in Chunks |-> NoModel]]
  /\ archived = {}
  /\ outbox = [vg \in Versions \X Generations |-> IF vg[2] = 1 THEN FreshRow ELSE NoRow]
  /\ queue = [vg \in Versions \X Generations |-> NoJob]
  /\ env \in [Slots -> Envs]
  /\ worker = [s \in Slots |-> Idle] /\ calls = {}
  /\ loop = [l \in Loops |-> Resting]

\* processingToken and leaseUntil are cleared together.
FreeTokenOnly(v) ==               \* mutant: leaseUntil is not cleared
  token' = [token EXCEPT ![v] = 0] /\ UNCHANGED lease
FreeLease(v) ==
  token' = [token EXCEPT ![v] = 0] /\ lease' = [lease EXCEPT ![v] = "none"]

\* requestProcessing(): a new generation with an outbox row of its own.
RequestProcessing(v) == LET g == generation[v] + 1 IN
  /\ generation' = [generation EXCEPT ![v] = g]
  /\ stage' = [stage EXCEPT ![v] = "QUEUED"]
  /\ retryable' = [retryable EXCEPT ![v] = TRUE]
  /\ idle' = [idle EXCEPT ![v] = FALSE]
  /\ status' = [status EXCEPT ![v] = "UPLOADED"]
  /\ FreeLease(v)
  /\ outbox' = [outbox EXCEPT ![<<v, g>>] = FreshRow]
  /\ UNCHANGED <<model, indexed, attempts, embedded, succeeded, chunkVars>>
=============================================================================
