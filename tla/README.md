# SupportIQ in TLA+

SupportIQ is a support desk: an Express API and a worker process over
PostgreSQL (Prisma), Redis (BullMQ) and an object store, with a React client.
This directory holds TLA+ models of its server and of one tab of its client,
the TLC configurations that check them on small instances, and theorems proved
with TLAPS. Paths below are relative to `apps/api/src/modules/` unless they
start at the root.

## 1. Inventory

| Component | State | Operations | Interacts with | What makes it correct |
|---|---|---|---|---|
| Ingestion attempts (`knowledge-base/kb.processing`, `kb.vector`) | version status, processing token and lease; ingestion stage, attempts; attempt rows; chunks and vectors | claim, fenced steps, embedding batches, READY, recorded failure | queue (runs it), outbox and reconcile (take it over), provider, storage | one holder at a time; nothing written without the lease; READY means a whole index |
| Job queue and worker process (`kb.queue`, `worker.ts`) | BullMQ jobs by identity, job slots | add, take, retry, stall redelivery, retention | attempts | at-least-once delivery is harmless |
| Outbox, reconciliation, cleanup (`kb.outbox`, `kb.reconcile`, `kb.service`) | outbox rows with claims; the loop's own turn | claim a row, send, acknowledge, release, exhaust, reissue, give up, clean up; explicit retry | queue, ingestion tables | intent to process is never lost; every version settles |
| Library (`kb.version.service`, `kb.source-import`, `common/storage`) | documents, versions and their numbers, publication pointer, source objects | upload, duplicate, compensation, publish, archive, import a legacy source | organization roles, ingestion (READY) | one current publication, numbers only grow, every mapped object exists |
| Retrieval (`kb.hybrid`, `kb.lexical`, `kb.retrieval`, `kb.scope`, `kb.provenance`) | none of its own | ranked search over current publications | library, copilot | the best candidates are kept; an outage is no missing knowledge |
| Sessions (`auth`, `common/middleware/auth`) | refresh sessions and single-use tokens; the browser's cookie | login, refresh with rotation, reuse detection, logout | client tabs sharing one cookie | a consumed token never yields another; a revoked family stays revoked |
| Organizations (`organizations`) | members and roles | create, rename, add, change role, remove | tickets, issues (assignments are cleared), every authorization | the owner is protected; who is no longer staff holds nothing |
| Tickets, messages, notes (`tickets`, `messages`, `notes`) | status, assignee, first response, thread | create, transition, assign, post | organizations, realtime | compare-and-set transitions; only eligible assignees |
| Realtime (`realtime`) | sockets, rooms | join, leave, emit, expire | organizations, sessions, tickets | a delivery is to somebody who may read the ticket |
| Copilot (`ai`) | runs, one evaluation per run, provenance | generate, decide (send, edit, reject) | tickets, retrieval, issues | one decision per run, made on the context it was generated for |
| Knowledge issues and quality (`knowledge-issues`) | issues, signals, history, revision | derive signals, review, fix, dismiss | copilot, library, lab | a run is filed under what its record says; dashboards and issues agree |
| Reliability lab (`reliability`) | suites, experiments, results | freeze, run, cancel, verify | library, issues | one RUNNING experiment per organization; results frozen; VERIFIED is true of now |
| Activity, dashboard, health | audit rows; read models | list, aggregate | all | read-only |
| HTTP shell (`app`, `server`, `common`, `config`) | none | routing, validation, shutdown, configuration | all | - |
| Web client (`apps/client`) | Redux session, RTK Query cache, socket | pages, mutations, refetching, polling, sign-in and sign-out | API, sessions, realtime | a page shows what its tab changed; nobody sees another user's answers |
| Schema, migrations, seed, tooling, tests | - | - | - | constraints the modules rely on |

Hard behaviours: several worker processes and several slots in each run the same
handlers; a job can be delivered twice while the first delivery still runs;
provider calls are awaited outside transactions and land late; acknowledgements
of commits and of queue operations can be lost; processes die between any two
transactions; two tabs refresh one cookie; authorization is looked up, awaited
on, and used afterwards; commands act on rows they read before the lock; a cache
is invalidated while other requests are pending. `PROJECT.json` lists each such
hazard with its line and the properties that are about it.

## 2. Modules

| Part | Modules, composed left to right | Abstract specification | Proofs |
|---|---|---|---|
| Ingestion | `IngestionState`, `Processing`, `Maintenance`, `Ingestion` | `FencedTask` | `IngestionTypes`, `IngestionProofs` |
| Library | `LibraryState`, `Sourcing`, `Library` | `Shelf` | `LibraryProofs` |
| Sessions | `Sessions` | `TokenChain` | `SessionsProofs` |
| Desk | `DeskState`, `Membership`, `Ticketing`, `Conversation`, `Desk` | - | `DeskProofs` |
| Copilot | `Evidence` (operators without state), `Copilot` | - | `CopilotProofs` |
| Lab | `Lab` | `Trials` | `LabProofs` |
| Client | `ClientTables` (what endpoints and pages are), `Client` | - | `ClientProofs` |

`MC...` modules and their configurations give the small instances. Parts that
share a table keep their own view of it: `Library` sees roles as editor or not,
`Ingestion` sees READY, PUBLISHED and SUPERSEDED as READY, `Lab` sees the
library as what publication and archiving make of it, and `Copilot` sees the
members as staff or not. That READY means a complete index, which
`publishKnowledgeVersion` checks again at lines 101-105, is `IndexComplete` of
`Ingestion`; that a document has one current publication, which `Lab` builds on,
is `OnePublication` of `Library`; that the assignee of an issue is staff is
`HoldersAreStaff` of `Desk`.

## 3. Ingestion

`IngestionState` holds the tables of a version, the queue, the job slots and the
maintenance loops. An attempt's token (a UUID) is the attempt's number, an
outbox claim the number of the dispatch; leases, claims and back-offs are
"none", "live" or "lapsed", and `LeaseLapses`, `TurnsIdle` and `RowAges` let time
pass whenever it can.

`Processing` is `processKnowledgeDocument` inside a BullMQ job. Each database
transaction is one action, and between two of them anything may happen:

| Code | Actions |
|---|---|
| delivery of a job, retries, back-off (`kb.queue`) | `Take`, `Acknowledge`, `Stalled`, `JobExpires` |
| claim | `Claim`, `Decline`, `ClaimFails` |
| fetch, extract, chunks | `FetchSource`, `ExtractText`, `SaveChunks` |
| embedding: a batch of provider calls, each landing alone | `StartEmbedding`, `LookupVector`, `StoreVector`, `MissVector`, `FinishBatch` |
| READY | `StartIndexing`, `Commit` |
| errors and the catch block | `StepFails`, `SourceRejected`, `RecordFailure`, `DeferFailure` |
| process death, redeployment with another model or key | `Crash`, `Redeploy` |

`Maintenance` is one turn of the worker's tick: dispatch of outbox rows
(`ClaimRow` to `Exhaust`), reconciliation (`Scan`, then under the lock `Reissue`,
`GiveUp` or `LeaveAlone`), and the two statements of the cleanup (`FindExpired`,
`DeleteExpired`). `Ingestion` composes both with the operators' retry and archive.

| Run | Instance | Question |
|---|---|---|
| `ingestion` | 1 version, 2 slots, 2 loops, 2 models with a key, 2 chunks in a batch, 2 claims, 2 generations, 2 dispatches; in four parts, below | Can a zombie attempt, a redelivered job or a late embedding write anything, an index be partial or mix models, intent, jobs or claims get lost? `TypeOK`, `Agreement`, `IndexComplete`, `VectorsMatchModel`, `WritesFenced`, `ImplementsFencedTask`, `QueuedHasIntent`, `DispatchedWasQueued`, `ClaimsKept` hold |
| `ingestion_recovery` | 1 slot, 1 loop, no key; crashes, queue that forgets; fairness | Does every accepted version end processed or failed? `Settles`, `AttemptsEnd` hold |
| `ingestion_mixed_vectors` | 2 chunks, keys withdrawn and given back | `VectorsMatchModel` is violated: an attempt without a key resets the model and keeps the vectors |
| `ingestion_wedge` | a loop that halts at the last dispatch | `Settles` is violated: the row is never due again and the explicit retry does nothing |

The product of everything that may happen is out of TLC's reach, so a behaviour
of the run `ingestion` has a `focus` (`MCIngestionParts`) and keeps the rest still:

- "attempts": two slots, jobs that stall and are delivered again, failures that go
  unrecorded, leases that lapse at any step. A superseded attempt works on beside
  its successor, who holds a live lease, and their calls overlap; the calls of one
  batch follow one another.
- "deployments": one slot at a time, redeployed with the other model between
  attempts; any step may fail, the calls of a batch settle in any order, each with
  or without its vector, and outlive their attempt, so a retry meets an index of
  which some chunks have vectors.
- "dispatching": two loops at one row, which may be dispatched twice; claims lapse
  and are taken over while the loop that held them is still at the queue, calls to
  the queue fail or lose their answer, loops stop, dispatches are used up.
- "cleaning": two loops delete old rows, reissue and give up, while operators
  retry and archive between the cleanup's look and its delete.

In the first two a loop's tick is not interleaved with an attempt's steps, in the
last two attempts end before they embed. The proofs know no focus.

`ingestion` and `ingestion_recovery` leave out exactly the fault of one finding
each (a key that is withdrawn, a halt between claim and exhaustion), which would
hide every other question behind it. `RecoverySpec` is `FairSpec` without the
actions that are disabled in its instance. The model also shows that
`GiveUp` leaves the attempt row of the process that died unfinished
(`kb.reconcile.ts:47` fails the version and the ingestion only): no document
says otherwise, so it is noted here and not a finding.

Bounds. `Faults` names what may go wrong in a run; `MaxClaims` stops claims,
`MaxGeneration` the operator's retries (the reconciliation is bounded by the
code's own budget, `MaxAttempts`), `DispatchLimit` stands for the 20 dispatches
of a row. Two slots and two claims are the smallest instance in which an attempt
meets its successor; two chunks in a batch the smallest in which one call of a
batch lands and another does not; two loops and two dispatches the smallest in
which an outbox claim is taken over from a loop that comes back late; two chunks
and three attempts the smallest in which vectors of one model survive a keyless
attempt. Versions share only the loops, which visit them one at a time, so one
version is enough for every per-version property.

Fairness (`FairSpec`). A running process keeps running (weak fairness of
`AttemptStep`, `LoopStep`, `CallStep`), the queue delivers a job to a free slot
and notices a dead one (`Receive`, `Stalled` of a job without holder), time
passes. `ClaimRow` and `Scan` have strong fairness because every tick visits
every due row and every page of versions (`worker.ts:9-30`): a row cannot be
overlooked for ever although it is due only now and then. Nothing is assumed of
faults, operators, or of errors: a step that only a fault enables may never come.

Proofs. All hold for any number of versions, slots, loops, chunks and any
budgets, from `IngestionAssumption` alone.

- `TypeCorrect` (`IngestionTypes`): `TypeOK`, by conjunct and component.
- `WritesAreFenced` (`IngestionProofs`): what an attempt produces (chunks, the model
  recorded, the counts, the end) is written in steps of the attempt whose token the
  version has, under its live lease, and a vector by a call of that attempt. That
  the lease is live is not enough: it may be a successor's. By cases over the
  actions: all that is not a holder's step leaves these columns alone (`Untouched`).
- `AgreementHolds`, `IndexIsComplete`, `Refinement`. `Agreement` is inductive with
  the types: whoever writes the status writes the stage, the token and the attempt
  row under the same lock. It is needed because a fence compares tokens: only with
  `token = attempts` can no earlier attempt hold the current token. Completeness
  adds what the commit relies on (`DoneWhenReady`: a succeeded attempt exists
  exactly for READY; `KeylessSavesNothing`: an attempt without key counts no
  vector). The refinement maps attempts to epochs, the token to the holder and
  READY attempts to the finished epochs.
- `TokenInvariant`, `VectorsAreOfOneModel`. The tokens first:
  two slots inside an attempt of one version never hold the same token, whatever
  lapsed, and a call under way belongs to an attempt past its chunks and carries
  the model its slot runs with. Then, if every deployment has a key (`KeysKept`), `VectorInv`
  is inductive: every vector is of the model recorded for its version, an attempt
  that holds the version and has not saved its chunks knows which model that is,
  one that has saved them recorded its own, and so did the attempt of every call
  that can still store. With one model in all deployments (`OneModel`) no other is
  ever recorded, key or not. The theorem assumes one or the other: without both,
  `ingestion_mixed_vectors` is the counterexample, so this is what deployments
  have to keep to.
- `IntentIsKept`, `DispatchIsReal`, `ClaimsAreKept`. The cleanup deletes what it
  read one statement earlier; `PastRows` (a dispatched row of a settled version
  is of a generation that is over before the version is queued again) and
  `HarmlessCleanup` carry that over the gap. `JobSent` says what a loop knows
  between sending and acknowledging. `ClaimsOpen` (only a row that was not
  dispatched is claimed) says that the cleanup never ends a claim; a loop compares
  the row's dispatch with its own, so a late one ends none but its own.

Only model-checked: liveness.

Left out: activity rows, error texts, versions that predate the ingestion table;
the heartbeat timer is folded into the steps that fail when it lost the lease
(`StepFails`), `chunksTotal` follows from `chunked`.

## 4. Library

`LibraryState` holds documents, the identity of versions (never updated: database
triggers guard it), statuses, the mapping of a version to an object key, the
object storage and the requests in progress. `Sourcing` has the two procedures
that bring bytes in; `Library` adds processing reduced to claim and outcome,
publication, archive and roles.

| Code | Actions |
|---|---|
| `createVersionRecord`: check, put | `Upload`, `Put`, `PutFails` |
| its transaction: recorded, duplicate, failed, outcome open | `Store`, `Duplicate`, `WriteFails`, `WriteInDoubt` then `CommitLate` or `AbortLate` |
| its compensation | `Check`, `Discard`, `GivesUp` |
| `importLegacySource` | `Import`, `Put`, `MapSource`, `Revive`, and the same compensation |
| `publishKnowledgeVersion`, naming the version it expects to replace | `Publish` |
| `archiveKnowledgeDocument`, role changes | `Archive`, `ChangeRole` |
| an attempt at processing | `Claim`, `Prepare`, `MissSource`, `FailAttempt` |

Every write of the library holds the organization's lock, so a write in doubt
keeps others out (`OrganizationFree`) until it is decided. `Users` are members
other than the protected owner. With all `Documents` used up an upload for a new
one fails as if the database had.

| Run | Instance | Question |
|---|---|---|
| `library` | 1 user, 2 uploads, 1 import, 1 legacy version, 2 documents, 2 contents; in two parts | What can be left behind between storage and database, what do readers see? `SourceKept`, `DistinctContents`, `EditorsWrite`, `OnePublication`, `ImplementsShelf` hold |
| `library_late_commit` | 1 upload whose commit is left undecided | `MappedIsStored` is violated: the compensation looks, the commit takes place, the object of a mapped version is deleted |

A behaviour of `library` has a focus (`MCLibrary`): "sourcing" has all that may
befall requests (storage, database, lost and open acknowledgements, crashes,
roles), "publication" requests that end well or as duplicates, preparation that
fails, publishing, archiving and roles.

Two uploads and a legacy version give a document three versions, enough for a
publication to be superseded and for an older one to be tried afterwards; two
contents are enough for a duplicate and its opposite. The version a publisher
expects to replace is any input; a view that is stale is refused, so no state is
kept for it. One user is enough: rights are compared with the user's own earlier
ones. Safety only, so no fairness is stated.

If a commit is still undecided when the compensation looks for its version
(`kb.version.service.ts:81`), the look-up finds nothing and deletes the object of
a version that appears afterwards. `docs/ingestion-operations.md:23` denies that,
so it is a finding: `MappedIsStored` is the document's sentence. `SourceKept` says
what the code does achieve: no source is deleted that was mapped when looked for, nor
one another request mapped; only the commit that follows the look (`Landed`) loses one.
An observation: an attempt that claimed a legacy version before its source was
restored can fail it after `importLegacySource` found nothing to revive
(`kb.source-import.ts:25`).

Proofs. From `LibraryAssumption`, for any number of everything.

- `LibraryTypes`, `PublicationIsOne`, `ContentsAreDistinct`, `EditorsOnly`,
  `LibraryIsAShelf` (`LibraryProofs`). The inductive invariant is `Shelved`:
  numbers lie below the document's next one (`Identified`), two versions of a
  document differ in number (`Numbered`), pointer and statuses agree both ways
  (`Pointed`, `Published`), and a request that has not written, or does not know
  whether it has, has no version (`Fresh`), which is why a late commit never
  overwrites one; `Doubting` says where such a request can be. `Steps` sorts all
  steps into those that record a version, publish, archive, or leave all that
  alone; each theorem then has three short cases. The types are proved only: no
  run checks them.
- `SourcesAreKept`: the key of a request that has not written,
  or may delete, is mapped by nothing, and a request about to map has stored
  (`KeyHeld`). Without `Landed` the statement would be false.

## 5. Sessions

A session and its tokens form a family; the i-th token of family f is `<<f, i>>`.
The server's decisions are one transaction each under the family's row lock;
what is read before it (the family of a token) never changes. The browser has one
cookie for all tabs, and each tab sends its requests by itself; `adrift` holds
requests whose answer nobody waits for any more and that the server still gets to.

| Code | Actions |
|---|---|
| `loginUser`, `registerUser` | `SignIn`, `Login` |
| `refreshAccessToken`: exchange, or denial with revocation for reuse | `Refresh` (`Replace`, `Denies`) |
| `logoutUser` | `SignOut`, `Logout` (`Revoke`) |
| the seven days of a session and its cookie | `Expire` |
| `AuthInitializer` of a page that is loaded | `Load` |
| answers, failures, pages left before them | `Receive`, `Refused`, `GiveUp`, `ServeAdrift` |

Run `sessions`: two tabs, one request adrift, all faults, and one of two focuses
(`MCSessions`): "rotations" has one session with up to four tokens, "signins" two
sessions one after the other with two tokens each. `OneLiveToken`,
`ReuseHasACause`, `LogoutEnds` and the refinement of `TokenChain` hold. Two tabs are
the smallest instance in which two refreshes race; four tokens let three exchanges
commit, so a second exchange of a token, one of its replacement, and a late one of
either are all enabled when they must not succeed; two sign-ins are the smallest
in which an answer of the first session reaches a browser that is in the second.
One request adrift is enough to overtake and to be overtaken.

`docs/adr/005-refresh-sessions.md:19` asks that concurrent refresh be coordinated
by the client, and `docs/repository-reconciliation.md:299` admits that lost
answers and simultaneous tabs may require another login. So `ReuseHasACause` says
which histories may end a session for reuse: a token sent while its exchange was
under way, or a lost answer (`unlucky`). Safety only: nothing makes a user act.

Proofs (`SessionsProofs`), from `SessionsAssumption`, for any number of tabs,
sign-ins and tokens. `SessionsTyped` has the types, with `Form`: every token
anywhere was given out by its family. `OneTokenIsLive` and `LogoutIsFinal` are
inductive with it. `ReuseIsCaused` needs more: `Placed` says where the tokens of
a family are to which nothing happened. No refresh of it is adrift, at most one
tab is refreshing, the token it sent is unexchanged until the answer, and the
cookie holds an exchanged token only while the answer that replaces it is on its
way. `SessionsAreChains` is the refinement, step by step. The strengthening was
checked with TLC before it was proved.

## 6. Desk

`DeskState` holds the rows: roles, tickets, threads, the assignees of issues, and
the ticket commands between their read and their transaction. `Membership`,
`Ticketing` and `Conversation` act on it; `Desk` composes them.

| Code | Actions |
|---|---|
| `addOrganizationMember`, `updateOrganizationMemberRole`, `removeOrganizationMember` with `unassignActiveTickets`, `clearIssueAssignments` | `AddMember`, `ChangeRole`, `RemoveMember` (`Release`) |
| the assignment part of `updateIssue` | `AssignIssue` |
| `createTicket` | `CreateTicket` |
| `updateTicketStatus`, `assignTicket`: read; then compare-and-set or refusal | `ReadTicket`; `UpdateStatus`, `Assign`, `Refuse` |
| `persistTicketMessage`, notes | `Post`, `AddNote` |
| the announcement after the commit: candidates, look-up of each, emit | `Announce`, `LookUpDelivery`, `Deliver`, `DeliveryFails` |
| sockets: connection, join and its look-up, leave, expiry, restart | `Connect`, `Join`, `LookUpJoin`, `FinishJoin`, `Leave`, `Disconnect`, `Restart` |

Two updates of a ticket are taken to have different `updatedAt` (it has
millisecond resolution); that is the one assumption about the database's clock,
and two commands that read and write within the same millisecond are outside the
model. A time is the number of the update it was set by.

A socket may have several joins under way: `useTicketRealtime` sends leave and join
on every run of its effect and the server handles each by itself, so `Joins` names
joins and each has its own look-up, snapshot of the socket and acknowledgement.

Run `desk`. `MCDesk` has a variable `focus`, and a behaviour keeps to it:

- "commands": two commands against members who are added, promoted, demoted and
  removed, over `MaxCommands` = 4 updates of a ticket.
- "resolutions": two commands over all six updates of `MaxWrites`: created, resolved,
  closed, reopened and resolved again, with a command that read the ticket at any
  point before and writes late.
- "issues": assignments of an issue while roles change.
- "delivery": two joins of a socket under way, leaves, reconnections, messages and
  changes of members, with at most `MaxPresent` people about.

The product is out of TLC's reach and is what the proofs are for, which know no
focus. There are the owner and two members, and two entries in the thread.
`HoldersAreStaff`, `ResolutionKept`, `FirstResponseIsFirst`, `DeliveredToReaders`,
`LeaveIsFinal` hold.

What they do not say: a room may hold a socket whose access was withdrawn, until
the next delivery or the expiry of its token. And a leave that comes while a join
of the same ticket is being looked up is overtaken by it (`overtaken`).

Proofs (`DeskProofs`), from `DeskAssumption`, for any number of everything.

- `DeskTyped`: the types.
- `OnlyStaffHolds`, `ResolutionsAreKept`. Every write of a ticket moves its
  `updatedAt`, so `Snapshots` is inductive: a command's snapshot is the row, or
  its `updatedAt` is lower. The look-up of the historical assignee by
  `UpdateStatus` is then one of the assignee in the row, and the time of the
  resolution written back is the row's own.
- `ResponsesAreFirst`, with `Blank`: a ticket not yet created has no thread.
- `DeliveriesAreToReaders`: `Announcements` says that a look-up's answer, once
  given, stays true of the message: the socket's user could read it at some time
  since it was posted. `LeavesAreFinal`: `Rooms` says that a socket is in, or on its
  way into, rooms it last asked to join or was joining as it left.

## 7. Copilot and evidence

`Evidence` has what a run is judged on as operators: reciprocal rank fusion and
the selection of rows, the health of a retrieval, the evidence policy, the
knowledge failure read off a run, as the intake of issues derives it and as the
quality SQL does. Scores are the thresholds they reach; SQL comparisons with null
are modelled as neither true nor false. `Copilot` is one ticket with its runs:

| Code | Actions |
|---|---|
| `AiDraftPanel`: generate, send (unchanged or edited), reject | `ClickGenerate`, `ClickSend`, `ClickReject` |
| the same endpoints called by another member | `Elsewhere` |
| `generateAiDraftReply`: the context is read when asking; the run saved after the answer | `ClickGenerate`, `SaveRun` |
| `decide`: transaction; an exact retry of the same actor; refusals 403 and 409 | `Decide`; `Replay`; `Refuse` |
| after the commit: announce, derive the signal, answer | `Finish` |
| a lost answer, a dying process | `LoseAnswer`, `Crash` |
| `reconcileKnowledgeSignals` | `Reconcile` |
| the ticket and its staff around it | `Write`, `ChangeStatus`, `ChangeStaff` |

Run `copilot`: one run, two agents, two messages, two requests under way, all
faults. `OneMessagePerRun`, `SentInContext`, `SignalMatchesRun` and
`PanelTellsTruth` hold. Runs of a ticket share only its conversation, whose other
messages `Write` adds, and the panel shows one, so one run is enough; two requests
are the smallest number in which one overtakes another, and the property of the
context needs one message before and one after. `FusionHolds`, `QualityHolds` and
`OutageHolds` compare the operators of `Evidence` with reference definitions over
all small inputs (lists of up to three rows with every partition into documents and
contents; every combination of a run's fields and of up to all subsets of
sources; every subset of rows of one document); they are evaluated in the initial
state, since they do not depend on the state. `FusionHolds` says what selected
evidence is without saying how it is selected (`FusionIsBest`), and that a row both
searches found comes before a row only one found, wherever they stand
(`AgreementWins`): twice 1/(60 + 20) is more than 1/(60 + 1). Scores are scaled by
the product of their denominators (`Scale`), so integers compare as the fractions do;
over all places up to 20 the sums the code forms in floating point compare alike.

The provider is a choice: an answer or none. Prompting, retries of the provider,
its fallback, token counts and validation of its text only shape the text.

Proofs (`CopilotProofs`), from `CopilotAssumption` and `NothingAssumption`, for any
number of runs, agents, messages and requests. `DecisionsAreKept` is the inductive
invariant, checked with TLC before it was proved. Runs and evaluations are written
once (`Grows`), so what a request knows of its run stays true (`Sound`): one that
has committed knows the evaluation, and only the one that wrote it announces
(`Requests`). What the panel waits for is of the run it shows (`Waits`), and
`Messages` relates thread, evaluations and announcements both ways. From it follow
`SuggestionsAreSentOnce`, `RepliesAreSentInContext` and `PanelIsRight`.
`RunsAreFiledAsRecorded` is inductive with it: deciding a run never changes a reason
it already had (`ReasonStays`), so a signal filed before the decision stays right.

About `Evidence`, from `NullAssumption` (null is no reason and no decision):
`RunsAreReadAlike` shows the SQL and the intake to agree for any versions and any
number of sources, by the cases of `PolicyOutcome` (`SameFailure`) and with the
cited versions as an opaque set (`SameVersions`). `OutagesAreNotFiled` is more general
than `OutageHolds`: any rows, and whatever an agent said of the run; a degraded
search never decides `INSUFFICIENT_KNOWLEDGE` (`OutageIsDegraded`), and no feedback
is classified as it.

`FusionIsRight`, from `EvidenceAssumption` (ids are ordered as numbers are), shows
`FusionIsBest` for any lists, documents, contents and limits, and `AgreementWins` for
lists of up to 61 rows, of which the code's have 20. The operators are recursive
functions, and what such a function computes is found by induction. The induction
theorems of the library cannot be instantiated here, but finite sets are
well-founded under inclusion and that theorem takes no operator: the least set
`1 .. n` that lacks a property (`LeastOf`) gives induction along a range for a
property written as a set (`Along`), and that a recursion along a range defines what
it says (`Recursion`). From them, in order:

- `ScaleIs`: the product is positive and every `60 + i` divides it, so `WeightIs`: a
  weight is that fraction of `Scale`, without a rest, and `TwoOutweighOne`.
- `RankedIs`: `Before` is a strict total order and a finite set can be written down
  in one (`Sorted`: each element stands behind as many as come before it), so the
  CHOOSE of `Ranked` has something to choose.
- `SelectionIs`: after `n` rows, what is kept is in order, is among the first `n`, and
  each of these is left out exactly if better ones kept outdo it. One more row keeps
  that (`SelectsOneMore`), since the rows kept are all better than it, so that
  counting them by position (`Take`) and as a set (`Outdone`) is the same (`TakenIs`).

## 8. Reliability lab

`Lab` is one knowledge issue, the suites and experiments made for it, the API
processes and the library around them. Every transaction holds the organization's
lock and is one action.

| Code | Actions |
|---|---|
| `deriveKnowledgeSignal` adding a run; an accepted reply | `Signal`, `Accept` |
| `updateIssue` | `Update` |
| `createSuite`, `createExperiment`, `cancelExperiment` | `CreateSuite`, `CreateExperiment`, `Cancel` |
| `executeExperiment`: start, acknowledged or not; a case; its result; the end | `Execute`; `RunCase`; `Store`; `FinishExperiment` |
| an error of the execution and the catch block, whose transaction may fail too | `Throw`; `Fail` (`Record`, `Abandon`) |
| a process that dies (its `activeOrganizations` is lost) | `Crash` |
| `verifyIssue` | `Verify` |
| `publishKnowledgeVersion`, `archiveKnowledgeDocument` | `Publish`, `Archive` |

Run `lab`: two processes, two experiments, two runs (one fails, one becomes a
guardrail or a second failure), a document with a candidate and another one, one
suite, purpose POST. `OneRunning`, `EndedIsSound`, `RunningIsAttended`,
`VerifiedReflectsNow` and the refinement of `Trials` (`ImplementsTrials`) hold. Two
experiments and two processes are the smallest instance in which one might run
beside another; the second document is what another publication or archiving
changes of the scope.

`Trials` is what the reviewers of an issue are promised, whoever carries an
experiment out: what it tests and on what terms is settled before it starts, one is
under way at a time, each case is judged once and while it is RUNNING, a COMPLETED
one judged all of them, and the summary is of the results it ended with. The
mapping reads the plan, the phase, the answers and the report off the row of the
experiment and hides the processes, their slots and what they hold in memory, so a
late result, a late failure or the death of a process must be an answer, an end or
no step at all; nothing follows an end.

Abstractions. An update with a stale `expectedRevision` is refused and changes
nothing, so the revision is not kept; updates that only assign are in
`Membership`. All accepted runs are related to the issue, so all are guardrails
(`issueCohort` takes those that share evidence with it). The verdict of a case is
any of three. The suites of no issue and the purposes GENERAL and PRE are in the
module and the proofs, not in the run. The current pointer is the PUBLISHED
version. Limits, deadline and configuration are reasons to `Throw`.

An experiment can stay RUNNING with nobody at it, and not only because a process
died: the start transaction stands outside of the `try`
(`reliability/replay.execution.ts:34-45`), so a commit whose acknowledgement is lost
returns at once, and the failure is recorded by a transaction that may fail itself
(lines 85-86); either way the process lives on and its slot is free. `abandoned`
has these experiments. `docs/repository-reconciliation.md:722` and
`docs/known-limitations.md:6` admit that RUNNING work may be left behind, so this is
no finding; `RunningIsAttended` says that an experiment is either worked on by
exactly one process or abandoned for good, that none resumes it. Safety only: the
organization then waits for a cancellation, which nobody owes.

Proofs (`LabProofs`), from `LabAssumption` and `NothingAssumption`, for any
number of documents, runs, experiments and processes, and any purposes. `Attended`
is inductive with the types: a working process is on an experiment of its own
that has left DRAFT, and the results it read when its execution failed are still
the experiment's. `LabTyped` states both. From it follow `OneExperimentRuns`,
`ExecutionsAttend`, `EndingsAreFinal` (what ended is not written again, which the
refinement says too), `EndingsAreSound` (the summary written by the catch block is of
what was read earlier, which is why the last part of `Attended` is needed) and
`VerificationIsCurrent`.

`ExperimentsAreTrials` is the refinement, one lemma for each action that changes an
experiment (`CreateDrafts`, `ExecuteStarts`, `StoreAnswers`, `CancelEnds`,
`StopEnds`). That a case is judged once needs more than `Attended`, since `Store`
itself does not look for an earlier result: `Blank` (a DRAFT has no results) and
`Fresh` (what an execution has still to judge, and what it is about to store, is of
the suite and has no result) are inductive with it, because no other process works
on the experiment. TLC checked both on the run's instance first.

## 9. Client

`ClientTables` says of every endpoint which facts it shows or changes and by which
tags its cache entry is found, and of every component which endpoints it reads,
sends and polls and which data it needs to be mounted. `Client` is one tab: a cache
with RTK Query's rules, as `apps/client/src/app/api.ts` and the endpoint files configure it.

| Code | Actions |
|---|---|
| routes, tabs, opened rows | `Go`, `GoBack` |
| `LoginPage`, `AppLayout`'s sign-out with `resetApiState` | `SignIn`, `SignOut` |
| hooks of components: mounting fetches, retry, polling | `Render` in every action, `Refetch` |
| mutations: sent, carried out, answered with `invalidatesTags` | `Send`, `Execute`, `Answer` |
| queries: carried out, answered | `Serve`, `Receive` |
| entries without a reader are dropped | `Expire` |
| `MessageThread`'s socket, messages of others | `Announced`, `Elsewhere` |

RTK Query is external; its rules are those the code relies on with the library's
defaults: invalidation is delayed until no request is pending, an invalidated
entry is fetched again where it is shown and removed where it is not, a mounted
component fetches unless there is data, a refetch of what is being fetched is
dropped, entries are kept for a minute, and `resetApiState` forgets entries and
requests but not what the server does.

Run `client`: a behaviour keeps to one `area`, a mutation (or two) with queries
that show what it changes, the screens between which an entry outlives its page,
its users and faults. All areas together have every mutation. All queries at once
are out of reach; the rules of the cache look at an entry's own tags and at
whether anything is pending, so a pair of a mutation and a query meets everything
that can happen to the pair, with another query to be pending meanwhile.
`OwnChangesShown` and `ShownIsOwn` hold. Two changes are enough for an older answer to
be taken for a newer one. One request of a kind is under way at a time. One
ticket, document, issue and experiment stand for all, and the user is managing
staff, so every control is there.

`OwnChangesShown` is about what the tab itself changed (`told`). Announced messages
have a history of their own (`announced`), and run `client_live` shows that they may
be missing: `ThreadIsLive` is violated, because an announcement that comes while the
thread is being fetched is dropped
(`apps/client/src/features/tickets/MessageThread.tsx:29`), and the fetch may have been
answered before the message was written. The page calls itself live
(`MessageThread.tsx:69` and 73), so it is a finding.

What the client leaves to age, as `Aging` lists it: the activity timeline is never
refreshed; the dashboard follows runs and issues only; a changed role is shown in
the member lists and not on what the member held; a publication does not refresh
the source health. The list is neither longer nor shorter than the tags make it
(`AgingIsExact`). `ShownIsOwn` has an exception of its own: the login page is open to
a signed-in user, who may sign in over another one's session without the reset of
the cache (`switched`). No document promises otherwise, so these are observations.
No fairness: the properties say what is shown once nothing is under way.

Proofs (`ClientProofs`), from `ClientAssumption` and `NothingAssumption`, for all
endpoints at once and any screens, users, faults and numbers of changes, so that
the areas of the run are no restriction. The tables enter by one lemma,
`TagsCover`: a query that shows what a mutation changes shares a tag with it,
unless it is left to age. With its converse (`AgingIsUntagged`) it gives
`AgingIsExact`: what is excused is exactly what no tag connects. It is proved
feature by feature: `Reader` and `Writer` say which tags a fact asks for, with the
exceptions by name. A second group of lemmas (`Rendered`, `Ended`) says what a step
can do to the cache whatever is mounted: rendering only asks, and a request that
ends either leaves its tags overdue or settles them all.

- `TypeCorrect`.
- `ShownToOwner`: `SignedOut` (without a user the tab is at the login page, holds no
  data and waits for none) and `Own` (entries and requests are of the user).
- `OwnChangesAreShown`: `Promised` says of every entry that it is as new as what the tab
  was told of its own changes, or being fetched, or found by an overdue tag, and of every answer
  under way that it is as new or found by an overdue tag: an answer from before
  a mutation may still arrive, and is then fetched again. `Settling` says that
  tags are overdue only while a request is under way, or nothing is left for them
  to hit; `InThePast` that nothing is told of before it happened. TLC checked all
  three on the run's instance first.

## 10. What proofs and runs do not reach

Proofs: `Settles` and `AttemptsEnd` are liveness under fairness, which the provers do
not reach, and stay with TLC. Every other property of a run is stated by a theorem.

Not modelled, and why:

- Activity and the dashboard's aggregates, health endpoints: they project rows of
  other components and change nothing.
- The HTTP shell, validation, configuration, start-up and shutdown: they keep no
  state beyond a request; a process that stops is a `Crash` of its component.
- The text of the lexical and vector search, chunking, extraction and hashing: what
  they find or produce is an input or a choice of the models.
- Prompting, provider fallback and usage figures: they shape a text whose content
  no property is about.
- Seed data, migrations, tooling and tests: run once or not part of the system. Keys
  and constraints of the schema are guards of the actions that rely on them.
- Layout, wording, forms, filters and paging of the client.
- A user's registration data, organization names and slugs, ticket
  titles and priorities: single assignments without an interaction.
