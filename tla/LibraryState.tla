---------------------------- MODULE LibraryState ----------------------------
(***************************************************************************)
(* The state of an organization's knowledge library: documents, their      *)
(* numbered versions and publication pointer, the private object storage,  *)
(* and the requests that bring bytes into it.                              *)
(*                                                                         *)
(* An upload draws a random version id and a random object key; both are   *)
(* represented by the upload. A legacy version predates object storage: an *)
(* operator's import draws a key for it. An attempt to process a version   *)
(* is reduced to its claim and its outcome (module Ingestion has the rest).*)
(***************************************************************************)
EXTENDS Integers, FiniteSets

CONSTANTS Documents, NoDocument,
          Users,          \* members of the organization
          Uploads,        \* upload requests
          Imports,        \* runs of the operator's import
          Legacy,         \* versions without a stored source
          LegacyDocument, \* their documents, one each
          Sources,        \* contents, told apart by their SHA-256
          LegacySource,   \* the content of each legacy version
          NoSource, NoVersion, NoKey,
          Faults          \* bound: what may go wrong, or be decided, at all

Versions   == Uploads \cup Legacy
Keys       == Uploads \cup Imports
FaultKinds == {"storage", "database", "lost", "doubt", "crash", "provider", "roles", "archive"}

ASSUME LibraryAssumption ==
  /\ Uploads \cap Legacy = {} /\ Uploads \cap Imports = {}
  /\ Users # {} /\ Sources # {} /\ (Imports = {} \/ Legacy # {})
  /\ NoDocument \notin Documents /\ NoSource \notin Sources
  /\ NoVersion \notin Versions /\ NoKey \notin Keys
  /\ LegacyDocument \in [Legacy -> Documents] /\ LegacySource \in [Legacy -> Sources]
  /\ \A v, w \in Legacy : LegacyDocument[v] = LegacyDocument[w] => v = w
  /\ Faults \subseteq FaultKinds

VARIABLES
  made, archived,            \* documents that exist, and those archived
  current, next,             \* currentPublishedVersionId, nextVersionNumber
  document, number, content, \* identity of a version: never updated
  status, failure,           \* its status and why its processing failed
  source,                    \* its KnowledgeSourceObject: the mapped key
  claimed,                   \* the key its running attempt read at the claim
  objects,                   \* keys present in the object storage
  editors,                   \* members who are OWNER or ADMIN
  task                       \* uploads and imports in progress, by key

documentVars == <<made, archived, current, next>>
identityVars == <<document, number, content>>
workVars     == <<status, failure, claimed>>
vars == <<documentVars, identityVars, workVars, source, objects, editors, task>>

Statuses == {"none", "UPLOADED", "PROCESSING", "READY", "FAILED", "PUBLISHED", "SUPERSEDED"}
Failures == {"none", "passing", "missing", "invalid"}  \* the last two: retryable = false
TaskPc   == {"idle", "put", "write", "check", "discard", "revive", "done"}
\* A write that was sent and given up is open; it may take place all the same,
\* and is late when it does so after its request has looked for it.
Doubts   == {"none", "open", "late"}
Task     == [pc : TaskPc, user : Users, doc : Documents \cup {NoDocument},
             content : Sources, version : Versions,
             doubt : Doubts]

AnyUser == CHOOSE u \in Users : TRUE
AnySource == CHOOSE s \in Sources : TRUE
NotStarted(k) == [pc |-> "idle", user |-> AnyUser, doc |-> NoDocument, content |-> AnySource,
                  version |-> IF k \in Uploads THEN k ELSE CHOOSE v \in Legacy : TRUE,
                  doubt |-> "none"]

LegacyDocuments == {LegacyDocument[v] : v \in Legacy}

Init ==
  /\ made = LegacyDocuments /\ archived = {}
  /\ current = [d \in Documents |-> NoVersion]
  /\ next = [d \in Documents |-> IF d \in LegacyDocuments THEN 2 ELSE 1]
  /\ document = [v \in Versions |-> IF v \in Legacy THEN LegacyDocument[v] ELSE NoDocument]
  /\ number = [v \in Versions |-> IF v \in Legacy THEN 1 ELSE 0]
  /\ content = [v \in Versions |-> IF v \in Legacy THEN LegacySource[v] ELSE NoSource]
  /\ status = [v \in Versions |-> IF v \in Legacy THEN "UPLOADED" ELSE "none"]
  /\ failure = [v \in Versions |-> "none"]
  /\ source = [v \in Versions |-> NoKey] /\ claimed = [v \in Versions |-> NoKey]
  /\ objects = {} /\ editors = Users
  /\ task = [k \in Keys |-> NotStarted(k)]

Of(d) == {v \in Versions : document[v] = d}

\* Writes of the organization's library lock its row, then the document's: a
\* write in doubt still holds both.
OrganizationFree == \A k \in Uploads : task[k].doubt # "open"
DocumentFree(d)  == \A k \in Uploads : task[k].doubt = "open" => task[k].doc # d

\* authorizeKnowledge(): current membership, read again under the lock.
AuthorizedOnce(u) == TRUE         \* mutant: the check before the upload will do
Authorized(u)     == u \in editors
=============================================================================
