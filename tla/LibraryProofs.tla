--------------------------- MODULE LibraryProofs ----------------------------
(***************************************************************************)
(* The library's invariants for any number of documents, uploads, imports  *)
(* and users: types, numbering and publication, distinct contents, rights, *)
(* the sources kept, and the shelf the library implements.                 *)
(***************************************************************************)
EXTENDS Library, TLAPS

-----------------------------------------------------------------------------
(* What a step does to the requests in progress.                           *)

LEMMA Keyed == /\ Uploads \subseteq Keys /\ Imports \subseteq Keys
               /\ Uploads \subseteq Versions /\ Legacy \subseteq Versions
               /\ \A k \in Keys : k # NoKey
               /\ \A v \in Versions : v # NoVersion
               /\ \A d \in Documents : d # NoDocument
               /\ \A v \in Legacy : v \notin Uploads
               /\ \A k \in Imports : k \notin Uploads
  BY LibraryAssumption DEF Keys, Versions

LEMMA TaskUpdates ==
  ASSUME NEW t \in Task
  PROVE  /\ \A pc \in TaskPc : [t EXCEPT !.pc = pc] \in Task
         /\ \A b \in Doubts : [t EXCEPT !.doubt = b] \in Task
         /\ [t EXCEPT !.pc = "check", !.doubt = "open"] \in Task
         /\ \A u \in Users, d \in Documents \cup {NoDocument}, s \in Sources :
              [t EXCEPT !.pc = "put", !.user = u, !.doc = d, !.content = s] \in Task
         /\ \A v \in Versions : [t EXCEPT !.pc = "put", !.version = v] \in Task
  BY DEF Task, TaskPc, Doubts

LEMMA Update == ASSUME NEW D, NEW R, NEW f \in [D -> R], NEW x, NEW r \in R
                PROVE  [f EXCEPT ![x] = r] \in [D -> R]
  OBVIOUS

\* A request moves on: the others, and what it is for, stay as they are.
LEMMA Moved ==
  ASSUME Typed, NEW k \in Keys, NEW pc \in TaskPc, Move(k, pc)
  PROVE  /\ task' \in [Keys -> Task]
         /\ task'[k].pc = pc
         /\ \A j \in Keys : /\ task'[j].user = task[j].user /\ task'[j].doc = task[j].doc
                            /\ task'[j].doubt = task[j].doubt
                            /\ task'[j].version = task[j].version
                            /\ j # k => task'[j] = task[j]
<1>1. task \in [Keys -> Task] /\ task[k] \in Task
  BY DEF Typed
<1>2. task' = [task EXCEPT ![k] = [task[k] EXCEPT !.pc = pc]]
  BY DEF Move
<1>3. [task[k] EXCEPT !.pc = pc] \in Task
  BY <1>1, TaskUpdates
<1>4. task' \in [Keys -> Task]
  BY <1>1, <1>2, <1>3, Update
<1> QED  BY <1>1, <1>2, <1>4 DEF Task

\* A write in doubt is decided: only its request's doubt changes.
LEMMA Decided ==
  ASSUME Typed, NEW k \in Keys, NEW b \in Doubts, task' = [task EXCEPT ![k].doubt = b]
  PROVE  /\ task' \in [Keys -> Task]
         /\ task'[k].doubt = b
         /\ \A j \in Keys : /\ task'[j].pc = task[j].pc /\ task'[j].user = task[j].user
                            /\ task'[j].version = task[j].version
                            /\ j # k => task'[j] = task[j]
<1>1. task \in [Keys -> Task] /\ task[k] \in Task
  BY DEF Typed
<1>2. task' = [task EXCEPT ![k] = [task[k] EXCEPT !.doubt = b]]
  OBVIOUS
<1>3. [task[k] EXCEPT !.doubt = b] \in Task
  BY <1>1, TaskUpdates
<1>4. task' \in [Keys -> Task]
  BY <1>1, <1>2, <1>3, Update
<1> QED  BY <1>1, <1>2, <1>4 DEF Task

-----------------------------------------------------------------------------
(* Types.                                                                  *)

LEMMA TypedInit == Init => Typed
<1> SUFFICES ASSUME Init PROVE Typed
  OBVIOUS
<1>1. \A k \in Keys : NotStarted(k) \in Task
  <2> TAKE k \in Keys
  <2>1. AnyUser \in Users /\ AnySource \in Sources
    BY LibraryAssumption DEF AnyUser, AnySource
  <2>2. (IF k \in Uploads THEN k ELSE CHOOSE v \in Legacy : TRUE) \in Versions
    BY LibraryAssumption DEF Keys, Versions
  <2> QED  BY <2>1, <2>2 DEF NotStarted, Task, TaskPc, Doubts
<1>2. task \in [Keys -> Task]
  BY <1>1 DEF Init
<1>3. LegacyDocuments \subseteq Documents
  BY LibraryAssumption DEF LegacyDocuments
<1> QED
  BY <1>2, <1>3, LibraryAssumption
  DEF Init, Typed, Versions, Statuses, Failures

\* The tables are typed after a step that leaves the requests typed.
LEMMA RecordTyped ==
  ASSUME Typed, NEW k \in Uploads, NEW d \in Documents, Record(k, d)
  PROVE  Typed' \/ task' \notin [Keys -> Task]
<1>1. task[k] \in Task /\ k \in Versions /\ k \in Keys
  BY Keyed DEF Typed
<1>2. task[k].content \in Sources
  BY <1>1 DEF Task
<1> QED
  BY <1>1, <1>2 DEF Typed, Record, Admits, NumberFor, Statuses

LEMMA MapTyped ==
  ASSUME Typed, NEW k \in Keys, Map(k)
  PROVE  Typed' \/ task' \notin [Keys -> Task]
<1>1. task[k].version \in Versions
  BY DEF Typed, Task
<1> QED  BY <1>1 DEF Typed, Map, documentVars, identityVars, workVars

\* The requests move and nothing else changes, except objects.
LEMMA QuietTyped ==
  ASSUME Typed, UNCHANGED <<documentVars, identityVars, workVars, source, editors>>,
         objects' \subseteq Keys, task' \in [Keys -> Task]
  PROVE  Typed'
  BY DEF Typed, documentVars, identityVars, workVars

LEMMA BringTyped == ASSUME Typed, NEW k \in Keys, Bring(k) PROVE Typed'
<1> USE DEF TaskPc, Doubts
<1>0. objects \subseteq Keys
  BY DEF Typed
<1>1. CASE Put(k) \/ PutFails(k) \/ WriteFails(k) \/ Check(k) \/ Discard(k) \/ GivesUp(k)
  <2>1. \E pc \in TaskPc : Move(k, pc)
    BY <1>1 DEF Put, PutFails, WriteFails, Check, Discard, GivesUp
  <2>2. task' \in [Keys -> Task]
    BY <2>1, Moved
  <2> QED
    BY <1>0, <1>1, <2>2, QuietTyped DEF Put, PutFails, WriteFails, Check, Discard, GivesUp
<1>2. CASE WriteInDoubt(k)
  <2>1. [task[k] EXCEPT !.pc = "check", !.doubt = "open"] \in Task
    BY TaskUpdates DEF Typed
  <2>2. task' = [task EXCEPT ![k] = [task[k] EXCEPT !.pc = "check", !.doubt = "open"]]
    BY <1>2 DEF WriteInDoubt
  <2>3. task' \in [Keys -> Task]
    BY <2>1, <2>2, Update DEF Typed
  <2> QED  BY <1>0, <1>2, <2>3, QuietTyped DEF WriteInDoubt
<1>3. CASE CommitLate(k)
  <2>1. task' \in [Keys -> Task]
    BY <1>3, Decided DEF CommitLate, Landed
  <2> QED  BY <1>3, <2>1, RecordTyped, MapTyped DEF CommitLate
<1>4. CASE AbortLate(k)
  <2>1. task' \in [Keys -> Task]
    BY <1>4, Decided DEF AbortLate
  <2> QED  BY <1>0, <1>4, <2>1, QuietTyped DEF AbortLate
<1> QED  BY <1>1, <1>2, <1>3, <1>4 DEF Bring

LEMMA UploadTyped == ASSUME Typed, NEW k \in Uploads, UploadStep(k) PROVE Typed'
<1> USE DEF TaskPc, Doubts
<1>0. k \in Keys /\ task[k] \in Task /\ objects \subseteq Keys
  BY Keyed DEF Typed
<1>1. ASSUME NEW u \in Users, NEW d \in made \cup {NoDocument}, NEW s \in Sources,
             Upload(k, u, d, s)
      PROVE  Typed'
  <2> DEFINE t == [task[k] EXCEPT !.pc = "put", !.user = u, !.doc = d, !.content = s]
  <2>1. t \in Task
    BY <1>0, TaskUpdates DEF Typed
  <2>2. task' = [task EXCEPT ![k] = t]
    BY <1>1 DEF Upload
  <2> HIDE DEF t
  <2>3. task' \in [Keys -> Task]
    BY <2>1, <2>2, Update DEF Typed
  <2> QED  BY <1>0, <1>1, <2>3, QuietTyped DEF Upload
<1>2. ASSUME NEW d \in Documents, Store(k, d) PROVE Typed'
  <2>1. task' \in [Keys -> Task]
    BY <1>0, <1>2, Moved DEF Store
  <2> QED  BY <1>2, <2>1, RecordTyped DEF Store
<1>3. ASSUME NEW d \in Documents, Duplicate(k, d) PROVE Typed'
  <2>1. task' \in [Keys -> Task]
    BY <1>0, <1>3, Moved DEF Duplicate
  <2> QED  BY <1>0, <1>3, <2>1, QuietTyped DEF Duplicate
<1> QED  BY <1>1, <1>2, <1>3 DEF UploadStep

LEMMA ImportTyped == ASSUME Typed, NEW k \in Imports, ImportStep(k) PROVE Typed'
<1> USE DEF TaskPc, Doubts
<1>0. k \in Keys /\ task[k] \in Task /\ objects \subseteq Keys
  BY Keyed DEF Typed
<1>1. ASSUME NEW v \in Legacy, Import(k, v) PROVE Typed'
  <2> DEFINE t == [task[k] EXCEPT !.pc = "put", !.version = v]
  <2>1. t \in Task
    BY <1>0, TaskUpdates, Keyed
  <2>2. task' = [task EXCEPT ![k] = t]
    BY <1>1 DEF Import
  <2> HIDE DEF t
  <2>3. task' \in [Keys -> Task]
    BY <2>1, <2>2, Update DEF Typed
  <2> QED  BY <1>0, <1>1, <2>3, QuietTyped DEF Import
<1>2. CASE MapSource(k)
  <2>1. task' \in [Keys -> Task]
    BY <1>0, <1>2, Moved DEF MapSource
  <2> QED  BY <1>0, <1>2, <2>1, MapTyped DEF MapSource
<1>3. CASE Revive(k)
  <2>1. task' \in [Keys -> Task]
    BY <1>0, <1>3, Moved DEF Revive
  <2> QED
    BY <1>0, <1>3, <2>1 DEF Revive, Typed, documentVars, identityVars, Failures
<1> QED  BY <1>1, <1>2, <1>3 DEF ImportStep

LEMMA WorkTyped == ASSUME Typed, NEW v \in Versions, Work(v) PROVE Typed'
<1>1. CASE Claim(v)
  BY <1>1 DEF Claim, Typed, documentVars, identityVars, Unused, Statuses, Failures
<1>2. ASSUME NEW s \in Statuses, NEW f \in Failures, Outcome(v, s, f) PROVE Typed'
  BY <1>2 DEF Outcome, Typed, documentVars, identityVars, Unused
<1> QED
  BY <1>1, <1>2 DEF Work, Prepare, MissSource, FailAttempt, Statuses, Failures

LEMMA EditTyped == ASSUME Typed, NEW u \in Users, Edit(u) PROVE Typed'
<1>2. ASSUME NEW d \in Documents, Archive(u, d) PROVE Typed'
  BY <1>2 DEF Archive, Typed, identityVars, workVars, Unused
<1>3. ASSUME NEW d \in Documents, NEW v \in Versions, NEW old, Publish(u, d, v, old) PROVE Typed'
  <2>1. Retired(d) \in [Versions -> Statuses]
    BY DEF Retired, Typed, Statuses
  <2>2. status' \in [Versions -> Statuses]
    BY <1>3, <2>1 DEF Publish, Statuses
  <2> QED  BY <1>3, <2>2 DEF Publish, Typed, identityVars, Unused
<1>4. CASE ChangeRole(u)
  BY <1>4 DEF ChangeRole, Typed, documentVars, identityVars, workVars
<1> QED  BY <1>2, <1>3, <1>4 DEF Edit

LEMMA TypedNext == Typed /\ [Next]_vars => Typed'
<1> SUFFICES ASSUME Typed, [Next]_vars PROVE Typed'
  OBVIOUS
<1>1. CASE UNCHANGED vars
  BY <1>1 DEF vars, Typed, documentVars, identityVars, workVars
<1> QED
  BY <1>1, BringTyped, UploadTyped, ImportTyped, WorkTyped, EditTyped DEF Next

-----------------------------------------------------------------------------
(* Numbers and publications: the inductive invariant of the documents.     *)

Unwritten(t) == t.pc \in {"idle", "put", "write"} \/ t.doubt = "open"

\* A version exists in a document below its next number, or not at all.
Identified == \A v \in Versions :
  IF status[v] = "none" THEN document[v] = NoDocument
  ELSE /\ document[v] \in made /\ content[v] \in Sources
       /\ number[v] > 0 /\ number[v] < next[document[v]]

\* An upload that has not written yet, or does not know, has no version.
Fresh == \A k \in Uploads : Unwritten(task[k]) => status[k] = "none"

Numbered == \A v, w \in Versions :
  document[v] = document[w] /\ document[v] # NoDocument /\ number[v] = number[w] => v = w

Pointed == \A d \in Documents : current[d] # NoVersion =>
  document[current[d]] = d /\ status[current[d]] = "PUBLISHED"

Published == \A v \in Versions :
  /\ status[v] = "PUBLISHED" => current[document[v]] = v
  /\ status[v] = "SUPERSEDED" => /\ current[document[v]] # NoVersion
                                 /\ number[v] < number[current[document[v]]]

Shelved == Identified /\ Fresh /\ Numbered /\ Pointed /\ Published

LEMMA ShelvedInit == Init => Shelved
<1> SUFFICES ASSUME Init PROVE Shelved
  OBVIOUS
<1>1. \A v \in Legacy : LegacyDocument[v] \in LegacyDocuments /\ LegacyDocument[v] # NoDocument
                        /\ LegacySource[v] \in Sources /\ LegacyDocument[v] \in Documents
  BY LibraryAssumption DEF LegacyDocuments
<1>2. Identified /\ Fresh
  BY <1>1, LibraryAssumption, Keyed DEF Init, Identified, Fresh, Versions, LegacyDocuments
<1>3. Numbered
  BY <1>1, LibraryAssumption DEF Init, Numbered, Versions
<1> QED  BY <1>2, <1>3 DEF Init, Shelved, Pointed, Published

\* Steps that change neither documents nor statuses, and unwrite no upload.
LEMMA QuietShelved ==
  ASSUME Shelved, UNCHANGED <<made, current, next, identityVars, status>>,
         \A k \in Uploads : Unwritten(task'[k]) => Unwritten(task[k])
  PROVE  Shelved'
  BY DEF Shelved, Identified, Fresh, Numbered, Pointed, Published, identityVars

LEMMA RecordShelved ==
  ASSUME Typed, Shelved, NEW k \in Uploads, NEW d \in Documents, Record(k, d),
         Unwritten(task[k]), ~Unwritten(task'[k]),
         \A j \in Uploads : j # k /\ Unwritten(task'[j]) => Unwritten(task[j])
  PROVE  Shelved'
<1>0. k \in Versions /\ k \in Keys /\ task[k] \in Task /\ task[k].content \in Sources
  BY Keyed DEF Typed, Task
<1>1. status[k] = "none" /\ document[k] = NoDocument /\ d # NoDocument
  BY <1>0, Keyed DEF Shelved, Fresh, Identified
<1>2. \A v \in Versions : v # k => /\ document'[v] = document[v] /\ number'[v] = number[v]
                                   /\ content'[v] = content[v] /\ status'[v] = status[v]
  BY DEF Record, Typed
<1>3. /\ document'[k] = d /\ number'[k] = next[d] /\ status'[k] = "UPLOADED"
      /\ content'[k] = task[k].content
  BY <1>0 DEF Record, Typed, NumberFor
<1>4. /\ next \in [Documents -> Nat \ {0}] /\ next'[d] = next[d] + 1
      /\ \A e \in Documents : e # d => next'[e] = next[e]
  BY DEF Record, Typed
<1>5. current' = current /\ made' = made \cup {d} /\ number \in [Versions -> Nat]
      /\ document \in [Versions -> Documents \cup {NoDocument}]
      /\ current \in [Documents -> Versions \cup {NoVersion}]
  BY DEF Record, Typed
<1>6. Identified'
  <2> SUFFICES ASSUME NEW v \in Versions
               PROVE  IF status'[v] = "none" THEN document'[v] = NoDocument
                      ELSE /\ document'[v] \in made' /\ content'[v] \in Sources
                           /\ number'[v] > 0 /\ number'[v] < next'[document'[v]]
    BY DEF Identified
  <2>1. CASE v = k
    BY <2>1, <1>0, <1>3, <1>4, <1>5
  <2>2. CASE v # k
    <3>1. next[document[v]] <= next'[document[v]] \/ document[v] \notin Documents
      BY <1>4
    <3>2. made \subseteq Documents
      BY DEF Typed
    <3> QED  BY <2>2, <1>2, <1>4, <1>5, <3>1, <3>2 DEF Shelved, Identified
  <2> QED  BY <2>1, <2>2
<1>7. Fresh'
  <2> SUFFICES ASSUME NEW j \in Uploads, Unwritten(task'[j]) PROVE status'[j] = "none"
    BY DEF Fresh
  <2> QED  BY <1>2, Keyed DEF Shelved, Fresh
<1>8. \A v \in Versions : document[v] = d => number[v] < next[d]
  BY <1>1 DEF Shelved, Identified
<1>9. Numbered'
  <2> SUFFICES ASSUME NEW v \in Versions, NEW w \in Versions, document'[v] = document'[w],
                      document'[v] # NoDocument, number'[v] = number'[w]
               PROVE  v = w
    BY DEF Numbered
  <2>1. CASE v # k /\ w # k
    BY <2>1, <1>2 DEF Shelved, Numbered
  <2>2. CASE v = k /\ w # k
    BY <2>2, <1>2, <1>3, <1>4, <1>5, <1>8
  <2>3. CASE v # k /\ w = k
    BY <2>3, <1>2, <1>3, <1>4, <1>5, <1>8
  <2> QED  BY <2>1, <2>2, <2>3
<1>10. \A e \in Documents : current[e] # k
  BY <1>1, Keyed DEF Shelved, Pointed
<1>11. Pointed'
  BY <1>2, <1>5, <1>10 DEF Shelved, Pointed
<1>12. Published'
  <2> SUFFICES ASSUME NEW v \in Versions
               PROVE  /\ status'[v] = "PUBLISHED" => current'[document'[v]] = v
                      /\ status'[v] = "SUPERSEDED" =>
                           /\ current'[document'[v]] # NoVersion
                           /\ number'[v] < number'[current'[document'[v]]]
    BY DEF Published
  <2>1. CASE v = k
    BY <2>1, <1>3
  <2>2. CASE v # k
    <3>1. status[v] # "none" => document[v] \in Documents
      BY DEF Shelved, Identified, Typed
    <3>2. document[v] \in Documents => current[document[v]] # k
      BY <1>10
    <3> QED  BY <2>2, <3>1, <3>2, <1>2, <1>5 DEF Shelved, Published
  <2> QED  BY <2>1, <2>2
<1> QED  BY <1>6, <1>7, <1>9, <1>11, <1>12 DEF Shelved

\* The status of a version that is neither published nor superseded changes.
LEMMA StatusShelved ==
  ASSUME Typed, Shelved, NEW v \in Versions, NEW s \in Statuses,
         status[v] \notin {"none", "PUBLISHED", "SUPERSEDED"},
         s \notin {"none", "PUBLISHED", "SUPERSEDED"},
         status' = [status EXCEPT ![v] = s],
         UNCHANGED <<made, current, next, identityVars, task>>
  PROVE  Shelved'
<1>1. \A w \in Versions : w # v => status'[w] = status[w]
  BY DEF Typed
<1>2. status'[v] = s
  BY DEF Typed
<1>3. Identified' /\ Numbered'
  BY <1>1, <1>2 DEF Shelved, Identified, Numbered, identityVars
<1>4. Fresh'
  BY <1>1, <1>2, Keyed DEF Shelved, Fresh
<1>5. Pointed' /\ Published'
  <2>1. \A d \in Documents : current[d] # v
    BY Keyed DEF Shelved, Pointed
  <2>2. \A d \in Documents : current[d] # NoVersion => current[d] \in Versions
    BY DEF Typed
  <2> QED  BY <1>1, <1>2, <2>1, <2>2 DEF Shelved, Pointed, Published, identityVars
<1> QED  BY <1>3, <1>4, <1>5 DEF Shelved

LEMMA PublishShelved ==
  ASSUME Typed, Shelved, NEW u \in Users, NEW d \in Documents, NEW v \in Versions,
         NEW old, Publish(u, d, v, old)
  PROVE  Shelved'
<1> DEFINE p == current[d]
<1>1. /\ document[v] = d /\ p # v /\ status[v] = "READY" /\ d \in made
      /\ p # NoVersion => number[v] > number[p]
      /\ current' = [current EXCEPT ![d] = v]
      /\ UNCHANGED <<made, next, document, number, content, task>>
  BY DEF Publish, Newer, identityVars, Unused
<1>2. /\ status \in [Versions -> Statuses] /\ p \in Versions \cup {NoVersion}
      /\ number \in [Versions -> Nat] /\ current \in [Documents -> Versions \cup {NoVersion}]
  BY DEF Typed
<1>3. /\ status'[v] = "PUBLISHED"
      /\ p # NoVersion => status'[p] = "SUPERSEDED"
      /\ \A w \in Versions : w # v /\ w # p => status'[w] = status[w]
  BY <1>1, <1>2 DEF Publish, Retired
<1>4. p # NoVersion => p \in Versions /\ document[p] = d /\ status[p] = "PUBLISHED"
  BY <1>2 DEF Shelved, Pointed
<1>5. current'[d] = v /\ \A e \in Documents : e # d => current'[e] = current[e]
  BY <1>1, <1>2
<1> HIDE DEF p
<1>6. Identified' /\ Numbered'
  <2>1. Numbered'
    BY <1>1 DEF Shelved, Numbered
  <2> SUFFICES ASSUME NEW w \in Versions
               PROVE  IF status'[w] = "none" THEN document'[w] = NoDocument
                      ELSE /\ document'[w] \in made' /\ content'[w] \in Sources
                           /\ number'[w] > 0 /\ number'[w] < next'[document'[w]]
    BY <2>1 DEF Identified
  <2>2. status'[w] = "none" <=> status[w] = "none"
    BY <1>1, <1>3, <1>4, Keyed
  <2> QED  BY <1>1, <2>2 DEF Shelved, Identified
<1>7. Fresh'
  BY <1>1, <1>3, <1>4, Keyed DEF Shelved, Fresh
<1>8. Pointed'
  <2> SUFFICES ASSUME NEW e \in Documents, current'[e] # NoVersion
               PROVE  document'[current'[e]] = e /\ status'[current'[e]] = "PUBLISHED"
    BY DEF Pointed
  <2>1. CASE e = d
    BY <2>1, <1>1, <1>3, <1>5
  <2>2. CASE e # d
    <3>1. current'[e] = current[e] /\ document[current[e]] = e /\ status[current[e]] = "PUBLISHED"
          /\ current[e] \in Versions
      BY <2>2, <1>2, <1>5 DEF Shelved, Pointed
    <3> QED  BY <2>2, <3>1, <1>1, <1>3, <1>4
  <2> QED  BY <2>1, <2>2
<1>9. Published'
  <2> SUFFICES ASSUME NEW w \in Versions
               PROVE  /\ status'[w] = "PUBLISHED" => current'[document'[w]] = w
                      /\ status'[w] = "SUPERSEDED" =>
                           /\ current'[document'[w]] # NoVersion
                           /\ number'[w] < number'[current'[document'[w]]]
    BY DEF Published
  <2>1. CASE w = v
    BY <2>1, <1>1, <1>3, <1>5
  <2>2. CASE w = p /\ w # v
    BY <2>2, <1>1, <1>2, <1>3, <1>4, <1>5, Keyed
  <2>3. CASE w # p /\ w # v /\ document[w] = d
    <3>1. status'[w] = status[w] /\ status[w] # "PUBLISHED"
      BY <2>3, <1>3, <1>4 DEF Shelved, Published, p
    <3>2. status[w] = "SUPERSEDED" => p # NoVersion /\ number[w] < number[p]
      BY <2>3 DEF Shelved, Published, p
    <3>3. p # NoVersion => number[p] \in Nat /\ number[p] < number[v]
      BY <1>1, <1>2, <1>4
    <3>4. number[w] \in Nat /\ number[v] \in Nat
      BY <1>2
    <3>5. status[w] = "SUPERSEDED" => number[w] < number[v]
      BY <3>2, <3>3, <3>4
    <3> QED  BY <2>3, <3>1, <3>5, <1>1, <1>5, Keyed
  <2>4. CASE w # p /\ w # v /\ document[w] # d
    <3>1. status'[w] = status[w]
      BY <2>4, <1>3
    <3>2. status[w] # "none" => document[w] \in Documents
      BY DEF Shelved, Identified, Typed
    <3>3. status[w] # "none" => current'[document[w]] = current[document[w]]
      BY <2>4, <3>2, <1>5
    <3> QED  BY <3>1, <3>3, <1>1 DEF Shelved, Published
  <2> QED  BY <2>1, <2>2, <2>3, <2>4
<1> QED  BY <1>6, <1>7, <1>8, <1>9 DEF Shelved

\* A write is in doubt only after its request went on to check it.
Doubting == \A k \in Keys : task[k].doubt # "none" => task[k].pc \in {"check", "discard", "done"}

LEMMA DoubtingInit == Init => Doubting
  BY DEF Init, Doubting, NotStarted

\* A request that moves on keeps to that; requests in doubt move to the end.
LEMMA MovedDoubting ==
  ASSUME Typed, Doubting, NEW k \in Keys, NEW pc \in TaskPc, Move(k, pc),
         task[k].pc \notin {"check", "discard", "done"} \/ pc \in {"check", "discard", "done"}
  PROVE  Doubting'
  BY Moved DEF Doubting

LEMMA DoubtingNext == Typed /\ Doubting /\ [Next]_vars => Doubting'
<1> SUFFICES ASSUME Typed, Doubting, [Next]_vars PROVE Doubting'
  OBVIOUS
<1> USE DEF TaskPc, Doubts
<1>1. ASSUME UNCHANGED task PROVE Doubting'
  BY <1>1 DEF Doubting
<1>2. ASSUME NEW k \in Keys, Bring(k) PROVE Doubting'
  <2>1. CASE Put(k) \/ PutFails(k) \/ WriteFails(k) \/ Check(k) \/ Discard(k) \/ GivesUp(k)
    BY <2>1, MovedDoubting DEF Put, PutFails, WriteFails, Check, Discard, GivesUp
  <2>2. CASE WriteInDoubt(k)
    BY <2>2 DEF WriteInDoubt, Doubting, Typed, Task
  <2>3. CASE CommitLate(k) \/ AbortLate(k)
    BY <2>3, Decided DEF CommitLate, Landed, AbortLate, Doubting, Doubts
  <2> QED  BY <1>2, <2>1, <2>2, <2>3 DEF Bring
<1>3. ASSUME NEW k \in Uploads, UploadStep(k) PROVE Doubting'
  <2>1. ASSUME NEW u \in Users, NEW d \in made \cup {NoDocument}, NEW s \in Sources,
               Upload(k, u, d, s)
        PROVE  Doubting'
    BY <2>1, Keyed DEF Upload, Doubting, Typed, Task
  <2>2. ASSUME NEW d \in Documents, Store(k, d) \/ Duplicate(k, d) PROVE Doubting'
    BY <2>2, MovedDoubting, Keyed DEF Store, Duplicate
  <2> QED  BY <1>3, <2>1, <2>2 DEF UploadStep
<1>4. ASSUME NEW k \in Imports, ImportStep(k) PROVE Doubting'
  <2>1. ASSUME NEW v \in Legacy, Import(k, v) PROVE Doubting'
    BY <2>1, Keyed DEF Import, Doubting, Typed, Task
  <2>2. CASE MapSource(k) \/ Revive(k)
    BY <2>2, MovedDoubting, Keyed DEF MapSource, Revive
  <2> QED  BY <1>4, <2>1, <2>2 DEF ImportStep
<1>5. ASSUME NEW v \in Versions, Work(v) PROVE UNCHANGED task
  BY <1>5 DEF Work, Claim, Prepare, MissSource, FailAttempt, Outcome, Unused
<1>6. ASSUME NEW u \in Users, Edit(u) PROVE UNCHANGED task
  BY <1>6 DEF Edit, Archive, Publish, ChangeRole, Unused
<1> QED  BY <1>1, <1>2, <1>3, <1>4, <1>5, <1>6 DEF Next, vars

LEMMA BringShelved ==
  ASSUME Typed, Shelved, Doubting, NEW k \in Keys, Bring(k)
  PROVE  Shelved'
<1> USE DEF TaskPc, Doubts
<1>1. ASSUME NEW pc \in TaskPc, Move(k, pc),
             pc \in {"idle", "put", "write"} => task[k].pc \in {"idle", "put", "write"},
             UNCHANGED <<made, current, next, identityVars, status>>
      PROVE  Shelved'
  <2>1. \A j \in Uploads : Unwritten(task'[j]) => Unwritten(task[j])
    BY <1>1, Moved, Keyed DEF Unwritten
  <2> QED  BY <1>1, <2>1, QuietShelved
<1>2. CASE Put(k) \/ PutFails(k) \/ WriteFails(k) \/ Check(k) \/ Discard(k) \/ GivesUp(k)
  BY <1>1, <1>2 DEF Put, PutFails, WriteFails, Check, Discard, GivesUp, documentVars, workVars
<1>3. CASE WriteInDoubt(k)
  <2>1. \A j \in Keys : j # k => task'[j] = task[j]
    BY <1>3 DEF WriteInDoubt, Typed
  <2>2. \A j \in Uploads : Unwritten(task'[j]) => Unwritten(task[j])
    BY <1>3, <2>1, Keyed DEF WriteInDoubt, Unwritten
  <2> QED
    BY <1>3, <2>2, QuietShelved DEF WriteInDoubt, documentVars, workVars
<1>4. ASSUME NEW b \in {"none", "late"}, task' = [task EXCEPT ![k].doubt = b], task[k].doubt = "open"
      PROVE  /\ \A j \in Uploads : Unwritten(task'[j]) => Unwritten(task[j])
             /\ \A j \in Uploads : j # k /\ Unwritten(task'[j]) => Unwritten(task[j])
             /\ Unwritten(task[k]) /\ ~Unwritten(task'[k])
  BY <1>4, Decided, Keyed DEF Doubting, Unwritten
<1>5. CASE AbortLate(k)
  BY <1>4, <1>5, QuietShelved DEF AbortLate, documentVars, workVars
<1>6. CASE CommitLate(k) /\ k \notin Uploads
  BY <1>4, <1>6, QuietShelved DEF CommitLate, Landed, Map, documentVars, workVars
<1>7. CASE CommitLate(k) /\ k \in Uploads
  BY <1>4, <1>7, RecordShelved DEF CommitLate, Landed
<1> QED  BY <1>2, <1>3, <1>5, <1>6, <1>7 DEF Bring

LEMMA SourcingShelved ==
  ASSUME Typed, Shelved,
         \/ \E k \in Uploads : UploadStep(k)
         \/ \E k \in Imports : ImportStep(k)
  PROVE  Shelved'
<1> USE DEF TaskPc, Doubts
<1>1. ASSUME NEW k \in Keys, NEW pc \in TaskPc, Move(k, pc),
             pc \notin {"idle", "put", "write"},
             UNCHANGED <<made, current, next, identityVars, status>>
      PROVE  Shelved'
  <2>1. \A j \in Uploads : Unwritten(task'[j]) => Unwritten(task[j])
    BY <1>1, Moved, Keyed DEF Unwritten
  <2> QED  BY <1>1, <2>1, QuietShelved
<1>2. ASSUME NEW k \in Uploads, NEW u \in Users, NEW d \in made \cup {NoDocument},
             NEW s \in Sources, Upload(k, u, d, s)
      PROVE  Shelved'
  <2>1. \A j \in Keys : j # k => task'[j] = task[j]
    BY <1>2 DEF Upload, Typed
  <2>2. \A j \in Uploads : Unwritten(task'[j]) => Unwritten(task[j])
    BY <1>2, <2>1, Keyed DEF Upload, Unwritten
  <2> QED  BY <1>2, <2>2, QuietShelved DEF Upload, documentVars, workVars
<1>3. ASSUME NEW k \in Uploads, NEW d \in Documents, Store(k, d) PROVE Shelved'
  <2>1. PICK pc \in {"done", "check"} : Move(k, pc)
    BY <1>3 DEF Store
  <2>2. CASE task[k].doubt # "open"
    BY <1>3, <2>1, <2>2, Moved, RecordShelved, Keyed DEF Store, Unwritten
  <2>3. CASE task[k].doubt = "open"
    BY <1>3, <2>3 DEF Store, OrganizationFree
  <2> QED  BY <2>2, <2>3
<1>4. ASSUME NEW k \in Uploads, NEW d \in Documents, Duplicate(k, d) PROVE Shelved'
  BY <1>1, <1>4, Keyed DEF Duplicate, documentVars, workVars
<1>5. ASSUME NEW k \in Imports, NEW v \in Legacy, Import(k, v) PROVE Shelved'
  <2>1. \A j \in Keys : j # k => task'[j] = task[j]
    BY <1>5 DEF Import, Typed
  <2>2. \A j \in Uploads : task'[j] = task[j]
    BY <2>1, Keyed
  <2> QED  BY <1>5, <2>2, QuietShelved DEF Import, documentVars, workVars
<1>6. ASSUME NEW k \in Imports, MapSource(k) \/ Revive(k) PROVE Shelved'
  BY <1>1, <1>6, Keyed DEF MapSource, Map, Revive, documentVars, workVars
<1> QED  BY <1>2, <1>3, <1>4, <1>5, <1>6 DEF UploadStep, ImportStep

LEMMA ShelvedNext == Typed /\ Shelved /\ Doubting /\ [Next]_vars => Shelved'
<1> SUFFICES ASSUME Typed, Shelved, Doubting, [Next]_vars PROVE Shelved'
  OBVIOUS
<1>1. ASSUME UNCHANGED <<made, current, next, identityVars, status, task>> PROVE Shelved'
  BY <1>1, QuietShelved
<1>2. CASE UNCHANGED vars
  BY <1>1, <1>2 DEF vars, documentVars, workVars
<1>3. ASSUME NEW v \in Versions, Work(v) PROVE Shelved'
  <2>1. ASSUME NEW s \in {"READY", "FAILED"}, NEW f \in Failures, Outcome(v, s, f)
        PROVE  Shelved'
    BY <2>1, StatusShelved DEF Outcome, Statuses, documentVars, Unused
  <2>2. CASE Claim(v)
    BY <2>2, StatusShelved DEF Claim, Statuses, documentVars, Unused
  <2> QED  BY <1>3, <2>1, <2>2 DEF Work, Prepare, MissSource, FailAttempt, Failures
<1>4. ASSUME NEW u \in Users, Edit(u) PROVE Shelved'
  <2>1. CASE \E d \in Documents, v \in Versions, e \in Versions \cup {NoVersion} : Publish(u, d, v, e)
    BY <2>1, PublishShelved
  <2>2. CASE ChangeRole(u) \/ \E d \in Documents : Archive(u, d)
    BY <1>1, <2>2 DEF ChangeRole, Archive, documentVars, workVars, Unused
  <2> QED  BY <1>4, <2>1, <2>2 DEF Edit
<1> QED
  BY <1>2, <1>3, <1>4, BringShelved, SourcingShelved DEF Next

-----------------------------------------------------------------------------
Safe == Typed /\ Doubting /\ Shelved

LEMMA Safety == Spec => []Safe
<1>1. Init => Safe
  BY TypedInit, DoubtingInit, ShelvedInit DEF Safe
<1>2. Safe /\ [Next]_vars => Safe'
  BY TypedNext, DoubtingNext, ShelvedNext DEF Safe
<1> QED  BY <1>1, <1>2, PTL DEF Spec

\* The state of the library is of its type, and a version that exists has a
\* document, a content and a positive number (the CHECK of the schema).
THEOREM LibraryTypes == Spec => []TypeOK
<1>1. Safe => TypeOK
  BY DEF Safe, Shelved, Identified, TypeOK
<1> QED  BY <1>1, Safety, PTL

\* Pointer and statuses agree, superseded versions are older than the current
\* one, and no number is used twice (publishKnowledgeVersion and the locked
\* allocation of nextVersionNumber).
THEOREM PublicationIsOne == Spec => []OnePublication
<1>1. ASSUME Safe PROVE OnePublication
  <2> SUFFICES ASSUME NEW d \in Documents
               PROVE  /\ {v \in Of(d) : status[v] = "PUBLISHED"} = {current[d]} \ {NoVersion}
                      /\ \A v \in Of(d) :
                           /\ number[v] < next[d]
                           /\ status[v] = "SUPERSEDED" => number[v] < number[current[d]]
                      /\ \A v, w \in Of(d) : number[v] = number[w] => v = w
    BY DEF OnePublication
  <2>1. \A v \in Of(d) : v \in Versions /\ document[v] = d /\ d # NoDocument
    BY Keyed DEF Of
  <2>2. current[d] # NoVersion => current[d] \in Of(d) /\ status[current[d]] = "PUBLISHED"
    BY <1>1 DEF Safe, Typed, Shelved, Pointed, Of
  <2>3. \A v \in Of(d) : status[v] = "PUBLISHED" => current[d] = v /\ v # NoVersion
    BY <1>1, <2>1, Keyed DEF Safe, Shelved, Published
  <2>4. {v \in Of(d) : status[v] = "PUBLISHED"} = {current[d]} \ {NoVersion}
    BY <2>2, <2>3
  <2>5. \A v \in Of(d) : /\ number[v] < next[d]
                         /\ status[v] = "SUPERSEDED" => number[v] < number[current[d]]
    BY <1>1, <2>1 DEF Safe, Shelved, Identified, Published
  <2>6. \A v, w \in Of(d) : number[v] = number[w] => v = w
    BY <1>1, <2>1 DEF Safe, Shelved, Numbered
  <2> QED  BY <2>4, <2>5, <2>6
<1> QED  BY <1>1, Safety, PTL

-----------------------------------------------------------------------------
(* Who writes what. Only three kinds of step touch the identity of a       *)
(* version or a publication.                                               *)

Stays == UNCHANGED <<identityVars, current>> /\ \A v \in Versions : status[v] = "none" => status'[v] = "none"

LEMMA Steps ==
  ASSUME Typed, Shelved, [Next]_vars
  PROVE  \/ Stays /\ UNCHANGED archived
         \/ Stays /\ \E u \in Users, d \in Documents : Archive(u, d)
         \/ \E k \in Uploads, d \in Documents : Record(k, d) /\ status[k] = "none"
         \/ \E u \in Users, d \in Documents, v \in Versions : \E e : Publish(u, d, v, e)
<1> USE DEF Stays
<1>1. ASSUME UNCHANGED <<documentVars, identityVars, status>> PROVE Stays /\ UNCHANGED archived
  BY <1>1 DEF documentVars
<1>2. CASE UNCHANGED vars
  BY <1>1, <1>2 DEF vars, workVars
<1>3. ASSUME NEW k \in Uploads, NEW d \in Documents, Record(k, d), Unwritten(task[k])
      PROVE  status[k] = "none"
  BY <1>3 DEF Shelved, Fresh
<1>4. ASSUME NEW k \in Keys, Bring(k)
      PROVE  \/ Stays /\ UNCHANGED archived
             \/ \E j \in Uploads, d \in Documents : Record(j, d) /\ status[j] = "none"
  <2>1. CASE Put(k) \/ PutFails(k) \/ WriteFails(k) \/ WriteInDoubt(k) \/ AbortLate(k)
             \/ Check(k) \/ Discard(k) \/ GivesUp(k)
    BY <1>1, <2>1 DEF Put, PutFails, WriteFails, WriteInDoubt, AbortLate, Check, Discard,
                      GivesUp, workVars
  <2>2. CASE CommitLate(k)
    BY <1>1, <1>3, <2>2 DEF CommitLate, Map, workVars, Unwritten
  <2> QED  BY <1>4, <2>1, <2>2 DEF Bring
<1>5. ASSUME NEW k \in Uploads, UploadStep(k)
      PROVE  \/ Stays /\ UNCHANGED archived
             \/ \E j \in Uploads, d \in Documents : Record(j, d) /\ status[j] = "none"
  BY <1>1, <1>3, <1>5 DEF UploadStep, Upload, Store, Duplicate, workVars, Unwritten
<1>6. ASSUME NEW k \in Imports, ImportStep(k) PROVE Stays /\ UNCHANGED archived
  BY <1>1, <1>6 DEF ImportStep, Import, MapSource, Map, Revive, workVars
<1>7. ASSUME NEW v \in Versions, Work(v) PROVE Stays /\ UNCHANGED archived
  <2>1. ASSUME NEW s, NEW f, Outcome(v, s, f) PROVE Stays /\ UNCHANGED archived
    BY <2>1 DEF Outcome, Typed, documentVars
  <2>2. CASE Claim(v)
    BY <2>2 DEF Claim, Typed, documentVars
  <2> QED  BY <1>7, <2>1, <2>2 DEF Work, Prepare, MissSource, FailAttempt
<1>8. ASSUME NEW u \in Users, Edit(u)
      PROVE  \/ Stays /\ UNCHANGED archived
             \/ Stays /\ \E d \in Documents : Archive(u, d)
             \/ \E d \in Documents, v \in Versions : \E e : Publish(u, d, v, e)
  BY <1>1, <1>8 DEF Edit, ChangeRole, Archive, workVars
<1> QED  BY <1>2, <1>4, <1>5, <1>6, <1>7, <1>8 DEF Next

Distinct == \A v, w \in Versions :
  document[v] = document[w] /\ document[v] # NoDocument /\ content[v] = content[w] => v = w

LEMMA DistinctInit == Init => Distinct
<1>1. \A v \in Legacy : LegacyDocument[v] # NoDocument
  BY LibraryAssumption
<1> QED  BY <1>1, LibraryAssumption DEF Init, Distinct, Versions

LEMMA DistinctNext == Safe /\ Distinct /\ [Next]_vars => Distinct'
<1> SUFFICES ASSUME Typed, Shelved, Distinct, [Next]_vars PROVE Distinct'
  BY DEF Safe
<1>1. CASE UNCHANGED identityVars
  BY <1>1 DEF Distinct, identityVars
<1>2. ASSUME NEW k \in Uploads, NEW d \in Documents, Record(k, d) PROVE Distinct'
  <2>1. /\ \A v \in Versions : v # k => document'[v] = document[v] /\ content'[v] = content[v]
        /\ document'[k] = d /\ content'[k] = task[k].content
    BY <1>2, Keyed DEF Record, Typed
  <2>2. \A v \in Versions : document[v] = d => content[v] # task[k].content
    BY <1>2 DEF Record, Duplicates, Of
  <2> QED  BY <2>1, <2>2 DEF Distinct
<1> QED  BY <1>1, <1>2, Steps DEF Stays, Publish

\* The same bytes are one version of a document: the twin is looked for under
\* the lock that its insertion holds (createVersionRecord).
THEOREM ContentsAreDistinct == Spec => []DistinctContents
<1>1. Init => Distinct
  BY DistinctInit
<1>2. Safe /\ Distinct /\ [Next]_vars => Distinct'
  BY DistinctNext
<1>3. Distinct => DistinctContents
  BY Keyed DEF Distinct, DistinctContents, Of
<1> QED  BY <1>1, <1>2, <1>3, Safety, PTL DEF Spec

\* A version is created only for a member who is an editor at the commit, not
\* merely when the upload began (authorizeKnowledge under the lock).
THEOREM EditorsOnly == Spec => EditorsWrite
<1>1. ASSUME Safe, [Next]_vars, NEW k \in Uploads, status[k] = "none", status'[k] # "none"
      PROVE  task[k].user \in editors
  <2>1. k \in Versions
    BY Keyed
  <2>2. CASE \E j \in Uploads, d \in Documents : Record(j, d) /\ status[j] = "none"
    <3>1. PICK j \in Uploads, d \in Documents : Record(j, d)
      BY <2>2
    <3>2. j = k
      BY <1>1, <2>1, <3>1 DEF Record, Safe, Typed
    <3> QED  BY <3>1, <3>2 DEF Record, Admits, Authorized
  <2>3. ASSUME NEW u \in Users, NEW d \in Documents, NEW v \in Versions, NEW old,
             Publish(u, d, v, old)
        PROVE  FALSE
    <3>1. k # v
      BY <1>1, <2>3 DEF Publish
    <3>2. current[d] # NoVersion => current[d] # k
      BY <1>1 DEF Safe, Shelved, Pointed
    <3> QED  BY <1>1, <2>1, <2>3, <3>1, <3>2, Keyed DEF Publish, Retired, Safe, Typed
  <2>4. ~Stays
    BY <1>1, <2>1 DEF Stays
  <2> QED  BY <1>1, <2>2, <2>3, <2>4, Steps DEF Safe
<1>2. Safe /\ [Next]_vars =>
        [\A k \in Uploads : status[k] = "none" /\ status'[k] # "none" => task[k].user \in editors]_vars
  BY <1>1
<1> QED  BY <1>2, Safety, PTL DEF Spec, EditorsWrite

-----------------------------------------------------------------------------
(* The library implements the shelf.                                       *)

LEMMA ShelfInit == Init => Shelf!Init
  BY DEF Init, Shelf!Init, edition

LEMMA ShelfNext ==
  ASSUME Safe, [Next]_vars
  PROVE  [Shelf!Next]_(Shelf!vars)
<1>1. ASSUME UNCHANGED <<number, current>> PROVE UNCHANGED edition
  BY <1>1 DEF edition
<1>2. CASE UNCHANGED <<identityVars, current, archived>>
  BY <1>1, <1>2 DEF Shelf!vars, identityVars
<1>3. ASSUME NEW u \in Users, NEW d \in Documents, Archive(u, d), Stays
      PROVE  Shelf!Next
  BY <1>1, <1>3 DEF Archive, Shelf!Next, Shelf!Withdraw, Stays, identityVars
<1>4. ASSUME NEW k \in Uploads, NEW d \in Documents, Record(k, d), status[k] = "none"
      PROVE  UNCHANGED Shelf!vars
  <2>1. \A e \in Documents : current[e] # NoVersion => current[e] \in Versions /\ current[e] # k
    BY <1>4 DEF Safe, Typed, Shelved, Pointed
  <2>2. \A v \in Versions : v # k => number'[v] = number[v]
    BY <1>4 DEF Record, Safe, Typed
  <2> QED  BY <1>4, <2>1, <2>2 DEF Record, Shelf!vars, edition
<1>5. ASSUME NEW u \in Users, NEW d \in Documents, NEW v \in Versions, NEW old,
             Publish(u, d, v, old)
      PROVE  Shelf!Show(d)
  <2>1. /\ d \notin archived /\ document[v] = d /\ status[v] = "READY"
        /\ current[d] # NoVersion => number[v] > number[current[d]]
        /\ current' = [current EXCEPT ![d] = v] /\ UNCHANGED <<number, archived>>
    BY <1>5 DEF Publish, Newer, identityVars
  <2>2. number[v] \in Nat /\ number[v] > 0
    BY <2>1 DEF Safe, Typed, Shelved, Identified
  <2>3. current'[d] = v /\ \A e \in Documents : e # d => current'[e] = current[e]
    BY <2>1 DEF Safe, Typed
  <2>4. edition'[d] = number[v] /\ \A e \in Documents : e # d => edition'[e] = edition[e]
    BY <2>1, <2>3, Keyed DEF edition
  <2>5. edition' = [edition EXCEPT ![d] = edition'[d]]
    BY <2>4 DEF edition
  <2>6. edition'[d] > edition[d]
    BY <2>1, <2>2, <2>4 DEF edition
  <2> QED  BY <2>1, <2>2, <2>4, <2>5, <2>6 DEF Shelf!Show
<1> QED
  BY <1>2, <1>3, <1>4, <1>5, Steps DEF Safe, Stays, Shelf!Next

\* Readers see a shelf: editions only get newer, and a document withdrawn by
\* archiving shows the same edition for ever (Publish, Archive).
THEOREM LibraryIsAShelf == Spec => ImplementsShelf
<1>1. Init => Shelf!Init
  BY ShelfInit
<1>2. Safe /\ [Next]_vars => [Shelf!Next]_(Shelf!vars)
  BY ShelfNext
<1> QED  BY <1>1, <1>2, Safety, PTL DEF Spec, ImplementsShelf, Shelf!Spec

-----------------------------------------------------------------------------
(* No stored source is lost: the compensation of a failed write deletes    *)
(* only what no version is mapped to. What it cannot see is a commit that  *)
(* takes place after it looked: those, and only those, are marked late.    *)

\* Until its write is known to have happened, and once it may delete, nothing
\* is mapped to a request's key; what it is about to map is stored.
KeyHeld(k) ==
  /\ \/ task[k].pc \in {"idle", "put", "write"} \/ task[k].doubt = "open"
     \/ task[k].pc = "discard" /\ task[k].doubt # "late"
     => \A v \in Versions : source[v] # k
  /\ task[k].pc = "write" \/ (task[k].pc = "check" /\ task[k].doubt = "open") => k \in objects

Kept == (\A k \in Keys : KeyHeld(k)) /\ SourceKept

LEMMA KeptInit == Init => Kept
  BY Keyed DEF Init, Kept, KeyHeld, SourceKept, NotStarted

\* A request moves on, with no mapping changed and no object but its own gone.
LEMMA MovedKept ==
  ASSUME Typed, Kept, NEW k \in Keys, NEW pc \in TaskPc, Move(k, pc),
         UNCHANGED source, objects \ {k} \subseteq objects',
         k \notin objects' => task[k].doubt = "late" \/ \A v \in Versions : source[v] # k,
         pc \in {"idle", "put", "write"} => \A v \in Versions : source[v] # k,
         pc = "discard" => task[k].doubt = "late" \/ \A v \in Versions : source[v] # k,
         pc \in {"write", "check"} => k \in objects'
  PROVE  Kept'
<1>1. \A j \in Keys : KeyHeld(j)'
  <2> SUFFICES ASSUME NEW j \in Keys PROVE KeyHeld(j)'
    OBVIOUS
  <2>1. CASE j = k
    BY <2>1, Moved DEF KeyHeld, Kept
  <2>2. CASE j # k
    BY <2>2, Moved DEF KeyHeld, Kept
  <2> QED  BY <2>1, <2>2
<1>2. SourceKept'
  <2> SUFFICES ASSUME NEW v \in Versions, source[v] # NoKey, task'[source[v]].doubt # "late"
               PROVE  source[v] \in objects'
    BY DEF SourceKept
  <2>1. source[v] \in Keys
    BY DEF Typed
  <2>2. task[source[v]].doubt # "late"
    BY <2>1, Moved
  <2> QED  BY <2>2 DEF SourceKept, Kept
<1> QED  BY <1>1, <1>2 DEF Kept

\* A request maps its stored key and is past its write.
LEMMA MappedKept ==
  ASSUME Typed, Kept, Doubting, NEW k \in Keys, NEW v \in Versions, task[k].pc = "write",
         source' = [source EXCEPT ![v] = k], UNCHANGED objects,
         NEW pc \in TaskPc \ {"idle", "put", "write", "discard"}, Move(k, pc)
  PROVE  Kept'
<1>1. k \in objects /\ source \in [Versions -> Keys \cup {NoKey}]
  BY DEF Typed, Kept, KeyHeld
<1>2. \A j \in Keys : KeyHeld(j)'
  <2> SUFFICES ASSUME NEW j \in Keys PROVE KeyHeld(j)'
    OBVIOUS
  <2>1. CASE j = k
    BY <1>1, <2>1, Moved DEF KeyHeld, Doubting
  <2>2. CASE j # k
    BY <1>1, <2>2, Moved DEF KeyHeld, Kept
  <2> QED  BY <2>1, <2>2
<1>3. SourceKept'
  <2> SUFFICES ASSUME NEW w \in Versions, source'[w] # NoKey, task'[source'[w]].doubt # "late"
               PROVE  source'[w] \in objects'
    BY DEF SourceKept
  <2>1. CASE w = v
    BY <1>1, <2>1
  <2>2. CASE w # v
    <3>1. source'[w] = source[w] /\ source[w] \in Keys
      BY <1>1, <2>2
    <3>2. task[source[w]].doubt # "late"
      BY <3>1, Moved
    <3> QED  BY <3>1, <3>2 DEF SourceKept, Kept
  <2> QED  BY <2>1, <2>2
<1> QED  BY <1>2, <1>3 DEF Kept

\* A write in doubt takes place: before its request has looked, and then the
\* key is mapped and stored, or after, and then the object's fate is open.
LEMMA LateKept ==
  ASSUME Typed, Kept, Doubting, NEW k \in Keys, NEW v \in Versions,
         task[k].doubt = "open", task' = [task EXCEPT ![k].doubt = Landed(k)],
         source' = [source EXCEPT ![v] = k], UNCHANGED objects
  PROVE  Kept'
<1>1. source \in [Versions -> Keys \cup {NoKey}] /\ Landed(k) \in Doubts
  BY DEF Typed, Doubts, Landed
<1>2. /\ task'[k].doubt = Landed(k) /\ task'[k].pc = task[k].pc
      /\ \A j \in Keys : j # k => task'[j] = task[j]
  BY <1>1, Decided
<1>3. \A j \in Keys : KeyHeld(j)'
  <2> SUFFICES ASSUME NEW j \in Keys PROVE KeyHeld(j)'
    OBVIOUS
  <2>1. CASE j = k
    BY <1>2, <2>1 DEF KeyHeld, Doubting, Landed
  <2>2. CASE j # k
    BY <1>1, <1>2, <2>2 DEF KeyHeld, Kept
  <2> QED  BY <2>1, <2>2
<1>4. SourceKept'
  <2> SUFFICES ASSUME NEW w \in Versions, source'[w] # NoKey, task'[source'[w]].doubt # "late"
               PROVE  source'[w] \in objects'
    BY DEF SourceKept
  <2>1. CASE w = v
    <3>1. source'[w] = k /\ task[k].pc = "check"
      BY <1>1, <1>2, <2>1 DEF Landed
    <3> QED  BY <3>1 DEF Kept, KeyHeld
  <2>2. CASE w # v
    <3>1. source'[w] = source[w] /\ source[w] \in Keys /\ source[w] # k
      BY <1>1, <2>2 DEF Kept, KeyHeld
    <3> QED  BY <1>2, <3>1 DEF SourceKept, Kept
  <2> QED  BY <2>1, <2>2
<1> QED  BY <1>3, <1>4 DEF Kept

\* One request changes only its doubt, no mapping and no object changes, and
\* no mapped key was waiting for it.
LEMMA DoubtKept ==
  ASSUME Typed, Kept, NEW k \in Keys, UNCHANGED <<source, objects>>,
         \A v \in Versions : source[v] # k,
         \A j \in Keys : j # k => task'[j] = task[j],
         task'[k].pc # "write", task'[k].pc = "check" /\ task'[k].doubt = "open" => k \in objects
  PROVE  Kept'
<1>1. \A j \in Keys : KeyHeld(j)'
  <2> SUFFICES ASSUME NEW j \in Keys PROVE KeyHeld(j)'
    OBVIOUS
  <2>1. CASE j = k
    BY <2>1 DEF KeyHeld
  <2>2. CASE j # k
    BY <2>2 DEF KeyHeld, Kept
  <2> QED  BY <2>1, <2>2
<1>2. SourceKept'
  <2> SUFFICES ASSUME NEW v \in Versions, source[v] # NoKey, task'[source[v]].doubt # "late"
               PROVE  source[v] \in objects
    BY DEF SourceKept
  <2>1. source[v] \in Keys /\ source[v] # k
    BY DEF Typed
  <2> QED  BY <2>1 DEF SourceKept, Kept
<1> QED  BY <1>1, <1>2 DEF Kept

\* A new request touches neither mappings nor objects.
LEMMA BegunKept ==
  ASSUME Typed, Kept, NEW k \in Keys, task[k].pc = "idle", UNCHANGED <<source, objects>>,
         NEW t, t.pc = "put", task' = [task EXCEPT ![k] = t]
  PROVE  Kept'
<1>1. task'[k] = t /\ \A j \in Keys : j # k => task'[j] = task[j]
  BY DEF Typed
<1>2. \A v \in Versions : source[v] # k
  BY DEF Kept, KeyHeld
<1> QED  BY <1>1, <1>2, DoubtKept

LEMMA KeptNext ==
  ASSUME Typed, Kept, Doubting, [Next]_vars
  PROVE  Kept'
<1> USE DEF TaskPc
<1>1. ASSUME UNCHANGED <<source, objects, task>> PROVE Kept'
  BY <1>1 DEF Kept, KeyHeld, SourceKept
<1>2. CASE UNCHANGED vars
  BY <1>1, <1>2 DEF vars
<1>3. ASSUME NEW k \in Keys, Bring(k) PROVE Kept'
  <2>1. CASE Put(k) \/ PutFails(k)
    BY <2>1, MovedKept DEF Put, PutFails, Kept, KeyHeld
  <2>2. CASE WriteFails(k) \/ GivesUp(k)
    BY <2>2, MovedKept, Keyed DEF WriteFails, GivesUp, Kept, KeyHeld, SourceKept
  <2>3. CASE WriteInDoubt(k)
    <3>1. \A j \in Keys : j # k => task'[j] = task[j]
      BY <2>3 DEF WriteInDoubt, Typed
    <3>2. task'[k].pc = "check" /\ k \in objects /\ \A v \in Versions : source[v] # k
      BY <2>3 DEF WriteInDoubt, Typed, Task, Kept, KeyHeld
    <3> QED  BY <2>3, <3>1, <3>2, DoubtKept DEF WriteInDoubt
  <2>6. CASE AbortLate(k)
    <3>1. /\ \A j \in Keys : j # k => task'[j] = task[j]
          /\ task'[k].pc = task[k].pc /\ task'[k].doubt = "none"
      BY <2>6, Decided DEF AbortLate, Doubts
    <3>2. task[k].pc # "write" /\ \A v \in Versions : source[v] # k
      BY <2>6 DEF AbortLate, Doubting, Kept, KeyHeld
    <3> QED  BY <2>6, <3>1, <3>2, DoubtKept DEF AbortLate
  <2>7. CASE CommitLate(k)
    <3>1. k \in Uploads => k \in Versions
      BY Keyed
    <3>2. task[k].version \in Versions
      BY DEF Typed, Task
    <3> QED  BY <2>7, <3>1, <3>2, LateKept DEF CommitLate, Record, Map
  <2>4. CASE Check(k)
    BY <2>4, MovedKept, Keyed DEF Check, Referenced, Kept, SourceKept
  <2>5. CASE Discard(k)
    BY <2>5, MovedKept DEF Discard, Kept, KeyHeld
  <2> QED  BY <1>3, <2>1, <2>2, <2>3, <2>4, <2>5, <2>6, <2>7 DEF Bring
<1>4. ASSUME NEW k \in Uploads, UploadStep(k) PROVE Kept'
  <2>0. k \in Keys /\ k \in Versions
    BY Keyed
  <2>1. ASSUME NEW u \in Users, NEW d \in made \cup {NoDocument}, NEW s \in Sources,
               Upload(k, u, d, s)
        PROVE  Kept'
    <3> DEFINE t == [task[k] EXCEPT !.pc = "put", !.user = u, !.doc = d, !.content = s]
    <3>1. t.pc = "put"
      BY <2>0 DEF Typed, Task
    <3>2. task' = [task EXCEPT ![k] = t]
      BY <2>1 DEF Upload
    <3> HIDE DEF t
    <3> QED  BY <2>0, <2>1, <3>1, <3>2, BegunKept DEF Upload
  <2>2. ASSUME NEW d \in Documents, Store(k, d) PROVE Kept'
    BY <2>0, <2>2, MappedKept DEF Store, Record
  <2>3. ASSUME NEW d \in Documents, Duplicate(k, d) PROVE Kept'
    BY <2>0, <2>3, MovedKept DEF Duplicate, Kept, KeyHeld
  <2> QED  BY <1>4, <2>1, <2>2, <2>3 DEF UploadStep
<1>5. ASSUME NEW k \in Imports, ImportStep(k) PROVE Kept'
  <2>0. k \in Keys
    BY Keyed
  <2>1. ASSUME NEW v \in Legacy, Import(k, v) PROVE Kept'
    <3> DEFINE t == [task[k] EXCEPT !.pc = "put", !.version = v]
    <3>1. t.pc = "put"
      BY <2>0 DEF Typed, Task
    <3>2. task' = [task EXCEPT ![k] = t]
      BY <2>1 DEF Import
    <3> HIDE DEF t
    <3> QED  BY <2>0, <2>1, <3>1, <3>2, BegunKept DEF Import
  <2>2. CASE MapSource(k)
    <3>1. task[k].version \in Versions
      BY <2>0 DEF Typed, Task
    <3> QED  BY <2>0, <2>2, <3>1, MappedKept DEF MapSource, Map
  <2>3. CASE Revive(k)
    BY <2>0, <2>3, MovedKept, Keyed DEF Revive, Kept, SourceKept
  <2> QED  BY <1>5, <2>1, <2>2, <2>3 DEF ImportStep
<1>6. ASSUME NEW v \in Versions, Work(v) PROVE Kept'
  BY <1>1, <1>6 DEF Work, Claim, Prepare, MissSource, FailAttempt, Outcome, Unused
<1>7. ASSUME NEW u \in Users, Edit(u) PROVE Kept'
  BY <1>1, <1>7 DEF Edit, Archive, Publish, ChangeRole, Unused
<1> QED  BY <1>2, <1>3, <1>4, <1>5, <1>6, <1>7 DEF Next

\* Through failures, lost acknowledgements, writes that land late, deaths and
\* deletions, a mapped key is an object of the storage, unless its commit took
\* place after its request had looked for it (createVersionRecord,
\* importLegacySource and their compensation).
THEOREM SourcesAreKept == Spec => []SourceKept
<1>1. Init => Kept
  BY KeptInit
<1>2. Safe /\ Kept /\ [Next]_vars => Kept'
  BY KeptNext DEF Safe
<1>3. Kept => SourceKept
  BY DEF Kept
<1> QED  BY <1>1, <1>2, <1>3, Safety, PTL DEF Spec
=============================================================================
