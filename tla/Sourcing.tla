------------------------------ MODULE Sourcing ------------------------------
(***************************************************************************)
(* Bringing bytes into the library: createVersionRecord, importLegacySource*)
(* and the compensation both run when the database fails after the object  *)
(* was stored. Storage and database share no transaction.                  *)
(***************************************************************************)
EXTENDS LibraryState

Move(k, pc) == task' = [task EXCEPT ![k].pc = pc]

\* An authorized user uploads validated bytes, for a new document or an old one.
Upload(k, u, d, s) ==
  /\ task[k].pc = "idle" /\ u \in editors
  /\ task' = [task EXCEPT ![k] = [@ EXCEPT !.pc = "put", !.user = u, !.doc = d, !.content = s]]
  /\ UNCHANGED <<documentVars, identityVars, workVars, source, objects, editors>>

\* The operator imports a legacy version that has no mapping yet.
Import(k, v) ==
  /\ task[k].pc = "idle" /\ source[v] = NoKey
  /\ task' = [task EXCEPT ![k] = [@ EXCEPT !.pc = "put", !.version = v]]
  /\ UNCHANGED <<documentVars, identityVars, workVars, source, objects, editors>>

Put(k) ==
  /\ task[k].pc = "put" /\ Move(k, "write")
  /\ objects' = objects \cup {k}
  /\ UNCHANGED <<documentVars, identityVars, workVars, source, editors>>

\* A put that failed, or timed out after the object was stored, ends the
\* request; the object is then one for the operator's audit.
PutFails(k) ==
  /\ "storage" \in Faults /\ task[k].pc = "put" /\ Move(k, "done")
  /\ objects' \in {objects, objects \cup {k}}
  /\ UNCHANGED <<documentVars, identityVars, workVars, source, editors>>

DuplicatesReady(d, s) ==          \* mutant: only a prepared twin counts
  {v \in Of(d) : content[v] = s /\ status[v] \in {"READY", "PUBLISHED"}}
Duplicates(d, s) == {v \in Of(d) : content[v] = s}

\* The upload's document under its lock: a new one, or an old one not archived.
Admits(k, d) ==
  /\ Authorized(task[k].user)
  /\ IF task[k].doc = NoDocument THEN d \in Documents \ made
     ELSE d = task[k].doc /\ d \in made /\ d \notin archived

NumberFor(d)  == next[d]

\* Version, mapping, ingestion and outbox row are committed together.
Record(k, d) ==
  /\ Admits(k, d) /\ Duplicates(d, task[k].content) = {}
  /\ made' = made \cup {d}
  /\ document' = [document EXCEPT ![k] = d]
  /\ number' = [number EXCEPT ![k] = NumberFor(d)]
  /\ next' = [next EXCEPT ![d] = @ + 1]
  /\ content' = [content EXCEPT ![k] = task[k].content]
  /\ status' = [status EXCEPT ![k] = "UPLOADED"]
  /\ source' = [source EXCEPT ![k] = k]
  /\ UNCHANGED <<archived, current, failure, claimed, objects, editors>>

\* The acknowledgement may be lost: the request then looks what happened.
Store(k, d) ==
  /\ task[k].pc = "write" /\ OrganizationFree /\ Record(k, d)
  /\ Move(k, "done") \/ ("lost" \in Faults /\ Move(k, "check"))

\* The same bytes are already a version of the document.
Duplicate(k, d) ==
  /\ task[k].pc = "write" /\ OrganizationFree
  /\ Admits(k, d) /\ Duplicates(d, task[k].content) # {}
  /\ Move(k, "discard")
  /\ UNCHANGED <<documentVars, identityVars, workVars, source, objects, editors>>

\* The mapping of a legacy version; a second one violates the key.
Map(k) == LET v == task[k].version IN
  /\ source[v] = NoKey /\ source' = [source EXCEPT ![v] = k]
  /\ UNCHANGED <<documentVars, identityVars, workVars, objects, editors>>

MapSource(k) ==
  /\ task[k].pc = "write" /\ Map(k)
  /\ Move(k, "revive") \/ ("lost" \in Faults /\ Move(k, "check"))

\* Nothing was written: access or document gone, mapping taken, or a failure.
WriteFails(k) ==
  /\ task[k].pc = "write" /\ Move(k, "check")
  /\ \/ "database" \in Faults
     \/ k \in Uploads /\ ~\E d \in Documents : Admits(k, d)
     \/ k \in Imports /\ source[task[k].version] # NoKey
  /\ UNCHANGED <<documentVars, identityVars, workVars, source, objects, editors>>

\* The write was sent, its connection is gone: the server may still commit it.
WriteInDoubt(k) ==
  /\ "doubt" \in Faults /\ task[k].pc = "write"
  /\ IF k \in Uploads
     THEN OrganizationFree /\ \E d \in Documents :
            Admits(k, d) /\ Duplicates(d, task[k].content) = {}
     ELSE source[task[k].version] = NoKey
  /\ task' = [task EXCEPT ![k] = [@ EXCEPT !.pc = "check", !.doubt = "open"]]
  /\ UNCHANGED <<documentVars, identityVars, workVars, source, objects, editors>>

\* The server commits it, before the request has looked or after.
Landed(k) == IF task[k].pc = "check" THEN "none" ELSE "late"

CommitLate(k) ==
  /\ task[k].doubt = "open" /\ task' = [task EXCEPT ![k].doubt = Landed(k)]
  /\ IF k \in Uploads THEN \E d \in Documents : Record(k, d) ELSE Map(k)

AbortLate(k) ==
  /\ task[k].doubt = "open" /\ task' = [task EXCEPT ![k].doubt = "none"]
  /\ UNCHANGED <<documentVars, identityVars, workVars, source, objects, editors>>

\* After an error: the object goes only if no version is mapped to it.
ReferencedNever(k) == FALSE       \* mutant: the mapping is not looked up
Referenced(k)      == \E v \in Versions : source[v] = k

Check(k) ==
  /\ task[k].pc = "check" /\ Move(k, IF Referenced(k) THEN "done" ELSE "discard")
  /\ UNCHANGED <<documentVars, identityVars, workVars, source, objects, editors>>

Discard(k) ==
  /\ task[k].pc = "discard" /\ Move(k, "done")
  /\ objects' = objects \ {k}
  /\ UNCHANGED <<documentVars, identityVars, workVars, source, editors>>

\* The import makes a version retryable that had failed for want of a source.
Revive(k) == LET v == task[k].version IN
  /\ task[k].pc = "revive" /\ Move(k, "done")
  /\ failure' = IF status[v] = "FAILED" /\ failure[v] = "missing"
                THEN [failure EXCEPT ![v] = "passing"] ELSE failure
  /\ UNCHANGED <<documentVars, identityVars, status, claimed, source, objects, editors>>

\* The process dies, or a later statement fails: the request is over and what
\* it stored stays.
GivesUp(k) ==
  /\ "crash" \in Faults /\ task[k].pc \in {"put", "write", "check", "discard", "revive"}
  /\ Move(k, "done")
  /\ UNCHANGED <<documentVars, identityVars, workVars, source, objects, editors>>

Bring(k) == \/ Put(k) \/ PutFails(k) \/ WriteFails(k) \/ WriteInDoubt(k) \/ CommitLate(k)
            \/ AbortLate(k) \/ Check(k) \/ Discard(k) \/ GivesUp(k)

UploadStep(k) == \/ \E u \in Users, d \in made \cup {NoDocument}, s \in Sources : Upload(k, u, d, s)
                 \/ \E d \in Documents : Store(k, d) \/ Duplicate(k, d)
ImportStep(k) == \/ \E v \in Legacy : Import(k, v)
                 \/ MapSource(k) \/ Revive(k)
=============================================================================
