------------------------------ MODULE Library -------------------------------
(***************************************************************************)
(* The knowledge library: sourcing composed with the outcome of processing,*)
(* explicit publication against an expected current version, archiving,    *)
(* and the members' changing roles.                                        *)
(***************************************************************************)
EXTENDS Sourcing

Unused == <<objects, editors, task>>

-----------------------------------------------------------------------------
(* Processing, reduced to what the library sees of it.                     *)

\* An attempt claims the version and reads its mapping.
Claim(v) ==
  /\ status[v] \in {"UPLOADED", "PROCESSING", "FAILED"} /\ failure[v] \in {"none", "passing"}
  /\ document[v] \notin archived /\ DocumentFree(document[v])
  /\ status' = [status EXCEPT ![v] = "PROCESSING"]
  /\ failure' = [failure EXCEPT ![v] = "none"]
  /\ claimed' = [claimed EXCEPT ![v] = source[v]]
  /\ UNCHANGED <<documentVars, identityVars, source, Unused>>

Outcome(v, s, f) ==
  /\ status[v] = "PROCESSING" /\ DocumentFree(document[v])
  /\ status' = [status EXCEPT ![v] = s] /\ failure' = [failure EXCEPT ![v] = f]
  /\ claimed' = [claimed EXCEPT ![v] = NoKey]
  /\ UNCHANGED <<documentVars, identityVars, source, Unused>>

\* READY needs the bytes; a mapping that was missing at the claim, or an object
\* that is not there, is a final failure, as are invalid bytes.
Prepare(v)    == claimed[v] \in objects /\ Outcome(v, "READY", "none")
MissSource(v) == claimed[v] \notin objects /\ Outcome(v, "FAILED", "missing")
FailAttempt(v) ==
  "provider" \in Faults /\ \E f \in {"passing", "invalid"} : Outcome(v, "FAILED", f)

-----------------------------------------------------------------------------
(* Publication.                                                            *)

NewerAlways(d, v) == TRUE         \* mutant: an older version may be published again
Newer(d, v) == current[d] # NoVersion => number[v] > number[current[d]]

RetiredKept(d) == status          \* mutant: the previous version stays PUBLISHED
Retired(d) == IF current[d] = NoVersion THEN status
              ELSE [status EXCEPT ![current[d]] = "SUPERSEDED"]

\* The request names the current version its user saw. (Publishing the
\* current version again changes nothing.)
Publish(u, d, v, expected) ==
  /\ OrganizationFree /\ Authorized(u) /\ d \in made \ archived /\ document[v] = d
  /\ current[d] # v /\ current[d] = expected
  /\ status[v] = "READY" /\ Newer(d, v)
  /\ status' = [Retired(d) EXCEPT ![v] = "PUBLISHED"]
  /\ current' = [current EXCEPT ![d] = v]
  /\ UNCHANGED <<made, archived, next, identityVars, failure, claimed, source, Unused>>

Archive(u, d) ==
  /\ "archive" \in Faults
  /\ OrganizationFree /\ Authorized(u) /\ d \in made \ archived
  /\ archived' = archived \cup {d}
  /\ UNCHANGED <<made, current, next, identityVars, workVars, source, Unused>>

\* Roles change under the organization's lock.
ChangeRole(u) ==
  /\ "roles" \in Faults /\ OrganizationFree
  /\ editors' = IF u \in editors THEN editors \ {u} ELSE editors \cup {u}
  /\ UNCHANGED <<documentVars, identityVars, workVars, source, objects, task>>

-----------------------------------------------------------------------------
Work(v)  == Claim(v) \/ Prepare(v) \/ MissSource(v) \/ FailAttempt(v)
Edit(u)  == \/ ChangeRole(u)
            \/ \E d \in Documents : Archive(u, d)
            \/ \E d \in Documents, v \in Versions, expected \in Versions \cup {NoVersion} :
                 Publish(u, d, v, expected)

Next == \/ \E k \in Keys : Bring(k)
        \/ \E k \in Uploads : UploadStep(k)
        \/ \E k \in Imports : ImportStep(k)
        \/ \E v \in Versions : Work(v)
        \/ \E u \in Users : Edit(u)

Spec == Init /\ [][Next]_vars

-----------------------------------------------------------------------------
Typed ==
  /\ made \subseteq Documents /\ archived \subseteq made
  /\ current \in [Documents -> Versions \cup {NoVersion}]
  /\ next \in [Documents -> Nat \ {0}]
  /\ document \in [Versions -> Documents \cup {NoDocument}] /\ number \in [Versions -> Nat]
  /\ content \in [Versions -> Sources \cup {NoSource}]
  /\ status \in [Versions -> Statuses] /\ failure \in [Versions -> Failures]
  /\ source \in [Versions -> Keys \cup {NoKey}] /\ claimed \in [Versions -> Keys \cup {NoKey}]
  /\ objects \subseteq Keys /\ editors \subseteq Users
  /\ task \in [Keys -> Task]

\* Everything is of its type, and a version exists with a document, a content
\* and a number that is positive (the schema's CHECK), or not at all.
TypeOK ==
  /\ Typed
  /\ \A v \in Versions :
       IF status[v] = "none" THEN document[v] = NoDocument
       ELSE document[v] \in made /\ content[v] \in Sources /\ number[v] > 0

\* Whatever fails, a version's mapped key is an object of the storage. (That
\* is the claim of docs/ingestion-operations.md and of the comment in the
\* compensation. The code does not keep it: the commit may follow the look.)
MappedIsStored == \A v \in Versions : source[v] # NoKey => source[v] \in objects

\* What the code does keep: the compensation never deletes a source that was
\* mapped when it looked, nor one the import or another upload mapped, however
\* acknowledgements, deaths and twins fall (createVersionRecord,
\* importLegacySource). The commit that follows the look is the only way to
\* lose a mapped source.
SourceKept == \A v \in Versions :
  source[v] # NoKey /\ task[source[v]].doubt # "late" => source[v] \in objects

\* The pointer and the statuses agree: the current version is the one that is
\* PUBLISHED, superseded versions are older, and a document numbers its
\* versions without reuse (publishKnowledgeVersion, nextVersionNumber).
OnePublication == \A d \in Documents :
  /\ {v \in Of(d) : status[v] = "PUBLISHED"} = {current[d]} \ {NoVersion}
  /\ \A v \in Of(d) : /\ number[v] < next[d]
                      /\ status[v] = "SUPERSEDED" => number[v] < number[current[d]]
  /\ \A v, w \in Of(d) : number[v] = number[w] => v = w

\* The same bytes are one version of a document, whoever uploads them at once.
DistinctContents == \A d \in Documents : \A v, w \in Of(d) : content[v] = content[w] => v = w

\* Rights withdrawn while a request waits for the storage count: a version
\* is created only for somebody who is an editor at that moment.
EditorsWrite == [][\A k \in Uploads :
  status[k] = "none" /\ status'[k] # "none" => task[k].user \in editors]_vars

\* Publication is a shelf: editions only get newer, withdrawn titles stay.
edition == [d \in Documents |-> IF current[d] = NoVersion THEN 0 ELSE number[current[d]]]
Shelf == INSTANCE Shelf WITH Titles <- Documents, withdrawn <- archived
ImplementsShelf == Shelf!Spec

=============================================================================
