-------------------------------- MODULE Lab ---------------------------------
(***************************************************************************)
(* One knowledge issue and the reliability lab of its organization         *)
(* (issue.service, replay.service, replay.execution): suites freeze runs,  *)
(* experiments pin versions, a process executes one at a time while it may *)
(* be cancelled or die, and a passed experiment verifies the issue. Every  *)
(* transaction holds the organization's lock. The library is what          *)
(* publication and archiving make of it (Library). An update of the issue  *)
(* with a stale expectedRevision is refused and changes nothing.           *)
(***************************************************************************)
EXTENDS Integers, FiniteSets

CONSTANTS
  Documents, Versions,    \* pairs of a document and a number
  Runs,                   \* Copilot runs that may be replayed
  Failing,                \* the one the issue was detected with
  Experiments, Processes,
  MaxSuites,              \* bound: different suites created
  MaxOverrides,           \* bound: candidates of an experiment
  Purposes,               \* of the experiments that are created
  Nothing

ASSUME LabAssumption ==
  /\ Failing \in Runs /\ Nothing \notin Runs \cup Experiments
  /\ Versions \subseteq Documents \X (Nat \ {0}) /\ MaxSuites \in Nat /\ MaxOverrides \in Nat
  /\ Purposes \subseteq {"GENERAL", "PRE", "POST"}

VARIABLES
  version,     \* the status of the versions
  archived,    \* documents
  failures,    \* runs with a signal of the issue
  accepted,    \* related runs whose answer was accepted: guardrails
  issue,       \* its status and candidate version
  suites,      \* the suites created: a kind for each of their runs
  experiment,  \* the experiments
  process,     \* the API processes: the slot of the organization
  abandoned    \* history: experiments no process will end

libraryVars == <<version, archived>>
runVars     == <<failures, accepted>>
workVars    == <<process, abandoned>>
vars        == <<libraryVars, runVars, issue, suites, experiment, process, abandoned>>

Of(d)      == {v \in Versions : v[1] = d}
Published  == {v \in Versions : version[v] = "PUBLISHED" /\ v[1] \notin archived}
IssueStates == {"DETECTED", "REVIEWING", "FIX_PROPOSED", "PUBLISHED", "DISMISSED", "VERIFIED"}
Issue      == [status : IssueStates, candidate : Versions \cup {Nothing}]

\* What verification asks of a result: a FAILURE that is IMPROVED, a GUARDRAIL
\* that is UNCHANGED (compareCase); poor stands for every other conclusion.
Verdicts   == {"good", "poor", "ERROR"}
Kinds      == {"FAILURE", "GUARDRAIL", "HISTORICAL"}
Suite      == [ofIssue : BOOLEAN, kind : [Runs -> Kinds \cup {Nothing}]]
Cases(s)   == {r \in Runs : s.kind[r] # Nothing}
Results    == [Runs -> Verdicts \cup {Nothing}]
NoResults  == [r \in Runs |-> Nothing]

Ended      == {"COMPLETED", "FAILED", "CANCELLED"}
Experiment == [status : {"DRAFT", "RUNNING"} \cup Ended, suite : Suite, purpose : Purposes,
               scope : SUBSET Versions, override : SUBSET Versions,
               results : Results, summary : Results \cup {Nothing}]
\* Nothing stands for what is not there.
ASSUME NothingAssumption == Nothing \notin Kinds /\ Nothing \notin Experiment

Process    == [pc : {"idle", "case", "store", "failing"}, on : Experiments \cup {Nothing},
               todo : SUBSET Runs, next : Runs \cup {Nothing}, verdict : Verdicts \cup {Nothing},
               seen : Results \cup {Nothing}]
Free       == [pc |-> "idle", on |-> Nothing, todo |-> {}, next |-> Nothing, verdict |-> Nothing, seen |-> Nothing]

TypeOK ==
  /\ version \in [Versions -> {"READY", "PUBLISHED", "SUPERSEDED"}] /\ archived \subseteq Documents
  /\ failures \subseteq Runs /\ accepted \subseteq Runs /\ issue \in Issue /\ suites \subseteq Suite
  /\ experiment \in [Experiments -> Experiment \cup {Nothing}] /\ process \in [Processes -> Process]
  /\ abandoned \subseteq Experiments

Init ==
  /\ version = [v \in Versions |-> IF v[2] = 1 THEN "PUBLISHED" ELSE "READY"] /\ archived = {}
  /\ failures = {Failing} /\ accepted = {}
  /\ issue = [status |-> "DETECTED", candidate |-> Nothing]
  /\ suites = {} /\ experiment = [e \in Experiments |-> Nothing]
  /\ process = [p \in Processes |-> Free] /\ abandoned = {}

-----------------------------------------------------------------------------
(* The world around the lab.                                               *)

\* publishKnowledgeVersion, archiveKnowledgeDocument: as Library has them.
Publish(v) ==
  /\ v[1] \notin archived /\ version[v] = "READY"
  /\ \A w \in Of(v[1]) : version[w] = "PUBLISHED" => w[2] < v[2]
  /\ version' = [w \in Versions |-> IF w = v THEN "PUBLISHED"
                   ELSE IF w[1] = v[1] /\ version[w] = "PUBLISHED" THEN "SUPERSEDED" ELSE version[w]]
  /\ UNCHANGED <<archived, runVars, issue, suites, experiment, workVars>>

Archive(d) ==
  /\ d \notin archived /\ archived' = archived \cup {d}
  /\ UNCHANGED <<version, runVars, issue, suites, experiment, workVars>>

\* deriveKnowledgeSignal adds a run to the issue; another's answer is accepted.
Signal(r) ==
  /\ r \notin failures \cup accepted /\ failures' = failures \cup {r}
  /\ UNCHANGED <<libraryVars, accepted, issue, suites, experiment, workVars>>
Accept(r) ==
  /\ r \notin failures \cup accepted /\ accepted' = accepted \cup {r}
  /\ UNCHANGED <<libraryVars, failures, issue, suites, experiment, workVars>>

-----------------------------------------------------------------------------
(* The issue.                                                              *)

Transitions(s) ==
  CASE s = "DETECTED"     -> {"REVIEWING", "DISMISSED"}
    [] s = "REVIEWING"    -> {"FIX_PROPOSED", "DISMISSED"}
    [] s = "FIX_PROPOSED" -> {"REVIEWING", "PUBLISHED", "DISMISSED"}
    [] s = "PUBLISHED"    -> {"REVIEWING", "DISMISSED"}
    [] s = "DISMISSED"    -> {"REVIEWING"}
    [] s = "VERIFIED"     -> {}

\* updateIssue; an assignment alone changes nothing that is kept here.
Update(s, v) ==
  /\ s \in Transitions(issue.status)
  /\ s = "FIX_PROPOSED" <=> v # Nothing
  /\ s = "FIX_PROPOSED" => version[v] = "READY" /\ v[1] \notin archived
  /\ s = "PUBLISHED" => issue.candidate \in Published
  /\ issue' = [status |-> s, candidate |-> IF v = Nothing THEN issue.candidate ELSE v]
  /\ UNCHANGED <<libraryVars, runVars, suites, experiment, workVars>>

-----------------------------------------------------------------------------
(* Suites and experiments.                                                 *)

\* issueCohort and createSuite; a suite of no issue takes known runs.
CohortKind == [r \in Runs |-> IF r \in failures THEN "FAILURE" ELSE IF r \in accepted THEN "GUARDRAIL" ELSE Nothing]
OtherKind(chosen) == [r \in Runs |-> IF r \in chosen THEN "HISTORICAL" ELSE Nothing]
CreateSuite(s) ==
  /\ Cardinality(suites) < MaxSuites
  /\ IF s.ofIssue THEN s.kind = CohortKind
     ELSE "GENERAL" \in Purposes /\ \E chosen \in SUBSET (failures \cup accepted) \ {{}} : s.kind = OtherKind(chosen)
  /\ suites' = suites \cup {s}
  /\ UNCHANGED <<libraryVars, runVars, issue, experiment, workVars>>

CreateExperiment(e, s, purpose, override) ==
  /\ experiment[e] = Nothing
  /\ purpose # "GENERAL" => s.ofIssue
  /\ \A v \in override : v[1] \notin archived
  /\ \A v, w \in override : v[1] = w[1] => v = w
  /\ purpose # "GENERAL" => issue.candidate \in override
  /\ purpose = "POST" => issue.status = "PUBLISHED" /\ issue.candidate \in Published
  /\ experiment' = [experiment EXCEPT ![e] =
       [status |-> "DRAFT", suite |-> s, purpose |-> purpose, override |-> override,
        scope |-> {v \in Published : \A w \in override : w[1] # v[1]} \cup override,
        results |-> NoResults, summary |-> Nothing]]
  /\ UNCHANGED <<libraryVars, runVars, issue, suites, workVars>>

\* A state of experiment e; s is its status from now on, found its summary.
End(e, s, found) == experiment' = [experiment EXCEPT ![e].status = s, ![e].summary = found]

\* cancelExperiment.
Cancel(e) ==
  /\ experiment[e] # Nothing /\ experiment[e].status \in {"DRAFT", "RUNNING"}
  /\ End(e, "CANCELLED", experiment[e].results)
  /\ UNCHANGED <<libraryVars, runVars, issue, suites, workVars>>

-----------------------------------------------------------------------------
(* executeExperiment.                                                      *)

labVars == <<libraryVars, runVars, issue, suites, abandoned>>
Running(e) == experiment[e].status = "RUNNING"
Goes(p, to) == process' = [process EXCEPT ![p] = to]

NotStarted(e) == experiment[e].status = "DRAFT"                     \* mutant: the others are not counted
Startable(e)  == experiment[e].status = "DRAFT" /\ \A f \in Experiments : experiment[f] # Nothing => ~Running(f)

\* The process takes the organization's slot, which it keeps until it returns
\* (activeOrganizations), and starts the experiment or is refused. If the commit
\* goes unacknowledged it returns at once: the start is outside of the try.
Execute(p, e) ==
  /\ process[p].pc = "idle" /\ experiment[e] # Nothing /\ Startable(e)
  /\ experiment' = [experiment EXCEPT ![e].status = "RUNNING"]
  /\ \/ /\ Goes(p, [Free EXCEPT !.pc = "case", !.on = e, !.todo = Cases(experiment[e].suite)])
        /\ UNCHANGED abandoned
     \/ abandoned' = abandoned \cup {e} /\ UNCHANGED process
  /\ UNCHANGED <<libraryVars, runVars, issue, suites>>

\* The checks before a case, and the case itself, which never fails as a whole.
RunCase(p) ==
  /\ process[p].pc = "case" /\ Running(process[p].on)
  /\ \E r \in process[p].todo, verdict \in Verdicts :
       Goes(p, [process[p] EXCEPT !.pc = "store", !.todo = @ \ {r}, !.next = r, !.verdict = verdict])
  /\ UNCHANGED <<labVars, experiment>>

Stores(e)       == Running(e)
Store(p) ==
  LET e == process[p].on IN
  /\ process[p].pc = "store"
  /\ experiment' = IF Stores(e) THEN [experiment EXCEPT ![e].results[process[p].next] = process[p].verdict]
                   ELSE experiment
  /\ Goes(p, [process[p] EXCEPT !.pc = "case", !.next = Nothing, !.verdict = Nothing])
  /\ UNCHANGED labVars

\* The end of the loop, or of an experiment no longer RUNNING; the last
\* transaction judges what is stored.
AllStored(e) == \A r \in Cases(experiment[e].suite) : experiment[e].results[r] # Nothing  \* mutant: errors pass
Whole(e)     == \A r \in Cases(experiment[e].suite) : experiment[e].results[r] \in {"good", "poor"}
FinishExperiment(p) ==
  LET e == process[p].on IN
  /\ process[p].pc = "case" /\ (process[p].todo = {} \/ ~Running(e))
  /\ IF Running(e) THEN End(e, IF Whole(e) THEN "COMPLETED" ELSE "FAILED", experiment[e].results)
     ELSE UNCHANGED experiment
  /\ Goes(p, Free)
  /\ UNCHANGED labVars

\* An error of the execution itself (deadline, configuration, rights, database):
\* the results are read, then the experiment fails unless it has ended.
Throw(p) ==
  /\ process[p].pc \in {"case", "store"}
  /\ Goes(p, [process[p] EXCEPT !.pc = "failing", !.todo = {}, !.next = Nothing, !.verdict = Nothing,
                                !.seen = experiment[process[p].on].results])
  /\ UNCHANGED <<labVars, experiment>>
LeavesIt(e, seen)  == UNCHANGED experiment                          \* mutant: only the slot is freed
FailsAnyway(e, seen) == End(e, "FAILED", seen)                         \* mutant: over a cancellation
Interrupt(e, seen) == IF Running(e) THEN End(e, "FAILED", seen) ELSE UNCHANGED experiment

\* The process gives its slot back, and the experiment stays as it was stored.
Abandon(p) ==
  /\ Goes(p, Free) /\ abandoned' = abandoned \cup {process[p].on}
  /\ UNCHANGED <<libraryVars, runVars, issue, suites, experiment>>

\* The failure is recorded, unless the database fails that too.
Record(p) == Interrupt(process[p].on, process[p].seen) /\ Goes(p, Free) /\ UNCHANGED labVars
Fail(p)   == process[p].pc = "failing" /\ (Record(p) \/ Abandon(p))

\* The process dies, and its slot with it.
Crash(p) == process[p].pc # "idle" /\ Abandon(p)

-----------------------------------------------------------------------------
(* verifyIssue.                                                            *)

AllGood(x) == \A r \in Cases(x.suite) : x.results[r] = "good"
CohortPassed(x) ==
  /\ AllGood(x) /\ failures # {} /\ accepted # {}
  /\ \A r \in failures : x.suite.kind[r] = "FAILURE"
  /\ \A r \in accepted : x.suite.kind[r] = "GUARDRAIL"
ScopeHasFix(e) == issue.candidate \in e.scope          \* mutant: other publications are not seen
ScopeIsCurrent(e) == e.scope = Published
Verify(e) ==
  /\ experiment[e] # Nothing
  /\ LET x == experiment[e] IN
     /\ x.suite.ofIssue /\ x.purpose = "POST" /\ x.status = "COMPLETED" /\ issue.status = "PUBLISHED"
     /\ issue.candidate \in Published /\ issue.candidate \in x.override
     /\ ScopeIsCurrent(x) /\ CohortPassed(x)
  /\ issue' = [issue EXCEPT !.status = "VERIFIED"]
  /\ UNCHANGED <<libraryVars, runVars, suites, experiment, workVars>>

-----------------------------------------------------------------------------
Next ==
  \/ \E v \in Versions : Publish(v)
  \/ \E d \in Documents : Archive(d)
  \/ \E r \in Runs : Signal(r) \/ Accept(r)
  \/ \E s \in IssueStates, v \in Versions \cup {Nothing} : Update(s, v)
  \/ \E s \in Suite : CreateSuite(s)
  \/ \E e \in Experiments, s \in suites, purpose \in Purposes, override \in SUBSET Versions :
       Cardinality(override) <= MaxOverrides /\ CreateExperiment(e, s, purpose, override)
  \/ \E e \in Experiments : Cancel(e) \/ Verify(e)
  \/ \E p \in Processes, e \in Experiments : Execute(p, e)
  \/ \E p \in Processes : RunCase(p) \/ Store(p) \/ FinishExperiment(p) \/ Throw(p) \/ Fail(p) \/ Crash(p)

Spec == Init /\ [][Next]_vars

-----------------------------------------------------------------------------
(* Properties.                                                             *)

\* However many processes serve it, an organization has one experiment RUNNING
\* (executeBounded counts under the organization's lock).
OneRunning == \A e, f \in Experiments :
  experiment[e] # Nothing /\ Running(e) /\ experiment[f] # Nothing /\ Running(f) => e = f

\* A summary tells what the experiment ended with, and a COMPLETED one judged
\* every case of its suite without an operational error, also if it was ended
\* while a case was under way or its process failed.
EndedIsSound == \A e \in Experiments :
  LET x == experiment[e] IN
  x # Nothing /\ x.status \in Ended =>
    /\ x.summary = x.results
    /\ x.status = "COMPLETED" => \A r \in Cases(x.suite) : x.results[r] \in {"good", "poor"}

\* An issue is VERIFIED on evidence of what is so at that moment: every run
\* that fails or is a guardrail now passed, against exactly what is published
\* now, the fix among it (verifyIssue; suites and scopes were frozen before).
VerifiedReflectsNow == [][issue'.status = "VERIFIED" /\ issue.status # "VERIFIED" =>
  /\ issue.candidate \in Published
  /\ \E e \in Experiments :
       LET x == experiment[e] IN
       /\ x # Nothing /\ x.status = "COMPLETED" /\ x.scope = Published
       /\ \A r \in failures \cup accepted : x.results[r] = "good"]_vars

\* A RUNNING experiment has one process that works on it, and no other joins
\* it; unless it was abandoned, when none does and none ever will: its process
\* died, its start went unacknowledged or its failure could not be recorded.
\* Only a cancellation frees the organization then (executeExperiment).
RunningIsAttended == \A e \in Experiments : experiment[e] # Nothing /\ Running(e) =>
  IF e \in abandoned THEN \A p \in Processes : process[p].on # e
  ELSE \E p \in Processes : \A q \in Processes : process[q].on = e <=> q = p

-----------------------------------------------------------------------------
(* The lab as trials: the processes, their failures and the slots they      *)
(* hold are hidden.                                                         *)

Plan         == [asks : SUBSET Runs, suite : Suite, purpose : Purposes,
                 scope : SUBSET Versions, override : SUBSET Versions]
PlanOf(x)    == IF x = Nothing THEN Nothing
                ELSE [asks |-> Cases(x.suite), suite |-> x.suite, purpose |-> x.purpose,
                      scope |-> x.scope, override |-> x.override]
PhaseOf(x)   == IF x = Nothing THEN "NONE" ELSE x.status
AnswersOf(x) == IF x = Nothing THEN NoResults ELSE x.results
ReportOf(x)  == IF x = Nothing THEN Nothing ELSE x.summary

plan    == [e \in Experiments |-> PlanOf(experiment[e])]
phase   == [e \in Experiments |-> PhaseOf(experiment[e])]
answers == [e \in Experiments |-> AnswersOf(experiment[e])]
report  == [e \in Experiments |-> ReportOf(experiment[e])]
Trial   == INSTANCE Trials WITH Questions <- Runs, Answers <- Verdicts, Conclusive <- {"good", "poor"},
                                Plans <- Plan, None <- Nothing
\* What an experiment tests is settled before it starts and never changes, each
\* case is judged once and while it is RUNNING, its summary is of the results it
\* ended with, and what ended stays as it ended, whatever its process still
\* finds, fails at or dies in (executeBounded, cancelExperiment).
ImplementsTrials == Trial!Spec
=============================================================================
