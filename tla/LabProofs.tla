----------------------------- MODULE LabProofs ------------------------------
(***************************************************************************)
(* The reliability lab for any number of documents, runs, experiments and  *)
(* processes: one experiment runs at a time and is attended, what ended is *)
(* sound and stays as it is, and an issue is verified on what is so then.  *)
(*                                                                         *)
(* A process works on an experiment that has left DRAFT and that no other  *)
(* process works on; so the results it read when its execution failed are  *)
(* still those of the experiment when it writes them as the summary.       *)
(***************************************************************************)
EXTENDS Lab, TLAPS

Working(p) == process[p].pc # "idle"

\* Who works on what.
Attended ==
  /\ \A p \in Processes :
       /\ ~Working(p) => process[p].on = Nothing
       /\ Working(p) => /\ process[p].on \in Experiments
                        /\ experiment[process[p].on] \in Experiment
                        /\ experiment[process[p].on].status # "DRAFT"
       /\ process[p].pc = "failing" => process[p].seen = experiment[process[p].on].results
  /\ \A p, q \in Processes : Working(p) /\ Working(q) /\ process[p].on = process[q].on => p = q

LEMMA Consts == /\ Failing \in Runs /\ Nothing \notin Runs /\ Nothing \notin Experiments
                /\ Nothing \notin Kinds /\ Nothing \notin Experiment
                /\ Versions \subseteq Documents \X (Nat \ {0})
  BY LabAssumption, NothingAssumption

LEMMA ExperimentIs ==
  ASSUME NEW x \in Experiment
  PROVE  /\ \A s \in {"DRAFT", "RUNNING"} \cup Ended : [x EXCEPT !.status = s] \in Experiment
         /\ \A s \in Ended, r \in Results \cup {Nothing} : [x EXCEPT !.status = s, !.summary = r] \in Experiment
         /\ \A r \in Results : [x EXCEPT !.results = r] \in Experiment
  BY DEF Experiment

LEMMA EndIs ==
  ASSUME TypeOK, NEW e \in Experiments, experiment[e] \in Experiment, NEW s \in Ended,
         NEW r \in Results \cup {Nothing}, End(e, s, r)
  PROVE  /\ experiment' \in [Experiments -> Experiment \cup {Nothing}]
         /\ experiment'[e] \in Experiment /\ experiment'[e].status = s /\ experiment'[e].summary = r
         /\ experiment'[e].results = experiment[e].results /\ experiment'[e].suite = experiment[e].suite
         /\ \A f \in Experiments : f # e => experiment'[f] = experiment[f]
<1>1. experiment[e] \in Experiment
  OBVIOUS
<1>2. experiment' = [experiment EXCEPT ![e] = [experiment[e] EXCEPT !.status = s, !.summary = r]]
  BY DEF End
<1>3. [experiment[e] EXCEPT !.status = s, !.summary = r] \in Experiment
  BY <1>1, ExperimentIs
<1>4. /\ [experiment[e] EXCEPT !.status = s, !.summary = r].status = s
      /\ [experiment[e] EXCEPT !.status = s, !.summary = r].summary = r
      /\ [experiment[e] EXCEPT !.status = s, !.summary = r].results = experiment[e].results
      /\ [experiment[e] EXCEPT !.status = s, !.summary = r].suite = experiment[e].suite
  BY <1>1 DEF Experiment
<1> QED  BY <1>2, <1>3, <1>4 DEF TypeOK

LEMMA GoesIs ==
  ASSUME TypeOK, NEW p \in Processes, NEW x \in Process, Goes(p, x)
  PROVE  /\ process' \in [Processes -> Process] /\ process'[p] = x
         /\ \A q \in Processes : q # p => process'[q] = process[q]
  BY DEF Goes, TypeOK

LEMMA FreeIs == Free \in Process /\ Free.pc = "idle" /\ Free.on = Nothing
  BY DEF Free, Process

-----------------------------------------------------------------------------
(* What each step does to the experiments and the processes.               *)

ExperimentsTyped == experiment \in [Experiments -> Experiment \cup {Nothing}]
ProcessesTyped == process \in [Processes -> Process]
LabShaped == ExperimentsTyped /\ ProcessesTyped /\ abandoned \subseteq Experiments

LEMMA CreateIs ==
  ASSUME TypeOK, NEW e \in Experiments, NEW s \in suites, NEW purpose \in Purposes, NEW override \in SUBSET Versions,
         CreateExperiment(e, s, purpose, override)
  PROVE  /\ LabShaped' /\ experiment[e] = Nothing /\ UNCHANGED <<process, abandoned>>
         /\ experiment'[e].status = "DRAFT"
         /\ \A f \in Experiments : f # e => experiment'[f] = experiment[f]
<1> DEFINE x == [status |-> "DRAFT", suite |-> s, purpose |-> purpose, override |-> override,
                 scope |-> {v \in Published : \A w \in override : w[1] # v[1]} \cup override,
                 results |-> NoResults, summary |-> Nothing]
<1>1. s \in Suite /\ Published \subseteq Versions /\ NoResults \in Results
  BY DEF TypeOK, Published, NoResults, Results
<1>2. x \in Experiment /\ x.status = "DRAFT"
  BY <1>1 DEF Experiment
<1>3. experiment' = [experiment EXCEPT ![e] = x] /\ experiment[e] = Nothing /\ UNCHANGED <<process, abandoned>>
  BY DEF CreateExperiment, workVars
<1> HIDE DEF x
<1> QED  BY <1>2, <1>3 DEF TypeOK, LabShaped, ExperimentsTyped, ProcessesTyped

LEMMA CancelIs ==
  ASSUME TypeOK, NEW e \in Experiments, Cancel(e)
  PROVE  /\ LabShaped' /\ UNCHANGED <<process, abandoned>>
         /\ experiment[e] # Nothing /\ experiment[e].status \in {"DRAFT", "RUNNING"}
         /\ experiment'[e] \in Experiment /\ experiment'[e].status = "CANCELLED" /\ experiment'[e].summary = experiment[e].results
         /\ experiment'[e].results = experiment[e].results
         /\ \A f \in Experiments : f # e => experiment'[f] = experiment[f]
<1>1. experiment[e] # Nothing /\ experiment[e].status \in {"DRAFT", "RUNNING"}
      /\ End(e, "CANCELLED", experiment[e].results) /\ UNCHANGED <<process, abandoned>>
  BY DEF Cancel, workVars
<1>2. experiment[e] \in Experiment /\ experiment[e].results \in Results /\ "CANCELLED" \in Ended
  BY <1>1 DEF TypeOK, Experiment, Ended
<1> QED  BY <1>1, <1>2, EndIs DEF TypeOK, LabShaped, ExperimentsTyped, ProcessesTyped

LEMMA ExecuteIs ==
  ASSUME TypeOK, NEW p \in Processes, NEW e \in Experiments, Execute(p, e)
  PROVE  /\ LabShaped' /\ ~Working(p) /\ Startable(e)
         /\ experiment[e] # Nothing /\ experiment[e].status = "DRAFT"
         /\ experiment'[e] \in Experiment /\ experiment'[e].status = "RUNNING"
         /\ \A f \in Experiments : f # e => experiment'[f] = experiment[f]
         /\ \A q \in Processes : q # p => process'[q] = process[q]
         /\ \/ process'[p].pc = "case" /\ process'[p].on = e /\ UNCHANGED abandoned
            \/ process' = process /\ abandoned' = abandoned \cup {e}
<1> DEFINE x == [experiment[e] EXCEPT !.status = "RUNNING"]
           y == [Free EXCEPT !.pc = "case", !.on = e, !.todo = Cases(experiment[e].suite)]
<1>1. /\ experiment[e] # Nothing /\ experiment[e] \in Experiment /\ experiment[e].status = "DRAFT"
      /\ experiment' = [experiment EXCEPT ![e] = x] /\ Startable(e) /\ ~Working(p)
  BY DEF Execute, Startable, Working, TypeOK
<1>2. x \in Experiment /\ x.status = "RUNNING"
  BY <1>1, ExperimentIs DEF Experiment
<1>3. Cases(experiment[e].suite) \subseteq Runs
  BY DEF Cases
<1>4. y \in Process /\ y.pc = "case" /\ y.on = e
  BY <1>3 DEF Free, Process
<1>5. \/ Goes(p, y) /\ UNCHANGED abandoned
      \/ process' = process /\ abandoned' = abandoned \cup {e}
  BY DEF Execute
<1> HIDE DEF x, y
<1>6. ExperimentsTyped'
  BY <1>1, <1>2 DEF TypeOK, ExperimentsTyped
<1>7. /\ experiment'[e] \in Experiment /\ experiment'[e].status = "RUNNING"
      /\ \A f \in Experiments : f # e => experiment'[f] = experiment[f]
  BY <1>1, <1>2 DEF TypeOK
<1>8. CASE Goes(p, y) /\ UNCHANGED abandoned
  <2>1. /\ process' \in [Processes -> Process] /\ process'[p] = y
        /\ \A q \in Processes : q # p => process'[q] = process[q]
    BY <1>4, <1>8, GoesIs
  <2> QED  BY <1>1, <1>4, <1>6, <1>7, <1>8, <2>1 DEF TypeOK, LabShaped, ProcessesTyped
<1>9. CASE process' = process /\ abandoned' = abandoned \cup {e}
  BY <1>1, <1>6, <1>7, <1>9 DEF TypeOK, LabShaped, ProcessesTyped
<1> QED  BY <1>5, <1>8, <1>9

LEMMA RunCaseIs ==
  ASSUME TypeOK, NEW p \in Processes, RunCase(p)
  PROVE  /\ LabShaped' /\ UNCHANGED <<experiment, abandoned>> /\ Working(p)
         /\ process'[p].pc = "store" /\ process'[p].on = process[p].on
         /\ \A q \in Processes : q # p => process'[q] = process[q]
<1> PICK r \in process[p].todo, verdict \in Verdicts :
           Goes(p, [process[p] EXCEPT !.pc = "store", !.todo = process[p].todo \ {r}, !.next = r, !.verdict = verdict])
  BY DEF RunCase
<1> DEFINE y == [process[p] EXCEPT !.pc = "store", !.todo = process[p].todo \ {r}, !.next = r, !.verdict = verdict]
<1>1. process[p] \in Process /\ Working(p) /\ UNCHANGED <<experiment, abandoned>>
  BY DEF RunCase, TypeOK, Working, labVars
<1>2. y \in Process /\ y.pc = "store" /\ y.on = process[p].on
  BY <1>1 DEF Process
<1>3. Goes(p, y)
  OBVIOUS
<1> HIDE DEF y
<1> QED  BY <1>1, <1>2, <1>3, GoesIs DEF TypeOK, LabShaped, ExperimentsTyped, ProcessesTyped

LEMMA StoreIs ==
  ASSUME TypeOK, Attended, NEW p \in Processes, Store(p)
  PROVE  /\ LabShaped' /\ UNCHANGED abandoned /\ Working(p)
         /\ process'[p].pc = "case" /\ process'[p].on = process[p].on
         /\ \A q \in Processes : q # p => process'[q] = process[q]
         /\ ~Running(process[p].on) => experiment' = experiment
         /\ experiment'[process[p].on] \in Experiment
         /\ experiment'[process[p].on].status = experiment[process[p].on].status
         /\ \A f \in Experiments : f # process[p].on => experiment'[f] = experiment[f]
<1> DEFINE e == process[p].on
           y == [process[p] EXCEPT !.pc = "case", !.next = Nothing, !.verdict = Nothing]
           r == [experiment[e].results EXCEPT ![process[p].next] = process[p].verdict]
           x == [experiment[e] EXCEPT !.results = r]
<1>1. process[p] \in Process /\ Working(p) /\ UNCHANGED abandoned /\ Goes(p, y)
  BY DEF Store, TypeOK, Working, labVars
<1>2. e \in Experiments /\ experiment[e] \in Experiment
  BY <1>1 DEF Attended
<1>3. y \in Process /\ y.pc = "case" /\ y.on = e
  BY <1>1 DEF Process
<1>4. r \in Results
  BY <1>1, <1>2 DEF Experiment, Results, Process
<1>5. x \in Experiment /\ x.status = experiment[e].status
  <2> HIDE DEF r, e
  <2> QED  BY <1>2, <1>4, ExperimentIs DEF Experiment
<1>6. experiment' = IF Running(e) THEN [experiment EXCEPT ![e] = x] ELSE experiment
  BY <1>2 DEF Store, Stores, TypeOK
<1> HIDE DEF x, y, e
<1>7. /\ process' \in [Processes -> Process] /\ process'[p] = y
      /\ \A q \in Processes : q # p => process'[q] = process[q]
  BY <1>1, <1>3, GoesIs
<1> QED  BY <1>1, <1>2, <1>3, <1>5, <1>6, <1>7 DEF TypeOK, LabShaped, ExperimentsTyped, ProcessesTyped, e

LEMMA ThrowIs ==
  ASSUME TypeOK, Attended, NEW p \in Processes, Throw(p)
  PROVE  /\ LabShaped' /\ UNCHANGED <<experiment, abandoned>> /\ Working(p)
         /\ process'[p].pc = "failing" /\ process'[p].on = process[p].on
         /\ process'[p].seen = experiment[process[p].on].results
         /\ \A q \in Processes : q # p => process'[q] = process[q]
<1> DEFINE e == process[p].on
           y == [process[p] EXCEPT !.pc = "failing", !.todo = {}, !.next = Nothing, !.verdict = Nothing,
                                   !.seen = experiment[e].results]
<1>1. process[p] \in Process /\ Working(p) /\ UNCHANGED <<experiment, abandoned>> /\ Goes(p, y)
  BY DEF Throw, TypeOK, Working, labVars
<1>2. e \in Experiments /\ experiment[e].results \in Results
  BY <1>1 DEF Attended, Experiment
<1>3. y \in Process /\ y.pc = "failing" /\ y.on = e /\ y.seen = experiment[e].results
  BY <1>1, <1>2 DEF Process
<1> HIDE DEF y
<1>4. /\ process' \in [Processes -> Process] /\ process'[p] = y
      /\ \A q \in Processes : q # p => process'[q] = process[q]
  BY <1>1, <1>3, GoesIs
<1> QED  BY <1>1, <1>3, <1>4 DEF TypeOK, LabShaped, ExperimentsTyped, ProcessesTyped

\* A failure is recorded, or it leaves what a death of the process leaves.
Recorded(p) == process[p].pc = "failing" /\ Record(p)
LEMMA FailIs == ASSUME NEW p \in Processes, Fail(p) PROVE Recorded(p) \/ Crash(p)
  BY DEF Fail, Recorded, Crash

\* An execution returns: the experiment, if it still runs, ends soundly.
LEMMA StopIs ==
  ASSUME TypeOK, Attended, NEW p \in Processes, FinishExperiment(p) \/ Recorded(p)
  PROVE  LET e == process[p].on IN
         /\ LabShaped' /\ UNCHANGED abandoned /\ Working(p) /\ process'[p] = Free
         /\ \A q \in Processes : q # p => process'[q] = process[q]
         /\ ~Running(e) => experiment' = experiment
         /\ Running(e) => /\ experiment'[e] \in Experiment /\ experiment'[e].status \in Ended
                          /\ experiment'[e].summary = experiment'[e].results
                          /\ experiment'[e].status = "COMPLETED" =>
                               \A r \in Cases(experiment'[e].suite) : experiment'[e].results[r] \in {"good", "poor"}
         /\ \A f \in Experiments : f # e => experiment'[f] = experiment[f]
<1>1. Working(p) /\ Goes(p, Free) /\ UNCHANGED abandoned
  BY DEF FinishExperiment, Recorded, Record, Working, labVars
<1> PICK e \in Experiments : e = process[p].on
  BY <1>1 DEF Attended
<1>2. /\ experiment[e] \in Experiment /\ experiment[e].results \in Results
      /\ process[p].pc = "failing" => process[p].seen = experiment[e].results
  BY <1>1 DEF Attended, Experiment
<1>3. \/ ~Running(e) /\ experiment' = experiment
      \/ /\ Running(e)
         /\ \E s \in Ended : End(e, s, experiment[e].results) /\ (s = "COMPLETED" => Whole(e))
  <2>1. CASE FinishExperiment(p)
    BY <2>1 DEF FinishExperiment, Ended
  <2>2. CASE Recorded(p)
    <3>1. process[p].seen = experiment[e].results
      BY <1>2, <2>2 DEF Recorded
    <3> QED  BY <2>2, <3>1 DEF Recorded, Record, Interrupt, Ended
  <2> QED  BY <2>1, <2>2
<1>4. /\ process' \in [Processes -> Process] /\ process'[p] = Free
      /\ \A q \in Processes : q # p => process'[q] = process[q]
  BY <1>1, FreeIs, GoesIs
<1>5. CASE ~Running(e) /\ experiment' = experiment
  BY <1>1, <1>4, <1>5 DEF TypeOK, LabShaped, ExperimentsTyped, ProcessesTyped
<1>6. ASSUME NEW s \in Ended, End(e, s, experiment[e].results), s = "COMPLETED" => Whole(e)
      PROVE  /\ ExperimentsTyped' /\ experiment'[e] \in Experiment /\ experiment'[e].status \in Ended
             /\ experiment'[e].summary = experiment'[e].results
             /\ experiment'[e].status = "COMPLETED" =>
                  \A r \in Cases(experiment'[e].suite) : experiment'[e].results[r] \in {"good", "poor"}
             /\ \A f \in Experiments : f # e => experiment'[f] = experiment[f]
  <2>1. /\ experiment' \in [Experiments -> Experiment \cup {Nothing}]
        /\ experiment'[e] \in Experiment /\ experiment'[e].status = s /\ experiment'[e].summary = experiment[e].results
        /\ experiment'[e].results = experiment[e].results /\ experiment'[e].suite = experiment[e].suite
        /\ \A f \in Experiments : f # e => experiment'[f] = experiment[f]
    <3> PICK found \in Results : found = experiment[e].results
      BY <1>2
    <3>1. End(e, s, found)
      BY <1>6
    <3>2. /\ experiment' \in [Experiments -> Experiment \cup {Nothing}]
          /\ experiment'[e] \in Experiment /\ experiment'[e].status = s /\ experiment'[e].summary = found
          /\ experiment'[e].results = experiment[e].results /\ experiment'[e].suite = experiment[e].suite
          /\ \A f \in Experiments : f # e => experiment'[f] = experiment[f]
      BY <1>2, <3>1, EndIs
    <3> QED  BY <3>2
  <2> QED  BY <1>6, <2>1 DEF ExperimentsTyped, Whole
<1> QED  BY <1>1, <1>3, <1>4, <1>5, <1>6 DEF TypeOK, LabShaped, ProcessesTyped

LEMMA CrashIs ==
  ASSUME TypeOK, Attended, NEW p \in Processes, Crash(p)
  PROVE  /\ LabShaped' /\ UNCHANGED experiment /\ Working(p) /\ process'[p] = Free
         /\ abandoned' = abandoned \cup {process[p].on}
         /\ \A q \in Processes : q # p => process'[q] = process[q]
<1>1. Working(p) /\ Goes(p, Free) /\ UNCHANGED experiment /\ abandoned' = abandoned \cup {process[p].on}
  BY DEF Crash, Abandon, Working
<1>2. process[p].on \in Experiments
  BY <1>1 DEF Attended
<1> QED  BY <1>1, <1>2, FreeIs, GoesIs DEF TypeOK, LabShaped, ExperimentsTyped, ProcessesTyped

\* The steps of a process, and everything else.
ProcessStep(p) == RunCase(p) \/ Store(p) \/ FinishExperiment(p) \/ Throw(p) \/ Recorded(p) \/ Crash(p)
LabStep == \/ \E p \in Processes : ProcessStep(p) \/ \E e \in Experiments : Execute(p, e)
           \/ \E e \in Experiments : Cancel(e)
           \/ \E e \in Experiments, s \in suites, purpose \in Purposes, override \in SUBSET Versions :
                CreateExperiment(e, s, purpose, override)
OtherStep == \/ \E v \in Versions : Publish(v)
             \/ \E d \in Documents : Archive(d)
             \/ \E r \in Runs : Signal(r) \/ Accept(r)
             \/ \E s \in IssueStates, v \in Versions \cup {Nothing} : Update(s, v)
             \/ \E s \in Suite : CreateSuite(s)
             \/ \E e \in Experiments : Verify(e)

LEMMA StepIs == Next => LabStep \/ OtherStep
  BY FailIs DEF Next, LabStep, OtherStep, ProcessStep

LEMMA OtherIs == OtherStep \/ UNCHANGED vars => UNCHANGED <<experiment, process, abandoned>>
  BY DEF OtherStep, Publish, Archive, Signal, Accept, Update, CreateSuite, Verify, vars, workVars

LEMMA LabStepTyped ==
  ASSUME TypeOK, Attended, LabStep
  PROVE  LabShaped' /\ UNCHANGED <<version, archived, failures, accepted, issue, suites>>
<1>1. LabShaped'
  <2>1. ASSUME NEW p \in Processes, ProcessStep(p) PROVE LabShaped'
    BY <2>1, RunCaseIs, StoreIs, StopIs, ThrowIs, CrashIs DEF ProcessStep
  <2> QED  BY <2>1, ExecuteIs, CancelIs, CreateIs DEF LabStep
<1>2. UNCHANGED <<version, archived, failures, accepted, issue, suites>>
  BY DEF LabStep, ProcessStep, RunCase, Store, FinishExperiment, Throw, Recorded, Record, Crash, Abandon, Execute, Cancel,
         CreateExperiment, labVars, libraryVars, runVars
<1> QED  BY <1>1, <1>2

LEMMA OtherTyped ==
  ASSUME TypeOK, OtherStep \/ UNCHANGED vars
  PROVE  /\ version' \in [Versions -> {"READY", "PUBLISHED", "SUPERSEDED"}] /\ archived' \subseteq Documents
         /\ failures' \subseteq Runs /\ accepted' \subseteq Runs /\ issue' \in Issue /\ suites' \subseteq Suite
<1>1. issue \in Issue /\ issue.candidate \in Versions \cup {Nothing}
  BY DEF TypeOK, Issue
<1>2. ASSUME NEW v \in Versions, Publish(v)
      PROVE  version' \in [Versions -> {"READY", "PUBLISHED", "SUPERSEDED"}] /\ UNCHANGED <<archived, runVars, issue, suites>>
  BY <1>2 DEF Publish, TypeOK
<1>3. ASSUME NEW s \in IssueStates, NEW v \in Versions \cup {Nothing}, Update(s, v)
      PROVE  issue' \in Issue /\ UNCHANGED <<libraryVars, runVars, suites>>
  <2>1. [status |-> s, candidate |-> IF v = Nothing THEN issue.candidate ELSE v] \in Issue
    BY <1>1 DEF Issue
  <2> QED  BY <1>3, <2>1 DEF Update
<1>4. ASSUME NEW e \in Experiments, Verify(e) PROVE issue' \in Issue /\ UNCHANGED <<libraryVars, runVars, suites>>
  <2>1. [issue EXCEPT !.status = "VERIFIED"] \in Issue
    BY <1>1 DEF Issue, IssueStates
  <2> QED  BY <1>4, <2>1 DEF Verify
<1> QED
  BY <1>2, <1>3, <1>4
  DEF OtherStep, Archive, Signal, Accept, CreateSuite, TypeOK, vars, libraryVars, runVars

-----------------------------------------------------------------------------
(* Types, and who works on what.                                           *)

LEMMA TypedNext == TypeOK /\ Attended /\ [Next]_vars => TypeOK'
<1> SUFFICES ASSUME TypeOK, Attended, [Next]_vars PROVE TypeOK'
  OBVIOUS
<1>1. CASE LabStep
  BY <1>1, LabStepTyped DEF TypeOK, LabShaped, ExperimentsTyped, ProcessesTyped
<1>2. CASE OtherStep \/ UNCHANGED vars
  BY <1>2, OtherIs, OtherTyped DEF TypeOK
<1> QED  BY <1>1, <1>2, StepIs

LEMMA AttendedNext == TypeOK /\ Attended /\ [Next]_vars => Attended'
<1> SUFFICES ASSUME TypeOK, Attended, [Next]_vars PROVE Attended'
  OBVIOUS
<1>1. ASSUME UNCHANGED <<experiment, process>> PROVE Attended'
  BY <1>1 DEF Attended, Working
<1>2. ASSUME NEW e \in Experiments, NEW s \in suites, NEW purpose \in Purposes, NEW override \in SUBSET Versions,
             CreateExperiment(e, s, purpose, override)
      PROVE  Attended'
  <2>1. \A q \in Processes : Working(q) => process[q].on # e
    BY <1>2, Consts, CreateIs DEF Attended
  <2> QED  BY <1>2, <2>1, CreateIs DEF Attended, Working
<1>3. ASSUME NEW e \in Experiments, Cancel(e) PROVE Attended'
  BY <1>3, CancelIs DEF Attended, Working
<1>4. ASSUME NEW p \in Processes, NEW e \in Experiments, Execute(p, e) PROVE Attended'
  <2>1. \A q \in Processes : Working(q) => process[q].on # e
    BY <1>4, ExecuteIs DEF Attended
  <2> QED  BY <1>4, <2>1, ExecuteIs DEF Attended, Working
<1>5. ASSUME NEW p \in Processes, RunCase(p) \/ Throw(p) PROVE Attended'
  BY <1>5, RunCaseIs, ThrowIs DEF Attended, Working
<1>6. ASSUME NEW p \in Processes, Store(p) PROVE Attended'
  BY <1>6, StoreIs DEF Attended, Working
<1>7. ASSUME NEW p \in Processes, FinishExperiment(p) \/ Recorded(p) PROVE Attended'
  BY <1>7, StopIs, FreeIs DEF Attended, Working
<1>8. ASSUME NEW p \in Processes, Crash(p) PROVE Attended'
  BY <1>8, CrashIs, FreeIs DEF Attended, Working
<1>9. LabStep => Attended'
  BY <1>2, <1>3, <1>4, <1>5, <1>6, <1>7, <1>8 DEF LabStep, ProcessStep
<1> QED  BY <1>1, <1>9, StepIs, OtherIs

LEMMA TypedInit == Init => TypeOK /\ Attended
<1> SUFFICES ASSUME Init PROVE TypeOK /\ Attended
  OBVIOUS
<1>1. issue \in Issue
  BY DEF Init, Issue, IssueStates
<1>2. process \in [Processes -> Process] /\ \A p \in Processes : process[p] = Free
  BY FreeIs DEF Init
<1>3. TypeOK
  BY <1>1, <1>2, Consts DEF Init, TypeOK
<1> QED  BY <1>2, <1>3, FreeIs DEF Attended, Working

\* Every state has its types, and every execution is on an experiment of its
\* own that has left DRAFT.
THEOREM LabTyped == Spec => [](TypeOK /\ Attended)
<1>1. TypeOK /\ Attended /\ [Next]_vars => (TypeOK /\ Attended)'
  BY TypedNext, AttendedNext
<1> QED  BY <1>1, TypedInit, PTL DEF Spec

-----------------------------------------------------------------------------
(* One experiment runs, and its process is there or left it.               *)

LEMMA OneRunningNext == TypeOK /\ Attended /\ OneRunning /\ [Next]_vars => OneRunning'
<1> SUFFICES ASSUME TypeOK, Attended, OneRunning, [Next]_vars PROVE OneRunning'
  OBVIOUS
<1>1. ASSUME UNCHANGED experiment PROVE OneRunning'
  BY <1>1 DEF OneRunning, Running
<1>2. ASSUME NEW e \in Experiments, \A f \in Experiments : f # e => experiment'[f] = experiment[f],
             experiment'[e].status = "RUNNING" => experiment[e] # Nothing /\ Running(e)
      PROVE  OneRunning'
  BY <1>2 DEF OneRunning, Running
<1>3. ASSUME NEW e \in Experiments, NEW s \in suites, NEW purpose \in Purposes, NEW override \in SUBSET Versions,
             CreateExperiment(e, s, purpose, override)
      PROVE  OneRunning'
  BY <1>2, <1>3, CreateIs
<1>4. ASSUME NEW e \in Experiments, Cancel(e) PROVE OneRunning'
  BY <1>2, <1>4, CancelIs
<1>5. ASSUME NEW p \in Processes, NEW e \in Experiments, Execute(p, e) PROVE OneRunning'
  <2>1. \A f \in Experiments : f # e /\ experiment'[f] # Nothing => experiment'[f].status # "RUNNING"
    BY <1>5, ExecuteIs DEF Startable, Running
  <2> QED  BY <2>1 DEF OneRunning, Running
<1>6. ASSUME NEW p \in Processes, ProcessStep(p) PROVE OneRunning'
  <2>1. CASE UNCHANGED experiment
    BY <1>1, <2>1
  <2>2. CASE ~UNCHANGED experiment
    <3>1. Working(p) /\ Running(process[p].on)
      BY <1>6, <2>2, RunCaseIs, StoreIs, StopIs, ThrowIs, CrashIs DEF ProcessStep
    <3> PICK e \in Experiments : e = process[p].on
      BY <3>1 DEF Attended
    <3>2. experiment[e] # Nothing /\ Running(e) /\ \A f \in Experiments : f # e => experiment'[f] = experiment[f]
      BY <1>6, <3>1, Consts, RunCaseIs, StoreIs, StopIs, ThrowIs, CrashIs DEF ProcessStep, Attended
    <3> QED  BY <1>2, <3>2
  <2> QED  BY <2>1, <2>2
<1>7. LabStep => OneRunning'
  BY <1>3, <1>4, <1>5, <1>6 DEF LabStep
<1> QED  BY <1>1, <1>7, StepIs, OtherIs

\* However many processes serve it, an organization has one experiment RUNNING
\* (the count in executeBounded is taken under the organization's lock).
THEOREM OneExperimentRuns == Spec => []OneRunning
<1>1. Init => OneRunning
  BY DEF Init, OneRunning
<1> QED  BY <1>1, LabTyped, OneRunningNext, PTL DEF Spec

\* Nobody works on what was abandoned, and nobody can start it again.
Deserted == \A e \in abandoned :
  /\ experiment[e] \in Experiment /\ experiment[e].status # "DRAFT"
  /\ \A p \in Processes : process[p].on # e

LEMMA DesertedNext == TypeOK /\ Attended /\ Deserted /\ [Next]_vars => Deserted'
<1> SUFFICES ASSUME TypeOK, Attended, Deserted, [Next]_vars PROVE Deserted'
  OBVIOUS
<1>1. CASE UNCHANGED <<experiment, process, abandoned>>
  BY <1>1 DEF Deserted
<1>2. ASSUME NEW e \in Experiments, NEW s \in suites, NEW purpose \in Purposes, NEW override \in SUBSET Versions,
             CreateExperiment(e, s, purpose, override)
      PROVE  Deserted'
  <2>1. e \notin abandoned /\ abandoned \subseteq Experiments
    BY <1>2, Consts, CreateIs DEF Deserted, TypeOK
  <2> QED  BY <1>2, <2>1, CreateIs DEF Deserted
<1>3. ASSUME NEW e \in Experiments, Cancel(e) PROVE Deserted'
  BY <1>3, CancelIs DEF Deserted, TypeOK
<1>4. ASSUME NEW p \in Processes, NEW e \in Experiments, Execute(p, e) PROVE Deserted'
  <2>1. e \notin abandoned /\ abandoned \subseteq Experiments
    BY <1>4, ExecuteIs DEF Deserted, TypeOK
  <2>2. \A q \in Processes : process[q].on # e
    BY <1>4, Consts, ExecuteIs DEF Attended
  <2> QED  BY <1>4, <2>1, <2>2, ExecuteIs DEF Deserted
<1>5. ASSUME NEW p \in Processes, RunCase(p) \/ Throw(p) \/ Store(p) PROVE Deserted'
  <2>1. UNCHANGED abandoned /\ \A q \in Processes : process'[q].on = process[q].on
    BY <1>5, RunCaseIs, ThrowIs, StoreIs
  <2>2. \A e \in Experiments : experiment'[e] = experiment[e] \/ process[p].on = e
    BY <1>5, RunCaseIs, ThrowIs, StoreIs
  <2> QED  BY <2>1, <2>2 DEF Deserted, TypeOK
<1>6. ASSUME NEW p \in Processes, FinishExperiment(p) \/ Recorded(p) PROVE Deserted'
  BY <1>6, Consts, FreeIs, StopIs DEF Deserted, TypeOK
<1>7. ASSUME NEW p \in Processes, Crash(p) PROVE Deserted'
  <2>1. /\ Working(p) /\ process[p].on \in Experiments /\ experiment[process[p].on] \in Experiment
        /\ experiment[process[p].on].status # "DRAFT"
    BY <1>7, CrashIs DEF Attended
  <2>2. \A q \in Processes : process'[q].on # process[p].on
    BY <1>7, <2>1, Consts, FreeIs, CrashIs DEF Attended
  <2>3. \A q \in Processes : process'[q].on \in {process[q].on, Nothing}
    BY <1>7, FreeIs, CrashIs
  <2> QED  BY <1>7, <2>1, <2>2, <2>3, Consts, CrashIs DEF Deserted, TypeOK
<1>8. LabStep => Deserted'
  BY <1>2, <1>3, <1>4, <1>5, <1>6, <1>7 DEF LabStep, ProcessStep
<1> QED  BY <1>1, <1>8, StepIs, OtherIs

\* What runs and was not abandoned has its process.
Served == \A e \in Experiments : experiment[e] # Nothing /\ Running(e) =>
  e \in abandoned \/ \E p \in Processes : process[p].on = e

LEMMA ServedNext == TypeOK /\ Attended /\ Served /\ [Next]_vars => Served'
<1> SUFFICES ASSUME TypeOK, Attended, Served, [Next]_vars,
                    NEW e \in Experiments, experiment'[e] # Nothing, experiment'[e].status = "RUNNING"
             PROVE  e \in abandoned' \/ \E p \in Processes : process'[p].on = e
  BY DEF Served, Running
<1>1. ASSUME experiment'[e] = experiment[e]
      PROVE  e \in abandoned \/ \E p \in Processes : process[p].on = e
  BY <1>1 DEF Served, Running
<1>2. CASE UNCHANGED <<experiment, process, abandoned>>
  BY <1>1, <1>2
<1>3. ASSUME NEW f \in Experiments, NEW s \in suites, NEW purpose \in Purposes, NEW override \in SUBSET Versions,
             CreateExperiment(f, s, purpose, override)
      PROVE  e \in abandoned' \/ \E p \in Processes : process'[p].on = e
  BY <1>1, <1>3, CreateIs
<1>4. ASSUME NEW f \in Experiments, Cancel(f)
      PROVE  e \in abandoned' \/ \E p \in Processes : process'[p].on = e
  BY <1>1, <1>4, CancelIs
<1>5. ASSUME NEW p \in Processes, NEW f \in Experiments, Execute(p, f)
      PROVE  e \in abandoned' \/ \E q \in Processes : process'[q].on = e
  <2>1. CASE e = f
    BY <1>5, <2>1, ExecuteIs
  <2>2. CASE e # f
    <3>1. process[p].on = Nothing /\ experiment'[e] = experiment[e]
      BY <1>5, <2>2, ExecuteIs DEF Attended
    <3> QED  BY <1>1, <1>5, <3>1, Consts, ExecuteIs
  <2> QED  BY <2>1, <2>2
<1>6. ASSUME NEW p \in Processes, RunCase(p) \/ Throw(p) \/ Store(p)
      PROVE  e \in abandoned' \/ \E q \in Processes : process'[q].on = e
  <2>1. UNCHANGED abandoned /\ \A q \in Processes : process'[q].on = process[q].on
    BY <1>6, RunCaseIs, ThrowIs, StoreIs
  <2>2. experiment'[e] = experiment[e] \/ process[p].on = e
    BY <1>6, RunCaseIs, ThrowIs, StoreIs
  <2> QED  BY <1>1, <2>1, <2>2
<1>7. ASSUME NEW p \in Processes, FinishExperiment(p) \/ Recorded(p)
      PROVE  e \in abandoned' \/ \E q \in Processes : process'[q].on = e
  <2>1. CASE process[p].on = e
    <3>1. experiment'[e].status # "RUNNING"
      BY <1>7, <2>1, StopIs DEF Ended, Running
    <3> QED  BY <3>1
  <2>2. CASE process[p].on # e
    BY <1>1, <1>7, <2>2, StopIs
  <2> QED  BY <2>1, <2>2
<1>8. ASSUME NEW p \in Processes, Crash(p)
      PROVE  e \in abandoned' \/ \E q \in Processes : process'[q].on = e
  BY <1>1, <1>8, CrashIs
<1>9. LabStep => e \in abandoned' \/ \E q \in Processes : process'[q].on = e
  BY <1>3, <1>4, <1>5, <1>6, <1>7, <1>8 DEF LabStep, ProcessStep
<1> QED  BY <1>2, <1>9, StepIs, OtherIs

\* A RUNNING experiment has one process for ever, or was abandoned and has none
\* for ever, whatever is refused, lost, cancelled or dies (executeExperiment).
THEOREM ExecutionsAttend == Spec => []RunningIsAttended
<1>1. Init => Deserted /\ Served
  BY DEF Init, Deserted, Served
<1>2. Attended /\ Deserted /\ Served => RunningIsAttended
  <2> SUFFICES ASSUME Attended, Deserted, Served, NEW e \in Experiments, experiment[e] # Nothing, Running(e),
                      e \notin abandoned
               PROVE  \E p \in Processes : \A q \in Processes : process[q].on = e <=> q = p
    BY DEF RunningIsAttended, Deserted
  <2> PICK p \in Processes : process[p].on = e
    BY DEF Served
  <2>1. ASSUME NEW q \in Processes, process[q].on = e PROVE q = p
    BY <2>1, Consts DEF Attended
  <2> QED  BY <2>1
<1> QED  BY <1>1, <1>2, LabTyped, DesertedNext, ServedNext, PTL DEF Spec

-----------------------------------------------------------------------------
(* What ended.                                                             *)

LEMMA Frozen ==
  ASSUME TypeOK, Attended, [Next]_vars, NEW e \in Experiments,
         experiment[e] # Nothing, experiment[e].status \in Ended
  PROVE  experiment'[e] = experiment[e]
<1>1. experiment[e].status \notin {"DRAFT", "RUNNING"}
  BY DEF Ended
<1>2. ASSUME NEW p \in Processes, ProcessStep(p) PROVE experiment'[e] = experiment[e]
  BY <1>1, <1>2, RunCaseIs, StoreIs, StopIs, ThrowIs, CrashIs DEF ProcessStep, Running
<1>3. LabStep => experiment'[e] = experiment[e]
  BY <1>1, <1>2, CreateIs, CancelIs, ExecuteIs DEF LabStep
<1> QED  BY <1>3, StepIs, OtherIs

\* What ended stays as it ended, whatever its process still finds.
EndedIsFrozen == [][\A e \in Experiments :
  experiment[e] # Nothing /\ experiment[e].status \in Ended => experiment'[e] = experiment[e]]_vars

\* No late case, late failure, cancellation or other process writes to it.
THEOREM EndingsAreFinal == Spec => EndedIsFrozen
<1>1. TypeOK /\ Attended /\ [Next]_vars =>
        [\A e \in Experiments :
           experiment[e] # Nothing /\ experiment[e].status \in Ended => experiment'[e] = experiment[e]]_vars
  BY Frozen
<1> QED  BY <1>1, LabTyped, PTL DEF Spec, EndedIsFrozen

LEMMA EndsSoundly ==
  ASSUME TypeOK, Attended, [Next]_vars, NEW e \in Experiments,
         experiment'[e] # experiment[e], experiment'[e].status \in Ended
  PROVE  /\ experiment'[e].summary = experiment'[e].results
         /\ experiment'[e].status = "COMPLETED" =>
              \A r \in Cases(experiment'[e].suite) : experiment'[e].results[r] \in {"good", "poor"}
<1> DEFINE Goal == /\ experiment'[e].summary = experiment'[e].results
                   /\ experiment'[e].status = "COMPLETED" =>
                        \A r \in Cases(experiment'[e].suite) : experiment'[e].results[r] \in {"good", "poor"}
<1>1. experiment'[e].status \notin {"DRAFT", "RUNNING"}
  BY DEF Ended
<1>2. ASSUME NEW f \in Experiments, Cancel(f) PROVE Goal
  BY <1>2, CancelIs
<1>3. ASSUME NEW p \in Processes, FinishExperiment(p) \/ Recorded(p) PROVE Goal
  BY <1>3, StopIs
<1>4. ASSUME NEW p \in Processes, Store(p) PROVE Goal
  BY <1>1, <1>4, StoreIs DEF Running
<1>5. ASSUME NEW p \in Processes, ProcessStep(p) PROVE Goal
  <2>1. ~UNCHANGED experiment
    OBVIOUS
  <2> QED  BY <1>3, <1>4, <1>5, <2>1, RunCaseIs, ThrowIs, CrashIs DEF ProcessStep
<1>6. ASSUME NEW f \in Experiments, NEW s \in suites, NEW purpose \in Purposes, NEW override \in SUBSET Versions,
             CreateExperiment(f, s, purpose, override)
      PROVE  Goal
  BY <1>1, <1>6, CreateIs
<1>7. ASSUME NEW p \in Processes, NEW f \in Experiments, Execute(p, f) PROVE Goal
  BY <1>1, <1>7, ExecuteIs
<1>8. LabStep => Goal
  <2> HIDE DEF Goal
  <2> QED  BY <1>2, <1>5, <1>6, <1>7 DEF LabStep
<1> QED  BY <1>8, StepIs, OtherIs

\* A summary tells what the experiment ended with, and a COMPLETED one judged
\* every case without an operational error, whoever ended it (executeBounded,
\* cancelExperiment).
THEOREM EndingsAreSound == Spec => []EndedIsSound
<1>1. Init => EndedIsSound
  BY DEF Init, EndedIsSound
<1>2. TypeOK /\ Attended /\ EndedIsSound /\ [Next]_vars => EndedIsSound'
  <2> SUFFICES ASSUME TypeOK, Attended, EndedIsSound, [Next]_vars,
                      NEW e \in Experiments, experiment'[e] # Nothing, experiment'[e].status \in Ended
               PROVE  /\ experiment'[e].summary = experiment'[e].results
                      /\ experiment'[e].status = "COMPLETED" =>
                           \A r \in Cases(experiment'[e].suite) : experiment'[e].results[r] \in {"good", "poor"}
    BY DEF EndedIsSound
  <2>1. CASE experiment'[e] = experiment[e]
    BY <2>1 DEF EndedIsSound
  <2> QED  BY <2>1, EndsSoundly
<1> QED  BY <1>1, <1>2, LabTyped, PTL DEF Spec

-----------------------------------------------------------------------------
(* Verification.                                                           *)

\* An issue becomes VERIFIED on evidence of what is so at that moment, although
\* suites and scopes were frozen before (verifyIssue).
THEOREM VerificationIsCurrent == Spec => VerifiedReflectsNow
<1> DEFINE Evidence ==
      /\ issue.candidate \in Published
      /\ \E e \in Experiments :
           LET x == experiment[e] IN
           /\ x # Nothing /\ x.status = "COMPLETED" /\ x.scope = Published
           /\ \A r \in failures \cup accepted : x.results[r] = "good"
<1>1. ASSUME TypeOK, NEW e \in Experiments, Verify(e) PROVE Evidence
  <2>1. \A r \in failures \cup accepted : r \in Runs /\ experiment[e].suite.kind[r] # Nothing
    BY <1>1, Consts DEF Verify, CohortPassed, Kinds, TypeOK
  <2>2. \A r \in failures \cup accepted : experiment[e].results[r] = "good"
    BY <1>1, <2>1 DEF Verify, CohortPassed, AllGood, Cases
  <2> QED  BY <1>1, <2>2 DEF Verify, ScopeIsCurrent
<1>2. ASSUME TypeOK, Attended, [Next]_vars, issue'.status = "VERIFIED", issue.status # "VERIFIED"
      PROVE  \E e \in Experiments : Verify(e)
  <2>1. ASSUME NEW s \in IssueStates, NEW v \in Versions \cup {Nothing}, Update(s, v) PROVE FALSE
    <3>1. s = "VERIFIED"
      BY <1>2, <2>1 DEF Update
    <3>2. issue.status \in IssueStates
      BY <1>2 DEF TypeOK, Issue
    <3>3. "VERIFIED" \notin Transitions(issue.status)
      BY <3>2 DEF Transitions, IssueStates
    <3> QED  BY <2>1, <3>1, <3>3 DEF Update
  <2>2. issue' # issue
    BY <1>2
  <2>3. ~LabStep
    BY <1>2, <2>2, LabStepTyped
  <2>4. OtherStep => \E e \in Experiments : Verify(e)
    BY <2>1, <2>2 DEF OtherStep, Publish, Archive, Signal, Accept, CreateSuite
  <2> QED  BY <1>2, <2>2, <2>3, <2>4, StepIs DEF vars
<1>3. TypeOK /\ Attended /\ [Next]_vars =>
        [issue'.status = "VERIFIED" /\ issue.status # "VERIFIED" => Evidence]_vars
  BY <1>1, <1>2
<1> QED  BY <1>3, LabTyped, PTL DEF Spec, VerifiedReflectsNow
-----------------------------------------------------------------------------
(* The lab as trials: each case is judged once.                            *)

\* An experiment that has not started has no results.
Blank == \A e \in Experiments :
  experiment[e] # Nothing /\ experiment[e].status = "DRAFT" => experiment[e].results = NoResults

\* What execution x of experiment y has still to judge is of its suite and not
\* stored, nor is what it is about to store.
FreshOf(x, y) ==
  /\ x.pc \in {"case", "store"} => \A r \in x.todo : r \in Cases(y.suite) /\ y.results[r] = Nothing
  /\ x.pc = "store" => /\ x.next \in Cases(y.suite) /\ x.next \notin x.todo
                       /\ y.results[x.next] = Nothing /\ x.verdict \in Verdicts
Fresh == \A p \in Processes : FreshOf(process[p], experiment[process[p].on])

\* How an experiment is read as a trial.
LEMMA ReadAs ==
  ASSUME NEW x \in Experiment
  PROVE  /\ PlanOf(x) = [asks |-> Cases(x.suite), suite |-> x.suite, purpose |-> x.purpose,
                         scope |-> x.scope, override |-> x.override]
         /\ PlanOf(x) \in Plan /\ PlanOf(x).asks = Cases(x.suite)
         /\ PhaseOf(x) = x.status /\ AnswersOf(x) = x.results /\ ReportOf(x) = x.summary
<1>1. x # Nothing
  BY Consts
<1>2. PlanOf(x) = [asks |-> Cases(x.suite), suite |-> x.suite, purpose |-> x.purpose,
                   scope |-> x.scope, override |-> x.override]
  BY <1>1 DEF PlanOf
<1>3. Cases(x.suite) \in SUBSET Runs
  BY DEF Cases
<1>4. PlanOf(x) \in Plan
  BY <1>2, <1>3 DEF Plan, Experiment
<1> QED  BY <1>1, <1>2, <1>4 DEF PhaseOf, AnswersOf, ReportOf

\* A step of one experiment, read as one of its trial.
LEMMA OneChanges ==
  ASSUME NEW e \in Experiments, \A f \in Experiments : f # e => experiment'[f] = experiment[f]
  PROVE  /\ plan' = [plan EXCEPT ![e] = PlanOf(experiment'[e])]
         /\ phase' = [phase EXCEPT ![e] = PhaseOf(experiment'[e])]
         /\ answers' = [answers EXCEPT ![e] = AnswersOf(experiment'[e])]
         /\ report' = [report EXCEPT ![e] = ReportOf(experiment'[e])]
  BY DEF plan, phase, answers, report

\* What is the same in the experiment is the same in its trial.
LEMMA OneKeeps ==
  ASSUME NEW e \in Experiments, \A f \in Experiments : f # e => experiment'[f] = experiment[f]
  PROVE  /\ PlanOf(experiment'[e]) = PlanOf(experiment[e]) => plan' = plan
         /\ AnswersOf(experiment'[e]) = AnswersOf(experiment[e]) => answers' = answers
         /\ ReportOf(experiment'[e]) = ReportOf(experiment[e]) => report' = report
         /\ PhaseOf(experiment'[e]) = PhaseOf(experiment[e]) => phase' = phase
  BY DEF plan, phase, answers, report

LEMMA TrialOf ==
  ASSUME NEW e \in Experiments
  PROVE  /\ plan[e] = PlanOf(experiment[e]) /\ phase[e] = PhaseOf(experiment[e])
         /\ answers[e] = AnswersOf(experiment[e]) /\ report[e] = ReportOf(experiment[e])
  BY DEF plan, phase, answers, report

\* What it tests is the same, and so is its plan.
LEMMA SamePlan ==
  ASSUME NEW x \in Experiment, NEW y \in Experiment,
         y.suite = x.suite, y.purpose = x.purpose, y.scope = x.scope, y.override = x.override
  PROVE  PlanOf(y) = PlanOf(x)
  BY ReadAs

\* A new experiment is a draft: it has a plan and no results.
LEMMA CreateDrafts ==
  ASSUME TypeOK, NEW e \in Experiments, NEW s \in suites, NEW purpose \in Purposes, NEW override \in SUBSET Versions,
         CreateExperiment(e, s, purpose, override)
  PROVE  /\ Trial!Draft(e) /\ experiment[e] = Nothing /\ UNCHANGED process
         /\ experiment'[e] \in Experiment /\ experiment'[e].results = NoResults
         /\ \A f \in Experiments : f # e => experiment'[f] = experiment[f]
<1> DEFINE x == [status |-> "DRAFT", suite |-> s, purpose |-> purpose, override |-> override,
                 scope |-> {v \in Published : \A w \in override : w[1] # v[1]} \cup override,
                 results |-> NoResults, summary |-> Nothing]
<1>1. s \in Suite /\ Published \subseteq Versions /\ NoResults \in Results
  BY DEF TypeOK, Published, NoResults, Results
<1>2. x \in Experiment /\ x.status = "DRAFT" /\ x.results = NoResults /\ x.summary = Nothing
  BY <1>1 DEF Experiment
<1>3. experiment' = [experiment EXCEPT ![e] = x] /\ experiment[e] = Nothing /\ UNCHANGED process
  BY DEF CreateExperiment, workVars
<1> HIDE DEF x
<1>4. experiment'[e] = x /\ \A f \in Experiments : f # e => experiment'[f] = experiment[f]
  BY <1>3 DEF TypeOK
<1>5. PhaseOf(x) = "DRAFT" /\ AnswersOf(x) = NoResults /\ ReportOf(x) = Nothing /\ PlanOf(x) \in Plan
  BY <1>2, ReadAs
<1>6. phase[e] = "NONE" /\ AnswersOf(experiment[e]) = NoResults /\ ReportOf(experiment[e]) = Nothing
  BY <1>3, TrialOf DEF PhaseOf, AnswersOf, ReportOf
<1>7. /\ plan' = [plan EXCEPT ![e] = PlanOf(x)] /\ phase' = [phase EXCEPT ![e] = "DRAFT"]
      /\ answers' = answers /\ report' = report
  BY <1>4, <1>5, <1>6, OneChanges, OneKeeps
<1>8. plan'[e] = PlanOf(x)
  BY <1>7 DEF plan
<1> QED  BY <1>2, <1>3, <1>4, <1>5, <1>6, <1>7, <1>8 DEF Trial!Draft

\* An execution starts a trial, and has all of it to judge.
LEMMA ExecuteStarts ==
  ASSUME TypeOK, NEW p \in Processes, NEW e \in Experiments, Execute(p, e)
  PROVE  /\ Trial!Start(e) /\ experiment[e] \in Experiment
         /\ experiment'[e].status = "RUNNING" /\ experiment'[e].results = experiment[e].results
         /\ experiment'[e].suite = experiment[e].suite
         /\ process' = process \/ process'[p].todo = Cases(experiment[e].suite)
<1> DEFINE y == [Free EXCEPT !.pc = "case", !.on = e, !.todo = Cases(experiment[e].suite)]
<1> PICK x \in Experiment : x = experiment[e]
  BY DEF Execute, TypeOK
<1>1. /\ experiment' = [experiment EXCEPT ![e] = [x EXCEPT !.status = "RUNNING"]]
      /\ process' = process \/ Goes(p, y)
      /\ x.status = "DRAFT" /\ \A f \in Experiments : experiment[f] # Nothing => ~Running(f)
  BY DEF Execute, Startable
<1>2. /\ [x EXCEPT !.status = "RUNNING"] \in Experiment /\ [x EXCEPT !.status = "RUNNING"].status = "RUNNING"
      /\ [x EXCEPT !.status = "RUNNING"].results = x.results /\ [x EXCEPT !.status = "RUNNING"].summary = x.summary
      /\ [x EXCEPT !.status = "RUNNING"].suite = x.suite /\ [x EXCEPT !.status = "RUNNING"].purpose = x.purpose
      /\ [x EXCEPT !.status = "RUNNING"].scope = x.scope /\ [x EXCEPT !.status = "RUNNING"].override = x.override
  BY ExperimentIs DEF Experiment
<1> PICK z \in Experiment : z = [x EXCEPT !.status = "RUNNING"]
  BY <1>2
<1>3. experiment'[e] = z /\ \A f \in Experiments : f # e => experiment'[f] = experiment[f]
  BY <1>1 DEF TypeOK
<1>4. PlanOf(z) = PlanOf(x) /\ AnswersOf(z) = AnswersOf(x) /\ ReportOf(z) = ReportOf(x)
      /\ PhaseOf(z) = "RUNNING" /\ PhaseOf(x) = "DRAFT"
  <2>1. /\ z.status = "RUNNING" /\ z.results = x.results /\ z.summary = x.summary /\ z.suite = x.suite
        /\ z.purpose = x.purpose /\ z.scope = x.scope /\ z.override = x.override /\ x.status = "DRAFT"
    BY <1>1, <1>2
  <2>2. PlanOf(z) = PlanOf(x)
    BY <2>1, SamePlan
  <2>3. AnswersOf(z) = z.results /\ ReportOf(z) = z.summary /\ PhaseOf(z) = z.status
    BY ReadAs
  <2>4. AnswersOf(x) = x.results /\ ReportOf(x) = x.summary /\ PhaseOf(x) = x.status
    BY ReadAs
  <2> QED  BY <2>1, <2>2, <2>3, <2>4
<1>5. phase' = [phase EXCEPT ![e] = "RUNNING"] /\ UNCHANGED <<plan, answers, report>>
  BY <1>3, <1>4, OneChanges, OneKeeps
<1>6. phase[e] = "DRAFT" /\ \A f \in Experiments : phase[f] # "RUNNING"
  <2>1. ASSUME NEW f \in Experiments PROVE phase[f] # "RUNNING"
    BY <1>1, TrialOf DEF PhaseOf, Running
  <2> QED  BY <1>4, <2>1, TrialOf
<1>7. y \in Process /\ y.pc = "case" /\ y.todo = Cases(experiment[e].suite)
  <2>1. Cases(experiment[e].suite) \subseteq Runs
    BY DEF Cases
  <2> QED  BY <2>1 DEF Free, Process
<1> HIDE DEF y
<1>8. process' = process \/ process'[p] = y
  BY <1>1, <1>7, GoesIs
<1> QED  BY <1>2, <1>3, <1>5, <1>6, <1>7, <1>8 DEF Trial!Start

\* To run a case takes it off what is to judge.
LEMMA RunCaseTakes ==
  ASSUME TypeOK, NEW p \in Processes, RunCase(p)
  PROVE  \E r \in process[p].todo, verdict \in Verdicts :
           /\ process'[p].pc = "store" /\ process'[p].todo = process[p].todo \ {r}
           /\ process'[p].next = r /\ process'[p].verdict = verdict
<1> PICK r \in process[p].todo, verdict \in Verdicts :
           Goes(p, [process[p] EXCEPT !.pc = "store", !.todo = process[p].todo \ {r}, !.next = r, !.verdict = verdict])
  BY DEF RunCase
<1> DEFINE y == [process[p] EXCEPT !.pc = "store", !.todo = process[p].todo \ {r}, !.next = r, !.verdict = verdict]
<1>1. process[p] \in Process /\ Goes(p, y)
  BY DEF TypeOK
<1>2. y \in Process /\ y.pc = "store" /\ y.todo = process[p].todo \ {r} /\ y.next = r /\ y.verdict = verdict
  BY <1>1 DEF Process
<1> HIDE DEF y
<1>3. process'[p] = y
  BY <1>1, <1>2, GoesIs
<1> QED  BY <1>2, <1>3

\* A result is stored for a case that has none.
LEMMA StoreAnswers ==
  ASSUME TypeOK, Attended, Fresh, NEW p \in Processes, Store(p)
  PROVE  LET e == process[p].on IN
         /\ process'[p].pc = "case" /\ process'[p].todo = process[p].todo
         /\ Running(e) => /\ Trial!Answer(e) /\ process[p].next \in Runs
                          /\ experiment'[e].suite = experiment[e].suite
                          /\ \A r \in Runs : r # process[p].next =>
                               experiment'[e].results[r] = experiment[e].results[r]
<1> DEFINE y == [process[p] EXCEPT !.pc = "case", !.next = Nothing, !.verdict = Nothing]
<1>1. process[p] \in Process /\ process[p].pc = "store" /\ Working(p) /\ Goes(p, y)
  BY DEF Store, TypeOK, Working
<1> PICK e \in Experiments : e = process[p].on
  BY <1>1 DEF Attended
<1> PICK x \in Experiment : x = experiment[e]
  BY <1>1 DEF Attended
<1> PICK q : q = process[p].next
  OBVIOUS
<1> PICK a : a = process[p].verdict
  OBVIOUS
<1>2. q \in Cases(x.suite) /\ q \in Runs /\ x.results[q] = Nothing /\ a \in Verdicts
  BY <1>1 DEF Fresh, FreshOf, Cases
<1>3. y \in Process /\ y.pc = "case" /\ y.todo = process[p].todo
  BY <1>1 DEF Process
<1> HIDE DEF y
<1>4. process'[p] = y
  BY <1>1, <1>3, GoesIs
<1>5. ASSUME Running(e)
      PROVE  /\ Trial!Answer(e) /\ experiment'[e].suite = x.suite
             /\ \A r \in Runs : r # q => experiment'[e].results[r] = x.results[r]
  <2> DEFINE found == [x.results EXCEPT ![q] = a]
  <2>1. experiment' = [experiment EXCEPT ![e] = [x EXCEPT !.results = found]]
    BY <1>5 DEF Store, Stores
  <2>2. found \in Results /\ \A r \in Runs : r # q => found[r] = x.results[r]
    BY <1>2 DEF Experiment, Results
  <2> DEFINE changed == [x EXCEPT !.results = found]
  <2>3. changed \in Experiment
    <3> HIDE DEF found
    <3> QED  BY <2>2, ExperimentIs
  <2>4. /\ changed.status = x.status /\ changed.summary = x.summary /\ changed.suite = x.suite
        /\ changed.purpose = x.purpose /\ changed.scope = x.scope /\ changed.override = x.override
        /\ changed.results = found
    <3> HIDE DEF found
    <3> QED  BY DEF Experiment
  <2> PICK z \in Experiment : z = changed
    BY <2>3
  <2> HIDE DEF changed
  <2>5. experiment'[e] = z /\ \A f \in Experiments : f # e => experiment'[f] = experiment[f]
    BY <2>1 DEF TypeOK, changed
  <2>6. /\ PlanOf(z) = PlanOf(x) /\ PhaseOf(z) = PhaseOf(x) /\ ReportOf(z) = ReportOf(x)
        /\ AnswersOf(z) = found /\ AnswersOf(x) = x.results /\ PhaseOf(x) = "RUNNING"
        /\ PlanOf(x).asks = Cases(x.suite)
    BY <1>5, <2>4, ReadAs DEF Running
  <2>7. UNCHANGED <<plan, phase, report>> /\ answers' = [answers EXCEPT ![e] = found]
    BY <2>5, <2>6, OneChanges, OneKeeps
  <2>8. answers[e] = x.results /\ phase[e] = "RUNNING" /\ plan[e].asks = Cases(x.suite)
    BY <2>6, TrialOf
  <2>9. answers' = [answers EXCEPT ![e][q] = a]
    BY <2>7, <2>8
  <2>10. answers'[e][q] = a
    <3>1. answers'[e] = found
      BY <2>5, <2>6 DEF answers
    <3>2. found[q] = a
      BY <1>2 DEF Experiment, Results
    <3> QED  BY <3>1, <3>2
  <2>11. Trial!Answer(e)
    <3>1. answers' = [answers EXCEPT ![e][q] = answers'[e][q]]
      BY <2>9, <2>10
    <3>2. q \in plan[e].asks /\ answers[e][q] = Nothing /\ answers'[e][q] \in Verdicts
      BY <1>2, <2>8, <2>10
    <3>3. phase[e] = "RUNNING" /\ UNCHANGED <<plan, phase, report>>
      BY <2>7, <2>8
    <3> HIDE DEF found
    <3> QED  BY <3>1, <3>2, <3>3 DEF Trial!Answer
  <2>12. z.suite = x.suite /\ z.results = found
    BY <2>4
  <2> QED  BY <2>2, <2>5, <2>11, <2>12
<1> QED  BY <1>2, <1>3, <1>4, <1>5

\* An end, as that of its trial.
LEMMA EndEnds ==
  ASSUME TypeOK, NEW e \in Experiments, experiment[e] \in Experiment, NEW s \in Ended,
         End(e, s, experiment[e].results), phase[e] \in {"DRAFT", "RUNNING"}, Trial!MayEnd(e, s)
  PROVE  Trial!End(e) /\ experiment'[e].suite = experiment[e].suite /\ experiment'[e].results = experiment[e].results
<1> PICK x \in Experiment : x = experiment[e]
  OBVIOUS
<1> DEFINE changed == [x EXCEPT !.status = s, !.summary = x.results]
<1>1. experiment' = [experiment EXCEPT ![e] = changed]
  BY DEF End
<1>2. changed \in Experiment
  BY ExperimentIs DEF Experiment
<1>3. /\ changed.status = s /\ changed.summary = x.results /\ changed.suite = x.suite
      /\ changed.purpose = x.purpose /\ changed.scope = x.scope /\ changed.override = x.override
      /\ changed.results = x.results
  BY DEF Experiment
<1> PICK z \in Experiment : z = changed
  BY <1>2
<1> HIDE DEF changed
<1>4. experiment'[e] = z /\ \A f \in Experiments : f # e => experiment'[f] = experiment[f]
  BY <1>1 DEF TypeOK
<1>5. /\ PlanOf(z) = PlanOf(x) /\ PhaseOf(z) = s /\ ReportOf(z) = x.results
      /\ AnswersOf(z) = x.results /\ AnswersOf(x) = x.results
  BY <1>3, ReadAs
<1>6. /\ UNCHANGED <<plan, answers>> /\ phase' = [phase EXCEPT ![e] = s]
      /\ report' = [report EXCEPT ![e] = x.results]
  BY <1>4, <1>5, OneChanges, OneKeeps
<1>7. answers[e] = x.results
  BY <1>5, TrialOf
<1>8. phase'[e] = s
  BY <1>6 DEF phase
<1>9. Trial!End(e)
  BY <1>6, <1>7, <1>8 DEF Trial!End
<1> QED  BY <1>3, <1>4, <1>9

LEMMA CancelEnds ==
  ASSUME TypeOK, NEW e \in Experiments, Cancel(e)
  PROVE  Trial!End(e) /\ experiment'[e].suite = experiment[e].suite
<1>1. /\ experiment[e] \in Experiment /\ experiment[e].status \in {"DRAFT", "RUNNING"}
      /\ End(e, "CANCELLED", experiment[e].results)
  BY DEF Cancel, TypeOK
<1>2. phase[e] \in {"DRAFT", "RUNNING"}
  BY <1>1, ReadAs, TrialOf
<1>3. Trial!MayEnd(e, "CANCELLED")
  BY <1>2 DEF Trial!MayEnd
<1>4. "CANCELLED" \in Ended
  BY DEF Ended
<1> QED  BY <1>1, <1>2, <1>3, <1>4, EndEnds

LEMMA StopEnds ==
  ASSUME TypeOK, Attended, NEW p \in Processes, FinishExperiment(p) \/ Recorded(p), Running(process[p].on)
  PROVE  Trial!End(process[p].on)
<1>1. Working(p)
  BY DEF FinishExperiment, Recorded, Working
<1> PICK e \in Experiments : e = process[p].on
  BY <1>1 DEF Attended
<1> PICK x \in Experiment : x = experiment[e]
  BY <1>1 DEF Attended
<1>2. x.status = "RUNNING" /\ (process[p].pc = "failing" => process[p].seen = x.results)
  BY <1>1 DEF Attended, Running
<1>3. phase[e] = "RUNNING" /\ plan[e].asks = Cases(x.suite) /\ answers[e] = x.results
  BY <1>2, ReadAs, TrialOf
<1>4. \E s \in {"COMPLETED", "FAILED"} : End(e, s, x.results) /\ (s = "COMPLETED" => Whole(e))
  <2>1. CASE FinishExperiment(p)
    BY <2>1 DEF FinishExperiment
  <2>2. CASE Recorded(p)
    BY <1>2, <2>2 DEF Recorded, Record, Interrupt
  <2> QED  BY <2>1, <2>2
<1> PICK s \in {"COMPLETED", "FAILED"} : End(e, s, x.results) /\ (s = "COMPLETED" => Whole(e))
  BY <1>4
<1>5. s \in Ended
  BY DEF Ended
<1>6. Trial!MayEnd(e, s)
  BY <1>3 DEF Trial!MayEnd, Whole
<1>7. Trial!End(e)
  BY <1>3, <1>5, <1>6, EndEnds
<1> QED  BY <1>7

\* Who works on another experiment is not concerned.
LEMMA FreshElsewhere ==
  ASSUME Fresh, NEW q \in Processes, process'[q] = process[q],
         \/ process[q].pc \notin {"case", "store"}
         \/ experiment'[process[q].on] = experiment[process[q].on]
         \/ /\ experiment'[process[q].on].suite = experiment[process[q].on].suite
            /\ experiment'[process[q].on].results = experiment[process[q].on].results
  PROVE  FreshOf(process'[q], experiment'[process'[q].on])
  BY DEF Fresh, FreshOf

LEMMA FreshNext == TypeOK /\ Attended /\ Blank /\ Fresh /\ [Next]_vars => Fresh'
<1> SUFFICES ASSUME TypeOK, Attended, Blank, Fresh, [Next]_vars PROVE Fresh'
  OBVIOUS
<1>1. ASSUME UNCHANGED <<experiment, process>> PROVE Fresh'
  BY <1>1 DEF Fresh
<1>2. ASSUME NEW e \in Experiments, NEW s \in suites, NEW purpose \in Purposes, NEW override \in SUBSET Versions,
             CreateExperiment(e, s, purpose, override), NEW q \in Processes
      PROVE  FreshOf(process'[q], experiment'[process'[q].on])
  <2>1. process'[q] = process[q] /\ \A f \in Experiments : f # e => experiment'[f] = experiment[f]
    BY <1>2, CreateDrafts
  <2>2. Working(q) => process[q].on \in Experiments /\ process[q].on # e
    BY <1>2, Consts, CreateDrafts DEF Attended
  <2>3. experiment'[process[q].on] = experiment[process[q].on] \/ process[q].pc \notin {"case", "store"}
    BY <2>1, <2>2 DEF Working
  <2> QED  BY <2>1, <2>3, FreshElsewhere
<1>3. ASSUME NEW e \in Experiments, Cancel(e), NEW q \in Processes
      PROVE  FreshOf(process'[q], experiment'[process'[q].on])
  <2>1. /\ process'[q] = process[q] /\ \A f \in Experiments : f # e => experiment'[f] = experiment[f]
        /\ experiment'[e].suite = experiment[e].suite /\ experiment'[e].results = experiment[e].results
    BY <1>3, CancelIs, CancelEnds
  <2>2. Working(q) => process[q].on \in Experiments
    BY DEF Attended
  <2>3. CASE process[q].pc \notin {"case", "store"}
    BY <2>1, <2>3, FreshElsewhere
  <2>4. CASE process[q].on = e
    BY <2>1, <2>4, FreshElsewhere
  <2>5. CASE process[q].pc \in {"case", "store"} /\ process[q].on # e
    <3>1. experiment'[process[q].on] = experiment[process[q].on]
      BY <2>1, <2>2, <2>5 DEF Working
    <3> QED  BY <2>1, <3>1, FreshElsewhere
  <2> QED  BY <2>3, <2>4, <2>5
<1>4. ASSUME NEW p \in Processes, NEW e \in Experiments, Execute(p, e), NEW q \in Processes
      PROVE  FreshOf(process'[q], experiment'[process'[q].on])
  <2>1. CASE q = p /\ process' # process
    <3>1. /\ process'[q].pc = "case" /\ process'[q].on = e /\ process'[q].todo = Cases(experiment[e].suite)
          /\ experiment'[e].suite = experiment[e].suite /\ experiment'[e].results = experiment[e].results
      BY <1>4, <2>1, ExecuteIs, ExecuteStarts
    <3>2. experiment[e].results = NoResults
      BY <1>4, ExecuteIs DEF Blank
    <3>3. \A r \in Cases(experiment[e].suite) : NoResults[r] = Nothing
      BY DEF Cases, NoResults
    <3> QED  BY <3>1, <3>2, <3>3 DEF FreshOf
  <2>2. CASE q # p \/ process' = process
    <3>1. process'[q] = process[q] /\ \A f \in Experiments : f # e => experiment'[f] = experiment[f]
      BY <1>4, <2>2, ExecuteIs
    <3>2. Working(q) => process[q].on \in Experiments /\ process[q].on # e
      BY <1>4, ExecuteIs DEF Attended
    <3>3. experiment'[process[q].on] = experiment[process[q].on] \/ process[q].pc \notin {"case", "store"}
      BY <3>1, <3>2 DEF Working
    <3> QED  BY <3>1, <3>3, FreshElsewhere
  <2> QED  BY <2>1, <2>2
\* A step of p leaves the experiments of the others alone.
<1>5. ASSUME NEW p \in Processes, Working(p), NEW q \in Processes, q # p,
             \A f \in Experiments : f # process[p].on => experiment'[f] = experiment[f],
             process'[q] = process[q]
      PROVE  FreshOf(process'[q], experiment'[process'[q].on])
  <2>1. Working(q) => process[q].on \in Experiments /\ process[q].on # process[p].on
    BY <1>5 DEF Attended
  <2>2. experiment'[process[q].on] = experiment[process[q].on] \/ process[q].pc \notin {"case", "store"}
    BY <1>5, <2>1 DEF Working
  <2> QED  BY <1>5, <2>2, FreshElsewhere
<1>6. ASSUME NEW p \in Processes, RunCase(p), NEW q \in Processes
      PROVE  FreshOf(process'[q], experiment'[process'[q].on])
  <2>1. UNCHANGED experiment /\ Working(p) /\ process'[p].on = process[p].on
        /\ (q # p => process'[q] = process[q])
    BY <1>6, RunCaseIs
  <2>2. CASE q = p
    <3>1. PICK r \in process[p].todo, verdict \in Verdicts :
            /\ process'[p].pc = "store" /\ process'[p].todo = process[p].todo \ {r}
            /\ process'[p].next = r /\ process'[p].verdict = verdict
      BY <1>6, RunCaseTakes
    <3>2. FreshOf(process[p], experiment[process[p].on]) /\ process[p].pc = "case"
      BY <1>6 DEF Fresh, RunCase
    <3> QED  BY <2>1, <2>2, <3>1, <3>2 DEF FreshOf
  <2> QED  BY <1>5, <2>1, <2>2
<1>7. ASSUME NEW p \in Processes, Store(p), NEW q \in Processes
      PROVE  FreshOf(process'[q], experiment'[process'[q].on])
  <2>1. /\ Working(p) /\ process'[p].on = process[p].on /\ (q # p => process'[q] = process[q])
        /\ \A f \in Experiments : f # process[p].on => experiment'[f] = experiment[f]
        /\ ~Running(process[p].on) => experiment' = experiment
    BY <1>7, StoreIs
  <2>2. CASE q = p
    <3> PICK e : e = process[p].on
      OBVIOUS
    <3> PICK x : x = process[p]
      OBVIOUS
    <3>1. FreshOf(x, experiment[e]) /\ x.pc = "store" /\ x.next \notin x.todo
      BY <1>7 DEF Fresh, FreshOf, Store
    <3>2. process'[p].pc = "case" /\ process'[p].todo = x.todo /\ process'[p].on = e
      BY <1>7, <2>1, StoreAnswers
    <3>3. /\ experiment'[e].suite = experiment[e].suite
          /\ \A r \in Runs : r # x.next => experiment'[e].results[r] = experiment[e].results[r]
      BY <1>7, <2>1, StoreAnswers
    <3>4. \A r \in x.todo : r \in Cases(experiment'[e].suite) /\ experiment'[e].results[r] = Nothing
      BY <3>1, <3>3 DEF FreshOf, Cases
    <3> QED  BY <2>2, <3>2, <3>4 DEF FreshOf
  <2> QED  BY <1>5, <2>1, <2>2
<1>8. ASSUME NEW p \in Processes, FinishExperiment(p) \/ Recorded(p) \/ Throw(p) \/ Crash(p), NEW q \in Processes
      PROVE  FreshOf(process'[q], experiment'[process'[q].on])
  <2>1. /\ Working(p) /\ process'[p].pc \notin {"case", "store"} /\ (q # p => process'[q] = process[q])
        /\ \A f \in Experiments : f # process[p].on => experiment'[f] = experiment[f]
    BY <1>8, StopIs, ThrowIs, CrashIs, FreeIs
  <2>2. CASE q = p
    BY <2>1, <2>2 DEF FreshOf
  <2> QED  BY <1>5, <2>1, <2>2
<1>9. LabStep => Fresh'
  <2> SUFFICES ASSUME LabStep, NEW q \in Processes PROVE FreshOf(process'[q], experiment'[process'[q].on])
    BY DEF Fresh
  <2> QED  BY <1>2, <1>3, <1>4, <1>6, <1>7, <1>8 DEF LabStep, ProcessStep
<1> QED  BY <1>1, <1>9, StepIs, OtherIs

LEMMA BlankNext == TypeOK /\ Attended /\ Blank /\ [Next]_vars => Blank'
<1> SUFFICES ASSUME TypeOK, Attended, Blank, [Next]_vars, NEW e \in Experiments,
                    experiment'[e] # Nothing, experiment'[e].status = "DRAFT"
             PROVE  experiment'[e].results = NoResults
  BY DEF Blank
<1>1. CASE experiment'[e] = experiment[e]
  BY <1>1 DEF Blank
<1>2. ASSUME NEW f \in Experiments, NEW s \in suites, NEW purpose \in Purposes, NEW override \in SUBSET Versions,
             CreateExperiment(f, s, purpose, override)
      PROVE  experiment'[e].results = NoResults
  BY <1>1, <1>2, CreateDrafts
<1>3. ASSUME NEW f \in Experiments, Cancel(f) PROVE experiment'[e] = experiment[e]
  BY <1>3, CancelIs
<1>4. ASSUME NEW p \in Processes, NEW f \in Experiments, Execute(p, f) PROVE experiment'[e] = experiment[e]
  BY <1>4, ExecuteIs
<1>5. ASSUME NEW p \in Processes, ProcessStep(p) PROVE experiment'[e] = experiment[e]
  BY <1>5, RunCaseIs, StoreIs, StopIs, ThrowIs, CrashIs DEF ProcessStep, Ended, Running
<1>6. LabStep => experiment'[e].results = NoResults
  BY <1>1, <1>2, <1>3, <1>4, <1>5 DEF LabStep
<1> QED  BY <1>1, <1>6, StepIs, OtherIs

LEMMA TrialNext == TypeOK /\ Attended /\ Fresh /\ [Next]_vars => [Trial!Next]_(Trial!vars)
<1> SUFFICES ASSUME TypeOK, Attended, Fresh, [Next]_vars PROVE [Trial!Next]_(Trial!vars)
  OBVIOUS
<1>1. ASSUME UNCHANGED experiment PROVE UNCHANGED Trial!vars
  BY <1>1 DEF Trial!vars, plan, phase, answers, report
<1>2. ASSUME NEW e \in Experiments, NEW s \in suites, NEW purpose \in Purposes, NEW override \in SUBSET Versions,
             CreateExperiment(e, s, purpose, override)
      PROVE  Trial!Next
  BY <1>2, CreateDrafts DEF Trial!Next
<1>3. ASSUME NEW e \in Experiments, Cancel(e) PROVE Trial!Next
  BY <1>3, CancelEnds DEF Trial!Next
<1>4. ASSUME NEW p \in Processes, NEW e \in Experiments, Execute(p, e) PROVE Trial!Next
  BY <1>4, ExecuteStarts DEF Trial!Next
<1>5. ASSUME NEW p \in Processes, Store(p), Running(process[p].on) PROVE Trial!Next
  <2>1. process[p].on \in Experiments
    BY <1>5, StoreIs DEF Attended
  <2>2. Trial!Answer(process[p].on)
    BY <1>5, StoreAnswers
  <2> QED  BY <2>1, <2>2 DEF Trial!Next
<1>6. ASSUME NEW p \in Processes, FinishExperiment(p) \/ Recorded(p), Running(process[p].on) PROVE Trial!Next
  <2>1. process[p].on \in Experiments
    BY <1>6 DEF Attended, Working, FinishExperiment, Recorded
  <2>2. Trial!End(process[p].on)
    BY <1>6, StopEnds
  <2> QED  BY <2>1, <2>2 DEF Trial!Next
<1>7. ASSUME NEW p \in Processes, ProcessStep(p) PROVE Trial!Next \/ UNCHANGED Trial!vars
  BY <1>1, <1>5, <1>6, <1>7, RunCaseIs, ThrowIs, CrashIs, StoreIs, StopIs DEF ProcessStep
<1>8. LabStep => Trial!Next \/ UNCHANGED Trial!vars
  BY <1>2, <1>3, <1>4, <1>7 DEF LabStep
<1> QED  BY <1>1, <1>8, StepIs, OtherIs

LEMMA TrialInit == Init => Trial!Init /\ Blank /\ Fresh
<1> SUFFICES ASSUME Init PROVE Trial!Init /\ Blank /\ Fresh
  OBVIOUS
<1>1. \A e \in Experiments : experiment[e] = Nothing
  BY DEF Init
<1>2. Trial!Init
  BY <1>1 DEF Trial!Init, plan, phase, answers, report, PlanOf, PhaseOf, AnswersOf, ReportOf, NoResults
<1>3. Fresh
  BY DEF Init, Fresh, FreshOf, Free
<1> QED  BY <1>1, <1>2, <1>3 DEF Blank

\* Executions that race with cancellations, fail or die never change what an
\* experiment tests, judge a case twice or report what was not found
\* (executeBounded, cancelExperiment).
THEOREM ExperimentsAreTrials == Spec => ImplementsTrials
<1>1. Init => Trial!Init /\ Blank /\ Fresh
  BY TrialInit
<1>2. TypeOK /\ Attended /\ Blank /\ Fresh /\ [Next]_vars => Blank' /\ Fresh'
  BY BlankNext, FreshNext
<1>3. TypeOK /\ Attended /\ Fresh /\ [Next]_vars => [Trial!Next]_(Trial!vars)
  BY TrialNext
<1> QED  BY <1>1, <1>2, <1>3, LabTyped, PTL DEF Spec, ImplementsTrials, Trial!Spec
=============================================================================
