------------------------------- MODULE Trials -------------------------------
(***************************************************************************)
(* What the reviewers of an issue are promised of trials, whoever carries  *)
(* them out: what a trial asks and on what terms is settled before it      *)
(* starts, one is under way at a time, each question is answered once, and *)
(* the report tells the answers it ended with. One that is COMPLETED       *)
(* answered all it asked, conclusively.                                    *)
(***************************************************************************)
CONSTANTS Experiments, Questions, Answers, Conclusive,
          Plans,  \* what a trial may ask, a set of questions, and on what terms
          None

VARIABLES plan,     \* None of a trial not made
          phase,    \* "NONE" of one not made
          answers,  \* found so far
          report    \* what it ended with

vars == <<plan, phase, answers, report>>

Init == /\ plan = [e \in Experiments |-> None]
        /\ phase = [e \in Experiments |-> "NONE"]
        /\ answers = [e \in Experiments |-> [q \in Questions |-> None]]
        /\ report = [e \in Experiments |-> None]

Draft(e) == /\ phase[e] = "NONE" /\ phase' = [phase EXCEPT ![e] = "DRAFT"]
            /\ plan' = [plan EXCEPT ![e] = plan'[e]] /\ plan'[e] \in Plans
            /\ UNCHANGED <<answers, report>>

Start(e) == /\ phase[e] = "DRAFT" /\ \A f \in Experiments : phase[f] # "RUNNING"
            /\ phase' = [phase EXCEPT ![e] = "RUNNING"]
            /\ UNCHANGED <<plan, answers, report>>

Answer(e) == /\ phase[e] = "RUNNING"
             /\ \E q \in plan[e].asks :
                  /\ answers[e][q] = None /\ answers'[e][q] \in Answers
                  /\ answers' = [answers EXCEPT ![e][q] = answers'[e][q]]
             /\ UNCHANGED <<plan, phase, report>>

\* How a trial may end: one that is COMPLETED is conclusive.
MayEnd(e, how) ==
  \/ how = "CANCELLED"
  \/ how = "FAILED" /\ phase[e] = "RUNNING"
  \/ how = "COMPLETED" /\ phase[e] = "RUNNING" /\ \A q \in plan[e].asks : answers[e][q] \in Conclusive

End(e) == /\ phase[e] \in {"DRAFT", "RUNNING"}
          /\ MayEnd(e, phase'[e]) /\ phase' = [phase EXCEPT ![e] = phase'[e]]
          /\ report' = [report EXCEPT ![e] = answers[e]]
          /\ UNCHANGED <<plan, answers>>

Next == \E e \in Experiments : Draft(e) \/ Start(e) \/ Answer(e) \/ End(e)

Spec == Init /\ [][Next]_vars
=============================================================================
