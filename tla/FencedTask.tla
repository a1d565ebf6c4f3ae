---------------------------- MODULE FencedTask ----------------------------
(***************************************************************************)
(* What the processing of knowledge versions promises, whatever the queue, *)
(* the clocks and the worker processes do: the holders of a task follow    *)
(* one another in epochs, only the holder of the latest epoch can finish   *)
(* it, and it is finished at most once and never taken again afterwards.   *)
(***************************************************************************)
EXTENDS Naturals

CONSTANT Tasks

VARIABLES epoch,   \* how many holders each task has had
          holder,  \* the epoch of the current one, 0 when there is none
          done     \* the epochs that finished the task

vars == <<epoch, holder, done>>

Init == /\ epoch = [t \in Tasks |-> 0]
        /\ holder = [t \in Tasks |-> 0]
        /\ done = [t \in Tasks |-> {}]

\* A new holder takes the task, from nobody or from a holder given up.
Acquire(t) == /\ done[t] = {}
              /\ epoch' = [epoch EXCEPT ![t] = @ + 1]
              /\ holder' = [holder EXCEPT ![t] = epoch[t] + 1]
              /\ UNCHANGED done

Drop(t) == /\ holder[t] # 0
           /\ holder' = [holder EXCEPT ![t] = 0]
           /\ UNCHANGED <<epoch, done>>

Finish(t) == /\ holder[t] # 0 /\ holder[t] = epoch[t] /\ done[t] = {}
             /\ done' = [done EXCEPT ![t] = {holder[t]}]
             /\ holder' = [holder EXCEPT ![t] = 0]
             /\ UNCHANGED epoch

Next == \E t \in Tasks : Acquire(t) \/ Drop(t) \/ Finish(t)

Spec == Init /\ [][Next]_vars
=============================================================================
