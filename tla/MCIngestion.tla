---------------------------- MODULE MCIngestion ----------------------------
(* Small instances of Ingestion for TLC.                                   *)
EXTENDS Ingestion, TLC

CONSTANTS m1, m2

\* One configuration with an embedding key.
Keyed == {[model |-> m1, key |-> TRUE]}

\* No key: lexical indexing only.
Unkeyed == {[model |-> m1, key |-> FALSE]}

\* The model is changed from one deployment to the next; the key stays.
TwoModels == {[model |-> m, key |-> TRUE] : m \in {m1, m2}}

\* The key may also be withdrawn and given back.
AnyEnv == [model : {m1, m2}, key : BOOLEAN]

\* Slots are alike, and so are loops.
ProcessSymmetry == Permutations(Slots) \cup Permutations(Loops)
-----------------------------------------------------------------------------
\* What Next leaves to happen without a key, with slots that die and a queue
\* that forgets as the only faults: the other actions are disabled then.
RecoveryNext ==
  \/ \E s \in Slots :
       \/ Receive(s) \/ Decline(s) \/ Claim(s) \/ FetchSource(s) \/ ExtractText(s) \/ SaveChunks(s)
       \/ StartEmbedding(s) \/ StartIndexing(s) \/ Commit(s) \/ StepFails(s) \/ RecordFailure(s)
       \/ Acknowledge(s) \/ Crash(s)
  \/ \E l \in Loops :
       \/ Dispatch(l) \/ Send(l) \/ AckRow(l) \/ Reissue(l) \/ GiveUp(l) \/ LeaveAlone(l)
       \/ \E v \in Versions : Scan(l, v)
  \/ Delivery \/ Time

RecoverySpec == Init /\ [][RecoveryNext]_vars /\ Fairness
=============================================================================
