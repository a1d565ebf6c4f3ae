------------------------------ MODULE Evidence ------------------------------
(***************************************************************************)
(* What a Copilot run is judged on: the fusion of the two searches         *)
(* (kb.retrieval), the health of a retrieval (kb.hybrid), the evidence     *)
(* policy, and the knowledge failure read off a finished run, which the    *)
(* issue intake (issue.classification) and the dashboards' SQL (quality.   *)
(* service) each derive on their own. Operators without state.             *)
(***************************************************************************)
EXTENDS Integers, Sequences, FiniteSets, SequencesExt, FiniteSetsExt

CONSTANTS
  Chunks,     \* chunk ids, which are compared as text: a range of numbers
  Versions,   \* of documents
  ListLimit,  \* bound: rows of a search (CANDIDATE_LIMIT)
  Nothing     \* null

ASSUME EvidenceAssumption == Chunks \subseteq Int /\ ListLimit \in Nat

RrfK == 60

-----------------------------------------------------------------------------
(* Reciprocal rank fusion: a row weighs 1 / (60 + its place) in each list. *)

\* Scaled by every denominator there is: integers compare as the fractions do.
Scale ==
  LET product[n \in 0 .. ListLimit] == IF n = 0 THEN 1 ELSE product[n - 1] * (RrfK + n)
  IN product[ListLimit]
Place(list, c)  == Min({i \in DOMAIN list : list[i] = c})   \* `seen` keeps the first
Weight(list, c) == IF c \in Range(list) THEN Scale \div (RrfK + Place(list, c)) ELSE 0
Fused(semantic, lexical, c) == Weight(semantic, c) + Weight(lexical, c)

Found(semantic, lexical)    == Range(semantic) \cup Range(lexical)

\* The order of the sort, total: ids break the ties.
Before(semantic, lexical, a, b) ==
  LET fused(c) == Fused(semantic, lexical, c) IN
  fused(a) > fused(b) \/ (fused(a) = fused(b) /\ a < b)
Ranked(semantic, lexical) ==
  LET found == Found(semantic, lexical) IN
  CHOOSE s \in [1 .. Cardinality(found) -> found] :
    \A i, j \in DOMAIN s : i < j => Before(semantic, lexical, s[i], s[j])

KeptOf(document, kept, c) == Cardinality({i \in DOMAIN kept : document[kept[i]] = document[c]})
TakeThree(document, hash, kept, c) ==                    \* mutant: one too many
  KeptOf(document, kept, c) < 3 /\ \A i \in DOMAIN kept : hash[kept[i]] # hash[c]
Take(document, hash, kept, c) ==
  KeptOf(document, kept, c) < 2 /\ \A i \in DOMAIN kept : hash[kept[i]] # hash[c]

Asked(limit) == Max({1, Min({limit, 5})})                \* EVIDENCE_LIMIT

\* Best first; one row per content, two per document, as many as asked for.
SelectEvidence(ranked, document, hash, limit) ==
  LET kept[n \in 0 .. Len(ranked)] ==
        IF n = 0 THEN << >>
        ELSE IF Len(kept[n - 1]) < Asked(limit) /\ Take(document, hash, kept[n - 1], ranked[n])
             THEN Append(kept[n - 1], ranked[n]) ELSE kept[n - 1]
  IN kept[Len(ranked)]

-----------------------------------------------------------------------------
(* Retrieval health and the evidence policy.                               *)

SemanticStatuses == {"OK", "DISABLED", "NOT_CONFIGURED", "EMBEDDING_FAILED", "VECTOR_FAILED", "INDEX_INCOMPLETE"}
LexicalStatuses  == {"OK", "LEXICAL_FAILED"}
Operational      == {"EMBEDDING_FAILED", "VECTOR_FAILED", "LEXICAL_FAILED", "SCOPE_FAILED"}

\* retrieveScoped: each search fails alone, a scope that cannot be read fails both.
Statuses(scopeRead, semantic, lexical) ==
  IF scopeRead THEN [semantic |-> semantic, lexical |-> lexical]
  ELSE [semantic |-> "VECTOR_FAILED", lexical |-> "LEXICAL_FAILED"]

Degraded(health) == health.semantic \notin {"OK", "DISABLED"} \/ health.lexical # "OK"

\* A row's scores by the thresholds they reach: semantic 0.65 agrees, 0.82 is
\* strong; lexical coverage 0.35 is some, 0.6 is high.
Row == [document : Nat, semantic : {"none", "agrees", "strong"}, coverage : {"low", "some", "high"},
        lexical : BOOLEAN, window : Nat, asks : BOOLEAN]
SupportsAnswer(row) ==
  \/ row.semantic = "strong"
  \/ row.coverage = "high" /\ row.lexical
  \/ row.semantic \in {"agrees", "strong"} /\ row.coverage \in {"some", "high"}

\* window: the refund window a row states, 0 for none; asks: it requires a fact
\* of the customer, which the ticket gives or not.
DegradedUnseen(rows, health, given) ==         \* mutant: health is not asked
  LET selected == {r \in rows : SupportsAnswer(r)} IN
  IF selected = {} THEN "INSUFFICIENT_KNOWLEDGE" ELSE "ANSWER_SUPPORTED"
EvaluateEvidence(rows, health, given) ==
  LET selected == {r \in rows : SupportsAnswer(r)} IN
  IF selected = {} THEN IF Degraded(health) THEN "RETRIEVAL_DEGRADED" ELSE "INSUFFICIENT_KNOWLEDGE"
  ELSE IF \E r, s \in selected : /\ r.window # 0 /\ s.window # 0
                                 /\ r.document # s.document /\ r.window # s.window
  THEN "CONFLICTING_KNOWLEDGE"
  ELSE IF ~given /\ \E r \in selected : r.asks THEN "NEEDS_CUSTOMER_INFO"
  ELSE "ANSWER_SUPPORTED"

-----------------------------------------------------------------------------
(* Knowledge failures, twice.                                              *)

Decisions        == {"ANSWER_SUPPORTED", "NEEDS_CUSTOMER_INFO", "INSUFFICIENT_KNOWLEDGE",
                     "CONFLICTING_KNOWLEDGE", "RETRIEVAL_DEGRADED"}
KnowledgeReasons == {"WRONG_KNOWLEDGE", "INSUFFICIENT_KB", "IRRELEVANT_EVIDENCE", "UNSUPPORTED_CLAIM"}
Reasons          == KnowledgeReasons \cup {"BAD_TONE"}    \* BAD_TONE for the five others
ASSUME NullAssumption == Nothing \notin Decisions \cup Reasons

\* A run as both read it; decision is Nothing in a run without a snapshot of it.
Reviewed == [abstained : BOOLEAN, current : BOOLEAN,      \* current: evidence-v2
             decision : Decisions \cup {Nothing},
             disposition : {Nothing, "ACCEPTED", "EDITED", "REJECTED"}, reason : Reasons \cup {Nothing}]

PolicyOutcome(run) == IF ~run.current THEN "LEGACY_UNKNOWN"
                      ELSE IF run.decision = Nothing THEN "UNKNOWN" ELSE run.decision

\* mutant: the agent's reason before the policy's own
FeedbackFirst(run) ==
  IF run.disposition \notin {Nothing, "ACCEPTED"} /\ run.reason \in KnowledgeReasons THEN run.reason
  ELSE IF run.abstained /\ PolicyOutcome(run) \in {"INSUFFICIENT_KNOWLEDGE", "CONFLICTING_KNOWLEDGE"}
  THEN PolicyOutcome(run) ELSE Nothing
ClassifyKnowledgeFailure(run) ==
  IF PolicyOutcome(run) \in {"NEEDS_CUSTOMER_INFO", "RETRIEVAL_DEGRADED"} THEN Nothing
  ELSE IF run.abstained /\ run.current /\ PolicyOutcome(run) \in {"INSUFFICIENT_KNOWLEDGE", "CONFLICTING_KNOWLEDGE"}
  THEN PolicyOutcome(run)
  ELSE IF run.disposition \notin {Nothing, "ACCEPTED"} /\ run.reason \in KnowledgeReasons THEN run.reason
  ELSE Nothing

\* A source the run cites: eligible as evidence, and linked to the run's
\* immutable record of the versions it used.
Source == [version : Versions, eligible : BOOLEAN, linked : BOOLEAN]
AttributedVersions(reason, sources) ==
  LET selected == {s.version : s \in {x \in sources : x.eligible /\ x.linked}} IN
  IF Cardinality(selected) = 1 /\ reason \in {"WRONG_KNOWLEDGE", "IRRELEVANT_EVIDENCE"} THEN selected
  ELSE IF reason = "CONFLICTING_KNOWLEDGE" THEN selected
  ELSE {}

\* The SQL, whose comparisons with a null are null: neither true nor false.
Facts(run) ==
  LET policy   == PolicyOutcome(run)
      declined == run.disposition # Nothing /\ run.disposition # "ACCEPTED" IN
  CASE policy \in {"NEEDS_CUSTOMER_INFO", "RETRIEVAL_DEGRADED"} -> Nothing
    [] OTHER -> CASE run.abstained /\ policy \in {"INSUFFICIENT_KNOWLEDGE", "CONFLICTING_KNOWLEDGE"} -> policy
                  [] OTHER -> IF declined /\ run.reason # Nothing /\ run.reason \in KnowledgeReasons
                              THEN run.reason ELSE Nothing
Blamed(reason, sources) ==
  LET uses == {s.version : s \in {x \in sources : x.eligible /\ x.linked}} IN
  {v \in uses : reason # Nothing /\ (reason = "CONFLICTING_KNOWLEDGE"
                  \/ (Cardinality(uses) = 1 /\ reason \in {"WRONG_KNOWLEDGE", "IRRELEVANT_EVIDENCE"}))}

-----------------------------------------------------------------------------
(* Properties, over all inputs within the bounds.                          *)

Lists     == SeqOf(Chunks, ListLimit)
Partition == {f \in [Chunks -> Chunks] : \A c \in Chunks : f[c] <= c /\ f[f[c]] = f[c]}

\* Better ones take the place of a row: one with the same content, two of its
\* document, or as many as were asked for.
Outdone(better, document, hash, limit, c) ==
  \/ \E k \in better : hash[k] = hash[c]
  \/ Cardinality({k \in better : document[k] = document[c]}) >= 2
  \/ Cardinality(better) >= Asked(limit)

\* What an answer is built on: what is kept is in order, and a candidate is left
\* out exactly if better ones among what is kept take its place (fuseCandidates).
IsBest(semantic, lexical, document, hash, limit) ==
  LET kept == SelectEvidence(Ranked(semantic, lexical), document, hash, limit) IN
  /\ \A i, j \in DOMAIN kept : i < j => Before(semantic, lexical, kept[i], kept[j])
  /\ \A c \in Found(semantic, lexical) :
       c \notin Range(kept) <=>
         Outdone({k \in Range(kept) : Before(semantic, lexical, k, c)}, document, hash, limit, c)
FusionIsBest ==
  \A semantic \in Lists : \A lexical \in {l \in Lists : IsInjective(l)} :
  \A document, hash \in Partition : \A limit \in {0, 2, 3} :
    IsBest(semantic, lexical, document, hash, limit)

\* What both searches found comes before what only one did, wherever it stands
\* in their lists, as long as these are short (fuseCandidates).
AgreementWins == ListLimit <= RrfK + 1 =>
  \A semantic, lexical \in Lists : \A a, b \in Found(semantic, lexical) :
    a \in Range(semantic) \cap Range(lexical) /\ b \notin Range(semantic) \cap Range(lexical)
      => Before(semantic, lexical, a, b)

\* Dashboards and issues never tell different stories: the SQL and the intake
\* find the same failure in every run and blame the same versions for it.
QualityAgrees == \A run \in Reviewed : \A sources \in SUBSET Source :
  /\ Facts(run) = ClassifyKnowledgeFailure(run)
  /\ Blamed(Facts(run), sources) = AttributedVersions(ClassifyKnowledgeFailure(run), sources)

\* An outage is not mistaken for missing knowledge: unless both searches did
\* their work, whatever they found, no run is filed for insufficient knowledge
\* (retrieveScoped, evaluateEvidence, classifyKnowledgeFailure).
OutageIsNoIssue ==
  \A scopeRead, given \in BOOLEAN : \A semantic \in SemanticStatuses, lexical \in LexicalStatuses :
  \A rows \in SUBSET [document : {1}, semantic : {"none", "strong"}, coverage : {"low", "high"},
                      lexical : BOOLEAN, window : {0}, asks : {TRUE}] :
    LET health   == Statuses(scopeRead, semantic, lexical)
        decision == EvaluateEvidence(rows, health, given)
        run      == [abstained |-> decision # "ANSWER_SUPPORTED", current |-> TRUE, decision |-> decision,
                     disposition |-> Nothing, reason |-> Nothing]
    IN ClassifyKnowledgeFailure(run) = "INSUFFICIENT_KNOWLEDGE" =>
         scopeRead /\ semantic \in {"OK", "DISABLED"} /\ lexical = "OK"
=============================================================================
