--------------------------- MODULE CopilotProofs ----------------------------
(***************************************************************************)
(* Copilot runs for any number of runs, agents, messages and requests: a   *)
(* run is decided once, its message is sent once and in its context, it is *)
(* filed as its record says, and the panel is right about what it tells.   *)
(*                                                                         *)
(* Runs and evaluations are written once. So a request that has committed  *)
(* still knows what the evaluation of its run is when it announces,        *)
(* derives and answers, and only the request that wrote it announces.      *)
(*                                                                         *)
(* The evidence, for any rows: the fusion is computed along lists, so its  *)
(* proof needs induction. The library's theorems of induction take an      *)
(* operator, which the provers cannot instantiate; that the finite sets    *)
(* are well-founded takes none, and the numbers up to n are such sets.     *)
(***************************************************************************)
EXTENDS Copilot, FiniteSetTheorems, TLAPS

Signals == Decisions \cup Reasons \cup {Nothing}

Typed ==
  /\ status \in Ticket /\ thread \in Seq(Post) /\ Len(thread) <= MaxPosts /\ staff \subseteq Users
  /\ run \in [Runs -> Run \cup {Nothing}] /\ evaluation \in [Runs -> Evaluation \cup {Nothing}]
  /\ signal \in [Runs -> Signals] /\ announced \in [Runs -> Nat]
  /\ call \subseteq Call /\ panel \in Panel

\* The evaluation a decision of a request is.
Decision(c) == [by |-> c.by, kind |-> c.kind, what |-> c.what]

\* What a request knows of its run.
Sound(c) ==
  /\ c.live => c.by = Agent
  /\ c.kind = "generate" => c.context \in Contexts
  /\ c.kind # "generate" => /\ c.run \in Runs /\ run[c.run] # Nothing
                            /\ c.what \in (IF c.kind = "send" THEN Texts ELSE Refusals)
  /\ c.committed => c.run \in Runs /\ run[c.run] # Nothing
  /\ c.committed /\ c.kind # "generate" => evaluation[c.run] = Decision(c)
  /\ c.fresh => c.committed /\ c.kind = "send" /\ announced[c.run] = 0

\* One request wrote the decision; the panel waits for one.
Requests ==
  /\ \A c \in call : Sound(c)
  /\ \A c, d \in call : c.fresh /\ d.fresh /\ c.run = d.run => c = d
  /\ \A c, d \in call : c.live /\ d.live => c = d

\* What the panel waits for is of its own run.
Waits == \A c \in call : c.live => /\ panel.told = "nothing"
                                   /\ c.kind # "generate" => c.run = panel.run
Shows == /\ panel.run # Nothing => run[panel.run] # Nothing
         /\ panel.told # "nothing" => /\ panel.run \in Runs /\ evaluation[panel.run] # Nothing
                                      /\ PanelTellsTruth

\* Messages and decisions to send are the same.
Sends(r) == evaluation[r] # Nothing /\ evaluation[r].kind = "send"
Messages ==
  /\ \A i \in DOMAIN thread : thread[i].run # Nothing =>
       /\ evaluation[thread[i].run] # Nothing
       /\ evaluation[thread[i].run] = [by |-> thread[i].by, kind |-> "send", what |-> thread[i].text]
  /\ \A r \in Runs : Sends(r) => \E i \in DOMAIN thread : thread[i].run = r
  /\ \A i, j \in DOMAIN thread : thread[i].run = thread[j].run /\ thread[i].run # Nothing => i = j
  /\ \A r \in Runs : announced[r] # 0 => announced[r] = 1 /\ Sends(r)

\* A run is decided and filed after it was saved.
Saved == \A r \in Runs : run[r] = Nothing => evaluation[r] = Nothing /\ signal[r] = Nothing

IInv == Typed /\ Requests /\ Waits /\ Shows /\ Messages /\ Saved

-----------------------------------------------------------------------------
(* Types of what is written.                                               *)

LEMMA Consts == /\ Agent \in Users /\ Nothing \notin Runs /\ Nothing \notin Run /\ Nothing \notin Evaluation
                /\ MaxPosts \in Nat
  BY CopilotAssumption, NothingAssumption

LEMMA DecisionIs ==
  ASSUME NEW c \in Call, c.kind # "generate", c.what \in Texts \cup Refusals
  PROVE  /\ Decision(c) \in Evaluation /\ Decision(c).by = c.by
         /\ Decision(c).kind = c.kind /\ Decision(c).what = c.what
  BY DEF Decision, Evaluation, Call

LEMMA ContextIs == Typed => Context \in Contexts
<1> SUFFICES ASSUME Typed PROVE Context \in Contexts
  OBVIOUS
<1>1. Len(thread) \in 0 .. MaxPosts
  BY Consts DEF Typed
<1> QED  BY <1>1 DEF Context, Contexts, Typed

LEMMA EvidenceIs ==
  ASSUME NEW rows, NEW health, NEW given
  PROVE  EvaluateEvidence(rows, health, given) \in Decisions
  BY DEF EvaluateEvidence, Decisions

LEMMA ReasonIs == ASSUME NEW r \in Runs, Typed, run[r] # Nothing PROVE Reason(r) \in Signals
<1> DEFINE x == [abstained |-> run[r].decision # "ANSWER_SUPPORTED", current |-> TRUE, decision |-> run[r].decision,
                 disposition |-> IF evaluation[r] = Nothing THEN Nothing
                                 ELSE IF evaluation[r].kind = "reject" THEN "REJECTED"
                                 ELSE IF evaluation[r].what = "edited" THEN "EDITED" ELSE "ACCEPTED",
                 reason |-> IF evaluation[r] # Nothing /\ evaluation[r].kind = "reject"
                            THEN evaluation[r].what ELSE Nothing]
<1>1. Reason(r) = ClassifyKnowledgeFailure(x)
  BY DEF Reason
<1> HIDE DEF x
<1>2. ClassifyKnowledgeFailure(x) \in {"INSUFFICIENT_KNOWLEDGE", "CONFLICTING_KNOWLEDGE"} \cup KnowledgeReasons \cup {Nothing}
  BY DEF ClassifyKnowledgeFailure
<1> QED  BY <1>1, <1>2 DEF Signals, Decisions, Reasons

\* A reason stays what it was when a run is decided.
LEMMA ReasonStays ==
  ASSUME NEW x, NEW y, x.abstained = (x.decision # "ANSWER_SUPPORTED"), x.current = TRUE, x.disposition = Nothing,
         y.abstained = x.abstained, y.current = TRUE, y.decision = x.decision,
         ClassifyKnowledgeFailure(x) # Nothing
  PROVE  ClassifyKnowledgeFailure(y) = ClassifyKnowledgeFailure(x)
  BY DEF ClassifyKnowledgeFailure, PolicyOutcome

-----------------------------------------------------------------------------
(* What the steps do.                                                      *)

\* A new request of the panel or of another member.
Asks(d) ==
  /\ d \in Call /\ call' = call \cup {d} /\ ~d.committed /\ ~d.fresh
  /\ d.kind = "generate" => d.context \in Contexts
  /\ d.kind # "generate" => /\ d.run \in Runs /\ run[d.run] # Nothing
                            /\ d.what \in (IF d.kind = "send" THEN Texts ELSE Refusals)
  /\ d.live => /\ d.by = Agent /\ \A c \in call : ~c.live
               /\ panel' \in Panel /\ panel'.told = "nothing" /\ panel'.run = panel.run
               /\ d.kind # "generate" => d.run = panel.run
  /\ ~d.live => UNCHANGED panel
  /\ UNCHANGED <<ticketVars, staff, runVars>>
Asking == \/ ClickGenerate
          \/ \E text \in Texts : ClickSend(text)
          \/ \E reason \in Refusals : ClickReject(reason)
          \/ \E by \in Users, kind \in {"send", "reject"}, r \in Runs, what \in Texts \cup Refusals :
               Elsewhere(by, kind, r, what)

LEMMA ClearedIs == Typed => Cleared \in Panel /\ Cleared.told = "nothing" /\ Cleared.run = panel.run
<1> SUFFICES ASSUME Typed, NEW p \in Panel, p = panel
             PROVE  Cleared \in Panel /\ Cleared.told = "nothing" /\ Cleared.run = panel.run
  BY DEF Typed
<1>1. [p EXCEPT !.told = "nothing", !.what = Nothing] \in Panel
  BY DEF Panel
<1>2. /\ [p EXCEPT !.told = "nothing", !.what = Nothing].told = "nothing"
      /\ [p EXCEPT !.told = "nothing", !.what = Nothing].run = p.run
  BY DEF Panel
<1> QED  BY <1>1, <1>2 DEF Cleared

LEMMA AskIs == ASSUME IInv, Asking PROVE \E d \in Call : Asks(d)
<1>1. CASE ClickGenerate
  <2> DEFINE d == Request(Agent, TRUE, "generate", Nothing, Nothing)
  <2>1. /\ d \in Call /\ d.by = Agent /\ d.live /\ d.kind = "generate"
        /\ ~d.committed /\ ~d.fresh /\ d.context \in Contexts
    BY ContextIs, Consts DEF IInv, Request, Call
  <2>2. call' = call \cup {d} /\ panel' = Cleared /\ \A c \in call : ~c.live
    BY <1>1 DEF ClickGenerate, Ask, Waiting
  <2> HIDE DEF d
  <2> QED  BY <1>1, <2>1, <2>2, ClearedIs DEF Asks, ClickGenerate, IInv
<1>2. ASSUME NEW text \in Texts, ClickSend(text) PROVE \E d \in Call : Asks(d)
  <2>1. panel.run \in Runs /\ run[panel.run] # Nothing
    BY <1>2 DEF ClickSend, IInv, Shows, Typed, Panel
  <2> PICK r \in Runs : r = panel.run
    BY <2>1
  <2> DEFINE d == Request(Agent, TRUE, "send", r, text)
  <2>2. /\ d \in Call /\ d.by = Agent /\ d.live /\ d.kind = "send" /\ d.run = r /\ d.what = text
        /\ ~d.committed /\ ~d.fresh
    BY ContextIs, Consts DEF IInv, Request, Call
  <2>3. call' = call \cup {d} /\ panel' = Cleared /\ \A c \in call : ~c.live
    BY <1>2 DEF ClickSend, Ask, Waiting
  <2> HIDE DEF d
  <2> QED  BY <1>2, <2>1, <2>2, <2>3, ClearedIs DEF Asks, ClickSend, IInv
<1>3. ASSUME NEW reason \in Refusals, ClickReject(reason) PROVE \E d \in Call : Asks(d)
  <2>1. panel.run \in Runs /\ run[panel.run] # Nothing
    BY <1>3 DEF ClickReject, IInv, Shows, Typed, Panel
  <2> PICK r \in Runs : r = panel.run
    BY <2>1
  <2> DEFINE d == Request(Agent, TRUE, "reject", r, reason)
  <2>2. /\ d \in Call /\ d.by = Agent /\ d.live /\ d.kind = "reject" /\ d.run = r /\ d.what = reason
        /\ ~d.committed /\ ~d.fresh
    BY ContextIs, Consts DEF IInv, Request, Call
  <2>3. call' = call \cup {d} /\ panel' = Cleared /\ \A c \in call : ~c.live
    BY <1>3 DEF ClickReject, Ask, Waiting
  <2> HIDE DEF d
  <2> QED  BY <1>3, <2>1, <2>2, <2>3, ClearedIs DEF Asks, ClickReject, IInv
<1>4. ASSUME NEW by \in Users, NEW kind \in {"send", "reject"}, NEW r \in Runs, NEW what \in Texts \cup Refusals,
             Elsewhere(by, kind, r, what)
      PROVE  \E d \in Call : Asks(d)
  <2> DEFINE d == Request(by, FALSE, kind, r, what)
  <2>1. /\ d \in Call /\ ~d.live /\ d.kind = kind /\ d.run = r /\ d.what = what
        /\ ~d.committed /\ ~d.fresh
    BY Consts DEF Request, Call
  <2>2. call' = call \cup {d} /\ UNCHANGED panel /\ run[r] # Nothing
        /\ what \in (IF kind = "send" THEN Texts ELSE Refusals)
    BY <1>4 DEF Elsewhere, Ask
  <2> HIDE DEF d
  <2> QED  BY <1>4, <2>1, <2>2 DEF Asks, Elsewhere
<1> QED  BY <1>1, <1>2, <1>3, <1>4 DEF Asking

\* A request moves on.
Becomes(c, d) == call' = (call \ {c}) \cup {d}
Same(c, d) == d.by = c.by /\ d.kind = c.kind /\ d.what = c.what /\ d.context = c.context

LEMMA LoseIs ==
  ASSUME Typed, NEW c \in call, LoseAnswer(c)
  PROVE  \E d \in Call : /\ Becomes(c, d) /\ Same(c, d) /\ d.run = c.run /\ ~d.live
                         /\ d.committed = c.committed /\ d.fresh = c.fresh
                         /\ UNCHANGED <<ticketVars, staff, runVars, panel>>
<1> PICK x \in Call : x = c
  BY DEF Typed
<1>1. /\ [x EXCEPT !.live = FALSE] \in Call /\ Same(x, [x EXCEPT !.live = FALSE])
      /\ [x EXCEPT !.live = FALSE].run = x.run /\ [x EXCEPT !.live = FALSE].live = FALSE
      /\ [x EXCEPT !.live = FALSE].committed = x.committed /\ [x EXCEPT !.live = FALSE].fresh = x.fresh
  BY DEF Call, Same
<1> QED  BY <1>1 DEF LoseAnswer, Becomes

LEMMA SaveIs ==
  ASSUME IInv, NEW c \in call, NEW r \in Runs, SaveRun(c, r)
  PROVE  /\ c.kind = "generate" /\ ~c.committed /\ ~c.fresh
         /\ \E d \in Call : /\ Becomes(c, d) /\ Same(c, d) /\ d.run = r /\ d.live = c.live
                            /\ d.committed /\ ~d.fresh
         /\ run[r] = Nothing /\ run' \in [Runs -> Run \cup {Nothing}] /\ run'[r] # Nothing
         /\ \A q \in Runs : q # r => run'[q] = run[q]
         /\ UNCHANGED <<ticketVars, staff, evaluation, signal, announced, panel>>
<1>1. c \in Call /\ c.kind = "generate" /\ ~c.committed /\ ~c.fresh /\ c.context \in Contexts
  BY DEF SaveRun, IInv, Typed, Requests, Sound
<1> PICK x \in Call : x = c
  BY <1>1
<1> DEFINE d == [x EXCEPT !.run = r, !.committed = TRUE]
<1>2. /\ d \in Call /\ Same(x, d) /\ d.run = r /\ d.live = x.live /\ d.committed = TRUE /\ d.fresh = x.fresh
  BY DEF Call, Same
<1>3. Becomes(c, d)
  BY DEF SaveRun, Becomes
<1> HIDE DEF d
<1> PICK f \in Findings : run' = [run EXCEPT ![r] =
           [context |-> c.context, decision |-> EvaluateEvidence(f.rows, f.health, FALSE)]]
  BY DEF SaveRun
<1> PICK decision \in Decisions : decision = EvaluateEvidence(f.rows, f.health, FALSE)
  BY EvidenceIs
<1>4. [context |-> c.context, decision |-> decision] \in Run
  BY <1>1 DEF Run
<1>5. /\ run[r] = Nothing /\ run' \in [Runs -> Run \cup {Nothing}] /\ run'[r] # Nothing
      /\ \A q \in Runs : q # r => run'[q] = run[q]
  BY <1>4, Consts DEF SaveRun, IInv, Typed
<1> QED  BY <1>1, <1>2, <1>3, <1>5 DEF SaveRun

LEMMA DecideIs ==
  ASSUME IInv, NEW c \in call, Decide(c)
  PROVE  /\ c.kind # "generate" /\ ~c.committed /\ ~c.fresh /\ c.run \in Runs /\ run[c.run] # Nothing
         /\ c.kind = "send" => /\ c.what \in Texts /\ Len(thread) < MaxPosts
                               /\ thread' = Append(thread, [by |-> c.by, run |-> c.run, text |-> c.what])
         /\ c.kind # "send" => UNCHANGED thread
         /\ \E d \in Call : /\ Becomes(c, d) /\ Same(c, d) /\ d.run = c.run /\ d.live = c.live
                            /\ d.committed /\ d.fresh = (c.kind = "send")
         /\ evaluation[c.run] = Nothing /\ evaluation' \in [Runs -> Evaluation \cup {Nothing}]
         /\ evaluation'[c.run] = Decision(c) /\ Decision(c) \in Evaluation
         /\ \A q \in Runs : q # c.run => evaluation'[q] = evaluation[q]
         /\ UNCHANGED <<status, staff, run, signal, announced, panel>>
<1>1. /\ c \in Call /\ c.kind # "generate" /\ ~c.committed /\ ~c.fresh /\ c.run \in Runs /\ run[c.run] # Nothing
      /\ c.what \in (IF c.kind = "send" THEN Texts ELSE Refusals)
  BY DEF Decide, IInv, Typed, Requests, Sound
<1> PICK x \in Call : x = c
  BY <1>1
<1> DEFINE d == [x EXCEPT !.committed = TRUE, !.fresh = x.kind = "send"]
<1>2. /\ d \in Call /\ Same(x, d) /\ d.run = x.run /\ d.live = x.live /\ d.committed = TRUE /\ d.fresh = (x.kind = "send")
  BY DEF Call, Same
<1>3. Becomes(c, d)
  BY DEF Decide, Becomes
<1> HIDE DEF d
<1>4. Decision(c) \in Evaluation
  BY <1>1, DecisionIs
<1>5. evaluation' = [evaluation EXCEPT ![c.run] = Decision(c)] /\ evaluation[c.run] = Nothing
  BY DEF Decide, Decision, Decidable
<1>6. /\ evaluation' \in [Runs -> Evaluation \cup {Nothing}] /\ evaluation'[c.run] = Decision(c)
      /\ \A q \in Runs : q # c.run => evaluation'[q] = evaluation[q]
  BY <1>1, <1>4, <1>5 DEF IInv, Typed
<1> QED  BY <1>1, <1>2, <1>3, <1>4, <1>5, <1>6 DEF Decide

LEMMA ReplayIs ==
  ASSUME IInv, NEW c \in call, Replay(c)
  PROVE  /\ c.kind # "generate" /\ c.run \in Runs /\ evaluation[c.run] = Decision(c)
         /\ \E d \in Call : /\ Becomes(c, d) /\ Same(c, d) /\ d.run = c.run /\ d.live = c.live
                            /\ d.committed /\ ~d.fresh
         /\ UNCHANGED <<ticketVars, staff, runVars, panel>>
<1>1. /\ c \in Call /\ c.kind # "generate" /\ ~c.fresh /\ c.run \in Runs
      /\ c.what \in Texts \cup Refusals
  BY DEF Replay, IInv, Typed, Requests, Sound
<1> PICK x \in Call : x = c
  BY <1>1
<1> DEFINE d == [x EXCEPT !.committed = TRUE]
<1>2. /\ d \in Call /\ Same(x, d) /\ d.run = x.run /\ d.live = x.live /\ d.committed = TRUE /\ d.fresh = x.fresh
  BY DEF Call, Same
<1>3. Becomes(c, d)
  BY DEF Replay, Replayed, Becomes
<1> HIDE DEF d
<1>4. evaluation[c.run] = Decision(c)
  <2> PICK e \in Evaluation : /\ e = evaluation[c.run]
                              /\ e.by = c.by /\ e.kind = c.kind /\ e.what = c.what
    BY <1>1 DEF Replay, IsRetry, ExactRetry, IInv, Typed
  <2> QED  BY DEF Evaluation, Decision
<1> QED  BY <1>1, <1>2, <1>3, <1>4 DEF Replay

LEMMA DeriveIs ==
  ASSUME Typed, NEW r \in Runs, run[r] # Nothing, Derive(r) \/ DeriveFails(r)
  PROVE  /\ signal' \in [Runs -> Signals]
         /\ \A q \in Runs : q # r \/ signal[q] # Nothing => signal'[q] = signal[q]
         /\ \A q \in Runs : q # r => (q \in missed <=> q \in missed')
         /\ signal[r] = Nothing => signal'[r] = Reason(r) \/ (r \in missed' /\ signal'[r] = Nothing)
  BY ReasonIs DEF Typed, Derive, DeriveFails

\* A request ends: refused, dead, or with its answer.
LEMMA RefuseIs ==
  ASSUME Typed, NEW c \in call, Refuse(c)
  PROVE  /\ ~c.committed /\ call' = call \ {c} /\ panel' \in Panel
         /\ panel'.run = panel.run /\ panel'.told = panel.told /\ panel'.what = panel.what
         /\ UNCHANGED <<ticketVars, staff, runVars>>
<1> PICK p \in Panel : p = panel
  BY DEF Typed
<1>1. /\ [p EXCEPT !.terminal = TRUE] \in Panel /\ [p EXCEPT !.terminal = TRUE].run = p.run
      /\ [p EXCEPT !.terminal = TRUE].told = p.told /\ [p EXCEPT !.terminal = TRUE].what = p.what
  BY DEF Panel
<1>2. panel' = p \/ panel' = [p EXCEPT !.terminal = TRUE]
  BY DEF Refuse, Hears
<1> QED  BY <1>1, <1>2 DEF Refuse, Ends

LEMMA ShownIs ==
  ASSUME NEW c \in Call, c.committed, Sound(c), Typed
  PROVE  /\ Shown(c) \in Panel
         /\ c.kind = "generate" => Shown(c).run = c.run /\ Shown(c).told = panel.told /\ Shown(c).what = panel.what
         /\ c.kind # "generate" => /\ Shown(c).run = panel.run /\ Shown(c).what = c.what
                                   /\ Shown(c).told = IF c.kind = "send" THEN "sent" ELSE "rejected"
<1> PICK p \in Panel : p = panel
  BY DEF Typed
<1>1. CASE c.kind = "generate"
  <2> DEFINE x == [p EXCEPT !.run = c.run, !.terminal = FALSE]
  <2>1. c.run \in Runs \cup {Nothing}
    BY DEF Call
  <2>2. x \in Panel /\ x.run = c.run /\ x.told = p.told /\ x.what = p.what
    BY <2>1 DEF Panel
  <2>3. Shown(c) = x
    BY <1>1 DEF Shown
  <2> HIDE DEF x
  <2> QED  BY <1>1, <2>2, <2>3
<1>2. CASE c.kind # "generate"
  <2> DEFINE told == IF c.kind = "send" THEN "sent" ELSE "rejected"
             x == [p EXCEPT !.terminal = TRUE, !.what = c.what, !.told = told]
  <2>1. c.what \in Texts \cup Refusals \cup {Nothing} /\ told \in {"sent", "rejected"}
    BY DEF Call
  <2>2. Shown(c) = x
    BY <1>2 DEF Shown
  <2> HIDE DEF told
  <2>3. x \in Panel /\ x.run = p.run /\ x.told = told /\ x.what = c.what
    BY <2>1 DEF Panel
  <2> HIDE DEF x
  <2> QED  BY <1>2, <2>2, <2>3 DEF told
<1> QED  BY <1>1, <1>2

LEMMA FinishIs ==
  ASSUME IInv, NEW c \in call, Finish(c)
  PROVE  /\ c.committed /\ c.run \in Runs /\ call' = call \ {c}
         /\ panel' \in Panel /\ (~c.live => UNCHANGED panel)
         /\ c.live /\ c.kind = "generate" =>
              panel'.run = c.run /\ panel'.told = panel.told /\ panel'.what = panel.what
         /\ c.live /\ c.kind # "generate" =>
              /\ panel'.run = panel.run /\ panel'.what = c.what
              /\ panel'.told = IF c.kind = "send" THEN "sent" ELSE "rejected"
         /\ signal' \in [Runs -> Signals] /\ announced' \in [Runs -> Nat]
         /\ \A q \in Runs : q # c.run => signal'[q] = signal[q]
         /\ \A q \in Runs : q # c.run \/ ~c.fresh => announced'[q] = announced[q]
         /\ c.fresh => announced'[c.run] = announced[c.run] + 1
         /\ UNCHANGED <<ticketVars, staff, run, evaluation>>
<1>1. c \in Call /\ c.committed /\ Sound(c) /\ Typed
  BY DEF Finish, IInv, Requests, Typed
<1>2. c.run \in Runs /\ run[c.run] # Nothing
  BY <1>1 DEF Sound
<1>3. panel' = IF c.live THEN Shown(c) ELSE panel
  BY DEF Finish, Hears
<1>4. /\ panel' \in Panel /\ (~c.live => UNCHANGED panel)
      /\ c.live /\ c.kind = "generate" =>
           panel'.run = c.run /\ panel'.told = panel.told /\ panel'.what = panel.what
      /\ c.live /\ c.kind # "generate" =>
           /\ panel'.run = panel.run /\ panel'.what = c.what
           /\ panel'.told = IF c.kind = "send" THEN "sent" ELSE "rejected"
  BY <1>1, <1>3, ShownIs DEF Typed
<1>5. signal' \in [Runs -> Signals] /\ \A q \in Runs : q # c.run => signal'[q] = signal[q]
  <2> PICK r \in Runs : r = c.run
    BY <1>2
  <2> QED  BY <1>1, <1>2, DeriveIs DEF Finish, Derives
<1>6. /\ announced' \in [Runs -> Nat]
      /\ \A q \in Runs : q # c.run \/ ~c.fresh => announced'[q] = announced[q]
      /\ c.fresh => announced'[c.run] = announced[c.run] + 1
  BY <1>1, <1>2 DEF Finish, Typed
<1> QED  BY <1>1, <1>2, <1>4, <1>5, <1>6 DEF Finish, Ends

LEMMA CrashIs ==
  ASSUME NEW c \in call, Crash(c)
  PROVE  /\ call' = call \ {c} /\ (c.committed => c.run \in missed') /\ missed \subseteq missed'
         /\ UNCHANGED <<ticketVars, staff, run, evaluation, signal, announced, panel>>
  BY DEF Crash, Ends

LEMMA ReconcileIs ==
  ASSUME Typed, NEW r \in Runs, Reconcile(r)
  PROVE  /\ run[r] # Nothing /\ signal' \in [Runs -> Signals]
         /\ \A q \in Runs : q # r => signal'[q] = signal[q]
         /\ UNCHANGED <<ticketVars, staff, run, evaluation, call, panel, announced>>
  BY DeriveIs DEF Reconcile

\* The steps that touch no request and no run.
Around == Write \/ ChangeStatus \/ (\E u \in Users : ChangeStaff(u)) \/ UNCHANGED vars
LEMMA AroundIs ==
  ASSUME Typed, Around
  PROVE  /\ UNCHANGED <<runVars, call, panel>> /\ staff' \subseteq Users /\ status' \in Ticket
         /\ \/ UNCHANGED thread
            \/ /\ Len(thread) < MaxPosts
               /\ thread' = Append(thread, [by |-> Nothing, run |-> Nothing, text |-> Nothing])
<1>1. CASE UNCHANGED vars
  BY <1>1 DEF Typed, vars, runVars
<1>2. CASE Write
  BY <1>2 DEF Typed, Write
<1>3. CASE ChangeStatus
  BY <1>3 DEF Typed, ChangeStatus
<1>4. CASE \E u \in Users : ChangeStaff(u)
  BY <1>4 DEF Typed, ChangeStaff, ticketVars
<1> QED  BY <1>1, <1>2, <1>3, <1>4 DEF Around

StepOf(c) == LoseAnswer(c) \/ Decide(c) \/ Replay(c) \/ Refuse(c) \/ Finish(c) \/ Crash(c) \/ \E r \in Runs : SaveRun(c, r)
LEMMA StepIs == [Next]_vars => Around \/ Asking \/ (\E c \in call : StepOf(c)) \/ \E r \in Runs : Reconcile(r)
  BY DEF Next, Around, Asking, StepOf

\* A message is added.
LEMMA PostedIs ==
  ASSUME Typed, NEW m \in Post, thread' = Append(thread, m), Len(thread) < MaxPosts
  PROVE  /\ thread' \in Seq(Post) /\ Len(thread') <= MaxPosts /\ Len(thread') = Len(thread) + 1
         /\ thread'[Len(thread) + 1] = m /\ \A i \in DOMAIN thread : thread'[i] = thread[i]
         /\ DOMAIN thread' = DOMAIN thread \cup {Len(thread) + 1} /\ Len(thread) + 1 \notin DOMAIN thread
  BY Consts DEF Typed

LEMMA DecisionPost ==
  ASSUME Typed, NEW c \in Call, c.what \in Texts, c.run \in Runs
  PROVE  [by |-> c.by, run |-> c.run, text |-> c.what] \in Post
  BY DEF Post, Call

-----------------------------------------------------------------------------
(* The invariant is inductive.                                             *)

LEMMA TypedNext == IInv /\ [Next]_vars => Typed'
<1> SUFFICES ASSUME IInv, [Next]_vars PROVE Typed'
  OBVIOUS
<1>0. Typed
  BY DEF IInv
<1>1. CASE Around
  <2>1. [by |-> Nothing, run |-> Nothing, text |-> Nothing] \in Post
    BY DEF Post
  <2> QED  BY <1>0, <1>1, <2>1, AroundIs, PostedIs DEF Typed, runVars
<1>2. CASE Asking
  <2> PICK d \in Call : Asks(d)
    BY <1>2, AskIs
  <2>1. panel' \in Panel
    BY <1>0 DEF Asks, Typed
  <2> QED  BY <1>0, <2>1 DEF Asks, Typed, ticketVars, runVars
<1>3. ASSUME NEW c \in call, StepOf(c) PROVE Typed'
  <2>1. CASE LoseAnswer(c)
    BY <1>0, <2>1, LoseIs DEF Typed, Becomes, ticketVars, runVars
  <2>2. ASSUME NEW r \in Runs, SaveRun(c, r) PROVE Typed'
    BY <1>0, <2>2, SaveIs DEF Typed, Becomes, ticketVars
  <2>3. CASE Decide(c)
    <3>1. c \in Call
      BY <1>0 DEF Typed
    <3>2. thread' \in Seq(Post) /\ Len(thread') <= MaxPosts
      <4>1. CASE c.kind # "send"
        BY <1>0, <2>3, <4>1, DecideIs DEF Typed
      <4>2. CASE c.kind = "send"
        <5>1. [by |-> c.by, run |-> c.run, text |-> c.what] \in Post
          BY <1>0, <2>3, <3>1, <4>2, DecideIs, DecisionPost
        <5> PICK m \in Post : m = [by |-> c.by, run |-> c.run, text |-> c.what]
          BY <5>1
        <5> QED  BY <1>0, <2>3, <4>2, DecideIs, PostedIs
      <4> QED  BY <4>1, <4>2
    <3>3. evaluation' \in [Runs -> Evaluation \cup {Nothing}] /\ UNCHANGED <<status, staff, run, signal, announced, panel>>
      BY <2>3, DecideIs
    <3>4. call' \subseteq Call
      <4> PICK d \in Call : Becomes(c, d)
        BY <2>3, DecideIs
      <4> QED  BY <1>0 DEF Typed, Becomes
    <3> QED  BY <1>0, <3>2, <3>3, <3>4 DEF Typed
  <2>4. CASE Replay(c)
    BY <1>0, <2>4, ReplayIs DEF Typed, Becomes, ticketVars, runVars
  <2>5. CASE Refuse(c)
    BY <1>0, <2>5, RefuseIs DEF Typed, ticketVars, runVars
  <2>6. CASE Finish(c)
    BY <1>0, <2>6, FinishIs DEF Typed, ticketVars
  <2>7. CASE Crash(c)
    BY <1>0, <2>7, CrashIs DEF Typed, ticketVars
  <2> QED  BY <1>3, <2>1, <2>2, <2>3, <2>4, <2>5, <2>6, <2>7 DEF StepOf
<1>4. ASSUME NEW r \in Runs, Reconcile(r) PROVE Typed'
  BY <1>0, <1>4, ReconcileIs DEF Typed, ticketVars
<1> QED  BY <1>1, <1>2, <1>3, <1>4, StepIs

\* Runs and evaluations are written once.
Grows == /\ \A r \in Runs : run[r] # Nothing => run'[r] = run[r]
         /\ \A r \in Runs : evaluation[r] # Nothing => evaluation'[r] = evaluation[r]
LEMMA GrowsNext == ASSUME IInv, [Next]_vars PROVE Grows
<1>0. Typed
  BY DEF IInv
<1>1. CASE Around
  BY <1>0, <1>1, AroundIs DEF Grows, runVars
<1>2. CASE Asking
  BY <1>2, AskIs DEF Asks, Grows, runVars
<1>3. ASSUME NEW c \in call, StepOf(c) PROVE Grows
  BY <1>0, <1>3, LoseIs, SaveIs, DecideIs, ReplayIs, RefuseIs, FinishIs, CrashIs DEF StepOf, Grows, runVars
<1>4. ASSUME NEW r \in Runs, Reconcile(r) PROVE Grows
  BY <1>0, <1>4, ReconcileIs DEF Grows
<1> QED  BY <1>1, <1>2, <1>3, <1>4, StepIs

\* What a request knows stays so.
LEMMA SoundStays ==
  ASSUME Typed, Grows, NEW c \in Call, Sound(c), c.fresh => announced'[c.run] = announced[c.run]
  PROVE  Sound(c)'
<1>1. c.kind # "generate" => Decision(c) # Nothing
  BY DecisionIs, Consts DEF Sound
<1>2. Decision(c)' = Decision(c)
  BY DEF Decision
<1> QED  BY <1>1, <1>2 DEF Sound, Grows

LEMMA EndsIs ==
  ASSUME IInv, Grows, NEW c \in call, call' = call \ {c},
         \A e \in call \ {c} : e.fresh => announced'[e.run] = announced[e.run]
  PROVE  Requests'
<1>1. \A e \in call' : Sound(e)'
  BY SoundStays DEF IInv, Typed, Requests
<1> QED  BY <1>1 DEF IInv, Requests

LEMMA BecomesIs ==
  ASSUME IInv, Grows, NEW c \in call, NEW d \in Call, Becomes(c, d), d.live => c.live, Sound(d)',
         d.fresh => \A e \in call \ {c} : e.fresh => e.run # d.run,
         UNCHANGED announced
  PROVE  Requests'
<1>1. \A e \in call' : e = d \/ e \in call \ {c}
  BY DEF Becomes
<1>2. \A e \in call : Sound(e)'
  BY SoundStays DEF IInv, Typed, Requests
<1>3. \A e \in call' : Sound(e)'
  BY <1>1, <1>2
<1>4. \A e, f \in call' : e.live /\ f.live => e = f
  BY <1>1 DEF IInv, Requests
<1>5. \A e, f \in call' : e.fresh /\ f.fresh /\ e.run = f.run => e = f
  BY <1>1 DEF IInv, Requests
<1> QED  BY <1>3, <1>4, <1>5 DEF Requests

LEMMA RequestsNext == IInv /\ [Next]_vars => Requests'
<1> SUFFICES ASSUME IInv, [Next]_vars PROVE Requests'
  OBVIOUS
<1>0. Typed /\ Requests /\ Grows
  BY GrowsNext DEF IInv
<1>00. UNCHANGED announced => \A e \in call : Sound(e)'
  BY <1>0, SoundStays DEF Typed, Requests
<1>1. CASE Around
  <2>1. UNCHANGED <<call, announced>>
    BY <1>0, <1>1, AroundIs DEF runVars
  <2> QED  BY <1>0, <1>00, <2>1 DEF Requests
<1>2. CASE Asking
  <2> PICK d \in Call : Asks(d)
    BY <1>2, AskIs
  <2>1. Sound(d)'
    BY DEF Asks, Sound, runVars
  <2>2. UNCHANGED announced /\ call' = call \cup {d} /\ ~d.fresh
    BY DEF Asks, runVars
  <2>3. d.live => \A c \in call : ~c.live
    BY DEF Asks
  <2> QED  BY <1>0, <1>00, <2>1, <2>2, <2>3 DEF Requests
<1>3. ASSUME NEW c \in call, StepOf(c) PROVE Requests'
  <2>0. c \in Call /\ Sound(c)
    BY <1>0 DEF Typed, Requests
  <2>00. UNCHANGED announced => Sound(c)'
    BY <1>00
  <2>1. CASE LoseAnswer(c)
    <3> PICK d \in Call : /\ Becomes(c, d) /\ Same(c, d) /\ d.run = c.run /\ ~d.live
                          /\ d.committed = c.committed /\ d.fresh = c.fresh
                          /\ UNCHANGED <<ticketVars, staff, runVars, panel>>
      BY <1>0, <2>1, LoseIs
    <3>1. UNCHANGED announced
      BY DEF runVars
    <3>2. Sound(d)'
      BY <2>00, <3>1 DEF Sound, Same, Decision
    <3>3. d.fresh => \A e \in call \ {c} : e.fresh => e.run # d.run
      BY <1>0 DEF Requests
    <3> QED  BY <1>0, <3>1, <3>2, <3>3, BecomesIs
  <2>2. ASSUME NEW r \in Runs, SaveRun(c, r) PROVE Requests'
    <3> PICK d \in Call : Becomes(c, d) /\ Same(c, d) /\ d.run = r /\ d.live = c.live /\ d.committed /\ ~d.fresh
      BY <2>2, SaveIs
    <3>1. UNCHANGED announced /\ run'[r] # Nothing /\ c.kind = "generate"
      BY <2>2, SaveIs
    <3>2. Sound(d)'
      BY <2>0, <3>1 DEF Sound, Same
    <3> QED  BY <1>0, <3>1, <3>2, BecomesIs
  <2>3. CASE Decide(c)
    <3> PICK d \in Call : Becomes(c, d) /\ Same(c, d) /\ d.run = c.run /\ d.live = c.live /\ d.committed
                          /\ d.fresh = (c.kind = "send")
      BY <2>3, DecideIs
    <3>1. /\ UNCHANGED announced /\ evaluation[c.run] = Nothing /\ evaluation'[c.run] = Decision(c)
          /\ c.run \in Runs /\ c.kind # "generate" /\ run[c.run] # Nothing /\ UNCHANGED run
      BY <2>3, DecideIs
    <3>2. announced[c.run] = 0
      BY <3>1 DEF IInv, Messages, Sends
    <3>3. c.what \in (IF c.kind = "send" THEN Texts ELSE Refusals)
      BY <2>0, <3>1 DEF Sound
    <3>4. Sound(d)'
      BY <2>0, <3>1, <3>2, <3>3 DEF Sound, Same, Decision
    <3>5. \A e \in call : e.fresh => e.run # d.run
      <4> SUFFICES ASSUME NEW e \in call, e.fresh, e.run = c.run PROVE FALSE
        OBVIOUS
      <4>1. e \in Call /\ Sound(e)
        BY <1>0 DEF Typed, Requests
      <4>2. evaluation[e.run] = Decision(e) /\ e.kind # "generate" /\ e.what \in Texts
        BY <4>1 DEF Sound
      <4>3. Decision(e) # Nothing
        BY <4>1, <4>2, DecisionIs, Consts
      <4> QED  BY <3>1, <4>2, <4>3
    <3> QED  BY <1>0, <3>1, <3>4, <3>5, BecomesIs
  <2>4. CASE Replay(c)
    <3> PICK d \in Call : Becomes(c, d) /\ Same(c, d) /\ d.run = c.run /\ d.live = c.live /\ d.committed /\ ~d.fresh
      BY <2>4, ReplayIs
    <3>1. /\ UNCHANGED <<announced, run, evaluation>> /\ evaluation[c.run] = Decision(c)
          /\ c.run \in Runs /\ c.kind # "generate"
      BY <2>4, ReplayIs DEF runVars
    <3>2. Sound(d)'
      BY <2>0, <3>1 DEF Sound, Same, Decision
    <3> QED  BY <1>0, <3>1, <3>2, BecomesIs
  <2>5. CASE Refuse(c)
    BY <1>0, <2>5, RefuseIs, EndsIs DEF runVars
  <2>6. CASE Finish(c)
    <3>1. \A e \in call \ {c} : e.fresh => announced'[e.run] = announced[e.run]
      <4> SUFFICES ASSUME NEW e \in call \ {c}, e.fresh PROVE announced'[e.run] = announced[e.run]
        OBVIOUS
      <4>1. e.run \in Runs
        BY <1>0 DEF Requests, Sound
      <4>2. e.run # c.run \/ ~c.fresh
        BY <1>0 DEF Requests
      <4> QED  BY <2>6, <4>1, <4>2, FinishIs
    <3>2. call' = call \ {c}
      BY <2>6, FinishIs
    <3> QED  BY <1>0, <3>1, <3>2, EndsIs
  <2>7. CASE Crash(c)
    BY <1>0, <2>7, CrashIs, EndsIs
  <2> QED  BY <1>3, <2>1, <2>2, <2>3, <2>4, <2>5, <2>6, <2>7 DEF StepOf
<1>4. ASSUME NEW r \in Runs, Reconcile(r) PROVE Requests'
  BY <1>0, <1>00, <1>4, ReconcileIs DEF Requests
<1> QED  BY <1>1, <1>2, <1>3, <1>4, StepIs

LEMMA WaitsNext == IInv /\ [Next]_vars => Waits'
<1> SUFFICES ASSUME IInv, [Next]_vars PROVE Waits'
  OBVIOUS
<1>0. Typed /\ Waits /\ \A c, d \in call : c.live /\ d.live => c = d
  BY DEF IInv, Requests
<1>1. CASE Around
  BY <1>0, <1>1, AroundIs DEF Waits
<1>2. CASE Asking
  <2> PICK d \in Call : Asks(d)
    BY <1>2, AskIs
  <2>1. CASE d.live
    BY <2>1 DEF Asks, Waits
  <2>2. CASE ~d.live
    BY <1>0, <2>2 DEF Asks, Waits
  <2> QED  BY <2>1, <2>2
<1>3. ASSUME NEW c \in call, StepOf(c) PROVE Waits'
  <2>1. ASSUME NEW d, Becomes(c, d), d.live => c.live /\ d.kind = c.kind,
               d.kind # "generate" => d.run = c.run, UNCHANGED panel
        PROVE  Waits'
    BY <1>0, <2>1 DEF Waits, Becomes
  <2>2. CASE LoseAnswer(c)
    BY <1>0, <2>1, <2>2, LoseIs
  <2>3. ASSUME NEW r \in Runs, SaveRun(c, r) PROVE Waits'
    BY <2>1, <2>3, SaveIs DEF Same
  <2>4. CASE Decide(c)
    BY <2>1, <2>4, DecideIs DEF Same
  <2>5. CASE Replay(c)
    BY <2>1, <2>5, ReplayIs DEF Same
  <2>6. CASE Refuse(c)
    BY <1>0, <2>6, RefuseIs DEF Waits
  <2>7. CASE Finish(c)
    BY <1>0, <2>7, FinishIs DEF Waits
  <2>8. CASE Crash(c)
    BY <1>0, <2>8, CrashIs DEF Waits
  <2> QED  BY <1>3, <2>2, <2>3, <2>4, <2>5, <2>6, <2>7, <2>8 DEF StepOf
<1>4. ASSUME NEW r \in Runs, Reconcile(r) PROVE Waits'
  BY <1>0, <1>4, ReconcileIs DEF Waits
<1> QED  BY <1>1, <1>2, <1>3, <1>4, StepIs

\* A panel that says nothing new stays right.
LEMMA ShowsStays ==
  ASSUME IInv, Grows, panel'.run = panel.run,
         panel'.told = "nothing" \/ (panel'.told = panel.told /\ panel'.what = panel.what)
  PROVE  Shows'
<1>1. panel.run \in Runs \cup {Nothing}
  BY DEF IInv, Typed, Panel
<1>2. panel'.run # Nothing => run'[panel'.run] # Nothing
  BY <1>1 DEF IInv, Shows, Grows
<1>3. ASSUME panel'.told # "nothing"
      PROVE  panel'.run \in Runs /\ evaluation'[panel'.run] # Nothing /\ PanelTellsTruth'
  BY <1>3 DEF IInv, Shows, Grows, PanelTellsTruth
<1> QED  BY <1>2, <1>3 DEF Shows

LEMMA ShowsNext == IInv /\ [Next]_vars => Shows'
<1> SUFFICES ASSUME IInv, [Next]_vars PROVE Shows'
  OBVIOUS
<1>0. Typed /\ Grows /\ Requests /\ Waits
  BY GrowsNext DEF IInv
<1>00. UNCHANGED panel => Shows'
  BY <1>0, ShowsStays
<1>1. CASE Around
  BY <1>0, <1>00, <1>1, AroundIs
<1>2. CASE Asking
  <2> PICK d \in Call : Asks(d)
    BY <1>2, AskIs
  <2> QED  BY <1>0, <1>00, ShowsStays DEF Asks
<1>3. ASSUME NEW c \in call, StepOf(c) PROVE Shows'
  <2>1. CASE LoseAnswer(c) \/ Decide(c) \/ Replay(c) \/ Crash(c) \/ \E r \in Runs : SaveRun(c, r)
    BY <1>0, <1>00, <2>1, LoseIs, DecideIs, ReplayIs, CrashIs, SaveIs
  <2>2. CASE Refuse(c)
    BY <1>0, <2>2, RefuseIs, ShowsStays
  <2>3. CASE Finish(c)
    <3>1. c \in Call /\ Sound(c) /\ c.committed /\ c.run \in Runs /\ UNCHANGED <<run, evaluation>>
      BY <1>0, <2>3, FinishIs DEF Typed, Requests
    <3>2. CASE ~c.live
      BY <1>00, <2>3, <3>2, FinishIs
    <3>3. CASE c.live /\ c.kind = "generate"
      <4>1. panel'.run = c.run /\ panel'.told = "nothing" /\ run'[c.run] # Nothing
        BY <1>0, <2>3, <3>1, <3>3, FinishIs DEF Waits, Sound
      <4> QED  BY <4>1 DEF Shows, PanelTellsTruth
    <3>4. CASE c.live /\ c.kind # "generate"
      <4>1. /\ panel'.run = c.run /\ panel'.what = c.what
            /\ panel'.told = IF c.kind = "send" THEN "sent" ELSE "rejected"
        BY <1>0, <2>3, <3>4, FinishIs DEF Waits
      <4>2. /\ c.by = Agent /\ c.kind \in {"send", "reject"} /\ evaluation'[c.run] = Decision(c)
            /\ run'[c.run] # Nothing /\ c.what \in Texts \cup Refusals
        BY <3>1, <3>4 DEF Sound, Call
      <4>3. Decision(c) # Nothing
        BY <3>1, <3>4, <4>2, DecisionIs, Consts
      <4>4. PanelTellsTruth'
        BY <4>1, <4>2 DEF PanelTellsTruth, Decision
      <4> QED  BY <3>1, <4>1, <4>2, <4>3, <4>4 DEF Shows
    <3> QED  BY <3>2, <3>3, <3>4
  <2> QED  BY <1>3, <2>1, <2>2, <2>3 DEF StepOf
<1>4. ASSUME NEW r \in Runs, Reconcile(r) PROVE Shows'
  BY <1>0, <1>00, <1>4, ReconcileIs
<1> QED  BY <1>1, <1>2, <1>3, <1>4, StepIs

LEMMA MessagesNext == IInv /\ [Next]_vars => Messages'
<1> SUFFICES ASSUME IInv, [Next]_vars PROVE Messages'
  OBVIOUS
<1>0. Typed /\ Requests /\ Messages
  BY DEF IInv
<1>00. UNCHANGED <<thread, evaluation, announced>> => Messages'
  BY <1>0 DEF Messages, Sends
<1>1. CASE Around
  <2>1. UNCHANGED <<evaluation, announced>>
    BY <1>0, <1>1, AroundIs DEF runVars
  <2>2. CASE UNCHANGED thread
    BY <1>00, <2>1, <2>2
  <2>3. CASE ~UNCHANGED thread
    <3> PICK m \in Post : m = [by |-> Nothing, run |-> Nothing, text |-> Nothing]
      BY DEF Post
    <3>1. m.run = Nothing
      OBVIOUS
    <3>2. thread' = Append(thread, m) /\ Len(thread) < MaxPosts
      BY <1>0, <1>1, <2>3, AroundIs
    <3>3. /\ thread'[Len(thread) + 1] = m /\ \A i \in DOMAIN thread : thread'[i] = thread[i]
          /\ DOMAIN thread' = DOMAIN thread \cup {Len(thread) + 1} /\ Len(thread) + 1 \notin DOMAIN thread
      BY <1>0, <3>2, PostedIs
    <3> QED  BY <1>0, <2>1, <3>1, <3>3 DEF Messages, Sends
  <2> QED  BY <2>2, <2>3
<1>2. CASE Asking
  BY <1>00, <1>2, AskIs DEF Asks, ticketVars, runVars
<1>3. ASSUME NEW c \in call, StepOf(c) PROVE Messages'
  <2>1. CASE LoseAnswer(c) \/ Replay(c) \/ Refuse(c) \/ Crash(c) \/ \E r \in Runs : SaveRun(c, r)
    BY <1>0, <1>00, <2>1, LoseIs, ReplayIs, RefuseIs, CrashIs, SaveIs DEF ticketVars, runVars
  <2>2. CASE Decide(c)
    <3>0. /\ c \in Call /\ c.run \in Runs /\ evaluation[c.run] = Nothing /\ Decision(c) \in Evaluation
          /\ evaluation'[c.run] = Decision(c) /\ \A q \in Runs : q # c.run => evaluation'[q] = evaluation[q]
          /\ UNCHANGED announced /\ Decision(c) # Nothing /\ c.run # Nothing
      BY <1>0, <2>2, DecideIs, Consts DEF Typed
    <3>1. \A i \in DOMAIN thread : thread[i].run \in Runs \cup {Nothing} /\ thread[i].run # c.run
      <4>1. \A i \in DOMAIN thread : thread[i] \in Post
        BY <1>0 DEF Typed
      <4> QED  BY <1>0, <3>0, <4>1 DEF Messages, Post
    <3>2. \A r \in Runs : announced[r] # 0 => r # c.run
      BY <1>0, <3>0 DEF Messages, Sends
    <3>3. \A r \in Runs : r # c.run => (Sends(r)' <=> Sends(r))
      BY <3>0 DEF Sends
    <3>4. CASE c.kind # "send"
      <4>1. UNCHANGED thread /\ ~Sends(c.run)'
        <5>1. Decision(c).kind = c.kind
          BY DEF Decision
        <5> QED  BY <2>2, <3>0, <3>4, <5>1, DecideIs DEF Sends
      <4>2. \A i \in DOMAIN thread' : thread'[i].run # Nothing =>
              /\ evaluation'[thread'[i].run] # Nothing
              /\ evaluation'[thread'[i].run] = [by |-> thread'[i].by, kind |-> "send", what |-> thread'[i].text]
        BY <1>0, <3>0, <3>1, <4>1 DEF Messages
      <4>3. \A r \in Runs : Sends(r)' => \E i \in DOMAIN thread' : thread'[i].run = r
        BY <1>0, <3>3, <4>1 DEF Messages
      <4>4. \A r \in Runs : announced'[r] # 0 => announced'[r] = 1 /\ Sends(r)'
        BY <1>0, <3>0, <3>2, <3>3 DEF Messages
      <4>5. \A i, j \in DOMAIN thread' : thread'[i].run = thread'[j].run /\ thread'[i].run # Nothing => i = j
        BY <1>0, <4>1 DEF Messages
      <4> QED  BY <4>2, <4>3, <4>4, <4>5 DEF Messages
    <3>5. CASE c.kind = "send"
      <4>0. c.what \in Texts /\ Len(thread) < MaxPosts
            /\ thread' = Append(thread, [by |-> c.by, run |-> c.run, text |-> c.what])
        BY <2>2, <3>5, DecideIs
      <4> PICK m \in Post : m = [by |-> c.by, run |-> c.run, text |-> c.what]
        BY <1>0, <3>0, <4>0, DecisionPost
      <4>1. m.by = c.by /\ m.run = c.run /\ m.text = c.what
        OBVIOUS
      <4>2. /\ thread'[Len(thread) + 1] = m /\ \A i \in DOMAIN thread : thread'[i] = thread[i]
            /\ DOMAIN thread' = DOMAIN thread \cup {Len(thread) + 1} /\ Len(thread) + 1 \notin DOMAIN thread
        BY <1>0, <4>0, PostedIs
      <4>3. Decision(c) = [by |-> m.by, kind |-> "send", what |-> m.text]
        BY <3>5, <4>1 DEF Decision
      <4>4. \A i \in DOMAIN thread' : thread'[i].run # Nothing =>
              /\ evaluation'[thread'[i].run] # Nothing
              /\ evaluation'[thread'[i].run] = [by |-> thread'[i].by, kind |-> "send", what |-> thread'[i].text]
        <5>1. ASSUME NEW i \in DOMAIN thread, thread[i].run # Nothing
              PROVE  /\ evaluation'[thread'[i].run] # Nothing
                     /\ evaluation'[thread'[i].run] =
                          [by |-> thread'[i].by, kind |-> "send", what |-> thread'[i].text]
          BY <1>0, <3>0, <3>1, <4>2, <5>1 DEF Messages
        <5> QED  BY <3>0, <4>1, <4>2, <4>3, <5>1
      <4>5. \A r \in Runs : Sends(r)' => \E i \in DOMAIN thread' : thread'[i].run = r
        BY <1>0, <3>3, <4>1, <4>2 DEF Messages
      <4>6. \A r \in Runs : announced'[r] # 0 => announced'[r] = 1 /\ Sends(r)'
        BY <1>0, <3>0, <3>2, <3>3 DEF Messages
      <4>7. \A i, j \in DOMAIN thread' : thread'[i].run = thread'[j].run /\ thread'[i].run # Nothing => i = j
        BY <1>0, <3>1, <4>1, <4>2 DEF Messages
      <4> QED  BY <4>4, <4>5, <4>6, <4>7 DEF Messages
    <3> QED  BY <3>4, <3>5
  <2>3. CASE Finish(c)
    <3>0. /\ c \in Call /\ c.committed /\ c.run \in Runs /\ Sound(c) /\ UNCHANGED <<thread, evaluation>>
          /\ \A q \in Runs : q # c.run \/ ~c.fresh => announced'[q] = announced[q]
          /\ c.fresh => announced'[c.run] = announced[c.run] + 1
      BY <1>0, <2>3, FinishIs DEF Typed, Requests, ticketVars
    <3>1. c.fresh => announced'[c.run] = 1 /\ Sends(c.run)
      <4> SUFFICES ASSUME c.fresh PROVE announced'[c.run] = 1 /\ Sends(c.run)
        OBVIOUS
      <4>1. evaluation[c.run] = Decision(c) /\ c.kind = "send" /\ c.what \in Texts /\ announced[c.run] = 0
        BY <3>0 DEF Sound
      <4>2. Decision(c) # Nothing /\ Decision(c).kind = c.kind
        BY <3>0, <4>1, DecisionIs, Consts
      <4> QED  BY <3>0, <4>1, <4>2 DEF Sends
    <3>2. \A r \in Runs : announced'[r] # 0 => announced'[r] = 1 /\ Sends(r)
      BY <1>0, <3>0, <3>1 DEF Messages
    <3> QED  BY <1>0, <3>0, <3>2 DEF Messages, Sends
  <2> QED  BY <1>3, <2>1, <2>2, <2>3 DEF StepOf
<1>4. ASSUME NEW r \in Runs, Reconcile(r) PROVE Messages'
  BY <1>0, <1>00, <1>4, ReconcileIs DEF ticketVars
<1> QED  BY <1>1, <1>2, <1>3, <1>4, StepIs

LEMMA SavedNext == IInv /\ [Next]_vars => Saved'
<1> SUFFICES ASSUME IInv, [Next]_vars PROVE Saved'
  OBVIOUS
<1>0. Typed /\ Requests /\ Saved
  BY DEF IInv
<1>00. UNCHANGED <<run, evaluation, signal>> => Saved'
  BY <1>0 DEF Saved
<1>1. CASE Around
  BY <1>0, <1>00, <1>1, AroundIs DEF runVars
<1>2. CASE Asking
  BY <1>00, <1>2, AskIs DEF Asks, runVars
<1>3. ASSUME NEW c \in call, StepOf(c) PROVE Saved'
  <2>1. CASE LoseAnswer(c) \/ Replay(c) \/ Refuse(c) \/ Crash(c)
    BY <1>0, <1>00, <2>1, LoseIs, ReplayIs, RefuseIs, CrashIs DEF runVars
  <2>2. ASSUME NEW r \in Runs, SaveRun(c, r) PROVE Saved'
    BY <1>0, <2>2, SaveIs DEF Saved
  <2>3. CASE Decide(c)
    BY <1>0, <2>3, DecideIs DEF Saved
  <2>4. CASE Finish(c)
    <3>1. run[c.run] # Nothing
      BY <1>0, <2>4, FinishIs DEF Requests, Sound
    <3> QED  BY <1>0, <2>4, <3>1, FinishIs DEF Saved
  <2> QED  BY <1>3, <2>1, <2>2, <2>3, <2>4 DEF StepOf
<1>4. ASSUME NEW r \in Runs, Reconcile(r) PROVE Saved'
  BY <1>0, <1>4, ReconcileIs DEF Saved
<1> QED  BY <1>1, <1>2, <1>3, <1>4, StepIs

LEMMA InitIInv == Init => IInv
<1> SUFFICES ASSUME Init PROVE IInv
  OBVIOUS
<1>1. Typed
  BY Consts DEF Init, Typed, Ticket, Signals, Panel
<1>2. Requests /\ Waits /\ Shows /\ Messages /\ Saved
  BY DEF Init, Requests, Waits, Shows, PanelTellsTruth, Messages, Sends, Saved
<1> QED  BY <1>1, <1>2 DEF IInv

\* The inductive invariant holds of every behaviour: types, what requests know
\* of their runs, and that messages and decisions to send are the same.
THEOREM DecisionsAreKept == Spec => []IInv
<1>1. IInv /\ [Next]_vars => IInv'
  BY TypedNext, RequestsNext, WaitsNext, ShowsNext, MessagesNext, SavedNext DEF IInv
<1> QED  BY <1>1, InitIInv, PTL DEF Spec

\* The panel of the ticket page is right about what it tells the agent, whatever
\* was lost, late or decided by others (handleSendDraft, handleRejectCopilot).
THEOREM PanelIsRight == Spec => []PanelTellsTruth
<1>1. IInv => PanelTellsTruth
  BY DEF IInv, Shows, PanelTellsTruth
<1> QED  BY <1>1, DecisionsAreKept, PTL

\* However often it is retried, a suggestion is sent at most once, as decided,
\* and announced at most once (decide, ai.decision.ts).
THEOREM SuggestionsAreSentOnce == Spec => []OneMessagePerRun
<1>1. IInv => OneMessagePerRun
  <2> SUFFICES ASSUME IInv, NEW r \in Runs
               PROVE  LET sent == {i \in DOMAIN thread : thread[i].run = r} IN
                      /\ Cardinality(sent) <= 1 /\ announced[r] <= Cardinality(sent)
                      /\ sent # {} <=> Sends(r)
                      /\ \A i \in sent : thread[i].by = evaluation[r].by /\ thread[i].text = evaluation[r].what
    BY DEF OneMessagePerRun, Sends
  <2> DEFINE sent == {i \in DOMAIN thread : thread[i].run = r}
  <2>0. Typed /\ Messages /\ r # Nothing
    BY Consts DEF IInv
  <2>1. \A i \in DOMAIN thread : thread[i].run = r =>
          /\ evaluation[r] # Nothing /\ evaluation[r].kind = "send"
          /\ evaluation[r].by = thread[i].by /\ evaluation[r].what = thread[i].text
    <3> SUFFICES ASSUME NEW i \in DOMAIN thread, thread[i].run = r
                 PROVE  /\ evaluation[r] # Nothing /\ evaluation[r].kind = "send"
                        /\ evaluation[r].by = thread[i].by /\ evaluation[r].what = thread[i].text
      OBVIOUS
    <3>1. /\ evaluation[r] # Nothing
          /\ evaluation[r] = [by |-> thread[i].by, kind |-> "send", what |-> thread[i].text]
      BY <2>0 DEF Messages
    <3> QED  BY <3>1
  <2>2. sent # {} <=> Sends(r)
    <3>1. Sends(r) => \E i \in DOMAIN thread : thread[i].run = r
      BY <2>0 DEF Messages
    <3> QED  BY <2>1, <3>1 DEF Sends
  <2>3. sent = {} \/ \E i \in sent : sent = {i}
    BY <2>0 DEF Messages
  <2>4. announced[r] \in Nat /\ (announced[r] # 0 => announced[r] = 1 /\ sent # {})
    BY <2>0, <2>2 DEF Typed, Messages
  <2>5. \A i \in sent : thread[i].by = evaluation[r].by /\ thread[i].text = evaluation[r].what
    BY <2>1
  <2> HIDE DEF sent
  <2>6. Cardinality(sent) \in {0, 1} /\ (Cardinality(sent) = 0 <=> sent = {})
    BY <2>3, FS_EmptySet, FS_Singleton
  <2>7. Cardinality(sent) <= 1 /\ announced[r] <= Cardinality(sent)
    BY <2>4, <2>6
  <2> QED  BY <2>2, <2>5, <2>7 DEF sent
<1> QED  BY <1>1, DecisionsAreKept, PTL

\* A reply goes only into the conversation it was written for (decide compares
\* the fingerprint of the ticket it locked with the run's).
THEOREM RepliesAreSentInContext == Spec => SentInContext
<1> DEFINE A == \A i \in DOMAIN thread' \ DOMAIN thread : thread'[i].run # Nothing =>
                  LET r == thread'[i].run IN
                  /\ run[r].context = <<status, i - 1>> /\ run[r].decision = "ANSWER_SUPPORTED"
                  /\ thread'[i].by \in staff
<1>1. IInv /\ [Next]_vars => A
  <2> SUFFICES ASSUME IInv, [Next]_vars PROVE A
    OBVIOUS
  <2>0. Typed
    BY DEF IInv
  <2>00. UNCHANGED thread => A
    OBVIOUS
  <2>1. CASE Around
    <3>1. CASE ~UNCHANGED thread
      <4> PICK m \in Post : m = [by |-> Nothing, run |-> Nothing, text |-> Nothing]
        BY DEF Post
      <4>1. thread' = Append(thread, m) /\ Len(thread) < MaxPosts /\ m.run = Nothing
        BY <2>0, <2>1, <3>1, AroundIs
      <4> QED  BY <2>0, <4>1, PostedIs
    <3> QED  BY <2>00, <3>1
  <2>2. CASE Asking
    BY <2>00, <2>2, AskIs DEF Asks, ticketVars
  <2>3. ASSUME NEW c \in call, StepOf(c) PROVE A
    <3>1. CASE LoseAnswer(c) \/ Replay(c) \/ Refuse(c) \/ Finish(c) \/ Crash(c) \/ \E r \in Runs : SaveRun(c, r)
      BY <2>0, <2>00, <3>1, LoseIs, ReplayIs, RefuseIs, FinishIs, CrashIs, SaveIs DEF ticketVars
    <3>2. CASE Decide(c)
      <4>1. CASE c.kind = "send"
        <5>1. c \in Call /\ c.run \in Runs /\ c.what \in Texts /\ Len(thread) < MaxPosts
              /\ thread' = Append(thread, [by |-> c.by, run |-> c.run, text |-> c.what])
          BY <2>0, <3>2, <4>1, DecideIs DEF Typed
        <5> PICK m \in Post : m = [by |-> c.by, run |-> c.run, text |-> c.what]
          BY <2>0, <5>1, DecisionPost
        <5>2. m.by = c.by /\ m.run = c.run
          OBVIOUS
        <5>3. /\ thread'[Len(thread) + 1] = m /\ DOMAIN thread' = DOMAIN thread \cup {Len(thread) + 1}
          BY <2>0, <5>1, PostedIs
        <5>4. /\ run[c.run].context = <<status, Len(thread)>> /\ run[c.run].decision = "ANSWER_SUPPORTED"
              /\ c.by \in staff
          BY <3>2, <4>1 DEF Decide, Decidable, Unchanged, Context
        <5>5. Len(thread) + 1 - 1 = Len(thread)
          BY <2>0 DEF Typed
        <5> QED  BY <5>2, <5>3, <5>4, <5>5
      <4>2. CASE c.kind # "send"
        BY <2>00, <3>2, <4>2, DecideIs
      <4> QED  BY <4>1, <4>2
    <3> QED  BY <2>3, <3>1, <3>2 DEF StepOf
  <2>4. ASSUME NEW r \in Runs, Reconcile(r) PROVE A
    BY <2>0, <2>00, <2>4, ReconcileIs DEF ticketVars
  <2> QED  BY <2>1, <2>2, <2>3, <2>4, StepIs
<1> QED  BY <1>1, DecisionsAreKept, PTL DEF Spec, SentInContext

-----------------------------------------------------------------------------
(* Signals.                                                                *)

SignalOf(r) ==
  /\ signal[r] # Nothing => signal[r] = Reason(r)
  /\ signal[r] = Nothing /\ Reason(r) # Nothing => r \in missed \/ \E c \in call : c.committed /\ c.run = r

LEMMA ReasonSame ==
  ASSUME NEW r \in Runs, run'[r] = run[r], evaluation'[r] = evaluation[r]
  PROVE  Reason(r)' = Reason(r)
  BY DEF Reason

LEMMA ReasonDecided ==
  ASSUME NEW r \in Runs, run'[r] = run[r], evaluation[r] = Nothing, Reason(r) # Nothing
  PROVE  Reason(r)' = Reason(r)
<1> DEFINE
      R(g, e) == [abstained |-> g.decision # "ANSWER_SUPPORTED", current |-> TRUE, decision |-> g.decision,
                  disposition |-> IF e = Nothing THEN Nothing ELSE IF e.kind = "reject" THEN "REJECTED"
                                  ELSE IF e.what = "edited" THEN "EDITED" ELSE "ACCEPTED",
                  reason |-> IF e # Nothing /\ e.kind = "reject" THEN e.what ELSE Nothing]
      x == R(run[r], evaluation[r])
      y == R(run'[r], evaluation'[r])
<1>1. Reason(r) = ClassifyKnowledgeFailure(x) /\ Reason(r)' = ClassifyKnowledgeFailure(y)
  BY DEF Reason
<1>2. /\ x.abstained = (x.decision # "ANSWER_SUPPORTED") /\ x.current = TRUE /\ x.disposition = Nothing
      /\ y.abstained = x.abstained /\ y.current = TRUE /\ y.decision = x.decision
  OBVIOUS
<1> HIDE DEF x, y
<1> QED  BY <1>1, <1>2, ReasonStays

\* A step that neither decides nor files a run leaves its signal right.
LEMMA SignalStays ==
  ASSUME NEW r \in Runs, SignalOf(r), run'[r] = run[r], evaluation'[r] = evaluation[r], signal'[r] = signal[r],
         r \in missed => r \in missed',
         (\E c \in call : c.committed /\ c.run = r) => r \in missed' \/ \E c \in call' : c.committed /\ c.run = r
  PROVE  SignalOf(r)'
  BY ReasonSame DEF SignalOf

LEMMA SignalFiled ==
  ASSUME Typed, NEW r \in Runs, SignalOf(r), run[r] # Nothing, run'[r] = run[r], evaluation'[r] = evaluation[r],
         Derive(r) \/ DeriveFails(r)
  PROVE  SignalOf(r)'
<1>1. Reason(r)' = Reason(r)
  BY ReasonSame
<1> QED  BY <1>1, DeriveIs DEF SignalOf

LEMMA SignalNext ==
  ASSUME IInv, [Next]_vars, NEW r \in Runs, run[r] # Nothing => SignalOf(r), run'[r] # Nothing
  PROVE  SignalOf(r)'
<1>0. Typed /\ Requests /\ Grows /\ Saved
  BY GrowsNext DEF IInv
<1>1. CASE Around
  BY <1>0, <1>1, AroundIs, SignalStays DEF runVars
<1>2. CASE Asking
  <2> PICK d \in Call : Asks(d)
    BY <1>2, AskIs
  <2> QED  BY SignalStays DEF Asks, runVars
<1>3. ASSUME NEW c \in call, StepOf(c) PROVE SignalOf(r)'
  <2>1. CASE LoseAnswer(c)
    <3>1. UNCHANGED runVars /\ \E d \in call' : (c.committed => d.committed) /\ d.run = c.run /\ call \ {c} \subseteq call'
      BY <1>0, <2>1, LoseIs DEF Becomes
    <3> QED  BY <3>1, SignalStays DEF runVars
  <2>2. ASSUME NEW q \in Runs, SaveRun(c, q) PROVE SignalOf(r)'
    <3>1. /\ run[q] = Nothing /\ \A p \in Runs : p # q => run'[p] = run[p]
          /\ UNCHANGED <<evaluation, signal, missed>> /\ ~c.committed
          /\ call \ {c} \subseteq call' /\ \E d \in call' : d.committed /\ d.run = q
      <4> PICK d \in Call : Becomes(c, d) /\ d.run = q /\ d.committed
        BY <2>2, SaveIs
      <4>1. call \ {c} \subseteq call' /\ d \in call'
        BY DEF Becomes
      <4>2. /\ run[q] = Nothing /\ \A p \in Runs : p # q => run'[p] = run[p]
            /\ UNCHANGED <<evaluation, signal, missed>> /\ ~c.committed
        BY <2>2, SaveIs DEF SaveRun
      <4> QED  BY <4>1, <4>2
    <3>2. CASE r = q
      BY <1>0, <3>1, <3>2 DEF SignalOf, Saved
    <3>3. CASE r # q
      BY <3>1, <3>3, SignalStays
    <3> QED  BY <3>2, <3>3
  <2>3. CASE Decide(c)
    <3>1. /\ c.run \in Runs /\ run[c.run] # Nothing /\ evaluation[c.run] = Nothing
          /\ \A p \in Runs : p # c.run => evaluation'[p] = evaluation[p]
          /\ UNCHANGED <<run, signal, missed>> /\ ~c.committed
          /\ call \ {c} \subseteq call' /\ \E d \in call' : d.committed /\ d.run = c.run
      BY <1>0, <2>3, DecideIs DEF Becomes, Decide
    <3>2. CASE r = c.run
      <4>1. Reason(r) # Nothing => Reason(r)' = Reason(r)
        BY <3>1, <3>2, ReasonDecided
      <4>2. \E d \in call' : d.committed /\ d.run = r
        BY <3>1, <3>2
      <4> QED  BY <3>1, <3>2, <4>1, <4>2 DEF SignalOf
    <3>3. CASE r # c.run
      BY <3>1, <3>3, SignalStays
    <3> QED  BY <3>2, <3>3
  <2>4. CASE Replay(c)
    <3>1. UNCHANGED runVars /\ \E d \in call' : d.committed /\ d.run = c.run /\ call \ {c} \subseteq call'
      BY <1>0, <2>4, ReplayIs DEF Becomes
    <3> QED  BY <3>1, SignalStays DEF runVars
  <2>5. CASE Refuse(c)
    <3>1. UNCHANGED runVars /\ ~c.committed /\ call' = call \ {c}
      BY <1>0, <2>5, RefuseIs
    <3> QED  BY <3>1, SignalStays DEF runVars
  <2>6. CASE Finish(c)
    <3>1. /\ c.run \in Runs /\ call' = call \ {c} /\ UNCHANGED <<run, evaluation>>
          /\ \A p \in Runs : p # c.run => signal'[p] = signal[p]
          /\ Derive(c.run) \/ DeriveFails(c.run)
      BY <1>0, <2>6, FinishIs DEF Finish, Derives
    <3>2. CASE r = c.run
      BY <1>0, <3>1, <3>2, SignalFiled
    <3>3. CASE r # c.run
      <4>1. r \in missed => r \in missed'
        BY <3>1, <3>3 DEF Derive, DeriveFails
      <4> QED  BY <3>1, <3>3, <4>1, SignalStays
    <3> QED  BY <3>2, <3>3
  <2>7. CASE Crash(c)
    <3>1. /\ call' = call \ {c} /\ (c.committed => c.run \in missed') /\ missed \subseteq missed'
          /\ UNCHANGED <<run, evaluation, signal>>
      BY <2>7, CrashIs
    <3> QED  BY <3>1, SignalStays
  <2> QED  BY <1>3, <2>1, <2>2, <2>3, <2>4, <2>5, <2>6, <2>7 DEF StepOf
<1>4. ASSUME NEW q \in Runs, Reconcile(q) PROVE SignalOf(r)'
  <2>1. /\ run[q] # Nothing /\ UNCHANGED <<run, evaluation, call>> /\ Derive(q)
        /\ \A p \in Runs : p # q => signal'[p] = signal[p]
    BY <1>0, <1>4, ReconcileIs DEF Reconcile
  <2>2. CASE r = q
    BY <1>0, <2>1, <2>2, SignalFiled
  <2>3. CASE r # q
    <3>1. r \in missed => r \in missed'
      BY <2>1, <2>3 DEF Derive
    <3> QED  BY <2>1, <2>3, <3>1, SignalStays
  <2> QED  BY <2>2, <2>3
<1> QED  BY <1>1, <1>2, <1>3, <1>4, StepIs

\* A run is filed as its record says, also when it is decided after it was
\* filed, and is left unfiled only while its derivation is to come, failed or
\* died (deriveKnowledgeSignal, reconcileKnowledgeSignals).
THEOREM RunsAreFiledAsRecorded == Spec => []SignalMatchesRun
<1>1. Init => SignalMatchesRun
  BY DEF Init, SignalMatchesRun
<1>2. IInv /\ SignalMatchesRun /\ [Next]_vars => SignalMatchesRun'
  <2> SUFFICES ASSUME IInv, SignalMatchesRun, [Next]_vars, NEW r \in Runs, run'[r] # Nothing
               PROVE  SignalOf(r)'
    BY DEF SignalMatchesRun, SignalOf
  <2>1. run[r] # Nothing => SignalOf(r)
    BY DEF SignalMatchesRun, SignalOf
  <2> QED  BY <2>1, SignalNext
<1> QED  BY <1>1, <1>2, DecisionsAreKept, PTL DEF Spec
-----------------------------------------------------------------------------
(* What a run is judged on: one run, whatever it cites and was made from.  *)

LEMMA SameFailure == ASSUME NEW r \in Reviewed PROVE Facts(r) = ClassifyKnowledgeFailure(r)
<1>1. r.reason = Nothing => r.reason \notin KnowledgeReasons
  BY NullAssumption DEF Reasons
<1> DEFINE policy == PolicyOutcome(r)
<1>2. policy \in {"INSUFFICIENT_KNOWLEDGE", "CONFLICTING_KNOWLEDGE"} => r.current
  BY DEF PolicyOutcome
<1> HIDE DEF policy
<1>3. CASE policy \in {"NEEDS_CUSTOMER_INFO", "RETRIEVAL_DEGRADED"}
  BY <1>3 DEF Facts, ClassifyKnowledgeFailure, policy
<1>4. CASE /\ policy \notin {"NEEDS_CUSTOMER_INFO", "RETRIEVAL_DEGRADED"}
           /\ r.abstained /\ policy \in {"INSUFFICIENT_KNOWLEDGE", "CONFLICTING_KNOWLEDGE"}
  BY <1>2, <1>4 DEF Facts, ClassifyKnowledgeFailure, policy
<1>5. CASE /\ policy \notin {"NEEDS_CUSTOMER_INFO", "RETRIEVAL_DEGRADED"}
           /\ ~(r.abstained /\ policy \in {"INSUFFICIENT_KNOWLEDGE", "CONFLICTING_KNOWLEDGE"})
  BY <1>1, <1>5 DEF Facts, ClassifyKnowledgeFailure, policy
<1> QED  BY <1>3, <1>4, <1>5

LEMMA SameVersions == ASSUME NEW reason \in Decisions \cup Reasons \cup {Nothing}, NEW sources
                      PROVE  Blamed(reason, sources) = AttributedVersions(reason, sources)
<1> DEFINE uses == {s.version : s \in {x \in sources : x.eligible /\ x.linked}}
<1>1. /\ Nothing # "CONFLICTING_KNOWLEDGE" /\ Nothing # "WRONG_KNOWLEDGE" /\ Nothing # "IRRELEVANT_EVIDENCE"
  BY NullAssumption DEF Decisions, Reasons, KnowledgeReasons
<1> HIDE DEF uses
<1>2. Blamed(reason, sources) =
        {v \in uses : reason # Nothing /\ (reason = "CONFLICTING_KNOWLEDGE"
                        \/ (Cardinality(uses) = 1 /\ reason \in {"WRONG_KNOWLEDGE", "IRRELEVANT_EVIDENCE"}))}
  BY DEF Blamed, uses
<1>3. AttributedVersions(reason, sources) =
        IF Cardinality(uses) = 1 /\ reason \in {"WRONG_KNOWLEDGE", "IRRELEVANT_EVIDENCE"} THEN uses
        ELSE IF reason = "CONFLICTING_KNOWLEDGE" THEN uses ELSE {}
  BY DEF AttributedVersions, uses
<1> QED  BY <1>1, <1>2, <1>3

LEMMA FailureIs == ASSUME NEW r \in Reviewed
                   PROVE  ClassifyKnowledgeFailure(r) \in Decisions \cup Reasons \cup {Nothing}
BY DEF ClassifyKnowledgeFailure, Decisions, Reasons, KnowledgeReasons

\* The dashboards' SQL and the issue intake find the same failure in every run
\* and blame the same versions for it, whatever versions there are and however
\* many sources a run cites (quality.service, issue.classification).
THEOREM RunsAreReadAlike == QualityAgrees /\ (Spec => []QualityHolds)
<1>1. QualityAgrees
  <2> SUFFICES ASSUME NEW r \in Reviewed, NEW sources \in SUBSET Source
               PROVE  /\ Facts(r) = ClassifyKnowledgeFailure(r)
                      /\ Blamed(Facts(r), sources) = AttributedVersions(ClassifyKnowledgeFailure(r), sources)
    BY DEF QualityAgrees
  <2>1. Facts(r) = ClassifyKnowledgeFailure(r)
    BY SameFailure
  <2> QED  BY <2>1, FailureIs, SameVersions
<1>2. QualityHolds
  BY <1>1 DEF QualityHolds
<1>3. Spec => []QualityHolds
  BY <1>2, PTL
<1> QED  BY <1>1, <1>3

\* What is decided on any rows after a search that did not do its work.
LEMMA OutageIsDegraded == ASSUME NEW scopeRead, NEW semantic, NEW lexical, NEW rows, NEW given,
                                 ~(scopeRead /\ semantic \in {"OK", "DISABLED"} /\ lexical = "OK")
                          PROVE  EvaluateEvidence(rows, Statuses(scopeRead, semantic, lexical), given)
                                   # "INSUFFICIENT_KNOWLEDGE"
<1>1. Degraded(Statuses(scopeRead, semantic, lexical))
  BY DEF Degraded, Statuses
<1> QED  BY <1>1 DEF EvaluateEvidence

\* Unless the scope was read and both searches did their work, no run is filed
\* for insufficient knowledge, whatever rows came and whatever an agent then
\* said of it (retrieveScoped, evaluateEvidence, classifyKnowledgeFailure).
THEOREM OutagesAreNotFiled ==
  /\ \A scopeRead, given \in BOOLEAN : \A semantic, lexical : \A rows \in SUBSET Row : \A r \in Reviewed :
       /\ r.decision = EvaluateEvidence(rows, Statuses(scopeRead, semantic, lexical), given)
       /\ ClassifyKnowledgeFailure(r) = "INSUFFICIENT_KNOWLEDGE"
       => scopeRead /\ semantic \in {"OK", "DISABLED"} /\ lexical = "OK"
  /\ Spec => []OutageHolds
<1>1. ASSUME NEW r \in Reviewed, ClassifyKnowledgeFailure(r) = "INSUFFICIENT_KNOWLEDGE"
      PROVE  r.decision = "INSUFFICIENT_KNOWLEDGE"
  <2>1. "INSUFFICIENT_KNOWLEDGE" \notin KnowledgeReasons /\ Nothing # "INSUFFICIENT_KNOWLEDGE"
    BY NullAssumption DEF KnowledgeReasons, Decisions
  <2>2. PolicyOutcome(r) = "INSUFFICIENT_KNOWLEDGE"
    BY <1>1, <2>1 DEF ClassifyKnowledgeFailure
  <2> QED  BY <2>2 DEF PolicyOutcome
<1>2. \A scopeRead, given \in BOOLEAN : \A semantic, lexical : \A rows : \A r \in Reviewed :
        /\ r.decision = EvaluateEvidence(rows, Statuses(scopeRead, semantic, lexical), given)
        /\ ClassifyKnowledgeFailure(r) = "INSUFFICIENT_KNOWLEDGE"
        => scopeRead /\ semantic \in {"OK", "DISABLED"} /\ lexical = "OK"
  BY <1>1, OutageIsDegraded
<1>3. OutageIsNoIssue
  <2> SUFFICES ASSUME NEW scopeRead \in BOOLEAN, NEW given \in BOOLEAN,
                      NEW semantic \in SemanticStatuses, NEW lexical \in LexicalStatuses, NEW rows,
                      ClassifyKnowledgeFailure(
                        LET decision == EvaluateEvidence(rows, Statuses(scopeRead, semantic, lexical), given) IN
                        [abstained |-> decision # "ANSWER_SUPPORTED", current |-> TRUE, decision |-> decision,
                         disposition |-> Nothing, reason |-> Nothing]) = "INSUFFICIENT_KNOWLEDGE"
               PROVE  scopeRead /\ semantic \in {"OK", "DISABLED"} /\ lexical = "OK"
    BY DEF OutageIsNoIssue
  <2> DEFINE decision == EvaluateEvidence(rows, Statuses(scopeRead, semantic, lexical), given)
             r == [abstained |-> decision # "ANSWER_SUPPORTED", current |-> TRUE, decision |-> decision,
                   disposition |-> Nothing, reason |-> Nothing]
  <2>1. decision \in Decisions
    BY DEF EvaluateEvidence, Decisions
  <2>2. r.decision = decision /\ ClassifyKnowledgeFailure(r) = "INSUFFICIENT_KNOWLEDGE"
    OBVIOUS
  <2>3. r \in Reviewed
    BY <2>1 DEF Reviewed
  <2> HIDE DEF r
  <2> QED  BY <1>2, <2>2, <2>3
<1>4. OutageHolds
  BY <1>3 DEF OutageHolds
<1>5. Spec => []OutageHolds
  BY <1>4, PTL
<1> QED  BY <1>2, <1>5

-----------------------------------------------------------------------------
(* Induction, from the well-founded order of the finite sets.              *)

\* A set of numbers has a least one: of the sets 1 .. n one contains no other.
LEMMA LeastOf ==
  ASSUME NEW T \in SUBSET Nat, T # {}
  PROVE  \E n \in T : \A m \in T : n <= m
<1> DEFINE Up == {1 .. n : n \in T}
           R == StrictSubsetOrdering(Nat)
<1>1. Up \subseteq FiniteSubsetsOf(Nat) /\ Up # {}
  <2>1. \A n \in T : IsFiniteSet(1 .. n) /\ 1 .. n \in SUBSET Nat
    BY FS_Interval
  <2>2. \A U \in Up : U \in FiniteSubsetsOf(Nat)
    BY <2>1 DEF FiniteSubsetsOf
  <2>3. PICK n \in T : TRUE  OBVIOUS
  <2>4. 1 .. n \in Up  OBVIOUS
  <2> QED  BY <2>2, <2>4
<1>2. IsWellFoundedOn(R, FiniteSubsetsOf(Nat))
  BY FS_StrictSubsetOrderingWellFounded
<1>3. PICK U \in Up : \A V \in Up : ~(<<V, U>> \in R)
  <2> HIDE DEF R, Up
  <2> QED  BY <1>1, <1>2, WFMin
<1>4. PICK n \in T : U = 1 .. n  OBVIOUS
<1>5. ASSUME NEW m \in T, m < n PROVE FALSE
  <2>1. n \in 1 .. n /\ n \notin 1 .. m /\ 1 .. m \subseteq 1 .. n /\ 1 .. m \in Up /\ m \in Nat /\ n \in Nat
    BY <1>5
  <2>2. <<1 .. m, 1 .. n>> \in R
    BY <2>1 DEF StrictSubsetOrdering
  <2> QED  BY <1>3, <1>4, <2>1, <2>2
<1> QED  BY <1>5

\* Induction over the numbers, for the set of those that have a property.
LEMMA Induction ==
  ASSUME NEW T, 0 \in T, \A n \in Nat : n \in T => n + 1 \in T
  PROVE  Nat \subseteq T
<1> DEFINE Out == Nat \ T
<1>1. ASSUME Out # {} PROVE FALSE
  <2>1. PICK n \in Out : \A m \in Out : n <= m  BY <1>1, LeastOf
  <2>2. n - 1 \in Nat /\ n - 1 \notin Out  BY <2>1
  <2> QED  BY <2>1, <2>2
<1> QED  BY <1>1

\* What a recursion keeps at every step it has at the end.
LEMMA Along ==
  ASSUME NEW N \in Nat, NEW T, 0 \in T, \A n \in 1 .. N : n - 1 \in T => n \in T
  PROVE  0 .. N \subseteq T
<1> DEFINE Until == {n \in Nat : n <= N => n \in T}
<1>1. 0 \in Until  OBVIOUS
<1>2. ASSUME NEW n \in Nat, n \in Until PROVE n + 1 \in Until
  <2>1. SUFFICES ASSUME n + 1 <= N PROVE n + 1 \in T  OBVIOUS
  <2>2. n + 1 \in 1 .. N /\ (n + 1) - 1 = n /\ n \in T  BY <1>2, <2>1
  <2> QED  BY <2>2
<1>3. Nat \subseteq Until
  <2> HIDE DEF Until
  <2> QED  BY <1>1, <1>2, Induction
<1> QED  BY <1>3

\* A function defined by recursion over a range exists.
IsRecursion(f, S, base, N, step) ==
  f \in [0 .. N -> S] /\ f[0] = base /\ \A n \in 1 .. N : f[n] = step[<<f[n - 1], n>>]

LEMMA Recursion ==
  ASSUME NEW S, NEW base \in S, NEW N \in Nat, NEW step \in [S \X (1 .. N) -> S]
  PROVE  \E f : IsRecursion(f, S, base, N, step)
<1> DEFINE Upto(n, f) == IsRecursion(f, S, base, n, step)
           T == {n \in Nat : n <= N => \E f : Upto(n, f)}
<1>1. 0 \in T
  <2>1. Upto(0, [i \in 0 .. 0 |-> base])  BY DEF IsRecursion
  <2> QED  BY <2>1
<1>2. ASSUME NEW n \in Nat, n \in T PROVE n + 1 \in T
  <2>1. SUFFICES ASSUME n + 1 <= N PROVE \E f : Upto(n + 1, f)  OBVIOUS
  <2>2. PICK f : Upto(n, f)  BY <1>2, <2>1
  <2> USE DEF IsRecursion
  <2> DEFINE g == [i \in 0 .. n + 1 |-> IF i = n + 1 THEN step[<<f[n], n + 1>>] ELSE f[i]]
  <2>3. step[<<f[n], n + 1>>] \in S
    <3>1. <<f[n], n + 1>> \in S \X (1 .. N)  BY <2>1, <2>2
    <3> QED  BY <3>1
  <2>4. g \in [0 .. n + 1 -> S]
    <3>1. ASSUME NEW i \in 0 .. n + 1 PROVE (IF i = n + 1 THEN step[<<f[n], n + 1>>] ELSE f[i]) \in S
      BY <2>2, <2>3
    <3> QED  BY <3>1
  <2>5. g[0] = base  BY <2>2
  <2>6. ASSUME NEW i \in 1 .. n + 1 PROVE g[i] = step[<<g[i - 1], i>>]
    <3>1. i \in 0 .. n + 1 /\ i - 1 \in 0 .. n + 1 /\ i - 1 # n + 1  OBVIOUS
    <3>2. g[i - 1] = f[i - 1]  BY <3>1
    <3>3. CASE i = n + 1  BY <3>1, <3>2, <3>3
    <3>4. CASE i # n + 1
      <4>1. i \in 1 .. n  BY <3>4
      <4>2. f[i] = step[<<f[i - 1], i>>]  BY <2>2, <4>1
      <4> QED  BY <3>1, <3>2, <3>4, <4>2
    <3> QED  BY <3>3, <3>4
  <2>7. Upto(n + 1, g)  BY <2>4, <2>5, <2>6 DEF IsRecursion
  <2> QED  BY <2>7
<1>3. N \in T
  <2> HIDE DEF T
  <2> QED  BY <1>1, <1>2, Induction
<1> QED  BY <1>3

-----------------------------------------------------------------------------
(* The weights of the rows.                                                *)

\* A step of Scale's product, as a function.
Multiply == [x \in Nat \X (1 .. ListLimit) |-> x[1] * (RrfK + x[2])]

\* Every denominator divides Scale.
LEMMA ScaleIs == /\ Scale \in Nat /\ Scale > 0
                 /\ \A i \in 1 .. ListLimit : \E q \in Nat : Scale = (RrfK + i) * q
<1> DEFINE N == ListLimit
           IsProduct(f) == f = [n \in 0 .. N |-> IF n = 0 THEN 1 ELSE f[n - 1] * (RrfK + n)]
           product == CHOOSE f : IsProduct(f)
<1>1. N \in Nat  BY EvidenceAssumption
<1>2. Multiply \in [Nat \X (1 .. N) -> Nat]
  <2>1. ASSUME NEW x \in Nat \X (1 .. N) PROVE x[1] * (RrfK + x[2]) \in Nat
    BY DEF RrfK
  <2> QED  BY <2>1 DEF Multiply
<1>3. PICK f : IsRecursion(f, Nat, 1, N, Multiply)
  <2> DEFINE S == Nat
  <2>1. 1 \in S /\ Multiply \in [S \X (1 .. N) -> S]  BY <1>2
  <2> HIDE DEF S, N
  <2>2. \E f : IsRecursion(f, S, 1, N, Multiply)  BY <1>1, <2>1, Recursion
  <2> QED  BY <2>2 DEF S
<1>4. IsProduct(f)
  <2>1. ASSUME NEW n \in 0 .. N PROVE f[n] = IF n = 0 THEN 1 ELSE f[n - 1] * (RrfK + n)
    <3>1. CASE n = 0  BY <1>3, <3>1 DEF IsRecursion
    <3>2. CASE n # 0
      <4>1. n \in 1 .. N /\ n - 1 \in 0 .. N  BY <1>1, <3>2
      <4>2. <<f[n - 1], n>> \in Nat \X (1 .. N)  BY <1>3, <4>1 DEF IsRecursion
      <4> QED  BY <1>3, <3>2, <4>1, <4>2 DEF Multiply, IsRecursion
    <3> QED  BY <3>1, <3>2
  <2> QED  BY <1>3, <2>1 DEF IsRecursion
<1>5. IsProduct(product)
  <2> HIDE DEF IsProduct
  <2> QED  BY <1>4
<1>6. Scale = product[N]  BY DEF Scale
<1> HIDE DEF product
<1> DEFINE Divides(n) == \A i \in 1 .. n : \E q \in Nat : product[n] = (RrfK + i) * q
           T == {n \in 0 .. N : product[n] \in Nat /\ product[n] > 0 /\ Divides(n)}
<1>7. 0 \in T  BY <1>1, <1>5
<1>8. ASSUME NEW n \in 1 .. N, n - 1 \in T PROVE n \in T
  <2> DEFINE p == product[n - 1]  k == RrfK + n
  <2>1. n \in 0 .. N /\ product[n] = p * k  BY <1>1, <1>5
  <2>2. p \in Nat /\ p > 0 /\ k \in Nat /\ k > 0  BY <1>1, <1>8 DEF RrfK
  <2>3. p * k \in Nat /\ p * k > 0
    <3> HIDE DEF p, k
    <3> QED  BY <2>2
  <2>4. ASSUME NEW i \in 1 .. n PROVE \E q \in Nat : p * k = (RrfK + i) * q
    <3>1. CASE i = n
      <4>1. (RrfK + i) * p = p * k  BY <2>2, <3>1
      <4> QED  BY <2>2, <4>1
    <3>2. CASE i # n
      <4>1. i \in 1 .. n - 1  BY <1>1, <3>2
      <4>2. PICK q \in Nat : p = (RrfK + i) * q  BY <1>8, <4>1
      <4> DEFINE d == RrfK + i
      <4>3. d \in Nat /\ p = d * q  BY <1>1, <4>2 DEF RrfK
      <4> HIDE DEF d, p, k
      <4>4. p * k = d * (q * k) /\ q * k \in Nat  BY <2>2, <4>3
      <4> QED  BY <4>4 DEF d
    <3> QED  BY <3>1, <3>2
  <2> HIDE DEF p
  <2> QED  BY <2>1, <2>3, <2>4
<1>9. N \in T
  <2> HIDE DEF T, N
  <2>1. 0 .. N \subseteq T  BY <1>1, <1>7, <1>8, Along
  <2> QED  BY <1>1, <2>1
<1> QED  BY <1>6, <1>9

LEMMA MinIs ==
  ASSUME NEW T \in SUBSET Nat, T # {}
  PROVE  Min(T) \in T
<1>1. \E n \in T : \A m \in T : n <= m  BY LeastOf
<1> QED  BY <1>1 DEF Min

LEMMA QuotientIs ==
  ASSUME NEW a \in Nat, NEW k \in Nat, k > 0
  PROVE  /\ a \div k \in Nat
         /\ \A q \in Nat : a = k * q => a \div k = q
<1>1. a \div k \in Int  OBVIOUS
<1>2. a \div k >= 0  OBVIOUS
<1>3. \A q \in Nat : a = k * q => a \div k = q  OBVIOUS
<1> QED  BY <1>1, <1>2, <1>3

LEMMA PlaceIs ==
  ASSUME NEW list \in Seq(Chunks), NEW c \in Range(list)
  PROVE  Place(list, c) \in 1 .. Len(list)
<1> DEFINE places == {i \in DOMAIN list : list[i] = c}
<1>1. places \in SUBSET Nat /\ places # {} /\ places \subseteq 1 .. Len(list)  BY DEF Range
<1>2. Min(places) \in places
  <2> HIDE DEF places
  <2> QED  BY <1>1, MinIs
<1> QED  BY <1>1, <1>2 DEF Place

\* What a list gives a row: a fraction of Scale, without a rest.
LEMMA WeightIs ==
  ASSUME NEW list \in Seq(Chunks), NEW c
  PROVE  /\ Weight(list, c) \in Nat
         /\ c \notin Range(list) => Weight(list, c) = 0
         /\ c \in Range(list) /\ Len(list) <= ListLimit =>
              \E i \in 1 .. ListLimit : Scale = (RrfK + i) * Weight(list, c)
<1>1. CASE c \in Range(list)
  <2> DEFINE place == Place(list, c)  k == RrfK + place  w == Scale \div k
  <2>1. place \in Nat /\ place > 0 /\ place <= Len(list) /\ Len(list) \in Nat  BY <1>1, PlaceIs
  <2>2. k \in Nat /\ k > 0  BY <2>1 DEF RrfK
  <2>3. Weight(list, c) = w  BY <1>1 DEF Weight
  <2>4. w \in Nat /\ \A q \in Nat : Scale = k * q => w = q
    <3> HIDE DEF k
    <3> QED  BY <2>2, ScaleIs, QuotientIs
  <2>5. ASSUME Len(list) <= ListLimit PROVE \E i \in 1 .. ListLimit : Scale = (RrfK + i) * w
    <3>1. place \in 1 .. ListLimit  BY <2>1, <2>5, EvidenceAssumption
    <3>2. PICK q \in Nat : Scale = k * q
      <4> HIDE DEF place
      <4> QED  BY <3>1, ScaleIs
    <3>3. Scale = k * w
      <4> HIDE DEF k, w
      <4> QED  BY <2>4, <3>2
    <3> HIDE DEF place, w
    <3> QED  BY <3>1, <3>3
  <2> HIDE DEF w
  <2> QED  BY <1>1, <2>3, <2>4, <2>5
<1>2. CASE c \notin Range(list)  BY <1>2 DEF Weight
<1> QED  BY <1>1, <1>2

\* A row weighs a natural number.
LEMMA FusedIs ==
  ASSUME NEW semantic \in Seq(Chunks), NEW lexical \in Seq(Chunks), NEW c
  PROVE  Fused(semantic, lexical, c) \in Nat
  BY WeightIs DEF Fused

\* Two weights are more than one, over the lengths of the lists there are.
LEMMA TwoOutweighOne ==
  ASSUME NEW s \in Nat, NEW x \in Nat, NEW y \in Nat, NEW z \in Nat, NEW i \in 1 .. 61, NEW j \in 1 .. 61,
         s > 0, s = (60 + i) * x, s = (60 + j) * y, NEW k \in 1 .. 61, s = (60 + k) * z
  PROVE  x + y > z
<1>1. ASSUME NEW q \in Nat, NEW n \in 1 .. 61, s = (60 + n) * q PROVE 121 * q >= s /\ 61 * q <= s
  BY <1>1
<1> QED  BY <1>1

LEMMA ListIs ==
  ASSUME NEW list \in Lists
  PROVE  list \in Seq(Chunks) /\ Len(list) <= ListLimit
  BY EvidenceAssumption DEF Lists, SeqOf

\* What both searches found comes first, in lists as short as the code's.
LEMMA AgreementIs == AgreementWins
<1> SUFFICES ASSUME ListLimit <= RrfK + 1, NEW semantic \in Lists, NEW lexical \in Lists,
                    NEW a \in Range(semantic) \cap Range(lexical),
                    NEW b \in Range(semantic) \cup Range(lexical),
                    b \notin Range(semantic) \cap Range(lexical)
             PROVE  Fused(semantic, lexical, a) > Fused(semantic, lexical, b)
  BY DEF AgreementWins, Before, Found
<1> DEFINE x == Weight(semantic, a)  y == Weight(lexical, a)
           u == Weight(semantic, b)  v == Weight(lexical, b)
<1>1. semantic \in Seq(Chunks) /\ Len(semantic) <= ListLimit /\ lexical \in Seq(Chunks) /\ Len(lexical) <= ListLimit
  BY ListIs
<1>2. x \in Nat /\ y \in Nat /\ u \in Nat /\ v \in Nat  BY <1>1, WeightIs
<1>3. ListLimit \in 0 .. 61  BY EvidenceAssumption DEF RrfK
<1>4. (\E i \in 1 .. 61 : Scale = (60 + i) * x) /\ (\E i \in 1 .. 61 : Scale = (60 + i) * y)
  <2>1. (\E i \in 1 .. ListLimit : Scale = (RrfK + i) * x) /\ (\E i \in 1 .. ListLimit : Scale = (RrfK + i) * y)
    BY <1>1, WeightIs
  <2> HIDE DEF x, y
  <2> QED  BY <1>3, <2>1 DEF RrfK
<1>5. \E z \in Nat : u + v = z /\ \E i \in 1 .. 61 : Scale = (60 + i) * z
  <2>1. CASE b \in Range(semantic)
    <3>1. (\E i \in 1 .. ListLimit : Scale = (RrfK + i) * u) /\ v = 0  BY <1>1, <2>1, WeightIs
    <3> HIDE DEF u, v
    <3>2. \E i \in 1 .. 61 : Scale = (60 + i) * u  BY <1>3, <3>1 DEF RrfK
    <3> QED  BY <1>2, <3>1, <3>2
  <2>2. CASE b \in Range(lexical)
    <3>1. (\E i \in 1 .. ListLimit : Scale = (RrfK + i) * v) /\ u = 0  BY <1>1, <2>2, WeightIs
    <3> HIDE DEF u, v
    <3>2. \E i \in 1 .. 61 : Scale = (60 + i) * v  BY <1>3, <3>1 DEF RrfK
    <3> QED  BY <1>2, <3>1, <3>2
  <2> QED  BY <2>1, <2>2
<1> HIDE DEF x, y, u, v
<1>6. x + y > u + v
  <2>1. PICK z \in Nat : u + v = z /\ \E i \in 1 .. 61 : Scale = (60 + i) * z  BY <1>5
  <2>2. x + y > z  BY <1>2, <1>4, <2>1, ScaleIs, TwoOutweighOne
  <2> QED  BY <2>1, <2>2
<1> QED  BY <1>6 DEF Fused, x, y, u, v

-----------------------------------------------------------------------------
(* The order of the rows.                                                  *)

\* A finite set with a strict total order can be written down in that order.
LEMMA Sorted ==
  ASSUME NEW S, IsFiniteSet(S), NEW R,
         \A a \in S : <<a, a>> \notin R,
         \A a, b, c \in S : <<a, b>> \in R /\ <<b, c>> \in R => <<a, c>> \in R,
         \A a, b \in S : a = b \/ <<a, b>> \in R \/ <<b, a>> \in R
  PROVE  \E s \in [1 .. Cardinality(S) -> S] :
           \A i, j \in 1 .. Cardinality(S) : i < j => <<s[i], s[j]>> \in R
<1> DEFINE N == Cardinality(S)
           under(c) == {d \in S : <<d, c>> \in R}
           position == [c \in S |-> 1 + Cardinality(under(c))]
<1>1. N \in Nat  BY FS_CardinalityType
<1>2. ASSUME NEW c \in S
      PROVE  IsFiniteSet(under(c)) /\ Cardinality(under(c)) \in Nat /\ Cardinality(under(c)) < N
  <2>1. under(c) \in SUBSET S /\ under(c) # S  OBVIOUS
  <2>2. IsFiniteSet(under(c)) /\ Cardinality(under(c)) <= N /\ (N = Cardinality(under(c)) => S = under(c))
    <3> HIDE DEF under
    <3> QED  BY <2>1, FS_Subset
  <2>3. Cardinality(under(c)) \in Nat  BY <2>2, FS_CardinalityType
  <2> QED  BY <1>1, <2>1, <2>2, <2>3
<1>3. ASSUME NEW a \in S, NEW b \in S, <<a, b>> \in R
      PROVE  Cardinality(under(a)) < Cardinality(under(b))
  <2>1. under(a) \in SUBSET under(b) /\ under(a) # under(b)  BY <1>3
  <2>2. Cardinality(under(a)) <= Cardinality(under(b))
        /\ (Cardinality(under(b)) = Cardinality(under(a)) => under(b) = under(a))
    <3> HIDE DEF under
    <3> QED  BY <1>2, <2>1, FS_Subset
  <2>3. Cardinality(under(a)) \in Nat /\ Cardinality(under(b)) \in Nat  BY <1>2
  <2> HIDE DEF under
  <2> QED  BY <2>1, <2>2, <2>3
<1>4. position \in [S -> 1 .. N]
  <2>1. ASSUME NEW c \in S PROVE 1 + Cardinality(under(c)) \in 1 .. N
    <3> HIDE DEF under
    <3> QED  BY <1>1, <1>2
  <2> QED  BY <2>1
<1>5. \A a, b \in S : <<a, b>> \in R => position[a] < position[b]
  <2> TAKE a, b \in S
  <2> HAVE <<a, b>> \in R
  <2>1. position[a] = 1 + Cardinality(under(a)) /\ position[b] = 1 + Cardinality(under(b))  OBVIOUS
  <2>2. Cardinality(under(a)) < Cardinality(under(b))  BY <1>3
  <2>3. Cardinality(under(a)) \in Nat /\ Cardinality(under(b)) \in Nat  BY <1>2
  <2> HIDE DEF position, under
  <2> QED  BY <2>1, <2>2, <2>3
<1> HIDE DEF position
<1>6. position \in Injection(S, 1 .. N)
  <2>1. ASSUME NEW a \in S, NEW b \in S, position[a] = position[b] PROVE a = b
    <3>1. position[a] \in 1 .. N /\ position[b] \in 1 .. N  BY <1>4
    <3>2. <<a, b>> \notin R /\ <<b, a>> \notin R
      <4>1. ~(position[a] < position[b]) /\ ~(position[b] < position[a])  BY <2>1, <3>1
      <4> QED  BY <1>5, <4>1
    <3> QED  BY <3>2
  <2> QED  BY <1>4, <2>1 DEF Injection, IsInjective
<1>7. position \in Surjection(S, 1 .. N)
  <2>1. IsFiniteSet(1 .. N) /\ Cardinality(1 .. N) = N
    <3>1. IsFiniteSet(1 .. N) /\ Cardinality(1 .. N) = IF 1 > N THEN 0 ELSE N - 1 + 1
      BY <1>1, FS_Interval
    <3> QED  BY <1>1, <3>1
  <2> DEFINE T == 1 .. N
  <2> HIDE DEF T
  <2>2. Cardinality(S) = Cardinality(T) => position \in Surjection(S, T)
    BY <1>6, <2>1, FS_Injection DEF T
  <2> QED  BY <2>1, <2>2 DEF T
<1> DEFINE s == [i \in 1 .. N |-> CHOOSE c \in S : position[c] = i]
<1>8. ASSUME NEW i \in 1 .. N PROVE s[i] \in S /\ position[s[i]] = i
  <2>1. \E c \in S : position[c] = i  BY <1>7 DEF Surjection
  <2> QED  BY <2>1
<1>9. s \in [1 .. N -> S]  BY <1>8
<1>10. ASSUME NEW i \in 1 .. N, NEW j \in 1 .. N, i < j PROVE <<s[i], s[j]>> \in R
  <2> HIDE DEF s
  <2>1. s[i] \in S /\ s[j] \in S /\ position[s[i]] = i /\ position[s[j]] = j  BY <1>8
  <2>2. s[i] # s[j]  BY <1>10, <2>1
  <2>3. <<s[j], s[i]>> \notin R
    <3>1. <<s[j], s[i]>> \in R => position[s[j]] < position[s[i]]  BY <1>5, <2>1
    <3> QED  BY <1>10, <2>1, <3>1
  <2> QED  BY <2>1, <2>2, <2>3
<1> QED  BY <1>9, <1>10

LEMMA RangeIs ==
  ASSUME NEW S, NEW list \in Seq(S)
  PROVE  Range(list) \subseteq S /\ IsFiniteSet(Range(list))
<1>1. list \in [1 .. Len(list) -> S] /\ Len(list) \in Nat  OBVIOUS
<1>2. Range(list) \subseteq S  BY <1>1 DEF Range
<1>3. IsFiniteSet(1 .. Len(list))  BY <1>1, FS_Interval
<1>4. list \in Surjection(1 .. Len(list), Range(list))  BY <1>1 DEF Surjection, Range
<1>5. IsFiniteSet(Range(list))
  <2> DEFINE D == 1 .. Len(list)
  <2> HIDE DEF D
  <2> QED  BY <1>3, <1>4, FS_Surjection DEF D
<1> QED  BY <1>2, <1>5

\* The order of the sort is one.
LEMMA BeforeIs ==
  ASSUME NEW semantic \in Seq(Chunks), NEW lexical \in Seq(Chunks)
  PROVE  /\ \A a \in Chunks : ~Before(semantic, lexical, a, a)
         /\ \A a, b, c \in Chunks : Before(semantic, lexical, a, b) /\ Before(semantic, lexical, b, c)
                                     => Before(semantic, lexical, a, c)
         /\ \A a, b \in Chunks : a = b \/ Before(semantic, lexical, a, b) \/ Before(semantic, lexical, b, a)
<1>1. \A c : Fused(semantic, lexical, c) \in Nat  BY FusedIs
<1>2. Chunks \subseteq Int  BY EvidenceAssumption
<1>3. \A a, b : Before(semantic, lexical, a, b) <=>
        \/ Fused(semantic, lexical, a) > Fused(semantic, lexical, b)
        \/ Fused(semantic, lexical, a) = Fused(semantic, lexical, b) /\ a < b
  BY DEF Before
<1> QED  BY <1>1, <1>2, <1>3

\* Every row found is ranked once, the better ones first.
LEMMA RankedIs ==
  ASSUME NEW semantic \in Seq(Chunks), NEW lexical \in Seq(Chunks)
  PROVE  LET found == Found(semantic, lexical)  ranked == Ranked(semantic, lexical) IN
         /\ found \subseteq Chunks /\ IsFiniteSet(found)
         /\ ranked \in Seq(found) /\ Len(ranked) = Cardinality(found) /\ Range(ranked) = found
         /\ \A i, j \in 1 .. Len(ranked) : i < j => Before(semantic, lexical, ranked[i], ranked[j])
<1> DEFINE found == Found(semantic, lexical)
           N == Cardinality(found)
           ranked == Ranked(semantic, lexical)
           R == {p \in found \X found : Before(semantic, lexical, p[1], p[2])}
<1>1. found \subseteq Chunks /\ IsFiniteSet(found)
  BY RangeIs, FS_Union DEF Found
<1>2. N \in Nat  BY <1>1, FS_CardinalityType
<1>3. \A a, b \in found : <<a, b>> \in R <=> Before(semantic, lexical, a, b)  OBVIOUS
<1>4. /\ \A a \in found : <<a, a>> \notin R
      /\ \A a, b, c \in found : <<a, b>> \in R /\ <<b, c>> \in R => <<a, c>> \in R
      /\ \A a, b \in found : a = b \/ <<a, b>> \in R \/ <<b, a>> \in R
  <2> HIDE DEF R, found
  <2>1. \A a \in found : a \in Chunks  BY <1>1
  <2>2. \A a \in found : ~Before(semantic, lexical, a, a)  BY BeforeIs, <2>1
  <2>3. \A a, b, c \in found : Before(semantic, lexical, a, b) /\ Before(semantic, lexical, b, c)
                               => Before(semantic, lexical, a, c)
    BY BeforeIs, <2>1
  <2>4. \A a, b \in found : a = b \/ Before(semantic, lexical, a, b) \/ Before(semantic, lexical, b, a)
    BY BeforeIs, <2>1
  <2> QED  BY <1>3, <2>2, <2>3, <2>4
<1> HIDE DEF R
<1> DEFINE Orders(s) == \A i, j \in DOMAIN s : i < j => Before(semantic, lexical, s[i], s[j])
<1>5. \E s \in [1 .. N -> found] : Orders(s)
  <2>1. \E s \in [1 .. N -> found] : \A i, j \in 1 .. N : i < j => <<s[i], s[j]>> \in R
    <3> HIDE DEF found
    <3> QED  BY <1>1, <1>4, Sorted
  <2>2. PICK s \in [1 .. N -> found] : \A i, j \in 1 .. N : i < j => <<s[i], s[j]>> \in R
    BY <2>1
  <2>3. DOMAIN s = 1 .. N /\ \A i \in 1 .. N : s[i] \in found  OBVIOUS
  <2>4. Orders(s)
    <3> HIDE DEF found, N
    <3> QED  BY <1>3, <2>2, <2>3
  <2> QED  BY <2>4
<1>6. ranked = CHOOSE s \in [1 .. N -> found] : Orders(s)
  BY DEF Ranked, Found
<1>7. ranked \in [1 .. N -> found] /\ Orders(ranked)
  <2> HIDE DEF Orders, ranked, N, found
  <2> QED  BY <1>5, <1>6
<1> HIDE DEF ranked
<1>8. ranked \in Seq(found) /\ Len(ranked) = N /\ DOMAIN ranked = 1 .. N
  <2> HIDE DEF N, found
  <2> QED  BY <1>2, <1>7
<1>9. ranked \in Injection(1 .. N, found)
  <2>1. ASSUME NEW i \in 1 .. N, NEW j \in 1 .. N, ranked[i] = ranked[j], i < j PROVE FALSE
    <3>1. ranked[i] \in Chunks  BY <1>1, <1>7
    <3>2. Before(semantic, lexical, ranked[i], ranked[j])  BY <1>7, <1>8, <2>1
    <3> QED  BY <2>1, <3>1, <3>2, BeforeIs
  <2>2. \A i, j \in 1 .. N : ranked[i] = ranked[j] => i = j
    <3> TAKE i, j \in 1 .. N
    <3>1. i \in Int /\ j \in Int  BY <1>2
    <3> QED  BY <2>1, <3>1
  <2> QED  BY <1>7, <1>8, <2>2 DEF Injection, IsInjective
<1>10. ranked \in Surjection(1 .. N, found)
  <2> DEFINE D == 1 .. N
  <2>1. Cardinality(D) = Cardinality(found)
    <3>1. Cardinality(1 .. N) = IF 1 > N THEN 0 ELSE N - 1 + 1
      <4> HIDE DEF N
      <4> QED  BY <1>2, FS_Interval
    <3> QED  BY <1>2, <3>1
  <2> HIDE DEF D
  <2>2. ranked \in Injection(D, found)  BY <1>9 DEF D
  <2>3. ranked \in Surjection(D, found)
    <3> HIDE DEF found
    <3> QED  BY <1>1, <2>1, <2>2, FS_Injection
  <2> QED  BY <2>3 DEF D
<1>11. Range(ranked) = found  BY <1>7, <1>8, <1>10 DEF Range, Surjection
<1> QED  BY <1>1, <1>7, <1>8, <1>11 DEF ranked

-----------------------------------------------------------------------------
(* The rows that are kept.                                                 *)

LEMMA AskedIs ==
  ASSUME NEW limit \in Int
  PROVE  Asked(limit) \in Int
<1> DEFINE most == Min({limit, 5})
<1>1. most \in {limit, 5}
  <2>1. \E n \in {limit, 5} : \A m \in {limit, 5} : n <= m  OBVIOUS
  <2> QED  BY <2>1 DEF Min
<1>2. most \in Int  BY <1>1
<1> HIDE DEF most
<1>3. Max({1, most}) \in {1, most}
  <2>1. \E n \in {1, most} : \A m \in {1, most} : n >= m  BY <1>2
  <2> QED  BY <2>1 DEF Max
<1> QED  BY <1>2, <1>3 DEF Asked, most

\* The places of some of the elements of a list without repetition are as many.
LEMMA Places ==
  ASSUME NEW S, NEW kept \in Seq(S), IsInjective(kept), NEW K \in SUBSET Range(kept)
  PROVE  LET I == {i \in DOMAIN kept : kept[i] \in K} IN
         IsFiniteSet(K) /\ Cardinality(I) = Cardinality(K) /\ Cardinality(K) \in Nat
<1> DEFINE I == {i \in DOMAIN kept : kept[i] \in K}
           f == [i \in I |-> kept[i]]
<1>1. DOMAIN kept = 1 .. Len(kept) /\ Len(kept) \in Nat  OBVIOUS
<1>2. IsFiniteSet(I)
  <2>1. IsFiniteSet(DOMAIN kept)  BY <1>1, FS_Interval
  <2> QED  BY <2>1, FS_Subset
<1>3. f \in Bijection(I, K)
  <2>1. f \in [I -> K]  OBVIOUS
  <2>2. ASSUME NEW k \in K PROVE \E i \in I : f[i] = k
    <3>1. PICK i \in DOMAIN kept : kept[i] = k  BY DEF Range
    <3> QED  BY <3>1
  <2>3. \A i, j \in I : f[i] = f[j] => i = j  BY DEF IsInjective
  <2> QED  BY <2>1, <2>2, <2>3 DEF Bijection, Injection, Surjection, IsInjective
<1>4. IsFiniteSet(K) /\ Cardinality(I) = Cardinality(K)
  <2> HIDE DEF I, f
  <2> QED  BY <1>2, <1>3, FS_Bijection DEF ExistsBijection
<1> QED  BY <1>4, FS_CardinalityType

\* A row is taken exactly if those kept before it leave it its place.
LEMMA TakenIs ==
  ASSUME NEW S, NEW kept \in Seq(S), IsInjective(kept), NEW document, NEW hash, NEW limit \in Int, NEW c
  PROVE  Len(kept) < Asked(limit) /\ Take(document, hash, kept, c)
           <=> ~Outdone(Range(kept), document, hash, limit, c)
<1> DEFINE D == {i \in DOMAIN kept : document[kept[i]] = document[c]}
           K == {k \in Range(kept) : document[k] = document[c]}
<1>1. DOMAIN kept = 1 .. Len(kept) /\ Len(kept) \in Nat  OBVIOUS
<1>2. Cardinality(Range(kept)) = Len(kept)
  <2>1. {i \in DOMAIN kept : kept[i] \in Range(kept)} = 1 .. Len(kept)  BY <1>1 DEF Range
  <2>2. Cardinality({i \in DOMAIN kept : kept[i] \in Range(kept)}) = Cardinality(Range(kept))  BY Places
  <2>3. Cardinality(1 .. Len(kept)) = Len(kept)
    <3> DEFINE N == Len(kept)
    <3> HIDE DEF N
    <3>1. Cardinality(1 .. N) = IF 1 > N THEN 0 ELSE N - 1 + 1  BY <1>1, FS_Interval DEF N
    <3>2. N \in Nat  BY <1>1 DEF N
    <3>3. Cardinality(1 .. N) = N  BY <3>1, <3>2
    <3> QED  BY <3>3 DEF N
  <2> QED  BY <2>1, <2>2, <2>3
<1>3. Cardinality(D) = Cardinality(K) /\ Cardinality(K) \in Nat
  <2>1. D = {i \in DOMAIN kept : kept[i] \in K}  BY DEF Range
  <2> HIDE DEF D
  <2>2. K \in SUBSET Range(kept)  OBVIOUS
  <2> HIDE DEF K
  <2> QED  BY <2>1, <2>2, Places
<1>4. Asked(limit) \in Int  BY AskedIs
<1>5. KeptOf(document, kept, c) = Cardinality(D)  BY DEF KeptOf
<1>6. (\A i \in DOMAIN kept : hash[kept[i]] # hash[c]) <=> ~\E k \in Range(kept) : hash[k] = hash[c]
  BY DEF Range
<1>7. Outdone(Range(kept), document, hash, limit, c) <=>
        \/ \E k \in Range(kept) : hash[k] = hash[c]
        \/ Cardinality(K) >= 2
        \/ Len(kept) >= Asked(limit)
  BY <1>2 DEF Outdone
<1>8. Take(document, hash, kept, c) <=>
        Cardinality(K) < 2 /\ \A i \in DOMAIN kept : hash[kept[i]] # hash[c]
  BY <1>3, <1>5 DEF Take
<1> HIDE DEF K, D
<1> QED  BY <1>1, <1>3, <1>4, <1>6, <1>7, <1>8

\* What the first rows leave selected.
Selects(semantic, lexical, ranked, document, hash, limit, kept, n) ==
  /\ kept \in Seq(Chunks)
  /\ \A i, j \in 1 .. Len(kept) : i < j => Before(semantic, lexical, kept[i], kept[j])
  /\ \A k \in Range(kept) : \E m \in 1 .. n : k = ranked[m]
  /\ \A m \in 1 .. n : ranked[m] \notin Range(kept) <=>
       Outdone({k \in Range(kept) : Before(semantic, lexical, k, ranked[m])}, document, hash, limit, ranked[m])

Descending(semantic, lexical, ranked) ==
  \A i, j \in 1 .. Len(ranked) : i < j => Before(semantic, lexical, ranked[i], ranked[j])

\* No row is kept twice.
LEMMA OrderedIsInjective ==
  ASSUME NEW semantic \in Seq(Chunks), NEW lexical \in Seq(Chunks), NEW kept \in Seq(Chunks),
         \A i, j \in 1 .. Len(kept) : i < j => Before(semantic, lexical, kept[i], kept[j])
  PROVE  IsInjective(kept)
<1>1. Len(kept) \in Nat /\ DOMAIN kept = 1 .. Len(kept) /\ \A i \in 1 .. Len(kept) : kept[i] \in Chunks
  OBVIOUS
<1>2. ASSUME NEW i \in 1 .. Len(kept), NEW j \in 1 .. Len(kept), kept[i] = kept[j], i < j PROVE FALSE
  <2>1. Before(semantic, lexical, kept[i], kept[i])  BY <1>2
  <2> QED  BY <1>1, <2>1, BeforeIs
<1>3. ASSUME NEW i \in 1 .. Len(kept), NEW j \in 1 .. Len(kept), kept[i] = kept[j] PROVE i = j
  <2>1. ~(i < j) /\ ~(j < i)  BY <1>2, <1>3
  <2> QED  BY <1>1, <2>1
<1> QED  BY <1>1, <1>3 DEF IsInjective

\* The next row is behind all that were kept, and does not outdo any.
LEMMA SelectsOneMore ==
  ASSUME NEW semantic \in Seq(Chunks), NEW lexical \in Seq(Chunks), NEW ranked \in Seq(Chunks),
         Descending(semantic, lexical, ranked), NEW document, NEW hash, NEW limit,
         NEW n \in 1 .. Len(ranked), NEW kept,
         Selects(semantic, lexical, ranked, document, hash, limit, kept, n - 1)
  PROVE  Selects(semantic, lexical, ranked, document, hash, limit,
                 IF Outdone(Range(kept), document, hash, limit, ranked[n]) THEN kept
                 ELSE Append(kept, ranked[n]), n)
<1> DEFINE c == ranked[n]
           B(a, b) == Before(semantic, lexical, a, b)
           Out(better, m) == Outdone(better, document, hash, limit, ranked[m])
<1>1. /\ Len(ranked) \in Nat /\ n \in Nat /\ n \in 1 .. n
      /\ \A m \in 1 .. n - 1 : m \in 1 .. Len(ranked) /\ m \in 1 .. n /\ m < n
      /\ \A m \in 1 .. n : m = n \/ m \in 1 .. n - 1
  OBVIOUS
<1>2. c \in Chunks /\ \A m \in 1 .. n - 1 : ranked[m] \in Chunks /\ B(ranked[m], c)
  BY <1>1 DEF Descending
<1>3. /\ kept \in Seq(Chunks)
      /\ \A i, j \in 1 .. Len(kept) : i < j => B(kept[i], kept[j])
      /\ \A k \in Range(kept) : \E m \in 1 .. n - 1 : k = ranked[m]
      /\ \A m \in 1 .. n - 1 : ranked[m] \notin Range(kept) <=> Out({k \in Range(kept) : B(k, ranked[m])}, m)
  BY DEF Selects
<1>4. \A k \in Range(kept) : k \in Chunks /\ B(k, c)  BY <1>2, <1>3
<1>5. ~B(c, c) /\ \A m \in 1 .. n - 1 : ~B(c, ranked[m]) /\ ranked[m] # c
  <2>1. ~B(c, c)  BY <1>2, BeforeIs
  <2>2. \A m \in 1 .. n - 1 : B(c, ranked[m]) => B(c, c)  BY <1>2, BeforeIs
  <2> QED  BY <1>2, <2>1, <2>2
<1>6. c \notin Range(kept)  BY <1>4, <1>5
<1>7. CASE Out(Range(kept), n)
  <2> DEFINE X == {k \in Range(kept) : B(k, c)}
  <2>1. X = Range(kept)  BY <1>4
  <2>2. ranked[n] \notin Range(kept) <=> Out(X, n)
    <3> HIDE DEF X
    <3> QED  BY <1>6, <1>7, <2>1
  <2>3. \A m \in 1 .. n : ranked[m] \notin Range(kept) <=> Out({k \in Range(kept) : B(k, ranked[m])}, m)
    BY <1>1, <1>3, <2>2
  <2>4. \A k \in Range(kept) : \E m \in 1 .. n : k = ranked[m]  BY <1>1, <1>3
  <2>5. Selects(semantic, lexical, ranked, document, hash, limit, kept, n)
    BY <1>3, <2>3, <2>4 DEF Selects
  <2> QED  BY <1>7, <2>5
<1>8. CASE ~Out(Range(kept), n)
  <2> DEFINE next == Append(kept, c)
  <2>1. /\ next \in Seq(Chunks) /\ Len(kept) \in Nat /\ Len(next) = Len(kept) + 1
        /\ \A i \in 1 .. Len(kept) : next[i] = kept[i] /\ kept[i] \in Range(kept)
        /\ next[Len(kept) + 1] = c
    BY <1>2, <1>3 DEF Range
  <2>2. Range(next) = Range(kept) \cup {c}
    <3>1. DOMAIN next = 1 .. Len(kept) + 1 /\ DOMAIN kept = 1 .. Len(kept)  BY <1>2, <1>3
    <3>2. \A i \in DOMAIN next : next[i] \in Range(kept) \cup {c}
      <4> TAKE i \in DOMAIN next
      <4>1. i \in 1 .. Len(kept) \/ i = Len(kept) + 1  BY <2>1, <3>1
      <4> QED  BY <2>1, <4>1
    <3>3. c \in Range(next)
      <4>1. Len(kept) + 1 \in DOMAIN next  BY <2>1, <3>1
      <4> QED  BY <2>1, <4>1 DEF Range
    <3>4. \A i \in DOMAIN kept : kept[i] \in Range(next)
      <4> TAKE i \in DOMAIN kept
      <4>1. i \in DOMAIN next /\ next[i] = kept[i]  BY <2>1, <3>1
      <4> QED  BY <4>1 DEF Range
    <3>5. Range(next) = {next[i] : i \in DOMAIN next} /\ Range(kept) = {kept[i] : i \in DOMAIN kept}
      BY DEF Range
    <3> HIDE DEF next
    <3> QED  BY <3>2, <3>3, <3>4, <3>5
  <2> HIDE DEF next
  <2>3. \A i, j \in 1 .. Len(next) : i < j => B(next[i], next[j])
    <3> TAKE i, j \in 1 .. Len(next)
    <3> HAVE i < j
    <3>1. i \in 1 .. Len(kept)  BY <2>1
    <3>2. CASE j \in 1 .. Len(kept)  BY <1>3, <2>1, <3>1, <3>2
    <3>3. CASE j \notin 1 .. Len(kept)
      <4>1. j = Len(kept) + 1
        <5> DEFINE L == Len(kept)
        <5>1. L \in Nat /\ j \in 1 .. L + 1 /\ j \notin 1 .. L  BY <2>1, <3>3
        <5> HIDE DEF L
        <5>2. j = L + 1  BY <5>1
        <5> QED  BY <5>2 DEF L
      <4> QED  BY <1>4, <2>1, <3>1, <4>1
    <3> QED  BY <3>2, <3>3
  <2>4. \A k \in Range(next) : \E m \in 1 .. n : k = ranked[m]  BY <1>1, <1>3, <2>2
  <2>5. {k \in Range(next) : B(k, ranked[n])} = Range(kept)  BY <1>4, <1>5, <2>2
  <2>6. ASSUME NEW m \in 1 .. n - 1
        PROVE  {k \in Range(next) : B(k, ranked[m])} = {k \in Range(kept) : B(k, ranked[m])}
    BY <1>5, <2>2
  <2>7. ASSUME NEW m \in 1 .. n
        PROVE  ranked[m] \notin Range(next) <=> Out({k \in Range(next) : B(k, ranked[m])}, m)
    <3> DEFINE X == {k \in Range(next) : B(k, ranked[m])}
    <3>1. CASE m = n
      <4>1. X = Range(kept)  BY <2>5, <3>1
      <4> HIDE DEF X
      <4>2. ~Out(X, m)  BY <1>8, <3>1, <4>1
      <4>3. ranked[m] \in Range(next)  BY <2>2, <3>1
      <4> QED  BY <4>2, <4>3 DEF X
    <3>2. CASE m \in 1 .. n - 1
      <4> DEFINE Y == {k \in Range(kept) : B(k, ranked[m])}
      <4>1. X = Y  BY <2>6, <3>2
      <4>2. ranked[m] \notin Range(kept) <=> Out(Y, m)  BY <1>3, <3>2
      <4> HIDE DEF X, Y
      <4>3. ranked[m] \in Range(next) <=> ranked[m] \in Range(kept)  BY <1>5, <2>2, <3>2
      <4>4. ranked[m] \notin Range(next) <=> Out(X, m)  BY <4>1, <4>2, <4>3
      <4> QED  BY <4>4 DEF X
    <3> QED  BY <1>1, <3>1, <3>2
  <2>8. Selects(semantic, lexical, ranked, document, hash, limit, next, n)
    BY <2>1, <2>3, <2>4, <2>7 DEF Selects
  <2> QED  BY <1>8, <2>8 DEF next
<1> QED  BY <1>7, <1>8

\* So the whole selection, by induction along the ranked rows.
LEMMA SelectionIs ==
  ASSUME NEW semantic \in Seq(Chunks), NEW lexical \in Seq(Chunks), NEW ranked \in Seq(Chunks),
         Descending(semantic, lexical, ranked), NEW document, NEW hash, NEW limit \in Int
  PROVE  Selects(semantic, lexical, ranked, document, hash, limit,
                 SelectEvidence(ranked, document, hash, limit), Len(ranked))
<1> DEFINE size == Len(ranked)
           Extended(kept, c) == IF Len(kept) < Asked(limit) /\ Take(document, hash, kept, c)
                            THEN Append(kept, c) ELSE kept
           S == Seq(Chunks)
           step == [x \in S \X (1 .. size) |-> Extended(x[1], ranked[x[2]])]
           IsSelection(f) == f = [n \in 0 .. size |-> IF n = 0 THEN << >>
                                    ELSE IF Len(f[n - 1]) < Asked(limit) /\ Take(document, hash, f[n - 1], ranked[n])
                                         THEN Append(f[n - 1], ranked[n]) ELSE f[n - 1]]
           kept == CHOOSE f : IsSelection(f)
           Sel(k, n) == Selects(semantic, lexical, ranked, document, hash, limit, k, n)
<1>1. size \in Nat /\ \A n \in 1 .. size : ranked[n] \in Chunks  OBVIOUS
<1>2. step \in [S \X (1 .. size) -> S]
  <2>1. ASSUME NEW x \in S \X (1 .. size) PROVE Extended(x[1], ranked[x[2]]) \in S
    <3>1. x[1] \in Seq(Chunks) /\ ranked[x[2]] \in Chunks  BY <1>1
    <3> QED  BY <3>1
  <2> HIDE DEF Extended, S
  <2> QED  BY <2>1
<1>3. PICK f \in [0 .. size -> S] : f[0] = << >> /\ \A n \in 1 .. size : f[n] = step[<<f[n - 1], n>>]
  <2>1. << >> \in S  OBVIOUS
  <2> HIDE DEF S, step, size
  <2>2. \E f : IsRecursion(f, S, << >>, size, step)  BY <1>1, <1>2, <2>1, Recursion
  <2> QED  BY <2>2 DEF IsRecursion
<1>4. ASSUME NEW n \in 1 .. size PROVE f[n] = Extended(f[n - 1], ranked[n])
  <2>1. n - 1 \in 0 .. size  BY <1>1
  <2>2. <<f[n - 1], n>> \in S \X (1 .. size)
    <3> HIDE DEF S
    <3> QED  BY <2>1
  <2>3. step[<<f[n - 1], n>>] = Extended(f[n - 1], ranked[n])
    <3> HIDE DEF Extended, S
    <3> QED  BY <2>2
  <2> HIDE DEF step, Extended, S
  <2> QED  BY <1>3, <2>3
<1>5. IsSelection(f)
  <2> DEFINE Value(n) == IF n = 0 THEN << >>
                         ELSE IF Len(f[n - 1]) < Asked(limit) /\ Take(document, hash, f[n - 1], ranked[n])
                              THEN Append(f[n - 1], ranked[n]) ELSE f[n - 1]
  <2>1. ASSUME NEW n \in 0 .. size PROVE f[n] = Value(n)
    <3>1. CASE n = 0  BY <1>3, <3>1
    <3>2. CASE n # 0
      <4>1. n \in 1 .. size  BY <1>1, <3>2
      <4> QED  BY <1>4, <3>2, <4>1
    <3> QED  BY <3>1, <3>2
  <2>2. f = [n \in 0 .. size |-> Value(n)]
    <3> HIDE DEF Value, S
    <3> QED  BY <2>1
  <2> QED  BY <2>2
<1>6. IsSelection(kept)
  <2> HIDE DEF IsSelection
  <2> QED  BY <1>5
<1>7. SelectEvidence(ranked, document, hash, limit) = kept[size]
  BY DEF SelectEvidence
<1> HIDE DEF kept
<1>8. kept[0] = << >> /\ \A n \in 1 .. size : kept[n] = Extended(kept[n - 1], ranked[n])
  <2>1. ASSUME NEW n \in 0 .. size
        PROVE  kept[n] = IF n = 0 THEN << >>
                         ELSE IF Len(kept[n - 1]) < Asked(limit) /\ Take(document, hash, kept[n - 1], ranked[n])
                              THEN Append(kept[n - 1], ranked[n]) ELSE kept[n - 1]
    BY <1>6
  <2>2. 0 \in 0 .. size /\ \A n \in 1 .. size : n \in 0 .. size /\ n # 0  BY <1>1
  <2> QED  BY <2>1, <2>2
<1> DEFINE T == {n \in 0 .. size : Sel(kept[n], n)}
<1>9. 0 \in T
  <2>1. Range(<< >>) = {} /\ Len(<< >>) = 0 /\ << >> \in Seq(Chunks)  BY DEF Range
  <2>2. Sel(<< >>, 0)  BY <2>1 DEF Selects
  <2> QED  BY <1>1, <1>8, <2>2
<1>10. ASSUME NEW n \in 1 .. size, n - 1 \in T PROVE n \in T
  <2> DEFINE k == kept[n - 1]
  <2>1. Sel(k, n - 1)  BY <1>10
  <2>2. k \in Seq(Chunks) /\ IsInjective(k)
    <3>1. k \in Seq(Chunks) /\ \A i, j \in 1 .. Len(k) : i < j => Before(semantic, lexical, k[i], k[j])
      <4> HIDE DEF k
      <4> QED  BY <2>1 DEF Selects
    <3> HIDE DEF k
    <3> QED  BY <3>1, OrderedIsInjective
  <2> HIDE DEF k
  <2>3. Len(k) < Asked(limit) /\ Take(document, hash, k, ranked[n])
          <=> ~Outdone(Range(k), document, hash, limit, ranked[n])
    BY <2>2, TakenIs
  <2>4. Extended(k, ranked[n]) = IF Outdone(Range(k), document, hash, limit, ranked[n]) THEN k
                             ELSE Append(k, ranked[n])
    BY <2>3
  <2>5. Sel(IF Outdone(Range(k), document, hash, limit, ranked[n]) THEN k ELSE Append(k, ranked[n]), n)
    BY <2>1, SelectsOneMore
  <2>6. kept[n] = Extended(k, ranked[n])  BY <1>8 DEF k
  <2>7. n \in 0 .. size  BY <1>1
  <2> HIDE DEF Sel, Extended, size
  <2> QED  BY <2>4, <2>5, <2>6, <2>7
<1>11. size \in T
  <2>1. 0 .. size \subseteq T
    <3> HIDE DEF T, size
    <3> QED  BY <1>1, <1>9, <1>10, Along
  <2> QED  BY <1>1, <2>1
<1> QED  BY <1>7, <1>11

\* Fusion keeps the best, whatever the searches found.
LEMMA KeepsTheBest ==
  ASSUME NEW semantic \in Seq(Chunks), NEW lexical \in Seq(Chunks), NEW document, NEW hash,
         NEW limit \in Int
  PROVE  IsBest(semantic, lexical, document, hash, limit)
<1> DEFINE found == Found(semantic, lexical)
           ranked == Ranked(semantic, lexical)
           kept == SelectEvidence(ranked, document, hash, limit)
<1>1. /\ found \subseteq Chunks /\ ranked \in Seq(found) /\ Range(ranked) = found
      /\ Descending(semantic, lexical, ranked)
  BY RankedIs DEF Descending
<1>2. ranked \in Seq(Chunks)
  <2> HIDE DEF ranked, found
  <2> QED  BY <1>1
<1> HIDE DEF ranked
<1>3. Selects(semantic, lexical, ranked, document, hash, limit, kept, Len(ranked))
  BY <1>1, <1>2, SelectionIs
<1> HIDE DEF kept
<1>4. \A i, j \in DOMAIN kept : i < j => Before(semantic, lexical, kept[i], kept[j])
  BY <1>3 DEF Selects
<1>5. ASSUME NEW c \in found
      PROVE  c \notin Range(kept) <=>
               Outdone({k \in Range(kept) : Before(semantic, lexical, k, c)}, document, hash, limit, c)
  <2>1. PICK n \in 1 .. Len(ranked) : ranked[n] = c
    <3>1. DOMAIN ranked = 1 .. Len(ranked)  BY <1>2
    <3> HIDE DEF found
    <3> QED  BY <1>1, <3>1 DEF Range
  <2> QED  BY <1>3, <2>1 DEF Selects
<1> QED  BY <1>4, <1>5 DEF IsBest, Found, kept, ranked

\* What an answer is built on are the best rows there are, for any number of
\* rows, any documents, contents and limit, and rows on which both searches agree
\* come first (fuseCandidates).
THEOREM FusionIsRight ==
  /\ \A semantic, lexical \in Seq(Chunks) : \A document, hash : \A limit \in Int :
       IsBest(semantic, lexical, document, hash, limit)
  /\ Spec => []FusionHolds
<1>1. \A semantic, lexical \in Seq(Chunks) : \A document, hash : \A limit \in Int :
        IsBest(semantic, lexical, document, hash, limit)
  BY KeepsTheBest
<1>2. FusionIsBest
  BY <1>1, ListIs DEF FusionIsBest
<1>3. FusionHolds
  BY <1>2, AgreementIs DEF FusionHolds
<1>4. Spec => []FusionHolds
  BY <1>3, PTL
<1> QED  BY <1>1, <1>4
=============================================================================
