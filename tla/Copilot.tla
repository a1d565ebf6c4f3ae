------------------------------ MODULE Copilot ------------------------------
(***************************************************************************)
(* Copilot runs of one ticket and what becomes of them (ai.service,        *)
(* ai.decision): a run is generated from the conversation as it was read,  *)
(* saved after the provider's answer, and ends in one decision, a public   *)
(* message or a rejection. After the transaction the message is announced  *)
(* and a knowledge signal derived, both best effort. Clients: the panel of *)
(* the ticket page (AiDraftPanel.tsx), whose answers may be lost while its *)
(* request lives on, and other callers of the same endpoints.              *)
(***************************************************************************)
EXTENDS Evidence

CONSTANTS
  Users, Agent,  \* the staff; Agent sits at the panel,
  Owner,         \* and Owner, another, always is staff
  Runs,
  MaxPosts,      \* bound: messages of the ticket
  MaxCalls,      \* bound: requests under way
  Faults         \* "lost" answers, "crash", "derive": the derivation fails

ASSUME CopilotAssumption ==
  /\ Agent \in Users /\ Owner \in Users \ {Agent} /\ Nothing \notin Runs \cup Users
  /\ MaxPosts \in Nat /\ MaxCalls \in Nat \ {0} /\ Faults \subseteq {"lost", "crash", "derive"}

VARIABLES
  status,      \* of the ticket
  thread,      \* its public messages: the author, the run sent, the text
  staff,       \* members who are staff now
  run,         \* a CopilotRun: the context it was made from, its decision
  evaluation,  \* a run's terminal decision
  signal,      \* the reason a run was filed under
  call,        \* requests under way, of the panel while `live`
  panel,       \* the panel: its run, whether it is closed, what it told of what
  announced,   \* history: how often a run's message was announced
  missed       \* history: runs whose derivation failed or died, not redone

vars == <<status, thread, staff, run, evaluation, signal, call, panel, announced, missed>>

Texts    == {"suggested", "edited"}               \* trimmed: classifyReply
Refusals == {"WRONG_KNOWLEDGE", "BAD_TONE"}       \* one blames knowledge, one does not
Ticket   == {"OPEN", "WAITING"}

\* captureContext, contextFingerprint: equal exactly if status and messages are.
Contexts == Ticket \X (0 .. MaxPosts)
Context  == <<status, Len(thread)>>
StatusOnly(c) == c[1] = Context[1]                \* mutant: messages are not compared
Unchanged(c)  == c = Context

Post       == [by : Users \cup {Nothing}, run : Runs \cup {Nothing}, text : Texts \cup {Nothing}]
Run        == [context : Contexts, decision : Decisions]
Evaluation == [by : Users, kind : {"send", "reject"}, what : Texts \cup Refusals]
Call       == [by : Users, live : BOOLEAN, kind : {"generate", "send", "reject"}, run : Runs \cup {Nothing},
               what : Texts \cup Refusals \cup {Nothing}, context : Contexts \cup {Nothing},
               committed : BOOLEAN, fresh : BOOLEAN]
Panel      == [run : Runs \cup {Nothing}, what : Texts \cup Refusals \cup {Nothing},
               terminal : BOOLEAN, told : {"nothing", "sent", "rejected"}]

\* Nothing stands for what is not there.
ASSUME NothingAssumption == Nothing \notin Run /\ Nothing \notin Evaluation

TypeOK ==
  /\ status \in Ticket /\ thread \in SeqOf(Post, MaxPosts) /\ staff \subseteq Users
  /\ run \in [Runs -> Run \cup {Nothing}] /\ evaluation \in [Runs -> Evaluation \cup {Nothing}]
  /\ signal \in [Runs -> Decisions \cup Reasons \cup {Nothing}]
  /\ call \subseteq Call /\ Cardinality(call) <= MaxCalls
  /\ panel \in Panel /\ announced \in [Runs -> Nat] /\ missed \subseteq Runs

Init ==
  /\ status = "OPEN" /\ thread = << >> /\ staff = Users
  /\ run = [r \in Runs |-> Nothing] /\ evaluation = [r \in Runs |-> Nothing]
  /\ signal = [r \in Runs |-> Nothing] /\ call = {} /\ missed = {}
  /\ panel = [run |-> Nothing, what |-> Nothing, terminal |-> FALSE, told |-> "nothing"]
  /\ announced = [r \in Runs |-> 0]

-----------------------------------------------------------------------------
(* The ticket around the runs.                                             *)

ticketVars == <<status, thread>>
runVars    == <<run, evaluation, signal, announced, missed>>

\* A message of anyone's own; who wrote it does not matter here.
Write ==
  /\ Len(thread) < MaxPosts
  /\ thread' = Append(thread, [by |-> Nothing, run |-> Nothing, text |-> Nothing])
  /\ UNCHANGED <<status, staff, runVars, call, panel>>

ChangeStatus == status' \in Ticket \ {status} /\ UNCHANGED <<thread, staff, runVars, call, panel>>

\* updateOrganizationMemberRole, addOrganizationMember, removeOrganizationMember.
ChangeStaff(u) ==
  /\ u # Owner
  /\ staff' = IF u \in staff THEN staff \ {u} ELSE staff \cup {u}
  /\ UNCHANGED <<ticketVars, runVars, call, panel>>

-----------------------------------------------------------------------------
(* Requests. The first authorization is part of asking: a refusal changes  *)
(* nothing. The panel asks one thing at a time: its buttons and the        *)
(* `submitting` ref are closed until the answer.                           *)

Waiting == \E c \in call : c.live
Ask(c)  == Cardinality(call) < MaxCalls /\ c.by \in staff /\ c \notin call /\ call' = call \cup {c}

Request(by, live, kind, r, what) ==
  [by |-> by, live |-> live, kind |-> kind, run |-> r, what |-> what,
   context |-> IF kind = "generate" THEN Context ELSE Nothing, committed |-> FALSE, fresh |-> FALSE]

Cleared == [panel EXCEPT !.told = "nothing", !.what = Nothing]

\* handleGenerateDraft; generateAiDraftReply up to the provider.
ClickGenerate ==
  /\ ~Waiting /\ Ask(Request(Agent, TRUE, "generate", Nothing, Nothing))
  /\ panel' = Cleared
  /\ UNCHANGED <<ticketVars, staff, runVars>>

\* handleSendDraft: the suggestion, or what the agent made of it.
ClickSend(text) ==
  /\ ~Waiting /\ panel.run # Nothing /\ ~panel.terminal
  /\ run[panel.run].decision = "ANSWER_SUPPORTED"
  /\ Ask(Request(Agent, TRUE, "send", panel.run, text))
  /\ panel' = Cleared
  /\ UNCHANGED <<ticketVars, staff, runVars>>

\* handleRejectCopilot.
ClickReject(reason) ==
  /\ ~Waiting /\ panel.run # Nothing /\ ~panel.terminal
  /\ Ask(Request(Agent, TRUE, "reject", panel.run, reason))
  /\ panel' = Cleared
  /\ UNCHANGED <<ticketVars, staff, runVars>>

\* Another member calls POST .../send or PUT .../evaluation.
Elsewhere(by, kind, r, what) ==
  /\ by # Agent /\ run[r] # Nothing /\ what \in (IF kind = "send" THEN Texts ELSE Refusals)
  /\ Ask(Request(by, FALSE, kind, r, what))
  /\ UNCHANGED <<ticketVars, staff, runVars, panel>>

\* The answer will not arrive: the panel may act again, the request lives on.
LoseAnswer(c) ==
  /\ "lost" \in Faults /\ c.live
  /\ call' = (call \ {c}) \cup {[c EXCEPT !.live = FALSE]}
  /\ UNCHANGED <<ticketVars, staff, runVars, panel>>

-----------------------------------------------------------------------------
(* The server.                                                             *)

\* What the intake makes of a run now (deriveKnowledgeSignal).
Reason(r) == ClassifyKnowledgeFailure(
  LET e == evaluation[r] IN
  [abstained |-> run[r].decision # "ANSWER_SUPPORTED", current |-> TRUE, decision |-> run[r].decision,
   disposition |-> IF e = Nothing THEN Nothing ELSE IF e.kind = "reject" THEN "REJECTED"
                   ELSE IF e.what = "edited" THEN "EDITED" ELSE "ACCEPTED",
   reason |-> IF e # Nothing /\ e.kind = "reject" THEN e.what ELSE Nothing])

Derive(r)      == /\ signal' = IF signal[r] = Nothing THEN [signal EXCEPT ![r] = Reason(r)] ELSE signal
                  /\ missed' = missed \ {r}
DeriveFails(r) == "derive" \in Faults /\ missed' = missed \cup {r} /\ UNCHANGED signal

\* Answers end a call; only the panel still waiting for it hears them.
Hears(c, p) == panel' = IF c.live THEN p ELSE panel
Ends(c)     == call' = call \ {c}

\* evaluateCopilotContext decides on what retrieval found; then the run is saved.
\* An answer or nothing: what is told apart from here on.
Findings ==
  LET good == [document |-> 1, semantic |-> "strong", coverage |-> "high", lexical |-> TRUE,
               window |-> 0, asks |-> FALSE] IN
  [rows : {{}, {good}}, health : {[semantic |-> "OK", lexical |-> "OK"]}]

SaveRun(c, r) ==
  /\ c.kind = "generate" /\ ~c.committed /\ c.by \in staff /\ run[r] = Nothing
  /\ \E f \in Findings : run' = [run EXCEPT ![r] =
       [context |-> c.context, decision |-> EvaluateEvidence(f.rows, f.health, FALSE)]]
  /\ call' = (call \ {c}) \cup {[c EXCEPT !.run = r, !.committed = TRUE]}
  /\ UNCHANGED <<ticketVars, staff, evaluation, signal, announced, missed, panel>>

SameCall(e, c) == e.kind = c.kind                 \* mutant: the text is not compared
ExactRetry(e, c) == e.kind = c.kind /\ e.what = c.what
IsRetry(c) == LET e == evaluation[c.run] IN e # Nothing /\ e.by = c.by /\ ExactRetry(e, c)

\* mutant: a rejection overwrites
DecideAnyway(c) ==
  /\ evaluation[c.run] = Nothing \/ c.kind = "reject"
  /\ c.kind = "send" => run[c.run].decision = "ANSWER_SUPPORTED" /\ Unchanged(run[c.run].context)
Decidable(c) ==
  /\ evaluation[c.run] = Nothing
  /\ c.kind = "send" => run[c.run].decision = "ANSWER_SUPPORTED" /\ Unchanged(run[c.run].context)

\* decide: one transaction under the organization's and the ticket's lock.
Decide(c) ==
  /\ c.kind \in {"send", "reject"} /\ ~c.committed /\ c.by \in staff /\ Decidable(c)
  /\ IF c.kind = "send"
     THEN /\ Len(thread) < MaxPosts
          /\ thread' = Append(thread, [by |-> c.by, run |-> c.run, text |-> c.what])
     ELSE UNCHANGED thread
  /\ evaluation' = [evaluation EXCEPT ![c.run] = [by |-> c.by, kind |-> c.kind, what |-> c.what]]
  /\ call' = (call \ {c}) \cup {[c EXCEPT !.committed = TRUE, !.fresh = c.kind = "send"]}
  /\ UNCHANGED <<status, staff, run, signal, announced, missed, panel>>

\* The same actor's exact retry gets the first answer again.
Replayed(c) == [c EXCEPT !.committed = TRUE]
Replay(c) ==
  /\ c.kind \in {"send", "reject"} /\ ~c.committed /\ c.by \in staff /\ IsRetry(c)
  /\ call' = (call \ {c}) \cup {Replayed(c)}
  /\ UNCHANGED <<ticketVars, staff, runVars, panel>>

\* 403 leaves the panel as it is, 409 closes it.
Refuse(c) ==
  /\ ~c.committed
  /\ \/ c.by \notin staff /\ UNCHANGED panel
     \/ /\ c.kind \in {"send", "reject"} /\ c.by \in staff /\ ~Decidable(c) /\ ~IsRetry(c)
        /\ Hears(c, [panel EXCEPT !.terminal = TRUE])
  /\ Ends(c) /\ UNCHANGED <<ticketVars, staff, runVars>>

\* After the commit: announce a new message, derive, answer.
Shown(c) ==
  IF c.kind = "generate" THEN [panel EXCEPT !.run = c.run, !.terminal = FALSE]
  ELSE [panel EXCEPT !.terminal = TRUE, !.what = c.what, !.told = IF c.kind = "send" THEN "sent" ELSE "rejected"]
GeneratedOnly(c) ==                               \* mutant: decisions derive nothing
  IF c.kind = "generate" THEN Derive(c.run) ELSE UNCHANGED <<signal, missed>>
Derives(c) == Derive(c.run) \/ DeriveFails(c.run)
Finish(c) ==
  /\ c.committed /\ Derives(c)
  /\ announced' = IF c.fresh THEN [announced EXCEPT ![c.run] = @ + 1] ELSE announced
  /\ Hears(c, Shown(c)) /\ Ends(c)
  /\ UNCHANGED <<ticketVars, staff, run, evaluation>>

\* The process dies: nothing after the commit happens, nobody is answered.
Crash(c) ==
  /\ "crash" \in Faults /\ Ends(c)
  /\ missed' = IF c.committed THEN missed \cup {c.run} ELSE missed
  /\ UNCHANGED <<ticketVars, staff, run, evaluation, signal, announced, panel>>

\* reconcileKnowledgeSignals, run by an operator: one run of its batch.
Reconcile(r) == run[r] # Nothing /\ Derive(r) /\ UNCHANGED <<ticketVars, staff, run, evaluation, call, panel, announced>>

-----------------------------------------------------------------------------
Next ==
  \/ Write \/ ChangeStatus
  \/ \E u \in Users : ChangeStaff(u)
  \/ ClickGenerate
  \/ \E text \in Texts : ClickSend(text)
  \/ \E reason \in Refusals : ClickReject(reason)
  \/ \E by \in Users, kind \in {"send", "reject"}, r \in Runs, what \in Texts \cup Refusals :
       Elsewhere(by, kind, r, what)
  \/ \E c \in call : LoseAnswer(c) \/ Decide(c) \/ Replay(c) \/ Refuse(c) \/ Finish(c) \/ Crash(c)
  \/ \E c \in call, r \in Runs : SaveRun(c, r)
  \/ \E r \in Runs : Reconcile(r)

Spec == Init /\ [][Next]_vars

-----------------------------------------------------------------------------
(* Properties.                                                             *)

\* A suggestion reaches the customer at most once and as it was decided: a
\* run's message exists exactly if its decision is to send, by that agent with
\* that text, however often it was retried, and is announced at most once.
OneMessagePerRun == \A r \in Runs :
  LET sent == {i \in DOMAIN thread : thread[i].run = r} IN
  /\ Cardinality(sent) <= 1 /\ announced[r] <= Cardinality(sent)
  /\ sent # {} <=> evaluation[r] # Nothing /\ evaluation[r].kind = "send"
  /\ \A i \in sent : thread[i].by = evaluation[r].by /\ thread[i].text = evaluation[r].what

\* No reply is sent into a conversation it was not written for: nothing was said
\* and no status changed since the run read the ticket, the run did not
\* abstain, and its sender is staff at that moment.
SentInContext == [][\A i \in DOMAIN thread' \ DOMAIN thread : thread'[i].run # Nothing =>
  LET r == thread'[i].run IN
  /\ run[r].context = <<status, i - 1>> /\ run[r].decision = "ANSWER_SUPPORTED"
  /\ thread'[i].by \in staff]_vars

\* Signals follow runs: a filed reason stays what the run's record says, and is
\* missing only if its derivation failed, died or is still to come.
SignalMatchesRun == \A r \in Runs : run[r] # Nothing =>
  /\ signal[r] # Nothing => signal[r] = Reason(r)
  /\ signal[r] = Nothing /\ Reason(r) # Nothing =>
       r \in missed \/ \E c \in call : c.committed /\ c.run = r

\* The panel is right about what it tells the agent, also after answers were
\* lost, requests ran late and others decided the same run.
PanelTellsTruth == panel.told # "nothing" =>
  evaluation[panel.run] = [by |-> Agent, kind |-> IF panel.told = "sent" THEN "send" ELSE "reject",
                           what |-> panel.what]

\* Evidence keeps no state: one state is enough to evaluate its properties.
\* Fusion keeps the best candidates, and puts those first that both searches
\* found, over all lists (fuseCandidates).
FusionHolds == Init => FusionIsBest /\ AgreementWins

\* The dashboards' SQL and the issue intake agree, over all runs and sources.
QualityHolds == Init => QualityAgrees

\* No outage becomes a knowledge issue, over all searches and their rows.
OutageHolds == Init => OutageIsNoIssue
=============================================================================
