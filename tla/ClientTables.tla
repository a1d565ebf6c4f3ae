---------------------------- MODULE ClientTables ----------------------------
(***************************************************************************)
(* What the web client's endpoints and pages are: which data an endpoint   *)
(* shows or changes, by which tags its cache entry is found, and which     *)
(* endpoints a component reads, sends and polls once it is mounted. One    *)
(* ticket, document, issue and experiment stand for all; the user is staff *)
(* who may manage, so every control of a page is there.                    *)
(***************************************************************************)

\* facts: what an answer depends on, respectively what a request changes.
Query(facts, tags) == [kind |-> "query", facts |-> facts, tags |-> tags]
Write(facts, tags) == [kind |-> "mutation", facts |-> facts, tags |-> tags]

\* A tag with an id is also hit by its type alone, so "Tickets" finds both.
TicketsApi == LET OfTickets == Write({"tickets", "activity"}, {"Tickets", "Ticket"}) IN
  [listTickets        |-> Query({"tickets"}, {"Tickets"}),
   getTicket          |-> Query({"tickets"}, {"Tickets", "Ticket"}),
   createTicket       |-> Write({"tickets", "activity"}, {"Tickets"}),
   updateTicketStatus |-> OfTickets,
   assignTicket       |-> OfTickets]

MessagesApiUntold ==              \* mutant: the thread's own tag is forgotten
  [listMessages  |-> Query({"thread"}, {"Messages"}),
   createMessage |-> Write({"thread", "tickets", "activity"}, {"Tickets", "Ticket"})]
MessagesApi ==
  [listMessages  |-> Query({"thread"}, {"Messages"}),
   createMessage |-> Write({"thread", "tickets", "activity"}, {"Messages", "Tickets", "Ticket"})]

NotesApi ==
  [listNotes  |-> Query({"notes"}, {"Notes"}),
   createNote |-> Write({"notes", "activity"}, {"Notes", "Tickets", "Ticket"})]

ActivityApi == [listTicketActivity |-> Query({"activity"}, {"Activity"})]

AiApi ==
  [generateAiDraft |-> Write({"runs", "issues", "activity"}, {"AiDrafts", "Dashboard", "Ticket"}),
   sendCopilot     |-> Write({"thread", "tickets", "activity", "runs", "issues"},
                             {"Dashboard", "Messages", "Tickets", "Ticket"}),
   evaluateCopilot |-> Write({"runs", "issues"}, {"Dashboard"})]

OrgApi == LET Demote == Write({"members", "tickets", "issues"}, {"Organizations"}) IN
  [listOrganizations  |-> Query({"organizations"}, {"Organizations"}),
   createOrganization |-> Write({"organizations"}, {"Organizations"}),
   listMembers        |-> Query({"members"}, {"Organizations"}),
   addMember          |-> Write({"members"}, {"Organizations"}),
   updateMemberRole   |-> Demote,
   removeMember       |-> Demote]

KbApi == LET Docs == Query({"documents"}, {"KnowledgeBase"})
             Change(facts) == Write({"documents"} \cup facts, {"KnowledgeBase"}) IN
  [listKnowledgeDocuments     |-> Docs,
   knowledgeVersions          |-> Docs,
   searchKnowledgeBase        |-> Docs,
   uploadKnowledgeDocument    |-> Change({"activity"}),
   uploadKnowledgeVersion     |-> Change({"activity"}),
   publishKnowledgeVersion    |-> Change({}),
   deleteKnowledgeDocument    |-> Change({}),
   reprocessKnowledgeDocument |-> Change({})]

QualityApi ==
  [qualityAssignees   |-> Query({"members"}, {"Organizations"}),
   qualityOverview    |-> Query({"runs"}, {"Dashboard"}),
   qualitySources     |-> Query({"runs", "documents"}, {"Dashboard"}),
   qualityIssues      |-> Query({"issues"}, {"Dashboard"}),
   qualityIssue       |-> Query({"issues", "documents"}, {"Dashboard", "KnowledgeBase"}),
   updateQualityIssue |-> Write({"issues"}, {"Dashboard"}),
   qualityRuns        |-> Query({"runs", "issues"}, {"Dashboard"}),
   qualityRun         |-> Query({"runs"}, {"Dashboard"})]

ReliabilityApi == LET Change(facts) == Write({"replays"} \cup facts, {"Dashboard"}) IN
  [replayExperiments      |-> Query({"replays"}, {"Dashboard"}),
   replayExperiment       |-> Query({"replays"}, {"Dashboard"}),
   replaySuites           |-> Query({"replays"}, {"Dashboard"}),
   createReplaySuite      |-> Change({}),
   createReplayExperiment |-> Change({}),
   replayAction           |-> Change({}),
   verifyReplay           |-> Change({"issues"})]

DashboardApi == [getOrganizationDashboard |-> Query({"tickets", "activity", "runs", "issues"}, {"Dashboard"})]

\* Each feature injects its endpoints into the one API; no name occurs twice.
Features == {TicketsApi, MessagesApi, NotesApi, ActivityApi, AiApi, OrgApi, KbApi,
             QualityApi, ReliabilityApi, DashboardApi}
Api == [e \in UNION {DOMAIN api : api \in Features} |-> (CHOOSE api \in Features : e \in DOMAIN api)[e]]

Queries   == {e \in DOMAIN Api : Api[e].kind = "query"}
Mutations == {e \in DOMAIN Api : Api[e].kind = "mutation"}
Shows(q, m) == Api[q].facts \cap Api[m].facts # {}      \* what m changes, q shows

-----------------------------------------------------------------------------
(* Components: what they read, what they can send, of which queries they   *)
(* need the data to be mounted, and what they poll.                        *)

Part(reads, sends)        == [reads |-> reads, sends |-> sends, needs |-> {}, polls |-> {}]
Within(q, part)           == [part EXCEPT !.needs = @ \cup {q}]
Polling(q, part)          == [part EXCEPT !.polls = {q}]

TicketDetailsPage == Part({"getTicket"}, {"updateTicketStatus", "assignTicket"})
MessageThread     == Within("getTicket", Part({"listMessages"}, {"createMessage"}))
InternalNotes     == Within("getTicket", Part({"listNotes"}, {"createNote"}))
ActivityTimeline  == Within("getTicket", Part({"listTicketActivity"}, {}))
AiDraftPanel      == Within("getTicket", Part({}, {"generateAiDraft", "sendCopilot", "evaluateCopilot"}))

\* The organization shown is the first of the list, so the list comes first.
Chosen(reads, sends) == Within("listOrganizations", Part(reads, sends))
OrganizationsPage == Part({"listOrganizations"}, {"createOrganization"})
MembersPage       == Part({"listMembers", "listOrganizations"}, {"addMember", "updateMemberRole", "removeMember"})
TicketsPage       == {Part({"listOrganizations"}, {}), Chosen({"listTickets"}, {})}
CreateTicketPage  == {Part({"listOrganizations"}, {}), Chosen({}, {"createTicket"})}
DashboardPage     == {Part({"listOrganizations"}, {}), Chosen({"getOrganizationDashboard"}, {})}

KnowledgeBasePage == {Part({"listOrganizations"}, {}),
                      Polling("listKnowledgeDocuments", Chosen({"listKnowledgeDocuments"}, {}))}
DocumentUpload    == Chosen({}, {"uploadKnowledgeDocument"})
KnowledgeSearch   == Chosen({"searchKnowledgeBase"}, {})
DocumentCard      == Within("listKnowledgeDocuments", Part({}, {"deleteKnowledgeDocument", "reprocessKnowledgeDocument"}))
VersionHistory    == Within("listKnowledgeDocuments", Polling("knowledgeVersions",
  Part({"knowledgeVersions"}, {"uploadKnowledgeVersion", "publishKnowledgeVersion", "reprocessKnowledgeDocument"})))

QualityPage     == Part({"listOrganizations"}, {})
Overview        == Chosen({"qualityOverview"}, {})
IssueList       == Chosen({"qualityAssignees", "qualityIssues"}, {})
Sources         == Chosen({"qualitySources"}, {})
Runs            == Chosen({"qualityRuns", "qualityRun"}, {})
IssueView       == {Chosen({"qualityIssue"}, {}),
                    Within("qualityIssue", Part({"listMembers", "listKnowledgeDocuments", "knowledgeVersions"},
                                                {"updateQualityIssue"}))}
ReliabilityLab  == Chosen({"replayExperiments"}, {})
ReplayCreate    == Chosen({"replaySuites", "listKnowledgeDocuments", "knowledgeVersions"},
                          {"createReplaySuite", "createReplayExperiment"})
ReplayDetail    == Polling("replayExperiment", Chosen({"replayExperiment"}, {"replayAction", "verifyReplay"}))

\* A screen is a page, or a tab, an opened row or a form of one.
Screens ==
  [login         |-> {},
   dashboard     |-> DashboardPage,
   organizations |-> {OrganizationsPage},
   members       |-> {MembersPage},
   tickets       |-> TicketsPage,
   newTicket     |-> CreateTicketPage,
   ticket        |-> {TicketDetailsPage, AiDraftPanel, MessageThread, InternalNotes, ActivityTimeline},
   documents     |-> KnowledgeBasePage \cup {DocumentUpload, DocumentCard},
   search        |-> KnowledgeBasePage \cup {DocumentUpload, DocumentCard, KnowledgeSearch},
   history       |-> KnowledgeBasePage \cup {DocumentUpload, DocumentCard, VersionHistory},
   overview      |-> {QualityPage, Overview, Chosen({"qualityIssues"}, {})},
   issues        |-> {QualityPage, IssueList},
   issue         |-> {QualityPage} \cup IssueView,
   sources       |-> {QualityPage, Sources},
   runs          |-> {QualityPage, Runs},
   lab           |-> {QualityPage, ReliabilityLab, ReplayCreate},
   experiment    |-> {QualityPage, ReliabilityLab, ReplayDetail}]
=============================================================================
