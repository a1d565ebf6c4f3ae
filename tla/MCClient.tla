------------------------------ MODULE MCClient ------------------------------
(* Small instances of Client for TLC.                                      *)
EXTENDS Client

CONSTANTS u1, u2

Area(screens, queries, writes) == [screens |-> screens, queries |-> queries, writes |-> writes,
                                   users |-> {u1}, faults |-> {"refused"}]
Shared(a) == [a EXCEPT !.users = {u1, u2}, !.faults = {"back"}]

\* Every mutation, beside queries that show what it changes and the screens
\* between which an entry outlives its page.
TicketAreas == {
  Area({"ticket", "tickets"}, {"getTicket", "listMessages"}, {"createMessage"}),
  Area({"ticket"}, {"getTicket", "listNotes"}, {"createNote"}),
  Area({"ticket"}, {"getTicket"}, {"updateTicketStatus", "assignTicket"}),
  Area({"newTicket", "tickets", "ticket"}, {"listTickets", "getTicket"}, {"createTicket"}),
  Area({"ticket"}, {"listMessages"}, {"sendCopilot"})}

QualityAreas == {
  Area({"ticket", "runs"}, {"qualityRuns", "qualityRun"}, {"sendCopilot"}),
  Area({"ticket", "issues"}, {"qualityIssues", "getOrganizationDashboard"}, {"generateAiDraft"}),
  Area({"ticket", "sources", "overview"}, {"qualitySources", "qualityOverview"}, {"evaluateCopilot"}),
  Area({"issue", "issues"}, {"qualityIssue", "qualityIssues"}, {"updateQualityIssue"}),
  Area({"experiment", "issue"}, {"replayExperiment", "qualityIssue"}, {"verifyReplay"}),
  Area({"experiment", "lab"}, {"replayExperiment", "replayExperiments"}, {"replayAction"}),
  Area({"lab"}, {"replayExperiments", "replaySuites"}, {"createReplaySuite"}),
  Area({"lab"}, {"replayExperiments"}, {"createReplayExperiment"})}

KnowledgeAreas == {
  Area({"history", "issue"}, {"knowledgeVersions", "qualityIssue"}, {"publishKnowledgeVersion"}),
  Area({"history"}, {"listKnowledgeDocuments", "knowledgeVersions"}, {"uploadKnowledgeVersion"}),
  Area({"documents", "search"}, {"listKnowledgeDocuments", "searchKnowledgeBase"}, {"deleteKnowledgeDocument"}),
  Area({"documents"}, {"listKnowledgeDocuments"}, {"uploadKnowledgeDocument", "reprocessKnowledgeDocument"})}

MemberAreas == {
  Area({"members", "issues"}, {"listMembers", "qualityAssignees"}, {"addMember"}),
  Area({"members"}, {"listMembers"}, {"updateMemberRole", "removeMember"}),
  Area({"organizations", "tickets"}, {"listOrganizations", "listTickets"}, {"createOrganization"}),
  Shared(Area({"tickets"}, {"listOrganizations", "listTickets"}, {})),
  Shared(Area({"newTicket", "ticket"}, {"getTicket"}, {"createTicket"}))}

\* A thread that others write into.
ThreadAreas == {Area({"ticket", "tickets"}, {"listMessages"}, {"createMessage"})}

AllAreas == TicketAreas \cup QualityAreas \cup KnowledgeAreas \cup MemberAreas
=============================================================================
