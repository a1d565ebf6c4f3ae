---------------------------- MODULE ClientProofs ----------------------------
(***************************************************************************)
(* The web client's cache, for every behaviour's area, every set of users  *)
(* and every number of changes: nothing this tab changed itself stays      *)
(* hidden once its requests have ended, but for what no tag connects, and  *)
(* nobody sees another user's data.                                        *)
(***************************************************************************)
EXTENDS Client, TLAPS

-----------------------------------------------------------------------------
(* The tables. An entry that shows what a mutation changes carries a tag   *)
(* that the mutation invalidates, unless the client leaves it to age.      *)

Demotions == {"updateMemberRole", "removeMember"}

Reader(e, r) == r.kind = "query" =>
  /\ r.facts \subseteq {"tickets", "thread", "notes", "activity", "members", "organizations",
                        "documents", "runs", "issues", "replays"}
  /\ "tickets" \in r.facts => "Tickets" \in r.tags \/ e = "getOrganizationDashboard"
  /\ "thread" \in r.facts => "Messages" \in r.tags
  /\ "notes" \in r.facts => "Notes" \in r.tags
  /\ "activity" \in r.facts => e \in {"listTicketActivity", "getOrganizationDashboard"}
  /\ r.facts \cap {"members", "organizations"} # {} => "Organizations" \in r.tags
  /\ "documents" \in r.facts => "KnowledgeBase" \in r.tags \/ e = "qualitySources"
  /\ r.facts \cap {"runs", "issues", "replays"} # {} => "Dashboard" \in r.tags
  /\ e \in {"getOrganizationDashboard", "qualitySources"} => r.tags = {"Dashboard"}
  /\ e = "getOrganizationDashboard" => r.facts \subseteq {"tickets", "activity", "runs", "issues"}
  /\ e = "qualitySources" => r.facts \subseteq {"runs", "documents"}
  /\ e = "listTicketActivity" => r.tags = {"Activity"}
  /\ "Organizations" \in r.tags => r.facts \subseteq {"members", "organizations"}

Writer(e, r) == r.kind = "mutation" =>
  /\ "tickets" \in r.facts => "Tickets" \in r.tags \/ e \in Demotions
  /\ "thread" \in r.facts => "Messages" \in r.tags
  /\ "notes" \in r.facts => "Notes" \in r.tags
  /\ r.facts \cap {"members", "organizations"} # {} => "Organizations" \in r.tags
  /\ "documents" \in r.facts => "KnowledgeBase" \in r.tags
  /\ r.facts \cap {"runs", "replays"} # {} => "Dashboard" \in r.tags
  /\ "issues" \in r.facts => "Dashboard" \in r.tags \/ e \in Demotions
  /\ e \in Demotions => r.tags = {"Organizations"} /\ r.facts \subseteq {"members", "tickets", "issues"}
  /\ "Activity" \notin r.tags /\ ("documents" \in r.facts => "Dashboard" \notin r.tags)
  /\ "Dashboard" \in r.tags => r.facts \cap {"runs", "issues"} # {} \/ r.facts \subseteq {"replays"}

Tagged(api) == \A e \in DOMAIN api : Reader(e, api[e]) /\ Writer(e, api[e])

LEMMA FeaturesTagged == \A api \in Features : Tagged(api)
<1> USE DEF Tagged, Reader, Writer, Demotions, Query, Write
<1>1. Tagged(TicketsApi)
  BY DEF TicketsApi
<1>2. Tagged(MessagesApi)
  BY DEF MessagesApi
<1>3. Tagged(NotesApi)
  BY DEF NotesApi
<1>4. Tagged(ActivityApi)
  BY DEF ActivityApi
<1>5. Tagged(AiApi)
  BY DEF AiApi
<1>6. Tagged(OrgApi)
  BY DEF OrgApi
<1>7. Tagged(KbApi)
  BY DEF KbApi
<1>8. Tagged(QualityApi)
  BY DEF QualityApi
<1>9. Tagged(ReliabilityApi)
  BY DEF ReliabilityApi
<1>10. Tagged(DashboardApi)
  BY DEF DashboardApi
<1> HIDE DEF Tagged, Reader, Writer, Demotions, Query, Write
<1> QED  BY <1>1, <1>2, <1>3, <1>4, <1>5, <1>6, <1>7, <1>8, <1>9, <1>10 DEF Features

LEMMA ApiTagged == \A e \in DOMAIN Api : Reader(e, Api[e]) /\ Writer(e, Api[e])
<1> SUFFICES ASSUME NEW e \in DOMAIN Api
             PROVE  Reader(e, Api[e]) /\ Writer(e, Api[e])
  OBVIOUS
<1> DEFINE api == CHOOSE a \in Features : e \in DOMAIN a
<1>1. Api[e] = api[e]
  BY DEF Api
<1>2. \E a \in Features : e \in DOMAIN a
  BY DEF Api
<1>3. api \in Features /\ e \in DOMAIN api
  BY <1>2
<1> QED  BY <1>1, <1>3, FeaturesTagged DEF Tagged

LEMMA TagsCover == ASSUME NEW q \in Queries, NEW m \in Mutations, Shows(q, m), ~Aging(m, q)
                   PROVE  Api[q].tags \cap Api[m].tags # {}
<1> DEFINE r == Api[q]  w == Api[m]
<1>1. Reader(q, r) /\ r.kind = "query" /\ Writer(m, w) /\ w.kind = "mutation"
  BY ApiTagged DEF Queries, Mutations
<1>2. PICK f \in r.facts : f \in w.facts
  BY DEF Shows
<1>3. /\ q # "listTicketActivity"
      /\ q = "getOrganizationDashboard" => w.facts \cap {"runs", "issues"} # {}
      /\ m \in Demotions => "members" \in r.facts
      /\ q = "qualitySources" => "runs" \in w.facts
  BY DEF Aging, Demotions
<1> HIDE DEF r, w
<1>4. CASE m \in Demotions
  <2>1. "Organizations" \in r.tags /\ "Organizations" \in w.tags
    BY <1>1, <1>3, <1>4 DEF Reader, Writer
  <2> QED  BY <2>1 DEF r, w
<1>5. CASE m \notin Demotions
  <2>1. CASE q \in {"getOrganizationDashboard", "qualitySources"}
    <3>1. (q = "getOrganizationDashboard" \/ q = "qualitySources") /\ "Dashboard" \in r.tags
      BY <1>1, <2>1 DEF Reader
    <3>2. "Dashboard" \in w.tags
      BY <1>1, <1>3, <1>5, <3>1 DEF Writer
    <3> QED  BY <3>1, <3>2 DEF r, w
  <2>2. CASE q \notin {"getOrganizationDashboard", "qualitySources"}
    <3>1. f \in {"tickets", "thread", "notes", "members", "organizations", "documents",
                 "runs", "issues", "replays"}
      BY <1>1, <1>2, <1>3, <2>2 DEF Reader
    <3>2. \E t \in {"Tickets", "Messages", "Notes", "Organizations", "KnowledgeBase", "Dashboard"} :
            t \in r.tags /\ t \in w.tags
      BY <1>1, <1>2, <1>5, <2>2, <3>1 DEF Reader, Writer
    <3> QED  BY <3>2 DEF r, w
  <2> QED  BY <2>1, <2>2
<1> QED  BY <1>4, <1>5

LEMMA AgingIsUntagged == ASSUME NEW q \in Queries, NEW m \in Mutations, Shows(q, m), Aging(m, q)
                         PROVE  Api[q].tags \cap Api[m].tags = {}
<1> DEFINE r == Api[q]  w == Api[m]
<1>1. Reader(q, r) /\ r.kind = "query" /\ Writer(m, w) /\ w.kind = "mutation"
  BY ApiTagged DEF Queries, Mutations
<1>2. PICK f \in r.facts : f \in w.facts
  BY DEF Shows
<1>3. \/ q = "listTicketActivity"
      \/ q = "getOrganizationDashboard" /\ w.facts \cap {"runs", "issues"} = {}
      \/ m \in Demotions /\ "members" \notin r.facts
      \/ q = "qualitySources" /\ "runs" \notin w.facts
  BY DEF Aging, Demotions
<1> HIDE DEF r, w
<1>4. CASE q = "listTicketActivity"
  <2>1. r.tags = {"Activity"} /\ "Activity" \notin w.tags
    BY <1>1, <1>4 DEF Reader, Writer
  <2> QED  BY <2>1 DEF r, w
<1>5. CASE q = "getOrganizationDashboard" /\ w.facts \cap {"runs", "issues"} = {}
  <2>1. r.tags = {"Dashboard"} /\ f \in {"tickets", "activity"}
    BY <1>1, <1>2, <1>5 DEF Reader
  <2>2. "Dashboard" \notin w.tags
    BY <1>1, <1>2, <1>5, <2>1 DEF Writer
  <2> QED  BY <2>1, <2>2 DEF r, w
<1>6. CASE m \in Demotions /\ "members" \notin r.facts
  <2>1. w.tags = {"Organizations"} /\ f \in {"tickets", "issues"}
    BY <1>1, <1>2, <1>6 DEF Writer
  <2>2. "Organizations" \notin r.tags
    BY <1>1, <1>2, <2>1 DEF Reader
  <2> QED  BY <2>1, <2>2 DEF r, w
<1>7. CASE q = "qualitySources" /\ "runs" \notin w.facts
  <2>1. r.tags = {"Dashboard"} /\ f = "documents"
    BY <1>1, <1>2, <1>7 DEF Reader
  <2>2. "Dashboard" \notin w.tags
    BY <1>1, <1>2, <2>1 DEF Writer
  <2> QED  BY <2>1, <2>2 DEF r, w
<1> QED  BY <1>3, <1>4, <1>5, <1>6, <1>7

\* What a page shows ages exactly where the client's tags do not connect it with
\* what the user changed: Aging, which OwnChangesShown leaves out, excuses no
\* pair of a query and a mutation that share a tag, and every other pair does.
THEOREM AgingIsExact ==
  \A q \in Queries, m \in Mutations :
     Shows(q, m) => (Aging(m, q) <=> Api[q].tags \cap Api[m].tags = {})
BY AgingIsUntagged, TagsCover

-----------------------------------------------------------------------------
(* The shape of a step. Rendering asks for entries, and asks again for     *)
(* none that is being fetched; the mutations under way at most cease to be *)
(* waited for. A request that ends leaves its tags, or settles them all.   *)

TypeOK ==
  /\ area \in Areas /\ user \in Users \cup {Nothing} /\ switched \in BOOLEAN
  /\ cache \in [area.queries -> Entry] /\ fetch \in [area.queries -> Fetch \cup {Nothing}]
  /\ sending \in [area.writes -> Sending \cup {Nothing}]
  /\ clock \in Nat /\ posted \in Nat /\ told \in [area.queries -> Nat] /\ announced \in Nat

Asks(f)     == \E Q \in SUBSET area.queries : fetch' = Ask(f, Q)
Keeps(sent) == \E gone \in SUBSET area.writes :
  sending' = [m \in area.writes |-> IF sent[m] = Nothing \/ m \notin gone THEN sent[m]
                                    ELSE [sent[m] EXCEPT !.counted = FALSE]]
Hit(e, q, tags) == (e.has \/ e.failed) /\ Api[q].tags \cap tags # {}

Waits(c, f, sent, due)   == Pending(f, sent) /\ overdue' = due /\ cache' = c
Settles(c, f, sent, due) ==
  /\ ~Pending(f, sent) /\ overdue' = {}
  /\ \E gone \in SUBSET area.queries :
       /\ cache' = [q \in area.queries |-> IF q \in gone THEN Empty ELSE c[q]]
       /\ \A q \in area.queries : Hit(c[q], q, due) => q \in gone \/ fetch'[q] = Asked

LEMMA Rendered == ASSUME NEW ACTION s, NEW ACTION c, NEW ACTION f, NEW ACTION sent, Render(s, c, f, sent)
                  PROVE  screen' = s /\ cache' = c /\ Asks(f) /\ Keeps(sent)
<1>1. Asks(f)
  <2>1. {q \in Mounted(s, c, f) \ Showing : ~c[q].has} \in SUBSET area.queries
    BY DEF Mounted
  <2> QED  BY <2>1 DEF Render, Asks
<1>2. Keeps(sent)
  <2>1. {m \in area.writes : m \notin Offers(s, c, f)} \in SUBSET area.writes
    OBVIOUS
  <2> QED  BY <2>1 DEF Render, Keeps
<1> QED  BY <1>1, <1>2 DEF Render

LEMMA AskTwice == ASSUME NEW ACTION f, NEW ACTION Q, Q \subseteq area.queries, Asks(Ask(f, Q))
                  PROVE  Asks(f) /\ \A q \in Q : f[q] = Nothing => fetch'[q] = Asked
<1>1. PICK R \in SUBSET area.queries : fetch' = Ask(Ask(f, Q), R)
  BY DEF Asks
<1>2. fetch' = Ask(f, Q \cup R)
  BY <1>1 DEF Ask
<1> QED  BY <1>2 DEF Asks, Ask

LEMMA Ended == ASSUME NEW ACTION s, NEW ACTION c, NEW ACTION f, NEW ACTION sent, NEW ACTION tags,
                      End(s, c, f, sent, tags)
  PROVE  /\ screen' = s /\ Asks(f) /\ Keeps(sent)
         /\ Waits(c, f, sent, overdue \cup tags) \/ Settles(c, f, sent, overdue \cup tags)
<1> DEFINE due == overdue \cup tags
           hit == {q \in area.queries : (c[q].has \/ c[q].failed) /\ Api[q].tags \cap due # {}}
           d == [q \in area.queries |-> IF q \in hit \ Showing THEN Empty ELSE c[q]]
           g == Ask(f, hit \cap Showing)
<1>1. CASE Pending(f, sent)
  <2>1. overdue' = due /\ Render(s, c, f, sent)
    BY <1>1 DEF End
  <2> QED  BY <1>1, <2>1, Rendered DEF Waits
<1>2. CASE ~Pending(f, sent)
  <2>1. overdue' = {} /\ Render(s, d, g, sent)
    BY <1>2 DEF End
  <2>2. screen' = s /\ cache' = d /\ Asks(g) /\ Keeps(sent)
    BY <2>1, Rendered
  <2>3. hit \cap Showing \subseteq area.queries
    OBVIOUS
  <2>4. Asks(f) /\ \A q \in hit \cap Showing : f[q] = Nothing => fetch'[q] = Asked
    BY <2>2, <2>3, AskTwice
  <2>7. \A q \in area.queries : f[q] = Nothing
    BY <1>2 DEF Pending
  <2>8. hit \ Showing \in SUBSET area.queries
    OBVIOUS
  <2>9. \A q \in area.queries : Hit(c[q], q, due) => q \in hit \ Showing \/ fetch'[q] = Asked
    BY <2>4, <2>7 DEF Hit
  <2> QED  BY <1>2, <2>1, <2>2, <2>4, <2>8, <2>9 DEF Settles
<1> QED  BY <1>1, <1>2

LEMMA AskedType == ASSUME TypeOK, UNCHANGED area, user' \in Users \cup {Nothing}, NEW ACTION f,
                          f \in [area.queries -> Fetch \cup {Nothing}], Asks(f)
  PROVE  /\ fetch' \in [area.queries -> Fetch \cup {Nothing}] /\ Asked # Nothing
         /\ \A q \in area.queries : fetch'[q] = f[q] \/ (f[q] = Nothing /\ fetch'[q] = Asked)
<1>1. Asked \in Fetch
  BY DEF Asked, Fetch
<1> QED  BY <1>1, NothingAssumption DEF Asks, Ask

LEMMA KeptType == ASSUME TypeOK, NEW ACTION sent, sent \in [area.writes -> Sending \cup {Nothing}], Keeps(sent)
  PROVE  /\ sending' \in [area.writes -> Sending \cup {Nothing}]
         /\ \A m \in area.writes : \/ sent[m] = Nothing /\ sending'[m] = Nothing
                                   \/ sent[m] # Nothing /\ sending'[m] # Nothing /\ sending'[m].at = sent[m].at
<1>1. \A x \in Sending : /\ [x EXCEPT !.counted = FALSE] \in Sending
                         /\ [x EXCEPT !.counted = FALSE].at = x.at /\ x # Nothing
  BY NothingAssumption DEF Sending
<1>2. PICK gone \in SUBSET area.writes :
        sending' = [m \in area.writes |-> IF sent[m] = Nothing \/ m \notin gone THEN sent[m]
                                          ELSE [sent[m] EXCEPT !.counted = FALSE]]
  BY DEF Keeps
<1>3. ASSUME NEW m \in area.writes
      PROVE  /\ sending'[m] \in Sending \cup {Nothing}
             /\ \/ sent[m] = Nothing /\ sending'[m] = Nothing
                \/ sent[m] # Nothing /\ sending'[m] # Nothing /\ sending'[m].at = sent[m].at
  <2>1. sending'[m] = IF sent[m] = Nothing \/ m \notin gone THEN sent[m] ELSE [sent[m] EXCEPT !.counted = FALSE]
    BY <1>2
  <2>2. sent[m] \in Sending \/ sent[m] = Nothing
    OBVIOUS
  <2> QED  BY <1>1, <2>1, <2>2, NothingAssumption
<1> QED  BY <1>2, <1>3

LEMMA Navigation == ASSUME GoBack \/ \E s \in DOMAIN Screens \ {"login"} : Go(s)
                    PROVE  /\ cache' = cache /\ Asks(fetch) /\ Keeps(sending) /\ user # Nothing
                           /\ UNCHANGED <<area, user, overdue, clock, posted, told, announced, switched>>
<1>1. ASSUME NEW s, Render(s, cache, fetch, sending)
      PROVE  cache' = cache /\ Asks(fetch) /\ Keeps(sending)
  BY <1>1, Rendered
<1>2. \E s : Render(s, cache, fetch, sending)
  BY DEF Go, GoBack, Went
<1>3. cache' = cache /\ Asks(fetch) /\ Keeps(sending)
  BY <1>1, <1>2
<1> QED  BY <1>3 DEF Go, GoBack

LEMMA SigningIn == ASSUME TypeOK, NEW u \in area.users, SignIn(u)
                   PROVE  /\ cache' = cache /\ Asks(fetch) /\ Keeps(sending) /\ user' = u /\ u \in Users
                          /\ UNCHANGED <<area, overdue, clock, posted, told, announced>>
<1>1. Render("dashboard", cache, fetch, sending)
  BY DEF SignIn, Went
<1>2. cache' = cache /\ Asks(fetch) /\ Keeps(sending)
  BY <1>1, Rendered
<1> QED  BY <1>2, ClientAssumption DEF SignIn, TypeOK

LEMMA Refetching == ASSUME TypeOK, NEW q \in area.queries, Refetch(q)
                    PROVE  /\ screen' = screen /\ cache' = cache /\ Asks(fetch) /\ Keeps(sending)
                           /\ UNCHANGED <<area, user, overdue, clock, posted, told, announced, switched>>
<1>1. Render(screen, cache, Ask(fetch, {q}), sending)
  BY DEF Refetch
<1>2. Asks(Ask(fetch, {q})) /\ screen' = screen /\ cache' = cache /\ Keeps(sending)
  BY <1>1, Rendered
<1> QED  BY <1>2, AskTwice DEF Refetch

LEMMA Announcing == ASSUME TypeOK, Announced
  PROVE  /\ cache' = cache /\ Asks(fetch) /\ Keeps(sending) /\ announced' = posted
         /\ UNCHANGED <<area, user, overdue, clock, posted, told, switched>>
<1>1. {"listMessages"} \subseteq area.queries
  BY DEF Announced, Showing, Mounted
<1>2. Render(screen, cache, Ask(fetch, {"listMessages"}), sending)
  BY DEF Announced
<1>3. Asks(Ask(fetch, {"listMessages"})) /\ cache' = cache /\ Keeps(sending)
  BY <1>2, Rendered
<1> QED  BY <1>1, <1>3, AskTwice DEF Announced

\* A query's answer or its failure.
Received(q, e) == End(screen, [cache EXCEPT ![q] = e], [fetch EXCEPT ![q] = Nothing], sending, {})
LEMMA Receiving == ASSUME TypeOK, NEW q \in area.queries, Receive(q)
  PROVE  /\ fetch[q] \in Fetch /\ UNCHANGED <<area, user, clock, posted, told, announced, switched>>
         /\ \E e \in Entry :
              /\ Received(q, e)
              /\ \/ /\ fetch[q].answered /\ e.has /\ ~e.failed
                    /\ e.at = fetch[q].at /\ e.by = fetch[q].by
                 \/ e.failed /\ e.has = cache[q].has /\ e.by = cache[q].by
<1>1. fetch[q] \in Fetch /\ UNCHANGED <<area, user, clock, posted, told, announced, switched>>
  BY DEF Receive, TypeOK
<1>2. CASE fetch[q].answered /\ Received(q, [has |-> TRUE, at |-> fetch[q].at, by |-> fetch[q].by, failed |-> FALSE])
  <2> DEFINE e == [has |-> TRUE, at |-> fetch[q].at, by |-> fetch[q].by, failed |-> FALSE]
  <2>1. e \in Entry /\ e.has /\ ~e.failed /\ e.at = fetch[q].at /\ e.by = fetch[q].by
    BY <1>1 DEF Fetch, Entry
  <2> HIDE DEF e
  <2> QED  BY <1>1, <1>2, <2>1 DEF e
<1>3. CASE End(screen, [cache EXCEPT ![q].failed = TRUE], [fetch EXCEPT ![q] = Nothing], sending, {})
  <2> DEFINE e == [cache[q] EXCEPT !.failed = TRUE]
  <2>1. cache[q] \in Entry
    BY DEF TypeOK
  <2>2. e \in Entry /\ e.failed /\ e.has = cache[q].has /\ e.by = cache[q].by
    BY <2>1 DEF Entry
  <2>3. [cache EXCEPT ![q].failed = TRUE] = [cache EXCEPT ![q] = e]
    OBVIOUS
  <2> HIDE DEF e
  <2>4. Received(q, e)
    BY <1>3, <2>3 DEF Received
  <2> QED  BY <1>1, <2>2, <2>4
<1> QED  BY <1>1, <1>2, <1>3 DEF Receive, Received

LEMMA EndedType == ASSUME TypeOK, UNCHANGED <<area, user>>, NEW ACTION s, NEW ACTION c, NEW ACTION f,
                          NEW ACTION sent, NEW ACTION tags, End(s, c, f, sent, tags),
                          c \in [area.queries -> Entry], f \in [area.queries -> Fetch \cup {Nothing}],
                          sent \in [area.writes -> Sending \cup {Nothing}]
  PROVE  /\ cache' \in [area.queries -> Entry] /\ fetch' \in [area.queries -> Fetch \cup {Nothing}]
         /\ sending' \in [area.writes -> Sending \cup {Nothing}]
<1>1. Empty \in Entry
  BY DEF Empty, Entry
<1>2. /\ Asks(f) /\ Keeps(sent)
      /\ \/ cache' = c
         \/ \E gone \in SUBSET area.queries :
              cache' = [q \in area.queries |-> IF q \in gone THEN Empty ELSE c[q]]
  BY Ended DEF Waits, Settles
<1>3. user' \in Users \cup {Nothing}
  BY DEF TypeOK
<1>4. cache' \in [area.queries -> Entry]
  BY <1>1, <1>2
<1> QED  BY <1>2, <1>3, <1>4, AskedType, KeptType

LEMMA EndedKeeps == ASSUME NEW ACTION s, NEW ACTION c, NEW ACTION f, NEW ACTION sent, NEW ACTION tags,
                           End(s, c, f, sent, tags)
                    PROVE  Asks(f) /\ \A q \in area.queries : cache'[q] = c[q] \/ cache'[q] = Empty
<1>1. /\ Asks(f) /\ Keeps(sent)
      /\ \/ cache' = c
         \/ \E gone \in SUBSET area.queries :
              cache' = [q \in area.queries |-> IF q \in gone THEN Empty ELSE c[q]]
  BY Ended DEF Waits, Settles
<1> QED  BY <1>1

LEMMA TypeStep == ASSUME TypeOK, Next
                  PROVE  TypeOK'
<1> USE DEF TypeOK
<1>1. ASSUME UNCHANGED <<area, clock, posted, told>>, announced' \in Nat, user' \in Users \cup {Nothing}, switched' \in BOOLEAN,
             cache' = cache, Asks(fetch), Keeps(sending)
      PROVE  TypeOK'
  BY <1>1, AskedType, KeptType
<1>2. ASSUME GoBack \/ \E s \in DOMAIN Screens \ {"login"} : Go(s)
      PROVE  TypeOK'
  BY <1>1, <1>2, Navigation
<1>3. ASSUME NEW u \in area.users, SignIn(u)
      PROVE  TypeOK'
  <2>1. switched' \in BOOLEAN
    BY <1>3 DEF SignIn
  <2> QED  BY <1>1, <1>3, <2>1, SigningIn
<1>4. CASE SignOut
  <2>1. Empty \in Entry
    BY DEF Empty, Entry
  <2>2. \A m \in area.writes : sending[m] # Nothing => [sending[m] EXCEPT !.counted = FALSE] \in Sending
    BY DEF Sending
  <2> QED  BY <1>4, <2>1, <2>2 DEF SignOut, Forgotten
<1>5. ASSUME NEW m \in area.writes, Send(m)
      PROVE  TypeOK'
  <2>1. Sent \in Sending
    BY DEF Sent, Sending
  <2> QED  BY <1>5, <2>1 DEF Send
<1>6. ASSUME NEW q \in area.queries, Refetch(q)
      PROVE  TypeOK'
  BY <1>1, <1>6, Refetching
<1>7. ASSUME NEW q \in area.queries, Expire(q)
      PROVE  TypeOK'
  <2>1. Empty \in Entry
    BY DEF Empty, Entry
  <2> QED  BY <1>7, <2>1 DEF Expire
<1>8. ASSUME NEW q \in area.queries, Serve(q)
      PROVE  TypeOK'
  <2>1. [fetch[q] EXCEPT !.answered = TRUE, !.at = clock] \in Fetch
    BY <1>8 DEF Serve, Fetch
  <2>2. fetch' = [fetch EXCEPT ![q] = [fetch[q] EXCEPT !.answered = TRUE, !.at = clock]]
    BY <1>8 DEF Serve
  <2> DEFINE x == [fetch[q] EXCEPT !.answered = TRUE, !.at = clock]
  <2> HIDE DEF x
  <2> QED  BY <1>8, <2>1, <2>2 DEF Serve, x
<1>9. ASSUME NEW m \in area.writes, Execute(m)
      PROVE  TypeOK'
  <2>1. sending[m] \in Sending /\ clock + 1 \in Nat /\ (clock' = clock + 1 \/ clock' = clock)
    BY <1>9 DEF Execute, Changed
  <2>2. /\ [sending[m] EXCEPT !.state = "done", !.at = clock'] \in Sending
        /\ [sending[m] EXCEPT !.state = "refused"] \in Sending
    BY <2>1 DEF Sending
  <2>3. \E x \in Sending : sending' = [sending EXCEPT ![m] = x]
    <3>1. \/ sending' = [sending EXCEPT ![m] = [sending[m] EXCEPT !.state = "done", !.at = clock']]
          \/ sending' = [sending EXCEPT ![m] = [sending[m] EXCEPT !.state = "refused"]]
      BY <1>9 DEF Execute
    <3> QED  BY <2>2, <3>1
  <2>4. clock' \in Nat /\ posted' \in Nat
    BY <1>9, <2>1 DEF Execute, Changed
  <2> QED  BY <1>9, <2>3, <2>4 DEF Execute
<1>10. CASE Elsewhere
  BY <1>10 DEF Elsewhere, Changed
<1>11. ASSUME NEW q \in area.queries, Receive(q)
       PROVE  TypeOK'
  <2>1. PICK e \in Entry : Received(q, e)
    BY <1>11, Receiving
  <2>2. /\ [cache EXCEPT ![q] = e] \in [area.queries -> Entry]
        /\ [fetch EXCEPT ![q] = Nothing] \in [area.queries -> Fetch \cup {Nothing}]
    OBVIOUS
  <2>3. UNCHANGED <<area, user, clock, posted, told, announced, switched>>
    BY <1>11 DEF Receive
  <2>4. /\ cache' \in [area.queries -> Entry] /\ fetch' \in [area.queries -> Fetch \cup {Nothing}]
        /\ sending' \in [area.writes -> Sending \cup {Nothing}]
    BY <2>1, <2>2, <2>3, EndedType DEF Received
  <2> QED  BY <2>3, <2>4
<1>12. ASSUME NEW m \in area.writes, Answer(m)
       PROVE  TypeOK'
  <2>1. UNCHANGED <<area, user, clock, posted, announced, switched>> /\ told' = Hears(m, sending[m].at)
    BY <1>12 DEF Answer
  <2>2. PICK s : End(s, cache, fetch, [sending EXCEPT ![m] = Nothing], Api[m].tags)
    BY <1>12 DEF Answer
  <2>3. [sending EXCEPT ![m] = Nothing] \in [area.writes -> Sending \cup {Nothing}]
    OBVIOUS
  <2>4. /\ cache' \in [area.queries -> Entry] /\ fetch' \in [area.queries -> Fetch \cup {Nothing}]
        /\ sending' \in [area.writes -> Sending \cup {Nothing}]
    BY <2>1, <2>2, <2>3, EndedType
  <2>5. sending[m].at \in Nat
    BY <1>12 DEF Answer, Sending
  <2>6. told' \in [area.queries -> Nat]
    BY <2>1, <2>5 DEF Hears
  <2> QED  BY <2>1, <2>4, <2>6
<1>13. CASE Announced
  <2>1. announced' \in Nat
    BY <1>13, Announcing
  <2> QED  BY <1>1, <1>13, <2>1, Announcing
<1> QED
  BY <1>2, <1>3, <1>4, <1>5, <1>6, <1>7, <1>8, <1>9, <1>10, <1>11, <1>12, <1>13 DEF Next

\* What the tab holds keeps its type, whatever the user, the server and the
\* announcements do: no entry, request or history gets out of its table.
THEOREM TypeCorrect == Spec => []TypeOK
<1>1. Init => TypeOK
  <2>1. Empty \in Entry
    BY DEF Empty, Entry
  <2>2. Init => /\ cache \in [area.queries -> Entry] /\ fetch \in [area.queries -> Fetch \cup {Nothing}]
                /\ sending \in [area.writes -> Sending \cup {Nothing}] /\ told \in [area.queries -> Nat]
    BY <2>1 DEF Init
  <2>3. Init => area \in Areas /\ user \in Users \cup {Nothing} /\ switched \in BOOLEAN
    BY DEF Init
  <2>4. Init => clock \in Nat /\ posted \in Nat /\ announced \in Nat
    BY DEF Init
  <2> QED  BY <2>2, <2>3, <2>4 DEF TypeOK
<1>2. TypeOK /\ [Next]_vars => TypeOK'
  <2>1. ASSUME TypeOK, UNCHANGED vars PROVE TypeOK'
    BY <2>1 DEF TypeOK, vars
  <2> QED  BY <2>1, TypeStep
<1> QED  BY <1>1, <1>2, PTL DEF Spec

-----------------------------------------------------------------------------
(* Whose data is shown. Without credentials the tab is at the login page,  *)
(* where nothing is mounted, and holds no data and waits for none.         *)

SignedOut == user = Nothing => screen = "login" /\ \A q \in area.queries : fetch[q] = Nothing /\ ~cache[q].has
Own == ~switched => /\ \A q \in area.queries : cache[q].has => cache[q].by = user
                    /\ \A q \in area.queries : fetch[q] # Nothing => fetch[q].by = user
OwnInv == SignedOut /\ Own

LEMMA LoginIsEmpty == ASSUME NEW ACTION c, NEW ACTION f
                      PROVE  Mounted("login", c, f) = {} /\ Polled("login", c, f) = {} /\ Offers("login", c, f) = {}
<1>1. Screens["login"] = {}
  BY DEF Screens
<1>2. Parts("login", c, f) = {}
  BY <1>1 DEF Parts
<1> QED  BY <1>2 DEF Mounted, Polled, Offers

LEMMA LoginAsksNothing == ASSUME TypeOK, screen = "login", NEW ACTION f, NEW ACTION sent, NEW ACTION tags,
                                 f \in [area.queries -> Fetch \cup {Nothing}],
                                 End("login", cache, f, sent, tags)
                          PROVE  fetch' = f /\ screen' = "login"
<1>1. Showing = {}
  BY LoginIsEmpty DEF Showing
<1>2. ASSUME NEW ACTION c, NEW ACTION g, Render("login", c, g, sent), g = f
      PROVE  fetch' = f
  <2>1. fetch' = Ask(g, {q \in Mounted("login", c, g) \ Showing : ~c[q].has})
    BY <1>2 DEF Render
  <2>2. Mounted("login", c, g) = {}
    BY LoginIsEmpty
  <2> QED  BY <1>2, <2>1, <2>2 DEF Ask
<1>3. PICK c, g : Render("login", c, g, sent) /\ g = f
  <2> DEFINE due == overdue \cup tags
             hit == {q \in area.queries : (cache[q].has \/ cache[q].failed) /\ Api[q].tags \cap due # {}}
  <2>1. CASE Pending(f, sent)
    BY <2>1 DEF End
  <2>2. CASE ~Pending(f, sent)
    <3>1. Render("login", [q \in area.queries |-> IF q \in hit \ Showing THEN Empty ELSE cache[q]],
                 Ask(f, hit \cap Showing), sent)
      BY <2>2 DEF End
    <3>2. Ask(f, hit \cap Showing) = f
      BY <1>1 DEF Ask
    <3> QED  BY <3>1, <3>2
  <2> QED  BY <2>1, <2>2
<1> QED  BY <1>2, <1>3 DEF Render

LEMMA OwnRendered == ASSUME TypeOK, OwnInv, user # Nothing, UNCHANGED <<area, user, switched>>,
                            cache' = cache, Asks(fetch)
                     PROVE  OwnInv'
<1>1. /\ user' \in Users \cup {Nothing} /\ Asked.by = user
      /\ fetch \in [area.queries -> Fetch \cup {Nothing}]
  BY DEF TypeOK, Asked
<1>2. \A q \in area.queries : fetch'[q] = fetch[q] \/ (fetch[q] = Nothing /\ fetch'[q] = Asked)
  BY <1>1, AskedType
<1> QED  BY <1>1, <1>2 DEF OwnInv, SignedOut, Own

LEMMA OwnStep == ASSUME TypeOK, OwnInv, Next
                 PROVE  OwnInv'
<1> USE DEF OwnInv
<1>0. Empty.has = FALSE /\ \A u \in Users : u # Nothing
  BY ClientAssumption DEF Empty
<1>1. ASSUME GoBack \/ \E s \in DOMAIN Screens \ {"login"} : Go(s)
      PROVE  OwnInv'
  BY <1>1, Navigation, OwnRendered
<1>2. ASSUME NEW u \in area.users, SignIn(u)
      PROVE  OwnInv'
  <2>1. /\ UNCHANGED <<area, cache>> /\ Asks(fetch) /\ user' = u /\ u \in Users
        /\ switched' = (switched \/ user \notin {u, Nothing})
    BY <1>2, SigningIn DEF SignIn
  <2>2. Asked.by = u /\ fetch \in [area.queries -> Fetch \cup {Nothing}] /\ user' \in Users \cup {Nothing}
    BY <2>1 DEF Asked, TypeOK
  <2>3. \A q \in area.queries : fetch'[q] = fetch[q] \/ (fetch[q] = Nothing /\ fetch'[q] = Asked)
    BY <2>1, <2>2, AskedType
  <2>4. SignedOut'
    BY <1>0, <2>1 DEF SignedOut
  <2>5. CASE switched'
    BY <2>4, <2>5 DEF Own
  <2>6. CASE ~switched' /\ user = u
    BY <2>1, <2>2, <2>3, <2>4, <2>6 DEF Own
  <2>7. CASE ~switched' /\ user = Nothing
    BY <2>1, <2>2, <2>3, <2>4, <2>7 DEF Own, SignedOut
  <2> QED  BY <2>1, <2>5, <2>6, <2>7
<1>3. CASE SignOut
  <2>1. /\ user' = Nothing /\ screen' = "login" /\ UNCHANGED area
        /\ \A q \in area.queries : cache'[q] = Empty /\ fetch'[q] = Nothing
    BY <1>3 DEF SignOut, Forgotten
  <2> QED  BY <1>0, <2>1 DEF SignedOut, Own
<1>4. ASSUME UNCHANGED <<area, user, screen, switched, cache, fetch>>
      PROVE  OwnInv'
  BY <1>4 DEF SignedOut, Own
<1>5. ASSUME NEW q \in area.queries, Refetch(q)
      PROVE  OwnInv'
  <2>1. screen # "login"
    BY <1>5, LoginIsEmpty DEF Refetch, Showing
  <2> QED  BY <1>5, <2>1, Refetching, OwnRendered DEF SignedOut
<1>6. ASSUME NEW q \in area.queries, Expire(q)
      PROVE  OwnInv'
  BY <1>0, <1>6 DEF Expire, SignedOut, Own, TypeOK
<1>7. ASSUME NEW q \in area.queries, Serve(q)
      PROVE  OwnInv'
  <2>1. fetch[q] \in Fetch /\ UNCHANGED <<area, user, screen, cache, switched>>
    BY <1>7 DEF Serve, TypeOK
  <2>2. fetch'[q].by = fetch[q].by /\ \A r \in area.queries \ {q} : fetch'[r] = fetch[r]
    BY <1>7, <2>1 DEF Serve, TypeOK, Fetch
  <2>3. fetch[q] # Nothing
    BY <1>7 DEF Serve
  <2>4. \A r \in area.queries : fetch'[r] # Nothing => fetch[r] # Nothing /\ fetch'[r].by = fetch[r].by
    BY <2>2, <2>3
  <2> QED  BY <2>1, <2>3, <2>4 DEF SignedOut, Own
<1>8. ASSUME NEW q \in area.queries, Receive(q)
      PROVE  OwnInv'
  <2>1. user # Nothing /\ fetch[q] \in Fetch /\ UNCHANGED <<area, user, switched>>
    BY <1>8, Receiving DEF Receive, SignedOut
  <2>2. PICK e \in Entry : /\ Received(q, e)
                          /\ \/ e.has /\ e.by = fetch[q].by
                             \/ e.has = cache[q].has /\ e.by = cache[q].by
    BY <1>8, Receiving
  <2> DEFINE c == [cache EXCEPT ![q] = e]  f == [fetch EXCEPT ![q] = Nothing]
  <2>3. Asks(f) /\ \A r \in area.queries : cache'[r] = c[r] \/ cache'[r] = Empty
    BY <2>2, EndedKeeps DEF Received
  <2>4. f \in [area.queries -> Fetch \cup {Nothing}] /\ user' \in Users \cup {Nothing} /\ Asked.by = user
    BY <2>1 DEF TypeOK, Asked
  <2>5. \A r \in area.queries : fetch'[r] = f[r] \/ fetch'[r] = Asked
    BY <2>1, <2>3, <2>4, AskedType
  <2>6. SignedOut'
    BY <2>1 DEF SignedOut
  <2>7. ~switched => \A r \in area.queries : /\ c[r].has => c[r].by = user
                                             /\ f[r] # Nothing => f[r].by = user
    BY <1>8, <2>1, <2>2 DEF Own, TypeOK, Receive
  <2>8. ASSUME ~switched, NEW r \in area.queries, cache'[r].has
        PROVE  cache'[r].by = user
    <3> QED  BY <1>0, <2>3, <2>7, <2>8
  <2>9. ASSUME ~switched, NEW r \in area.queries, fetch'[r] # Nothing
        PROVE  fetch'[r].by = user
    <3> QED  BY <2>4, <2>5, <2>7, <2>9
  <2> QED  BY <2>1, <2>6, <2>8, <2>9 DEF Own
<1>9. ASSUME NEW m \in area.writes, Answer(m)
      PROVE  OwnInv'
  <2> DEFINE sent == [sending EXCEPT ![m] = Nothing]
  <2>1. UNCHANGED <<area, user, switched>>
    BY <1>9 DEF Answer
  <2>2. PICK s : End(s, cache, fetch, sent, Api[m].tags) /\ (user = Nothing => s = screen)
    BY <1>9 DEF Answer
  <2>3. Asks(fetch) /\ \A r \in area.queries : cache'[r] = cache[r] \/ cache'[r] = Empty
    BY <2>2, EndedKeeps
  <2>4. fetch \in [area.queries -> Fetch \cup {Nothing}] /\ user' \in Users \cup {Nothing} /\ Asked.by = user
    BY <2>1 DEF TypeOK, Asked
  <2>5. \A r \in area.queries : fetch'[r] = fetch[r] \/ fetch'[r] = Asked
    BY <2>1, <2>3, <2>4, AskedType
  <2>6. Own'
    BY <1>0, <2>1, <2>3, <2>4, <2>5 DEF Own
  <2>7. CASE user = Nothing
    <3>1. screen = "login" /\ End("login", cache, fetch, sent, Api[m].tags)
      BY <2>2, <2>7 DEF SignedOut
    <3>2. fetch' = fetch /\ screen' = "login"
      BY <2>4, <3>1, LoginAsksNothing
    <3> QED  BY <1>0, <2>1, <2>3, <2>6, <2>7, <3>2 DEF SignedOut
  <2>8. CASE user # Nothing
    BY <2>1, <2>6, <2>8 DEF SignedOut
  <2> QED  BY <2>7, <2>8
<1>10. CASE Announced
  <2>1. screen # "login"
    BY <1>10, LoginIsEmpty DEF Announced, Showing
  <2> QED  BY <1>10, <2>1, Announcing, OwnRendered DEF SignedOut
<1> QED
  BY <1>1, <1>2, <1>3, <1>4, <1>5, <1>6, <1>7, <1>8, <1>9, <1>10
  DEF Next, Send, Execute, Elsewhere

\* Nobody is shown what was fetched for another user, unless he signed in over
\* that user's session: what a sign-out leaves under way is never stored.
THEOREM ShownToOwner == Spec => []ShownIsOwn
<1>1. Init => OwnInv
  BY DEF Init, OwnInv, SignedOut, Own, Empty
<1>2. TypeOK /\ OwnInv /\ [Next]_vars => OwnInv'
  <2>1. ASSUME OwnInv, UNCHANGED vars PROVE OwnInv'
    BY <2>1 DEF OwnInv, SignedOut, Own, vars
  <2> QED  BY <2>1, OwnStep
<1>3. OwnInv => ShownIsOwn
  <2>1. \A q \in Showing : q \in area.queries
    BY DEF Showing, Mounted
  <2> QED  BY <2>1 DEF OwnInv, Own, ShownIsOwn
<1> QED  BY <1>1, <1>2, <1>3, TypeCorrect, PTL DEF Spec
-----------------------------------------------------------------------------
(* What the tab was told of. An entry as old as the news is being fetched, *)
(* or found by an overdue tag, and so is an answer of that age under way;  *)
(* tags are overdue only while a request is under way that will settle     *)
(* them, unless there is nothing left to be found.                         *)

Due(q)   == Api[q].tags \cap overdue # {}
Promised == \A q \in area.queries :
  /\ cache[q].has /\ ~cache[q].failed => cache[q].at >= told[q] \/ fetch[q] # Nothing \/ Due(q)
  /\ fetch[q] # Nothing /\ fetch[q].answered => fetch[q].at >= told[q] \/ Due(q)
Settling == overdue # {} => \/ \E q \in area.queries : fetch[q] # Nothing
                            \/ \E m \in area.writes : sending[m] # Nothing
                            \/ \A q \in area.queries : ~cache[q].has /\ ~cache[q].failed
InThePast == /\ posted <= clock /\ \A q \in area.queries : told[q] <= clock
             /\ \A m \in area.writes : sending[m] # Nothing => sending[m].at <= clock
ToldInv == Promised /\ Settling /\ InThePast

\* A page that is rendered keeps the promise: it takes nothing back.
LEMMA RenderedTold == ASSUME TypeOK, ToldInv, UNCHANGED <<area, overdue, clock, posted, told>>,
                             user' \in Users \cup {Nothing}, cache' = cache, Asks(fetch), Keeps(sending)
                      PROVE  ToldInv'
<1>1. /\ fetch \in [area.queries -> Fetch \cup {Nothing}] /\ Asked # Nothing /\ ~Asked.answered
      /\ sending \in [area.writes -> Sending \cup {Nothing}]
  <2>1. ~Asked.answered
    BY DEF Asked
  <2> QED  BY <2>1, AskedType DEF TypeOK
<1>2. \A q \in area.queries : fetch'[q] = fetch[q] \/ (fetch[q] = Nothing /\ fetch'[q] = Asked)
  BY <1>1, AskedType
<1>3. \A m \in area.writes : \/ sending[m] = Nothing /\ sending'[m] = Nothing
                             \/ sending[m] # Nothing /\ sending'[m] # Nothing /\ sending'[m].at = sending[m].at
  BY <1>1, KeptType
<1>4. Promised'
  <2>1. \A q \in area.queries : fetch'[q] # Nothing /\ fetch'[q].answered => fetch'[q] = fetch[q]
    BY <1>1, <1>2
  <2>2. \A q \in area.queries : fetch[q] # Nothing => fetch'[q] # Nothing
    BY <1>2
  <2> QED  BY <2>1, <2>2 DEF ToldInv, Promised, Due
<1>5. Settling'
  BY <1>1, <1>2, <1>3 DEF ToldInv, Settling
<1>6. InThePast'
  BY <1>3 DEF ToldInv, InThePast
<1> QED  BY <1>4, <1>5, <1>6 DEF ToldInv

\* A request that ends keeps it too, if what is known then is as new as the
\* news, being fetched, or found by a tag that is overdue or now to settle.
LEMMA EndedTold == ASSUME TypeOK, UNCHANGED <<area, user>>, NEW ACTION s, NEW ACTION c, NEW ACTION f,
                          NEW ACTION sent, NEW ACTION tags, NEW ACTION due, End(s, c, f, sent, tags),
                          due = overdue \cup tags,
                          c \in [area.queries -> Entry], f \in [area.queries -> Fetch \cup {Nothing}],
                          sent \in [area.writes -> Sending \cup {Nothing}],
                          \A q \in area.queries :
                            /\ c[q].has /\ ~c[q].failed => \/ c[q].at >= told'[q] \/ f[q] # Nothing
                                                           \/ Api[q].tags \cap due # {}
                            /\ f[q] # Nothing /\ f[q].answered => \/ f[q].at >= told'[q]
                                                                  \/ Api[q].tags \cap due # {}
                   PROVE  Promised' /\ Settling'
<1>1. user' \in Users \cup {Nothing} /\ ~Asked.answered /\ ~Empty.has
  BY DEF TypeOK, Asked, Empty
<1>2. /\ Asked # Nothing
      /\ \A q \in area.queries : fetch'[q] = f[q] \/ (f[q] = Nothing /\ fetch'[q] = Asked)
  BY <1>1, Ended, AskedType
<1>3. \A m \in area.writes : sent[m] # Nothing => sending'[m] # Nothing
  BY Ended, KeptType
<1>4. CASE Waits(c, f, sent, due)
  <2>1. \A q \in area.queries : fetch'[q] # Nothing /\ fetch'[q].answered => fetch'[q] = f[q]
    BY <1>1, <1>2
  <2>2. \A q \in area.queries : f[q] # Nothing => fetch'[q] # Nothing
    BY <1>2
  <2>3. Promised'
    BY <1>4, <2>1, <2>2 DEF Waits, Promised, Due
  <2>4. Settling'
    BY <1>3, <1>4, <2>2 DEF Waits, Settling, Pending
  <2> QED  BY <2>3, <2>4
<1>5. CASE Settles(c, f, sent, due)
  <2>1. PICK gone \in SUBSET area.queries :
                /\ cache' = [q \in area.queries |-> IF q \in gone THEN Empty ELSE c[q]]
                /\ \A q \in area.queries : Hit(c[q], q, due) => q \in gone \/ fetch'[q] = Asked
    BY <1>5 DEF Settles
  <2>2. \A q \in area.queries : f[q] = Nothing
    BY <1>5 DEF Settles, Pending
  <2>3. \A q \in area.queries : fetch'[q] = Nothing \/ ~fetch'[q].answered
    BY <1>1, <1>2, <2>2
  <2>4. ASSUME NEW q \in area.queries, cache'[q].has, ~cache'[q].failed
        PROVE  cache'[q].at >= told'[q] \/ fetch'[q] # Nothing
    <3>1. q \notin gone /\ cache'[q] = c[q]
      BY <1>1, <2>1, <2>4
    <3>2. CASE Api[q].tags \cap due # {}
      BY <1>2, <2>1, <2>4, <3>1, <3>2 DEF Hit
    <3>3. CASE c[q].at >= told'[q]
      BY <3>1, <3>3
    <3> QED  BY <2>2, <2>4, <3>1, <3>2, <3>3
  <2>5. Promised'
    BY <2>3, <2>4 DEF Promised
  <2> QED  BY <1>5, <2>5 DEF Settles, Settling
<1> QED  BY <1>4, <1>5, Ended

LEMMA ToldStep == ASSUME TypeOK, ToldInv, Next
                  PROVE  ToldInv'
<1>0. /\ area.queries \subseteq Queries /\ area.writes \subseteq Mutations
      /\ ~Empty.has /\ ~Empty.failed
  BY ClientAssumption DEF TypeOK, Empty
<1>1. ASSUME GoBack \/ \E s \in DOMAIN Screens \ {"login"} : Go(s)
      PROVE  ToldInv'
  <2>1. user' \in Users \cup {Nothing}
    BY <1>1, Navigation DEF TypeOK
  <2> QED  BY <1>1, <2>1, Navigation, RenderedTold
<1>2. ASSUME NEW u \in area.users, SignIn(u)
      PROVE  ToldInv'
  BY <1>2, SigningIn, RenderedTold
<1>3. CASE SignOut
  <2>1. /\ UNCHANGED <<area, overdue, clock, posted, told, announced>>
        /\ \A q \in area.queries : cache'[q] = Empty /\ fetch'[q] = Nothing
    BY <1>3 DEF SignOut, Forgotten
  <2>2. \A m \in area.writes : sending'[m] # Nothing => sending[m] # Nothing /\ sending'[m].at = sending[m].at
    <3>1. \A x \in Sending : [x EXCEPT !.counted = FALSE].at = x.at
      BY DEF Sending
    <3>2. \A m \in area.writes : sending'[m] = IF sending[m] = Nothing THEN Nothing
                                               ELSE [sending[m] EXCEPT !.counted = FALSE]
      BY <1>3 DEF SignOut
    <3> QED  BY <3>1, <3>2 DEF TypeOK
  <2>3. Promised' /\ Settling'
    BY <1>0, <2>1 DEF Promised, Settling
  <2>4. InThePast'
    BY <2>1, <2>2 DEF ToldInv, InThePast
  <2> QED  BY <2>3, <2>4 DEF ToldInv
<1>4. ASSUME NEW m \in area.writes, Send(m)
      PROVE  ToldInv'
  <2>1. /\ UNCHANGED <<area, cache, fetch, overdue, clock, posted, told, announced>>
        /\ sending[m] = Nothing /\ sending'[m] = Sent
        /\ \A n \in area.writes \ {m} : sending'[n] = sending[n]
    BY <1>4 DEF Send, TypeOK
  <2>2. Sent.at = 0 /\ Sent # Nothing
    <3>1. Sent \in Sending /\ Sent.at = 0
      BY DEF Sent, Sending
    <3> QED  BY <3>1, NothingAssumption
  <2>3. Promised'
    BY <2>1 DEF ToldInv, Promised, Due
  <2>4. Settling'
    BY <2>1, <2>2 DEF Settling
  <2>5. InThePast'
    BY <2>1, <2>2 DEF ToldInv, InThePast, TypeOK
  <2> QED  BY <2>3, <2>4, <2>5 DEF ToldInv
<1>5. ASSUME NEW q \in area.queries, Refetch(q)
      PROVE  ToldInv'
  <2>1. user' \in Users \cup {Nothing}
    BY <1>5 DEF Refetch, TypeOK
  <2> QED  BY <1>5, <2>1, Refetching, RenderedTold
<1>6. ASSUME NEW q \in area.queries, Expire(q)
      PROVE  ToldInv'
  <2>1. /\ UNCHANGED <<area, fetch, sending, overdue, clock, posted, told, announced>> /\ cache'[q] = Empty
        /\ \A r \in area.queries \ {q} : cache'[r] = cache[r]
    BY <1>6 DEF Expire, TypeOK
  <2>2. Promised'
    BY <1>0, <2>1 DEF ToldInv, Promised, Due
  <2>3. Settling' /\ InThePast'
    BY <1>0, <2>1 DEF ToldInv, Settling, InThePast
  <2> QED  BY <2>2, <2>3 DEF ToldInv
<1>7. ASSUME NEW q \in area.queries, Serve(q)
      PROVE  ToldInv'
  <2>1. fetch[q] \in Fetch /\ UNCHANGED <<area, cache, sending, overdue, clock, posted, told, announced>>
    BY <1>7 DEF Serve, TypeOK
  <2>2. /\ fetch'[q] = [fetch[q] EXCEPT !.answered = TRUE, !.at = clock]
        /\ \A r \in area.queries \ {q} : fetch'[r] = fetch[r]
    BY <1>7 DEF Serve, TypeOK
  <2>3. fetch'[q] \in Fetch /\ fetch'[q].at = clock
    BY <2>1, <2>2 DEF Fetch, TypeOK
  <2>4. fetch[q] # Nothing /\ fetch'[q] # Nothing
    BY <2>1, <2>3, NothingAssumption
  <2>5. clock >= told[q]
    BY DEF ToldInv, InThePast, TypeOK
  <2>6. Promised'
    BY <2>1, <2>2, <2>3, <2>4, <2>5 DEF ToldInv, Promised, Due
  <2>7. Settling' /\ InThePast'
    BY <2>1, <2>2, <2>4 DEF ToldInv, Settling, InThePast
  <2> QED  BY <2>6, <2>7 DEF ToldInv
<1>8. ASSUME UNCHANGED <<area, cache, fetch, overdue, told>>, clock' \in {clock, clock + 1}, posted' <= clock',
             \A m \in area.writes : sending[m] # Nothing => sending'[m] # Nothing,
             \A m \in area.writes : sending'[m] # Nothing => \/ sending[m] # Nothing /\ sending'[m].at = sending[m].at
                                                             \/ sending'[m].at = clock'
      PROVE  ToldInv'
  <2>1. Promised' /\ Settling'
    BY <1>8 DEF ToldInv, Promised, Due, Settling
  <2>2. InThePast'
    <3>1. clock \in Nat /\ \A q \in area.queries : told[q] \in Nat
      BY DEF TypeOK
    <3>2. \A m \in area.writes : sending[m] # Nothing => sending[m].at \in Nat
      BY DEF TypeOK, Sending
    <3> QED  BY <1>8, <3>1, <3>2 DEF ToldInv, InThePast
  <2> QED  BY <2>1, <2>2 DEF ToldInv
<1>9. ASSUME NEW m \in area.writes, Execute(m)
      PROVE  ToldInv'
  <2>1. sending[m] \in Sending /\ sending[m] # Nothing /\ UNCHANGED <<area, cache, fetch, overdue, told>>
    BY <1>9 DEF Execute, TypeOK
  <2>2. \A n \in area.writes \ {m} : sending'[n] = sending[n]
    BY <1>9 DEF Execute, TypeOK
  <2>3. CASE Changed(Api[m].facts) /\ sending' = [sending EXCEPT ![m].state = "done", ![m].at = clock']
    <3>1. clock' = clock + 1 /\ posted' <= clock'
      BY <2>3 DEF Changed, ToldInv, InThePast, TypeOK
    <3>2. sending'[m] = [sending[m] EXCEPT !.state = "done", !.at = clock']
      BY <2>3 DEF TypeOK
    <3>3. sending'[m] \in Sending /\ sending'[m].at = clock'
      <4>1. clock' \in Nat
        BY <3>1 DEF TypeOK
      <4> QED  BY <2>1, <3>2, <4>1 DEF Sending
    <3> QED  BY <1>8, <2>1, <2>2, <3>1, <3>3, NothingAssumption
  <2>4. CASE UNCHANGED <<clock, posted>> /\ sending' = [sending EXCEPT ![m].state = "refused"]
    <3>1. sending'[m] = [sending[m] EXCEPT !.state = "refused"]
      BY <2>4 DEF TypeOK
    <3>2. sending'[m] \in Sending /\ sending'[m].at = sending[m].at
      BY <2>1, <3>1 DEF Sending
    <3>3. posted' <= clock'
      BY <2>4 DEF ToldInv, InThePast
    <3> QED  BY <1>8, <2>1, <2>2, <2>4, <3>2, <3>3, NothingAssumption
  <2> QED  BY <1>9, <2>3, <2>4 DEF Execute
<1>10. CASE Elsewhere
  <2>1. clock' = clock + 1 /\ posted' <= clock' /\ UNCHANGED <<area, cache, fetch, overdue, told, sending>>
    BY <1>10 DEF Elsewhere, Changed, ToldInv, InThePast, TypeOK
  <2> QED  BY <1>8, <2>1
<1>11. ASSUME NEW q \in area.queries, Receive(q)
       PROVE  ToldInv'
  <2>1. /\ UNCHANGED <<area, user, clock, posted, told, announced, switched>>
        /\ fetch[q] \in Fetch /\ fetch[q] # Nothing
    BY <1>11, Receiving DEF Receive
  <2>2. PICK e \in Entry : /\ Received(q, e)
                          /\ \/ fetch[q].answered /\ e.has /\ ~e.failed /\ e.at = fetch[q].at
                             \/ e.failed
    BY <1>11, Receiving
  <2> DEFINE c == [cache EXCEPT ![q] = e]  f == [fetch EXCEPT ![q] = Nothing]
  <2>3. c \in [area.queries -> Entry] /\ f \in [area.queries -> Fetch \cup {Nothing}]
    BY DEF TypeOK
  <2>4. /\ c[q] = e /\ f[q] = Nothing
        /\ \A r \in area.queries \ {q} : c[r] = cache[r] /\ f[r] = fetch[r]
    BY DEF TypeOK
  <2>5. End(screen, c, f, sending, {}) /\ overdue = overdue \cup {}
    BY <2>2 DEF Received
  <2>6. sending \in [area.writes -> Sending \cup {Nothing}]
    BY DEF TypeOK
  <2> HIDE DEF c, f
  <2>7. ASSUME NEW r \in area.queries
        PROVE  /\ c[r].has /\ ~c[r].failed => \/ c[r].at >= told'[r] \/ f[r] # Nothing
                                              \/ Api[r].tags \cap overdue # {}
               /\ f[r] # Nothing /\ f[r].answered => \/ f[r].at >= told'[r]
                                                     \/ Api[r].tags \cap overdue # {}
    <3>1. CASE r = q
      BY <2>1, <2>2, <2>4, <3>1 DEF ToldInv, Promised, Due
    <3>2. CASE r # q
      BY <2>1, <2>4, <3>2 DEF ToldInv, Promised, Due
    <3> QED  BY <3>1, <3>2
  <2>8. Promised' /\ Settling'
    BY <2>1, <2>3, <2>5, <2>6, <2>7, EndedTold
  <2>9. InThePast'
    <3>1. Keeps(sending)
      BY <2>5, Ended
    <3>2. \A m \in area.writes : sending'[m] # Nothing => sending[m] # Nothing /\ sending'[m].at = sending[m].at
      BY <2>6, <3>1, KeptType
    <3> QED  BY <2>1, <3>2 DEF ToldInv, InThePast
  <2> QED  BY <2>8, <2>9 DEF ToldInv
<1>12. ASSUME NEW m \in area.writes, Answer(m)
       PROVE  ToldInv'
  <2> DEFINE sent == [sending EXCEPT ![m] = Nothing]  tags == Api[m].tags  due == overdue \cup tags
             at == sending[m].at
  <2>1. UNCHANGED <<area, user, clock, posted, announced, switched>> /\ told' = Hears(m, at) /\ sending[m] # Nothing
    BY <1>12 DEF Answer
  <2>2. PICK s : End(s, cache, fetch, sent, tags)
    BY <1>12 DEF Answer
  <2>3. sent \in [area.writes -> Sending \cup {Nothing}] /\ at \in Nat /\ at <= clock
    BY <2>1 DEF TypeOK, Sending, ToldInv, InThePast
  <2>4. \A r \in area.queries : \/ told'[r] = told[r]
                                \/ told'[r] = at /\ Shows(r, m) /\ ~Aging(m, r)
    BY <2>1 DEF Hears
  <2>5. cache \in [area.queries -> Entry] /\ fetch \in [area.queries -> Fetch \cup {Nothing}]
    BY DEF TypeOK
  <2>6. ASSUME NEW r \in area.queries
        PROVE  /\ cache[r].has /\ ~cache[r].failed => \/ cache[r].at >= told'[r] \/ fetch[r] # Nothing
                                                      \/ Api[r].tags \cap due # {}
               /\ fetch[r] # Nothing /\ fetch[r].answered => \/ fetch[r].at >= told'[r]
                                                             \/ Api[r].tags \cap due # {}
    <3>1. CASE told'[r] = told[r]
      BY <3>1 DEF ToldInv, Promised, Due
    <3>2. CASE Shows(r, m) /\ ~Aging(m, r)
      <4>1. Api[r].tags \cap tags # {}
        BY <1>0, <3>2, TagsCover
      <4> QED  BY <4>1
    <3> QED  BY <2>4, <3>1, <3>2
  <2> HIDE DEF sent, tags, due
  <2>7. Promised' /\ Settling'
    <3>1. due = overdue \cup tags
      BY DEF due
    <3> QED  BY <2>1, <2>2, <2>3, <2>5, <2>6, <3>1, EndedTold
  <2>8. InThePast'
    <3>1. Keeps(sent)
      BY <2>2, Ended
    <3>2. \A n \in area.writes : sending'[n] # Nothing => sent[n] # Nothing /\ sending'[n].at = sent[n].at
      BY <2>3, <3>1, KeptType
    <3>3. \A n \in area.writes : sent[n] # Nothing => sent[n] = sending[n]
      BY DEF sent, TypeOK
    <3>4. \A n \in area.writes : sending'[n] # Nothing => sending[n] # Nothing /\ sending'[n].at = sending[n].at
      BY <3>2, <3>3
    <3>5. \A r \in area.queries : told'[r] <= clock
      BY <2>3, <2>4 DEF ToldInv, InThePast
    <3> QED  BY <2>1, <3>4, <3>5 DEF ToldInv, InThePast
  <2> QED  BY <2>7, <2>8 DEF ToldInv
<1>13. CASE Announced
  <2>1. user' \in Users \cup {Nothing}
    BY <1>13, Announcing DEF TypeOK
  <2> QED  BY <1>13, <2>1, Announcing, RenderedTold
<1> QED
  BY <1>1, <1>2, <1>3, <1>4, <1>5, <1>6, <1>7, <1>9, <1>10, <1>11, <1>12, <1>13 DEF Next

\* With no request under way, a page whose last request did not fail shows
\* whatever this tab's own requests changed, for all endpoints but Aging's: an
\* invalidation that had to wait, and an answer that was asked for before the
\* change, both end in a fetch that was answered after it. That it shows what
\* was announced to it is not so (ThreadIsLive).
THEOREM OwnChangesAreShown == Spec => []OwnChangesShown
<1>1. Init => ToldInv
  <2>1. ~Empty.has
    BY DEF Empty
  <2>2. Init => Promised /\ Settling
    BY <2>1 DEF Init, Promised, Settling
  <2>3. Init => InThePast
    BY DEF Init, InThePast
  <2> QED  BY <2>2, <2>3 DEF ToldInv
<1>2. TypeOK /\ ToldInv /\ [Next]_vars => ToldInv'
  <2>1. ASSUME ToldInv, UNCHANGED vars PROVE ToldInv'
    BY <2>1 DEF ToldInv, Promised, Due, Settling, InThePast, vars
  <2> QED  BY <2>1, ToldStep
<1>3. ToldInv => OwnChangesShown
  <2>1. \A q \in Showing : q \in area.queries
    BY DEF Showing, Mounted
  <2> QED  BY <2>1 DEF ToldInv, Promised, Settling, Due, OwnChangesShown, Settled
<1> QED  BY <1>1, <1>2, <1>3, TypeCorrect, PTL DEF Spec
=============================================================================
