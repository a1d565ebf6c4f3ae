------------------------------- MODULE Client -------------------------------
(***************************************************************************)
(* One browser tab of the web client: the pages a user goes to, the cache  *)
(* of answers they show, the requests under way, and who is signed in. The *)
(* rules of the cache are the library's (RTK Query with its defaults): a   *)
(* component that is mounted fetches what it reads unless there is data; a *)
(* finished mutation, also a failed one, invalidates its tags, but not     *)
(* before every pending request has ended; an invalidated entry is fetched *)
(* again where it is shown and dropped where it is not; and asking again   *)
(* for what is being fetched does nothing.                                 *)
(***************************************************************************)
EXTENDS Naturals, ClientTables

CONSTANTS
  Users,
  Areas,       \* what a behaviour keeps to: the screens gone to, the endpoints called, who
               \* signs in, and what may go wrong: "refused" requests, "back" to the login page
  MaxChanges,  \* bound: changes of the server's data
  Nothing

ASSUME ClientAssumption ==
  /\ \A a \in Areas : /\ a.screens \subseteq DOMAIN Screens
                      /\ a.queries \subseteq Queries /\ a.writes \subseteq Mutations
                      /\ a.users \subseteq Users /\ a.faults \subseteq {"refused", "back"}
  /\ MaxChanges \in Nat /\ Nothing \notin Users

VARIABLES
  area,      \* the part of the client this behaviour keeps to
  user,      \* whose credentials the tab holds
  screen,
  cache,     \* of a query: whether it has data, as of which change, fetched by whom, and
             \* whether its last request failed
  fetch,     \* a query's request under way: as of which change it was answered
  sending,   \* a mutation's request under way: the change it made, and whether a mounted
             \* component still waits for it (the library counts no other as pending)
  overdue,   \* tags whose invalidation waits for the pending requests
  clock,     \* changes of the server's data so far
  posted,    \* the newest change of the thread
  told,      \* history: the newest own change of a query's facts whose end the tab was told of
  announced, \* history: the newest message announced to the thread while it was on the screen
  switched   \* history: somebody signed in over another one's session

vars == <<area, user, screen, cache, fetch, sending, overdue, clock, posted, told, announced, switched>>

Entry   == [has : BOOLEAN, at : Nat, by : Users \cup {Nothing}, failed : BOOLEAN]
Fetch   == [answered : BOOLEAN, at : Nat, by : Users \cup {Nothing}]
Sending == [state : {"sent", "done", "refused"}, at : Nat, counted : BOOLEAN]
\* Nothing stands for a request that is not there.
ASSUME NothingAssumption == Nothing \notin Fetch /\ Nothing \notin Sending

Empty == [has |-> FALSE, at |-> 0, by |-> Nothing, failed |-> FALSE]
Asked == [answered |-> FALSE, at |-> 0, by |-> user']
Sent  == [state |-> "sent", at |-> 0, counted |-> TRUE]

\* The tab is loaded and nobody is signed in (Sessions has the reload).
Init ==
  /\ area \in Areas /\ user = Nothing /\ screen = "login"
  /\ cache = [q \in area.queries |-> Empty] /\ fetch = [q \in area.queries |-> Nothing]
  /\ sending = [m \in area.writes |-> Nothing] /\ overdue = {}
  /\ clock = 0 /\ posted = 0 /\ told = [q \in area.queries |-> 0] /\ announced = 0 /\ switched = FALSE

-----------------------------------------------------------------------------
(* What is mounted, given a screen, a cache and the requests under way.    *)

\* A ticket whose request failed is not shown, even if there is older data.
Loaded(q, c, f) == q \in area.queries =>
  c[q].has /\ (q = "getTicket" => ~c[q].failed \/ f[q] # Nothing)

Parts(s, c, f)   == {p \in Screens[s] : \A q \in p.needs : Loaded(q, c, f)}
Mounted(s, c, f) == area.queries \cap UNION {p.reads : p \in Parts(s, c, f)}
Offers(s, c, f)  == area.writes \cap UNION {p.sends : p \in Parts(s, c, f)}
Polled(s, c, f)  == area.queries \cap UNION {p.polls : p \in Parts(s, c, f)}

Showing == Mounted(screen, cache, fetch)

\* Requests for Q, but not for what is being fetched.
Ask(f, Q) == [q \in area.queries |-> IF q \in Q /\ f[q] = Nothing THEN Asked ELSE f[q]]

\* The page is rendered after a change: what is mounted now and was not before
\* is fetched unless there is data, and what is gone waits for no mutation.
Render(s, c, f, sent) ==
  /\ screen' = s /\ cache' = c
  /\ fetch' = Ask(f, {q \in Mounted(s, c, f) \ Showing : ~c[q].has})
  /\ sending' = [m \in area.writes |->
       IF sent[m] = Nothing \/ m \in Offers(s, c, f) THEN sent[m]
       ELSE [sent[m] EXCEPT !.counted = FALSE]]

Pending(f, sent) == \/ \E q \in area.queries : f[q] # Nothing
                    \/ \E m \in area.writes : sent[m] # Nothing /\ sent[m].counted

\* A request has ended, with tags to invalidate besides the overdue ones.
End(s, c, f, sent, tags) == LET due == overdue \cup tags
                                hit == {q \in area.queries : (c[q].has \/ c[q].failed) /\ Api[q].tags \cap due # {}} IN
  IF Pending(f, sent) THEN overdue' = due /\ Render(s, c, f, sent)
  ELSE /\ overdue' = {}
       /\ Render(s, [q \in area.queries |-> IF q \in hit \ Showing THEN Empty ELSE c[q]],
                 Ask(f, hit \cap Showing), sent)

Went(s) == Render(s, cache, fetch, sending)

-----------------------------------------------------------------------------
(* The user.                                                               *)

\* ProtectedRoute lets in who holds a token.
Go(s) ==
  /\ user # Nothing /\ s \in area.screens \cup {"dashboard"} /\ s # screen
  /\ UNCHANGED <<area, user, overdue, clock, posted, told, announced, switched>>
  /\ Went(s)

\* The login page is open to everybody: Back leads a signed-in user there.
GoBack ==
  /\ "back" \in area.faults /\ user # Nothing /\ screen # "login"
  /\ UNCHANGED <<area, user, overdue, clock, posted, told, announced, switched>>
  /\ Went("login")

\* setCredentials and nothing else; then to the dashboard.
SignIn(u) ==
  /\ screen = "login" /\ user' = u
  /\ switched' = (switched \/ user \notin {u, Nothing})
  /\ Went("dashboard")
  /\ UNCHANGED <<area, overdue, clock, posted, told, announced>>

\* Whatever the server answered. resetApiState forgets entries and requests;
\* the mutations under way go on, with nobody waiting.
Kept(c)      == c                 \* mutant: the cache outlives its user
Forgotten(c) == [q \in area.queries |-> Empty]
SignOut ==
  /\ user # Nothing /\ screen # "login" /\ user' = Nothing
  /\ screen' = "login" /\ cache' = Forgotten(cache)
  /\ fetch' = [q \in area.queries |-> Nothing]
  /\ sending' = [m \in area.writes |-> IF sending[m] = Nothing THEN Nothing
                                       ELSE [sending[m] EXCEPT !.counted = FALSE]]
  /\ UNCHANGED <<area, overdue, clock, posted, told, announced, switched>>

\* A control is disabled while its request is pending. One request of a kind
\* is under way at a time, also after its component is gone (a bound).
Send(m) ==
  /\ m \in Offers(screen, cache, fetch) /\ sending[m] = Nothing
  /\ sending' = [sending EXCEPT ![m] = Sent]
  /\ UNCHANGED <<area, user, screen, cache, fetch, overdue, clock, posted, told, announced, switched>>

\* A poll comes round, or the user presses Retry.
Refetch(q) ==
  /\ \/ q \in Polled(screen, cache, fetch)
     \/ q = "getTicket" /\ q \in Showing /\ cache[q].failed
  /\ fetch[q] = Nothing
  /\ UNCHANGED <<area, user, overdue, clock, posted, told, announced, switched>>
  /\ Render(screen, cache, Ask(fetch, {q}), sending)

\* Data that nothing shows is dropped after a minute.
Expire(q) ==
  /\ q \notin Showing /\ fetch[q] = Nothing /\ cache[q] # Empty
  /\ cache' = [cache EXCEPT ![q] = Empty]
  /\ UNCHANGED <<area, user, screen, fetch, sending, overdue, clock, posted, told, announced, switched>>

-----------------------------------------------------------------------------
(* The server: requests are carried out one at a time, in any order.       *)

Changed(facts) ==
  /\ clock < MaxChanges /\ clock' = clock + 1
  /\ posted' = IF "thread" \in facts THEN clock' ELSE posted

Serve(q) ==
  /\ fetch[q] # Nothing /\ ~fetch[q].answered
  /\ fetch' = [fetch EXCEPT ![q].answered = TRUE, ![q].at = clock]
  /\ UNCHANGED <<area, user, screen, cache, sending, overdue, clock, posted, told, announced, switched>>

Execute(m) ==
  /\ sending[m] # Nothing /\ sending[m].state = "sent"
  /\ \/ /\ Changed(Api[m].facts)
        /\ sending' = [sending EXCEPT ![m].state = "done", ![m].at = clock']
     \/ /\ "refused" \in area.faults /\ sending' = [sending EXCEPT ![m].state = "refused"]
        /\ UNCHANGED <<clock, posted>>
  /\ UNCHANGED <<area, user, screen, cache, fetch, overdue, told, announced, switched>>

\* Somebody else writes into the thread.
Elsewhere ==
  /\ "listMessages" \in area.queries /\ Changed({"thread"})
  /\ UNCHANGED <<area, user, screen, cache, fetch, sending, overdue, told, announced, switched>>

-----------------------------------------------------------------------------
(* Answers and announcements reach the tab.                                *)

Receive(q) ==
  /\ fetch[q] # Nothing
  /\ UNCHANGED <<area, user, clock, posted, told, announced, switched>>
  /\ LET f == [fetch EXCEPT ![q] = Nothing] IN
     \/ /\ fetch[q].answered
        /\ End(screen, [cache EXCEPT ![q] = [has |-> TRUE, at |-> fetch[q].at, by |-> fetch[q].by,
                                             failed |-> FALSE]], f, sending, {})
     \/ "refused" \in area.faults /\ End(screen, [cache EXCEPT ![q].failed = TRUE], f, sending, {})

\* What the client leaves to age: nothing refreshes the activity; the dashboard
\* follows runs and issues only; a role's change is shown in the member lists,
\* not on what the member held; a publication not on the source health.
Aging(m, q) ==
  \/ q = "listTicketActivity"
  \/ q = "getOrganizationDashboard" /\ Api[m].facts \cap {"runs", "issues"} = {}
  \/ m \in {"updateMemberRole", "removeMember"} /\ "members" \notin Api[q].facts
  \/ q = "qualitySources" /\ "runs" \notin Api[m].facts

Hears(m, at) == [q \in area.queries |-> IF at # 0 /\ Shows(q, m) /\ ~Aging(m, q) /\ told[q] < at
                                        THEN at ELSE told[q]]

\* The answer, or the news that it was lost: both invalidate. A new ticket is
\* gone to, wherever the user is by then.
Answer(m) ==
  /\ sending[m] # Nothing /\ sending[m].state # "sent"
  /\ UNCHANGED <<area, user, clock, posted, announced, switched>>
  /\ told' = Hears(m, sending[m].at)
  /\ \E s \in {screen} \cup (IF m = "createTicket" /\ user # Nothing /\ sending[m].state = "done"
                             THEN {"ticket"} ELSE {}) :
        End(s, cache, fetch, [sending EXCEPT ![m] = Nothing], Api[m].tags)

\* The socket tells of a message, and the thread is fetched; not if it is being
\* so, and nobody asks again when that fetch, answered before the message, ends.
Announced ==
  /\ "listMessages" \in Showing /\ posted # 0
  /\ UNCHANGED <<area, user, overdue, clock, posted, told, switched>>
  /\ announced' = posted
  /\ Render(screen, cache, Ask(fetch, {"listMessages"}), sending)

Next ==
  \/ \E s \in DOMAIN Screens \ {"login"} : Go(s)
  \/ \E u \in area.users : SignIn(u)
  \/ GoBack \/ SignOut \/ Elsewhere \/ Announced
  \/ \E m \in area.writes : Send(m) \/ Execute(m) \/ Answer(m)
  \/ \E q \in area.queries : Refetch(q) \/ Expire(q) \/ Serve(q) \/ Receive(q)

Spec == Init /\ [][Next]_vars

-----------------------------------------------------------------------------
Settled == (\A q \in area.queries : fetch[q] = Nothing) /\ (\A m \in area.writes : sending[m] = Nothing)

\* With no request under way, a page whose last request did not fail shows what
\* this tab's own requests changed, the lost answers among them, whatever was
\* pending, cached, unmounted or announced in between: for all endpoints but the
\* pairs of Aging, which the client's tags do not connect.
OwnChangesShown ==
  Settled => \A q \in Showing : cache[q].has /\ ~cache[q].failed => cache[q].at >= told[q]

\* The thread is "Live", "with real-time updates" (MessageThread.tsx:69 and 73):
\* with no request under way it shows every message announced to it. It need
\* not: an announcement during a fetch answered before the message is lost.
ThreadIsLive ==
  Settled /\ "listMessages" \in Showing /\ cache["listMessages"].has /\ ~cache["listMessages"].failed
  => cache["listMessages"].at >= announced

\* Nobody is shown what was fetched for another user, unless he signed in over
\* that user's session: an answer that comes after a sign-out is forgotten.
ShownIsOwn == ~switched => \A q \in Showing : cache[q].has => cache[q].by = user
=============================================================================
