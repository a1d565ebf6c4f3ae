------------------------------ MODULE Sessions ------------------------------
(***************************************************************************)
(* Refresh sessions (auth.service, auth.controller) and the browser that   *)
(* shares one cookie between tabs (authApi, AuthInitializer, AppLayout).   *)
(*                                                                         *)
(* A session and its tokens form a family; the i-th token of family f is   *)
(* <<f, i>>. Every decision of the server is one transaction under the     *)
(* family's row lock. What is read before the lock, the family of the      *)
(* token, never changes, so it needs no step of its own.                   *)
(***************************************************************************)
EXTENDS Integers, FiniteSets

CONSTANTS
  Tabs,
  Families,     \* sign-ins, in the order 1, 2, ...
  MaxTokens,    \* bound: tokens of a family
  MaxAdrift,    \* bound: requests nobody waits for
  None,         \* no token, no sign-in
  Faults        \* what may go wrong: "unavailable", "lost", "expiry"

ASSUME SessionsAssumption ==
  /\ MaxTokens \in Nat \ {0} /\ MaxAdrift \in Nat /\ Families \subseteq Nat /\ None \notin Families \X (1 .. MaxTokens)
  /\ Faults \subseteq {"unavailable", "lost", "expiry"}

VARIABLES
  issued,      \* tokens given out by a family; 0 before its sign-in
  consumed,    \* tokens that were exchanged
  revoked,     \* why a family was revoked, "no" if it was not
  expired,     \* families past their seven days
  cookie,      \* the browser's refresh cookie
  ready,       \* a tab knows who it is (isAuthReady)
  access,      \* a tab has an access token
  request,     \* a tab's requests, by endpoint
  adrift,      \* refresh and logout requests nobody waits for any more
  unlucky      \* history: families with a token presented twice, or lost

serverVars  == <<issued, consumed, revoked, expired>>
browserVars == <<cookie, ready, access>>
vars == <<serverVars, browserVars, request, adrift, unlucky>>

Tokens == Families \X (1 .. MaxTokens)
Issued == {k \in Tokens : k[2] <= issued[k[1]]}
Kinds  == {"refresh", "login", "logout"}

Request == [pc : {"none", "sent", "done"}, token : Tokens \cup {None},
            ok : BOOLEAN, grant : Tokens \cup {None}]
NoRequest == [pc |-> "none", token |-> None, ok |-> FALSE, grant |-> None]
Sent(k)   == [NoRequest EXCEPT !.pc = "sent", !.token = k]

Init ==
  /\ issued = [f \in Families |-> 0] /\ consumed = {} /\ expired = {}
  /\ revoked = [f \in Families |-> "no"]
  /\ cookie = None
  /\ ready = [t \in Tabs |-> FALSE] /\ access = [t \in Tabs |-> FALSE]
  /\ request = [t \in Tabs |-> [k \in Kinds |-> IF k = "refresh" THEN Sent(None) ELSE NoRequest]]
  /\ adrift = {} /\ unlucky = {}

-----------------------------------------------------------------------------
(* The server.                                                             *)

Alive(f) == revoked[f] = "no" /\ f \notin expired

\* Rotation, with the family locked and read again: it succeeds for a token
\* of a live family that was not exchanged before.
RotatesUnread(k) ==               \* mutant: the family is not read again
  k # None /\ k \notin consumed
Rotates(k) == k # None /\ Alive(k[1]) /\ k \notin consumed

ReplaceKeeps(k) ==                \* mutant: the old token is not consumed
  /\ Rotates(k) /\ issued[k[1]] < MaxTokens
  /\ issued' = [issued EXCEPT ![k[1]] = @ + 1]
  /\ UNCHANGED <<consumed, revoked, expired>>
Replace(k) ==
  /\ Rotates(k) /\ issued[k[1]] < MaxTokens
  /\ issued' = [issued EXCEPT ![k[1]] = @ + 1]
  /\ consumed' = consumed \cup {k}
  /\ UNCHANGED <<revoked, expired>>

\* A consumed token revokes its family, in a transaction that commits.
Denies(k) ==
  /\ ~Rotates(k)
  /\ revoked' = IF k # None /\ Alive(k[1])
                THEN [revoked EXCEPT ![k[1]] = "REUSE_DETECTED"] ELSE revoked
  /\ UNCHANGED <<issued, consumed, expired>>

\* Logout revokes the family of whichever of its tokens is presented.
RevokeHead(k) ==                  \* mutant: a consumed token is not looked up
  /\ revoked' = IF k # None /\ k \notin consumed /\ revoked[k[1]] = "no"
                THEN [revoked EXCEPT ![k[1]] = "LOGOUT"] ELSE revoked
  /\ UNCHANGED <<issued, consumed, expired>>
Revoke(k) ==
  /\ revoked' = IF k # None /\ revoked[k[1]] = "no"
                THEN [revoked EXCEPT ![k[1]] = "LOGOUT"] ELSE revoked
  /\ UNCHANGED <<issued, consumed, expired>>

\* Login and registration begin a family of their own.
NextFamily(f) == issued[f] = 0 /\ \A g \in Families : g < f => issued[g] > 0
NewFamily(f) ==
  /\ NextFamily(f) /\ issued' = [issued EXCEPT ![f] = 1]
  /\ UNCHANGED <<consumed, revoked, expired>>

Answer(t, kind, ok, grant) ==
  /\ request' = [request EXCEPT ![t][kind] =
                   [pc |-> "done", token |-> IF ok THEN @.token ELSE None,
                    ok |-> ok, grant |-> grant]]
  /\ UNCHANGED <<browserVars, adrift, unlucky>>

Refresh(t) == LET k == request[t]["refresh"].token IN
  /\ request[t]["refresh"].pc = "sent"
  /\ \/ Replace(k) /\ Answer(t, "refresh", TRUE, <<k[1], issued[k[1]] + 1>>)
     \/ Denies(k) /\ Answer(t, "refresh", FALSE, None)

Login(t) == \E f \in Families :
  /\ request[t]["login"].pc = "sent" /\ NewFamily(f)
  /\ Answer(t, "login", TRUE, <<f, 1>>)

Logout(t) ==
  /\ request[t]["logout"].pc = "sent" /\ Revoke(request[t]["logout"].token)
  /\ Answer(t, "logout", TRUE, None)

\* The server gets to a request after its tab has given it up.
ServeAdrift == \E q \in adrift :
  /\ adrift' = adrift \ {q}
  /\ IF q.kind = "logout" THEN Revoke(q.token) ELSE Replace(q.token) \/ Denies(q.token)
  /\ UNCHANGED <<browserVars, request, unlucky>>

\* Seven days pass. (A family that is revoked is dead already.)
Expire(f) ==
  /\ "expiry" \in Faults /\ issued[f] > 0 /\ Alive(f)
  /\ expired' = expired \cup {f}
  /\ cookie' = IF cookie # None /\ cookie[1] = f THEN None ELSE cookie
  /\ UNCHANGED <<issued, consumed, revoked, ready, access, request, adrift, unlucky>>

-----------------------------------------------------------------------------
(* The browser.                                                            *)

\* A refresh with this token is under way, wherever its answer is.
UnderWay(k) == \/ \E t \in Tabs : request[t]["refresh"].pc # "none" /\ request[t]["refresh"].token = k
               \/ [kind |-> "refresh", token |-> k] \in adrift

Idle(t) == \A kind \in Kinds : request[t][kind].pc = "none"

\* A page is loaded: its AuthInitializer sends one refresh with the cookie.
\* (A page left earlier than this loses its answers first.)
Load(t) ==
  /\ ready[t] /\ Idle(t)
  /\ ready' = [ready EXCEPT ![t] = FALSE] /\ access' = [access EXCEPT ![t] = FALSE]
  /\ request' = [request EXCEPT ![t]["refresh"] = Sent(cookie)]
  /\ unlucky' = IF cookie # None /\ UnderWay(cookie) THEN unlucky \cup {cookie[1]} ELSE unlucky
  /\ UNCHANGED <<serverVars, cookie, adrift>>

\* The login page is there before the initial refresh is answered.
SignIn(t) ==
  /\ ~access[t] /\ request[t]["login"].pc = "none"
  /\ request' = [request EXCEPT ![t]["login"] = Sent(None)]
  /\ UNCHANGED <<serverVars, browserVars, adrift, unlucky>>

SignOut(t) ==
  /\ ready[t] /\ access[t] /\ request[t]["logout"].pc = "none"
  /\ request' = [request EXCEPT ![t]["logout"] = Sent(cookie)]
  /\ UNCHANGED <<serverVars, browserVars, adrift, unlucky>>

\* Cookies of an expired session have no age left.
SetCookieStale(k) ==              \* mutant: rotation does not replace the cookie
  cookie' = IF k[2] > 1 THEN cookie ELSE k
SetCookie(k) == cookie' = IF k[1] \in expired THEN None ELSE k

End(t, kind) == request' = [request EXCEPT ![t][kind] = NoRequest]
Settle(t, kind) ==                \* what the page does with a failure
  /\ access' = IF kind = "login" THEN access ELSE [access EXCEPT ![t] = FALSE]
  /\ ready' = IF kind = "refresh" THEN [ready EXCEPT ![t] = TRUE] ELSE ready

Receive(t, kind) == LET r == request[t][kind] IN
  /\ r.pc = "done" /\ End(t, kind)
  /\ IF r.grant # None
     THEN /\ SetCookie(r.grant)
          /\ access' = [access EXCEPT ![t] = TRUE]
          /\ ready' = IF kind = "refresh" THEN [ready EXCEPT ![t] = TRUE] ELSE ready
     ELSE /\ Settle(t, kind)
          /\ cookie' = IF kind = "logout" /\ r.ok THEN None ELSE cookie
  /\ UNCHANGED <<serverVars, adrift, unlucky>>

\* The answer is lost or late, or the page is left: the page goes on as after
\* a failure, and the server may still get to the request.
GiveUp(t, kind) == LET r == request[t][kind] IN
  /\ "lost" \in Faults /\ r.pc # "none" /\ End(t, kind) /\ Settle(t, kind)
  /\ adrift' = IF r.pc = "sent" /\ r.token # None /\ Cardinality(adrift) < MaxAdrift
               THEN adrift \cup {[kind |-> kind, token |-> r.token]} ELSE adrift
  /\ unlucky' = IF kind = "refresh" /\ r.token # None THEN unlucky \cup {r.token[1]} ELSE unlucky
  /\ UNCHANGED <<serverVars, cookie>>

\* The credentials are wrong, or the database is unavailable: nothing changed.
Refused(t, kind) ==
  /\ "unavailable" \in Faults /\ request[t][kind].pc = "sent"
  /\ End(t, kind) /\ Settle(t, kind)
  /\ UNCHANGED <<serverVars, cookie, adrift, unlucky>>

-----------------------------------------------------------------------------
Serve(t) == Refresh(t) \/ Login(t) \/ Logout(t)
Page(t)  == Load(t) \/ SignIn(t) \/ SignOut(t)

Next ==
  \/ \E t \in Tabs : Serve(t) \/ Page(t)
  \/ \E t \in Tabs, kind \in Kinds : Refused(t, kind) \/ Receive(t, kind) \/ GiveUp(t, kind)
  \/ ServeAdrift
  \/ \E f \in Families : Expire(f)

Spec == Init /\ [][Next]_vars

-----------------------------------------------------------------------------
TypeOK ==
  /\ issued \in [Families -> 0 .. MaxTokens] /\ consumed \subseteq Tokens
  /\ revoked \in [Families -> {"no", "LOGOUT", "REUSE_DETECTED"}] /\ expired \subseteq Families
  /\ cookie \in Tokens \cup {None}
  /\ ready \in [Tabs -> BOOLEAN] /\ access \in [Tabs -> BOOLEAN]
  /\ request \in [Tabs -> [Kinds -> Request]]
  /\ adrift \subseteq [kind : {"refresh", "logout"}, token : Tokens]
  /\ unlucky \subseteq Families

\* Of a family only the newest token can still be exchanged (rotation and its
\* replacement are one transaction).
OneLiveToken == \A k \in Issued : k \in consumed <=> k[2] < issued[k[1]]

\* A family is revoked for reuse only if one of its tokens was presented again
\* while an exchange of it was under way, or an answer to one was lost: tabs
\* that refresh one after the other never sign the user out.
ReuseHasACause == \A f \in Families : revoked[f] = "REUSE_DETECTED" => f \in unlucky

\* A logout answered with success ended the session, also when a rotation
\* overtook it and the token it carries is an old one.
LogoutEnds == \A t \in Tabs : LET r == request[t]["logout"] IN
  r.pc = "done" /\ r.ok /\ r.token # None => revoked[r.token[1]] # "no"

\* The families are chains of single-use credentials.
Chain == INSTANCE TokenChain WITH
  Serials <- 1 .. MaxTokens,
  good  <- {k \in Issued \ consumed : k[1] \notin expired /\ revoked[k[1]] = "no"},
  past  <- Issued,
  ended <- expired \cup {f \in Families : revoked[f] # "no"}
ImplementsTokenChain == Chain!Spec
=============================================================================
