--------------------------- MODULE SessionsProofs ---------------------------
(***************************************************************************)
(* Refresh sessions for any number of tabs, sign-ins and tokens: one live  *)
(* token, what a revocation for reuse has as its cause, what a logout ends, *)
(* and the chain of single-use credentials the sessions implement.         *)
(*                                                                         *)
(* That reuse has a cause needs where the tokens of a family are: as long  *)
(* as no answer was lost and no token was sent twice, the unexchanged one  *)
(* is in one place, and the cookie holds an exchanged one only while the   *)
(* answer that replaces it is on its way.                                  *)
(***************************************************************************)
EXTENDS Sessions, TLAPS

\* A request: its tokens were given out, a refresh that keeps its token was
\* granted the next of the family, and only answers grant anything.
WellFormed(kind, r) ==
  /\ r.token # None => r.token \in Issued
  /\ r.grant # None => r.grant \in Issued
  /\ kind = "refresh" => /\ r.pc = "done" /\ r.token # None => r.grant # None /\ r.grant[1] = r.token[1]
                         /\ r.grant # None => r.pc = "done" /\ r.token # None
  /\ kind = "login" => r.token = None /\ (r.grant # None => r.pc = "done")
  /\ kind = "logout" => r.grant = None
  /\ r.pc = "none" => r.token = None

WellFormedAll == \A t \in Tabs, kind \in Kinds : WellFormed(kind, request[t][kind])

\* Whatever token is anywhere was given out by its family.
Form == /\ consumed \subseteq Issued /\ (cookie # None => cookie \in Issued)
        /\ \A q \in adrift : q.token \in Issued
        /\ WellFormedAll

\* A refresh of family f is between its sending and the page; a sign-in that
\* began it is on its way to one.
Refreshing(t, f) == request[t]["refresh"].token # None /\ request[t]["refresh"].token[1] = f
SignedIn(t, f)   == request[t]["login"].grant # None /\ request[t]["login"].grant[1] = f

\* Where the tokens of a family are to which nothing happened.
NoneAdrift(f) == \A q \in adrift : q.kind = "refresh" => q.token[1] # f
OneRefresh(f) == \A t, u \in Tabs : Refreshing(t, f) /\ Refreshing(u, f) => t = u
Unspent(f) == \A t \in Tabs : Refreshing(t, f) =>
  LET r == request[t]["refresh"] IN
  /\ r.pc = "sent" => r.token \notin consumed
  /\ r.pc = "done" => r.grant \notin consumed /\ r.grant # cookie
Begun(f) == \A t \in Tabs : SignedIn(t, f) =>
  /\ request[t]["login"].grant \notin consumed
  /\ cookie # None => cookie[1] # f
  /\ \A u \in Tabs : ~Refreshing(u, f) /\ (SignedIn(u, f) => u = t)
Replaced(f) == cookie # None /\ cookie[1] = f /\ cookie \in consumed =>
  \E t \in Tabs : request[t]["refresh"].token = cookie

Ordered(f) == NoneAdrift(f) /\ OneRefresh(f) /\ Unspent(f) /\ Begun(f) /\ Replaced(f)
Placed == \A f \in Families \ unlucky : Ordered(f)

-----------------------------------------------------------------------------
(* One request of one tab changes.                                         *)

Puts(t, kind, r) == request' = [request EXCEPT ![t][kind] = r]

LEMMA Changed ==
  ASSUME request \in [Tabs -> [Kinds -> Request]],
         NEW t \in Tabs, NEW kind \in Kinds, NEW r \in Request, Puts(t, kind, r)
  PROVE  /\ request' \in [Tabs -> [Kinds -> Request]]
         /\ request'[t][kind] = r
         /\ \A u \in Tabs, j \in Kinds : u # t \/ j # kind => request'[u][j] = request[u][j]
  BY DEF Puts

LEMMA RequestsAre ==
  /\ NoRequest \in Request
  /\ \A k \in Tokens \cup {None} : Sent(k) \in Request
  /\ \A k, g \in Tokens \cup {None}, ok \in BOOLEAN :
       [pc |-> "done", token |-> k, ok |-> ok, grant |-> g] \in Request
  BY DEF NoRequest, Sent, Request

LEMMA NoneIsNone == None \notin Tokens /\ Families \subseteq Nat /\ MaxTokens \in Nat \ {0}
  BY SessionsAssumption DEF Tokens

LEMMA KindsAre == Kinds = {"refresh", "login", "logout"}
  BY DEF Kinds

\* An answer: the request is done, and keeps its token if it succeeded.
LEMMA Answers ==
  ASSUME TypeOK, NEW t \in Tabs, NEW kind \in Kinds, NEW ok \in BOOLEAN,
         NEW grant \in Tokens \cup {None}, Answer(t, kind, ok, grant)
  PROVE  /\ Puts(t, kind, [pc |-> "done", ok |-> ok, grant |-> grant,
                           token |-> IF ok THEN request[t][kind].token ELSE None])
         /\ [pc |-> "done", ok |-> ok, grant |-> grant,
             token |-> IF ok THEN request[t][kind].token ELSE None] \in Request
         /\ UNCHANGED <<browserVars, adrift, unlucky>>
<1>1. request[t][kind].token \in Tokens \cup {None}
  BY DEF TypeOK, Request
<1>2. (IF ok THEN request[t][kind].token ELSE None) \in Tokens \cup {None}
  BY <1>1
<1> QED  BY <1>2, RequestsAre DEF Answer, Puts, TypeOK

\* Every step either leaves the requests, or changes one of them.
LEMMA Sends ==
  ASSUME TypeOK, NEW t \in Tabs
  PROVE  /\ Load(t) => Puts(t, "refresh", Sent(cookie)) /\ Sent(cookie) \in Request
         /\ SignIn(t) => Puts(t, "login", Sent(None)) /\ Sent(None) \in Request
         /\ SignOut(t) => Puts(t, "logout", Sent(cookie)) /\ Sent(cookie) \in Request
         /\ \A kind \in Kinds : End(t, kind) => Puts(t, kind, NoRequest) /\ NoRequest \in Request
  BY RequestsAre DEF TypeOK, Load, SignIn, SignOut, End, Puts

-----------------------------------------------------------------------------
(* Types, and that every token was given out by its family.                *)

LEMMA ServerTyped ==
  ASSUME TypeOK, NEW k \in Tokens \cup {None}
  PROVE  /\ Replace(k) \/ Denies(k) \/ Revoke(k) =>
              /\ issued' \in [Families -> 0 .. MaxTokens] /\ consumed' \subseteq Tokens
              /\ revoked' \in [Families -> {"no", "LOGOUT", "REUSE_DETECTED"}]
              /\ expired' \subseteq Families
              /\ Issued \subseteq Issued' /\ (consumed \subseteq Issued => consumed' \subseteq Issued \cup {k})
         /\ Replace(k) => /\ <<k[1], issued[k[1]] + 1>> \in Issued' /\ k[1] \in Families
                          /\ <<k[1], issued[k[1]] + 1>> \notin Issued
<1>1. k # None => k = <<k[1], k[2]>> /\ k[1] \in Families /\ k[2] \in 1 .. MaxTokens
  BY DEF Tokens
<1>2. Replace(k) => k # None /\ issued[k[1]] < MaxTokens /\ issued[k[1]] \in 0 .. MaxTokens
  BY <1>1 DEF Replace, Rotates, TypeOK
<1>3. Replace(k) => issued' \in [Families -> 0 .. MaxTokens] /\ issued'[k[1]] = issued[k[1]] + 1
                    /\ \A f \in Families : issued'[f] >= issued[f]
  BY <1>1, <1>2, NoneIsNone DEF Replace, TypeOK
<1>4. Replace(k) => Issued \subseteq Issued' /\ <<k[1], issued[k[1]] + 1>> \in Issued'
                    /\ <<k[1], issued[k[1]] + 1>> \notin Issued
  <2> SUFFICES ASSUME Replace(k) PROVE
         /\ Issued \subseteq Issued' /\ <<k[1], issued[k[1]] + 1>> \in Issued'
         /\ <<k[1], issued[k[1]] + 1>> \notin Issued
    OBVIOUS
  <2>1. issued \in [Families -> Nat] /\ issued' \in [Families -> Nat]
    BY <1>3, NoneIsNone DEF TypeOK
  <2>2. \A j \in Tokens : j[1] \in Families /\ j[2] \in Nat
    BY DEF Tokens
  <2>3. Issued \subseteq Issued'
    <3> SUFFICES ASSUME NEW j \in Tokens, j[2] <= issued[j[1]] PROVE j[2] <= issued'[j[1]]
      BY DEF Issued
    <3> QED  BY <1>3, <2>1, <2>2
  <2>4. issued[k[1]] + 1 \in 1 .. MaxTokens
    BY <1>2, NoneIsNone
  <2>5. <<k[1], issued[k[1]] + 1>> \in Tokens
    BY <1>1, <1>2, <2>4 DEF Tokens
  <2>6. <<k[1], issued[k[1]] + 1>> \in Issued'
    BY <1>3, <2>4, <2>5 DEF Issued
  <2>7. <<k[1], issued[k[1]] + 1>> \notin Issued
    BY <1>1, <1>2, <2>1 DEF Issued
  <2> QED  BY <2>3, <2>6, <2>7
<1>5. Denies(k) \/ Revoke(k) => revoked' \in [Families -> {"no", "LOGOUT", "REUSE_DETECTED"}]
                                /\ UNCHANGED <<issued, consumed, expired>>
  BY <1>1 DEF Denies, Revoke, TypeOK
<1>6. Denies(k) \/ Revoke(k) => Issued' = Issued
  BY <1>5 DEF Issued
<1>7. Replace(k) => UNCHANGED <<revoked, expired>> /\ consumed' = consumed \cup {k} /\ k \in Tokens
  BY <1>2 DEF Replace
<1> QED  BY <1>1, <1>2, <1>3, <1>4, <1>5, <1>6, <1>7 DEF TypeOK

\* What one request becomes is well-formed.
LEMMA PutKeepsForm ==
  ASSUME TypeOK, WellFormedAll, Issued \subseteq Issued',
         NEW t \in Tabs, NEW kind \in Kinds, NEW r \in Request, Puts(t, kind, r),
         NEW S, S = Issued',
         /\ r.token # None => r.token \in S
         /\ r.grant # None => r.grant \in S
         /\ kind = "refresh" => /\ r.pc = "done" /\ r.token # None => r.grant # None /\ r.grant[1] = r.token[1]
                                /\ r.grant # None => r.pc = "done" /\ r.token # None
         /\ kind = "login" => r.token = None /\ (r.grant # None => r.pc = "done")
         /\ kind = "logout" => r.grant = None
         /\ r.pc = "none" => r.token = None
  PROVE  request' \in [Tabs -> [Kinds -> Request]] /\ WellFormedAll'
<1>1. /\ request' \in [Tabs -> [Kinds -> Request]] /\ request'[t][kind] = r
      /\ \A u \in Tabs, j \in Kinds : u # t \/ j # kind => request'[u][j] = request[u][j]
  BY Changed DEF TypeOK
<1>2. \A u \in Tabs, j \in Kinds : WellFormed(j, request[u][j])'
  <2> SUFFICES ASSUME NEW u \in Tabs, NEW j \in Kinds PROVE WellFormed(j, request[u][j])'
    OBVIOUS
  <2>1. CASE u = t /\ j = kind
    BY <1>1, <2>1 DEF WellFormed
  <2>2. CASE u # t \/ j # kind
    <3>1. request'[u][j] = request[u][j] /\ WellFormed(j, request[u][j])
      BY <1>1, <2>2 DEF WellFormedAll
    <3> QED  BY <3>1 DEF WellFormed
  <2> QED  BY <2>1, <2>2
<1> QED  BY <1>1, <1>2 DEF WellFormedAll

\* The same for a step that leaves the requests.
LEMMA SameKeepsForm ==
  ASSUME WellFormedAll, Issued \subseteq Issued', UNCHANGED request
  PROVE  WellFormedAll'
<1>1. \A u \in Tabs, j \in Kinds : WellFormed(j, request[u][j])'
  BY DEF WellFormedAll, WellFormed
<1> QED  BY <1>1 DEF WellFormedAll

LEMMA InitBasis == Init => TypeOK /\ Form
<1> SUFFICES ASSUME Init PROVE TypeOK /\ Form
  OBVIOUS
<1>1. request \in [Tabs -> [Kinds -> Request]]
  BY RequestsAre DEF Init
<1>2. TypeOK
  BY <1>1, NoneIsNone DEF Init, TypeOK
<1>3. \A t \in Tabs, kind \in Kinds : /\ request[t][kind].token = None /\ request[t][kind].grant = None
                                      /\ request[t][kind].pc \in {"none", "sent"}
  BY DEF Init, Sent, NoRequest
<1>4. WellFormedAll
  BY <1>3 DEF WellFormedAll, WellFormed
<1>5. Form
  BY <1>4 DEF Form, Init
<1> QED  BY <1>2, <1>5

LEMMA RefreshBasis == ASSUME TypeOK, Form, NEW t \in Tabs, Refresh(t) PROVE TypeOK' /\ Form'
<1> DEFINE k == request[t]["refresh"].token
           g == <<k[1], issued[k[1]] + 1>>
<1>1. k \in Tokens \cup {None} /\ "refresh" \in Kinds /\ (k # None => k \in Issued)
  BY KindsAre DEF TypeOK, Request, Form, WellFormedAll, WellFormed
<1>2. CASE Replace(k) /\ Answer(t, "refresh", TRUE, g)
  <2>1. k # None /\ k \in Issued
    BY <1>1, <1>2 DEF Replace, Rotates
  <2>2. g \in Issued' /\ Issued \subseteq Issued' /\ g \in Tokens
    BY <1>1, <1>2, ServerTyped DEF Issued
  <2> DEFINE r == [pc |-> "done", ok |-> TRUE, grant |-> g, token |-> k]
  <2>3. Puts(t, "refresh", r) /\ r \in Request /\ UNCHANGED <<browserVars, adrift, unlucky>>
    BY <1>1, <1>2, <2>2, Answers
  <2>4. r.token = k /\ r.grant = g /\ r.pc = "done" /\ g[1] = k[1] /\ g # None
    BY <2>2, NoneIsNone
  <2>5. request' \in [Tabs -> [Kinds -> Request]] /\ WellFormedAll'
    <3> HIDE DEF r, k, g
    <3> QED  BY <1>1, <2>1, <2>2, <2>3, <2>4, PutKeepsForm DEF Form
  <2> QED  BY <1>1, <1>2, <2>1, <2>2, <2>3, <2>5, ServerTyped DEF TypeOK, Form, browserVars
<1>3. CASE Denies(k) /\ Answer(t, "refresh", FALSE, None)
  <2> DEFINE r == [pc |-> "done", ok |-> FALSE, grant |-> None, token |-> None]
  <2>1. Puts(t, "refresh", r) /\ r \in Request /\ UNCHANGED <<browserVars, adrift, unlucky>>
    BY <1>1, <1>3, Answers
  <2>2. Issued \subseteq Issued' /\ UNCHANGED consumed
    BY <1>1, <1>3, ServerTyped DEF Denies
  <2>3. r.token = None /\ r.grant = None
    OBVIOUS
  <2>4. request' \in [Tabs -> [Kinds -> Request]] /\ WellFormedAll'
    <3> HIDE DEF r
    <3> QED  BY <1>1, <2>1, <2>2, <2>3, PutKeepsForm DEF Form
  <2> QED  BY <1>1, <1>3, <2>1, <2>2, <2>4, ServerTyped DEF TypeOK, Form, browserVars
<1> QED  BY <1>2, <1>3 DEF Refresh

LEMMA NewFamilyTyped ==
  ASSUME TypeOK, NEW f \in Families, NewFamily(f)
  PROVE  /\ issued' \in [Families -> 0 .. MaxTokens]
         /\ Issued \subseteq Issued'
         /\ \A j \in Issued : j[1] # f
         /\ <<f, 1>> \in Issued' /\ <<f, 1>> \in Tokens
         /\ UNCHANGED <<consumed, revoked, expired>>
<1>1. issued \in [Families -> 0 .. MaxTokens] /\ issued[f] = 0 /\ issued' = [issued EXCEPT ![f] = 1]
  BY DEF TypeOK, NewFamily, NextFamily
<1>2. \A g \in Families : issued'[g] >= issued[g] /\ issued[g] \in Nat /\ issued'[g] \in Nat
  BY <1>1, NoneIsNone
<1>3. \A j \in Tokens : j[1] \in Families /\ j[2] \in Nat /\ j[2] >= 1
  BY DEF Tokens
<1>4. Issued \subseteq Issued' /\ \A j \in Issued : j[1] # f
  BY <1>1, <1>2, <1>3 DEF Issued
<1>5. <<f, 1>> \in Tokens /\ issued'[f] = 1
  BY <1>1, NoneIsNone DEF Tokens
<1>6. <<f, 1>> \in Issued'
  BY <1>5 DEF Issued
<1> QED  BY <1>1, <1>4, <1>5, <1>6, NoneIsNone DEF NewFamily

LEMMA LoginBasis == ASSUME TypeOK, Form, NEW t \in Tabs, Login(t) PROVE TypeOK' /\ Form'
<1> PICK f \in Families : NewFamily(f) /\ Answer(t, "login", TRUE, <<f, 1>>)
  BY DEF Login
<1> DEFINE r == [pc |-> "done", ok |-> TRUE, grant |-> <<f, 1>>, token |-> request[t]["login"].token]
<1>1. "login" \in Kinds /\ request[t]["login"].token = None
  BY KindsAre DEF Form, WellFormedAll, WellFormed
<1>2. Puts(t, "login", r) /\ r \in Request /\ UNCHANGED <<browserVars, adrift, unlucky>>
  BY <1>1, NewFamilyTyped, Answers
<1>3. r.token = None /\ r.grant = <<f, 1>> /\ r.pc = "done"
  BY <1>1
<1>4. request' \in [Tabs -> [Kinds -> Request]] /\ WellFormedAll'
  <2> HIDE DEF r
  <2> QED  BY <1>1, <1>2, <1>3, NewFamilyTyped, PutKeepsForm DEF Form
<1> QED  BY <1>2, <1>4, NewFamilyTyped DEF TypeOK, Form, browserVars

LEMMA LogoutBasis == ASSUME TypeOK, Form, NEW t \in Tabs, Logout(t) PROVE TypeOK' /\ Form'
<1> DEFINE k == request[t]["logout"].token
           r == [pc |-> "done", ok |-> TRUE, grant |-> None, token |-> k]
<1>1. k \in Tokens \cup {None} /\ "logout" \in Kinds /\ (k # None => k \in Issued)
  BY KindsAre DEF TypeOK, Request, Form, WellFormedAll, WellFormed
<1>2. Revoke(k) /\ Answer(t, "logout", TRUE, None)
  BY DEF Logout
<1>3. Puts(t, "logout", r) /\ r \in Request /\ UNCHANGED <<browserVars, adrift, unlucky>>
  BY <1>1, <1>2, Answers
<1>4. Issued \subseteq Issued' /\ UNCHANGED consumed
  BY <1>1, <1>2, ServerTyped DEF Revoke
<1>5. r.token = k /\ r.grant = None /\ r.pc = "done"
  OBVIOUS
<1>6. request' \in [Tabs -> [Kinds -> Request]] /\ WellFormedAll'
  <2> HIDE DEF r, k
  <2> QED  BY <1>1, <1>3, <1>4, <1>5, PutKeepsForm DEF Form
<1> QED  BY <1>1, <1>2, <1>3, <1>4, <1>6, ServerTyped DEF TypeOK, Form, browserVars

LEMMA AdriftBasis == ASSUME TypeOK, Form, ServeAdrift PROVE TypeOK' /\ Form'
<1> PICK q \in adrift : /\ adrift' = adrift \ {q}
                        /\ Revoke(q.token) \/ Replace(q.token) \/ Denies(q.token)
  BY DEF ServeAdrift
<1>1. q.token \in Tokens /\ q.token \in Issued
  BY DEF TypeOK, Form
<1>2. UNCHANGED <<browserVars, request, unlucky>>
  BY DEF ServeAdrift
<1>3. Issued \subseteq Issued' /\ consumed' \subseteq Issued'
  BY <1>1, ServerTyped DEF Form
<1>4. WellFormedAll'
  BY <1>2, <1>3, SameKeepsForm DEF Form
<1> QED  BY <1>1, <1>2, <1>3, <1>4, ServerTyped DEF TypeOK, Form, browserVars

LEMMA PageBasis == ASSUME TypeOK, Form, NEW t \in Tabs, Page(t) PROVE TypeOK' /\ Form'
<1> DEFINE SameServer == UNCHANGED <<issued, consumed, revoked, expired, adrift, cookie>>
<1>1. Issued' = Issued /\ SameServer
  BY DEF Page, Load, SignIn, SignOut, serverVars, browserVars, Issued
<1>2. /\ ready' \in [Tabs -> BOOLEAN] /\ access' \in [Tabs -> BOOLEAN] /\ unlucky' \subseteq Families
  BY DEF Page, Load, SignIn, SignOut, browserVars, TypeOK, Tokens
<1>3. \A k \in {None, cookie} : /\ Sent(k).token = k /\ Sent(k).grant = None /\ Sent(k).pc = "sent"
                                /\ k # None => k \in Issued
  BY DEF Sent, NoRequest, Form
<1>4. request' \in [Tabs -> [Kinds -> Request]] /\ WellFormedAll'
  <2>1. CASE Load(t)
    BY <1>1, <1>3, <2>1, Sends, KindsAre, PutKeepsForm DEF Form
  <2>2. CASE SignIn(t)
    BY <1>1, <1>3, <2>2, Sends, KindsAre, PutKeepsForm DEF Form
  <2>3. CASE SignOut(t)
    BY <1>1, <1>3, <2>3, Sends, KindsAre, PutKeepsForm DEF Form
  <2> QED  BY <2>1, <2>2, <2>3 DEF Page
<1> QED  BY <1>1, <1>2, <1>4 DEF TypeOK, Form

\* A request ends: at the page nothing of it is left.
LEMMA EndBasis ==
  ASSUME TypeOK, Form, UNCHANGED serverVars, NEW t \in Tabs, NEW kind \in Kinds, End(t, kind)
  PROVE  request' \in [Tabs -> [Kinds -> Request]] /\ WellFormedAll' /\ Issued' = Issued
<1>1. Issued' = Issued
  BY DEF serverVars, Issued
<1>2. NoRequest.token = None /\ NoRequest.grant = None /\ NoRequest.pc = "none"
  BY DEF NoRequest
<1> QED  BY <1>1, <1>2, Sends, PutKeepsForm DEF Form

LEMMA ReceiveBasis ==
  ASSUME TypeOK, Form, NEW t \in Tabs, NEW kind \in Kinds, Receive(t, kind)
  PROVE  TypeOK' /\ Form'
<1>1. request' \in [Tabs -> [Kinds -> Request]] /\ WellFormedAll' /\ Issued' = Issued
  BY EndBasis DEF Receive
<1>2. request[t][kind].grant \in Tokens \cup {None} /\ (request[t][kind].grant # None => request[t][kind].grant \in Issued)
  BY DEF TypeOK, Request, Form, WellFormedAll, WellFormed
<1>3. cookie' \in Tokens \cup {None} /\ (cookie' # None => cookie' \in Issued)
  BY <1>2 DEF Receive, SetCookie, TypeOK, Form
<1>4. ready' \in [Tabs -> BOOLEAN] /\ access' \in [Tabs -> BOOLEAN]
  BY DEF Receive, Settle, TypeOK
<1> QED  BY <1>1, <1>3, <1>4 DEF Receive, TypeOK, Form, serverVars

LEMMA GiveUpBasis ==
  ASSUME TypeOK, Form, NEW t \in Tabs, NEW kind \in Kinds, GiveUp(t, kind)
  PROVE  TypeOK' /\ Form'
<1> DEFINE r == request[t][kind]
<1>1. request' \in [Tabs -> [Kinds -> Request]] /\ WellFormedAll' /\ Issued' = Issued
  BY EndBasis DEF GiveUp
<1>2. r.token \in Tokens \cup {None} /\ (r.token # None => r.token \in Issued /\ r.token[1] \in Families)
  BY DEF TypeOK, Request, Form, WellFormedAll, WellFormed, Issued, Tokens
<1>3. kind = "login" => r.token = None
  BY DEF Form, WellFormedAll, WellFormed
<1>4. adrift' \subseteq adrift \cup {[kind |-> kind, token |-> r.token]}
      /\ (adrift' # adrift => r.token # None)
  BY DEF GiveUp
<1>5. r.token # None => /\ [kind |-> kind, token |-> r.token] \in [kind : {"refresh", "logout"}, token : Tokens]
                        /\ [kind |-> kind, token |-> r.token].token \in Issued
  BY <1>2, <1>3, KindsAre
<1>6. adrift' \subseteq [kind : {"refresh", "logout"}, token : Tokens] /\ \A q \in adrift' : q.token \in Issued
  <2> HIDE DEF r
  <2> QED  BY <1>4, <1>5 DEF TypeOK, Form
<1>7. unlucky' \subseteq Families
  BY <1>2 DEF GiveUp, TypeOK
<1>8. ready' \in [Tabs -> BOOLEAN] /\ access' \in [Tabs -> BOOLEAN]
  BY DEF GiveUp, Settle, TypeOK
<1> QED  BY <1>1, <1>6, <1>7, <1>8 DEF GiveUp, TypeOK, Form, serverVars

LEMMA RefusedBasis ==
  ASSUME TypeOK, Form, NEW t \in Tabs, NEW kind \in Kinds, Refused(t, kind)
  PROVE  TypeOK' /\ Form'
<1>1. request' \in [Tabs -> [Kinds -> Request]] /\ WellFormedAll' /\ Issued' = Issued
  BY EndBasis DEF Refused
<1>2. ready' \in [Tabs -> BOOLEAN] /\ access' \in [Tabs -> BOOLEAN]
  BY DEF Refused, Settle, TypeOK
<1> QED  BY <1>1, <1>2 DEF Refused, TypeOK, Form, serverVars

LEMMA ExpireBasis == ASSUME TypeOK, Form, NEW f \in Families, Expire(f) PROVE TypeOK' /\ Form'
<1>1. Issued' = Issued /\ UNCHANGED <<request, adrift, consumed>>
  BY DEF Expire, Issued
<1>2. WellFormedAll'
  BY <1>1, SameKeepsForm DEF Form
<1>3. cookie' \in {cookie, None}
  BY DEF Expire
<1> QED  BY <1>1, <1>2, <1>3 DEF Expire, TypeOK, Form

LEMMA StutterBasis == ASSUME TypeOK, Form, UNCHANGED vars PROVE TypeOK' /\ Form'
<1>1. Issued' = Issued /\ UNCHANGED request
  BY DEF vars, serverVars, Issued
<1>2. WellFormedAll'
  BY <1>1, SameKeepsForm DEF Form
<1> QED  BY <1>1, <1>2 DEF vars, serverVars, browserVars, TypeOK, Form

LEMMA BasisNext == TypeOK /\ Form /\ [Next]_vars => TypeOK' /\ Form'
  BY RefreshBasis, LoginBasis, LogoutBasis, AdriftBasis, PageBasis, ReceiveBasis, GiveUpBasis,
     RefusedBasis, ExpireBasis, StutterBasis DEF Next, Serve

\* The types, for any number of tabs, sign-ins and tokens.
THEOREM SessionsTyped == Spec => []TypeOK
  BY InitBasis, BasisNext, PTL DEF Spec

-----------------------------------------------------------------------------
(* One live token.                                                         *)

LEMMA LiveIsNewest ==
  ASSUME TypeOK, OneLiveToken, NEW k \in Issued, k \notin consumed
  PROVE  k[2] = issued[k[1]] /\ \A j \in Issued : j # k /\ j[1] = k[1] => j \in consumed
<1>1. k \in Tokens /\ k[2] <= issued[k[1]] /\ ~(k[2] < issued[k[1]])
  BY DEF Issued, OneLiveToken
<1>2. k[1] \in Families /\ k[2] \in Nat /\ issued[k[1]] \in Nat
  <2>1. issued \in [Families -> Nat]
    BY NoneIsNone DEF TypeOK
  <2> QED  BY <1>1, <2>1 DEF Tokens
<1>3. k[2] = issued[k[1]]
  BY <1>1, <1>2
<1>4. \A j \in Issued : j[2] <= issued[j[1]] /\ j = <<j[1], j[2]>> /\ j[2] \in Nat
  BY DEF Issued, Tokens
<1>5. k = <<k[1], k[2]>>
  BY <1>4
<1>6. ASSUME NEW j \in Issued, j # k, j[1] = k[1] PROVE j \in consumed
  <2>1. j[2] # k[2]
    BY <1>4, <1>5, <1>6
  <2> QED  BY <1>2, <1>3, <1>4, <1>6, <2>1 DEF OneLiveToken
<1> QED  BY <1>3, <1>6

LEMMA ReplaceLive ==
  ASSUME TypeOK, consumed \subseteq Issued, OneLiveToken, NEW k \in Issued, Replace(k)
  PROVE  OneLiveToken'
<1> DEFINE g == <<k[1], issued[k[1]] + 1>>
<1>1. k \in Tokens /\ k[1] \in Families /\ k \notin consumed
  BY DEF Replace, Rotates, Issued, Tokens
<1>2. /\ issued[k[1]] \in Nat /\ issued' = [issued EXCEPT ![k[1]] = issued[k[1]] + 1]
      /\ consumed' = consumed \cup {k} /\ issued \in [Families -> 0 .. MaxTokens]
  <2>1. issued \in [Families -> Nat]
    BY NoneIsNone DEF TypeOK
  <2> QED  BY <1>1, <2>1 DEF Replace, TypeOK
<1>3. k[2] = issued[k[1]] /\ g \notin Issued
  BY <1>1, LiveIsNewest, ServerTyped
<1> SUFFICES ASSUME NEW j \in Issued' PROVE j \in consumed' <=> j[2] < issued'[j[1]]
  BY DEF OneLiveToken
<1>4. j \in Tokens /\ j = <<j[1], j[2]>> /\ j[1] \in Families /\ j[2] \in Nat /\ j[2] <= issued'[j[1]]
  BY DEF Issued, Tokens
<1>5. CASE j[1] # k[1]
  <2>1. issued'[j[1]] = issued[j[1]] /\ j # k
    BY <1>2, <1>4, <1>5
  <2>2. j \in Issued
    BY <1>4, <2>1 DEF Issued
  <2> QED  BY <1>2, <2>1, <2>2 DEF OneLiveToken
<1>6. CASE j = g
  BY <1>1, <1>2, <1>3, <1>6
<1>7. CASE j[1] = k[1] /\ j # g
  <2>1. issued'[j[1]] = issued[k[1]] + 1
    BY <1>1, <1>2, <1>7
  <2>2. j[2] # issued[k[1]] + 1
    BY <1>4, <1>7
  <2>3. j[2] <= issued[k[1]]
    BY <1>2, <1>4, <2>1, <2>2
  <2>4. j \in Issued
    BY <1>4, <1>7, <2>3 DEF Issued
  <2> QED  BY <1>2, <1>4, <1>7, <2>1, <2>3, <2>4, LiveIsNewest, <1>1
<1> QED  BY <1>5, <1>6, <1>7

LEMMA BeginLive ==
  ASSUME TypeOK, consumed \subseteq Issued, OneLiveToken, NEW f \in Families, NewFamily(f)
  PROVE  OneLiveToken'
<1>1. issued' = [issued EXCEPT ![f] = 1] /\ consumed' = consumed /\ issued \in [Families -> 0 .. MaxTokens]
  BY DEF NewFamily, TypeOK
<1> SUFFICES ASSUME NEW j \in Issued' PROVE j \in consumed' <=> j[2] < issued'[j[1]]
  BY DEF OneLiveToken
<1>2. j \in Tokens /\ j[1] \in Families /\ j[2] \in 1 .. MaxTokens /\ j[2] <= issued'[j[1]]
  BY DEF Issued, Tokens
<1>3. CASE j[1] = f
  <2>1. issued'[f] = 1 /\ j[2] = 1
    BY <1>1, <1>2, <1>3
  <2>2. j \notin consumed
    BY <1>3, NewFamilyTyped
  <2> QED  BY <1>1, <1>3, <2>1, <2>2
<1>4. CASE j[1] # f
  <2>1. issued'[j[1]] = issued[j[1]]
    BY <1>1, <1>2, <1>4
  <2>2. j \in Issued
    BY <1>2, <2>1 DEF Issued
  <2> QED  BY <1>1, <2>1, <2>2 DEF OneLiveToken
<1> QED  BY <1>3, <1>4

LEMMA SameLive == ASSUME OneLiveToken, UNCHANGED <<issued, consumed>> PROVE OneLiveToken'
  BY DEF OneLiveToken, Issued

\* What a step may do to the tokens.
TokenStep == \/ \E k \in Issued : Replace(k)
             \/ \E f \in Families : NewFamily(f)
             \/ UNCHANGED <<issued, consumed>>

LEMMA TokensStep == ASSUME TypeOK, Form, [Next]_vars PROVE TokenStep
<1>1. ASSUME NEW t \in Tabs, Refresh(t) PROVE TokenStep
  <2> DEFINE k == request[t]["refresh"].token
  <2>1. k # None => k \in Issued
    BY KindsAre DEF Form, WellFormedAll, WellFormed
  <2> QED  BY <1>1, <2>1 DEF Refresh, TokenStep, Replace, Rotates, Denies
<1>2. ASSUME ServeAdrift PROVE TokenStep
  BY <1>2 DEF ServeAdrift, Form, TokenStep, Revoke, Denies
<1>3. ASSUME NEW t \in Tabs, Login(t) \/ Logout(t) \/ Page(t) PROVE TokenStep
  BY <1>3 DEF Login, Logout, Page, Load, SignIn, SignOut, Revoke, serverVars, TokenStep
<1>4. ASSUME NEW t \in Tabs, NEW kind \in Kinds, Refused(t, kind) \/ Receive(t, kind) \/ GiveUp(t, kind)
      PROVE TokenStep
  BY <1>4 DEF Refused, Receive, GiveUp, serverVars, TokenStep
<1>5. CASE (\E f \in Families : Expire(f)) \/ UNCHANGED vars
  BY <1>5 DEF Expire, vars, serverVars, TokenStep
<1> QED  BY <1>1, <1>2, <1>3, <1>4, <1>5 DEF Next, Serve

LEMMA LiveNext == ASSUME TypeOK, Form, OneLiveToken, [Next]_vars PROVE OneLiveToken'
  BY TokensStep, ReplaceLive, BeginLive, SameLive DEF TokenStep, Form

LEMMA InitLive == Init => OneLiveToken
<1> SUFFICES ASSUME Init PROVE Issued = {}
  BY DEF OneLiveToken
<1>1. \A k \in Tokens : k[1] \in Families /\ k[2] \in 1 .. MaxTokens
  BY DEF Tokens
<1> QED  BY <1>1, NoneIsNone DEF Issued, Init

\* Of a family only the newest token can still be exchanged, whatever tabs,
\* lost answers and expiries do (refreshAccessToken).
THEOREM OneTokenIsLive == Spec => []OneLiveToken
  BY InitBasis, InitLive, BasisNext, LiveNext, PTL DEF Spec

-----------------------------------------------------------------------------
(* What a logout ends.                                                     *)

LEMMA RevokedStays ==
  ASSUME TypeOK, Form, [Next]_vars, NEW f \in Families, revoked[f] # "no"
  PROVE  revoked'[f] # "no"
<1>1. ASSUME NEW k, Replace(k) \/ Denies(k) \/ Revoke(k) PROVE revoked'[f] # "no"
  BY <1>1 DEF Replace, Denies, Revoke, TypeOK
<1>2. CASE \E t \in Tabs : Serve(t)
  BY <1>1, <1>2 DEF Serve, Refresh, Login, Logout, NewFamily
<1>3. CASE ServeAdrift
  BY <1>1, <1>3 DEF ServeAdrift
<1>4. CASE UNCHANGED revoked
  BY <1>4
<1> QED
  BY <1>2, <1>3, <1>4 DEF Next, Page, Load, SignIn, SignOut, Refused, Receive, GiveUp, Expire,
                          vars, serverVars

LEMMA LogoutNext == ASSUME TypeOK, Form, LogoutEnds, [Next]_vars PROVE LogoutEnds'
<1> SUFFICES ASSUME NEW t \in Tabs
             PROVE  LET r == request'[t]["logout"] IN
                    r.pc = "done" /\ r.ok /\ r.token # None => revoked'[r.token[1]] # "no"
  BY DEF LogoutEnds
<1> DEFINE q == request[t]["logout"]
<1>1. "logout" \in Kinds /\ "refresh" \in Kinds /\ "login" \in Kinds
  BY DEF Kinds
<1>2. q.token \in Tokens \cup {None} /\ (q.token # None => q.token[1] \in Families)
  BY <1>1 DEF TypeOK, Request, Tokens
<1>3. CASE request'[t]["logout"] = q
  BY <1>2, <1>3, RevokedStays DEF LogoutEnds
<1>4. ASSUME NEW u \in Tabs, NEW kind \in Kinds, NEW r \in Request, Puts(u, kind, r),
             u = t /\ kind = "logout" => r.pc # "done"
      PROVE  request'[t]["logout"] = q \/ request'[t]["logout"].pc # "done"
  BY <1>1, <1>4, Changed DEF TypeOK
<1>5. ASSUME NEW u \in Tabs, Refresh(u) \/ Login(u) PROVE request'[t]["logout"] = q
  BY <1>1, <1>5 DEF Refresh, Login, Answer, TypeOK
<1>6. ASSUME NEW u \in Tabs, Logout(u)
      PROVE  \/ request'[t]["logout"] = q
             \/ request'[t]["logout"].token = q.token /\ (q.token # None => revoked'[q.token[1]] # "no")
  <2>1. CASE u # t
    BY <1>1, <1>6, <2>1 DEF Logout, Answer, TypeOK
  <2>2. CASE u = t
    <3>1. request'[t]["logout"].token = q.token
      BY <1>1, <1>6, <2>2 DEF Logout, Answer, TypeOK
    <3>2. q.token # None => revoked'[q.token[1]] # "no"
      BY <1>2, <1>6, <2>2 DEF Logout, Revoke, TypeOK
    <3> QED  BY <3>1, <3>2
  <2> QED  BY <2>1, <2>2
<1>7. \A k : Sent(k).pc = "sent" /\ NoRequest.pc = "none"
  BY DEF Sent, NoRequest
<1>8. ASSUME NEW u \in Tabs, Page(u)
      PROVE  request'[t]["logout"] = q \/ request'[t]["logout"].pc # "done"
  BY <1>1, <1>4, <1>7, <1>8, Sends DEF Page
<1>9. ASSUME NEW u \in Tabs, NEW kind \in Kinds, End(u, kind)
      PROVE  request'[t]["logout"] = q \/ request'[t]["logout"].pc # "done"
  BY <1>4, <1>7, <1>9, Sends
<1>10. CASE UNCHANGED request
  BY <1>3, <1>10
<1> HIDE DEF q
<1> QED
  BY <1>2, <1>3, <1>5, <1>6, <1>8, <1>9, <1>10
  DEF Next, Serve, Refused, Receive, GiveUp, ServeAdrift, Expire, vars

LEMMA InitLogout == Init => LogoutEnds
  BY DEF Init, LogoutEnds, Kinds, NoRequest

\* A logout answered with success ended the session of the token it carried,
\* also when a rotation overtook it (logoutUser).
THEOREM LogoutIsFinal == Spec => []LogoutEnds
  BY InitBasis, InitLogout, BasisNext, LogoutNext, PTL DEF Spec

-----------------------------------------------------------------------------
(* Where the tokens of a family are to which nothing happened.             *)

ReuseIsNotNew(f) == revoked'[f] = "REUSE_DETECTED" => revoked[f] = "REUSE_DETECTED"

\* The requests for which a family counts, before and after one is answered.
LEMMA RefreshPlaced ==
  ASSUME TypeOK, Form, OneLiveToken, NEW f \in Families, f \notin unlucky, Ordered(f),
         NEW t \in Tabs, Refresh(t)
  PROVE  Ordered(f)' /\ ReuseIsNotNew(f)
<1> DEFINE k == request[t]["refresh"].token
           g == <<k[1], issued[k[1]] + 1>>
<1>1. /\ k \in Tokens \cup {None} /\ (k # None => k \in Issued /\ k[1] \in Families) /\ request[t]["refresh"].pc = "sent"
      /\ "refresh" \in Kinds /\ "login" \in Kinds
  BY KindsAre DEF TypeOK, Request, Form, WellFormedAll, WellFormed, Issued, Tokens, Refresh
<1>2. Refreshing(t, f) => k \notin consumed
  BY <1>1 DEF Ordered, Unspent
<1>3. cookie # None => cookie \in Issued
  BY DEF Form
<1>4. CASE Replace(k) /\ Answer(t, "refresh", TRUE, g)
  <2>1. k # None /\ k \in Issued /\ consumed' = consumed \cup {k} /\ UNCHANGED revoked
    BY <1>1, <1>4 DEF Replace, Rotates
  <2>2. g \notin Issued /\ g[1] = k[1] /\ g \in Tokens
    BY <1>1, <1>4, <2>1, ServerTyped DEF Issued
  <2> DEFINE r == [pc |-> "done", ok |-> TRUE, grant |-> g, token |-> k]
  <2>3. /\ r.pc = "done" /\ r.token = k /\ r.grant = g
        /\ request'[t]["refresh"] = r /\ UNCHANGED <<browserVars, adrift, unlucky>>
        /\ \A u \in Tabs : /\ u # t => request'[u]["refresh"] = request[u]["refresh"]
                           /\ request'[u]["login"] = request[u]["login"]
    <3>1. Puts(t, "refresh", r) /\ r \in Request /\ UNCHANGED <<browserVars, adrift, unlucky>>
      BY <1>1, <1>4, <2>2, Answers
    <3>2. r.pc = "done" /\ r.token = k /\ r.grant = g
      OBVIOUS
    <3> HIDE DEF r, g, k
    <3> QED  BY <1>1, <3>1, <3>2, Changed DEF TypeOK
  <2> HIDE DEF r, g, k
  <2>4. \A u \in Tabs : request'[u]["refresh"].token = request[u]["refresh"].token
    BY <2>3 DEF k
  <2>5. \A u \in Tabs : Refreshing(u, f)' <=> Refreshing(u, f)
    BY <2>4 DEF Refreshing
  <2>6. Refreshing(t, f) <=> k[1] = f
    BY <2>1 DEF Refreshing, k
  <2>7. NoneAdrift(f)' /\ OneRefresh(f)'
    BY <2>3, <2>5 DEF Ordered, NoneAdrift, OneRefresh
  <2>8. Unspent(f)'
    <3> SUFFICES ASSUME NEW u \in Tabs, Refreshing(u, f)
                 PROVE  LET q == request'[u]["refresh"] IN
                        /\ q.pc = "sent" => q.token \notin consumed'
                        /\ q.pc = "done" => q.grant \notin consumed' /\ q.grant # cookie'
      BY <2>5 DEF Unspent
    <3>1. CASE u = t
      <4>1. g \notin consumed' /\ g # None
        BY <2>1, <2>2, NoneIsNone DEF Form
      <4>2. g # cookie'
        BY <1>3, <2>2, <2>3, <4>1 DEF browserVars
      <4> QED  BY <2>3, <3>1, <4>1, <4>2
    <3>2. CASE u # t
      <4>1. k[1] # f
        BY <2>6, <3>2 DEF Ordered, OneRefresh
      <4>2. request'[u]["refresh"] = request[u]["refresh"] /\ request[u]["refresh"].token[1] = f
        BY <2>3, <3>2 DEF Refreshing
      <4>3. request[u]["refresh"].pc = "done" => request[u]["refresh"].grant[1] = f
        BY <1>1, <4>2 DEF Form, WellFormedAll, WellFormed, Refreshing
      <4> QED  BY <2>1, <2>3, <4>1, <4>2, <4>3 DEF Ordered, Unspent, browserVars
    <3> QED  BY <3>1, <3>2
  <2>9. Begun(f)'
    BY <2>1, <2>3, <2>5, <2>6 DEF Ordered, Begun, SignedIn, browserVars
  <2>10. Replaced(f)'
    BY <2>1, <2>3, <2>4 DEF Ordered, Replaced, browserVars, k
  <2> QED  BY <2>1, <2>7, <2>8, <2>9, <2>10 DEF Ordered, ReuseIsNotNew
<1>5. CASE Denies(k) /\ Answer(t, "refresh", FALSE, None)
  <2>1. consumed' = consumed
    BY <1>5 DEF Denies
  <2>2. ReuseIsNotNew(f)
    <3>1. CASE revoked' = revoked
      BY <3>1 DEF ReuseIsNotNew
    <3>2. CASE k # None /\ Alive(k[1]) /\ revoked' = [revoked EXCEPT ![k[1]] = "REUSE_DETECTED"]
      <4>1. k[1] # f
        BY <1>2, <1>5, <3>2 DEF Denies, Rotates, Refreshing
      <4> QED  BY <3>2, <4>1 DEF ReuseIsNotNew, TypeOK
    <3> QED  BY <1>5, <3>1, <3>2 DEF Denies
  <2> DEFINE r == [pc |-> "done", ok |-> FALSE, grant |-> None, token |-> None]
  <2>3. /\ r.token = None /\ r.grant = None
        /\ request'[t]["refresh"] = r /\ UNCHANGED <<browserVars, adrift, unlucky>>
        /\ \A u \in Tabs : /\ u # t => request'[u]["refresh"] = request[u]["refresh"]
                           /\ request'[u]["login"] = request[u]["login"]
    <3>1. Puts(t, "refresh", r) /\ r \in Request /\ UNCHANGED <<browserVars, adrift, unlucky>>
      BY <1>1, <1>5, Answers
    <3>2. r.token = None /\ r.grant = None
      OBVIOUS
    <3> HIDE DEF r, k
    <3> QED  BY <1>1, <3>1, <3>2, Changed DEF TypeOK
  <2> HIDE DEF r
  <2>4. \A u \in Tabs : Refreshing(u, f)' => u # t /\ Refreshing(u, f)
    BY <2>3 DEF Refreshing
  <2>5. Replaced(f)'
    BY <1>2, <2>1, <2>3 DEF Ordered, Replaced, Refreshing, browserVars
  <2> QED
    BY <2>1, <2>2, <2>3, <2>4, <2>5
    DEF Ordered, NoneAdrift, OneRefresh, Unspent, Begun, SignedIn, browserVars
<1> QED  BY <1>4, <1>5 DEF Refresh

LEMMA LoginPlaced ==
  ASSUME TypeOK, Form, NEW f \in Families, Ordered(f), NEW t \in Tabs, Login(t)
  PROVE  Ordered(f)' /\ ReuseIsNotNew(f)
<1> PICK n \in Families : NewFamily(n) /\ Answer(t, "login", TRUE, <<n, 1>>)
  BY DEF Login
<1> DEFINE r == [pc |-> "done", ok |-> TRUE, grant |-> <<n, 1>>, token |-> request[t]["login"].token]
<1>1. "login" \in Kinds /\ "refresh" \in Kinds /\ UNCHANGED <<consumed, revoked>>
  BY KindsAre DEF NewFamily
<1>2. /\ r.grant = <<n, 1>> /\ <<n, 1>> # None
      /\ request'[t]["login"] = r /\ UNCHANGED <<browserVars, adrift, unlucky>>
      /\ \A u \in Tabs : /\ u # t => request'[u]["login"] = request[u]["login"]
                         /\ request'[u]["refresh"] = request[u]["refresh"]
  <2>1. Puts(t, "login", r) /\ r \in Request /\ UNCHANGED <<browserVars, adrift, unlucky>>
    BY <1>1, NewFamilyTyped, Answers
  <2>2. r.grant = <<n, 1>> /\ <<n, 1>> # None
    BY NewFamilyTyped, NoneIsNone
  <2> HIDE DEF r
  <2> QED  BY <1>1, <2>1, <2>2, Changed DEF TypeOK
<1> HIDE DEF r
<1>3. /\ \A u \in Tabs : Refreshing(u, f)' <=> Refreshing(u, f)
      /\ \A u \in Tabs : u # t => (SignedIn(u, f)' <=> SignedIn(u, f))
      /\ SignedIn(t, f)' <=> n = f
  BY <1>2 DEF Refreshing, SignedIn
<1>4. NoneAdrift(f)' /\ OneRefresh(f)' /\ Unspent(f)' /\ Replaced(f)'
  BY <1>1, <1>2, <1>3 DEF Ordered, NoneAdrift, OneRefresh, Unspent, Replaced, browserVars
<1>5. Begun(f)'
  <2>1. CASE n = f
    <3>1. <<n, 1>> \notin consumed /\ (cookie # None => cookie[1] # f)
      BY <2>1, NewFamilyTyped DEF Form
    <3>2. \A u \in Tabs : ~Refreshing(u, f) /\ ~SignedIn(u, f)
      BY <1>1, <2>1, NewFamilyTyped DEF Form, WellFormedAll, WellFormed, Refreshing, SignedIn
    <3> QED  BY <1>1, <1>2, <1>3, <3>1, <3>2 DEF Begun, browserVars
  <2>2. CASE n # f
    BY <1>1, <1>2, <1>3, <2>2 DEF Ordered, Begun, browserVars
  <2> QED  BY <2>1, <2>2
<1> QED  BY <1>1, <1>4, <1>5 DEF Ordered, ReuseIsNotNew

\* A step after which a family's tokens are where they were, or nowhere.
LEMMA StaysPlaced ==
  ASSUME NEW f \in Families, Ordered(f), adrift' \subseteq adrift, consumed' = consumed, cookie' \in {cookie, None},
         None \notin consumed,
         \A u \in Tabs :
           /\ Refreshing(u, f)' => request'[u]["refresh"] = request[u]["refresh"]
           /\ SignedIn(u, f)' => request'[u]["login"] = request[u]["login"]
           /\ Refreshing(u, f) /\ request[u]["refresh"].pc # "sent" => Refreshing(u, f)',
         \A u \in Tabs : Refreshing(u, f) => request[u]["refresh"].pc \in {"sent", "done"}
                         /\ (request[u]["refresh"].pc = "done" => request[u]["refresh"].grant # None)
  PROVE  Ordered(f)'
<1>1. \A u \in Tabs : (Refreshing(u, f)' => Refreshing(u, f)) /\ (SignedIn(u, f)' => SignedIn(u, f))
  BY DEF Refreshing, SignedIn
<1>2. NoneAdrift(f)' /\ OneRefresh(f)'
  BY <1>1 DEF Ordered, NoneAdrift, OneRefresh
<1>3. Unspent(f)' /\ Begun(f)'
  BY <1>1 DEF Ordered, Unspent, Begun, SignedIn, Refreshing
<1>4. Replaced(f)'
  <2> SUFFICES ASSUME cookie' # None, cookie'[1] = f, cookie' \in consumed
               PROVE  \E t \in Tabs : request'[t]["refresh"].token = cookie'
    BY DEF Replaced
  <2>1. cookie' = cookie
    OBVIOUS
  <2>2. PICK t \in Tabs : request[t]["refresh"].token = cookie
    BY <2>1 DEF Ordered, Replaced
  <2>3. Refreshing(t, f) /\ request[t]["refresh"].pc # "sent"
    BY <2>1, <2>2 DEF Refreshing, Ordered, Unspent
  <2> QED  BY <2>1, <2>2, <2>3
<1> QED  BY <1>2, <1>3, <1>4 DEF Ordered

\* The premises of that lemma which every state satisfies.
LEMMA Premises ==
  ASSUME TypeOK, Form
  PROVE  /\ None \notin consumed /\ "login" \in Kinds /\ "refresh" \in Kinds
         /\ \A u \in Tabs : request[u]["refresh"].token # None =>
              /\ request[u]["refresh"].pc \in {"sent", "done"}
              /\ request[u]["refresh"].pc = "done" => request[u]["refresh"].grant # None
<1>1. None \notin consumed /\ "login" \in Kinds /\ "refresh" \in Kinds
  BY NoneIsNone, KindsAre DEF TypeOK
<1>2. \A u \in Tabs : request[u]["refresh"] \in Request /\ WellFormed("refresh", request[u]["refresh"])
  BY <1>1 DEF TypeOK, Form, WellFormedAll
<1> QED  BY <1>1, <1>2 DEF Request, WellFormed

LEMMA LogoutPlaced ==
  ASSUME TypeOK, Form, NEW f \in Families, Ordered(f), NEW t \in Tabs, Logout(t)
  PROVE  Ordered(f)' /\ ReuseIsNotNew(f)
<1>1. Revoke(request[t]["logout"].token) /\ Answer(t, "logout", TRUE, None)
  BY DEF Logout
<1>2. \A u \in Tabs : /\ request'[u]["refresh"] = request[u]["refresh"]
                      /\ request'[u]["login"] = request[u]["login"]
  BY <1>1, KindsAre DEF Answer, TypeOK
<1>3. Ordered(f)'
  BY <1>1, <1>2, Premises, StaysPlaced DEF Revoke, Answer, browserVars, Refreshing, SignedIn
<1>4. ReuseIsNotNew(f)
  BY <1>1 DEF Revoke, ReuseIsNotNew, TypeOK
<1> QED  BY <1>3, <1>4

LEMMA AdriftPlaced ==
  ASSUME TypeOK, Form, NEW f \in Families, Ordered(f), ServeAdrift
  PROVE  Ordered(f)' /\ ReuseIsNotNew(f)
<1> PICK q \in adrift : /\ adrift' = adrift \ {q}
                        /\ IF q.kind = "logout" THEN Revoke(q.token) ELSE Replace(q.token) \/ Denies(q.token)
  BY DEF ServeAdrift
<1>1. UNCHANGED <<browserVars, request, unlucky>> /\ q.token \in Tokens /\ q.kind \in {"refresh", "logout"}
      /\ adrift' = adrift \ {q}
  BY DEF ServeAdrift, TypeOK
<1>2. \A u \in Tabs : /\ Refreshing(u, f)' <=> Refreshing(u, f)
                      /\ SignedIn(u, f)' <=> SignedIn(u, f)
  BY <1>1 DEF Refreshing, SignedIn
<1>3. CASE Revoke(q.token) \/ (q.kind = "refresh" /\ Denies(q.token))
  <2>1. Ordered(f)'
    BY <1>1, <1>2, <1>3, Premises, StaysPlaced DEF Revoke, Denies, browserVars, Refreshing
  <2>2. q.kind = "refresh" => q.token[1] # f
    BY DEF Ordered, NoneAdrift
  <2>3. ReuseIsNotNew(f)
    BY <1>3, <2>2 DEF Revoke, Denies, ReuseIsNotNew, TypeOK
  <2> QED  BY <2>1, <2>3
<1>4. CASE q.kind = "refresh" /\ Replace(q.token)
  <2>1. q.token[1] # f /\ consumed' = consumed \cup {q.token} /\ revoked' = revoked
    BY <1>4 DEF Ordered, NoneAdrift, Replace
  <2>2. \A u \in Tabs : /\ Refreshing(u, f) /\ request[u]["refresh"].pc = "done" => request[u]["refresh"].grant[1] = f
    BY Premises DEF Form, WellFormedAll, WellFormed, Refreshing
  <2>3. NoneAdrift(f)' /\ OneRefresh(f)' /\ Begun(f)'
    BY <1>1, <1>2, <2>1 DEF Ordered, NoneAdrift, OneRefresh, Begun, SignedIn, browserVars
  <2>4. Unspent(f)'
    BY <1>1, <1>2, <2>1, <2>2 DEF Ordered, Unspent, Refreshing, browserVars
  <2>5. Replaced(f)'
    BY <1>1, <2>1 DEF Ordered, Replaced, browserVars
  <2> QED  BY <2>1, <2>3, <2>4, <2>5 DEF Ordered, ReuseIsNotNew
<1> QED  BY <1>1, <1>3, <1>4

\* A page is loaded: its refresh carries the token that is not spent, and the
\* family is left out if that token is under way already.
LEMMA LoadPlaced ==
  ASSUME TypeOK, Form, OneLiveToken, NEW f \in Families, f \notin unlucky', Ordered(f),
         NEW t \in Tabs, Load(t)
  PROVE  Ordered(f)' /\ ReuseIsNotNew(f)
<1>1. UNCHANGED <<issued, consumed, revoked, cookie, adrift>> /\ "login" \in Kinds /\ "refresh" \in Kinds
  BY Premises DEF Load, serverVars
<1>2. /\ request'[t]["refresh"].token = cookie /\ request'[t]["refresh"].pc = "sent"
      /\ \A u \in Tabs : /\ u # t => request'[u]["refresh"] = request[u]["refresh"]
                         /\ request'[u]["login"] = request[u]["login"]
  <2>1. Puts(t, "refresh", Sent(cookie)) /\ Sent(cookie) \in Request
    BY Sends
  <2>2. Sent(cookie).token = cookie /\ Sent(cookie).pc = "sent"
    BY DEF Sent, NoRequest
  <2> QED  BY <1>1, <2>1, <2>2, Changed DEF TypeOK
<1>3. ~Refreshing(t, f)
  BY <1>1 DEF Load, Idle, Form, WellFormedAll, WellFormed, Refreshing
<1>4. CASE cookie = None \/ cookie[1] # f
  <2>1. ~Refreshing(t, f)'
    BY <1>2, <1>4 DEF Refreshing
  <2> QED  BY <1>1, <1>2, <1>3, <2>1, Premises, StaysPlaced DEF Refreshing, SignedIn, ReuseIsNotNew
<1>5. CASE cookie # None /\ cookie[1] = f
  <2>1. ~UnderWay(cookie)
    BY <1>5 DEF Load
  <2>2. \A u \in Tabs : request[u]["refresh"].token # cookie
    BY <1>5, <2>1, Premises DEF UnderWay
  <2>3. cookie \in Issued /\ cookie \notin consumed
    BY <1>5, <2>2 DEF Ordered, Replaced, Form
  <2>4. \A u \in Tabs : ~Refreshing(u, f)
    <3> SUFFICES ASSUME NEW u \in Tabs, Refreshing(u, f) PROVE FALSE
      OBVIOUS
    <3> DEFINE r == request[u]["refresh"]
    <3>1. /\ r.pc \in {"sent", "done"} /\ r.token \in Issued /\ r.token[1] = f
          /\ r.pc = "done" => r.grant \in Issued /\ r.grant[1] = f
      BY Premises DEF Refreshing, Form, WellFormedAll, WellFormed
    <3>2. \A j \in Issued : j # cookie /\ j[1] = f => j \in consumed
      BY <1>5, <2>3, LiveIsNewest
    <3> QED  BY <2>2, <3>1, <3>2 DEF Ordered, Unspent
  <2>5. \A u \in Tabs : (Refreshing(u, f)' => u = t) /\ ~SignedIn(u, f) /\ ~SignedIn(u, f)'
    BY <1>2, <1>5, <2>4 DEF Refreshing, SignedIn, Ordered, Begun
  <2>6. NoneAdrift(f)' /\ OneRefresh(f)' /\ Unspent(f)' /\ Begun(f)' /\ Replaced(f)'
    BY <1>1, <1>2, <2>3, <2>5 DEF Ordered, NoneAdrift, OneRefresh, Unspent, Begun, Replaced
  <2> QED  BY <1>1, <2>6 DEF Ordered, ReuseIsNotNew
<1> QED  BY <1>4, <1>5

LEMMA SignPlaced ==
  ASSUME TypeOK, Form, NEW f \in Families, Ordered(f), NEW t \in Tabs, SignIn(t) \/ SignOut(t)
  PROVE  Ordered(f)' /\ ReuseIsNotNew(f)
<1>1. UNCHANGED <<consumed, revoked, cookie, adrift>> /\ "logout" \in Kinds
  BY KindsAre DEF SignIn, SignOut, serverVars, browserVars
<1>2. \A u \in Tabs : /\ request'[u]["refresh"] = request[u]["refresh"]
                      /\ request'[u]["login"] # request[u]["login"] => request'[u]["login"].grant = None
  <2>1. CASE SignIn(t)
    <3>1. Puts(t, "login", Sent(None)) /\ Sent(None) \in Request /\ Sent(None).grant = None
      BY <2>1, Sends DEF Sent, NoRequest
    <3> QED  BY <3>1, Premises, Changed DEF TypeOK
  <2>2. CASE SignOut(t)
    BY <1>1, <2>2, Sends, Premises, Changed DEF TypeOK
  <2> QED  BY <2>1, <2>2
<1> QED  BY <1>1, <1>2, Premises, StaysPlaced DEF Refreshing, SignedIn, ReuseIsNotNew

\* A request ends and its page goes on as after a failure.
LEMMA EndPlaced ==
  ASSUME TypeOK, Form, NEW t \in Tabs, NEW kind \in Kinds, End(t, kind)
  PROVE  /\ \A u \in Tabs, j \in Kinds : u # t \/ j # kind => request'[u][j] = request[u][j]
         /\ request'[t][kind].token = None /\ request'[t][kind].grant = None
<1>1. NoRequest.token = None /\ NoRequest.grant = None
  BY DEF NoRequest
<1> QED  BY <1>1, Sends, Changed DEF TypeOK

LEMMA RefusedPlaced ==
  ASSUME TypeOK, Form, NEW f \in Families, Ordered(f), NEW t \in Tabs, NEW kind \in Kinds, Refused(t, kind)
  PROVE  Ordered(f)' /\ ReuseIsNotNew(f)
<1>1. UNCHANGED <<consumed, revoked, cookie, adrift>> /\ request[t][kind].pc = "sent"
  BY DEF Refused, serverVars
<1>2. End(t, kind)
  BY DEF Refused
<1> QED  BY <1>1, <1>2, EndPlaced, Premises, StaysPlaced DEF Refreshing, SignedIn, ReuseIsNotNew

LEMMA GiveUpPlaced ==
  ASSUME TypeOK, Form, NEW f \in Families, f \notin unlucky', Ordered(f),
         NEW t \in Tabs, NEW kind \in Kinds, GiveUp(t, kind)
  PROVE  Ordered(f)' /\ ReuseIsNotNew(f)
<1> DEFINE r == request[t][kind]
<1>1. UNCHANGED <<consumed, revoked, cookie>> /\ End(t, kind)
  BY DEF GiveUp, serverVars
<1>2. kind = "refresh" => ~Refreshing(t, f)
  BY DEF GiveUp, Refreshing
<1>3. adrift' \subseteq adrift \/ (r.token # None /\ adrift' = adrift \cup {[kind |-> kind, token |-> r.token]})
  BY DEF GiveUp
<1>4. NoneAdrift(f)'
  <2> SUFFICES ASSUME NEW q \in adrift', q.kind = "refresh" PROVE q.token[1] # f
    BY DEF NoneAdrift
  <2>1. CASE q \in adrift
    BY <2>1 DEF Ordered, NoneAdrift
  <2>2. CASE r.token # None /\ q = [kind |-> kind, token |-> r.token]
    BY <1>2, <2>2 DEF Refreshing
  <2> HIDE DEF r
  <2> QED  BY <1>3, <2>1, <2>2
<1>5. \A u \in Tabs : /\ Refreshing(u, f)' <=> Refreshing(u, f)
                      /\ Refreshing(u, f) => request'[u]["refresh"] = request[u]["refresh"]
                      /\ SignedIn(u, f)' => request'[u]["login"] = request[u]["login"]
  BY <1>1, <1>2, EndPlaced, Premises DEF Refreshing, SignedIn
<1>6. OneRefresh(f)' /\ Unspent(f)'
  BY <1>1, <1>5 DEF Ordered, OneRefresh, Unspent
<1>7. Begun(f)'
  BY <1>1, <1>5 DEF Ordered, Begun, SignedIn
<1>8. Replaced(f)'
  BY <1>1, <1>5, Premises DEF Ordered, Replaced, Refreshing
<1> QED  BY <1>1, <1>4, <1>6, <1>7, <1>8 DEF Ordered, ReuseIsNotNew

\* The cookie becomes the token an answer grants, which is not spent, or stays.
LEMMA ReceivePlaced ==
  ASSUME TypeOK, Form, NEW f \in Families, Ordered(f),
         NEW t \in Tabs, NEW kind \in Kinds, Receive(t, kind)
  PROVE  Ordered(f)' /\ ReuseIsNotNew(f)
<1> DEFINE r == request[t][kind]
<1>1. UNCHANGED <<consumed, revoked, adrift>> /\ End(t, kind) /\ r.pc = "done" /\ WellFormed(kind, r)
  BY DEF Receive, serverVars, Form, WellFormedAll
<1>2. \A u \in Tabs : /\ Refreshing(u, f)' => request'[u]["refresh"] = request[u]["refresh"] /\ Refreshing(u, f)
                      /\ SignedIn(u, f)' => request'[u]["login"] = request[u]["login"] /\ SignedIn(u, f)
                      /\ kind = "refresh" => ~Refreshing(t, f)'
                      /\ kind = "login" => ~SignedIn(t, f)'
                      /\ Refreshing(u, f) /\ ~Refreshing(u, f)' => u = t /\ kind = "refresh"
  BY <1>1, EndPlaced, Premises DEF Refreshing, SignedIn
<1>3. CASE r.grant = None
  <2>1. cookie' \in {cookie, None} /\ ~(kind = "refresh" /\ Refreshing(t, f))
    BY <1>1, <1>3 DEF Receive, WellFormed, Refreshing
  <2> QED  BY <1>1, <1>2, <2>1, Premises, StaysPlaced DEF Refreshing, ReuseIsNotNew
<1>4. CASE r.grant # None
  <2>1. cookie' \in {r.grant, None} /\ kind \in {"refresh", "login"}
    BY <1>1, <1>4, KindsAre DEF Receive, SetCookie, WellFormed
  <2>2. NoneAdrift(f)' /\ OneRefresh(f)'
    BY <1>1, <1>2 DEF Ordered, NoneAdrift, OneRefresh
  <2>3. CASE r.grant[1] = f
    <3>1. (kind = "refresh" /\ Refreshing(t, f)) \/ (kind = "login" /\ SignedIn(t, f))
      BY <1>1, <1>4, <2>1, <2>3 DEF WellFormed, Refreshing, SignedIn
    <3>2. r.grant \notin consumed
      BY <1>1, <3>1 DEF Ordered, Unspent, Begun
    <3>3. \A u \in Tabs : ~Refreshing(u, f)' /\ ~SignedIn(u, f)'
      BY <1>2, <3>1 DEF Ordered, OneRefresh, Begun
    <3>4. Unspent(f)' /\ Begun(f)'
      BY <3>3 DEF Unspent, Begun
    <3>5. Replaced(f)'
      BY <1>1, <2>1, <3>2, Premises DEF Replaced
    <3> QED  BY <1>1, <2>2, <3>4, <3>5 DEF Ordered, ReuseIsNotNew
  <2>4. CASE r.grant[1] # f
    <3>1. cookie' # None => cookie'[1] # f
      BY <2>1, <2>4
    <3>2. Unspent(f)'
      <4> SUFFICES ASSUME NEW u \in Tabs, Refreshing(u, f)'
                   PROVE  LET q == request'[u]["refresh"] IN
                          /\ q.pc = "sent" => q.token \notin consumed'
                          /\ q.pc = "done" => q.grant \notin consumed' /\ q.grant # cookie'
        BY DEF Unspent
      <4>1. request'[u]["refresh"] = request[u]["refresh"] /\ Refreshing(u, f)
        BY <1>2
      <4>2. request[u]["refresh"].pc = "done" => request[u]["refresh"].grant # None /\ request[u]["refresh"].grant[1] = f
        BY <4>1, Premises DEF Form, WellFormedAll, WellFormed, Refreshing
      <4> QED  BY <1>1, <3>1, <4>1, <4>2 DEF Ordered, Unspent
    <3>3. Begun(f)'
      BY <1>1, <1>2, <3>1 DEF Ordered, Begun
    <3>4. Replaced(f)'
      BY <3>1 DEF Replaced
    <3> QED  BY <1>1, <2>2, <3>2, <3>3, <3>4 DEF Ordered, ReuseIsNotNew
  <2> QED  BY <2>3, <2>4
<1> QED  BY <1>3, <1>4

LEMMA ExpirePlaced ==
  ASSUME TypeOK, Form, NEW f \in Families, Ordered(f), NEW e \in Families, Expire(e)
  PROVE  Ordered(f)' /\ ReuseIsNotNew(f)
<1>1. UNCHANGED <<consumed, revoked, adrift, request>> /\ cookie' \in {cookie, None}
  BY DEF Expire
<1> QED  BY <1>1, Premises, StaysPlaced DEF Refreshing, SignedIn, ReuseIsNotNew

LEMMA StutterPlaced ==
  ASSUME NEW f \in Families, Ordered(f), UNCHANGED vars
  PROVE  Ordered(f)' /\ ReuseIsNotNew(f)
  BY DEF vars, serverVars, browserVars, Ordered, NoneAdrift, OneRefresh, Unspent, Begun, Replaced,
         Refreshing, SignedIn, ReuseIsNotNew

LEMMA UnluckyStays == ASSUME TypeOK, [Next]_vars PROVE unlucky \subseteq unlucky'
  BY DEF Next, Serve, Refresh, Login, Logout, Answer, Page, Load, SignIn, SignOut, Refused, Receive,
         GiveUp, ServeAdrift, Expire, vars

LEMMA PlacedNext ==
  ASSUME TypeOK, Form, OneLiveToken, Placed, ReuseHasACause, [Next]_vars
  PROVE  Placed' /\ ReuseHasACause'
<1>1. ASSUME NEW f \in Families, f \notin unlucky' PROVE Ordered(f)' /\ ReuseIsNotNew(f)
  <2>1. f \notin unlucky /\ Ordered(f)
    BY <1>1, UnluckyStays DEF Placed
  <2> QED
    BY <1>1, <2>1, RefreshPlaced, LoginPlaced, LogoutPlaced, AdriftPlaced, LoadPlaced, SignPlaced,
       RefusedPlaced, ReceivePlaced, GiveUpPlaced, ExpirePlaced, StutterPlaced
    DEF Next, Serve, Page
<1> QED  BY <1>1, UnluckyStays DEF Placed, ReuseHasACause, ReuseIsNotNew

LEMMA InitPlaced == Init => Placed /\ ReuseHasACause
<1> SUFFICES ASSUME Init PROVE Placed /\ ReuseHasACause
  OBVIOUS
<1>1. \A t \in Tabs : request[t]["refresh"].token = None /\ request[t]["login"].grant = None
  BY KindsAre DEF Init, Sent, NoRequest
<1> QED  BY <1>1 DEF Init, Placed, Ordered, NoneAdrift, OneRefresh, Unspent, Begun, Replaced, Refreshing,
                 SignedIn, ReuseHasACause

\* A session is revoked for reuse only if a token of it was sent twice or an
\* answer that carried one was lost (refreshAccessToken, AuthInitializer).
THEOREM ReuseIsCaused == Spec => []ReuseHasACause
  BY InitBasis, InitLive, InitPlaced, BasisNext, LiveNext, PlacedNext, PTL DEF Spec

-----------------------------------------------------------------------------
(* The chain of single-use credentials.                                    *)

Ends(f) == /\ issued[f] > 0 /\ Alive(f) /\ UNCHANGED <<issued, consumed>>
           /\ \/ expired' = expired /\ \E why \in {"LOGOUT", "REUSE_DETECTED"} : revoked' = [revoked EXCEPT ![f] = why]
              \/ revoked' = revoked /\ expired' = expired \cup {f}

\* A family that is over is revoked too.
EndsAgain(f) == /\ issued[f] > 0 /\ ~Alive(f) /\ UNCHANGED <<issued, consumed, expired>>
                /\ revoked[f] = "no" /\ \E why \in {"LOGOUT", "REUSE_DETECTED"} : revoked' = [revoked EXCEPT ![f] = why]

ServerStep == \/ \E k \in Issued : Replace(k)
              \/ \E f \in Families : NewFamily(f) \/ Ends(f) \/ EndsAgain(f)
              \/ UNCHANGED serverVars

LEMMA IssuedIs == ASSUME TypeOK, NEW k \in Issued
                  PROVE  k \in Tokens /\ k[1] \in Families /\ k = <<k[1], k[2]>> /\ issued[k[1]] > 0
<1>1. k \in Tokens /\ k[1] \in Families /\ k = <<k[1], k[2]>> /\ k[2] \in Nat /\ k[2] >= 1 /\ k[2] <= issued[k[1]]
  BY DEF Issued, Tokens
<1>2. issued[k[1]] \in Nat
  BY <1>1, NoneIsNone DEF TypeOK
<1> QED  BY <1>1, <1>2

LEMMA ServerStepIs == ASSUME TypeOK, Form, [Next]_vars PROVE ServerStep
<1>1. ASSUME NEW k \in Issued \cup {None}, Replace(k) \/ Denies(k) \/ Revoke(k) PROVE ServerStep
  <2>1. CASE Replace(k)
    BY <2>1 DEF Replace, Rotates, ServerStep
  <2>2. CASE (Denies(k) \/ Revoke(k)) /\ revoked' = revoked
    BY <2>2 DEF Denies, Revoke, ServerStep, serverVars
  <2>3. CASE (Denies(k) \/ Revoke(k)) /\ revoked' # revoked
    <3>1. k # None /\ revoked[k[1]] = "no" /\ UNCHANGED <<issued, consumed, expired>>
          /\ \E why \in {"LOGOUT", "REUSE_DETECTED"} : revoked' = [revoked EXCEPT ![k[1]] = why]
      BY <2>3 DEF Denies, Revoke, Alive
    <3>2. k[1] \in Families /\ issued[k[1]] > 0
      BY <3>1, IssuedIs
    <3> QED  BY <3>1, <3>2 DEF Ends, EndsAgain, ServerStep
  <2> QED  BY <1>1, <2>1, <2>2, <2>3
<1>2. ASSUME NEW t \in Tabs, Refresh(t) \/ Logout(t) PROVE ServerStep
  <2>1. \A kind \in Kinds : request[t][kind].token \in Issued \cup {None}
    BY DEF Form, WellFormedAll, WellFormed
  <2> QED  BY <1>1, <1>2, <2>1, KindsAre DEF Refresh, Logout
<1>3. ASSUME ServeAdrift PROVE ServerStep
  BY <1>1, <1>3 DEF ServeAdrift, Form
<1>4. ASSUME NEW t \in Tabs, Login(t) \/ Page(t) PROVE ServerStep
  BY <1>4 DEF Login, Page, Load, SignIn, SignOut, ServerStep
<1>5. ASSUME NEW t \in Tabs, NEW kind \in Kinds, Refused(t, kind) \/ Receive(t, kind) \/ GiveUp(t, kind)
      PROVE ServerStep
  BY <1>5 DEF Refused, Receive, GiveUp, ServerStep
<1>6. ASSUME NEW f \in Families, Expire(f) PROVE ServerStep
  BY <1>6 DEF Expire, Ends, ServerStep
<1>7. CASE UNCHANGED vars
  BY <1>7 DEF vars, serverVars, ServerStep
<1> QED  BY <1>2, <1>3, <1>4, <1>5, <1>6, <1>7 DEF Next, Serve

\* Nothing happened to a family that did not begin.
Unborn == \A f \in Families : issued[f] = 0 => Alive(f)

LEMMA UnbornNext == ASSUME TypeOK, Unborn, ServerStep PROVE Unborn'
<1>1. ASSUME NEW k \in Issued, Replace(k) PROVE Unborn'
  <2>1. k[1] \in Families /\ issued' = [issued EXCEPT ![k[1]] = issued[k[1]] + 1] /\ UNCHANGED <<revoked, expired>>
    BY <1>1, IssuedIs DEF Replace
  <2>2. issued \in [Families -> Nat]
    BY NoneIsNone DEF TypeOK
  <2> QED  BY <2>1, <2>2 DEF Unborn, Alive
<1>2. ASSUME NEW f \in Families, NewFamily(f) PROVE Unborn'
  BY <1>2 DEF NewFamily, Unborn, Alive, TypeOK
<1>3. ASSUME NEW f \in Families, Ends(f) \/ EndsAgain(f) PROVE Unborn'
  BY <1>3 DEF Ends, EndsAgain, Unborn, Alive, TypeOK
<1>4. CASE UNCHANGED serverVars
  BY <1>4 DEF serverVars, Unborn, Alive
<1> QED  BY <1>1, <1>2, <1>3, <1>4 DEF ServerStep

Good  == {k \in Issued \ consumed : k[1] \notin expired /\ revoked[k[1]] = "no"}
Ended == expired \cup {f \in Families : revoked[f] # "no"}

LEMMA ReplaceIsExchange ==
  ASSUME TypeOK, consumed \subseteq Issued, OneLiveToken, NEW k \in Issued, Replace(k)
  PROVE  Chain!Next
<1> DEFINE g == <<k[1], issued[k[1]] + 1>>
<1>1. /\ k = <<k[1], k[2]>> /\ k[1] \in Families /\ k[2] \in 1 .. MaxTokens /\ k \in Tokens
      /\ k \notin consumed /\ Alive(k[1]) /\ k \in Good
  BY IssuedIs DEF Replace, Rotates, Alive, Good, Issued, Tokens
<1>2. g \in Issued' /\ g \notin Issued /\ Issued \subseteq Issued'
  BY <1>1, ServerTyped DEF Issued
<1>3. issued[k[1]] + 1 \in 1 .. MaxTokens
  <2>1. g \in Families \X (1 .. MaxTokens)
    BY <1>2 DEF Issued, Tokens
  <2> QED  BY <2>1
<1>4. Issued' = Issued \cup {g}
  <2> SUFFICES ASSUME NEW j \in Issued', j # g PROVE j \in Issued
    BY <1>2
  <2>1. j \in Tokens /\ j = <<j[1], j[2]>> /\ j[1] \in Families /\ j[2] \in Nat /\ j[2] <= issued'[j[1]]
    BY DEF Issued, Tokens
  <2>2. issued \in [Families -> Nat] /\ issued' = [issued EXCEPT ![k[1]] = issued[k[1]] + 1]
    BY NoneIsNone DEF TypeOK, Replace
  <2>3. j[2] <= issued[j[1]]
    BY <1>1, <2>1, <2>2
  <2> QED  BY <2>1, <2>3 DEF Issued
<1>5. consumed' = consumed \cup {k} /\ UNCHANGED <<revoked, expired>> /\ Ended' = Ended
  BY DEF Replace, Ended
<1>6. Good' = (Good \ {k}) \cup {g}
  <2>1. g \notin consumed' /\ g # k
    BY <1>2, <1>5
  <2>2. g \in Good'
    BY <1>1, <1>2, <1>5, <2>1 DEF Good, Alive
  <2> QED  BY <1>4, <1>5, <2>1, <2>2 DEF Good
<1>7. k[1] \notin Ended
  BY <1>1 DEF Ended, Alive
<1> PICK n \in 1 .. MaxTokens : n = issued[k[1]] + 1
  BY <1>3
<1>8. Chain!Exchange(k)
  BY <1>1, <1>2, <1>4, <1>5, <1>6, <1>7 DEF Chain!Exchange, Chain!Fresh, Good, Ended
<1> QED  BY <1>1, <1>8 DEF Chain!Next, Good, Alive

LEMMA NewFamilyBegins ==
  ASSUME TypeOK, consumed \subseteq Issued, Unborn, NEW f \in Families, NewFamily(f)
  PROVE  Chain!Next
<1> DEFINE g == <<f, 1>>
<1>1. /\ g \in Issued' /\ Issued \subseteq Issued' /\ (\A j \in Issued : j[1] # f)
      /\ UNCHANGED <<consumed, revoked, expired>>
  BY NewFamilyTyped
<1>2. Alive(f) /\ issued' = [issued EXCEPT ![f] = 1] /\ issued \in [Families -> Nat]
  BY NoneIsNone DEF NewFamily, NextFamily, Unborn, TypeOK
<1>3. Issued' = Issued \cup {g}
  <2> SUFFICES ASSUME NEW j \in Issued', j # g PROVE j \in Issued
    BY <1>1
  <2>1. j \in Tokens /\ j = <<j[1], j[2]>> /\ j[1] \in Families /\ j[2] \in Nat /\ j[2] >= 1 /\ j[2] <= issued'[j[1]]
    BY DEF Issued, Tokens
  <2>2. j[1] # f
    BY <1>2, <2>1
  <2> QED  BY <1>2, <2>1, <2>2 DEF Issued
<1>4. g \notin consumed /\ \A j \in 1 .. MaxTokens : <<f, j>> \notin Issued
  BY <1>1
<1>5. Good' = Good \cup {g} /\ Ended' = Ended
  BY <1>1, <1>2, <1>3, <1>4 DEF Good, Ended, Alive
<1>6. Chain!Begin(f)
  BY <1>3, <1>4, <1>5, NoneIsNone DEF Chain!Begin, Chain!Fresh, Good, Ended
<1> QED  BY <1>6 DEF Chain!Next

LEMMA RefinementStep ==
  ASSUME TypeOK, consumed \subseteq Issued, OneLiveToken, Unborn, ServerStep
  PROVE  [Chain!Next]_(Chain!chainVars)
<1>1. ASSUME NEW f \in Families, Ends(f) PROVE Chain!Next
  <2>1. Issued' = Issued /\ consumed' = consumed
    BY <1>1 DEF Ends, Issued
  <2>2. f \notin Ended /\ Ended' = Ended \cup {f}
    BY <1>1 DEF Ends, Alive, Ended, TypeOK
  <2>3. Good' = {c \in Good : c[1] # f}
    <3>1. \A c \in Issued : c[1] \in Families
      BY IssuedIs
    <3> QED  BY <1>1, <2>1, <3>1 DEF Ends, Good, TypeOK
  <2>4. Chain!End(f)
    BY <2>1, <2>2, <2>3 DEF Chain!End, Good, Ended
  <2> QED  BY <2>4 DEF Chain!Next
<1>2. ASSUME NEW f \in Families, EndsAgain(f) PROVE UNCHANGED Chain!chainVars
  <2>1. Issued' = Issued /\ consumed' = consumed /\ f \in expired
    BY <1>2 DEF EndsAgain, Issued, Alive
  <2>2. Ended' = Ended /\ Good' = Good
    <3>1. \A c \in Issued : c[1] \in Families
      BY IssuedIs
    <3> QED  BY <1>2, <2>1, <3>1 DEF EndsAgain, Ended, Good, TypeOK
  <2> QED  BY <2>1, <2>2 DEF Chain!chainVars, Good, Ended
<1>3. ASSUME UNCHANGED serverVars PROVE UNCHANGED Chain!chainVars
  BY <1>3 DEF serverVars, Chain!chainVars, Issued
<1> QED  BY <1>1, <1>2, <1>3, ReplaceIsExchange, NewFamilyBegins DEF ServerStep

LEMMA InitChain == Init => Chain!Init /\ Unborn
<1> SUFFICES ASSUME Init PROVE Chain!Init /\ Unborn
  OBVIOUS
<1>1. Issued = {}
  <2>1. \A k \in Tokens : k[1] \in Families /\ k[2] \in 1 .. MaxTokens
    BY DEF Tokens
  <2> QED  BY <2>1, NoneIsNone DEF Issued, Init
<1> QED  BY <1>1 DEF Init, Chain!Init, Unborn, Alive

\* Whatever requests are lost, late, repeated or overtake each other, sessions
\* are chains of credentials that are good one at a time and once.
THEOREM SessionsAreChains == Spec => ImplementsTokenChain
<1>1. TypeOK /\ Form /\ Unborn /\ [Next]_vars => Unborn'
  BY ServerStepIs, UnbornNext
<1>2. TypeOK /\ Form /\ OneLiveToken /\ Unborn /\ [Next]_vars => [Chain!Next]_(Chain!chainVars)
  BY ServerStepIs, RefinementStep DEF Form
<1> QED
  BY <1>1, <1>2, InitBasis, InitLive, InitChain, BasisNext, LiveNext, PTL
  DEF Spec, ImplementsTokenChain, Chain!Spec
=============================================================================
