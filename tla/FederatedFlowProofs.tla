------------------------ MODULE FederatedFlowProofs ------------------------
(***************************************************************************)
(* The safety properties of FederatedFlow and Dispatch for any number of   *)
(* services, providers, attempts, callbacks and invitations, any callback  *)
(* addresses and any number of changes by administrators.                  *)
(*                                                                         *)
(* The inductive invariant follows an attempt: the claims of its state     *)
(* say what it was started for (ClaimsInv), a cookie holds only states of  *)
(* its own method (CookieInv), and a callback that got past its checks is  *)
(* on the path of its attempt (HandlerInv).  The last is what makes the    *)
(* three cookies and the purposes in the state enough.                     *)
(***************************************************************************)
EXTENDS FederatedFlow, TLAPS

\* The claims c of a state and the start s that signed them.
Matches(c, s) ==
    /\ c \in stateClaims /\ s \in Started
    /\ c.ServiceID = s.service
    /\ c.Admin <=> s.flow = "admin"
    /\ c.Link = s.invite
    /\ c.Link # None <=> s.flow = "link"
    /\ c.GitHub <=> s.method = "github"
    /\ c.IDP = IF s.method \in Slug THEN s.method ELSE None

ClaimsInv ==
    \A n \in Attempt :
        /\ states[n] = None <=> started[n] = None
        /\ states[n] # None => Matches(states[n], started[n])

CookieInv ==
    \A c \in CookieName : cookie[c] # None =>
        /\ states[cookie[c]] # None
        /\ CookieOf(started[cookie[c]].method) = c

HandlerInv ==
    \A h \in Handler : handler[h].pc = "exchange" =>
        /\ handler[h] \in Exchanging
        /\ states[handler[h].state] # None
        /\ started[handler[h].state].method = handler[h].path

CompletedInv == \A n \in completed : states[n] # None

AnswerInv == EndedAsStarted /\ ForeignDeliveryTraced

FlowIInv ==
    /\ ClaimsInv /\ CookieInv /\ HandlerInv /\ CompletedInv
    /\ SpentStateGone
    /\ AnswerInv

-----------------------------------------------------------------------------
(* Operators *)

\* The built-in methods have a cookie each, the generic ones share one.
LEMMA CookieNames == \A m \in Method :
    /\ CookieOf(m) \in CookieName
    /\ CookieOf(m) = "oidc_state" <=> m = "google"
    /\ CookieOf(m) = "ms_state" <=> m = "microsoft"
    /\ CookieOf(m) = "gh_state" <=> m = "github"
    /\ CookieOf(m) = "idp_state" <=> m \in Slug
  BY SlugAssumption DEF CookieOf, CookieName, Method

\* FirstOf picks from the set.
LEMMA FirstOfShape == \A S : S # {} => FirstOf(S) \in S
  BY DEF FirstOf

\* The registered addresses are addresses, and the first is one of them.
LEMMA Callbacks ==
    \A s \in Service : CallbackURLs(s) \subseteq URI /\ PrimaryCallback(s) \in CallbackURLs(s)
  <1> TAKE s \in Service
  <1>1. CallbackUrl[s] \in Seq(URI) /\ CallbackUrl[s] # <<>>
    BY CallbackAssumption
  <1>2. /\ Len(CallbackUrl[s]) \in Nat \ {0} /\ DOMAIN CallbackUrl[s] = 1 .. Len(CallbackUrl[s])
        /\ Head(CallbackUrl[s]) = CallbackUrl[s][1]
        /\ \A i \in DOMAIN CallbackUrl[s] : CallbackUrl[s][i] \in URI
    BY <1>1
  <1> QED BY <1>2 DEF CallbackURLs, PrimaryCallback, ToSet

\* NoAnswer is the answer of no login.
LEMMA NoAnswerKind == NoAnswer.kind = "none"
  BY DEF NoAnswer

\* A step that answers nothing keeps the properties of answers, if it keeps
\* the types.
LEMMA NothingAnswered ==
    ASSUME answer' = NoAnswer, FlowTypeOK'
    PROVE  AnswerInv'
  BY NoAnswerKind DEF AnswerInv, EndedAsStarted, ForeignDeliveryTraced

\* The type invariant is part of the inductive one.
LEMMA TypeOfInv == FlowIInv => FlowTypeOK
  BY DEF FlowIInv, AnswerInv, EndedAsStarted

-----------------------------------------------------------------------------
(* The steps *)

\* Before the first request there is no attempt and no cookie.
LEMMA FlowInitially == FlowInit => FlowIInv
  <1> SUFFICES ASSUME FlowInit PROVE FlowIInv
    OBVIOUS
  <1>1. FlowTypeOK
    BY MaxChangesAssumption DEF FlowInit, DispatchInit, FlowTypeOK
  <1>2. AnswerInv
    BY <1>1, NoAnswerKind
    DEF FlowInit, DispatchInit, AnswerInv, EndedAsStarted, ForeignDeliveryTraced
  <1>3. HandlerInv
    BY DEF FlowInit, HandlerInv, Idle
  <1> QED BY <1>2, <1>3 DEF FlowInit, FlowIInv, ClaimsInv, CookieInv, CompletedInv, SpentStateGone

\* A step that starts no attempt and ends no callback keeps what follows
\* attempts, cookies and callbacks.
LEMMA FlowKept ==
    ASSUME FlowIInv, AnswerInv', UNCHANGED <<states, started, handler, completed>>,
           \A c \in CookieName : cookie'[c] \in {cookie[c], None}
    PROVE  FlowIInv'
  <1>1. completed \subseteq Attempt
    BY TypeOfInv DEF FlowTypeOK
  <1>2. SpentStateGone'
    BY <1>1, FlowNoneAssumption DEF FlowIInv, SpentStateGone
  <1>3. ClaimsInv' /\ HandlerInv' /\ CompletedInv'
    BY DEF FlowIInv, ClaimsInv, HandlerInv, CompletedInv
  <1>4. CookieInv'
    BY DEF FlowIInv, CookieInv
  <1> QED BY <1>2, <1>3, <1>4 DEF FlowIInv

\* A delivery of a token records what Send was given.
LEMMA SentShape ==
    ASSUME NEW aud \in Service, NEW uri \in URI, NEW traced \in BOOLEAN, Send(aud, uri, traced)
    PROVE  /\ answer' \in TokenAnswer /\ answer'.kind = "token" /\ answer'.aud = aud
           /\ answer'.to = uri /\ answer'.traced = traced
  BY DEF Send, TokenAnswer

\* Levels 2 to 5 of ServeDispatch.
LEMMA DispatchedTo ==
    ASSUME NEW aud \in Service, NEW target \in Service, DispatchTo(aud, target)
    PROVE  answer' \in TokenAnswer /\ answer'.kind = "token" /\ ForeignDeliveryTraced'
  <1> DEFINE uri == PrimaryCallback(target)
             traced == AudMismatch(aud, target, uri)
  <1>1. uri \in URI /\ uri \in CallbackURLs(target) /\ Send(aud, uri, traced)
    BY Callbacks DEF DispatchTo
  <1>2. traced \in BOOLEAN
    BY DEF AudMismatch
  <1>3. /\ answer' \in TokenAnswer /\ answer'.kind = "token" /\ answer'.aud = aud
        /\ answer'.to = uri /\ answer'.traced = traced
    <2> HIDE DEF uri, traced
    <2> QED BY <1>1, <1>2, SentShape
  <1>4. uri \in CallbackURLs(aud) \/ traced
    BY <1>1 DEF AudMismatch, IsAllowedCallback
  <1> QED BY <1>3, <1>4 DEF ForeignDeliveryTraced, CallbackURLs

\* Level 1.
LEMMA DispatchedByCookie ==
    ASSUME active \subseteq Service, NEW aud \in Service, NEW service, DispatchCookie(aud, service)
    PROVE  answer' \in TokenAnswer /\ answer'.kind = "token" /\ ForeignDeliveryTraced'
  <1> DEFINE target == FirstOf(CookieTargets)
             traced == CookieTraced(aud, service, target)
  <1>1. target \in CookieTargets /\ Send(aud, redirect, traced)
    BY FirstOfShape DEF DispatchCookie
  <1>2. target \in Service /\ redirect \in CallbackURLs(target) /\ redirect \in URI
    BY <1>1, Callbacks DEF CookieTargets
  <1>3. traced \in BOOLEAN
    BY DEF CookieTraced, AudMismatch
  <1>4. /\ answer' \in TokenAnswer /\ answer'.kind = "token" /\ answer'.aud = aud
        /\ answer'.to = redirect /\ answer'.traced = traced
    <2> HIDE DEF traced
    <2> QED BY <1>1, <1>2, <1>3, SentShape
  <1>5. redirect \in CallbackURLs(aud) \/ traced
    BY <1>2 DEF CookieTraced, AudMismatch, IsAllowedCallback
  <1> QED BY <1>4, <1>5 DEF ForeignDeliveryTraced, CallbackURLs

\* GET /dispatch, at every level.
LEMMA DispatchStep ==
    ASSUME FlowIInv, NEW aud \in Service, NEW id \in Service \cup {None}, ServeDispatch(aud, id),
           UNCHANGED flowVars
    PROVE  FlowIInv'
  <1>t. FlowTypeOK
    BY TypeOfInv
  <1>0. redirect' = None /\ UNCHANGED <<active, changes, tokens>>
    BY DEF ServeDispatch
  <1>1. CASE DispatchCode(aud, id)
    <2>1. /\ authz # None /\ CodeForClient(aud, id) /\ authz' = None
          /\ answer' = [kind |-> "code", aud |-> aud, client |-> authz.client, to |-> authz.uri]
      BY <1>1 DEF DispatchCode
    <2>2. authz.client \in Service /\ authz.uri \in URI
      BY <1>t, <2>1 DEF FlowTypeOK, Authz
    <2>3. /\ answer' \in CodeAnswer /\ answer'.kind = "code" /\ answer'.aud = answer'.client
          /\ answer'.to \in CallbackURLs(answer'.client)
      BY <2>1, <2>2 DEF CodeAnswer, CodeForClient, IsAllowedCallback, CallbackURLs
    <2>4. FlowTypeOK'
      BY <1>t, <1>0, <2>1, <2>3 DEF FlowTypeOK, flowVars
    <2>5. AnswerInv'
      BY <2>3, <2>4
      DEF AnswerInv, EndedAsStarted, ForeignDeliveryTraced, CallbackURLs
    <2> QED BY <2>5, FlowKept DEF flowVars
  <1>2. CASE DispatchForward(aud, id)
    <2>1. answer' \in TokenAnswer /\ answer'.kind = "token" /\ ForeignDeliveryTraced'
      <3>a. active \subseteq Service
        BY <1>t DEF FlowTypeOK
      <3>1. CASE DispatchCookie(aud, id)
        BY <3>a, <3>1, DispatchedByCookie
      <3>2. CASE Resolve(id) # None /\ DispatchTo(aud, id)
        <4>1. id \in Service
          BY <3>a, <3>2 DEF Resolve
        <4> QED BY <3>2, <4>1, DispatchedTo
      <3>3. CASE HostService # None /\ DispatchTo(aud, HostService)
        <4>1. HostService \in Service
          BY <3>a, <3>3 DEF HostService, FirstOf
        <4> QED BY <3>3, <4>1, DispatchedTo
      <3>4. CASE \E org \in active : DispatchTo(aud, org)
        BY <3>a, <3>4, DispatchedTo
      <3>5. CASE Default # None /\ DispatchTo(aud, Default)
        <4>1. Default \in Service
          BY <3>a, <3>5 DEF Default, FirstOf
        <4> QED BY <3>5, <4>1, DispatchedTo
      <3> QED BY <1>2, <3>1, <3>2, <3>3, <3>4, <3>5 DEF DispatchForward
    <2>2. FlowTypeOK'
      BY <1>t, <1>0, <1>2, <2>1 DEF FlowTypeOK, flowVars, DispatchForward
    <2>3. AnswerInv'
      BY <2>1, <2>2 DEF AnswerInv, EndedAsStarted
    <2> QED BY <2>3, FlowKept DEF flowVars
  <1>3. CASE DispatchRefused
    <2>1. FlowTypeOK' /\ answer' = NoAnswer
      BY <1>t, <1>0, <1>3 DEF FlowTypeOK, flowVars, DispatchRefused
    <2> QED BY <2>1, NothingAnswered, FlowKept DEF flowVars
  <1> QED BY <1>1, <1>2, <1>3 DEF ServeDispatch

\* The other requests and events that start no attempt and serve no callback.
LEMMA QuietSteps ==
    ASSUME FlowIInv,
           \/ /\ \/ \E s \in Service : SwitchService(s)
                 \/ \E s \in Service, uri \in URI : ServeAuthorize(s, uri) \/ AlteredAuthz(s, uri)
                 \/ ServeLogin
              /\ UNCHANGED flowVars
           \/ \E id \in Service \cup {None}, uri \in URI : RefuseGoogle(id, uri)
           \/ \E c \in CookieName : GrowOld(c)
           \/ \E s \in Service, m \in Method : SwitchMethod(s, m)
           \/ \E n \in Attempt, path \in Method : RefuseCallback(path, n)
    PROVE  FlowIInv'
  <1>t. FlowTypeOK
    BY TypeOfInv
  <1>1. ASSUME NEW s \in Service, SwitchService(s), UNCHANGED flowVars PROVE FlowIInv'
    <2>1. FlowTypeOK' /\ answer' = NoAnswer
      BY <1>t, <1>1, MaxChangesAssumption DEF FlowTypeOK, flowVars, SwitchService
    <2> QED BY <1>1, <2>1, NothingAnswered, FlowKept DEF flowVars
  <1>2. ASSUME NEW s \in Service, NEW uri \in URI, ServeAuthorize(s, uri) \/ AlteredAuthz(s, uri),
               UNCHANGED flowVars
        PROVE  FlowIInv'
    <2>1. FlowTypeOK' /\ answer' = NoAnswer
      BY <1>t, <1>2 DEF FlowTypeOK, flowVars, ServeAuthorize, AlteredAuthz, Authz
    <2> QED BY <1>2, <2>1, NothingAnswered, FlowKept DEF flowVars
  <1>3. ASSUME ServeLogin, UNCHANGED flowVars PROVE FlowIInv'
    <2>1. FlowTypeOK' /\ answer' = NoAnswer
      BY <1>t, <1>3 DEF FlowTypeOK, flowVars, ServeLogin
    <2> QED BY <1>3, <2>1, NothingAnswered, FlowKept DEF flowVars
  <1>4. ASSUME NEW id, NEW uri \in URI, RefuseGoogle(id, uri) PROVE FlowIInv'
    <2>1. FlowTypeOK' /\ answer' = NoAnswer
      BY <1>t, <1>4 DEF FlowTypeOK, flowVars, RefuseGoogle, KeepRedirect
    <2> QED BY <1>4, <2>1, NothingAnswered, FlowKept DEF flowVars, RefuseGoogle
  <1>5. ASSUME NEW c \in CookieName, GrowOld(c) PROVE FlowIInv'
    <2>1. FlowTypeOK' /\ answer' = NoAnswer
      BY <1>t, <1>5 DEF FlowTypeOK, GrowOld
    <2>2. \A x \in CookieName : cookie'[x] \in {cookie[x], None}
      BY <1>t, <1>5 DEF FlowTypeOK, GrowOld
    <2> QED BY <1>5, <2>1, <2>2, NothingAnswered, FlowKept DEF GrowOld
  <1>6. ASSUME NEW s \in Service, NEW m \in Method, SwitchMethod(s, m) PROVE FlowIInv'
    <2>1. FlowTypeOK' /\ answer' = NoAnswer
      <3>1. offered' \in [Service -> SUBSET Method]
        BY <1>t, <1>6 DEF FlowTypeOK, SwitchMethod
      <3>2. changes' \in 0 .. MaxChanges
        BY <1>t, <1>6, MaxChangesAssumption DEF FlowTypeOK, SwitchMethod
      <3> QED BY <1>t, <1>6, <3>1, <3>2 DEF FlowTypeOK, SwitchMethod
    <2> QED BY <1>6, <2>1, NothingAnswered, FlowKept DEF SwitchMethod
  <1>7. ASSUME NEW n \in Attempt, NEW path \in Method, RefuseCallback(path, n) PROVE FlowIInv'
    <2>1. FlowTypeOK' /\ answer' = NoAnswer
      BY <1>t, <1>7 DEF FlowTypeOK, RefuseCallback, ClearCookie
    <2>2. \A x \in CookieName : cookie'[x] \in {cookie[x], None}
      BY <1>t, <1>7 DEF FlowTypeOK, RefuseCallback, ClearCookie
    <2> QED BY <1>7, <2>1, <2>2, NothingAnswered, FlowKept DEF RefuseCallback
  <1> QED BY <1>1, <1>2, <1>3, <1>4, <1>5, <1>6, <1>7

\* A start: its claims say what it was started for.
LEMMA StartShape ==
    ASSUME FlowIInv, NEW n \in Attempt, NEW flow, NEW method \in Method, NEW s, NEW i, NEW claims,
           Start(n, flow, method, s, i, claims),
           Matches(claims, [flow |-> flow, method |-> method, service |-> s, invite |-> i]),
           redirect' \in URI \cup {None}
    PROVE  FlowIInv'
  <1> DEFINE rec == [flow |-> flow, method |-> method, service |-> s, invite |-> i]
  <1>t. FlowTypeOK
    BY TypeOfInv
  <1>1. claims \in stateClaims /\ rec \in Started /\ rec.method = method
    BY DEF Matches
  <1>2. claims # None /\ rec # None
    BY <1>1, NoneIsNoRecord
  <1>3. /\ states[n] = None /\ states' = [states EXCEPT ![n] = claims]
        /\ started' = [started EXCEPT ![n] = rec]
        /\ cookie' = [cookie EXCEPT ![CookieOf(method)] = n] /\ answer' = NoAnswer
        /\ UNCHANGED <<active, changes, authz, tokens, offered, redeemed, handler, completed>>
    BY DEF Start
  <1>4. Matches(claims, rec)
    OBVIOUS
  <1> HIDE DEF rec
  <1>5. CookieOf(method) \in CookieName
    BY CookieNames
  <1>6. /\ states' \in [Attempt -> stateClaims \cup {None}]
        /\ started' \in [Attempt -> Started \cup {None}]
        /\ cookie' \in [CookieName -> Attempt \cup {None}]
        /\ states'[n] = claims /\ started'[n] = rec /\ cookie'[CookieOf(method)] = n
        /\ \A m \in Attempt : m # n => states'[m] = states[m] /\ started'[m] = started[m]
        /\ \A c \in CookieName : c # CookieOf(method) => cookie'[c] = cookie[c]
    BY <1>t, <1>1, <1>3, <1>5 DEF FlowTypeOK
  <1>7. FlowTypeOK'
    BY <1>t, <1>3, <1>6 DEF FlowTypeOK
  <1>8. ClaimsInv'
    BY <1>2, <1>4, <1>6 DEF FlowIInv, ClaimsInv, Matches
  <1>9. CookieInv'
    <2>1. ASSUME NEW c \in CookieName, cookie'[c] # None
          PROVE  states'[cookie'[c]] # None /\ CookieOf(started'[cookie'[c]].method) = c
      <3>1. CASE c = CookieOf(method)
        BY <1>1, <1>2, <1>6, <3>1
      <3>2. CASE c # CookieOf(method)
        <4>1. cookie'[c] = cookie[c] /\ cookie[c] \in Attempt
          BY <1>t, <1>6, <2>1, <3>2 DEF FlowTypeOK
        <4>2. states[cookie[c]] # None /\ CookieOf(started[cookie[c]].method) = c
          BY <2>1, <4>1 DEF FlowIInv, CookieInv
        <4>3. cookie[c] # n
          BY <1>3, <4>2
        <4> QED BY <1>6, <4>1, <4>2, <4>3
      <3> QED BY <3>1, <3>2
    <2> QED BY <2>1 DEF CookieInv, CookieOf
  <1>10. HandlerInv'
    <2>1. ASSUME NEW h \in Handler, handler[h].pc = "exchange"
          PROVE  /\ handler[h] \in Exchanging /\ states'[handler[h].state] # None
                 /\ started'[handler[h].state].method = handler[h].path
      <3>1. /\ handler[h] \in Exchanging /\ states[handler[h].state] # None
            /\ started[handler[h].state].method = handler[h].path
        BY <2>1 DEF FlowIInv, HandlerInv
      <3>2. handler[h].state \in Attempt /\ handler[h].state # n
        BY <1>3, <3>1 DEF Exchanging
      <3> QED BY <1>6, <3>1, <3>2
    <2> QED BY <1>3, <2>1 DEF HandlerInv
  <1>11. CompletedInv' /\ SpentStateGone'
    <2>1. completed \subseteq Attempt /\ n \notin completed
      BY <1>t, <1>3 DEF FlowTypeOK, FlowIInv, CompletedInv
    <2> QED BY <1>3, <1>5, <1>6, <2>1 DEF FlowIInv, CompletedInv, SpentStateGone
  <1> QED BY <1>3, <1>7, <1>8, <1>9, <1>10, <1>11, NothingAnswered DEF FlowIInv

\* The state of a plain login names its service and no other purpose.
LEMMA SignShape ==
    ASSUME NEW s \in Service
    PROVE  /\ SignState(s) \in stateClaims
           /\ SignState(s).ServiceID = s /\ SignState(s).Admin = FALSE
           /\ SignState(s).IDP = None /\ SignState(s).Link = None /\ SignState(s).GitHub = FALSE
  BY DEF SignState, stateClaims

\* Each start signs claims that match it.
LEMMA SignedAsStarted ==
    ASSUME NEW s \in Service
    PROVE  LET rec(flow, method, i) ==
                 [flow |-> flow, method |-> method, service |-> s, invite |-> i]
           IN  /\ Matches(SignState(s), rec("login", "google", None))
               /\ Matches(SignState(s), rec("login", "microsoft", None))
               /\ Matches(signAdminState(s), rec("admin", "google", None))
               /\ Matches(signGitHubState(s), rec("login", "github", None))
               /\ \A slug \in Slug :
                    /\ Matches(signIDPState(s, slug), rec("login", slug, None))
                    /\ \A i \in Invite : Matches(signLinkState(s, slug, i), rec("link", slug, i))
  <1> DEFINE rec(flow, method, i) == [flow |-> flow, method |-> method, service |-> s, invite |-> i]
  <1>r. ASSUME NEW flow \in {"login", "admin", "link"}, NEW method \in Method,
               NEW i \in Invite \cup {None}
        PROVE  /\ rec(flow, method, i) \in Started /\ rec(flow, method, i).flow = flow
               /\ rec(flow, method, i).method = method /\ rec(flow, method, i).service = s
               /\ rec(flow, method, i).invite = i
    BY DEF Started
  <1>m. /\ "google" \in Method /\ "microsoft" \in Method /\ "github" \in Method
        /\ "google" \notin Slug /\ "microsoft" \notin Slug /\ "github" \notin Slug
        /\ Slug \subseteq Method
    BY SlugAssumption DEF Method
  <1>n. None \notin Slug /\ None \notin Invite
    BY FlowNoneAssumption
  <1> DEFINE b == SignState(s)
  <1>b. /\ b \in stateClaims /\ b.ServiceID = s /\ b.Admin = FALSE /\ b.IDP = None
        /\ b.Link = None /\ b.GitHub = FALSE
    BY SignShape
  <1> HIDE DEF rec, b
  <1>g. /\ Matches(b, rec("login", "google", None))
        /\ Matches(b, rec("login", "microsoft", None))
    BY <1>r, <1>m, <1>b DEF Matches
  <1>1. /\ Matches(SignState(s), rec("login", "google", None))
        /\ Matches(SignState(s), rec("login", "microsoft", None))
    BY <1>g DEF b
  <1>2. Matches(signAdminState(s), rec("admin", "google", None))
    <2> DEFINE c == [b EXCEPT !.Admin = TRUE]
    <2>1. /\ c \in stateClaims /\ c.ServiceID = s /\ c.Admin = TRUE /\ c.IDP = None
          /\ c.Link = None /\ c.GitHub = FALSE
      BY <1>b DEF stateClaims
    <2> HIDE DEF c
    <2>2. Matches(c, rec("admin", "google", None))
      BY <1>r, <1>m, <2>1 DEF Matches
    <2> QED BY <2>2 DEF b, c, signAdminState
  <1>3. Matches(signGitHubState(s), rec("login", "github", None))
    <2> DEFINE c == [b EXCEPT !.GitHub = TRUE]
    <2>1. /\ c \in stateClaims /\ c.ServiceID = s /\ c.Admin = FALSE /\ c.IDP = None
          /\ c.Link = None /\ c.GitHub = TRUE
      BY <1>b DEF stateClaims
    <2> HIDE DEF c
    <2>2. Matches(c, rec("login", "github", None))
      BY <1>r, <1>m, <2>1 DEF Matches
    <2> QED BY <2>2 DEF b, c, signGitHubState
  <1>4. ASSUME NEW slug \in Slug
        PROVE  /\ Matches(signIDPState(s, slug), rec("login", slug, None))
               /\ \A i \in Invite : Matches(signLinkState(s, slug, i), rec("link", slug, i))
    <2> DEFINE c == [b EXCEPT !.IDP = slug]
    <2>1. /\ c \in stateClaims /\ c.ServiceID = s /\ c.Admin = FALSE /\ c.IDP = slug
          /\ c.Link = None /\ c.GitHub = FALSE
      BY <1>b DEF stateClaims
    <2> HIDE DEF c
    <2>2. slug \in Method /\ slug # "github"
      BY <1>m
    <2>3. Matches(c, rec("login", slug, None))
      BY <1>r, <2>1, <2>2 DEF Matches
    <2>4. ASSUME NEW i \in Invite PROVE Matches([c EXCEPT !.Link = i], rec("link", slug, i))
      <3> DEFINE d == [c EXCEPT !.Link = i]
      <3>1. /\ d \in stateClaims /\ d.ServiceID = s /\ d.Admin = FALSE /\ d.IDP = slug
            /\ d.Link = i /\ d.GitHub = FALSE
        BY <2>1 DEF stateClaims
      <3> HIDE DEF d
      <3>2. Matches(d, rec("link", slug, i))
        BY <1>r, <1>n, <2>2, <3>1 DEF Matches
      <3> QED BY <3>2 DEF d
    <2> QED BY <2>3, <2>4 DEF b, c, signIDPState, signLinkState
  <1> QED BY <1>1, <1>2, <1>3, <1>4 DEF rec

\* resolveRequestedService yields a service or nothing.
LEMMA RequestedService ==
    ASSUME active \subseteq Service, NEW id
    PROVE  resolveRequestedService(id) \in Service \cup {None}
  <1>1. HostService \in Service \cup {None}
    BY DEF HostService, FirstOf
  <1>2. Default \in Service \cup {None}
    BY DEF Default, FirstOf
  <1> QED BY <1>1, <1>2 DEF resolveRequestedService

\* The six starts, each through StartShape with the claims it signs.
LEMMA StartSteps == ASSUME FlowIInv, StartNext PROVE FlowIInv'
  <1>t. active \subseteq Service /\ redirect \in URI \cup {None}
    BY TypeOfInv DEF FlowTypeOK
  <1>m. /\ "google" \in Method /\ "microsoft" \in Method /\ "github" \in Method
        /\ Slug \subseteq Method
    BY DEF Method
  <1>k. ASSUME NEW uri \in URI \cup {None}, KeepRedirect(uri) PROVE redirect' \in URI \cup {None}
    BY <1>t, <1>k DEF KeepRedirect
  <1> DEFINE rs(id) == resolveRequestedService(id)
  <1>s. ASSUME NEW id, NEW method, Startable(rs(id), method) PROVE rs(id) \in Service
    BY <1>t, <1>s, RequestedService DEF Startable
  <1>1. ASSUME NEW n \in Attempt, NEW id, NEW uri \in URI \cup {None}, StartGoogle(n, id, uri)
        PROVE  FlowIInv'
    <2>1. /\ rs(id) \in Service /\ redirect' \in URI \cup {None}
          /\ Start(n, "login", "google", rs(id), None, SignState(rs(id)))
      BY <1>1, <1>s, <1>k DEF StartGoogle
    <2> QED BY <1>m, <2>1, StartShape, SignedAsStarted
  <1>2. ASSUME NEW n \in Attempt, NEW id, NEW uri \in URI \cup {None}, NEW slug \in Slug,
               StartGeneric(n, id, slug, uri)
        PROVE  FlowIInv'
    <2>1. /\ rs(id) \in Service /\ redirect' \in URI \cup {None}
          /\ Start(n, "login", slug, rs(id), None, signIDPState(rs(id), slug))
      BY <1>2, <1>s, <1>k DEF StartGeneric
    <2> QED BY <1>m, <2>1, StartShape, SignedAsStarted
  <1>3. ASSUME NEW n \in Attempt, NEW id, StartMicrosoft(n, id) PROVE FlowIInv'
    <2>1. /\ rs(id) \in Service /\ redirect' = redirect
          /\ Start(n, "login", "microsoft", rs(id), None, SignState(rs(id)))
      BY <1>3, <1>s DEF StartMicrosoft
    <2> QED BY <1>m, <1>t, <2>1, StartShape, SignedAsStarted
  <1>4. ASSUME NEW n \in Attempt, NEW id, StartGitHub(n, id) PROVE FlowIInv'
    <2>1. /\ rs(id) \in Service /\ redirect' = redirect
          /\ Start(n, "login", "github", rs(id), None, signGitHubState(rs(id)))
      BY <1>4, <1>s DEF StartGitHub
    <2> QED BY <1>m, <1>t, <2>1, StartShape, SignedAsStarted
  <1>5. ASSUME NEW n \in Attempt, InitiateAdminLogin(n) PROVE FlowIInv'
    <2>1. /\ rs(None) \in Service /\ redirect' = redirect
          /\ Start(n, "admin", "google", rs(None), None, signAdminState(rs(None)))
      BY <1>5, <1>s DEF InitiateAdminLogin
    <2> QED BY <1>m, <1>t, <2>1, StartShape, SignedAsStarted
  <1>6. ASSUME NEW n \in Attempt, NEW i \in Invite, StartLink(n, i) PROVE FlowIInv'
    <2> DEFINE s == InviteFor[i].service
               slug == InviteFor[i].slug
    <2>1. /\ s \in Service /\ slug \in Slug /\ redirect' = redirect
          /\ Start(n, "link", slug, s, i, signLinkState(s, slug, i))
      BY <1>6, InviteAssumption DEF StartLink
    <2> HIDE DEF s, slug
    <2> QED BY <1>m, <1>t, <2>1, StartShape, SignedAsStarted
  <1> QED BY <1>1, <1>2, <1>3, <1>4, <1>5, <1>6 DEF StartNext

-----------------------------------------------------------------------------
(* Callbacks *)

\* The same for a step that ends no attempt and leaves callbacks on their paths.
LEMMA CallbackKept ==
    ASSUME FlowIInv, AnswerInv', HandlerInv', UNCHANGED <<states, started, completed>>,
           \A c \in CookieName : cookie'[c] \in {cookie[c], None}
    PROVE  FlowIInv'
  <1>1. completed \subseteq Attempt
    BY TypeOfInv DEF FlowTypeOK
  <1>2. SpentStateGone'
    BY <1>1, FlowNoneAssumption DEF FlowIInv, SpentStateGone
  <1>3. ClaimsInv' /\ CompletedInv'
    BY DEF FlowIInv, ClaimsInv, CompletedInv
  <1>4. CookieInv'
    BY DEF FlowIInv, CookieInv
  <1> QED BY <1>2, <1>3, <1>4 DEF FlowIInv

\* What a callback that waits for the provider knows of its attempt.
LEMMA CallbackShape ==
    ASSUME FlowIInv, NEW h \in Handler, handler[h].pc = "exchange"
    PROVE  /\ handler[h].path \in Method /\ handler[h].state \in Attempt /\ handler[h].code \in Code
           /\ handler[h].code.attempt \in Attempt
           /\ states[handler[h].state] # None
           /\ Matches(states[handler[h].state], started[handler[h].state])
           /\ started[handler[h].state].method = handler[h].path
  <1>1. /\ handler[h] \in Exchanging /\ states[handler[h].state] # None
        /\ started[handler[h].state].method = handler[h].path
    BY DEF FlowIInv, HandlerInv
  <1>2. /\ handler[h].path \in Method /\ handler[h].state \in Attempt /\ handler[h].code \in Code
    BY <1>1 DEF Exchanging
  <1>3. handler[h].code.attempt \in Attempt
    BY <1>2 DEF Code
  <1> QED BY <1>1, <1>2, <1>3 DEF FlowIInv, ClaimsInv

\* A callback that is over.
LEMMA CallbackOver ==
    ASSUME FlowIInv, NEW h \in Handler, handler' = [handler EXCEPT ![h] = Idle],
           UNCHANGED <<states, started>>
    PROVE  handler' \in [Handler -> {Idle} \cup Exchanging] /\ HandlerInv'
  <1>1. handler \in [Handler -> {Idle} \cup Exchanging]
    BY TypeOfInv DEF FlowTypeOK
  <1>2. Idle.pc # "exchange"
    BY DEF Idle
  <1>3. /\ handler' \in [Handler -> {Idle} \cup Exchanging] /\ handler'[h] = Idle
        /\ \A g \in Handler : g # h => handler'[g] = handler[g]
    BY <1>1
  <1> QED BY <1>2, <1>3 DEF FlowIInv, HandlerInv

\* Clearing a cookie leaves the others alone.
LEMMA Cleared ==
    ASSUME FlowTypeOK, NEW path \in Method, ClearCookie(path)
    PROVE  /\ cookie' \in [CookieName -> Attempt \cup {None}] /\ cookie'[CookieOf(path)] = None
           /\ \A c \in CookieName : c # CookieOf(path) => cookie'[c] = cookie[c]
  BY CookieNames DEF FlowTypeOK, ClearCookie

\* A callback that gets past its checks is the one of the attempt's method:
\* the cookie tells the built-in methods apart, the state the generic ones.
LEMMA PassedPath ==
    ASSUME FlowIInv, NEW n \in Attempt, NEW path \in Method, readState(path, n),
           Passes(path, states[n])
    PROVE  states[n] # None /\ started[n].method = path
  <1>1. CookieOf(path) \in CookieName /\ cookie[CookieOf(path)] = n /\ n # None
    BY CookieNames, FlowNoneAssumption DEF readState
  <1>2. states[n] # None /\ CookieOf(started[n].method) = CookieOf(path)
    BY <1>1 DEF FlowIInv, CookieInv
  <1>3. Matches(states[n], started[n])
    BY <1>2 DEF FlowIInv, ClaimsInv
  <1>4. started[n].method \in Method
    BY <1>3 DEF Matches, Started
  <1>5. CASE path \in {"google", "microsoft", "github"}
    BY <1>2, <1>4, <1>5, CookieNames
  <1>6. CASE path \in Slug
    <2>1. started[n].method \in Slug
      BY <1>2, <1>4, <1>6, CookieNames
    <2>2. states[n].IDP = started[n].method
      BY <1>3, <2>1 DEF Matches
    <2>3. path = states[n].IDP
      BY <1>6, SlugAssumption DEF Passes, GenericPasses
    <2> QED BY <1>2, <2>2, <2>3
  <1> QED BY <1>2, <1>5, <1>6 DEF Method

\* A callback passes its checks and calls the token endpoint.
LEMMA BeginStep ==
    ASSUME FlowIInv, NEW h \in Handler, NEW path \in Method, NEW n \in Attempt, NEW c \in Code,
           BeginCallback(h, path, n, c)
    PROVE  FlowIInv'
  <1> DEFINE r == [pc |-> "exchange", path |-> path, state |-> n, code |-> c]
  <1>t. FlowTypeOK
    BY TypeOfInv
  <1>1. r \in Exchanging /\ r.state = n /\ r.path = path
    BY DEF Exchanging
  <1>2. /\ handler' = [handler EXCEPT ![h] = r] /\ answer' = NoAnswer
        /\ UNCHANGED <<active, changes, redirect, authz, tokens, offered, cookie, states,
                       started, redeemed, completed>>
    BY DEF BeginCallback
  <1>3. states[n] # None /\ started[n].method = path
    BY PassedPath DEF BeginCallback
  <1> HIDE DEF r
  <1>4. /\ handler' \in [Handler -> {Idle} \cup Exchanging] /\ handler'[h] = r
        /\ \A g \in Handler : g # h => handler'[g] = handler[g]
    BY <1>t, <1>1, <1>2 DEF FlowTypeOK
  <1>5. HandlerInv'
    BY <1>1, <1>2, <1>3, <1>4 DEF FlowIInv, HandlerInv
  <1>6. FlowTypeOK'
    BY <1>t, <1>2, <1>4 DEF FlowTypeOK
  <1> QED BY <1>2, <1>5, <1>6, NothingAnswered, CallbackKept

\* A callback that fails or is denied.
LEMMA AbortStep ==
    ASSUME FlowIInv, NEW h \in Handler, FailCallback(h) \/ DenyCallback(h)
    PROVE  FlowIInv'
  <1> DEFINE r == handler[h]
  <1>t. FlowTypeOK
    BY TypeOfInv
  <1>1. /\ r.pc = "exchange" /\ redeemed' \in {redeemed, redeemed \cup {r.code}}
        /\ handler' = [handler EXCEPT ![h] = Idle] /\ answer' = NoAnswer
        /\ ClearCookie(r.path) \/ UNCHANGED cookie
        /\ UNCHANGED <<active, changes, redirect, authz, tokens, offered, states, started, completed>>
    BY DEF FailCallback, DenyCallback
  <1>2. r.path \in Method /\ r.code \in Code
    BY <1>1, CallbackShape
  <1>3. handler' \in [Handler -> {Idle} \cup Exchanging] /\ HandlerInv'
    BY <1>1, CallbackOver
  <1>4. /\ cookie' \in [CookieName -> Attempt \cup {None}]
        /\ \A c \in CookieName : cookie'[c] \in {cookie[c], None}
    <2>1. CASE ClearCookie(r.path)
      BY <1>t, <1>2, <2>1, Cleared
    <2>2. CASE UNCHANGED cookie
      BY <1>t, <2>2 DEF FlowTypeOK
    <2> QED BY <1>1, <2>1, <2>2
  <1>5. redeemed' \subseteq Code
    BY <1>t, <1>1, <1>2 DEF FlowTypeOK
  <1>6. FlowTypeOK'
    BY <1>t, <1>1, <1>3, <1>4, <1>5 DEF FlowTypeOK
  <1> QED BY <1>1, <1>3, <1>4, <1>6, NothingAnswered, CallbackKept

\* The code of a callback whose exchange and id_token are accepted is of its
\* own attempt: by the verifier for GitHub, by the nonce for the others.
LEMMA OwnCode ==
    ASSUME NEW r, Verified(r)
    PROVE  r.code.attempt = r.state
  BY DEF Verified, Exchanges, checkIDTokenNonce, PKCEVerifier

\* A callback succeeds: session, admin session or link.
LEMMA FinishStep ==
    ASSUME FlowIInv, NEW h \in Handler, FinishCallback(h)
    PROVE  FlowIInv'
  <1> DEFINE r == handler[h]
             c == states[r.state]
             s == started[r.state]
             a == [kind |-> KindOf(c), path |-> r.path, state |-> r.state, code |-> r.code,
                   service |-> c.ServiceID, invite |-> c.Link]
  <1>t. FlowTypeOK
    BY TypeOfInv
  <1>1. /\ r.pc = "exchange" /\ Verified(r) /\ redeemed' = redeemed \cup {r.code}
        /\ handler' = [handler EXCEPT ![h] = Idle] /\ ClearCookie(r.path)
        /\ completed' = completed \cup {r.state}
        /\ tokens' = IF KindOf(c) = "session" THEN tokens \cup {c.ServiceID} ELSE tokens
        /\ answer' = a
        /\ UNCHANGED <<active, changes, redirect, authz, offered, states, started>>
    BY DEF FinishCallback
  <1>2. /\ r.path \in Method /\ r.state \in Attempt /\ r.code \in Code /\ c # None
        /\ Matches(c, s) /\ s.method = r.path
    BY <1>1, CallbackShape
  <1>3. r.code.attempt = r.state
    BY <1>1, OwnCode
  <1>4. handler' \in [Handler -> {Idle} \cup Exchanging] /\ HandlerInv'
    BY <1>1, CallbackOver
  <1>5. /\ cookie' \in [CookieName -> Attempt \cup {None}] /\ cookie'[CookieOf(r.path)] = None
        /\ \A x \in CookieName : x # CookieOf(r.path) => cookie'[x] = cookie[x]
    BY <1>t, <1>1, <1>2, Cleared
  <1>6. /\ c.ServiceID \in Service /\ c.Link \in Invite \cup {None}
        /\ c.ServiceID = s.service /\ c.Link = s.invite
        /\ KindOf(c) \in {"session", "admin", "link"}
        /\ KindOf(c) = IF s.flow = "login" THEN "session" ELSE s.flow
    BY <1>2 DEF Matches, stateClaims, Started, KindOf
  <1>7. /\ a \in Ended /\ a.kind = KindOf(c) /\ a.path = r.path /\ a.state = r.state
        /\ a.code = r.code /\ a.service = c.ServiceID /\ a.invite = c.Link
    BY <1>2, <1>6 DEF Ended
  <1>8. started'[r.state] = s
    BY <1>1
  <1> HIDE DEF r, c, s, a
  <1>9. /\ redeemed' \subseteq Code /\ completed' \subseteq Attempt /\ tokens' \subseteq Service
    BY <1>t, <1>1, <1>2, <1>6 DEF FlowTypeOK
  <1>10. FlowTypeOK'
    BY <1>t, <1>1, <1>4, <1>5, <1>7, <1>9 DEF FlowTypeOK
  <1>11. AnswerInv'
    BY <1>1, <1>2, <1>3, <1>6, <1>7, <1>8, <1>10
    DEF AnswerInv, EndedAsStarted, ForeignDeliveryTraced
  <1>12. ClaimsInv'
    BY <1>1 DEF FlowIInv, ClaimsInv
  <1>13. CookieInv'
    BY <1>1, <1>5 DEF FlowIInv, CookieInv
  <1>14. CompletedInv'
    BY <1>1, <1>2 DEF FlowIInv, CompletedInv, c
  <1>15. SpentStateGone'
    <2>1. ASSUME NEW x \in CookieName PROVE cookie'[x] \notin completed'
      <3>1. CASE x = CookieOf(r.path)
        BY <1>5, <1>9, <3>1, FlowNoneAssumption
      <3>2. CASE x # CookieOf(r.path)
        <4>1. cookie'[x] = cookie[x] /\ cookie[x] \notin completed
          BY <1>5, <3>2 DEF FlowIInv, SpentStateGone
        <4>2. cookie[x] # r.state
          <5>1. r.state # None
            BY <1>2, FlowNoneAssumption
          <5>2. CookieOf(s.method) # x
            BY <1>2, <3>2
          <5> QED BY <5>1, <5>2 DEF FlowIInv, CookieInv, s
        <4> QED BY <1>1, <4>1, <4>2
      <3> QED BY <3>1, <3>2
    <2> QED BY <2>1 DEF SpentStateGone
  <1> QED BY <1>4, <1>11, <1>12, <1>13, <1>14, <1>15 DEF FlowIInv

-----------------------------------------------------------------------------
(* The theorems *)

\* Every step keeps the invariant.
LEMMA FlowStep == FlowIInv /\ [FlowNext]_allVars => FlowIInv'
  <1> SUFFICES ASSUME FlowIInv, [FlowNext]_allVars PROVE FlowIInv'
    OBVIOUS
  <1>1. CASE DispatchNext /\ UNCHANGED flowVars
    BY <1>1, QuietSteps, DispatchStep DEF DispatchNext
  <1>2. CASE StartNext
    BY <1>2, StartSteps
  <1>3. CASE \E id \in Service \cup {None}, uri \in URI : RefuseGoogle(id, uri)
    BY <1>3, QuietSteps
  <1>4. CASE CallbackNext
    BY <1>4, QuietSteps, BeginStep, AbortStep, FinishStep DEF CallbackNext
  <1>5. CASE \E c \in CookieName : GrowOld(c)
    BY <1>5, QuietSteps
  <1>6. CASE \E s \in Service, m \in Method : SwitchMethod(s, m)
    BY <1>6, QuietSteps
  <1>7. CASE UNCHANGED allVars
    <2>1. UNCHANGED <<answer, states, started, handler, completed, cookie>> /\ AnswerInv'
      BY <1>7 DEF allVars, dispatchVars, flowVars, FlowIInv, AnswerInv, EndedAsStarted,
                  FlowTypeOK, ForeignDeliveryTraced
    <2> QED BY <2>1, FlowKept
  <1> QED BY <1>1, <1>2, <1>3, <1>4, <1>5, <1>6, <1>7 DEF FlowNext

\* However many tabs, attempts and callbacks there are and in whatever order
\* they run, the claims of a state say what its attempt was started for, a
\* state is in no cookie but that of its method, and a callback that passed
\* its checks is on the path of its attempt (state.go, the four callbacks).
THEOREM FlowInvariant == FlowSpec => []FlowIInv
  BY FlowInitially, FlowStep, PTL DEF FlowSpec

\* A callback ends as its attempt was started, with a code issued for that
\* very attempt: no purpose, service, provider or invitation is exchanged for
\* another (google.go finishCallback, oidc_generic.go HandleCallback).
THEOREM CallbacksEndAsStarted == FlowSpec => []EndedAsStarted
  <1>1. FlowIInv => EndedAsStarted
    BY DEF FlowIInv, AnswerInv
  <1> QED BY <1>1, FlowInvariant, PTL

\* The state of an attempt that ended in a session or a link is in no cookie
\* again, so that no callback takes it a second time (login_complete.go
\* complete, github.go and oidc_generic.go HandleCallback).
THEOREM SpentStatesStayGone == FlowSpec => []SpentStateGone
  <1>1. FlowIInv => SpentStateGone
    BY DEF FlowIInv
  <1> QED BY <1>1, FlowInvariant, PTL

\* Every delivery of a token to an address its own service has not registered
\* is audited, at each level of ServeDispatch and whatever administrators do
\* to the services meanwhile (dispatch.go).
THEOREM ForeignDeliveriesAreTraced == FlowSpec => []ForeignDeliveryTraced
  <1>1. FlowIInv => ForeignDeliveryTraced
    BY DEF FlowIInv, AnswerInv
  <1> QED BY <1>1, FlowInvariant, PTL

-----------------------------------------------------------------------------
(* Authorization codes.  The token the dispatch is given names a service   *)
(* the browser has completed a login for (TokenInv); level 0 holds the     *)
(* cookie against it, and the address against the registry.                *)

\* The browser has completed a login for s.
LoggedIn(s) == \E n \in completed : started[n].flow = "login" /\ started[n].service = s

TokenInv == \A s \in tokens : LoggedIn(s)

\* A completed attempt stays completed, and what it was started for too.
LEMMA CompletedStays ==
    ASSUME FlowIInv, TokenInv, completed \subseteq completed', tokens' \subseteq tokens,
           \A n \in Attempt : states[n] # None => started'[n] = started[n]
    PROVE  TokenInv'
  <1>1. \A n \in completed : n \in completed' /\ started'[n] = started[n]
    BY TypeOfInv DEF FlowIInv, CompletedInv, FlowTypeOK
  <1> QED BY <1>1 DEF TokenInv, LoggedIn

\* A step other than a dispatch or the end of a callback.
LEMMA QuietLogins ==
    ASSUME FlowIInv, TokenInv, answer' = NoAnswer, UNCHANGED <<tokens, completed>>,
           \A n \in Attempt : states[n] # None => started'[n] = started[n]
    PROVE  TokenInv' /\ CodeForItsLogin'
  BY CompletedStays, NoAnswerKind DEF CodeForItsLogin

\* GET /dispatch.
LEMMA DispatchLogins ==
    ASSUME FlowIInv, TokenInv, NEW aud \in Service, NEW id \in Service \cup {None},
           ServeDispatch(aud, id), UNCHANGED flowVars
    PROVE  TokenInv' /\ CodeForItsLogin'
  <1>t. FlowTypeOK
    BY TypeOfInv
  <1>0. aud \in tokens /\ UNCHANGED <<tokens, completed, started>>
    BY DEF ServeDispatch, flowVars
  <1>1. TokenInv'
    BY <1>0, CompletedStays
  <1>2. CASE DispatchCode(aud, id)
    <2>1. /\ authz # None /\ CodeForClient(aud, id)
          /\ answer' = [kind |-> "code", aud |-> aud, client |-> authz.client, to |-> authz.uri]
      BY <1>2 DEF DispatchCode
    <2>2. /\ answer'.client = authz.client /\ answer'.to = authz.uri
          /\ aud = authz.client /\ authz.uri \in CallbackURLs(authz.client)
      BY <2>1 DEF CodeForClient, IsAllowedCallback
    <2>3. \E n \in completed' : started'[n].flow = "login" /\ started'[n].service = aud
      BY <1>0 DEF TokenInv, LoggedIn
    <2>4. CodeForItsLogin'
      BY <2>2, <2>3 DEF CodeForItsLogin, CallbackURLs
    <2> QED BY <1>1, <2>4
  <1>3. CASE DispatchForward(aud, id)
    <2>1. answer'.kind = "token"
      BY <1>3 DEF DispatchForward, DispatchCookie, DispatchTo, Send
    <2> QED BY <1>1, <2>1 DEF CodeForItsLogin
  <1>4. CASE DispatchRefused
    BY <1>1, <1>4, NoAnswerKind DEF DispatchRefused, CodeForItsLogin
  <1> QED BY <1>2, <1>3, <1>4 DEF ServeDispatch

\* A callback succeeds: the token of a session is for the service of the
\* attempt that is now completed.
LEMMA FinishLogins ==
    ASSUME FlowIInv, TokenInv, NEW h \in Handler, FinishCallback(h)
    PROVE  TokenInv' /\ CodeForItsLogin'
  <1> DEFINE r == handler[h]
             c == states[r.state]
             s == started[r.state]
  <1>1. /\ r.pc = "exchange" /\ completed' = completed \cup {r.state}
        /\ tokens' = IF KindOf(c) = "session" THEN tokens \cup {c.ServiceID} ELSE tokens
        /\ answer'.kind = KindOf(c) /\ UNCHANGED <<states, started>>
    BY DEF FinishCallback
  <1>2. Matches(c, s)
    BY <1>1, CallbackShape
  <1>3. /\ c.ServiceID = s.service /\ KindOf(c) \in {"session", "admin", "link"}
        /\ KindOf(c) = "session" => s.flow = "login"
    BY <1>2 DEF Matches, stateClaims, Started, KindOf
  <1>4. started'[r.state] = s
    BY <1>1
  <1> HIDE DEF r, c, s
  <1>5. TokenInv'
    <2> SUFFICES ASSUME NEW x \in tokens'
                 PROVE  \E n \in completed' : started'[n].flow = "login" /\ started'[n].service = x
      BY DEF TokenInv, LoggedIn
    <2>1. CASE x \in tokens
      BY <1>1, <2>1 DEF TokenInv, LoggedIn
    <2>2. CASE x \notin tokens
      BY <1>1, <1>3, <1>4, <2>2
    <2> QED BY <2>1, <2>2
  <1> QED BY <1>1, <1>3, <1>5 DEF CodeForItsLogin

\* Every step keeps what tokens and codes stand for.
LEMMA LoginsKept ==
    ASSUME FlowIInv, TokenInv, CodeForItsLogin, [FlowNext]_allVars
    PROVE  TokenInv' /\ CodeForItsLogin'
  <1>1. ASSUME NEW n \in Attempt, NEW flow, NEW method, NEW s, NEW i, NEW claims,
               Start(n, flow, method, s, i, claims)
        PROVE  TokenInv' /\ CodeForItsLogin'
    <2>1. \A x \in Attempt : states[x] # None => started'[x] = started[x]
      BY <1>1, TypeOfInv DEF Start, FlowTypeOK
    <2> QED BY <1>1, <2>1, QuietLogins DEF Start
  <1>2. CASE StartNext
    BY <1>1, <1>2
    DEF StartNext, StartGoogle, StartGeneric, StartMicrosoft, StartGitHub, InitiateAdminLogin, StartLink
  <1>3. CASE UNCHANGED <<tokens, started, completed>> /\ answer' = NoAnswer
    BY <1>3, QuietLogins
  <1>4. CASE DispatchNext /\ UNCHANGED flowVars
    BY <1>3, <1>4, DispatchLogins
    DEF DispatchNext, SwitchService, ServeAuthorize, AlteredAuthz, ServeLogin, flowVars
  <1>5. CASE CallbackNext
    BY <1>3, <1>5, FinishLogins
    DEF CallbackNext, RefuseCallback, BeginCallback, FailCallback, DenyCallback
  <1>6. CASE \/ \E id \in Service \cup {None}, uri \in URI : RefuseGoogle(id, uri)
             \/ \E c \in CookieName : GrowOld(c)
             \/ \E s \in Service, m \in Method : SwitchMethod(s, m)
    BY <1>3, <1>6 DEF RefuseGoogle, GrowOld, SwitchMethod, flowVars
  <1>7. CASE UNCHANGED allVars
    BY <1>7 DEF allVars, dispatchVars, flowVars, TokenInv, LoggedIn, CodeForItsLogin, CallbackURLs
  <1> QED BY <1>2, <1>4, <1>5, <1>6, <1>7 DEF FlowNext

\* The dispatch issues a code only for a client the browser has completed a
\* login for, and sends it to an address of that client, whatever is in the
\* unsigned oidc_authz cookie and in ?service= (dispatch.go, level 0).
THEOREM CodesGoToTheirLogin == FlowSpec => []CodeForItsLogin
  <1>1. FlowInit => TokenInv /\ CodeForItsLogin
    BY NoAnswerKind DEF FlowInit, DispatchInit, TokenInv, CodeForItsLogin
  <1>2. FlowIInv /\ TokenInv /\ CodeForItsLogin /\ [FlowNext]_allVars
          => TokenInv' /\ CodeForItsLogin'
    BY LoginsKept
  <1> QED BY <1>1, <1>2, FlowInvariant, PTL DEF FlowSpec

=============================================================================
