---------------------------- MODULE FederatedFlow ----------------------------
(***************************************************************************)
(* Logins through Google, Microsoft, GitHub and the generic OIDC providers *)
(* (internal/auth/google.go, microsoft.go, github.go, oidc_generic.go,     *)
(* link_invite.go, state.go, federated.go), the Google login to the admin  *)
(* panel, and the linking of an invitation, which share state cookies and  *)
(* callbacks.  A start signs a state (service, nonce and purpose), keeps   *)
(* it in a cookie and sends the browser away; the provider sends it back   *)
(* with a code.  The tabs of a browser start attempts and come back in any *)
(* order, a callback may be opened again, and a callback URL may pair any  *)
(* state with any code.                                                    *)
(*                                                                         *)
(* A state and its nonce are known by the attempt that made them.  A       *)
(* callback is two steps: the checks before the provider's token endpoint  *)
(* is called, and what follows its answer, cookies included.  Which        *)
(* account the login resolves to is the subject of Identities, and what a  *)
(* finished link does that of LinkInvites: here they succeed or not.       *)
(***************************************************************************)
EXTENDS Dispatch

CONSTANTS
    Attempt,   \* attempts; the nonce of each is its name
    Slug,      \* generic providers
    Invite,    \* link invitations
    InviteFor, \* the service and the provider of each invitation
    Handler,   \* callbacks being served
    Revisable, \* bound on what administrators switch: pairs of service and method
    MaxCodes   \* bound on the codes a provider issues for one attempt

Method == {"google", "microsoft", "github"} \cup Slug

ASSUME InviteAssumption == InviteFor \in [Invite -> [service: Service, slug: Slug]]
ASSUME RevisableAssumption == Revisable \subseteq Service \X Method
ASSUME MaxCodesAssumption == MaxCodes \in Nat
ASSUME FlowNoneAssumption == None \notin Attempt \cup Slug \cup Invite
\* A slug is a name of its own, whatever an operator calls the provider: its
\* paths and its cookie are never those of the built-in methods.
ASSUME SlugAssumption == Slug \cap {"google", "microsoft", "github"} = {}

VARIABLES
    offered,   \* methods switched on or assigned, for each service
    cookie,    \* the state cookies of the browser
    states,    \* the claims of the signed state of each attempt
    started,   \* history: what each attempt was started for
    redeemed,  \* codes the provider has exchanged
    handler,   \* what each callback is doing
    completed  \* history: attempts that ended in a session or a link

flowVars == <<offered, cookie, states, started, redeemed, handler, completed>>
allVars == <<dispatchVars, flowVars>>

CookieName == {"oidc_state", "ms_state", "gh_state", "idp_state"}

stateClaims == [ServiceID: Service, Admin: BOOLEAN, IDP: Slug \cup {None},
                Link: Invite \cup {None}, GitHub: BOOLEAN]

Started == [flow: {"login", "admin", "link"}, method: Method, service: Service,
            invite: Invite \cup {None}]

ASSUME NoneIsNoRecord == None \notin stateClaims \cup Started \cup Authz

\* The k-th code the provider issued for an attempt.
Code == [attempt: Attempt, k: 1..MaxCodes]

Idle == [pc |-> "idle"]
Exchanging == [pc: {"exchange"}, path: Method, state: Attempt, code: Code]

Ended == [kind: {"session", "admin", "link"}, path: Method, state: Attempt,
          code: Code, service: Service, invite: Invite \cup {None}]

FlowTypeOK ==
    /\ active \subseteq Service
    /\ changes \in 0..MaxChanges
    /\ redirect \in URI \cup {None}
    /\ authz \in Authz \cup {None}
    /\ tokens \subseteq Service
    /\ answer \in {NoAnswer} \cup TokenAnswer \cup CodeAnswer \cup Ended
    /\ offered \in [Service -> SUBSET Method]
    /\ cookie \in [CookieName -> Attempt \cup {None}]
    /\ states \in [Attempt -> stateClaims \cup {None}]
    /\ started \in [Attempt -> Started \cup {None}]
    /\ redeemed \subseteq Code
    /\ handler \in [Handler -> {Idle} \cup Exchanging]
    /\ completed \subseteq Attempt

FlowInit ==
    /\ DispatchInit
    /\ offered = [s \in Service |-> Method]
    /\ cookie = [c \in CookieName |-> None]
    /\ states = [n \in Attempt |-> None]
    /\ started = [n \in Attempt |-> None]
    /\ redeemed = {}
    /\ handler = [h \in Handler |-> Idle]
    /\ completed = {}

-----------------------------------------------------------------------------
(* The signed state (state.go) *)

SignState(s) ==
    [ServiceID |-> s, Admin |-> FALSE, IDP |-> None, Link |-> None, GitHub |-> FALSE]

signAdminState(s) == [SignState(s) EXCEPT !.Admin = TRUE]

signIDPState(s, slug) == [SignState(s) EXCEPT !.IDP = slug]

signLinkState(s, slug, i) == [signIDPState(s, slug) EXCEPT !.Link = i]

signGitHubState(s) == [SignState(s) EXCEPT !.GitHub = TRUE]

CookieOf(method) ==
    CASE method = "google" -> "oidc_state"
      [] method = "microsoft" -> "ms_state"
      [] method = "github" -> "gh_state"
      [] OTHER -> "idp_state"

\* The state in the query is the one in the cookie of the callback.  Its age
\* is that of the cookie, which GrowOld ends.
readState(path, n) == cookie[CookieOf(path)] = n

-----------------------------------------------------------------------------
(* Starts *)

\* A new attempt: the state is signed, and the answer sets its cookie.
Start(n, flow, method, s, i, claims) ==
    /\ states[n] = None
    /\ states' = [states EXCEPT ![n] = claims]
    /\ started' = [started EXCEPT ![n] =
                     [flow |-> flow, method |-> method, service |-> s, invite |-> i]]
    /\ cookie' = [cookie EXCEPT ![CookieOf(method)] = n]
    /\ answer' = NoAnswer
    /\ UNCHANGED <<active, changes, authz, tokens, offered,
                   redeemed, handler, completed>>

\* The redirect_uri parameter replaces the cookie when it is there.
KeepRedirect(uri) == redirect' = IF uri = None THEN redirect ELSE uri

Startable(s, method) == s # None /\ method \in offered[s]

\* GET /oidc-login.
StartGoogle(n, id, uri) ==
    LET s == resolveRequestedService(id)
    IN  /\ Startable(s, "google")
        /\ KeepRedirect(uri)
        /\ Start(n, "login", "google", s, None, SignState(s))

\* The cookie is set before Google turns out to be switched off.
RefuseGoogle(id, uri) ==
    /\ uri # None
    /\ ~Startable(resolveRequestedService(id), "google")
    /\ KeepRedirect(uri)
    /\ answer' = NoAnswer
    /\ UNCHANGED <<active, changes, authz, tokens, flowVars>>

\* GET /admin/google-init.
InitiateAdminLogin(n) ==
    LET s == resolveRequestedService(None)
    IN  /\ Startable(s, "google")
        /\ Start(n, "admin", "google", s, None, signAdminState(s))
        /\ UNCHANGED redirect

\* GET /ms-oidc-login.
StartMicrosoft(n, id) ==
    LET s == resolveRequestedService(id)
    IN  /\ Startable(s, "microsoft")
        /\ Start(n, "login", "microsoft", s, None, SignState(s))
        /\ UNCHANGED redirect

\* GET /github-login.
StartGitHub(n, id) ==
    LET s == resolveRequestedService(id)
    IN  /\ Startable(s, "github")
        /\ Start(n, "login", "github", s, None, signGitHubState(s))
        /\ UNCHANGED redirect

\* GET /idp/{slug}/login; discovery has answered.
StartGeneric(n, id, slug, uri) ==
    LET s == resolveRequestedService(id)
    IN  /\ Startable(s, slug)
        /\ KeepRedirect(uri)
        /\ Start(n, "login", slug, s, None, signIDPState(s, slug))

\* POST /link/{token} of a valid invitation; discovery has answered.
StartLink(n, i) ==
    LET s == InviteFor[i].service
        slug == InviteFor[i].slug
    IN  /\ s \in active
        /\ Startable(s, slug)
        /\ Start(n, "link", slug, s, i, signLinkState(s, slug, i))
        /\ UNCHANGED redirect

-----------------------------------------------------------------------------
(* The provider, the browser and the administrators *)

\* The user logs in at the provider once or more often after the start, and
\* each time is sent back with a code.
Issued == {c \in Code : started[c.attempt] # None}

\* The ten minutes of a state, and of the cookie that keeps it, are over.
GrowOld(c) ==
    /\ cookie[c] # None
    /\ cookie' = [cookie EXCEPT ![c] = None]
    /\ answer' = NoAnswer
    /\ UNCHANGED <<active, changes, redirect, authz, tokens, offered, states,
                   started, redeemed, handler, completed>>

\* A method is switched off or on, a provider withdrawn or assigned.
SwitchMethod(s, m) ==
    /\ <<s, m>> \in Revisable
    /\ changes < MaxChanges
    /\ changes' = changes + 1
    /\ offered' = [offered EXCEPT ![s] = IF m \in @ THEN @ \ {m} ELSE @ \cup {m}]
    /\ answer' = NoAnswer
    /\ UNCHANGED <<active, redirect, authz, tokens, cookie, states, started,
                   redeemed, handler, completed>>

-----------------------------------------------------------------------------
(* Callbacks *)

\* Each callback takes the states signed for its purpose.  GitHub's and the
\* generic one ask again whether the service offers the method; Google's and
\* Microsoft's do not.
GooglePasses(c) == c.IDP = None /\ ~c.GitHub

MicrosoftPasses(c) == ~c.Admin /\ c.IDP = None /\ ~c.GitHub

GitHubPasses(c) == c.GitHub /\ "github" \in offered[c.ServiceID]

GenericPasses(slug, c) ==
    /\ c.IDP # None /\ ~c.Admin /\ ~c.GitHub
    /\ slug = c.IDP /\ slug \in offered[c.ServiceID]

Passes(path, c) ==
    /\ c.ServiceID \in active
    /\ CASE path = "google" -> GooglePasses(c)
         [] path = "microsoft" -> MicrosoftPasses(c)
         [] path = "github" -> GitHubPasses(c)
         [] OTHER -> GenericPasses(path, c)

\* GitHub's and the generic callback clear the cookie whatever comes of it.
ClearedAlways(path) == path = "github" \/ path \in Slug

\* Faulty variant: the method of Google and Microsoft names no cookie.
ClearNamed(path) ==
    cookie' = IF ClearedAlways(path) THEN [cookie EXCEPT ![CookieOf(path)] = None]
              ELSE cookie

ClearCookie(path) == cookie' = [cookie EXCEPT ![CookieOf(path)] = None]

\* The callback is refused before a code is exchanged: the wrong purpose, a
\* service or method that is gone, an error of the provider, a discovery that
\* fails.  Google's and Microsoft's then leave everything as it is.
RefuseCallback(path, n) ==
    /\ readState(path, n)
    /\ ClearedAlways(path) /\ ClearCookie(path)
    /\ answer' = NoAnswer
    /\ UNCHANGED <<active, changes, redirect, authz, tokens, offered, states,
                   started, redeemed, handler, completed>>

BeginCallback(h, path, n, c) ==
    /\ handler[h] = Idle
    /\ readState(path, n)
    /\ Passes(path, states[n])
    /\ c \in Issued
    /\ handler' = [handler EXCEPT ![h] =
                     [pc |-> "exchange", path |-> path, state |-> n, code |-> c]]
    /\ answer' = NoAnswer
    /\ UNCHANGED <<active, changes, redirect, authz, tokens, offered, cookie,
                   states, started, redeemed, completed>>

\* The verifier is derived from the state, so that the challenge sent at one
\* start is answered only by the callback with that state.
PKCEVerifier(n, c) == c.attempt = n

\* The provider exchanges a code once, for the client it was issued to, and
\* with the verifier of its state where the start sent a challenge.
Exchanges(path, n, c) ==
    /\ c \notin redeemed
    /\ started[c.attempt].method = path
    /\ (path = "github" \/ path \in Slug) => PKCEVerifier(n, c)

\* Faulty variant: the id_token of any attempt will do.
AnyNonce(path, n, c) == TRUE

\* The nonce of the id_token is the one of the state; GitHub has none.
checkIDTokenNonce(path, n, c) == path = "github" \/ c.attempt = n

\* The code is exchanged and its id_token bound to this very attempt.
Verified(r) ==
    Exchanges(r.path, r.state, r.code) /\ checkIDTokenNonce(r.path, r.state, r.code)

\* The exchange fails, its answer is lost, or the id_token is refused.
FailCallback(h) ==
    LET r == handler[h]
    IN  /\ r.pc = "exchange"
        /\ redeemed' \in {redeemed, redeemed \cup {r.code}}
        /\ handler' = [handler EXCEPT ![h] = Idle]
        /\ IF ClearedAlways(r.path) THEN ClearCookie(r.path) ELSE UNCHANGED cookie
        /\ answer' = NoAnswer
        /\ UNCHANGED <<active, changes, redirect, authz, tokens, offered,
                       states, started, completed>>

\* The identity is verified, and the account, the policy or the link refused.
DenyCallback(h) ==
    LET r == handler[h]
    IN  /\ r.pc = "exchange"
        /\ Verified(r)
        /\ redeemed' = redeemed \cup {r.code}
        /\ handler' = [handler EXCEPT ![h] = Idle]
        /\ IF ClearedAlways(r.path) \/ states[r.state].Admin
           THEN ClearCookie(r.path) ELSE UNCHANGED cookie
        /\ answer' = NoAnswer
        /\ UNCHANGED <<active, changes, redirect, authz, tokens, offered,
                       states, started, completed>>

\* What a verified callback ends in: the purpose in the state says which.
KindOf(c) ==
    IF c.Admin THEN "admin" ELSE IF c.Link # None THEN "link" ELSE "session"

\* completeAdminLogin, finishLink or finish succeed; a session brings a token
\* for the service of the state, and clears the cookie of the method.
FinishCallback(h) ==
    LET r == handler[h]
        c == states[r.state]
    IN  /\ r.pc = "exchange"
        /\ Verified(r)
        /\ redeemed' = redeemed \cup {r.code}
        /\ handler' = [handler EXCEPT ![h] = Idle]
        /\ ClearCookie(r.path)
        /\ completed' = completed \cup {r.state}
        /\ tokens' = IF KindOf(c) = "session" THEN tokens \cup {c.ServiceID} ELSE tokens
        /\ answer' = [kind |-> KindOf(c), path |-> r.path, state |-> r.state,
                      code |-> r.code, service |-> c.ServiceID, invite |-> c.Link]
        /\ UNCHANGED <<active, changes, redirect, authz, offered, states,
                       started>>

-----------------------------------------------------------------------------
DispatchNext ==
    \/ \E s \in Service : SwitchService(s)
    \/ \E s \in Service, uri \in URI : ServeAuthorize(s, uri) \/ AlteredAuthz(s, uri)
    \/ ServeLogin
    \/ \E aud \in Service, id \in Service \cup {None} : ServeDispatch(aud, id)

StartNext ==
    \E n \in Attempt :
        \/ \E id \in Service \cup {None} :
              \/ \E uri \in URI \cup {None} :
                    \/ StartGoogle(n, id, uri)
                    \/ \E slug \in Slug : StartGeneric(n, id, slug, uri)
              \/ StartMicrosoft(n, id)
              \/ StartGitHub(n, id)
        \/ InitiateAdminLogin(n)
        \/ \E i \in Invite : StartLink(n, i)

CallbackNext ==
    \/ \E n \in Attempt, path \in Method :
          \/ RefuseCallback(path, n)
          \/ \E h \in Handler, c \in Code : BeginCallback(h, path, n, c)
    \/ \E h \in Handler : FailCallback(h) \/ DenyCallback(h) \/ FinishCallback(h)

FlowNext ==
    \/ DispatchNext /\ UNCHANGED flowVars
    \/ StartNext
    \/ \E id \in Service \cup {None}, uri \in URI : RefuseGoogle(id, uri)
    \/ CallbackNext
    \/ \E c \in CookieName : GrowOld(c)
    \/ \E s \in Service, m \in Method : SwitchMethod(s, m)

FlowSpec == FlowInit /\ [][FlowNext]_allVars

-----------------------------------------------------------------------------
(* Properties *)

\* Whatever tabs, callbacks and repeated URLs do to each other, a callback
\* ends as its own attempt was started: an admin session only from
\* /admin/google-init, a link only from its invitation and never a login in
\* its place, a session only for the service and the provider of the start,
\* and always with a code the provider issued for that very attempt
\* (google.go finishCallback, oidc_generic.go HandleCallback, state.go).  The
\* state of the flow is always of its type.
EndedAsStarted ==
    /\ FlowTypeOK
    /\ answer.kind \in {"session", "admin", "link"} =>
         LET s == started[answer.state]
         IN  /\ answer.code.attempt = answer.state
             /\ answer.path = s.method
             /\ answer.service = s.service
             /\ answer.invite = s.invite
             /\ answer.kind = IF s.flow = "login" THEN "session" ELSE s.flow

\* An attempt that has ended in a session or a link has no cookie left that a
\* later callback could bring: its state is not accepted again, although the
\* state itself stays valid for ten minutes (login_complete.go complete,
\* github.go "Cookien er engangsbruk uansett utfall").
SpentStateGone ==
    \A c \in CookieName : cookie[c] \notin completed

\* An authorization code is given only for a client the browser has completed
\* a login for, and sent only to an address that client has registered,
\* whatever the unsigned oidc_authz cookie holds, whichever tab's abandoned
\* request it is left over from, and whatever ?service= says (dispatch.go,
\* level 0).
CodeForItsLogin ==
    answer.kind = "code" =>
        /\ \E n \in completed : started[n].flow = "login" /\ started[n].service = answer.client
        /\ answer.to \in CallbackURLs(answer.client)

=============================================================================
