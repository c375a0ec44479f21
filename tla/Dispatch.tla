------------------------------ MODULE Dispatch ------------------------------
(***************************************************************************)
(* Where a login ends: the login page (internal/auth/login.go), the two    *)
(* unsigned cookies that carry its destination, redirect_uri and           *)
(* oidc_authz, and GET /dispatch (dispatch.go), which reads them, the      *)
(* access token and ?service= from the URL, and sends the browser on.      *)
(*                                                                         *)
(* One browser on one auth host, any number of tabs: the tabs share the    *)
(* cookies, and a URL they hold may be opened again.  A token is known by  *)
(* the service it was issued for (aud).  Whether its user still exists is  *)
(* an input of the dispatch: AuthorizationCodes follows the user.          *)
(***************************************************************************)
EXTENDS Integers, Sequences, SequencesExt

CONSTANTS
    Service,         \* service ids
    URI,             \* redirect addresses, registered or not
    CallbackUrl,     \* callback_url: the registered addresses, in order
    OwnHost,         \* services whose auth_host is this host
    OtherHost,       \* services whose auth_host is another host
    DefaultService,  \* the row with is_default
    MaxChanges,      \* bound on changes by administrators
    None

ASSUME CallbackAssumption ==
    /\ CallbackUrl \in [Service -> Seq(URI)]
    /\ \A s \in Service : CallbackUrl[s] # <<>>
ASSUME HostAssumption ==
    /\ OwnHost \subseteq Service /\ OtherHost \subseteq Service
    /\ OwnHost \cap OtherHost = {}
    /\ DefaultService \in Service
ASSUME MaxChangesAssumption == MaxChanges \in Nat
ASSUME DispatchNoneAssumption == None \notin Service \cup URI

VARIABLES
    active,    \* service.Registry.cache: the active services
    changes,   \* changes by administrators so far
    redirect,  \* the redirect_uri cookie
    authz,     \* the oidc_authz cookie: client and address, or None
    tokens,    \* the aud of the access tokens the tabs hold
    answer     \* history: what the last step answered, if it ended a login

dispatchVars == <<active, changes, redirect, authz, tokens, answer>>

Authz == [client: Service, uri: URI]

NoAnswer == [kind |-> "none"]

TokenAnswer == [kind: {"token"}, aud: Service, to: URI, traced: BOOLEAN]
CodeAnswer == [kind: {"code"}, aud: Service, client: Service, to: URI]

DispatchInit ==
    /\ active = Service
    /\ changes = 0
    /\ redirect = None
    /\ authz = None
    /\ tokens = {}
    /\ answer = NoAnswer

-----------------------------------------------------------------------------
(* The registry (internal/service/registry.go) *)

\* Resolve("", id, ""): nil for a service that is not active.
Resolve(id) == IF id \in active THEN id ELSE None

\* The first of the active services with a property, in the cache's order.
FirstOf(S) == IF S = {} THEN None ELSE CHOOSE s \in S : TRUE

Default == IF DefaultService \in active THEN DefaultService ELSE FirstOf(active)

HostService == FirstOf(OwnHost \cap active)

\* A requested service counts unless it has another auth host.
resolveRequestedService(id) ==
    IF id \in active \ OtherHost THEN id
    ELSE IF HostService # None THEN HostService
    ELSE Default

CallbackURLs(s) == ToSet(CallbackUrl[s])

\* IsAllowedCallback: false for a service the registry does not know.
IsAllowedCallback(s, uri) == s \in active /\ uri \in CallbackURLs(s)

PrimaryCallback(s) == Head(CallbackUrl[s])

\* A save of the panel activates or deactivates a service.
SwitchService(s) ==
    /\ changes < MaxChanges
    /\ changes' = changes + 1
    /\ active' = IF s \in active THEN active \ {s} ELSE active \cup {s}
    /\ answer' = NoAnswer
    /\ UNCHANGED <<redirect, authz, tokens>>

-----------------------------------------------------------------------------
(* GET /login *)

\* An authorization request of a client, with PKCE and a registered address.
ServeAuthorize(client, uri) ==
    /\ IsAllowedCallback(client, uri)
    /\ authz' = [client |-> client, uri |-> uri]
    /\ answer' = NoAnswer
    /\ UNCHANGED <<active, changes, redirect, tokens>>

\* The cookie is unsigned: what the browser brings back need not be what
\* ServeAuthorize wrote, nor have been validated by anybody.
AlteredAuthz(client, uri) ==
    /\ authz' = [client |-> client, uri |-> uri]
    /\ answer' = NoAnswer
    /\ UNCHANGED <<active, changes, redirect, tokens>>

\* Any other login page takes an abandoned request away.
ServeLogin ==
    /\ authz' = None
    /\ answer' = NoAnswer
    /\ UNCHANGED <<active, changes, redirect, tokens>>

-----------------------------------------------------------------------------
(* GET /dispatch *)

\* Faulty variant: takes it that /login has validated the address.
CodeToAnyAddress(aud, service) ==
    /\ service = authz.client /\ authz.client \in active
    /\ aud = authz.client

\* Faulty variant: trusts ?service=, which the browser chooses.
CodeForRequested(aud, service) ==
    /\ service = authz.client
    /\ IsAllowedCallback(authz.client, authz.uri)

\* Level 0 checks the cookie again: the login was for the client, the address
\* is registered and the token was issued for the client.
CodeForClient(aud, service) ==
    /\ service = authz.client
    /\ IsAllowedCallback(authz.client, authz.uri)
    /\ aud = authz.client

\* Level 0: a fresh token of an existing user becomes an authorization code.
DispatchCode(aud, service) ==
    /\ authz # None
    /\ CodeForClient(aud, service)
    /\ authz' = None
    /\ answer' = [kind |-> "code", aud |-> aud, client |-> authz.client,
                  to |-> authz.uri]

\* auditAudMismatch: the token is sent to a service it was not issued for,
\* at an address its own service does not have either.
AudMismatch(aud, target, uri) ==
    /\ aud # target
    /\ ~IsAllowedCallback(aud, uri)

Send(aud, uri, traced) ==
    answer' = [kind |-> "token", aud |-> aud, to |-> uri, traced |-> traced]

\* Services that have the address of the redirect_uri cookie.
CookieTargets == {s \in active : redirect \in CallbackURLs(s)}

\* Faulty variant: the login service is taken for the token's.
CookieTracedByHint(aud, service, target) == service \notin CookieTargets

\* Is the delivery to the cookie's address audited?  The mismatch with the
\* login service is; the aud is looked at unless that says the same.
CookieTraced(aud, service, target) ==
    LET sharedWithLogin == service \in CookieTargets
        loginInAud == ~sharedWithLogin /\ service = aud
    IN  ~sharedWithLogin \/ (~loginInAud /\ AudMismatch(aud, target, redirect))

\* Level 1: the address in the cookie, if some service has registered it.
DispatchCookie(aud, service) ==
    LET target == FirstOf(CookieTargets)
    IN  /\ CookieTargets # {}
        /\ Send(aud, redirect, CookieTraced(aud, service, target))

\* Levels 2 to 5: ?service=, the host, an organisation of the user, the default.
DispatchTo(aud, target) ==
    LET uri == PrimaryCallback(target)
    IN  Send(aud, uri, AudMismatch(aud, target, uri))

DispatchForward(aud, service) ==
    /\ authz = None
    /\ \/ DispatchCookie(aud, service)
       \/ /\ CookieTargets = {}
          /\ \/ /\ Resolve(service) # None
                /\ DispatchTo(aud, service)
             \/ /\ Resolve(service) = None
                /\ IF HostService # None THEN DispatchTo(aud, HostService)
                   ELSE \/ \E org \in active : DispatchTo(aud, org)
                        \/ Default # None /\ DispatchTo(aud, Default)
    /\ UNCHANGED authz

\* The cookie is refused, the token too old for a code, or its user gone or
\* another: back to the login page.
DispatchRefused ==
    /\ authz' = None
    /\ answer' = NoAnswer

\* service is the query's.
ServeDispatch(aud, service) ==
    /\ aud \in tokens
    /\ redirect' = None
    /\ \/ DispatchCode(aud, service)
       \/ DispatchForward(aud, service)
       \/ DispatchRefused
    /\ UNCHANGED <<active, changes, tokens>>

-----------------------------------------------------------------------------
(* Properties *)

\* A token that goes to an address its service has not registered leaves an
\* audit event behind, whichever level of ServeDispatch sent it there: what a
\* left-over redirect_uri cookie, a service deactivated during the login or a
\* wrong ?service= can cause is visible (dispatch.go, "Bare audit").
ForeignDeliveryTraced ==
    answer.kind = "token" =>
        answer.to \in CallbackURLs(answer.aud) \/ answer.traced

=============================================================================
