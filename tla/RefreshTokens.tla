--------------------------- MODULE RefreshTokens ---------------------------
(***************************************************************************)
(* Refresh-token rotation with reuse detection: RefreshService             *)
(* (internal/token/refresh.go), the refresh branch of POST /token          *)
(* (internal/auth/token_endpoint.go), token issue after a login            *)
(* (internal/auth/login_complete.go), GET /logout (dispatch.go), the admin *)
(* operations that end sessions, and the hourly cleanup job.               *)
(*                                                                         *)
(* Every HTTP request is a goroutine.  It takes one step per database      *)
(* statement or transaction, so requests interleave exactly where SQLite   *)
(* lets them.  A statement may also fail (SQLITE_BUSY, a cancelled         *)
(* context); MaxFaults bounds how often that happens in a behaviour.       *)
(* Ticks of the clock are abstract; MaxClock bounds them.                  *)
(*                                                                         *)
(* Left out: audit and log lines, the Origin check and the parameter       *)
(* checks that answer before any state is read, and the access token       *)
(* itself, which kauth cannot take back.                                   *)
(***************************************************************************)
EXTENDS RefreshTable

CONSTANTS
    Request,    \* request slots: how many handlers run at the same time
    MaxClock,   \* bound on the clock
    MaxFaults   \* bound on failing database statements

ASSUME BoundsAssumption == MaxClock \in Nat /\ MaxFaults \in Nat

VARIABLES
    rows,       \* the refresh_tokens table
    held,       \* tokens that have left the server in a response
    active,     \* users.deactivated_at IS NULL, per user
    clock,      \* time.Now()
    faults,     \* failing statements so far
    req,        \* what each request slot is doing
    hist        \* what past responses have promised; read by properties only

vars == <<rows, held, active, clock, faults, req, hist>>

PC == {"idle", "rotate", "classify", "user", "authorize", "revoke",
       "issue", "logout", "revokeUser"}

Outcome == {"none", "granted", "reused", "invalid_token", "user_inactive", "transient",
            "invalid_grant", "issue_failed", "server_error", "issued",
            "logged_out", "logout_repeated", "logout_unknown", "logout_failed",
            "deactivated"}

(***************************************************************************)
(* now is the time.Now() the handler read when it started, token the one   *)
(* presented, child the one a rotation made, family its family and the one *)
(* to revoke, user the owner, outcome the response already settled on.     *)
(* replay and locked only record, for the properties, that the presented   *)
(* token had already been used, or its owner deactivated, at the start.    *)
(***************************************************************************)
Req == [pc: PC, now: Nat, token: Token \cup {None}, child: Token \cup {None},
        family: Family \cup {None}, user: User \cup {None}, outcome: Outcome,
        replay: BOOLEAN, locked: BOOLEAN]

NoReq == [pc |-> "idle", now |-> 0, token |-> None, child |-> None,
          family |-> None, user |-> None, outcome |-> "none",
          replay |-> FALSE, locked |-> FALSE]

(***************************************************************************)
(* ended: families whose session a response has declared over; denied:     *)
(* families a refused refresh answered for although the revocation failed; *)
(* replayed: families of which a consumed token was presented to a request *)
(* that met no failure; lateGrant: tokens were handed out to a request     *)
(* that started after the user was deactivated.                            *)
(***************************************************************************)
Hist == [ended: SUBSET Family, denied: SUBSET Family, replayed: SUBSET Family,
         lateGrant: BOOLEAN]

NoHist == [ended |-> {}, denied |-> {}, replayed |-> {}, lateGrant |-> FALSE]

\* Refusals after the rotation: the cookie is cleared, the family revoked and
\* the child, which only the response would have carried, thrown away.
Denials == {"user_inactive", "invalid_grant", "issue_failed"}

EndsSession == Denials \cup {"logged_out", "logout_repeated", "reused"}

TypeOK ==
    /\ rows \in [Token -> Row]
    /\ held \subseteq Token
    /\ active \in [User -> BOOLEAN]
    /\ clock \in Nat
    /\ faults \in Nat
    /\ req \in [Request -> Req]
    /\ hist \in Hist

Init ==
    /\ rows = [t \in Token |-> NoRow]
    /\ held = {}
    /\ active = [u \in User |-> TRUE]
    /\ clock = 0
    /\ faults = 0
    /\ req = [r \in Request |-> NoReq]
    /\ hist = NoHist

-----------------------------------------------------------------------------
(* Steps of a request *)

At(r, pc) == req[r].pc = pc

Goto(r, pc) ==
    /\ req' = [req EXCEPT ![r].pc = pc]
    /\ UNCHANGED hist

\* Answer the client and free the slot: the handler's variables are gone.
Finish(r, outcome) ==
    /\ req' = [req EXCEPT ![r] = NoReq]
    /\ hist' = [hist EXCEPT
                  !.ended = IF outcome \in EndsSession THEN @ \cup {req[r].family} ELSE @,
                  !.replayed = IF req[r].replay THEN @ \cup {req[r].family} ELSE @,
                  !.lateGrant = @ \/ (outcome = "granted" /\ req[r].locked)]

\* Go on to RevokeFamily, answering outcome whether or not it succeeds.
RevokeThen(r, f, outcome) ==
    /\ req' = [req EXCEPT ![r].pc = "revoke", ![r].family = f, ![r].outcome = outcome]
    /\ UNCHANGED hist

\* A statement of this request fails and the handler answers with an error.
Fail(r) ==
    /\ faults < MaxFaults
    /\ faults' = faults + 1
    /\ req' = [req EXCEPT ![r] = NoReq]
    /\ UNCHANGED <<rows, held, active, clock, hist>>

-----------------------------------------------------------------------------
(* POST /token, grant_type=refresh_token *)

\* The client, or whoever else holds a copy, presents a token.  Rotate reads
\* the clock before it waits for the write lock.
BeginRefresh(r, t) ==
    /\ At(r, "idle")
    /\ t \in held
    /\ req' = [req EXCEPT ![r] =
                 [NoReq EXCEPT !.pc = "rotate", !.token = t, !.now = clock,
                               !.family = rows[t].family,
                               !.replay = rows[t].used,
                               !.locked = ~active[rows[t].user]]]
    /\ UNCHANGED <<rows, held, active, clock, faults, hist>>

\* One transaction: consume the presented row and insert its child.
Rotate(r) ==
    /\ At(r, "rotate")
    /\ LET t == req[r].token IN
       /\ Consumable(rows, t, req[r].now)
       /\ \E c \in Token :
            /\ rows[c].st = "none"
            /\ rows' = InsertRefreshToken(ConsumeRefreshToken(rows, t), c,
                                          childOf(rows, t, req[r].now))
            /\ req' = [req EXCEPT ![r].pc = "user", ![r].child = c,
                                  ![r].user = rows[t].user]
    /\ UNCHANGED <<held, active, clock, faults, hist>>

\* ConsumeRefreshToken matched no row (sql.ErrNoRows); the transaction ends.
RotateRejected(r) ==
    /\ At(r, "rotate")
    /\ ~Consumable(rows, req[r].token, req[r].now)
    /\ Goto(r, "classify")
    /\ UNCHANGED <<rows, held, active, clock, faults>>

\* Any other error rolls the transaction back; the client keeps its cookie.
RotateFails(r) == At(r, "rotate") /\ Fail(r)

\* Faulty variant: reuse is reported but the family is left alone.
classifyWithoutRevoking(r) ==
    /\ At(r, "classify")
    /\ Finish(r, "invalid_token")
    /\ UNCHANGED <<rows, held, active, clock, faults>>

\* Outside the transaction: why was the token rejected?
classifyRejected(r) ==
    /\ At(r, "classify")
    /\ LET t == req[r].token IN
       \/ /\ ~Present(rows, t)
          /\ Finish(r, "invalid_token")
       \/ /\ Present(rows, t) /\ rows[t].used
          /\ RevokeThen(r, rows[t].family, "reused")
       \/ /\ Present(rows, t) /\ ~rows[t].used /\ rows[t].revoked
          /\ RevokeThen(r, rows[t].family, "invalid_token")
       \/ /\ Present(rows, t) /\ ~rows[t].used /\ ~rows[t].revoked
          /\ Finish(r, "invalid_token")
    /\ UNCHANGED <<rows, held, active, clock, faults>>

ClassifyFails(r) == At(r, "classify") /\ Fail(r)

\* Faulty variant: the user is not looked up again after the rotation.
uncheckedSessionUser(r) ==
    /\ At(r, "user")
    /\ Goto(r, "authorize")
    /\ UNCHANGED <<rows, held, active, clock, faults>>

\* activeSessionUser: GetActiveUserByID on the row's user_id.
activeSessionUser(r) ==
    /\ At(r, "user")
    /\ \/ /\ active[req[r].user]
          /\ Goto(r, "authorize")
       \/ /\ ~active[req[r].user]
          /\ RevokeThen(r, rows[req[r].child].family, "user_inactive")
    /\ UNCHANGED <<rows, held, active, clock, faults>>

\* A transient error here answers 401 and revokes nothing.
UserLookupFails(r) == At(r, "user") /\ Fail(r)

\* Faulty variant: a denial answers without revoking the new child.
AuthorizeKeepingChild(r) ==
    /\ At(r, "authorize")
    /\ \/ /\ held' = held \cup {req[r].child}
          /\ Finish(r, "granted")
       \/ /\ \E denial \in {"invalid_grant", "issue_failed"} : Finish(r, denial)
          /\ UNCHANGED held
    /\ UNCHANGED <<rows, active, clock, faults>>

\* Faulty variant: the new cookies are set before service, policy and signing
\* have been checked, so that a refusal carries the child.
AuthorizeSendingChild(r) ==
    /\ At(r, "authorize")
    /\ held' = held \cup {req[r].child}
    /\ \/ Finish(r, "granted")
       \/ \E denial \in {"invalid_grant", "issue_failed"} :
            RevokeThen(r, rows[req[r].child].family, denial)
    /\ UNCHANGED <<rows, active, clock, faults>>

\* Service registry, policy and signing are in memory: one step.  Which way
\* they go depends on configuration this module does not keep.
Authorize(r) ==
    /\ At(r, "authorize")
    /\ \/ /\ held' = held \cup {req[r].child}
          /\ Finish(r, "granted")
       \/ /\ \E denial \in {"invalid_grant", "issue_failed"} :
               RevokeThen(r, rows[req[r].child].family, denial)
          /\ UNCHANGED held
    /\ UNCHANGED <<rows, active, clock, faults>>

\* RevokeFamily under context.WithoutCancel, then the answer already chosen.
RevokeFamily(r) ==
    /\ At(r, "revoke")
    /\ rows' = RevokeFamilyTokens(rows, req[r].family)
    /\ Finish(r, req[r].outcome)
    /\ UNCHANGED <<held, active, clock, faults>>

\* The statement fails: it is logged and the same answer is given, except
\* that a logout then reports ok=false.
RevokeFamilyFails(r) ==
    /\ At(r, "revoke")
    /\ faults < MaxFaults
    /\ faults' = faults + 1
    /\ req' = [req EXCEPT ![r] = NoReq]
    /\ hist' = [hist EXCEPT
                  !.denied = IF req[r].outcome \in Denials THEN @ \cup {req[r].family} ELSE @]
    /\ UNCHANGED <<rows, held, active, clock>>

-----------------------------------------------------------------------------
(* Login: loginCompleter.complete and RefreshService.Issue *)

\* The user row is read while the user is active; the token is inserted later.
BeginLogin(r, u) ==
    /\ At(r, "idle")
    /\ active[u]
    /\ req' = [req EXCEPT ![r] = [NoReq EXCEPT !.pc = "issue", !.user = u, !.now = clock]]
    /\ UNCHANGED <<rows, held, active, clock, faults, hist>>

\* Issue reads the clock, builds the row and then waits for the write lock: now
\* is a time between the start of the handler and the insert.
Issue(r) ==
    /\ At(r, "issue")
    /\ \E t \in Token, f \in Family, s \in Service, m \in MaxAges, now \in req[r].now .. clock :
         /\ rows[t].st = "none"
         /\ ~FamilyStarted(rows, f)
         /\ rows' = InsertRefreshToken(rows, t, newRootToken(req[r].user, s, f, m, now))
         /\ held' = held \cup {t}
         /\ Finish(r, "issued")
    /\ UNCHANGED <<active, clock, faults>>

IssueFails(r) == At(r, "issue") /\ Fail(r)

-----------------------------------------------------------------------------
(* GET /logout: RevokeFamilyOfToken *)

BeginLogout(r, t) ==
    /\ At(r, "idle")
    /\ t \in held
    /\ req' = [req EXCEPT ![r] = [NoReq EXCEPT !.pc = "logout", !.token = t]]
    /\ UNCHANGED <<rows, held, active, clock, faults, hist>>

\* The family is revoked even when the row read here already was; only the
\* audit line differs then.
LogoutLookup(r) ==
    /\ At(r, "logout")
    /\ LET t == req[r].token IN
       \/ /\ ~Present(rows, t)
          /\ Finish(r, "logout_unknown")
       \/ /\ Present(rows, t)
          /\ RevokeThen(r, rows[t].family,
                        IF rows[t].revoked THEN "logout_repeated" ELSE "logged_out")
    /\ UNCHANGED <<rows, held, active, clock, faults>>

LogoutLookupFails(r) == At(r, "logout") /\ Fail(r)

-----------------------------------------------------------------------------
(* Admin *)

\* HandleDeactivate: deactivated_at is committed first, the user's tokens are
\* revoked by a second statement outside that transaction.
Deactivate(r, u) ==
    /\ At(r, "idle")
    /\ active' = [active EXCEPT ![u] = FALSE]
    /\ req' = [req EXCEPT ![r] = [NoReq EXCEPT !.pc = "revokeUser", !.user = u]]
    /\ UNCHANGED <<rows, held, clock, faults, hist>>

RevokeUser(r) ==
    /\ At(r, "revokeUser")
    /\ rows' = RevokeUserRefreshTokens(rows, req[r].user)
    /\ Finish(r, "deactivated")
    /\ UNCHANGED <<held, active, clock, faults>>

\* The deactivation stands when the revocation fails.
RevokeUserFails(r) == At(r, "revokeUser") /\ Fail(r)

\* HandleEmailChange and HandleUnlink revoke inside their one transaction.
EndUserSessions(u) ==
    /\ rows' = RevokeUserRefreshTokens(rows, u)
    /\ UNCHANGED <<held, active, clock, faults, req, hist>>

-----------------------------------------------------------------------------
(* Background *)

cleanRefreshTokens ==
    /\ \E t \in Token : Expired(rows[t], clock)
    /\ rows' = DeleteExpiredRefreshTokens(rows, clock)
    /\ UNCHANGED <<held, active, clock, faults, req, hist>>

Tick ==
    /\ clock < MaxClock
    /\ clock' = clock + 1
    /\ UNCHANGED <<rows, held, active, faults, req, hist>>

-----------------------------------------------------------------------------
\* What the server does by itself once a request has arrived.
ServerStep(r) ==
    \/ Rotate(r) \/ RotateRejected(r) \/ RotateFails(r)
    \/ classifyRejected(r) \/ ClassifyFails(r)
    \/ activeSessionUser(r) \/ UserLookupFails(r)
    \/ Authorize(r)
    \/ RevokeFamily(r) \/ RevokeFamilyFails(r)
    \/ Issue(r) \/ IssueFails(r)
    \/ LogoutLookup(r) \/ LogoutLookupFails(r)
    \/ RevokeUser(r) \/ RevokeUserFails(r)

\* What clients, administrators and time do.
EnvironmentStep ==
    \/ \E r \in Request, t \in Token : BeginRefresh(r, t)
    \/ \E r \in Request, t \in Token : BeginLogout(r, t)
    \/ \E r \in Request, u \in User : BeginLogin(r, u)
    \/ \E r \in Request, u \in User : Deactivate(r, u)
    \/ \E u \in User : EndUserSessions(u)
    \/ Tick

Next ==
    \/ \E r \in Request : ServerStep(r)
    \/ EnvironmentStep
    \/ cleanRefreshTokens

Spec == Init /\ [][Next]_vars

\* A handler that has started runs to its end: goroutines are scheduled, every
\* statement returns (busy_timeout), and revocations ignore client cancellation.
FairSpec == Spec /\ \A r \in Request : WF_vars(ServerStep(r))
-----------------------------------------------------------------------------
(* Properties *)

\* However rotations, logouts, deactivations and cleanup interleave, a family
\* has at most one row that Rotate has not consumed yet: two concurrent
\* refreshes with the same token cannot both extend the session.
SingleLiveToken == SingleLive(rows)

\* The family is the unit of revocation (ADN 10): its rows agree on owner,
\* service and absolute end, and they are all revoked or none is, although
\* rotation inserts rows while other requests are revoking.
FamilyMovesTogether == SameFamilyData(rows) /\ RevokedTogether(rows)

\* A consumed token has at most one child, so the row GetRefreshChild reads
\* with LIMIT 1 for the reuse gap is the child of the rotation that consumed
\* it; cleanup never leaves a parent_id that points nowhere.
OneChildPerToken == OneChild(rows)

\* Once every remaining row of a family is revoked (or deleted) nothing ever
\* brings the family back: no rotation that is still in flight, no later login.
DeadFamilyStaysDead ==
    [][\A f \in Family : FamilyStarted(rows, f) /\ Dead(rows, f) => Dead(rows, f)']_vars

\* The session a family stands for.
SessionState ==
    [f \in Family |-> IF ~FamilyStarted(rows, f) THEN "unborn"
                      ELSE IF Dead(rows, f) THEN "dead" ELSE "live"]

Sess == INSTANCE Sessions WITH Session <- Family, state <- SessionState

\* Token families implement sessions: whatever statement runs, in whatever
\* order, families start one at a time and never twice, rotation changes no
\* session, and revocation and cleanup only end sessions.
ImplementsSessions == Sess!Spec

\* A request that presented an already consumed token and met no database
\* failure leaves the family dead, also when the winner of a race was still
\* inserting the child; a family with an absolute end is never forgotten by
\* cleanup before that end.
ReplayKillsFamily == \A f \in hist.replayed : Capped(rows, f) => Dead(rows, f)

\* An answer that ends the session (logout, reuse, inactive user, refused
\* service or policy, failed signing) leaves no row of the family to refresh
\* with, including the child this very request had just inserted.  A refusal
\* whose revocation failed gives the same answer and leaves the child alive:
\* then nobody has a token of the family that a refresh would accept, ever.
\* (Reuse whose revocation failed is answered too and promises neither.)
EndedSessionIsDead ==
    /\ \A f \in hist.ended : Dead(rows, f)
    /\ \A f \in hist.denied, t \in held :
         rows[t].family = f => ~Present(rows, t) \/ rows[t].used \/ rows[t].revoked

\* A refresh that starts after the user was deactivated never yields tokens,
\* also when revoking the user's tokens failed or a login that was already
\* under way created a family afterwards.
DeactivatedUserLockedOut == ~hist.lateGrant

\* A replayed token is acted on: once presented, the family is dead sooner or
\* later unless a statement of that request failed.
ReplayEventuallyKills ==
    \A f \in Family :
        (\E r \in Request : At(r, "rotate") /\ req[r].replay /\ req[r].family = f)
        ~> Dead(rows, f) \/ faults > 0
=============================================================================
