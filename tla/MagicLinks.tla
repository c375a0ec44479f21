----------------------------- MODULE MagicLinks -----------------------------
(***************************************************************************)
(* Magic links: POST /magic-login and POST /admin/login store a link under *)
(* a quota and mail it, POST /magic-login/{token} and POST /admin/verify   *)
(* consume it and log somebody in (internal/auth/magic.go,                 *)
(* internal/admin/auth.go), while the admin panel changes addresses,       *)
(* creates and deactivates users (internal/admin/users*.go) and the hourly *)
(* job deletes old links.                                                  *)
(*                                                                         *)
(* A link is bound to an address, and the address decides who is logged in *)
(* only when the link is redeemed.  Addresses are in normalised form.      *)
(* Mail takes any time or is lost: a stored link may be presented at any   *)
(* later moment, or never.  Every request takes one step per statement,    *)
(* and every statement may fail.  The refresh tokens a login starts and an *)
(* email change revokes belong to RefreshTokens.  Which service a link is  *)
(* bound to, roles, auto_register and policy are configuration this module *)
(* does not keep: where the code asks for them both answers are allowed.   *)
(***************************************************************************)
EXTENDS Integers, FiniteSets, Sequences

CONSTANTS
    Link,       \* link tokens
    Email,      \* addresses
    User,       \* user ids
    Request,    \* request slots
    Quota,      \* links per address and purpose in a window (3 in the code)
    Window,     \* the quota's window (15 minutes)
    LinkTTL,    \* lifetime of a link (15 minutes)
    Grace,      \* how long cleanup keeps an unused link after that (24 hours)
    Lag,        \* longest wait for SQLite's write lock (busy_timeout)
    MaxClock,   \* bound on the clock
    None

ASSUME LinkAssumption == IsFiniteSet(Link)
ASSUME QuotaAssumption == Quota \in Nat \ {0}
ASSUME TimesAssumption ==
    /\ Window \in Nat /\ LinkTTL \in Nat /\ Grace \in Nat /\ Lag \in Nat /\ MaxClock \in Nat
    /\ Window <= LinkTTL
ASSUME NoneIsNobody == None \notin User /\ None \notin Link /\ None \notin Email

VARIABLES
    links,      \* the magic_tokens table
    users,      \* the users table
    clock,
    req,        \* what each request slot is doing
    logins,     \* the users each link has logged in
    revived     \* a login was resolved while its address belonged to a deactivated user

vars == <<links, users, clock, req, logins, revived>>

Purpose == {"service", "admin"}

\* at and owner only record, for the properties, when the row really was
\* inserted and who had the address then.
LinkRow == [st: {"none", "present", "deleted"}, email: Email \cup {None},
            purpose: Purpose, created: Nat, exp: Nat, used: BOOLEAN,
            at: Nat, owner: User \cup {None}]

NoLink == [st |-> "none", email |-> None, purpose |-> "service", created |-> 0,
           exp |-> 0, used |-> FALSE, at |-> 0, owner |-> None]

UserRow == [st: {"none", "present"}, email: Email \cup {None}, active: BOOLEAN]

NoUser == [st |-> "none", email |-> None, active |-> FALSE]

PC == {"idle", "insert", "consume", "lookup", "register", "complete"}

Req == [pc: PC, purpose: Purpose, email: Email \cup {None}, link: Link \cup {None},
        now: Nat, user: User \cup {None}]

NoReq == [pc |-> "idle", purpose |-> "service", email |-> None, link |-> None,
          now |-> 0, user |-> None]

MagicTypeOK ==
    /\ links \in [Link -> LinkRow]
    /\ users \in [User -> UserRow]
    /\ clock \in Nat
    /\ req \in [Request -> Req]
    /\ logins \in [Link -> Seq(User)]
    /\ revived \in BOOLEAN

Init ==
    /\ links = [l \in Link |-> NoLink]
    /\ users = [u \in User |-> NoUser]
    /\ clock = 0
    /\ req = [r \in Request |-> NoReq]
    /\ logins = [l \in Link |-> << >>]
    /\ revived = FALSE

-----------------------------------------------------------------------------
(* Queries *)

At(r, pc) == req[r].pc = pc

Holders(e) == {u \in User : users[u].st = "present" /\ users[u].email = e}

\* At most one, by the unique index on the normalised address.
GetActiveUserByEmail(e) == {u \in Holders(e) : users[u].active}

\* The rows InsertMagicTokenLimited counts.
InWindow(e, p, now) ==
    {l \in Link : /\ links[l].st = "present"
                  /\ links[l].email = e /\ links[l].purpose = p
                  /\ links[l].created > now - Window}

\* Faulty variant: the WHERE clause of ConsumeMagicToken without used = 0.
ValidTwice(l, p, now) ==
    links[l].st = "present" /\ links[l].purpose = p /\ links[l].exp > now

\* The WHERE clause of ConsumeMagicToken.
Valid(l, p, now) ==
    /\ links[l].st = "present"
    /\ links[l].purpose = p
    /\ ~links[l].used
    /\ links[l].exp > now

-----------------------------------------------------------------------------
(* Asking for a link *)

Finish(r) == req' = [req EXCEPT ![r] = NoReq]

\* RequestLink asks for any address; tryIssueMagicLink only goes on for an
\* active user.  All other requests get the same answer and change nothing.
BeginRequest(r, e, p) ==
    /\ At(r, "idle")
    /\ p = "admin" => GetActiveUserByEmail(e) # {}
    /\ req' = [req EXCEPT ![r] = [NoReq EXCEPT !.pc = "insert", !.purpose = p,
                                               !.email = e, !.now = clock]]
    /\ UNCHANGED <<links, users, clock, logins, revived>>

\* Count and insert are one statement.
InsertMagicTokenLimited(r) ==
    LET e == req[r].email  p == req[r].purpose  now == req[r].now IN
    /\ At(r, "insert")
    /\ Cardinality(InWindow(e, p, now)) < Quota
    /\ \E l \in Link, owner \in User \cup {None} :
         /\ links[l].st = "none"
         /\ IF Holders(e) = {} THEN owner = None ELSE owner \in Holders(e)
         /\ links' = [links EXCEPT ![l] =
                        [st |-> "present", email |-> e, purpose |-> p, created |-> now,
                         exp |-> now + LinkTTL, used |-> FALSE,
                         at |-> clock, owner |-> owner]]
    /\ Finish(r)
    /\ UNCHANGED <<users, clock, logins, revived>>

QuotaExceeded(r) ==
    /\ At(r, "insert")
    /\ Cardinality(InWindow(req[r].email, req[r].purpose, req[r].now)) >= Quota
    /\ Finish(r)
    /\ UNCHANGED <<links, users, clock, logins, revived>>

-----------------------------------------------------------------------------
(* Redeeming a link *)

\* The same-origin POST; a GET only shows a page.
BeginRedeem(r, l, p) ==
    /\ At(r, "idle")
    /\ links[l].st # "none"
    /\ req' = [req EXCEPT ![r] = [NoReq EXCEPT !.pc = "consume", !.purpose = p,
                                               !.link = l, !.now = clock]]
    /\ UNCHANGED <<links, users, clock, logins, revived>>

\* A link whose service is gone or has magic links off is consumed and refused.
ConsumeMagicToken(r) ==
    LET l == req[r].link IN
    /\ At(r, "consume")
    /\ \/ /\ Valid(l, req[r].purpose, req[r].now)
          /\ links' = [links EXCEPT ![l].used = TRUE]
          /\ \/ req' = [req EXCEPT ![r] = [NoReq EXCEPT !.pc = "lookup", !.link = l,
                                          !.purpose = req[r].purpose]]
             \/ Finish(r)
       \/ /\ ~Valid(l, req[r].purpose, req[r].now)
          /\ Finish(r)
          /\ UNCHANGED links
    /\ UNCHANGED <<users, clock, logins, revived>>

\* The address in the row that was consumed.
LinkEmail(r) == links[req[r].link].email

\* The request goes on as user u.
ResolvedTo(r, u) ==
    /\ req' = [req EXCEPT ![r].pc = "complete", ![r].user = u]
    /\ revived' = (revived \/ \E v \in Holders(LinkEmail(r)) : ~users[v].active)

\* An unknown address is registered where the service says so; a failing
\* lookup is treated as an unknown address.
LookupUser(r) ==
    /\ At(r, "lookup")
    /\ \/ \E u \in GetActiveUserByEmail(LinkEmail(r)) : ResolvedTo(r, u)
       \/ /\ req[r].purpose = "service"
          /\ req' = [req EXCEPT ![r].pc = "register"]
          /\ UNCHANGED revived
       \/ Finish(r) /\ UNCHANGED revived
    /\ UNCHANGED <<links, users, clock, logins>>

\* Faulty variant: no unique index on the normalised address.
RegisterUserAnyway(r) ==
    /\ At(r, "register")
    /\ \E u \in User :
         /\ users[u].st = "none"
         /\ users' = [users EXCEPT ![u] = [st |-> "present", email |-> LinkEmail(r),
                                           active |-> TRUE]]
         /\ ResolvedTo(r, u)
    /\ UNCHANGED <<links, clock, logins>>

\* CreateUser, refused by the unique index when anybody has the address, a
\* deactivated user included.
RegisterUser(r) ==
    /\ At(r, "register")
    /\ \/ /\ Holders(LinkEmail(r)) = {}
          /\ \E u \in User :
               /\ users[u].st = "none"
               /\ users' = [users EXCEPT ![u] = [st |-> "present", email |-> LinkEmail(r),
                                                 active |-> TRUE]]
               /\ ResolvedTo(r, u)
       \/ /\ Holders(LinkEmail(r)) # {}
          /\ Finish(r)
          /\ UNCHANGED <<users, revived>>
    /\ UNCHANGED <<links, clock, logins>>

\* loginCompleter.complete, or IssueAdmin after the role check.
CompleteLogin(r) ==
    /\ At(r, "complete")
    /\ \/ logins' = [logins EXCEPT ![req[r].link] = Append(@, req[r].user)]
       \/ UNCHANGED logins
    /\ Finish(r)
    /\ UNCHANGED <<links, users, clock, revived>>

\* Every other failing statement ends the request and changes nothing; a link
\* that has been consumed stays consumed.
StatementFails(r) ==
    /\ req[r].pc \in {"insert", "consume", "register"}
    /\ Finish(r)
    /\ UNCHANGED <<links, users, clock, logins, revived>>

-----------------------------------------------------------------------------
(* The admin panel *)

HandleCreate(u, e) ==
    /\ users[u].st = "none"
    /\ Holders(e) = {}
    /\ users' = [users EXCEPT ![u] = [st |-> "present", email |-> e, active |-> TRUE]]
    /\ UNCHANGED <<links, clock, req, logins, revived>>

HandleDeactivate(u) ==
    /\ users[u].st = "present"
    /\ users' = [users EXCEPT ![u].active = FALSE]
    /\ UNCHANGED <<links, clock, req, logins, revived>>

\* Faulty variant: only links to the new address are burned.
BurnNewAddress(old, new, now) ==
    [l \in Link |->
        IF links[l].st = "present" /\ links[l].email = new /\ links[l].exp > now
        THEN [links[l] EXCEPT !.used = TRUE] ELSE links[l]]

BurnMagicTokensForEmails(old, new, now) ==
    [l \in Link |->
        IF links[l].st = "present" /\ links[l].email \in {old, new} /\ links[l].exp > now
        THEN [links[l] EXCEPT !.used = TRUE] ELSE links[l]]

\* The times a statement or transaction that now runs may have read the clock
\* before it waited for the write lock.
ReadBefore == {now \in 0..clock : clock <= now + Lag}

\* One transaction; the user may be deactivated.
HandleEmailChange(u, e) ==
    /\ users[u].st = "present"
    /\ users[u].email # e
    /\ Holders(e) = {}
    /\ users' = [users EXCEPT ![u].email = e]
    /\ \E now \in ReadBefore : links' = BurnMagicTokensForEmails(users[u].email, e, now)
    /\ UNCHANGED <<clock, req, logins, revived>>

-----------------------------------------------------------------------------
(* Background *)

\* Faulty variant: used links are deleted at once.
DeletableWhenUsed(row, now) ==
    row.st = "present" /\ (row.used \/ row.exp < now - Grace)

Deletable(row, now) ==
    row.st = "present" /\ ((row.used /\ row.exp < now) \/ row.exp < now - Grace)

cleanMagicTokens ==
    /\ \E now \in ReadBefore :
         links' = [l \in Link |-> IF Deletable(links[l], now)
                                  THEN [links[l] EXCEPT !.st = "deleted"] ELSE links[l]]
    /\ UNCHANGED <<users, clock, req, logins, revived>>

\* A statement that was handed its timestamp runs, or fails, within Lag.
Tick ==
    /\ clock < MaxClock
    /\ \A r \in Request : req[r].pc \in {"insert", "consume"} => clock < req[r].now + Lag
    /\ clock' = clock + 1
    /\ UNCHANGED <<links, users, req, logins, revived>>

-----------------------------------------------------------------------------
RequestStep(r) ==
    \/ \E e \in Email, p \in Purpose : BeginRequest(r, e, p)
    \/ InsertMagicTokenLimited(r) \/ QuotaExceeded(r)
    \/ \E l \in Link, p \in Purpose : BeginRedeem(r, l, p)
    \/ ConsumeMagicToken(r)
    \/ LookupUser(r) \/ RegisterUser(r) \/ CompleteLogin(r)
    \/ StatementFails(r)

AdminStep ==
    \/ \E u \in User, e \in Email : HandleCreate(u, e)
    \/ \E u \in User : HandleDeactivate(u)
    \/ \E u \in User, e \in Email : HandleEmailChange(u, e)

Next ==
    \/ \E r \in Request : RequestStep(r)
    \/ AdminStep
    \/ cleanMagicTokens
    \/ Tick

Spec == Init /\ [][Next]_vars

-----------------------------------------------------------------------------
(* Properties *)

\* At most Quota links for an address and purpose are really stored in any
\* stretch of time shorter than the window, give or take the wait for the
\* lock: neither redeeming, burning nor cleanup gives the quota back, and
\* parallel requests do not overrun it.
QuotaHolds ==
    \A l \in Link : links[l].st # "none" =>
        Cardinality({k \in Link :
            /\ links[k].st # "none"
            /\ links[k].email = links[l].email /\ links[k].purpose = links[l].purpose
            /\ links[k].at <= links[l].at
            /\ links[k].at > links[l].at - (Window - Lag)}) <= Quota

\* However many POSTs race with one link, it logs somebody in at most once.
OneLoginPerLink ==
    \A l \in Link : Len(logins[l]) <= 1

\* A link that can still be used was either stored for an address nobody had,
\* or that address still belongs to the user who had it then: changing an
\* address leaves no link behind for whoever gets the address next.
UsableLinkKeepsOwner ==
    \A l \in Link :
        links[l].st = "present" /\ ~links[l].used /\ links[l].exp > clock /\ links[l].owner # None
        => links[l].owner \in Holders(links[l].email)

\* A login never ends up with an account, found or newly registered, while
\* the address of the link belongs to a deactivated one.
DeactivatedStaysOut == ~revived
=============================================================================
