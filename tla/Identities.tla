----------------------------- MODULE Identities -----------------------------
(***************************************************************************)
(* Who an external account logs in as.  The resolver looks for the         *)
(* account's identity, then for a user with the address the provider       *)
(* vouches for, then registers a user (internal/auth/identity.go); a       *)
(* service login ends in a session (federated.go, login_complete.go), an   *)
(* admin login binds the user to the account (google_admin.go); the admin  *)
(* panel creates, renames, deactivates and unlinks (internal/admin).       *)
(*                                                                         *)
(* Every request takes one step per statement or transaction; any of them  *)
(* may fail.  A subject is a pair (issuer, subject) of user_identities,    *)
(* and what is only displayed or logged about it is left out, last_used_at *)
(* too.  Roles and the service's policy are configuration this module does *)
(* not keep: where the code asks for them both answers are allowed.        *)
(***************************************************************************)
EXTENDS Integers, FiniteSets

CONSTANTS
    User,       \* user ids
    Subject,    \* external accounts
    AdminCapable,   \* the accounts at Google and Microsoft; the others are generic OIDC or GitHub
    Google,     \* the accounts at Google: only these reach the admin login
    Email,      \* addresses, normalised
    Policies,   \* the link policies of the services
    Request,    \* request slots
    None

ASSUME SubjectAssumption == IsFiniteSet(Subject) /\ Google \subseteq AdminCapable
                            /\ AdminCapable \subseteq Subject
ASSUME PoliciesAssumption ==
    Policies \subseteq [AutoLink: BOOLEAN, AutoRegister: BOOLEAN, EmailUntrusted: BOOLEAN]
ASSUME NobodyAssumption == None \notin User /\ None \notin Subject /\ None \notin Email

VARIABLES
    users,      \* the users table
    idents,     \* the user_identities table
    sessions,   \* the refresh families alive: who, and through which account
    req         \* what each request slot is doing

vars == <<users, idents, sessions, req>>

UserRow == [st: {"none", "present"}, email: Email \cup {None}, active: BOOLEAN,
            bound: BOOLEAN]

NoUser == [st |-> "none", email |-> None, active |-> FALSE, bound |-> FALSE]

Id == 1..Cardinality(Subject)

\* transition and approved only record, for the properties, that the row came
\* about by the transition rule and which account's login set admin_ok.
IdentityRow == [st: {"none", "present"}, user: User \cup {None}, id: Id \cup {0},
                admin_ok: BOOLEAN, transition: BOOLEAN, approved: Subject \cup {None}]

NoIdentity == [st |-> "none", user |-> None, id |-> 0, admin_ok |-> FALSE,
               transition |-> FALSE, approved |-> None]

\* The zero value is the admin login's.
linkPolicy == [AutoLink: BOOLEAN, AutoRegister: BOOLEAN, EmailUntrusted: BOOLEAN]

NoPolicy == [AutoLink |-> FALSE, AutoRegister |-> FALSE, EmailUntrusted |-> FALSE]

PC == {"idle", "identity", "user", "email", "link", "readback", "reread", "deny",
       "register", "bind", "session", "complete"}

\* cut only records, for the properties, that the account was unlinked
\* after the request had read or written its identity.
Req == [pc: PC, subj: Subject \cup {None}, email: Email \cup {None}, pol: linkPolicy,
        admin: BOOLEAN, attempt: 0..1, user: User \cup {None}, id: Id \cup {0},
        admin_ok: BOOLEAN, cut: BOOLEAN]

NoReq == [pc |-> "idle", subj |-> None, email |-> None, pol |-> NoPolicy,
          admin |-> FALSE, attempt |-> 0, user |-> None, id |-> 0,
          admin_ok |-> FALSE, cut |-> FALSE]

IdentityTypeOK ==
    /\ users \in [User -> UserRow]
    /\ idents \in [Subject -> IdentityRow]
    /\ sessions \subseteq User \X Subject
    /\ req \in [Request -> Req]

Init ==
    /\ users = [u \in User |-> NoUser]
    /\ idents = [s \in Subject |-> NoIdentity]
    /\ sessions = {}
    /\ req = [r \in Request |-> NoReq]

-----------------------------------------------------------------------------
(* Statements *)

At(r, pc) == req[r].pc = pc

Exists(u) == users[u].st = "present"

Linked(s) == idents[s].st = "present"

\* The unique index on users.email does not look at deactivated_at.
Holders(e) == {u \in User : Exists(u) /\ users[u].email = e}

GetActiveUserByEmail(e) == {u \in Holders(e) : users[u].active}

IdentitiesOf(u) == {s \in Subject : Linked(s) /\ idents[s].user = u}

\* The key SQLite gives a row of a table declared without AUTOINCREMENT: one
\* more than the largest there is, so that a deleted row's key comes back.
NewKey(n) ==
    /\ \A s \in Subject : Linked(s) => idents[s].id < n
    /\ n = 1 \/ \E s \in Subject : Linked(s) /\ idents[s].id = n - 1

\* INSERT ... ON CONFLICT (issuer, subject) DO NOTHING, when there is none.
InsertIdentityRow(s, u, transition) ==
    /\ ~Linked(s)
    /\ \E n \in Id :
         /\ NewKey(n)
         /\ idents' = [idents EXCEPT ![s] =
                         [st |-> "present", user |-> u, id |-> n, admin_ok |-> FALSE,
                          transition |-> transition, approved |-> None]]

InsertIdentity(s, u) == InsertIdentityRow(s, u, FALSE)

\* Faulty variant: LinkIdentityIfFirst without NOT EXISTS.
AnyIdentity(u) == TRUE

\* The WHERE clause of LinkIdentityIfFirst.
NoIdentityYet(u) == IdentitiesOf(u) = {}

RevokeUserRefreshTokens(u) == sessions' = {x \in sessions : x[1] # u}

-----------------------------------------------------------------------------
(* The resolver *)

Refuse(r) == req' = [req EXCEPT ![r] = NoReq]

GoTo(r, pc) == req' = [req EXCEPT ![r].pc = pc]

\* A provider's callback has verified the account and its address; one that
\* is not trusted is never looked at.
BeginLogin(r, s, e, pol) ==
    /\ At(r, "idle")
    /\ s \in AdminCapable => ~pol.EmailUntrusted
    /\ req' = [req EXCEPT ![r] = [NoReq EXCEPT
                          !.pc = "identity", !.subj = s, !.pol = pol,
                          !.email = IF pol.EmailUntrusted THEN None ELSE e]]
    /\ UNCHANGED <<users, idents, sessions>>

BeginAdminLogin(r, s, e) ==
    /\ At(r, "idle")
    /\ s \in Google
    /\ req' = [req EXCEPT ![r] = [NoReq EXCEPT !.pc = "identity", !.subj = s,
                                               !.email = e, !.admin = TRUE]]
    /\ UNCHANGED <<users, idents, sessions>>

\* The request as user u; what its further steps do not look at is dropped.
As(r, pc, u) == [NoReq EXCEPT !.pc = pc, !.subj = req[r].subj, !.admin = req[r].admin,
                              !.user = u, !.cut = req[r].cut]

\* matched: the row read decides who it is.  Only an admin login looks at its
\* key and at admin_ok.
Matched(r) ==
    LET row == idents[req[r].subj] IN
    req' = [req EXCEPT ![r] = [As(r, "user", row.user) EXCEPT
                                 !.id = IF req[r].admin THEN row.id ELSE 0,
                                 !.admin_ok = req[r].admin /\ row.admin_ok]]

\* The resolver returns user u and the identity row with key n.  A service
\* login goes on to complete, an admin login to its binding or its session.
Resolved(r, u, n, ok) ==
    LET pc == IF ~req[r].admin THEN "complete" ELSE IF ok THEN "session" ELSE "bind" IN
    req' = [req EXCEPT ![r] = [As(r, pc, u) EXCEPT !.id = IF pc = "bind" THEN n ELSE 0]]

GetIdentity(r) ==
    /\ At(r, "identity")
    /\ IF Linked(req[r].subj) THEN Matched(r)
       ELSE IF req[r].pol.EmailUntrusted THEN Refuse(r)
       ELSE GoTo(r, "email")
    /\ UNCHANGED <<users, idents, sessions>>

GetMatchedUser(r) ==
    /\ At(r, "user")
    /\ IF users[req[r].user].active
       THEN Resolved(r, req[r].user, req[r].id, req[r].admin_ok)
       ELSE Refuse(r)
    /\ UNCHANGED <<users, idents, sessions>>

LookupEmail(r) ==
    LET found == GetActiveUserByEmail(req[r].email) IN
    /\ At(r, "email")
    /\ \/ \E u \in found :
            req' = [req EXCEPT ![r] = [As(r, "link", u) EXCEPT
                                         !.pol.AutoLink = req[r].pol.AutoLink]]
       \/ found = {} /\ ~req[r].pol.AutoRegister /\ Refuse(r)
       \/ found = {} /\ req[r].pol.AutoRegister /\ GoTo(r, "register")
    /\ UNCHANGED <<users, idents, sessions>>

\* InsertIdentity with auto_link, LinkIdentityIfFirst without: its condition
\* is part of the statement.  No row means that somebody was first.
Link(r) ==
    LET s == req[r].subj  u == req[r].user  auto == req[r].pol.AutoLink IN
    /\ At(r, "link")
    /\ IF ~Linked(s) /\ (auto \/ NoIdentityYet(u))
       THEN /\ InsertIdentityRow(s, u, ~auto)
            /\ req' = [req EXCEPT ![r] = As(r, "readback", u)]
       ELSE GoTo(r, "reread") /\ UNCHANGED idents
    /\ UNCHANGED <<users, sessions>>

\* The user is the one found by address, whatever the row says by now.
ReadBack(r) ==
    LET s == req[r].subj IN
    /\ At(r, "readback")
    /\ IF Linked(s) THEN Resolved(r, req[r].user, idents[s].id, idents[s].admin_ok)
       ELSE Refuse(r)
    /\ UNCHANGED <<users, idents, sessions>>

\* Faulty variant: the loser of the race logs in as the user it found by
\* address, not as the owner of the row.
RereadKeepsUser(r) ==
    LET s == req[r].subj IN
    /\ At(r, "reread")
    /\ IF Linked(s) THEN Resolved(r, req[r].user, idents[s].id, idents[s].admin_ok)
       ELSE Refuse(r)
    /\ UNCHANGED <<users, idents, sessions>>

\* With auto_link the row's owner is logged in, whoever it is.
Reread(r) ==
    LET s == req[r].subj  auto == req[r].pol.AutoLink IN
    /\ At(r, "reread")
    /\ \/ Linked(s) /\ (auto \/ idents[s].user = req[r].user) /\ Matched(r)
       \/ (IF Linked(s) THEN idents[s].user # req[r].user ELSE TRUE) /\ ~auto /\ GoTo(r, "deny")
       \/ ~Linked(s) /\ auto /\ Refuse(r)
    /\ UNCHANGED <<users, idents, sessions>>

denyLink(r) ==
    LET s == req[r].subj IN
    /\ At(r, "deny")
    /\ IF Linked(s) /\ idents[s].user = req[r].user THEN Matched(r) ELSE Refuse(r)
    /\ UNCHANGED <<users, idents, sessions>>

\* errRetryResolve: once more from the first lookup, then errUserConflict.
Retry(r) ==
    IF req[r].attempt = 0
    THEN req' = [req EXCEPT ![r].pc = "identity", ![r].attempt = 1]
    ELSE Refuse(r)

CreateUser(u, e) ==
    /\ ~Exists(u) /\ Holders(e) = {}
    /\ users' = [users EXCEPT ![u] =
                   [st |-> "present", email |-> e, active |-> TRUE, bound |-> FALSE]]

\* Faulty variant: two transactions, and the second may find the account taken.
RegisterInTwo(r) ==
    LET s == req[r].subj  e == req[r].email IN
    /\ At(r, "register")
    /\ \/ \E u \in User :
            /\ CreateUser(u, e)
            /\ IF Linked(s) THEN Retry(r) /\ UNCHANGED idents
               ELSE InsertIdentity(s, u) /\ Resolved(r, u, 0, FALSE)
       \/ Holders(e) # {} /\ Retry(r) /\ UNCHANGED <<users, idents>>
    /\ UNCHANGED sessions

\* One transaction: a user whose address is taken, by a deactivated user too,
\* or whose account is taken is not created.
register(r) ==
    LET s == req[r].subj  e == req[r].email IN
    /\ At(r, "register")
    /\ \/ \E u \in User :
            /\ CreateUser(u, e)
            /\ InsertIdentity(s, u)
            /\ Resolved(r, u, 0, FALSE)
       \/ (Holders(e) # {} \/ Linked(s)) /\ Retry(r) /\ UNCHANGED <<users, idents>>
    /\ UNCHANGED sessions

\* A statement fails, or a role or a policy is missing: nothing is written.
LoginFails(r) ==
    /\ ~At(r, "idle")
    /\ Refuse(r)
    /\ UNCHANGED <<users, idents, sessions>>

\* complete issues the tokens for the user row read earlier.
CompleteLogin(r) ==
    /\ At(r, "complete")
    /\ sessions' = sessions \cup {<<req[r].user, req[r].subj>>}
    /\ Refuse(r)
    /\ UNCHANGED <<users, idents>>

-----------------------------------------------------------------------------
(* Binding an administrator *)

\* SetAdminOK finds the row by key and owner; the table's CHECK rejects
\* admin_ok on an account that is not AdminCapable.
Approvable(u, n) == {s \in IdentitiesOf(u) \cap AdminCapable : idents[s].id = n}

ApprovedBy(r) ==
    [s \in Subject |-> IF s \in Approvable(req[r].user, req[r].id)
                       THEN [idents[s] EXCEPT !.admin_ok = TRUE, !.approved = req[r].subj]
                       ELSE idents[s]]

\* Faulty variant: BindAdmin without its WHERE clause on admin_bound_at.
BindableAgain(u) == TRUE

\* The WHERE clause of BindAdmin.
Bindable(u) == ~users[u].bound

\* Faulty variant: an already bound user goes on to the session.
BindOrGoOn(r) ==
    LET u == req[r].user IN
    /\ At(r, "bind")
    /\ IF users[u].bound \/ Approvable(u, req[r].id) = {}
       THEN GoTo(r, "session") /\ UNCHANGED <<users, idents>>
       ELSE /\ users' = [users EXCEPT ![u].bound = TRUE]
            /\ idents' = ApprovedBy(r)
            /\ GoTo(r, "session")
    /\ UNCHANGED sessions

\* One transaction.  Already bound, or the identity is gone: nothing changes
\* and the login is refused.
bindAdminIdentity(r) ==
    LET u == req[r].user IN
    /\ At(r, "bind")
    /\ IF ~Bindable(u) \/ Approvable(u, req[r].id) = {}
       THEN Refuse(r) /\ UNCHANGED <<users, idents>>
       ELSE /\ users' = [users EXCEPT ![u].bound = TRUE]
            /\ idents' = ApprovedBy(r)
            /\ GoTo(r, "session")
    /\ UNCHANGED sessions

\* The admin session is a cookie: no row is written.
StartAdminSession(r) ==
    /\ At(r, "session")
    /\ Refuse(r)
    /\ UNCHANGED <<users, idents, sessions>>

-----------------------------------------------------------------------------
(* The admin panel *)

HandleCreate(u, e) ==
    /\ CreateUser(u, e)
    /\ UNCHANGED <<idents, sessions, req>>

\* The sessions are ended by a statement after the transaction, which may fail.
HandleDeactivate(u) ==
    /\ Exists(u) /\ users[u].active
    /\ users' = [users EXCEPT ![u].active = FALSE]
    /\ RevokeUserRefreshTokens(u) \/ UNCHANGED sessions
    /\ UNCHANGED <<idents, req>>

HandleEmailChange(u, e) ==
    /\ Exists(u) /\ Holders(e) = {}
    /\ RevokeUserRefreshTokens(u)
    /\ users' = [users EXCEPT ![u].email = e]
    /\ UNCHANGED <<idents, req>>

\* The requests that have read or written an identity of s.
Knows(r, s) == req[r].subj = s /\ req[r].pc \in {"user", "readback", "bind", "session", "complete"}

CutRequests(s) ==
    req' = [r \in Request |-> IF Knows(r, s) THEN [req[r] EXCEPT !.cut = TRUE] ELSE req[r]]

\* One transaction.
HandleUnlink(s) ==
    /\ Linked(s)
    /\ idents' = [idents EXCEPT ![s] = NoIdentity]
    /\ RevokeUserRefreshTokens(idents[s].user)
    /\ CutRequests(s)
    /\ UNCHANGED users

-----------------------------------------------------------------------------
(* The system *)

RequestStep(r) ==
    \/ GetIdentity(r) \/ GetMatchedUser(r) \/ LookupEmail(r)
    \/ Link(r) \/ ReadBack(r) \/ Reread(r) \/ denyLink(r) \/ register(r)
    \/ LoginFails(r) \/ CompleteLogin(r)
    \/ bindAdminIdentity(r) \/ StartAdminSession(r)

LoginStep ==
    \E r \in Request :
        \/ \E s \in Subject, e \in Email :
             (\E pol \in Policies : BeginLogin(r, s, e, pol)) \/ BeginAdminLogin(r, s, e)
        \/ RequestStep(r)

AdminStep ==
    \/ \E u \in User :
         \/ \E e \in Email : HandleCreate(u, e) \/ HandleEmailChange(u, e)
         \/ HandleDeactivate(u)
    \/ \E s \in Subject : HandleUnlink(s)

Next == LoginStep \/ AdminStep

Spec == Init /\ [][Next]_vars

-----------------------------------------------------------------------------
(* Properties *)

\* With auto_link off an address links one account: however many first logins
\* race, a user never has two identities from the transition rule
\* (LinkIdentityIfFirst); and the state is always of its type, no login
\* resolving more often than Retry lets it.
OneTransitionLink ==
    /\ IdentityTypeOK
    /\ \A s, t \in Subject :
         (/\ Linked(s) /\ idents[s].transition
          /\ Linked(t) /\ idents[t].transition
          /\ idents[s].user = idents[t].user) => s = t

\* A login that lost a race, retried or was denied never ends as somebody
\* else than the owner of its account (resolveOnce), unless an administrator
\* unlinked the account meanwhile.
ResolvedAsOwner ==
    \A r \in Request :
        req[r].pc \in {"complete", "bind", "session"} /\ ~req[r].cut =>
            Linked(req[r].subj) /\ idents[req[r].subj].user = req[r].user

\* A login that creates a user links its account in the same step: there is
\* never a registered user without identity, whom the next login with the
\* address could claim (register).
NoOrphanRegistration ==
    [][\A r \in Request, u \in User :
        req'[r] # req[r] /\ ~Exists(u) /\ users'[u].st = "present" =>
            \E s \in Subject : Linked(s)' /\ idents'[s].user = u]_users

\* An admin session is started only through an account approved for admin
\* (completeAdminLogin), unless that account was unlinked meanwhile.
AdminThroughApproved ==
    \A r \in Request : At(r, "session") /\ ~req[r].cut => idents[req[r].subj].admin_ok

\* However many first admin logins of a user race, through whatever accounts,
\* at most one account of the user is ever approved (BindAdmin).
OneApprovedAccount ==
    \A s, t \in Subject :
        idents[s].admin_ok /\ idents[t].admin_ok /\ idents[s].user = idents[t].user => s = t

\* No session started through an account outlives the unlinking of it, which
\* revokes the user's families in the same transaction (HandleUnlink).
UnlinkEndsSessions ==
    \A x \in sessions : Linked(x[2]) /\ idents[x[2]].user = x[1]

\* The account approved for admin is the one that logged in: a login whose
\* identity vanished before it was approved approves nothing.
ApprovedAccountLoggedIn ==
    \A s \in Subject : idents[s].admin_ok => idents[s].approved = s

=============================================================================
