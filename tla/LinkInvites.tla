----------------------------- MODULE LinkInvites -----------------------------
(***************************************************************************)
(* Link invitations: an administrator invites a user to link an account at *)
(* a generic provider (internal/admin/users_invite.go), the user follows   *)
(* the mailed link, logs in at the provider and comes back, and the        *)
(* account is linked and the invitation used up in one transaction         *)
(* (internal/auth/link_invite.go).  Meanwhile the admin panel creates,     *)
(* renames, deactivates and unlinks as in Identities, with what these      *)
(* transactions also do to identity_link_invites, and logins link and      *)
(* register: of them only what they write to the two tables is kept, at    *)
(* any time, whatever they have read before.                               *)
(*                                                                         *)
(* Mail takes any time or is lost, the stay at the provider too, and the   *)
(* same link may be followed any number of times.  Whether the service is  *)
(* active and the provider assigned to it is configuration this module     *)
(* does not keep: where the code asks, both answers are allowed.           *)
(***************************************************************************)
EXTENDS Identities, Sequences

CONSTANTS
    Invite,         \* invitations, one for each key: AUTOINCREMENT reuses none
    InviteRequest,  \* request slots of the invitation handlers
    Quota,          \* invitations per user in a window (5 in the code)
    Window,         \* the quota's window (1 hour)
    InviteTTL,      \* lifetime of an invitation (24 hours)
    Retention,      \* how long cleanup keeps it after that (7 days)
    Lag,            \* longest wait for SQLite's write lock (busy_timeout)
    MaxClock        \* bound on the clock

ASSUME InviteAssumption == IsFiniteSet(Invite) /\ None \notin Invite
ASSUME InviteTimesAssumption ==
    /\ Quota \in Nat \ {0} /\ Window \in Nat /\ InviteTTL \in Nat \ {0}
    /\ Retention \in Nat /\ Lag \in Nat /\ MaxClock \in Nat
    /\ Window + Lag <= InviteTTL + Retention

VARIABLES
    invites,    \* the identity_link_invites table
    clock,
    ireq,       \* what each slot is doing
    links       \* the accounts each invitation has linked, and to whom

inviteVars == <<invites, clock, ireq, links>>

allVars == <<users, idents, sessions, req, invites, clock, ireq, links>>

\* mailed: the token has left the server.  withdrawn only records, for the
\* properties, that used_at was not set by a link.
InviteRow == [st: {"none", "present", "deleted"}, user: User \cup {None},
              email: Email \cup {None}, created: Nat, exp: Nat, used: BOOLEAN,
              mailed: BOOLEAN, withdrawn: BOOLEAN]

NoInvite == [st |-> "none", user |-> None, email |-> None, created |-> 0, exp |-> 0,
             used |-> FALSE, mailed |-> FALSE, withdrawn |-> FALSE]

InvitePC == {"idle", "insert", "audit", "external", "finish"}

InviteReq == [pc: InvitePC, user: User \cup {None}, email: Email \cup {None},
              invite: Invite \cup {None}, subj: Subject \cup {None}, now: Nat]

NoInviteReq == [pc |-> "idle", user |-> None, email |-> None, invite |-> None,
                subj |-> None, now |-> 0]

InviteTypeOK ==
    /\ invites \in [Invite -> InviteRow]
    /\ clock \in Nat
    /\ ireq \in [InviteRequest -> InviteReq]
    /\ links \in [Invite -> Seq(User \X Subject)]

InviteInit ==
    /\ Init
    /\ invites = [i \in Invite |-> NoInvite]
    /\ clock = 0
    /\ ireq = [k \in InviteRequest |-> NoInviteReq]
    /\ links = [i \in Invite |-> << >>]

-----------------------------------------------------------------------------
(* Statements *)

InviteAt(k, pc) == ireq[k].pc = pc

\* A handler reads the time, then waits for SQLite's write lock: its
\* transaction fails when that takes longer than Lag.
InLockTime(k) == clock - ireq[k].now <= Lag

Unused(i) == invites[i].st = "present" /\ ~invites[i].used

\* Faulty variant: the WHERE clause without expires_at.
ValidInviteForever(i, now) == Unused(i)

\* The WHERE clause of GetValidLinkInviteByHash and of ConsumeLinkInvite.
ValidInvite(i, now) == Unused(i) /\ invites[i].exp > now

\* The table with the unused invitations of u used up: their rows stay, for
\* the quota.  BurnLinkInvites does so for one provider, BurnLinkInvitesForUser
\* for all; the model has one generic provider.
Burned(u) ==
    [i \in Invite |-> IF Unused(i) /\ invites[i].user = u
                      THEN [invites[i] EXCEPT !.used = TRUE, !.withdrawn = TRUE]
                      ELSE invites[i]]

\* Faulty variant: the rows are deleted.
BurnedByDelete(u) ==
    [i \in Invite |-> IF Unused(i) /\ invites[i].user = u
                      THEN [invites[i] EXCEPT !.st = "deleted", !.withdrawn = TRUE]
                      ELSE invites[i]]

BurnLinkInvites(u) == Burned(u)

BurnLinkInvitesForUser(u) == invites' = Burned(u)

RevokeLinkInvite(i) ==
    invites' = IF Unused(i)
               THEN [invites EXCEPT ![i].used = TRUE, ![i].withdrawn = TRUE]
               ELSE invites

LinkInviteExpiry(now) == now + InviteTTL

\* The rows InsertLinkInviteLimited counts in a table.
InviteWindow(table, u, now) ==
    {i \in Invite : /\ table[i].st = "present" /\ table[i].user = u
                    /\ table[i].created > now - Window}

-----------------------------------------------------------------------------
(* Inviting *)

InviteDone(k) == ireq' = [ireq EXCEPT ![k] = NoInviteReq]

\* HandleInviteCreate reads the user and the time before its transaction.
BeginInvite(k, u) ==
    /\ InviteAt(k, "idle")
    /\ Exists(u) /\ users[u].active
    /\ ireq' = [ireq EXCEPT ![k] = [NoInviteReq EXCEPT !.pc = "insert", !.user = u,
                                      !.email = users[u].email, !.now = clock]]
    /\ UNCHANGED <<vars, invites, clock, links>>

\* Its transaction: burn, then insert under the quota.
InsertInvite(k) ==
    LET u == ireq[k].user  now == ireq[k].now  burned == BurnLinkInvites(u) IN
    /\ InviteAt(k, "insert") /\ InLockTime(k)
    /\ Cardinality(InviteWindow(burned, u, now)) < Quota
    /\ \E i \in Invite :
         /\ invites[i].st = "none"
         /\ invites' = [burned EXCEPT ![i] =
                          [st |-> "present", user |-> u, email |-> ireq[k].email,
                           created |-> now, exp |-> LinkInviteExpiry(now), used |-> FALSE,
                           mailed |-> FALSE, withdrawn |-> FALSE]]
         /\ ireq' = [ireq EXCEPT ![k] = [NoInviteReq EXCEPT !.pc = "audit", !.invite = i]]
    /\ UNCHANGED <<vars, clock, links>>

\* The burning is rolled back with it.
InviteQuotaExceeded(k) ==
    /\ InviteAt(k, "insert")
    /\ Cardinality(InviteWindow(invites, ireq[k].user, ireq[k].now)) >= Quota
    /\ InviteDone(k)
    /\ UNCHANGED <<vars, invites, clock, links>>

MailInvite(k) ==
    /\ InviteAt(k, "audit")
    /\ invites' = [invites EXCEPT ![ireq[k].invite].mailed = TRUE]
    /\ InviteDone(k)
    /\ UNCHANGED <<vars, clock, links>>

\* Without an audit row no mail is sent and the invitation is used up.
AuditFails(k) ==
    /\ InviteAt(k, "audit")
    /\ RevokeLinkInvite(ireq[k].invite)
    /\ InviteDone(k)
    /\ UNCHANGED <<vars, clock, links>>

HandleInviteRevoke(i) ==
    /\ Unused(i)
    /\ RevokeLinkInvite(i)
    /\ UNCHANGED <<vars, clock, ireq, links>>

-----------------------------------------------------------------------------
(* Following the link *)

\* Faulty variant: the invitation is not bound to the address.
OnceInvitee(i) == Exists(invites[i].user) /\ users[invites[i].user].active

\* The user must be active and still have the address the invitation went to.
StillInvitee(i) ==
    LET u == invites[i].user IN
    Exists(u) /\ users[u].active /\ users[u].email = invites[i].email

\* lookup and StartLink: nothing is used up.  ShowConfirm only reads.
StartLink(k, i) ==
    /\ InviteAt(k, "idle")
    /\ invites[i].mailed /\ ValidInvite(i, clock) /\ StillInvitee(i)
    /\ ireq' = [ireq EXCEPT ![k] = [NoInviteReq EXCEPT !.pc = "external", !.invite = i]]
    /\ UNCHANGED <<vars, invites, clock, links>>

\* The callback has verified the state and the account, whichever it is.
ReturnFromProvider(k, s) ==
    /\ InviteAt(k, "external")
    /\ s \in Subject \ AdminCapable
    /\ ireq' = [ireq EXCEPT ![k].pc = "finish", ![k].subj = s, ![k].now = clock]
    /\ UNCHANGED <<vars, invites, clock, links>>

\* Faulty variant: the invitation is used up in a transaction of its own,
\* later.
LinkThenConsume(k) ==
    LET i == ireq[k].invite  s == ireq[k].subj  u == invites[i].user IN
    /\ InviteAt(k, "finish")
    /\ invites[i].st = "present" /\ invites[i].exp > ireq[k].now /\ StillInvitee(i)
    /\ InsertIdentity(s, u)
    /\ links' = [links EXCEPT ![i] = Append(@, <<u, s>>)]
    /\ invites' = [invites EXCEPT ![i].used = TRUE]
    /\ InviteDone(k)
    /\ UNCHANGED <<users, sessions, req, clock>>

\* One transaction: ConsumeLinkInvite, the user, the identity.  Its first
\* statement writes, so no other writer comes between.
finishLink(k) ==
    LET i == ireq[k].invite  s == ireq[k].subj  u == invites[i].user IN
    /\ InviteAt(k, "finish") /\ InLockTime(k)
    /\ ValidInvite(i, ireq[k].now) /\ StillInvitee(i)
    /\ InsertIdentity(s, u)
    /\ links' = [links EXCEPT ![i] = Append(@, <<u, s>>)]
    /\ invites' = [invites EXCEPT ![i].used = TRUE]
    /\ InviteDone(k)
    /\ UNCHANGED <<users, sessions, req, clock>>

\* The account is already the user's own: the invitation is used up.
finishAlready(k) ==
    LET i == ireq[k].invite  s == ireq[k].subj IN
    /\ InviteAt(k, "finish") /\ InLockTime(k)
    /\ ValidInvite(i, ireq[k].now) /\ StillInvitee(i)
    /\ Linked(s) /\ idents[s].user = invites[i].user
    /\ invites' = [invites EXCEPT ![i].used = TRUE]
    /\ InviteDone(k)
    /\ UNCHANGED <<vars, clock, links>>

\* invite_invalid, user_inactive, email_changed, identity_taken: rolled back.
rejectLink(k) ==
    LET i == ireq[k].invite  s == ireq[k].subj IN
    /\ InviteAt(k, "finish")
    /\ \/ ~ValidInvite(i, ireq[k].now) \/ ~StillInvitee(i)
       \/ Linked(s) /\ idents[s].user # invites[i].user
    /\ InviteDone(k)
    /\ UNCHANGED <<vars, invites, clock, links>>

\* A statement fails, a check of the configuration refuses, or the user
\* never comes back.
InviteFails(k) ==
    /\ ~InviteAt(k, "idle")
    /\ InviteDone(k)
    /\ UNCHANGED <<vars, invites, clock, links>>

-----------------------------------------------------------------------------
(* The system *)

\* A login links its account to a user it found, who may have been renamed or
\* deactivated since, or registers one: Link and register of Identities.
LoginLinks(s) ==
    /\ \E u \in User :
         /\ InsertIdentity(s, u)
         /\ (Exists(u) /\ UNCHANGED users) \/ \E e \in Email : CreateUser(u, e)
    /\ UNCHANGED <<sessions, req, inviteVars>>

Deactivate(u) ==
    /\ HandleDeactivate(u)
    /\ BurnLinkInvitesForUser(u)
    /\ UNCHANGED <<clock, ireq, links>>

ChangeEmail(u, e) ==
    /\ HandleEmailChange(u, e)
    /\ BurnLinkInvitesForUser(u)
    /\ UNCHANGED <<clock, ireq, links>>

cleanLinkInvites ==
    /\ \E i \in Invite : invites[i].st = "present" /\ invites[i].exp < clock - Retention
    /\ invites' = [i \in Invite |->
                     IF invites[i].st = "present" /\ invites[i].exp < clock - Retention
                     THEN [invites[i] EXCEPT !.st = "deleted"] ELSE invites[i]]
    /\ UNCHANGED <<vars, clock, ireq, links>>

Tick ==
    /\ clock < MaxClock
    /\ clock' = clock + 1
    /\ UNCHANGED <<vars, invites, ireq, links>>

InviteStep(k) ==
    \/ \E u \in User : BeginInvite(k, u)
    \/ InsertInvite(k) \/ InviteQuotaExceeded(k) \/ MailInvite(k) \/ AuditFails(k)
    \/ \E i \in Invite : StartLink(k, i)
    \/ \E s \in Subject : ReturnFromProvider(k, s)
    \/ finishLink(k) \/ finishAlready(k) \/ rejectLink(k) \/ InviteFails(k)

PanelStep ==
    \/ \E u \in User :
         \/ \E e \in Email : ChangeEmail(u, e) \/ (HandleCreate(u, e) /\ UNCHANGED inviteVars)
         \/ Deactivate(u)
    \/ \E s \in Subject : HandleUnlink(s) /\ UNCHANGED inviteVars
    \/ \E i \in Invite : HandleInviteRevoke(i)

InviteNext ==
    \/ \E s \in Subject : LoginLinks(s)
    \/ \E k \in InviteRequest : InviteStep(k)
    \/ PanelStep
    \/ cleanLinkInvites
    \/ Tick

InviteSpec == InviteInit /\ [][InviteNext]_allVars

-----------------------------------------------------------------------------
(* Properties *)

\* However many times the link is followed, an invitation links one account,
\* and none after it was revoked, replaced or burned; and the state is always
\* of its type.
InviteLinksOnce ==
    /\ InviteTypeOK
    /\ \A i \in Invite :
         Len(links[i]) <= IF invites[i].withdrawn THEN 0 ELSE 1

\* An invitation links only to the user it was made for, only while that
\* user is active and has the address it was mailed to, and before it has
\* expired, give or take the wait for the lock; this holds however long the
\* stay at the provider and for an invitation that was being made while the
\* address changed (finishLink).
InviteLinksInvitee ==
    [][\A i \in Invite, u \in User, s \in Subject :
        links'[i] = Append(links[i], <<u, s>>) =>
            /\ u = invites[i].user
            /\ users[u].active /\ users[u].email = invites[i].email
            /\ invites[i].mailed /\ clock < invites[i].exp + Lag]_allVars

\* No user gets more than Quota invitations in a window: neither burning,
\* revoking nor cleanup gives the quota back.
InviteQuotaHolds ==
    \A i \in Invite : invites[i].st # "none" =>
        Cardinality({j \in Invite :
            /\ invites[j].st # "none" /\ invites[j].user = invites[i].user
            /\ invites[j].created <= invites[i].created
            /\ invites[j].created > invites[i].created - Window}) <= Quota

=============================================================================
