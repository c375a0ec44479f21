-------------------------- MODULE LinkInvitesProofs --------------------------
(***************************************************************************)
(* The safety properties of Identities and of LinkInvites for any number   *)
(* of users, accounts, addresses, policies, invitations and requests.      *)
(*                                                                         *)
(* Identities: what a request has read of an identity stays true of the    *)
(* row until an unlink cuts the request (ReqOwner), because every other    *)
(* statement only adds rows or approves them (Grows).                      *)
(*                                                                         *)
(* LinkInvites: an invitation links while it is unused and is used by the  *)
(* same transaction, and cleanup deletes only what no quota still counts   *)
(* (RowInv); so an insertion finds in the table every invitation that      *)
(* QuotaInv speaks of.                                                     *)
(***************************************************************************)
EXTENDS LinkInvites, FiniteSetTheorems, SequenceTheorems, TLAPS

-----------------------------------------------------------------------------
(* The invariant of Identities *)

Knowing == {"user", "readback", "bind", "session", "complete"}

\* Two tables of identities, one after the other, with no unlink between.
Grows(t, n) ==
    \A s \in Subject : t[s].st = "present" =>
        /\ n[s].st = "present" /\ n[s].user = t[s].user /\ n[s].id = t[s].id
        /\ t[s].admin_ok => n[s].admin_ok

TableInv(t) ==
    /\ t \in [Subject -> IdentityRow]
    /\ \A s \in Subject : t[s].st = "present" => t[s].user \in User
    /\ \A s, x \in Subject :
         (/\ t[s].st = "present" /\ t[s].transition
          /\ t[x].st = "present" /\ t[x].transition
          /\ t[s].user = t[x].user) => s = x

\* What the fields of a request are where it uses them.  An admin login
\* registers nobody and comes from Google.
ReqShape(q) ==
    /\ q \in Req
    /\ q.pc # "idle" => q.subj \in Subject
    /\ q.pc \in Knowing \cup {"link", "reread", "deny"} => q.user \in User
    /\ q.pc \in {"bind", "session"} => q.admin
    /\ q.admin => q.subj \in Google /\ q.pc # "register" /\ ~q.pol.AutoRegister

\* What a request knows of its identity, until an unlink.
ReqOwner(q, t) ==
    q.pc \in Knowing /\ ~q.cut =>
        /\ t[q.subj].st = "present" /\ t[q.subj].user = q.user
        /\ q.pc \in {"user", "bind"} /\ q.admin => t[q.subj].id = q.id
        /\ q.pc = "user" /\ q.admin_ok => t[q.subj].admin_ok
        /\ q.pc = "session" => t[q.subj].admin_ok

IdentityIInv ==
    /\ users \in [User -> UserRow]
    /\ req \in [Request -> Req]
    /\ TableInv(idents)
    /\ \A r \in Request : ReqShape(req[r]) /\ ReqOwner(req[r], idents)
    /\ sessions \subseteq User \X Subject

-----------------------------------------------------------------------------
(* Single values and statements *)

\* An idle slot promises nothing.
LEMMA NoReqShape == \A t : ReqShape(NoReq) /\ ReqOwner(NoReq, t)
  <1>1. NoReq \in Req
    BY DEF NoReq, Req, PC, NoPolicy, linkPolicy
  <1>2. NoReq.pc = "idle" /\ NoReq.admin = FALSE
    BY DEF NoReq
  <1> QED BY <1>1, <1>2 DEF ReqShape, ReqOwner, Knowing

\* The request as a user.
LEMMA AsShape ==
    ASSUME NEW r \in Request, req[r] \in Req, NEW pc \in PC, NEW u \in User
    PROVE  /\ As(r, pc, u) \in Req
           /\ As(r, pc, u).pc = pc /\ As(r, pc, u).subj = req[r].subj
           /\ As(r, pc, u).admin = req[r].admin /\ As(r, pc, u).user = u
           /\ As(r, pc, u).cut = req[r].cut /\ As(r, pc, u).id = 0
           /\ As(r, pc, u).pol = NoPolicy
  <1>1. NoReq \in Req /\ NoReq.id = 0 /\ NoReq.pol = NoPolicy
    BY DEF NoReq, Req, PC, NoPolicy, linkPolicy
  <1> QED BY <1>1 DEF As, Req

\* A new row, for an account that has none and a user who has none if the
\* transition rule is the reason.
LEMMA InsertShape ==
    ASSUME TableInv(idents), NEW s \in Subject, NEW u \in User, NEW tr \in BOOLEAN,
           InsertIdentityRow(s, u, tr),
           tr => NoIdentityYet(u)
    PROVE  /\ TableInv(idents') /\ Grows(idents, idents')
           /\ idents'[s].st = "present" /\ idents'[s].user = u
  <1>1. PICK n \in Id :
          idents' = [idents EXCEPT ![s] =
                       [st |-> "present", user |-> u, id |-> n, admin_ok |-> FALSE,
                        transition |-> tr, approved |-> None]]
    BY DEF InsertIdentityRow
  <1> DEFINE row == [st |-> "present", user |-> u, id |-> n, admin_ok |-> FALSE,
                     transition |-> tr, approved |-> None]
  <1>2. row \in IdentityRow /\ row.st = "present" /\ row.user = u /\ row.transition = tr
    BY DEF IdentityRow
  <1> HIDE DEF row
  <1>3. idents' = [idents EXCEPT ![s] = row] /\ idents[s].st # "present"
    BY <1>1 DEF row, InsertIdentityRow, Linked
  <1>4. idents' \in [Subject -> IdentityRow] /\ idents'[s] = row
        /\ \A x \in Subject : x # s => idents'[x] = idents[x]
    BY <1>2, <1>3 DEF TableInv
  <1>5. tr => \A x \in Subject : ~(idents[x].st = "present" /\ idents[x].user = u)
    BY DEF NoIdentityYet, IdentitiesOf, Linked
  <1>6. Grows(idents, idents')
    BY <1>3, <1>4 DEF Grows
  <1>7. TableInv(idents')
    BY <1>2, <1>4, <1>5 DEF TableInv
  <1> QED BY <1>2, <1>4, <1>6, <1>7

\* A table that is left alone keeps its invariant.
LEMMA SameTable == TableInv(idents) /\ UNCHANGED idents => TableInv(idents') /\ Grows(idents, idents')
  BY DEF TableInv, Grows

\* A table that grew leaves what requests know.
LEMMA GrownTable ==
    ASSUME NEW t, NEW n, Grows(t, n)
    PROVE  \A q : ReqShape(q) /\ ReqOwner(q, t) => ReqOwner(q, n)
  <1>1. ASSUME NEW q, ReqShape(q), ReqOwner(q, t) PROVE ReqOwner(q, n)
    <2>1. q.pc \in Knowing => q.subj \in Subject
      BY <1>1 DEF ReqShape, Knowing
    <2> QED BY <1>1, <2>1 DEF ReqOwner, Grows
  <1> QED BY <1>1

\* A step of one request: it leaves the request in order and the table grown.
LEMMA StepOfRequest ==
    ASSUME IdentityIInv, NEW r \in Request, NEW q, req' = [req EXCEPT ![r] = q],
           users' \in [User -> UserRow], TableInv(idents'), Grows(idents, idents'),
           ReqShape(q), ReqOwner(q, idents'),
           sessions' \subseteq User \X Subject
    PROVE  IdentityIInv'
  <1>1. q \in Req
    BY DEF ReqShape
  <1>2. req' \in [Request -> Req] /\ req'[r] = q /\ \A x \in Request : x # r => req'[x] = req[x]
    BY <1>1 DEF IdentityIInv
  <1>3. \A x \in Request : ReqShape(req'[x]) /\ ReqOwner(req'[x], idents')
    BY <1>2, GrownTable DEF IdentityIInv
  <1> QED BY <1>2, <1>3 DEF IdentityIInv, TableInv, ReqShape, ReqOwner

\* A refused login leaves its slot idle.
LEMMA Refused ==
    ASSUME IdentityIInv, NEW r \in Request, Refuse(r), UNCHANGED <<users, idents, sessions>>
    PROVE  IdentityIInv'
  BY NoReqShape, SameTable, StepOfRequest DEF Refuse, IdentityIInv

\* The request learns of the row of its account.
LEMMA MatchedShape ==
    ASSUME IdentityIInv, NEW r \in Request, ~At(r, "idle"), Linked(req[r].subj), Matched(r),
           UNCHANGED <<users, idents, sessions>>
    PROVE  IdentityIInv'
  <1> DEFINE row == idents[req[r].subj]
             q == [As(r, "user", row.user) EXCEPT
                     !.id = IF req[r].admin THEN row.id ELSE 0,
                     !.admin_ok = req[r].admin /\ row.admin_ok]
  <1>1. req[r] \in Req /\ req[r].subj \in Subject
    BY DEF IdentityIInv, ReqShape, At
  <1>2. row \in IdentityRow /\ row.st = "present" /\ row.user \in User
    BY <1>1 DEF IdentityIInv, TableInv, Linked
  <1>3. row.id \in Id \cup {0} /\ row.admin_ok \in BOOLEAN /\ req[r].admin \in BOOLEAN
    BY <1>1, <1>2 DEF IdentityRow, Req
  <1>4. /\ As(r, "user", row.user) \in Req /\ As(r, "user", row.user).pc = "user"
        /\ As(r, "user", row.user).subj = req[r].subj
        /\ As(r, "user", row.user).admin = req[r].admin
        /\ As(r, "user", row.user).user = row.user
        /\ As(r, "user", row.user).pol = NoPolicy
    BY <1>1, <1>2, AsShape DEF PC
  <1>5. /\ q \in Req /\ q.pc = "user" /\ q.subj = req[r].subj /\ q.user = row.user
        /\ q.admin = req[r].admin /\ ~q.pol.AutoRegister
        /\ q.id = IF req[r].admin THEN row.id ELSE 0
        /\ q.admin_ok = (req[r].admin /\ row.admin_ok)
    <2> DEFINE a == As(r, "user", row.user)
               n == IF req[r].admin THEN row.id ELSE 0
               ok == req[r].admin /\ row.admin_ok
    <2>1. n \in Id \cup {0} /\ ok \in BOOLEAN /\ ~NoPolicy.AutoRegister
      BY <1>3 DEF NoPolicy
    <2>2. q = [a EXCEPT !.id = n, !.admin_ok = ok]
      OBVIOUS
    <2>3. a \in Req
      BY <1>4
    <2> HIDE DEF q, a, n, ok
    <2>4. /\ q \in Req /\ q.pc = a.pc /\ q.subj = a.subj /\ q.user = a.user
          /\ q.admin = a.admin /\ q.pol = a.pol /\ q.id = n /\ q.admin_ok = ok
      BY <2>1, <2>2, <2>3 DEF Req
    <2> QED BY <1>4, <2>1, <2>4 DEF a, n, ok
  <1>6. req' = [req EXCEPT ![r] = q]
    BY DEF Matched
  <1> HIDE DEF q
  <1>7. ReqShape(q)
    BY <1>1, <1>2, <1>5 DEF ReqShape, IdentityIInv
  <1>8. ReqOwner(q, idents')
    BY <1>1, <1>2, <1>3, <1>5 DEF ReqOwner
  <1>9. sessions' \subseteq User \X Subject
    BY DEF IdentityIInv
  <1> QED BY <1>6, <1>7, <1>8, <1>9, SameTable, StepOfRequest DEF IdentityIInv

\* The resolver's answer.
LEMMA ResolvedShape ==
    ASSUME NEW r \in Request, ReqShape(req[r]), ~At(r, "idle"), NEW u \in User,
           NEW n \in Id \cup {0}, NEW ok \in BOOLEAN, Resolved(r, u, n, ok), NEW t,
           ~req[r].cut => /\ t[req[r].subj].st = "present" /\ t[req[r].subj].user = u
                          /\ req[r].admin => /\ t[req[r].subj].id = n
                                             /\ ok => t[req[r].subj].admin_ok
    PROVE  \E q : req' = [req EXCEPT ![r] = q] /\ ReqShape(q) /\ ReqOwner(q, t)
  <1> DEFINE pc == IF ~req[r].admin THEN "complete" ELSE IF ok THEN "session" ELSE "bind"
             q == [As(r, pc, u) EXCEPT !.id = IF pc = "bind" THEN n ELSE 0]
  <1>1. req[r] \in Req /\ req[r].subj \in Subject /\ req[r].admin \in BOOLEAN
    BY DEF ReqShape, At, Req
  <1>2. pc \in PC
    BY DEF PC
  <1>3. /\ As(r, pc, u) \in Req /\ As(r, pc, u).pc = pc /\ As(r, pc, u).subj = req[r].subj
        /\ As(r, pc, u).admin = req[r].admin /\ As(r, pc, u).user = u
        /\ As(r, pc, u).cut = req[r].cut /\ As(r, pc, u).pol = NoPolicy
    BY <1>1, <1>2, AsShape
  <1>4. req' = [req EXCEPT ![r] = q]
    BY DEF Resolved
  <1> HIDE DEF pc
  <1>5. /\ q \in Req /\ q.pc = pc /\ q.subj = req[r].subj /\ q.user = u /\ q.cut = req[r].cut
        /\ q.admin = req[r].admin /\ ~q.pol.AutoRegister
        /\ q.id = IF pc = "bind" THEN n ELSE 0
    BY <1>3 DEF Req, NoPolicy
  <1> HIDE DEF q
  <1>6. ReqShape(q)
    BY <1>1, <1>5 DEF ReqShape, pc
  <1>7. ReqOwner(q, t)
    BY <1>1, <1>5 DEF ReqOwner, pc
  <1> QED BY <1>4, <1>6, <1>7

\* GoTo changes only where a request is.
LEMMA WentTo ==
    ASSUME NEW r \in Request, ReqShape(req[r]), req \in [Request -> Req],
           NEW pc \in PC \ Knowing, GoTo(r, pc)
    PROVE  \E q : /\ req' = [req EXCEPT ![r] = q] /\ q \in Req /\ q.pc = pc
                  /\ q.subj = req[r].subj /\ q.user = req[r].user /\ q.admin = req[r].admin
                  /\ q.pol = req[r].pol /\ \A t : ReqOwner(q, t)
  <1> DEFINE q == [req[r] EXCEPT !.pc = pc]
  <1>1. /\ q \in Req /\ q.pc = pc /\ q.subj = req[r].subj /\ q.user = req[r].user
        /\ q.admin = req[r].admin /\ q.pol = req[r].pol
    BY DEF ReqShape, Req
  <1>2. req' = [req EXCEPT ![r] = q]
    BY DEF GoTo
  <1> HIDE DEF q
  <1> QED BY <1>1, <1>2 DEF ReqOwner

-----------------------------------------------------------------------------
(* The steps of Identities *)

\* Before the first login there is no user and no identity.
LEMMA IdentityInit == Init => IdentityIInv
  <1> SUFFICES ASSUME Init PROVE IdentityIInv
    OBVIOUS
  <1>1. NoUser \in UserRow /\ NoIdentity \in IdentityRow /\ NoIdentity.st = "none"
    BY DEF NoUser, UserRow, NoIdentity, IdentityRow
  <1>2. NoReq \in Req
    BY NoReqShape DEF ReqShape
  <1>3. TableInv(idents)
    BY <1>1 DEF Init, TableInv
  <1> QED BY <1>1, <1>2, <1>3, NoReqShape DEF Init, IdentityIInv

\* A login, or an admin login, begins.
LEMMA BeginStep ==
    ASSUME IdentityIInv, NEW r \in Request, NEW s \in Subject, NEW e \in Email,
           (\E pol \in Policies : BeginLogin(r, s, e, pol)) \/ BeginAdminLogin(r, s, e)
    PROVE  IdentityIInv'
  <1>n. /\ NoReq \in Req /\ NoReq.pc = "idle" /\ ~NoReq.admin /\ ~NoReq.pol.AutoRegister
    BY NoReqShape DEF ReqShape, NoReq, NoPolicy
  <1>1. ASSUME NEW pol \in Policies, BeginLogin(r, s, e, pol)
        PROVE  IdentityIInv'
    <2> DEFINE q == [NoReq EXCEPT !.pc = "identity", !.subj = s, !.pol = pol,
                                  !.email = IF pol.EmailUntrusted THEN None ELSE e]
    <2>1. req' = [req EXCEPT ![r] = q] /\ UNCHANGED <<users, idents, sessions>>
      BY <1>1 DEF BeginLogin
    <2>2. pol \in linkPolicy
      BY PoliciesAssumption DEF linkPolicy
    <2>3. q \in Req /\ q.pc = "identity" /\ q.subj = s /\ ~q.admin
      BY <1>n, <2>2 DEF Req, PC
    <2> HIDE DEF q
    <2>4. ReqShape(q) /\ \A t : ReqOwner(q, t)
      BY <2>3 DEF ReqShape, ReqOwner, Knowing
    <2> QED BY <2>1, <2>4, SameTable, StepOfRequest DEF IdentityIInv
  <1>2. ASSUME BeginAdminLogin(r, s, e)
        PROVE  IdentityIInv'
    <2> DEFINE q == [NoReq EXCEPT !.pc = "identity", !.subj = s, !.email = e, !.admin = TRUE]
    <2>1. req' = [req EXCEPT ![r] = q] /\ s \in Google /\ UNCHANGED <<users, idents, sessions>>
      BY <1>2 DEF BeginAdminLogin
    <2>2. q \in Req /\ q.pc = "identity" /\ q.subj = s /\ ~q.pol.AutoRegister
      BY <1>n DEF Req, PC
    <2> HIDE DEF q
    <2>3. ReqShape(q) /\ \A t : ReqOwner(q, t)
      BY <2>1, <2>2 DEF ReqShape, ReqOwner, Knowing
    <2> QED BY <2>1, <2>3, SameTable, StepOfRequest DEF IdentityIInv
  <1> QED BY <1>1, <1>2

\* The three reads of resolveOnce.
LEMMA LookupSteps ==
    ASSUME IdentityIInv, NEW r \in Request,
           GetIdentity(r) \/ GetMatchedUser(r) \/ LookupEmail(r)
    PROVE  IdentityIInv'
  <1>r. /\ ReqShape(req[r]) /\ req \in [Request -> Req] /\ req[r] \in Req
        /\ ReqOwner(req[r], idents)
    BY DEF IdentityIInv
  <1>1. CASE GetIdentity(r)
    <2>0. UNCHANGED <<users, idents, sessions>> /\ ~At(r, "idle") /\ req[r].subj \in Subject
      BY <1>1, <1>r DEF GetIdentity, At, ReqShape
    <2>1. CASE Linked(req[r].subj)
      BY <1>1, <2>0, <2>1, MatchedShape DEF GetIdentity
    <2>2. CASE Refuse(r)
      BY <2>0, <2>2, Refused
    <2>3. CASE GoTo(r, "email")
      <3>1. PICK q : /\ req' = [req EXCEPT ![r] = q] /\ q \in Req /\ q.pc = "email"
                     /\ q.subj = req[r].subj /\ q.user = req[r].user /\ q.admin = req[r].admin
                     /\ q.pol = req[r].pol /\ \A t : ReqOwner(q, t)
        BY <1>r, <2>3, WentTo DEF PC, Knowing
      <3>2. ReqShape(q)
        BY <1>r, <2>0, <3>1 DEF ReqShape, Knowing
      <3> QED BY <2>0, <3>1, <3>2, SameTable, StepOfRequest DEF IdentityIInv
    <2> QED BY <1>1, <2>1, <2>2, <2>3 DEF GetIdentity
  <1>2. CASE GetMatchedUser(r)
    <2>0. /\ UNCHANGED <<users, idents, sessions>> /\ At(r, "user") /\ ~At(r, "idle")
          /\ req[r].user \in User
      BY <1>2, <1>r DEF GetMatchedUser, At, ReqShape, Knowing
    <2>1. CASE Refuse(r)
      BY <2>0, <2>1, Refused
    <2>2. CASE Resolved(r, req[r].user, req[r].id, req[r].admin_ok)
      <3>1. req[r].id \in Id \cup {0} /\ req[r].admin_ok \in BOOLEAN
        BY <1>r DEF Req
      <3>2. ~req[r].cut => /\ idents[req[r].subj].st = "present"
                           /\ idents[req[r].subj].user = req[r].user
                           /\ req[r].admin => /\ idents[req[r].subj].id = req[r].id
                                              /\ req[r].admin_ok => idents[req[r].subj].admin_ok
        BY <1>r, <2>0 DEF ReqOwner, At, Knowing
      <3>3. PICK q : req' = [req EXCEPT ![r] = q] /\ ReqShape(q) /\ ReqOwner(q, idents)
        BY <1>r, <2>0, <2>2, <3>1, <3>2, ResolvedShape
      <3> QED BY <2>0, <3>3, SameTable, StepOfRequest DEF IdentityIInv
    <2> QED BY <1>2, <2>1, <2>2 DEF GetMatchedUser
  <1>3. CASE LookupEmail(r)
    <2>0. UNCHANGED <<users, idents, sessions>> /\ ~At(r, "idle") /\ req[r].subj \in Subject
      BY <1>3, <1>r DEF LookupEmail, At, ReqShape
    <2>1. ASSUME NEW u \in User,
                 req' = [req EXCEPT ![r] = [As(r, "link", u) EXCEPT
                                              !.pol.AutoLink = req[r].pol.AutoLink]]
          PROVE  IdentityIInv'
      <3> DEFINE a == As(r, "link", u)
                 q == [a EXCEPT !.pol = [@ EXCEPT !.AutoLink = req[r].pol.AutoLink]]
      <3>1. /\ a \in Req /\ a.pc = "link" /\ a.subj = req[r].subj /\ a.user = u
            /\ a.admin = req[r].admin /\ a.pol = NoPolicy
        BY <1>r, AsShape DEF PC
      <3>2. req[r].pol.AutoLink \in BOOLEAN /\ a.pol \in linkPolicy
        BY <1>r, <3>1 DEF Req, linkPolicy
      <3> HIDE DEF a
      <3>3. /\ [a.pol EXCEPT !.AutoLink = req[r].pol.AutoLink] \in linkPolicy
            /\ ~[a.pol EXCEPT !.AutoLink = req[r].pol.AutoLink].AutoRegister
        <4>1. a.pol.AutoRegister = FALSE
          BY <3>1 DEF NoPolicy
        <4>2. [a.pol EXCEPT !.AutoLink = req[r].pol.AutoLink].AutoRegister = a.pol.AutoRegister
          BY <3>2 DEF linkPolicy
        <4> QED BY <3>2, <4>1, <4>2 DEF linkPolicy
      <3>4. /\ q \in Req /\ q.pc = "link" /\ q.subj = req[r].subj /\ q.user = u
            /\ q.admin = req[r].admin /\ ~q.pol.AutoRegister
        BY <3>1, <3>3 DEF Req
      <3>5. req' = [req EXCEPT ![r] = q]
        BY <2>1 DEF a
      <3> HIDE DEF q
      <3>6. ReqShape(q) /\ \A t : ReqOwner(q, t)
        BY <1>r, <2>0, <3>4 DEF ReqShape, ReqOwner, Knowing
      <3> QED BY <2>0, <3>5, <3>6, SameTable, StepOfRequest DEF IdentityIInv
    <2>2. CASE Refuse(r)
      BY <2>0, <2>2, Refused
    <2>3. CASE req[r].pol.AutoRegister /\ GoTo(r, "register")
      <3>1. PICK q : /\ req' = [req EXCEPT ![r] = q] /\ q \in Req /\ q.pc = "register"
                     /\ q.subj = req[r].subj /\ q.user = req[r].user /\ q.admin = req[r].admin
                     /\ q.pol = req[r].pol /\ \A t : ReqOwner(q, t)
        BY <1>r, <2>3, WentTo DEF PC, Knowing
      <3>2. ReqShape(q)
        BY <1>r, <2>0, <2>3, <3>1 DEF ReqShape, Knowing
      <3> QED BY <2>0, <3>1, <3>2, SameTable, StepOfRequest DEF IdentityIInv
    <2> QED BY <1>3, <2>1, <2>2, <2>3 DEF LookupEmail, GetActiveUserByEmail, Holders
  <1> QED BY <1>1, <1>2, <1>3

\* The conditional insert of a transition link, and the read after it.
LEMMA LinkSteps ==
    ASSUME IdentityIInv, NEW r \in Request, Link(r) \/ ReadBack(r)
    PROVE  IdentityIInv'
  <1>r. /\ ReqShape(req[r]) /\ req \in [Request -> Req] /\ req[r] \in Req
        /\ ReqOwner(req[r], idents) /\ TableInv(idents)
    BY DEF IdentityIInv
  <1>1. CASE Link(r)
    <2> DEFINE s == req[r].subj
               u == req[r].user
               auto == req[r].pol.AutoLink
    <2>0. /\ UNCHANGED <<users, sessions>> /\ At(r, "link") /\ s \in Subject /\ u \in User
          /\ auto \in BOOLEAN
      BY <1>1, <1>r DEF Link, At, ReqShape, Req, linkPolicy
    <2>1. CASE ~Linked(s) /\ (auto \/ NoIdentityYet(u))
      <3>1. InsertIdentityRow(s, u, ~auto) /\ req' = [req EXCEPT ![r] = As(r, "readback", u)]
        BY <1>1, <2>1 DEF Link
      <3> DEFINE q == As(r, "readback", u)
      <3>2. /\ TableInv(idents') /\ Grows(idents, idents')
            /\ idents'[s].st = "present" /\ idents'[s].user = u
        <4>1. (~auto) \in BOOLEAN /\ (~auto => NoIdentityYet(u))
          BY <2>0, <2>1
        <4> HIDE DEF s, u, auto
        <4> QED BY <1>r, <2>0, <3>1, <4>1, InsertShape
      <3>3. /\ q \in Req /\ q.pc = "readback" /\ q.subj = s /\ q.user = u
            /\ q.admin = req[r].admin /\ q.pol = NoPolicy
        <4>1. "readback" \in PC
          BY DEF PC
        <4> QED BY <1>r, <2>0, <4>1, AsShape
      <3>4. req' = [req EXCEPT ![r] = q]
        BY <3>1
      <3> HIDE DEF q
      <3>5. ReqShape(q)
        BY <1>r, <2>0, <3>3 DEF ReqShape, NoPolicy
      <3>6. ReqOwner(q, idents')
        BY <3>2, <3>3 DEF ReqOwner
      <3> QED BY <2>0, <3>2, <3>4, <3>5, <3>6, StepOfRequest DEF IdentityIInv
    <2>2. CASE GoTo(r, "reread") /\ UNCHANGED idents
      <3>1. PICK q : /\ req' = [req EXCEPT ![r] = q] /\ q \in Req /\ q.pc = "reread"
                     /\ q.subj = req[r].subj /\ q.user = req[r].user /\ q.admin = req[r].admin
                     /\ q.pol = req[r].pol /\ \A t : ReqOwner(q, t)
        BY <1>r, <2>2, WentTo DEF PC, Knowing
      <3>2. ReqShape(q)
        BY <1>r, <2>0, <3>1 DEF ReqShape, Knowing
      <3> QED BY <2>0, <2>2, <3>1, <3>2, SameTable, StepOfRequest DEF IdentityIInv
    <2> QED BY <1>1, <2>1, <2>2 DEF Link
  <1>2. CASE ReadBack(r)
    <2> DEFINE s == req[r].subj
    <2>0. /\ UNCHANGED <<users, idents, sessions>> /\ At(r, "readback") /\ ~At(r, "idle")
          /\ req[r].user \in User /\ s \in Subject
      BY <1>2, <1>r DEF ReadBack, At, ReqShape, Knowing
    <2>1. CASE Refuse(r)
      BY <2>0, <2>1, Refused
    <2>2. CASE Linked(s) /\ Resolved(r, req[r].user, idents[s].id, idents[s].admin_ok)
      <3>1. idents[s].id \in Id \cup {0} /\ idents[s].admin_ok \in BOOLEAN
        BY <1>r, <2>0 DEF TableInv, IdentityRow
      <3>2. ~req[r].cut => /\ idents[s].st = "present" /\ idents[s].user = req[r].user
        BY <1>r, <2>0 DEF ReqOwner, At, Knowing
      <3>3. PICK q : req' = [req EXCEPT ![r] = q] /\ ReqShape(q) /\ ReqOwner(q, idents)
        BY <1>r, <2>0, <2>2, <3>1, <3>2, ResolvedShape
      <3> QED BY <2>0, <3>3, SameTable, StepOfRequest DEF IdentityIInv
    <2> QED BY <1>2, <2>1, <2>2 DEF ReadBack
  <1> QED BY <1>1, <1>2

\* The second look after a lost race, and the denial.
LEMMA RereadSteps ==
    ASSUME IdentityIInv, NEW r \in Request, Reread(r) \/ denyLink(r)
    PROVE  IdentityIInv'
  <1>r. ReqShape(req[r]) /\ req \in [Request -> Req]
    BY DEF IdentityIInv
  <1>0. /\ UNCHANGED <<users, idents, sessions>> /\ ~At(r, "idle")
        /\ req[r].subj \in Subject /\ req[r].user \in User
    BY <1>r DEF Reread, denyLink, At, ReqShape
  <1>1. CASE Linked(req[r].subj) /\ Matched(r)
    BY <1>0, <1>1, MatchedShape
  <1>2. CASE Refuse(r)
    BY <1>0, <1>2, Refused
  <1>3. CASE GoTo(r, "deny")
    <2>1. PICK q : /\ req' = [req EXCEPT ![r] = q] /\ q \in Req /\ q.pc = "deny"
                   /\ q.subj = req[r].subj /\ q.user = req[r].user /\ q.admin = req[r].admin
                   /\ q.pol = req[r].pol /\ \A t : ReqOwner(q, t)
      BY <1>r, <1>3, WentTo DEF PC, Knowing
    <2>2. ReqShape(q)
      BY <1>r, <1>0, <2>1 DEF ReqShape, Knowing
    <2> QED BY <1>0, <2>1, <2>2, SameTable, StepOfRequest DEF IdentityIInv
  <1> QED BY <1>1, <1>2, <1>3 DEF Reread, denyLink

\* errRetryResolve starts the resolution again, once.
LEMMA RetryStep ==
    ASSUME IdentityIInv, NEW r \in Request, At(r, "register"), Retry(r),
           UNCHANGED <<users, idents, sessions>>
    PROVE  IdentityIInv'
  <1>1. CASE Refuse(r)
    BY <1>1, Refused
  <1>2. CASE req' = [req EXCEPT ![r].pc = "identity", ![r].attempt = 1]
    <2> DEFINE q == [req[r] EXCEPT !.pc = "identity", !.attempt = 1]
    <2>1. req[r] \in Req /\ ReqShape(req[r]) /\ req \in [Request -> Req]
      BY DEF IdentityIInv
    <2>2. /\ q \in Req /\ q.pc = "identity" /\ q.subj = req[r].subj /\ q.admin = req[r].admin
      <3>1. 1 \in 0 .. 1 /\ "identity" \in PC
        BY DEF PC
      <3> QED BY <2>1, <3>1 DEF Req
    <2>3. req' = [req EXCEPT ![r] = q]
      BY <1>2, <2>1
    <2> HIDE DEF q
    <2>4. ReqShape(q) /\ ReqOwner(q, idents')
      BY <2>1, <2>2 DEF ReqShape, ReqOwner, At, Knowing
    <2> QED BY <2>3, <2>4, SameTable, StepOfRequest DEF IdentityIInv
  <1> QED BY <1>1, <1>2 DEF Retry

\* A created user is a typed row.
LEMMA CreateShape ==
    ASSUME users \in [User -> UserRow], NEW u \in User, NEW e \in Email \cup {None},
           CreateUser(u, e)
    PROVE  users' \in [User -> UserRow]
  <1>1. [st |-> "present", email |-> e, active |-> TRUE, bound |-> FALSE] \in UserRow
    BY DEF UserRow
  <1> QED BY <1>1 DEF CreateUser

\* register: user and identity in one transaction.
LEMMA RegisterStep ==
    ASSUME IdentityIInv, NEW r \in Request, register(r)
    PROVE  IdentityIInv'
  <1> DEFINE s == req[r].subj
             e == req[r].email
  <1>r. /\ ReqShape(req[r]) /\ req[r] \in Req /\ TableInv(idents) /\ users \in [User -> UserRow]
    BY DEF IdentityIInv
  <1>0. /\ At(r, "register") /\ ~At(r, "idle") /\ s \in Subject /\ e \in Email \cup {None}
        /\ ~req[r].admin /\ UNCHANGED sessions
    BY <1>r DEF register, At, ReqShape, Req
  <1>1. ASSUME NEW u \in User, CreateUser(u, e), InsertIdentity(s, u), Resolved(r, u, 0, FALSE)
        PROVE  IdentityIInv'
    <2>1. users' \in [User -> UserRow]
      BY <1>r, <1>0, <1>1, CreateShape
    <2>2. /\ TableInv(idents') /\ Grows(idents, idents')
          /\ idents'[s].st = "present" /\ idents'[s].user = u
      <3> HIDE DEF s
      <3> QED BY <1>r, <1>0, <1>1, InsertShape DEF InsertIdentity
    <2>3. PICK q : req' = [req EXCEPT ![r] = q] /\ ReqShape(q) /\ ReqOwner(q, idents')
      BY <1>r, <1>0, <1>1, <2>2, ResolvedShape
    <2> QED BY <1>0, <2>1, <2>2, <2>3, StepOfRequest DEF IdentityIInv
  <1>2. CASE Retry(r) /\ UNCHANGED <<users, idents>>
    BY <1>0, <1>2, RetryStep
  <1> QED BY <1>1, <1>2 DEF register

\* bindAdminIdentity: the row with the key read before is approved.
LEMMA BindStep ==
    ASSUME IdentityIInv, NEW r \in Request, bindAdminIdentity(r)
    PROVE  IdentityIInv'
  <1> DEFINE u == req[r].user
             s == req[r].subj
  <1>r. /\ ReqShape(req[r]) /\ req[r] \in Req /\ req \in [Request -> Req] /\ TableInv(idents)
        /\ users \in [User -> UserRow] /\ ReqOwner(req[r], idents)
    BY DEF IdentityIInv
  <1>0. /\ At(r, "bind") /\ u \in User /\ s \in Subject /\ s \in AdminCapable /\ req[r].admin
        /\ ~req[r].pol.AutoRegister /\ UNCHANGED sessions
    BY <1>r, SubjectAssumption DEF bindAdminIdentity, At, ReqShape, Knowing
  <1>1. CASE Refuse(r) /\ UNCHANGED <<users, idents>>
    BY <1>0, <1>1, Refused
  <1>2. CASE /\ users' = [users EXCEPT ![u].bound = TRUE]
             /\ idents' = ApprovedBy(r)
             /\ GoTo(r, "session")
    <2> DEFINE q == [req[r] EXCEPT !.pc = "session"]
    <2>1. users' \in [User -> UserRow]
      <3>1. [users[u] EXCEPT !.bound = TRUE] \in UserRow
        BY <1>r, <1>0 DEF UserRow
      <3> QED BY <1>2, <1>r, <3>1
    <2>2. \A x \in Subject :
            /\ idents'[x] \in IdentityRow
            /\ idents'[x].st = idents[x].st /\ idents'[x].user = idents[x].user
            /\ idents'[x].id = idents[x].id /\ idents'[x].transition = idents[x].transition
            /\ idents[x].admin_ok => idents'[x].admin_ok
            /\ x \in Approvable(u, req[r].id) => idents'[x].admin_ok
      <3> TAKE x \in Subject
      <3>1. idents[x] \in IdentityRow
        BY <1>r DEF TableInv
      <3>2. idents'[x] = IF x \in Approvable(u, req[r].id)
                         THEN [idents[x] EXCEPT !.admin_ok = TRUE, !.approved = s]
                         ELSE idents[x]
        BY <1>2 DEF ApprovedBy
      <3>3. LET a == [idents[x] EXCEPT !.admin_ok = TRUE, !.approved = s] IN
            /\ a \in IdentityRow /\ a.st = idents[x].st /\ a.user = idents[x].user
            /\ a.id = idents[x].id /\ a.transition = idents[x].transition /\ a.admin_ok = TRUE
        BY <1>0, <3>1 DEF IdentityRow
      <3> QED BY <3>1, <3>2, <3>3
    <2>3. idents' \in [Subject -> IdentityRow]
      <3>1. idents' = [x \in Subject |-> idents'[x]]
        BY <1>2 DEF ApprovedBy
      <3> QED BY <2>2, <3>1
    <2>4. TableInv(idents') /\ Grows(idents, idents')
      BY <1>r, <2>2, <2>3 DEF TableInv, Grows
    <2>5. /\ q \in Req /\ q.pc = "session" /\ q.subj = s /\ q.user = u /\ q.cut = req[r].cut
          /\ q.admin = req[r].admin /\ q.pol = req[r].pol
      <3>1. "session" \in PC
        BY DEF PC
      <3> QED BY <1>r, <3>1 DEF Req
    <2>6. req' = [req EXCEPT ![r] = q]
      BY <1>2 DEF GoTo
    <2> HIDE DEF q
    <2>7. ReqShape(q)
      BY <1>r, <1>0, <2>5 DEF ReqShape
    <2>8. ReqOwner(q, idents')
      <3>1. ~req[r].cut => /\ idents[s].st = "present" /\ idents[s].user = u
                           /\ idents[s].id = req[r].id
        BY <1>r, <1>0 DEF ReqOwner, At, Knowing
      <3>2. ~req[r].cut => s \in Approvable(u, req[r].id)
        BY <1>0, <3>1 DEF Approvable, IdentitiesOf, Linked
      <3> QED BY <1>0, <2>2, <2>5, <3>1, <3>2 DEF ReqOwner
    <2> QED BY <1>0, <2>1, <2>4, <2>6, <2>7, <2>8, StepOfRequest DEF IdentityIInv
  <1> QED BY <1>1, <1>2 DEF bindAdminIdentity

\* A login fails or ends in a session.
LEMMA EndSteps ==
    ASSUME IdentityIInv, NEW r \in Request,
           LoginFails(r) \/ CompleteLogin(r) \/ StartAdminSession(r)
    PROVE  IdentityIInv'
  <1>1. CASE LoginFails(r) \/ StartAdminSession(r)
    BY <1>1, Refused DEF LoginFails, StartAdminSession
  <1>2. CASE CompleteLogin(r)
    <2>1. /\ At(r, "complete") /\ sessions' = sessions \cup {<<req[r].user, req[r].subj>>}
          /\ Refuse(r) /\ UNCHANGED <<users, idents>>
      BY <1>2 DEF CompleteLogin
    <2>2. req[r].user \in User /\ req[r].subj \in Subject
      BY <2>1 DEF IdentityIInv, ReqShape, At, Knowing
    <2>5. sessions' \subseteq User \X Subject
      BY <2>1, <2>2 DEF IdentityIInv
    <2>6. req' = [req EXCEPT ![r] = NoReq]
      BY <2>1 DEF Refuse
    <2> QED BY <2>1, <2>5, <2>6, NoReqShape, SameTable, StepOfRequest DEF IdentityIInv
  <1> QED BY <1>1, <1>2

\* The admin panel changes users and ends sessions.
LEMMA PanelShape ==
    ASSUME IdentityIInv, users' \in [User -> UserRow], sessions' \subseteq sessions,
           UNCHANGED <<idents, req>>
    PROVE  IdentityIInv'
  BY DEF IdentityIInv, TableInv, ReqShape, ReqOwner

\* The panel creates a user or changes an address.
LEMMA PanelSteps ==
    ASSUME IdentityIInv, NEW u \in User, NEW e \in Email,
           HandleCreate(u, e) \/ HandleEmailChange(u, e)
    PROVE  IdentityIInv'
  <1>u. users \in [User -> UserRow] /\ users[u] \in UserRow
    BY DEF IdentityIInv
  <1>1. CASE HandleCreate(u, e)
    BY <1>1, <1>u, CreateShape, PanelShape DEF HandleCreate
  <1>2. CASE HandleEmailChange(u, e)
    <2>1. [users[u] EXCEPT !.email = e] \in UserRow
      BY <1>u DEF UserRow
    <2>2. users' \in [User -> UserRow] /\ sessions' \subseteq sessions /\ UNCHANGED <<idents, req>>
      BY <1>2, <1>u, <2>1 DEF HandleEmailChange, RevokeUserRefreshTokens
    <2> QED BY <2>2, PanelShape
  <1> QED BY <1>1, <1>2

\* The panel deactivates a user; the revocation of the sessions may fail.
LEMMA DeactivateStep ==
    ASSUME IdentityIInv, NEW u \in User, HandleDeactivate(u)
    PROVE  IdentityIInv'
  <1>1. [users[u] EXCEPT !.active = FALSE] \in UserRow /\ users \in [User -> UserRow]
    BY DEF IdentityIInv, UserRow
  <1>2. users' \in [User -> UserRow] /\ sessions' \subseteq sessions /\ UNCHANGED <<idents, req>>
    BY <1>1 DEF HandleDeactivate, RevokeUserRefreshTokens
  <1> QED BY <1>2, PanelShape

\* The panel unlinks an account: its sessions end and its logins are cut.
LEMMA UnlinkStep ==
    ASSUME IdentityIInv, NEW s \in Subject, HandleUnlink(s)
    PROVE  IdentityIInv'
  <1>r. /\ req \in [Request -> Req] /\ TableInv(idents) /\ idents \in [Subject -> IdentityRow]
        /\ \A r \in Request : ReqShape(req[r]) /\ ReqOwner(req[r], idents)
    BY DEF IdentityIInv, TableInv
  <1>1. /\ idents' = [idents EXCEPT ![s] = NoIdentity] /\ UNCHANGED users
        /\ sessions' = {x \in sessions : x[1] # idents[s].user}
        /\ req' = [r \in Request |-> IF Knows(r, s) THEN [req[r] EXCEPT !.cut = TRUE] ELSE req[r]]
    BY DEF HandleUnlink, RevokeUserRefreshTokens, CutRequests
  <1>2. NoIdentity \in IdentityRow /\ NoIdentity.st = "none"
    BY DEF NoIdentity, IdentityRow
  <1>3. /\ idents' \in [Subject -> IdentityRow] /\ idents'[s] = NoIdentity
        /\ \A x \in Subject : x # s => idents'[x] = idents[x]
    BY <1>1, <1>2, <1>r
  <1>4. TableInv(idents')
    BY <1>r, <1>2, <1>3 DEF TableInv
  <1>5. ASSUME NEW r \in Request
        PROVE  req'[r] \in Req /\ ReqShape(req'[r]) /\ ReqOwner(req'[r], idents')
    <2> DEFINE q == [req[r] EXCEPT !.cut = TRUE]
    <2>1. ReqShape(req[r]) /\ ReqOwner(req[r], idents) /\ req[r] \in Req
      BY <1>r
    <2>2. CASE Knows(r, s)
      <3>1. req'[r] = q
        BY <1>1, <2>2
      <3>2. /\ q \in Req /\ q.cut = TRUE /\ q.pc = req[r].pc /\ q.subj = req[r].subj
            /\ q.user = req[r].user /\ q.admin = req[r].admin /\ q.pol = req[r].pol
        BY <2>1 DEF Req
      <3> HIDE DEF q
      <3> QED BY <2>1, <3>1, <3>2 DEF ReqShape, ReqOwner
    <2>3. CASE ~Knows(r, s)
      <3>1. req'[r] = req[r]
        BY <1>1, <2>3
      <3>2. req[r].pc \in Knowing => req[r].subj \in Subject \ {s}
        BY <2>1, <2>3 DEF Knows, Knowing, ReqShape
      <3>3. ReqOwner(req[r], idents')
        BY <1>3, <2>1, <3>2 DEF ReqOwner
      <3> QED BY <2>1, <3>1, <3>3
    <2> QED BY <2>2, <2>3
  <1>6. req' \in [Request -> Req]
    <2>1. req' = [r \in Request |-> req'[r]]
      BY <1>1
    <2> QED BY <1>5, <2>1
  <1>7. sessions' \subseteq User \X Subject
    BY <1>1 DEF IdentityIInv
  <1> QED
    BY <1>1, <1>4, <1>5, <1>6, <1>7
    DEF IdentityIInv, TableInv, ReqShape, ReqOwner

\* Every step of Identities keeps the invariant.
LEMMA IdentityNext == ASSUME IdentityIInv, [Next]_vars PROVE IdentityIInv'
  <1>1. ASSUME NEW r \in Request, RequestStep(r) PROVE IdentityIInv'
    BY <1>1, LookupSteps, LinkSteps, RereadSteps, RegisterStep, BindStep, EndSteps DEF RequestStep
  <1>2. CASE LoginStep
    BY <1>1, <1>2, BeginStep DEF LoginStep
  <1>3. CASE AdminStep
    BY <1>3, PanelSteps, DeactivateStep, UnlinkStep DEF AdminStep
  <1>4. CASE UNCHANGED vars
    BY <1>4 DEF vars, IdentityIInv, TableInv, ReqShape, ReqOwner
  <1> QED BY <1>2, <1>3, <1>4 DEF Next

-----------------------------------------------------------------------------
(* The theorems about Identities *)

\* However many logins race, what a request has read of its account is still
\* true of the row when it acts on it, unless an unlink came between
\* (identity.go resolveOnce, google_admin.go, users_identity.go).
THEOREM IdentityInvariant == Spec => []IdentityIInv
  <1>1. Init => IdentityIInv
    BY IdentityInit
  <1>2. IdentityIInv /\ [Next]_vars => IdentityIInv'
    BY IdentityNext
  <1> QED BY <1>1, <1>2, PTL DEF Spec

\* The inductive invariant implies the type invariant.
LEMMA InvariantIsTyped == IdentityIInv => IdentityTypeOK
  BY DEF IdentityIInv, IdentityTypeOK, TableInv

\* LinkIdentityIfFirst: however many first logins race, no user has two
\* identities from the transition rule; and the state keeps its type.
THEOREM TransitionLinksOnce == Spec => []OneTransitionLink
  <1>1. IdentityIInv => OneTransitionLink
    BY InvariantIsTyped DEF IdentityIInv, TableInv, OneTransitionLink, Linked
  <1> QED BY <1>1, IdentityInvariant, PTL

\* resolveOnce: a login never ends as somebody else than the owner of its
\* account, unless the account was unlinked meanwhile.
THEOREM LoginsEndAsOwner == Spec => []ResolvedAsOwner
  <1>1. IdentityIInv => ResolvedAsOwner
    BY DEF IdentityIInv, ReqOwner, Knowing, ResolvedAsOwner, Linked
  <1> QED BY <1>1, IdentityInvariant, PTL

\* bindAdminIdentity and completeAdminLogin: an admin session is started only
\* through an account approved for admin, unless it was unlinked meanwhile.
THEOREM AdminSessionsAreApproved == Spec => []AdminThroughApproved
  <1>1. IdentityIInv => AdminThroughApproved
    BY DEF IdentityIInv, ReqOwner, Knowing, AdminThroughApproved, At
  <1> QED BY <1>1, IdentityInvariant, PTL

\* register: a login that creates a user links its account in the same step.
THEOREM RegistrationsAreLinked == Spec => NoOrphanRegistration
  <1> DEFINE NoOrphan == \A r \in Request, u \in User :
        req'[r] # req[r] /\ ~Exists(u) /\ users'[u].st = "present" =>
            \E s \in Subject : Linked(s)' /\ idents'[s].user = u
  <1>1. ASSUME IdentityIInv, [Next]_vars PROVE [NoOrphan]_users
    <2> USE <1>1
    <2>u. users \in [User -> UserRow] /\ TableInv(idents)
      BY DEF IdentityIInv
    <2>1. ASSUME NEW r \in Request, register(r) PROVE [NoOrphan]_users
      <3>1. ASSUME NEW v \in User, CreateUser(v, req[r].email), InsertIdentity(req[r].subj, v)
            PROVE  NoOrphan
        <4>1. req[r].subj \in Subject
          BY <2>1 DEF IdentityIInv, ReqShape, register, At
        <4>2. idents'[req[r].subj].st = "present" /\ idents'[req[r].subj].user = v
          <5>1. \A s \in Subject : s = req[r].subj =>
                  idents'[s].st = "present" /\ idents'[s].user = v
            BY <2>u, <3>1, InsertShape DEF InsertIdentity
          <5> QED BY <4>1, <5>1
        <4>3. \A u \in User : u # v => users'[u] = users[u]
          BY <2>u, <3>1 DEF CreateUser
        <4> QED BY <4>1, <4>2, <4>3 DEF Exists, Linked
      <3> QED BY <2>1, <3>1 DEF register
    <2>2. ASSUME NEW r \in Request, bindAdminIdentity(r) PROVE [NoOrphan]_users
      <3>1. \A u \in User : users'[u].st = users[u].st
        BY <2>2, <2>u DEF bindAdminIdentity, UserRow
      <3> QED BY <3>1 DEF Exists
    <2>3. ASSUME NEW u \in User,
                 HandleDeactivate(u) \/ \E e \in Email : HandleCreate(u, e) \/ HandleEmailChange(u, e)
          PROVE  [NoOrphan]_users
      BY <2>3 DEF HandleDeactivate, HandleCreate, HandleEmailChange
    <2> QED
      BY <1>1, <2>1, <2>2, <2>3
      DEF Next, LoginStep, AdminStep, RequestStep, BeginLogin, BeginAdminLogin, GetIdentity,
          GetMatchedUser, LookupEmail, Link, ReadBack, Reread, denyLink, LoginFails,
          CompleteLogin, StartAdminSession, HandleUnlink, vars
  <1> QED BY <1>1, IdentityInvariant, PTL DEF Spec, NoOrphanRegistration

-----------------------------------------------------------------------------
(* At most one approved account of a user: BindAdmin approves an account   *)
(* only of a user who is not bound, whose accounts are then not approved   *)
(* either, and the key it approves by belongs to one account.              *)

\* Who has a user id has a user: rows of users are never deleted.
RequestUsers == \A r \in Request : req[r].user \in User => Exists(req[r].user)

OneRowPerKey ==
    \A s, x \in Subject : Linked(s) /\ Linked(x) /\ idents[s].id = idents[x].id => s = x

ApprovedInv ==
    /\ RequestUsers
    /\ \A s \in Subject : Linked(s) => Exists(idents[s].user)
    /\ \A s \in Subject : idents[s].admin_ok => Linked(s) /\ users[idents[s].user].bound
    /\ OneRowPerKey
    /\ OneApprovedAccount

\* A step deletes no user and takes no binding back.
UsersStay == \A u \in User : Exists(u) => users'[u].st = "present" /\ (users[u].bound => users'[u].bound)

\* The users table after each step of Identities.
LEMMA StepKeepsUsers == ASSUME IdentityIInv, [Next]_vars PROVE UsersStay
  <1>u. users \in [User -> UserRow]
    BY DEF IdentityIInv
  <1>1. ASSUME NEW u \in User, NEW e, CreateUser(u, e) PROVE UsersStay
    BY <1>1, <1>u DEF CreateUser, UsersStay, Exists
  <1>2. ASSUME NEW u \in User, NEW e \in Email, HandleDeactivate(u) \/ HandleEmailChange(u, e)
        PROVE  UsersStay
    BY <1>2, <1>u DEF HandleDeactivate, HandleEmailChange, UsersStay, Exists, UserRow
  <1>3. ASSUME NEW r \in Request, bindAdminIdentity(r) PROVE UsersStay
    BY <1>3, <1>u DEF bindAdminIdentity, UsersStay, Exists, UserRow
  <1>4. CASE UNCHANGED users
    BY <1>4 DEF UsersStay, Exists
  <1>5. ASSUME NEW r \in Request, register(r) PROVE UsersStay
    BY <1>1, <1>4, <1>5 DEF register
  <1>6. ASSUME NEW r \in Request, RequestStep(r) PROVE UsersStay
    BY <1>3, <1>4, <1>5, <1>6
    DEF RequestStep, GetIdentity, GetMatchedUser, LookupEmail, Link, ReadBack, Reread, denyLink,
        LoginFails, CompleteLogin, StartAdminSession
  <1>7. CASE LoginStep
    BY <1>4, <1>6, <1>7 DEF LoginStep, BeginLogin, BeginAdminLogin
  <1>8. ASSUME NEW u \in User, HandleDeactivate(u) PROVE UsersStay
    BY <1>8, <1>u DEF HandleDeactivate, UsersStay, Exists, UserRow
  <1>9. CASE AdminStep
    BY <1>1, <1>2, <1>4, <1>8, <1>9 DEF AdminStep, HandleCreate, HandleUnlink
  <1> QED BY <1>4, <1>7, <1>9 DEF Next, vars

\* A request that gets a user gets one who exists.
LEMMA SlotUsers ==
    ASSUME IdentityIInv, RequestUsers, UsersStay, NEW r \in Request, NEW q,
           req' = [req EXCEPT ![r] = q], q.user \in User => users'[q.user].st = "present"
    PROVE  RequestUsers'
  <1>1. req'[r] = q /\ \A x \in Request : x # r => req'[x] = req[x]
    BY DEF IdentityIInv
  <1> QED BY <1>1 DEF RequestUsers, UsersStay, Exists

\* A request that ends or changes its place keeps its user or has none.
LEMMA PlaceUsers ==
    ASSUME IdentityIInv, RequestUsers, UsersStay, NEW r \in Request,
           Refuse(r) \/ Retry(r) \/ \E pc \in PC : GoTo(r, pc)
    PROVE  RequestUsers'
  <1>r. req[r] \in Req /\ req \in [Request -> Req]
    BY DEF IdentityIInv
  <1>1. CASE Refuse(r)
    BY <1>1, SlotUsers, NobodyAssumption DEF Refuse, NoReq
  <1>2. ASSUME NEW q, q.user = req[r].user, req' = [req EXCEPT ![r] = q] PROVE RequestUsers'
    BY <1>2, SlotUsers DEF RequestUsers, UsersStay, Exists
  <1>3. ASSUME NEW pc \in PC, GoTo(r, pc) PROVE RequestUsers'
    <2>1. [req[r] EXCEPT !.pc = pc].user = req[r].user
      BY <1>r DEF Req
    <2> QED BY <1>2, <1>3, <2>1 DEF GoTo
  <1>4. CASE Retry(r)
    <2>1. [req[r] EXCEPT !.pc = "identity", !.attempt = 1].user = req[r].user
      BY <1>r DEF Req
    <2>2. CASE req' = [req EXCEPT ![r].pc = "identity", ![r].attempt = 1]
      <3>1. req' = [req EXCEPT ![r] = [req[r] EXCEPT !.pc = "identity", !.attempt = 1]]
        BY <1>r, <2>2
      <3> QED BY <1>2, <2>1, <3>1
    <2> QED BY <1>1, <1>4, <2>2 DEF Retry
  <1> QED BY <1>1, <1>3, <1>4

\* A request that goes on as a user who exists.
LEMMA AsUsers ==
    ASSUME IdentityIInv, RequestUsers, UsersStay, NEW r \in Request, NEW u \in User, users'[u].st = "present",
           \/ req' = [req EXCEPT ![r] = As(r, "readback", u)]
           \/ req' = [req EXCEPT ![r] = [As(r, "link", u) EXCEPT
                                           !.pol.AutoLink = req[r].pol.AutoLink]]
           \/ Matched(r) /\ u = idents[req[r].subj].user
           \/ \E n, ok : Resolved(r, u, n, ok)
    PROVE  RequestUsers'
  <1>a. ASSUME NEW pc \in PC PROVE As(r, pc, u) \in Req /\ As(r, pc, u).user = u
    BY AsShape DEF IdentityIInv
  <1>q. ASSUME NEW q, q.user = u, req' = [req EXCEPT ![r] = q] PROVE RequestUsers'
    BY <1>q, SlotUsers
  <1>1. CASE req' = [req EXCEPT ![r] = As(r, "readback", u)]
    BY <1>1, <1>a, <1>q DEF PC
  <1>2. CASE req' = [req EXCEPT ![r] = [As(r, "link", u) EXCEPT
                                           !.pol.AutoLink = req[r].pol.AutoLink]]
    <2> DEFINE a == As(r, "link", u)
    <2>1. a \in Req /\ a.user = u
      BY <1>a DEF PC
    <2>2. req' = [req EXCEPT ![r] = [a EXCEPT !.pol = [@ EXCEPT !.AutoLink = req[r].pol.AutoLink]]]
      BY <1>2
    <2> HIDE DEF a
    <2>3. [a EXCEPT !.pol = [@ EXCEPT !.AutoLink = req[r].pol.AutoLink]].user = u
      BY <2>1 DEF Req
    <2> QED BY <1>q, <2>2, <2>3
  <1>3. CASE Matched(r) /\ u = idents[req[r].subj].user
    <2> DEFINE a == As(r, "user", u)
               n == IF req[r].admin THEN idents[req[r].subj].id ELSE 0
               ok == req[r].admin /\ idents[req[r].subj].admin_ok
    <2>1. a \in Req /\ a.user = u
      BY <1>a DEF PC
    <2>2. req' = [req EXCEPT ![r] = [a EXCEPT !.id = n, !.admin_ok = ok]]
      BY <1>3 DEF Matched
    <2> HIDE DEF a, n, ok
    <2>3. [a EXCEPT !.id = n, !.admin_ok = ok].user = u
      BY <2>1 DEF Req
    <2> QED BY <1>q, <2>2, <2>3
  <1>4. ASSUME NEW n, NEW ok, Resolved(r, u, n, ok) PROVE RequestUsers'
    <2> DEFINE pc == IF ~req[r].admin THEN "complete" ELSE IF ok THEN "session" ELSE "bind"
               a == As(r, pc, u)
               i == IF pc = "bind" THEN n ELSE 0
    <2>1. a \in Req /\ a.user = u
      <3>1. pc \in PC
        BY DEF PC
      <3> HIDE DEF pc
      <3> QED BY <1>a, <3>1
    <2>2. req' = [req EXCEPT ![r] = [a EXCEPT !.id = i]]
      BY <1>4 DEF Resolved
    <2> HIDE DEF a, i
    <2>3. [a EXCEPT !.id = i].user = u
      BY <2>1 DEF Req
    <2> QED BY <1>q, <2>2, <2>3
  <1> QED BY <1>1, <1>2, <1>3, <1>4

\* The rows that were there, or fewer of them.
LEMMA NoNewRows ==
    ASSUME IdentityIInv, ApprovedInv, UsersStay, RequestUsers',
           \A s \in Subject : idents'[s] = idents[s] \/ idents'[s] = NoIdentity
    PROVE  ApprovedInv'
  <1>1. NoIdentity.st = "none" /\ ~NoIdentity.admin_ok
    BY DEF NoIdentity
  <1>2. \A s \in Subject : Linked(s) => idents[s].user \in User
    BY DEF IdentityIInv, TableInv, Linked
  <1>3. \A s \in Subject : idents'[s].st = "present" \/ idents'[s].admin_ok => idents'[s] = idents[s]
    BY <1>1
  <1>4. /\ \A s \in Subject : Linked(s)' => users'[idents'[s].user].st = "present"
        /\ \A s \in Subject : idents'[s].admin_ok => Linked(s)' /\ users'[idents'[s].user].bound
    BY <1>2, <1>3 DEF ApprovedInv, UsersStay, Linked, Exists
  <1>5. OneRowPerKey'
    BY <1>3 DEF ApprovedInv, OneRowPerKey, Linked
  <1>6. OneApprovedAccount'
    BY <1>3 DEF ApprovedInv, OneApprovedAccount
  <1> QED BY <1>4, <1>5, <1>6 DEF ApprovedInv, Exists

\* A new row has a key of its own and is not approved.
LEMMA NewRow ==
    ASSUME IdentityIInv, ApprovedInv, UsersStay, RequestUsers', NEW s \in Subject,
           NEW u \in User, NEW tr \in BOOLEAN, users'[u].st = "present", InsertIdentityRow(s, u, tr)
    PROVE  ApprovedInv'
  <1>1. PICK n \in Id : /\ NewKey(n)
                        /\ idents' = [idents EXCEPT ![s] =
                             [st |-> "present", user |-> u, id |-> n, admin_ok |-> FALSE,
                              transition |-> tr, approved |-> None]]
    BY DEF InsertIdentityRow
  <1>2. /\ idents'[s].st = "present" /\ idents'[s].user = u /\ idents'[s].id = n
        /\ idents'[s].admin_ok = FALSE
        /\ \A x \in Subject : x # s => idents'[x] = idents[x]
    BY <1>1 DEF IdentityIInv, TableInv
  <1>3. \A x \in Subject : Linked(x) => idents[x].user \in User
    BY DEF IdentityIInv, TableInv, Linked
  <1>4. \A x \in Subject : Linked(x) => idents[x].id # n
    <2>1. \A x \in Subject : idents[x].id \in Int
      BY SubjectAssumption, FS_CardinalityType DEF IdentityIInv, TableInv, IdentityRow, Id
    <2>2. n \in Int
      BY SubjectAssumption, FS_CardinalityType DEF Id
    <2> QED BY <1>1, <2>1, <2>2 DEF NewKey
  <1>5. /\ \A x \in Subject : Linked(x)' => users'[idents'[x].user].st = "present"
        /\ \A x \in Subject : idents'[x].admin_ok => Linked(x)' /\ users'[idents'[x].user].bound
    BY <1>2, <1>3 DEF ApprovedInv, UsersStay, Linked, Exists
  <1>6. OneRowPerKey'
    BY <1>2, <1>4 DEF ApprovedInv, OneRowPerKey, Linked
  <1>7. OneApprovedAccount'
    BY <1>2 DEF ApprovedInv, OneApprovedAccount
  <1> QED BY <1>5, <1>6, <1>7 DEF ApprovedInv, Exists

\* bindAdminIdentity approves one account of a user who had none approved.
LEMMA ApproveOne ==
    ASSUME IdentityIInv, ApprovedInv, UsersStay, NEW r \in Request, bindAdminIdentity(r)
    PROVE  ApprovedInv'
  <1> DEFINE u == req[r].user
             new == Approvable(u, req[r].id)
  <1>r. /\ req[r] \in Req /\ users \in [User -> UserRow] /\ u \in User
        /\ idents \in [Subject -> IdentityRow]
    BY DEF IdentityIInv, TableInv, bindAdminIdentity, At, ReqShape, Knowing
  <1>1. CASE Refuse(r) /\ UNCHANGED <<users, idents>>
    <2>1. RequestUsers'
      BY <1>1, PlaceUsers DEF ApprovedInv
    <2> QED BY <1>1, <2>1, NoNewRows
  <1>2. CASE /\ Bindable(u)
             /\ users' = [users EXCEPT ![u].bound = TRUE]
             /\ idents' = ApprovedBy(r)
             /\ GoTo(r, "session")
    <2>1. RequestUsers'
      <3>1. "session" \in PC
        BY DEF PC
      <3> QED BY <1>2, <3>1, PlaceUsers DEF ApprovedInv
    <2>2. \A s \in Subject :
            /\ idents'[s].st = idents[s].st /\ idents'[s].user = idents[s].user
            /\ idents'[s].id = idents[s].id
            /\ idents'[s].admin_ok => idents[s].admin_ok \/ s \in new
      <3> TAKE s \in Subject
      <3>1. idents'[s] = IF s \in new
                         THEN [idents[s] EXCEPT !.admin_ok = TRUE, !.approved = req[r].subj]
                         ELSE idents[s]
        BY <1>2 DEF ApprovedBy
      <3>2. idents[s] \in IdentityRow
        BY <1>r
      <3> HIDE DEF new
      <3> QED BY <3>1, <3>2 DEF IdentityRow
    <2>3. users'[u].bound = TRUE
      BY <1>2, <1>r DEF UserRow
    <2>4. \A s \in new : Linked(s) /\ idents[s].user = u /\ idents[s].id = req[r].id
      BY DEF Approvable, IdentitiesOf
    <2>5. \A s \in Subject : idents[s].admin_ok => idents[s].user # u
      BY <1>2 DEF ApprovedInv, Bindable
    <2> HIDE DEF u, new
    <2>6. \A s \in Subject : Linked(s) => idents[s].user \in User
      BY DEF IdentityIInv, TableInv, Linked
    <2>7. /\ \A s \in Subject : Linked(s)' => users'[idents'[s].user].st = "present"
          /\ \A s \in Subject : idents'[s].admin_ok => Linked(s)' /\ users'[idents'[s].user].bound
      BY <2>2, <2>3, <2>4, <2>6 DEF ApprovedInv, UsersStay, Linked, Exists
    <2>8. OneRowPerKey'
      BY <2>2 DEF ApprovedInv, OneRowPerKey, Linked
    <2>9. OneApprovedAccount'
      <3> SUFFICES ASSUME NEW s \in Subject, NEW x \in Subject,
                          idents'[s].admin_ok, idents'[x].admin_ok, idents'[s].user = idents'[x].user
                   PROVE  s = x
        BY DEF OneApprovedAccount
      <3>1. CASE s \in new /\ x \in new
        BY <2>4, <3>1 DEF ApprovedInv, OneRowPerKey
      <3>2. CASE idents[s].admin_ok /\ idents[x].admin_ok
        BY <2>2, <3>2 DEF ApprovedInv, OneApprovedAccount
      <3> QED BY <2>2, <2>4, <2>5, <3>1, <3>2
    <2> QED BY <2>1, <2>7, <2>8, <2>9 DEF ApprovedInv, Exists
  <1> QED BY <1>1, <1>2 DEF bindAdminIdentity

\* The other steps of a request.
LEMMA ApprovedSteps ==
    ASSUME IdentityIInv, ApprovedInv, UsersStay, NEW r \in Request, RequestStep(r)
    PROVE  ApprovedInv'
  <1> DEFINE s == req[r].subj
             u == req[r].user
  <1>i. RequestUsers /\ ReqShape(req[r]) /\ req[r] \in Req /\ TableInv(idents)
    BY DEF ApprovedInv, IdentityIInv
  <1>l. ~At(r, "idle") => s \in Subject /\ (Linked(s) => idents[s].user \in User /\ users'[idents[s].user].st = "present")
    BY <1>i DEF ReqShape, At, TableInv, Linked, ApprovedInv, UsersStay, Exists
  <1>u. u \in User => users'[u].st = "present"
    BY DEF ApprovedInv, RequestUsers, UsersStay, Exists
  <1>n. CASE UNCHANGED idents /\ RequestUsers'
    BY <1>n, NoNewRows
  <1>p. ASSUME Refuse(r) \/ GoTo(r, "email") \/ GoTo(r, "register") \/ GoTo(r, "reread")
               \/ GoTo(r, "deny") \/ GoTo(r, "session") \/ Retry(r)
        PROVE  RequestUsers'
    <2>1. {"email", "register", "reread", "deny", "session"} \subseteq PC
      BY DEF PC
    <2> QED BY <1>i, <1>p, <2>1, PlaceUsers
  <1>m. ASSUME ~At(r, "idle"), Linked(s), Matched(r) PROVE RequestUsers'
    BY <1>i, <1>l, <1>m, AsUsers
  <1>1. CASE GetIdentity(r)
    BY <1>1, <1>n, <1>p, <1>m DEF GetIdentity, At
  <1>2. CASE GetMatchedUser(r)
    <2>1. u \in User
      BY <1>2, <1>i DEF GetMatchedUser, At, ReqShape, Knowing
    <2>2. RequestUsers'
      BY <1>2, <1>i, <1>p, <1>u, <2>1, AsUsers DEF GetMatchedUser
    <2> QED BY <1>2, <1>n, <2>2 DEF GetMatchedUser
  <1>3. CASE LookupEmail(r)
    <2>1. ASSUME NEW v \in GetActiveUserByEmail(req[r].email),
                 req' = [req EXCEPT ![r] = [As(r, "link", v) EXCEPT
                                              !.pol.AutoLink = req[r].pol.AutoLink]]
          PROVE  RequestUsers'
      <3>1. v \in User /\ users'[v].st = "present"
        BY DEF GetActiveUserByEmail, Holders, UsersStay, Exists
      <3> QED BY <1>i, <2>1, <3>1, AsUsers
    <2> QED BY <1>3, <1>n, <1>p, <2>1 DEF LookupEmail
  <1>4. CASE Link(r)
    <2>1. At(r, "link") /\ s \in Subject /\ u \in User /\ users'[u].st = "present"
      BY <1>4, <1>i, <1>u DEF Link, At, ReqShape
    <2>2. CASE /\ InsertIdentityRow(s, u, ~req[r].pol.AutoLink)
               /\ req' = [req EXCEPT ![r] = As(r, "readback", u)]
      <3>1. RequestUsers'
        BY <1>i, <2>1, <2>2, AsUsers
      <3>2. (~req[r].pol.AutoLink) \in BOOLEAN
        BY <1>i DEF Req, linkPolicy
      <3> HIDE DEF s, u
      <3> QED BY <2>1, <2>2, <3>1, <3>2, NewRow
    <2>3. CASE GoTo(r, "reread") /\ UNCHANGED idents
      BY <1>n, <1>p, <2>3
    <2> QED BY <1>4, <2>2, <2>3 DEF Link
  <1>5. CASE ReadBack(r)
    <2>1. u \in User
      BY <1>5, <1>i DEF ReadBack, At, ReqShape, Knowing
    <2>2. RequestUsers'
      BY <1>5, <1>i, <1>p, <1>u, <2>1, AsUsers DEF ReadBack
    <2> QED BY <1>5, <1>n, <2>2 DEF ReadBack
  <1>6. CASE Reread(r) \/ denyLink(r)
    <2>1. UNCHANGED idents /\ ~At(r, "idle")
      BY <1>6 DEF Reread, denyLink, At
    <2>2. Refuse(r) \/ GoTo(r, "deny") \/ (Linked(s) /\ Matched(r))
      BY <1>6 DEF Reread, denyLink
    <2> QED BY <1>n, <1>p, <1>m, <2>1, <2>2
  <1>7. CASE register(r)
    <2>0. At(r, "register") /\ s \in Subject
      BY <1>7, <1>l DEF register, At
    <2>1. ASSUME NEW v \in User, CreateUser(v, req[r].email), InsertIdentity(s, v),
                 Resolved(r, v, 0, FALSE)
          PROVE  ApprovedInv'
      <3>1. users'[v].st = "present"
        BY <2>1 DEF CreateUser, Exists, IdentityIInv
      <3>2. RequestUsers'
        BY <1>i, <2>1, <3>1, AsUsers
      <3> HIDE DEF s
      <3> QED BY <2>0, <2>1, <3>1, <3>2, NewRow DEF InsertIdentity
    <2>2. CASE Retry(r) /\ UNCHANGED idents
      BY <1>n, <1>p, <2>2
    <2> QED BY <1>7, <2>1, <2>2 DEF register
  <1>8. CASE LoginFails(r) \/ CompleteLogin(r) \/ StartAdminSession(r)
    BY <1>8, <1>n, <1>p DEF LoginFails, CompleteLogin, StartAdminSession
  <1> QED BY <1>1, <1>2, <1>3, <1>4, <1>5, <1>6, <1>7, <1>8, ApproveOne DEF RequestStep

\* Every step of Identities keeps the invariant.
LEMMA ApprovedNext ==
    ASSUME IdentityIInv, ApprovedInv, [Next]_vars PROVE ApprovedInv'
  <1>s. UsersStay
    BY StepKeepsUsers
  <1>r. RequestUsers
    BY DEF ApprovedInv
  <1>1. CASE UNCHANGED <<idents, req>>
    <2>1. RequestUsers'
      BY <1>1, <1>r, <1>s DEF RequestUsers, UsersStay, Exists
    <2> QED BY <1>1, <1>s, <2>1, NoNewRows
  <1>2. ASSUME NEW r \in Request, NEW s \in Subject, NEW e \in Email,
               (\E pol \in Policies : BeginLogin(r, s, e, pol)) \/ BeginAdminLogin(r, s, e)
        PROVE  ApprovedInv'
    <2>1. PICK q : req' = [req EXCEPT ![r] = q] /\ q.user = None
      <3>n. NoReq \in Req /\ NoReq.user = None
        BY NoReqShape DEF ReqShape, NoReq
      <3>1. ASSUME NEW pol, BeginLogin(r, s, e, pol)
            PROVE  \E q : req' = [req EXCEPT ![r] = q] /\ q.user = None
        <4> DEFINE q == [NoReq EXCEPT !.pc = "identity", !.subj = s, !.pol = pol,
                                      !.email = IF pol.EmailUntrusted THEN None ELSE e]
        <4>1. req' = [req EXCEPT ![r] = q] /\ q.user = None
          BY <3>n, <3>1 DEF BeginLogin, Req
        <4> QED BY <4>1
      <3>2. ASSUME BeginAdminLogin(r, s, e)
            PROVE  \E q : req' = [req EXCEPT ![r] = q] /\ q.user = None
        <4> DEFINE q == [NoReq EXCEPT !.pc = "identity", !.subj = s, !.email = e, !.admin = TRUE]
        <4>1. req' = [req EXCEPT ![r] = q] /\ q.user = None
          BY <3>n, <3>2 DEF BeginAdminLogin, Req
        <4> QED BY <4>1
      <3> QED BY <1>2, <3>1, <3>2
    <2>2. RequestUsers'
      BY <1>r, <1>s, <2>1, SlotUsers, NobodyAssumption
    <2>3. UNCHANGED idents
      BY <1>2 DEF BeginLogin, BeginAdminLogin
    <2> QED BY <1>s, <2>2, <2>3, NoNewRows
  <1>3. ASSUME NEW s \in Subject, HandleUnlink(s) PROVE ApprovedInv'
    <2>1. /\ idents' = [idents EXCEPT ![s] = NoIdentity]
          /\ req' = [r \in Request |-> IF Knows(r, s) THEN [req[r] EXCEPT !.cut = TRUE] ELSE req[r]]
      BY <1>3 DEF HandleUnlink, CutRequests
    <2>2. \A r \in Request : req'[r].user = req[r].user
      <3> TAKE r \in Request
      <3>1. req[r] \in Req
        BY DEF IdentityIInv
      <3>2. [req[r] EXCEPT !.cut = TRUE].user = req[r].user
        BY <3>1 DEF Req
      <3> QED BY <2>1, <3>2
    <2>3. RequestUsers'
      BY <1>r, <1>s, <2>2 DEF RequestUsers, UsersStay, Exists
    <2>4. \A x \in Subject : idents'[x] = idents[x] \/ idents'[x] = NoIdentity
      BY <2>1 DEF IdentityIInv, TableInv
    <2> QED BY <1>s, <2>3, <2>4, NoNewRows
  <1>4. CASE LoginStep
    BY <1>s, <1>2, <1>4, ApprovedSteps DEF LoginStep
  <1>5. CASE AdminStep
    BY <1>1, <1>3, <1>5 DEF AdminStep, HandleCreate, HandleEmailChange, HandleDeactivate
  <1> QED BY <1>1, <1>4, <1>5 DEF Next, vars

\* bindAdminIdentity: however many first admin logins race, at most one
\* account of a user is approved for admin.
THEOREM OneAccountIsApproved == Spec => []OneApprovedAccount
  <1>1. Init => ApprovedInv
    <2> SUFFICES ASSUME Init PROVE ApprovedInv
      OBVIOUS
    <2>1. NoIdentity.st = "none" /\ ~NoIdentity.admin_ok /\ NoReq.user \notin User
      BY NobodyAssumption DEF NoIdentity, NoReq
    <2> QED
      BY <2>1 DEF Init, ApprovedInv, RequestUsers, OneRowPerKey, OneApprovedAccount, Linked
  <1>2. IdentityIInv /\ ApprovedInv /\ [Next]_vars => ApprovedInv'
    BY ApprovedNext
  <1>3. ApprovedInv => OneApprovedAccount
    BY DEF ApprovedInv
  <1> QED BY <1>1, <1>2, <1>3, IdentityInvariant, PTL DEF Spec

-----------------------------------------------------------------------------
(* The invariant of LinkInvites *)

\* A row of the table at time c, with the accounts l it has linked.
RowInv(row, l, c) ==
    /\ row \in InviteRow /\ l \in Seq(User \X Subject)
    /\ row.st = "none" => ~row.used /\ ~row.mailed
    /\ row.st # "none" => /\ row.user \in User
                          /\ row.exp = row.created + InviteTTL /\ row.created <= c
    /\ row.st = "deleted" => row.exp < c - Retention
    /\ row.withdrawn => row.used
    /\ ~row.used \/ row.withdrawn => Len(l) = 0
    /\ Len(l) <= 1

\* A request at time c, with the table t.
InviteReqInv(q, t, c) ==
    /\ q \in InviteReq
    /\ q.pc = "insert" => q.user \in User /\ q.now <= c
    /\ q.pc \in {"audit", "external", "finish"} => q.invite \in Invite /\ t[q.invite].st # "none"
    /\ q.pc \in {"external", "finish"} => t[q.invite].mailed
    /\ q.pc = "finish" => q.subj \in Subject

\* The invitations InviteQuotaHolds counts for i.
Near(t, i) == {j \in Invite : /\ t[j].st # "none" /\ t[j].user = t[i].user
                              /\ t[j].created <= t[i].created
                              /\ t[j].created > t[i].created - Window}

QuotaInv(t) == \A i \in Invite : t[i].st # "none" => Cardinality(Near(t, i)) <= Quota

InviteIInv ==
    /\ IdentityIInv
    /\ invites \in [Invite -> InviteRow]
    /\ ireq \in [InviteRequest -> InviteReq]
    /\ links \in [Invite -> Seq(User \X Subject)]
    /\ clock \in Nat
    /\ \A i \in Invite : RowInv(invites[i], links[i], clock)
    /\ \A k \in InviteRequest : InviteReqInv(ireq[k], invites, clock)
    /\ QuotaInv(invites)

\* Two tables, one after the other, with no insertion between.
Kept(t, n) ==
    \A i \in Invite :
        /\ n[i].st = "none" <=> t[i].st = "none"
        /\ n[i].user = t[i].user /\ n[i].created = t[i].created
        /\ t[i].mailed => n[i].mailed

-----------------------------------------------------------------------------
(* Single values and statements *)

\* An idle slot promises nothing.
LEMMA NoInviteReqShape == \A t, c : InviteReqInv(NoInviteReq, t, c)
  <1>1. NoInviteReq \in InviteReq /\ NoInviteReq.pc = "idle"
    BY DEF NoInviteReq, InviteReq, InvitePC
  <1> QED BY <1>1 DEF InviteReqInv

\* A step that inserts no invitation keeps the quota.
LEMMA KeptQuota == ASSUME NEW t, NEW n, Kept(t, n), QuotaInv(t) PROVE QuotaInv(n)
  <1>1. \A i \in Invite : Near(n, i) = Near(t, i)
    BY DEF Kept, Near
  <1> QED BY <1>1 DEF QuotaInv, Kept

\* What a request knows of its invitation stays true.
LEMMA KeptRequest ==
    ASSUME NEW t, NEW n, NEW c \in Nat, NEW d \in Nat, c <= d,
           \A i \in Invite : t[i].st # "none" => n[i].st # "none" /\ (t[i].mailed => n[i].mailed)
    PROVE  \A q : InviteReqInv(q, t, c) => InviteReqInv(q, n, d)
  <1> SUFFICES ASSUME NEW q, InviteReqInv(q, t, c) PROVE InviteReqInv(q, n, d)
    OBVIOUS
  <1>1. q.now \in Nat
    BY DEF InviteReqInv, InviteReq
  <1> QED BY <1>1 DEF InviteReqInv

\* A step that inserts no invitation.
LEMMA KeptStep ==
    ASSUME InviteIInv, IdentityIInv', clock' \in Nat, clock <= clock',
           invites' \in [Invite -> InviteRow], links' \in [Invite -> Seq(User \X Subject)],
           \A i \in Invite : RowInv(invites'[i], links'[i], clock'),
           Kept(invites, invites'),
           ireq' \in [InviteRequest -> InviteReq],
           \A k \in InviteRequest : ireq'[k] = ireq[k] \/ InviteReqInv(ireq'[k], invites', clock')
    PROVE  InviteIInv'
  <1>1. QuotaInv(invites')
    BY KeptQuota DEF InviteIInv
  <1>2. \A k \in InviteRequest : InviteReqInv(ireq[k], invites', clock')
    BY KeptRequest DEF InviteIInv, Kept
  <1>3. \A k \in InviteRequest : InviteReqInv(ireq'[k], invites', clock')
    BY <1>2
  <1> QED BY <1>1, <1>3 DEF InviteIInv, RowInv, InviteReqInv, QuotaInv, Near

\* A step on the invitations alone keeps the invariant of Identities.
LEMMA SameIdentities == IdentityIInv /\ UNCHANGED vars => IdentityIInv'
  BY DEF vars, IdentityIInv, TableInv, ReqShape, ReqOwner

\* A request that comes to an end or goes on, and writes nothing.
LEMMA SlotStep ==
    ASSUME InviteIInv, NEW k \in InviteRequest, NEW q, ireq' = [ireq EXCEPT ![k] = q],
           InviteReqInv(q, invites, clock), UNCHANGED <<vars, invites, clock, links>>
    PROVE  InviteIInv'
  <1>1. q \in InviteReq
    BY DEF InviteReqInv
  <1>2. IdentityIInv'
    BY SameIdentities DEF InviteIInv
  <1>3. ireq' \in [InviteRequest -> InviteReq]
        /\ \A x \in InviteRequest : ireq'[x] = ireq[x] \/ InviteReqInv(ireq'[x], invites', clock')
    BY <1>1 DEF InviteIInv
  <1>4. Kept(invites, invites') /\ clock <= clock'
    BY DEF Kept, InviteIInv
  <1> QED BY <1>2, <1>3, <1>4, KeptStep DEF InviteIInv

\* The rows that statements write: used up by a link, withdrawn, deleted.
LEMMA UsedInvite ==
    ASSUME NEW row, NEW l, NEW c, RowInv(row, l, c), row.st = "present", ~row.used,
           NEW w \in BOOLEAN
    PROVE  LET n == [row EXCEPT !.used = TRUE, !.withdrawn = w] IN
           RowInv(n, l, c) /\ n.st = "present" /\ n.user = row.user /\ n.created = row.created
           /\ n.mailed = row.mailed
  <1> DEFINE n == [row EXCEPT !.used = TRUE, !.withdrawn = w]
  <1>1. /\ n \in InviteRow /\ n.st = row.st /\ n.user = row.user /\ n.created = row.created
        /\ n.exp = row.exp /\ n.used = TRUE /\ n.withdrawn = w /\ n.mailed = row.mailed
    BY DEF RowInv, InviteRow
  <1> HIDE DEF n
  <1>2. RowInv(n, l, c)
    BY <1>1 DEF RowInv
  <1> QED BY <1>1, <1>2 DEF n

\* Burning the invitations of a user only marks rows used.
LEMMA BurnedTable ==
    ASSUME InviteIInv, NEW u
    PROVE  /\ Burned(u) \in [Invite -> InviteRow] /\ Kept(invites, Burned(u))
           /\ \A i \in Invite : RowInv(Burned(u)[i], links[i], clock)
           /\ \A i \in Invite : Burned(u)[i].st = invites[i].st
  <1>1. ASSUME NEW i \in Invite
        PROVE  /\ RowInv(Burned(u)[i], links[i], clock) /\ Burned(u)[i].st = invites[i].st
               /\ Burned(u)[i].user = invites[i].user /\ Burned(u)[i].created = invites[i].created
               /\ invites[i].mailed => Burned(u)[i].mailed
    <2>1. CASE Unused(i) /\ invites[i].user = u
      BY <2>1, UsedInvite DEF Burned, Unused, InviteIInv
    <2>2. CASE ~(Unused(i) /\ invites[i].user = u)
      <3>1. Burned(u)[i] = invites[i]
        BY <2>2 DEF Burned
      <3> QED BY <3>1 DEF InviteIInv
    <2> QED BY <2>1, <2>2
  <1>2. Burned(u) \in [Invite -> InviteRow]
    <2>1. \A i \in Invite : Burned(u)[i] \in InviteRow
      BY <1>1 DEF RowInv
    <2> QED BY <2>1 DEF Burned
  <1> QED BY <1>1, <1>2 DEF Kept

\* One row of the table is rewritten.
LEMMA RowStep ==
    ASSUME InviteIInv, IdentityIInv', NEW i \in Invite, NEW row, NEW l,
           invites' = [invites EXCEPT ![i] = row], links' = [links EXCEPT ![i] = l],
           RowInv(row, l, clock),
           row.st = "none" <=> invites[i].st = "none",
           row.user = invites[i].user, row.created = invites[i].created,
           invites[i].mailed => row.mailed,
           UNCHANGED clock,
           ireq' \in [InviteRequest -> InviteReq],
           \A k \in InviteRequest : ireq'[k] = ireq[k] \/ InviteReqInv(ireq'[k], invites', clock')
    PROVE  InviteIInv'
  <1>1. row \in InviteRow /\ l \in Seq(User \X Subject)
    BY DEF RowInv
  <1>2. /\ invites' \in [Invite -> InviteRow] /\ links' \in [Invite -> Seq(User \X Subject)]
        /\ invites'[i] = row /\ links'[i] = l
        /\ \A j \in Invite : j # i => invites'[j] = invites[j] /\ links'[j] = links[j]
    BY <1>1 DEF InviteIInv
  <1>3. Kept(invites, invites')
    BY <1>2 DEF Kept
  <1>4. \A j \in Invite : RowInv(invites'[j], links'[j], clock')
    BY <1>2 DEF InviteIInv
  <1>5. clock' \in Nat /\ clock <= clock'
    BY DEF InviteIInv
  <1> QED BY <1>2, <1>3, <1>4, <1>5, KeptStep

\* A request that is done leaves its slot idle.
LEMMA DoneShape ==
    ASSUME InviteIInv, NEW k \in InviteRequest, InviteDone(k)
    PROVE  /\ ireq' \in [InviteRequest -> InviteReq]
           /\ \A x \in InviteRequest : ireq'[x] = ireq[x] \/ \A t, c : InviteReqInv(ireq'[x], t, c)
  <1>1. NoInviteReq \in InviteReq
    BY NoInviteReqShape DEF InviteReqInv
  <1> QED BY <1>1, NoInviteReqShape DEF InviteIInv, InviteDone

-----------------------------------------------------------------------------
(* The insertion *)

\* InsertLinkInviteLimited counts every invitation that the new one, or one
\* made at the same time, could be counted with: cleanup has deleted none of
\* them, because a request waits at most Lag for the lock.
LEMMA QuotaInsertion ==
    ASSUME InviteIInv, NEW i \in Invite, invites[i].st = "none", NEW u \in User,
           NEW now \in Nat, now <= clock, clock - now <= Lag,
           NEW t, Kept(invites, t), \A j \in Invite : t[j].st = invites[j].st,
           Cardinality(InviteWindow(t, u, now)) < Quota,
           NEW n, n[i].st = "present", n[i].user = u, n[i].created = now,
           \A j \in Invite : j # i => n[j] = t[j]
    PROVE  QuotaInv(n)
  <1> DEFINE W == InviteWindow(t, u, now)
  <1>1. /\ IsFiniteSet(W \cup {i}) /\ Cardinality(W \cup {i}) <= Quota
    <2>1. IsFiniteSet(W)
      BY InviteAssumption, FS_Subset DEF InviteWindow
    <2>2. /\ IsFiniteSet(W \cup {i})
          /\ Cardinality(W \cup {i}) = IF i \in W THEN Cardinality(W) ELSE Cardinality(W) + 1
      BY <2>1, FS_AddElement
    <2>3. Cardinality(W) \in Nat
      BY <2>1, FS_CardinalityType
    <2> QED BY <2>2, <2>3, InviteTimesAssumption
  <1>2. ASSUME NEW j \in Invite, j # i, n[j].st # "none", n[j].user = u, n[j].created > now - Window
        PROVE  j \in W
    <2>1. RowInv(invites[j], links[j], clock) /\ clock \in Nat
      BY DEF InviteIInv
    <2>2. /\ invites[j].st # "none" /\ t[j].user = u /\ t[j].created = invites[j].created
          /\ t[j].st = invites[j].st /\ t[j].created > now - Window
      BY <1>2 DEF Kept
    <2>3. invites[j].created \in Nat /\ invites[j].st \in {"none", "present", "deleted"}
      BY <2>1 DEF RowInv, InviteRow
    <2>4. invites[j].st # "deleted"
      BY <2>1, <2>2, <2>3, InviteTimesAssumption DEF RowInv
    <2> QED BY <2>2, <2>3, <2>4 DEF InviteWindow
  <1>3. ASSUME NEW j \in Invite, n[j].st # "none" PROVE Cardinality(Near(n, j)) <= Quota
    <2>1. CASE j = i \/ i \in Near(n, j)
      <3>1. n[j].created \in Nat
        <4>1. CASE j = i
          BY <4>1
        <4>2. CASE j # i
          BY <4>2 DEF Kept, InviteIInv, InviteRow
        <4> QED BY <4>1, <4>2
      <3>2. n[j].user = u /\ n[j].created >= now
        BY <2>1 DEF Near
      <3>3. ASSUME NEW x \in Near(n, j), x # i PROVE x \in W
        <4>1. /\ x \in Invite /\ n[x].st # "none" /\ n[x].user = u
              /\ n[x].created > n[j].created - Window
          BY <3>2, <3>3 DEF Near
        <4>2. n[x].created \in Nat
          BY <3>3, <4>1 DEF Kept, InviteIInv, InviteRow
        <4>3. n[x].created > now - Window
          BY <3>1, <3>2, <4>1, <4>2, InviteTimesAssumption
        <4> QED BY <1>2, <3>3, <4>1, <4>3
      <3>4. Near(n, j) \in SUBSET (W \cup {i})
        BY <3>3
      <3>5. Cardinality(Near(n, j)) <= Cardinality(W \cup {i})
            /\ Cardinality(Near(n, j)) \in Nat /\ Cardinality(W \cup {i}) \in Nat
        BY <1>1, <3>4, FS_Subset, FS_CardinalityType
      <3> QED BY <1>1, <3>5, InviteTimesAssumption
    <2>2. CASE j # i /\ i \notin Near(n, j)
      <3>2. \A x \in Invite : x # i => /\ n[x].st = invites[x].st /\ n[x].user = invites[x].user
                                       /\ n[x].created = invites[x].created
        BY DEF Kept
      <3>3. Near(n, j) = Near(invites, j)
        BY <2>2, <3>2 DEF Near
      <3> QED BY <1>3, <2>2, <3>2, <3>3 DEF InviteIInv, QuotaInv
    <2> QED BY <2>1, <2>2
  <1> QED BY <1>3 DEF QuotaInv

\* The transaction that burns, counts and inserts.
LEMMA InsertInviteStep ==
    ASSUME InviteIInv, NEW k \in InviteRequest, InsertInvite(k)
    PROVE  InviteIInv'
  <1> DEFINE u == ireq[k].user
             now == ireq[k].now
             t == Burned(u)
  <1>1. /\ ireq[k] \in InviteReq /\ u \in User /\ now <= clock /\ now \in Nat
        /\ ireq[k].email \in Email \cup {None} /\ clock \in Nat
    BY DEF InsertInvite, InviteAt, InviteIInv, InviteReqInv, InviteReq
  <1>2. PICK i \in Invite :
          /\ invites[i].st = "none"
          /\ invites' = [t EXCEPT ![i] =
                          [st |-> "present", user |-> u, email |-> ireq[k].email,
                           created |-> now, exp |-> LinkInviteExpiry(now), used |-> FALSE,
                           mailed |-> FALSE, withdrawn |-> FALSE]]
          /\ ireq' = [ireq EXCEPT ![k] = [NoInviteReq EXCEPT !.pc = "audit", !.invite = i]]
    BY DEF InsertInvite, BurnLinkInvites
  <1>3. /\ clock - now <= Lag /\ Cardinality(InviteWindow(t, u, now)) < Quota
        /\ UNCHANGED <<vars, clock, links>>
    BY DEF InsertInvite, InLockTime, BurnLinkInvites
  <1> DEFINE row == [st |-> "present", user |-> u, email |-> ireq[k].email,
                     created |-> now, exp |-> LinkInviteExpiry(now), used |-> FALSE,
                     mailed |-> FALSE, withdrawn |-> FALSE]
             q == [NoInviteReq EXCEPT !.pc = "audit", !.invite = i]
  <1>4. /\ t \in [Invite -> InviteRow] /\ Kept(invites, t)
        /\ \A j \in Invite : RowInv(t[j], links[j], clock)
        /\ \A j \in Invite : t[j].st = invites[j].st
    BY BurnedTable
  <1>5. /\ row \in InviteRow /\ row.st = "present" /\ row.user = u /\ row.created = now
        /\ row.exp = now + InviteTTL /\ ~row.used /\ ~row.withdrawn
    BY <1>1, InviteTimesAssumption DEF InviteRow, LinkInviteExpiry
  <1>6. q \in InviteReq /\ q.pc = "audit" /\ q.invite = i
    BY DEF NoInviteReq, InviteReq, InvitePC
  <1>7. invites' = [t EXCEPT ![i] = row] /\ ireq' = [ireq EXCEPT ![k] = q]
    BY <1>2
  <1> HIDE DEF t, row, q
  <1>8. /\ invites' \in [Invite -> InviteRow] /\ invites'[i] = row
        /\ \A j \in Invite : j # i => invites'[j] = t[j]
    BY <1>4, <1>5, <1>7
  <1>9. Len(links[i]) = 0 /\ links[i] \in Seq(User \X Subject)
    BY <1>2 DEF InviteIInv, RowInv
  <1>10. RowInv(row, links[i], clock)
    BY <1>1, <1>5, <1>9 DEF RowInv
  <1>11. \A j \in Invite : RowInv(invites'[j], links'[j], clock')
    BY <1>3, <1>4, <1>8, <1>10
  <1>12. QuotaInv(invites')
    BY <1>1, <1>2, <1>3, <1>4, <1>5, <1>8, QuotaInsertion
  <1>13. \A x \in InviteRequest : InviteReqInv(ireq[x], invites', clock)
    <2>1. \A j \in Invite : invites[j].st # "none" =>
            invites'[j].st # "none" /\ (invites[j].mailed => invites'[j].mailed)
      BY <1>2, <1>4, <1>8 DEF Kept
    <2>2. clock <= clock /\ \A x \in InviteRequest : InviteReqInv(ireq[x], invites, clock)
      BY <1>1 DEF InviteIInv
    <2>3. \A p : InviteReqInv(p, invites, clock) => InviteReqInv(p, invites', clock)
      BY <1>1, <2>1, <2>2, KeptRequest
    <2> QED BY <2>2, <2>3
  <1>14. InviteReqInv(q, invites', clock)
    BY <1>5, <1>6, <1>8 DEF InviteReqInv
  <1>15. ireq' \in [InviteRequest -> InviteReq]
         /\ \A x \in InviteRequest : InviteReqInv(ireq'[x], invites', clock')
    BY <1>3, <1>6, <1>7, <1>13, <1>14 DEF InviteIInv
  <1>16. IdentityIInv'
    BY <1>3, SameIdentities DEF InviteIInv
  <1> QED
    BY <1>3, <1>8, <1>11, <1>12, <1>15, <1>16
    DEF InviteIInv, RowInv, InviteReqInv, QuotaInv, Near

-----------------------------------------------------------------------------
(* The steps of LinkInvites *)

\* Before the first request there is no invitation.
LEMMA InviteInitially == InviteInit => InviteIInv
  <1> SUFFICES ASSUME InviteInit PROVE InviteIInv
    OBVIOUS
  <1>1. NoInvite \in InviteRow /\ NoInvite.st = "none" /\ ~NoInvite.used /\ ~NoInvite.mailed
        /\ ~NoInvite.withdrawn
    BY DEF NoInvite, InviteRow
  <1>2. << >> \in Seq(User \X Subject) /\ Len(<< >>) = 0
    OBVIOUS
  <1>3. RowInv(NoInvite, << >>, 0)
    BY <1>1, <1>2 DEF RowInv
  <1>4. NoInviteReq \in InviteReq
    BY NoInviteReqShape DEF InviteReqInv
  <1>5. QuotaInv(invites)
    BY <1>1 DEF InviteInit, QuotaInv
  <1>6. /\ invites \in [Invite -> InviteRow] /\ links \in [Invite -> Seq(User \X Subject)]
        /\ ireq \in [InviteRequest -> InviteReq] /\ clock \in Nat
    BY <1>1, <1>2, <1>4 DEF InviteInit
  <1>7. /\ \A i \in Invite : RowInv(invites[i], links[i], clock)
        /\ \A k \in InviteRequest : InviteReqInv(ireq[k], invites, clock)
    BY <1>3, NoInviteReqShape DEF InviteInit
  <1> QED BY <1>5, <1>6, <1>7, IdentityInit DEF InviteInit, InviteIInv

\* Steps of a slot that write nothing.
LEMMA SlotSteps ==
    ASSUME InviteIInv, NEW k \in InviteRequest,
           \/ \E u \in User : BeginInvite(k, u)
           \/ \E i \in Invite : StartLink(k, i)
           \/ \E s \in Subject : ReturnFromProvider(k, s)
           \/ InviteQuotaExceeded(k) \/ rejectLink(k) \/ InviteFails(k)
    PROVE  InviteIInv'
  <1>n. NoInviteReq \in InviteReq
    BY NoInviteReqShape DEF InviteReqInv
  <1>k. ireq[k] \in InviteReq /\ InviteReqInv(ireq[k], invites, clock) /\ clock \in Nat
    BY DEF InviteIInv
  <1>1. ASSUME NEW u \in User, BeginInvite(k, u) PROVE InviteIInv'
    <2> DEFINE q == [NoInviteReq EXCEPT !.pc = "insert", !.user = u,
                                        !.email = users[u].email, !.now = clock]
    <2>1. users[u].email \in Email \cup {None}
      BY DEF InviteIInv, IdentityIInv, UserRow
    <2>2. q \in InviteReq /\ q.pc = "insert" /\ q.user = u /\ q.now = clock
      BY <1>n, <1>k, <2>1 DEF InviteReq, InvitePC
    <2>3. ireq' = [ireq EXCEPT ![k] = q] /\ UNCHANGED <<vars, invites, clock, links>>
      BY <1>1 DEF BeginInvite
    <2> HIDE DEF q
    <2>4. InviteReqInv(q, invites, clock)
      BY <1>k, <2>2 DEF InviteReqInv
    <2> QED BY <2>3, <2>4, SlotStep
  <1>2. ASSUME NEW i \in Invite, StartLink(k, i) PROVE InviteIInv'
    <2> DEFINE q == [NoInviteReq EXCEPT !.pc = "external", !.invite = i]
    <2>1. q \in InviteReq /\ q.pc = "external" /\ q.invite = i
      BY <1>n DEF InviteReq, InvitePC
    <2>2. ireq' = [ireq EXCEPT ![k] = q] /\ UNCHANGED <<vars, invites, clock, links>>
      BY <1>2 DEF StartLink
    <2>3. invites[i].mailed /\ invites[i].st # "none"
      BY <1>2 DEF StartLink, ValidInvite, Unused
    <2> HIDE DEF q
    <2>4. InviteReqInv(q, invites, clock)
      BY <2>1, <2>3 DEF InviteReqInv
    <2> QED BY <2>2, <2>4, SlotStep
  <1>3. ASSUME NEW s \in Subject, ReturnFromProvider(k, s) PROVE InviteIInv'
    <2> DEFINE q == [ireq[k] EXCEPT !.pc = "finish", !.subj = s, !.now = clock]
    <2>1. q \in InviteReq /\ q.pc = "finish" /\ q.subj = s /\ q.invite = ireq[k].invite
      BY <1>k DEF InviteReq, InvitePC
    <2>2. ireq' = [ireq EXCEPT ![k] = q] /\ UNCHANGED <<vars, invites, clock, links>>
      BY <1>3, <1>k DEF ReturnFromProvider
    <2> HIDE DEF q
    <2>3. InviteReqInv(q, invites, clock)
      BY <1>3, <1>k, <2>1 DEF InviteReqInv, ReturnFromProvider, InviteAt
    <2> QED BY <2>2, <2>3, SlotStep
  <1>4. CASE InviteQuotaExceeded(k) \/ rejectLink(k) \/ InviteFails(k)
    <2>1. ireq' = [ireq EXCEPT ![k] = NoInviteReq] /\ UNCHANGED <<vars, invites, clock, links>>
      BY <1>4 DEF InviteQuotaExceeded, rejectLink, InviteFails, InviteDone
    <2> QED BY <2>1, NoInviteReqShape, SlotStep
  <1> QED BY <1>1, <1>2, <1>3, <1>4

\* An invitation is withdrawn, if it is still unused.
LEMMA RevokeShape ==
    ASSUME InviteIInv, NEW i \in Invite, RevokeLinkInvite(i), UNCHANGED <<vars, clock, links>>,
           ireq' \in [InviteRequest -> InviteReq],
           \A k \in InviteRequest : ireq'[k] = ireq[k] \/ InviteReqInv(ireq'[k], invites', clock')
    PROVE  InviteIInv'
  <1>i. /\ IdentityIInv' /\ RowInv(invites[i], links[i], clock) /\ links' = [links EXCEPT ![i] = links[i]]
        /\ invites \in [Invite -> InviteRow]
    BY SameIdentities DEF InviteIInv
  <1>1. CASE Unused(i)
    <2> DEFINE row == [invites[i] EXCEPT !.used = TRUE, !.withdrawn = TRUE]
    <2>1. invites' = [invites EXCEPT ![i] = row]
      BY <1>1, <1>i DEF RevokeLinkInvite
    <2>2. /\ RowInv(row, links[i], clock) /\ row.st = "present" /\ row.user = invites[i].user
          /\ row.created = invites[i].created /\ row.mailed = invites[i].mailed
      BY <1>1, <1>i, UsedInvite DEF Unused
    <2>3. invites[i].st = "present"
      BY <1>1 DEF Unused
    <2> HIDE DEF row
    <2> QED BY <1>i, <2>1, <2>2, <2>3, RowStep
  <1>2. CASE ~Unused(i)
    <2>1. invites' = [invites EXCEPT ![i] = invites[i]]
      BY <1>2, <1>i DEF RevokeLinkInvite
    <2> QED BY <1>i, <2>1, RowStep
  <1> QED BY <1>1, <1>2

\* The mail of an invitation is sent, or the audit before it fails.
LEMMA MailSteps ==
    ASSUME InviteIInv, NEW k \in InviteRequest, MailInvite(k) \/ AuditFails(k)
    PROVE  InviteIInv'
  <1> DEFINE i == ireq[k].invite
  <1>1. i \in Invite /\ invites[i].st # "none"
    BY DEF MailInvite, AuditFails, InviteAt, InviteIInv, InviteReqInv
  <1>2. /\ InviteDone(k) /\ UNCHANGED <<vars, clock, links>>
    BY DEF MailInvite, AuditFails
  <1>3. /\ ireq' \in [InviteRequest -> InviteReq]
        /\ \A x \in InviteRequest : ireq'[x] = ireq[x] \/ \A t, c : InviteReqInv(ireq'[x], t, c)
    BY <1>2, DoneShape
  <1>4. CASE AuditFails(k)
    <2> HIDE DEF i
    <2>1. RevokeLinkInvite(i)
      BY <1>4 DEF AuditFails, i
    <2> QED BY <1>1, <1>2, <1>3, <2>1, RevokeShape
  <1>5. CASE MailInvite(k)
    <2> DEFINE row == [invites[i] EXCEPT !.mailed = TRUE]
    <2> HIDE DEF i
    <2>i. /\ IdentityIInv' /\ RowInv(invites[i], links[i], clock)
          /\ links' = [links EXCEPT ![i] = links[i]] /\ invites \in [Invite -> InviteRow]
      BY <1>1, <1>2, SameIdentities DEF InviteIInv
    <2>1. invites' = [invites EXCEPT ![i] = row]
      BY <1>5, <2>i DEF MailInvite, i
    <2>2. /\ row \in InviteRow /\ row.st = invites[i].st /\ row.user = invites[i].user
          /\ row.created = invites[i].created /\ row.exp = invites[i].exp
          /\ row.used = invites[i].used /\ row.withdrawn = invites[i].withdrawn /\ row.mailed = TRUE
      BY <2>i DEF RowInv, InviteRow
    <2> HIDE DEF row
    <2>3. RowInv(row, links[i], clock)
      BY <1>1, <2>i, <2>2 DEF RowInv
    <2> QED BY <1>1, <1>2, <1>3, <2>i, <2>1, <2>2, <2>3, RowStep
  <1> QED BY <1>4, <1>5

\* An account is linked to a user, by an invitation or by a login.
LEMMA LinkedShape ==
    ASSUME IdentityIInv, NEW s \in Subject, NEW u \in User, InsertIdentity(s, u),
           users' \in [User -> UserRow], UNCHANGED <<sessions, req>>
    PROVE  IdentityIInv'
  <1>1. TableInv(idents') /\ Grows(idents, idents')
    BY InsertShape DEF IdentityIInv, InsertIdentity
  <1>2. \A r \in Request : ReqOwner(req[r], idents')
    BY <1>1, GrownTable DEF IdentityIInv
  <1> QED BY <1>1, <1>2 DEF IdentityIInv, TableInv, ReqShape, ReqOwner

\* The callback links the account, or finds it linked already.
LEMMA FinishSteps ==
    ASSUME InviteIInv, NEW k \in InviteRequest, finishLink(k) \/ finishAlready(k)
    PROVE  InviteIInv'
  <1> DEFINE i == ireq[k].invite
             s == ireq[k].subj
             u == invites[i].user
             row == [invites[i] EXCEPT !.used = TRUE]
  <1>1. i \in Invite /\ s \in Subject
    BY DEF finishLink, finishAlready, InviteAt, InviteIInv, InviteReqInv
  <1>2. /\ invites' = [invites EXCEPT ![i].used = TRUE] /\ UNCHANGED clock
        /\ invites[i].st = "present" /\ ~invites[i].used /\ InviteDone(k)
    BY DEF finishLink, finishAlready, ValidInvite, Unused
  <1>3. /\ ireq' \in [InviteRequest -> InviteReq]
        /\ \A x \in InviteRequest : ireq'[x] = ireq[x] \/ \A t, c : InviteReqInv(ireq'[x], t, c)
    BY <1>2, DoneShape
  <1>i. /\ RowInv(invites[i], links[i], clock) /\ invites \in [Invite -> InviteRow]
        /\ links \in [Invite -> Seq(User \X Subject)] /\ IdentityIInv
    BY <1>1 DEF InviteIInv
  <1>4. invites' = [invites EXCEPT ![i] = row]
    BY <1>2, <1>i
  <1>5. /\ row \in InviteRow /\ row.st = "present" /\ row.user = u
        /\ row.created = invites[i].created /\ row.exp = invites[i].exp
        /\ row.used = TRUE /\ row.withdrawn = invites[i].withdrawn /\ row.mailed = invites[i].mailed
    BY <1>2, <1>i DEF RowInv, InviteRow
  <1>6. ~invites[i].withdrawn /\ links[i] \in Seq(User \X Subject) /\ Len(links[i]) = 0 /\ u \in User
    BY <1>2, <1>i DEF RowInv
  <1> HIDE DEF i, s, u, row
  <1>7. CASE finishLink(k)
    <2>1. InsertIdentity(s, u) /\ UNCHANGED <<users, sessions, req>>
          /\ links' = [links EXCEPT ![i] = Append(links[i], <<u, s>>)]
      BY <1>7 DEF finishLink, i, s, u
    <2>2. IdentityIInv'
      BY <1>1, <1>i, <1>6, <2>1, LinkedShape DEF IdentityIInv
    <2>3. Append(links[i], <<u, s>>) \in Seq(User \X Subject) /\ Len(Append(links[i], <<u, s>>)) = 1
      BY <1>1, <1>6
    <2>4. RowInv(row, Append(links[i], <<u, s>>), clock)
      BY <1>2, <1>i, <1>5, <1>6, <2>3 DEF RowInv, u
    <2> QED BY <1>1, <1>2, <1>3, <1>4, <1>5, <2>1, <2>2, <2>4, RowStep DEF u
  <1>8. CASE finishAlready(k)
    <2>1. UNCHANGED <<vars, links>>
      BY <1>8 DEF finishAlready
    <2>2. IdentityIInv' /\ links' = [links EXCEPT ![i] = links[i]]
      BY <1>i, <2>1, SameIdentities
    <2>3. RowInv(row, links[i], clock)
      BY <1>2, <1>i, <1>5, <1>6 DEF RowInv, u
    <2> QED BY <1>1, <1>2, <1>3, <1>4, <1>5, <2>2, <2>3, RowStep DEF u
  <1> QED BY <1>7, <1>8

\* A step that leaves the invitations alone.
LEMMA LoginSteps ==
    ASSUME InviteIInv, IdentityIInv', UNCHANGED inviteVars
    PROVE  InviteIInv'
  BY DEF InviteIInv, inviteVars, RowInv, InviteReqInv, QuotaInv, Near

\* Deactivation and change of address burn the invitations of the user.
LEMMA BurnSteps ==
    ASSUME InviteIInv, NEW u \in User, Deactivate(u) \/ \E e \in Email : ChangeEmail(u, e)
    PROVE  InviteIInv'
  <1>1. IdentityIInv'
    BY DeactivateStep, PanelSteps DEF Deactivate, ChangeEmail, InviteIInv
  <1>2. invites' = Burned(u) /\ UNCHANGED <<clock, ireq, links>>
    BY DEF Deactivate, ChangeEmail, BurnLinkInvitesForUser
  <1>3. /\ invites' \in [Invite -> InviteRow] /\ Kept(invites, invites')
        /\ \A i \in Invite : RowInv(invites'[i], links'[i], clock')
    BY <1>2, BurnedTable
  <1>4. /\ clock' \in Nat /\ clock <= clock' /\ links' \in [Invite -> Seq(User \X Subject)]
        /\ ireq' \in [InviteRequest -> InviteReq]
    BY <1>2 DEF InviteIInv
  <1> QED BY <1>1, <1>2, <1>3, <1>4, KeptStep

\* Cleanup deletes what expired longer ago than Retention.
LEMMA CleanStep == ASSUME InviteIInv, cleanLinkInvites PROVE InviteIInv'
  <1>1. /\ UNCHANGED <<vars, clock, ireq, links>>
        /\ invites' = [i \in Invite |->
                         IF invites[i].st = "present" /\ invites[i].exp < clock - Retention
                         THEN [invites[i] EXCEPT !.st = "deleted"] ELSE invites[i]]
    BY DEF cleanLinkInvites
  <1>2. ASSUME NEW i \in Invite
        PROVE  /\ RowInv(invites'[i], links'[i], clock')
               /\ (invites'[i].st = "none" <=> invites[i].st = "none")
               /\ invites'[i].user = invites[i].user /\ invites'[i].created = invites[i].created
               /\ invites[i].mailed => invites'[i].mailed
    <2> DEFINE row == [invites[i] EXCEPT !.st = "deleted"]
    <2>i. RowInv(invites[i], links[i], clock)
      BY DEF InviteIInv
    <2>1. CASE invites[i].st = "present" /\ invites[i].exp < clock - Retention
      <3>1. invites'[i] = row
        BY <1>1, <2>1
      <3>2. /\ row \in InviteRow /\ row.st = "deleted" /\ row.user = invites[i].user
            /\ row.created = invites[i].created /\ row.exp = invites[i].exp
            /\ row.used = invites[i].used /\ row.withdrawn = invites[i].withdrawn
            /\ row.mailed = invites[i].mailed
        BY <2>i DEF RowInv, InviteRow
      <3> HIDE DEF row
      <3>3. RowInv(row, links[i], clock)
        BY <2>1, <2>i, <3>2 DEF RowInv
      <3> QED BY <1>1, <2>1, <3>1, <3>2, <3>3
    <2>2. CASE ~(invites[i].st = "present" /\ invites[i].exp < clock - Retention)
      <3>1. invites'[i] = invites[i]
        BY <1>1, <2>2
      <3> QED BY <1>1, <2>i, <3>1
    <2> QED BY <2>1, <2>2
  <1>3. Kept(invites, invites')
    BY <1>2 DEF Kept
  <1>4. invites' \in [Invite -> InviteRow]
    <2>1. \A i \in Invite : invites'[i] \in InviteRow
      BY <1>2 DEF RowInv
    <2>2. invites' = [i \in Invite |-> invites'[i]]
      BY <1>1
    <2> QED BY <2>1, <2>2
  <1>5. /\ clock' \in Nat /\ clock <= clock' /\ links' \in [Invite -> Seq(User \X Subject)]
        /\ ireq' \in [InviteRequest -> InviteReq] /\ IdentityIInv'
    BY <1>1, SameIdentities DEF InviteIInv
  <1> QED BY <1>1, <1>2, <1>3, <1>4, <1>5, KeptStep

\* Time passes.
LEMMA TickStep == ASSUME InviteIInv, Tick PROVE InviteIInv'
  <1>1. clock' = clock + 1 /\ UNCHANGED <<vars, invites, ireq, links>>
    BY DEF Tick
  <1>2. clock \in Nat /\ clock' \in Nat /\ clock <= clock'
    BY <1>1 DEF InviteIInv
  <1>3. ASSUME NEW i \in Invite PROVE RowInv(invites'[i], links'[i], clock')
    <2>1. RowInv(invites[i], links[i], clock)
      BY DEF InviteIInv
    <2>2. invites[i].created \in Nat /\ invites[i].exp \in Nat
      BY <2>1 DEF RowInv, InviteRow
    <2> QED BY <1>1, <1>2, <2>1, <2>2, InviteTimesAssumption DEF RowInv
  <1>4. Kept(invites, invites')
    BY <1>1 DEF Kept
  <1>5. /\ invites' \in [Invite -> InviteRow] /\ links' \in [Invite -> Seq(User \X Subject)]
        /\ ireq' \in [InviteRequest -> InviteReq] /\ IdentityIInv'
    BY <1>1, SameIdentities DEF InviteIInv
  <1> QED BY <1>1, <1>2, <1>3, <1>4, <1>5, KeptStep

\* Every step of LinkInvites keeps the invariant.
LEMMA InviteStepKeeps == ASSUME InviteIInv, [InviteNext]_allVars PROVE InviteIInv'
  <1>1. ASSUME NEW s \in Subject, LoginLinks(s) PROVE InviteIInv'
    <2>1. PICK u \in User :
            /\ InsertIdentity(s, u)
            /\ (Exists(u) /\ UNCHANGED users) \/ \E e \in Email : CreateUser(u, e)
      BY <1>1 DEF LoginLinks
    <2>2. users' \in [User -> UserRow]
      BY <2>1, CreateShape DEF InviteIInv, IdentityIInv
    <2>3. UNCHANGED <<sessions, req>> /\ UNCHANGED inviteVars
      BY <1>1 DEF LoginLinks
    <2>4. IdentityIInv'
      BY <2>1, <2>2, <2>3, LinkedShape DEF InviteIInv
    <2> QED BY <2>3, <2>4, LoginSteps
  <1>2. ASSUME NEW k \in InviteRequest, InviteStep(k) PROVE InviteIInv'
    BY <1>2, SlotSteps, InsertInviteStep, MailSteps, FinishSteps DEF InviteStep
  <1>3. ASSUME NEW u \in User, NEW e \in Email, HandleCreate(u, e), UNCHANGED inviteVars
        PROVE  InviteIInv'
    BY <1>3, PanelSteps, LoginSteps DEF InviteIInv
  <1>4. ASSUME NEW s \in Subject, HandleUnlink(s), UNCHANGED inviteVars PROVE InviteIInv'
    BY <1>4, UnlinkStep, LoginSteps DEF InviteIInv
  <1>5. ASSUME NEW i \in Invite, HandleInviteRevoke(i) PROVE InviteIInv'
    <2>1. RevokeLinkInvite(i) /\ UNCHANGED <<vars, clock, ireq, links>>
      BY <1>5 DEF HandleInviteRevoke
    <2>2. ireq' \in [InviteRequest -> InviteReq]
      BY <2>1 DEF InviteIInv
    <2> QED BY <2>1, <2>2, RevokeShape
  <1>6. CASE PanelStep
    BY <1>3, <1>4, <1>5, <1>6, BurnSteps DEF PanelStep
  <1>7. CASE UNCHANGED allVars
    <2>1. UNCHANGED vars /\ UNCHANGED inviteVars
      BY <1>7 DEF allVars, vars, inviteVars
    <2>2. IdentityIInv'
      BY <2>1, SameIdentities DEF InviteIInv
    <2> QED BY <2>1, <2>2, LoginSteps
  <1> QED BY <1>1, <1>2, <1>6, <1>7, CleanStep, TickStep DEF InviteNext

-----------------------------------------------------------------------------
(* The theorems about LinkInvites *)

\* An invitation is unused, or has linked one account, or was withdrawn; and
\* what a request knows of it stays true while others link, burn, revoke and
\* clean up (link_invite.go, users_invite.go, cleanup.go).  Over the same
\* tables the invariant of Identities holds as before.
THEOREM InviteInvariant == InviteSpec => []InviteIInv
  <1>1. InviteInit => InviteIInv
    BY InviteInitially
  <1>2. InviteIInv /\ [InviteNext]_allVars => InviteIInv'
    BY InviteStepKeeps
  <1> QED BY <1>1, <1>2, PTL DEF InviteSpec

\* finishLink, the burns and the revocation: an invitation links one account,
\* and none once it was withdrawn; and the state keeps its type.
THEOREM InvitationsLinkOnce == InviteSpec => []InviteLinksOnce
  <1>1. InviteIInv => InviteLinksOnce
    BY DEF InviteIInv, RowInv, InviteLinksOnce, InviteTypeOK
  <1> QED BY <1>1, InviteInvariant, PTL

\* InsertLinkInviteLimited and cleanLinkInvites: no user gets more than Quota
\* invitations in a window, whatever is burned, revoked or cleaned up.
THEOREM InviteQuotaIsKept == InviteSpec => []InviteQuotaHolds
  <1>1. InviteIInv => InviteQuotaHolds
    BY DEF InviteIInv, QuotaInv, Near, InviteQuotaHolds
  <1> QED BY <1>1, InviteInvariant, PTL

\* finishLink: an invitation links only to its user, while that user is active
\* and has the address it was mailed to, and before it has expired.
THEOREM InvitationsLinkTheInvitee == InviteSpec => InviteLinksInvitee
  <1> DEFINE ToInvitee == \A i \in Invite, u \in User, s \in Subject :
        links'[i] = Append(links[i], <<u, s>>) =>
            /\ u = invites[i].user
            /\ users[u].active /\ users[u].email = invites[i].email
            /\ invites[i].mailed /\ clock < invites[i].exp + Lag
  <1>1. ASSUME InviteIInv, [InviteNext]_allVars PROVE [ToInvitee]_allVars
    <2> USE <1>1
    <2>a. ASSUME NEW i \in Invite, NEW x, NEW y, NEW l, l = links[i],
                 Append(l, x) = Append(links[i], y)
          PROVE  x = y
      <3>1. links[i] \in Seq(User \X Subject)
        BY DEF InviteIInv
      <3>2. Append(links[i], x)[Len(links[i]) + 1] = x /\ Append(links[i], y)[Len(links[i]) + 1] = y
        BY <3>1
      <3> QED BY <2>a, <3>2
    <2>b. ASSUME NEW i \in Invite, NEW y PROVE links[i] # Append(links[i], y)
      <3>1. links[i] \in Seq(User \X Subject)
        BY DEF InviteIInv
      <3> QED BY <3>1
    <2>1. CASE UNCHANGED links
      BY <2>1, <2>b
    <2>2. ASSUME NEW k \in InviteRequest, finishLink(k) PROVE ToInvitee
      <3> DEFINE i == ireq[k].invite
                 v == invites[i].user
      <3>1. i \in Invite /\ invites[i].mailed
        BY <2>2 DEF finishLink, InviteAt, InviteIInv, InviteReqInv
      <3>2. users[v].active /\ users[v].email = invites[i].email
        BY <2>2 DEF finishLink, StillInvitee
      <3>t. clock < invites[i].exp + Lag
        <4>1. clock - ireq[k].now <= Lag /\ invites[i].exp > ireq[k].now
          BY <2>2 DEF finishLink, InLockTime, ValidInvite
        <4>2. clock \in Nat /\ Lag \in Nat /\ ireq[k].now \in Nat /\ invites[i].exp \in Nat
          BY <3>1, InviteTimesAssumption DEF InviteIInv, RowInv, InviteRow, InviteReqInv, InviteReq
        <4> HIDE DEF i
        <4> QED BY <4>1, <4>2
      <3>3. links' = [links EXCEPT ![i] = Append(links[i], <<v, ireq[k].subj>>)]
        BY <2>2 DEF finishLink
      <3> HIDE DEF i, v
      <3>4. /\ links'[i] = Append(links[i], <<v, ireq[k].subj>>)
            /\ \A j \in Invite : j # i => links'[j] = links[j]
        BY <3>1, <3>3 DEF InviteIInv
      <3>5. ASSUME NEW j \in Invite, NEW u \in User, NEW s \in Subject,
                   links'[j] = Append(links[j], <<u, s>>)
            PROVE  j = i /\ u = v
        <4>1. j = i
          BY <2>b, <3>4, <3>5
        <4>2. <<v, ireq[k].subj>> = <<u, s>>
          BY <2>a, <3>1, <3>4, <3>5, <4>1
        <4> QED BY <4>1, <4>2
      <3> QED BY <3>1, <3>2, <3>t, <3>5 DEF v
    <2> QED
      BY <1>1, <2>1, <2>2
      DEF InviteNext, InviteStep, PanelStep, LoginLinks, BeginInvite, InsertInvite,
          InviteQuotaExceeded, MailInvite, AuditFails, StartLink, ReturnFromProvider,
          finishAlready, rejectLink, InviteFails, HandleInviteRevoke, Deactivate, ChangeEmail,
          cleanLinkInvites, Tick, inviteVars, allVars
  <1> QED BY <1>1, InviteInvariant, PTL DEF InviteSpec, InviteLinksInvitee
=============================================================================
