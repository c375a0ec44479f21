-------------------------- MODULE MagicLinksProofs --------------------------
(***************************************************************************)
(* The safety properties of MagicLinks for any number of links, addresses, *)
(* users and requests, any quota and any times with Window <= LinkTTL.     *)
(*                                                                         *)
(* The inductive invariant is built in layers.  MagicShape is the type     *)
(* invariant with what a request's fields are where it uses them;          *)
(* UniqueAddress is the unique index; OnceInv says that a consumed link    *)
(* belongs to one request, which has not logged anybody in yet; TimesInv   *)
(* dates rows and requests.                                                *)
(***************************************************************************)
EXTENDS MagicLinks, FiniteSetTheorems, SequenceTheorems, TLAPS

\* The requests that have consumed their link.
Consumed(r) == req[r].pc \in {"lookup", "register", "complete"}

MagicShape ==
    /\ MagicTypeOK
    /\ \A r \in Request :
         /\ req[r].pc = "insert" => req[r].email \in Email
         /\ req[r].pc = "consume" \/ Consumed(r) => req[r].link \in Link
         /\ req[r].pc = "complete" => req[r].user \in User

UniqueAddress ==
    \A u, v \in User :
        users[u].st = "present" /\ users[v].st = "present" /\ users[u].email = users[v].email
        => u = v

OnceInv ==
    /\ \A l \in Link : ~links[l].used => logins[l] = << >>
    /\ \A l \in Link : Len(logins[l]) <= 1
    /\ \A l \in Link : links[l].st = "none" => ~links[l].used
    /\ \A r \in Request : Consumed(r) =>
         /\ links[req[r].link].used
         /\ logins[req[r].link] = << >>
         /\ \A q \in Request : Consumed(q) /\ req[q].link = req[r].link => q = r

TimesInv ==
    /\ \A l \in Link : links[l].st # "none" =>
         /\ links[l].at <= clock
         /\ links[l].created <= links[l].at /\ links[l].at <= links[l].created + Lag
         /\ links[l].exp = links[l].created + LinkTTL
    /\ \A l \in Link : links[l].st = "deleted" => links[l].exp < clock
    /\ \A r \in Request : req[r].pc \in {"insert", "consume"} =>
         req[r].now <= clock /\ clock <= req[r].now + Lag

MagicIInv ==
    /\ MagicShape
    /\ UniqueAddress /\ ~revived
    /\ UsableLinkKeepsOwner
    /\ OnceInv
    /\ TimesInv
    /\ QuotaHolds

-----------------------------------------------------------------------------
(* Rows *)

\* What a redemption or an address change, which set used, leaves of a row.
LEMMA UsedRow ==
    ASSUME NEW row \in LinkRow
    PROVE  LET new == [row EXCEPT !.used = TRUE]
           IN  /\ new \in LinkRow /\ new.used
               /\ new.st = row.st /\ new.email = row.email /\ new.purpose = row.purpose
               /\ new.created = row.created /\ new.exp = row.exp /\ new.at = row.at
  BY DEF LinkRow

\* What cleanup, which deletes the row, leaves of the row's history.
LEMMA DeletedRow ==
    ASSUME NEW row \in LinkRow
    PROVE  LET new == [row EXCEPT !.st = "deleted"]
           IN  /\ new \in LinkRow /\ new.st = "deleted"
               /\ new.email = row.email /\ new.purpose = row.purpose
               /\ new.created = row.created /\ new.exp = row.exp /\ new.at = row.at
  BY DEF LinkRow

-----------------------------------------------------------------------------
(* Shape *)

\* Before the first request the tables are empty and typed.
LEMMA ShapeInit == Init => MagicShape
  <1>1. NoLink \in LinkRow
    BY DEF NoLink, LinkRow, Purpose
  <1>2. NoUser \in UserRow
    BY DEF NoUser, UserRow
  <1>3. NoReq \in Req
    BY DEF NoReq, Req, PC, Purpose
  <1>4. << >> \in Seq(User)
    OBVIOUS
  <1>5. \A r \in Request : Init => req[r].pc = "idle"
    BY DEF Init, NoReq
  <1>6. Init => MagicTypeOK
    <2>1. Init => logins \in [Link -> Seq(User)]
      BY <1>4 DEF Init
    <2>2. Init => revived \in BOOLEAN
      BY DEF Init
    <2> QED
      BY <1>1, <1>2, <1>3, <2>1, <2>2 DEF Init, MagicTypeOK
  <1> QED
    BY <1>5, <1>6 DEF MagicShape, Consumed

\* Every step keeps the types and the shape of requests.
LEMMA ShapeNext ==
    ASSUME MagicShape, [Next]_vars
    PROVE  MagicShape'
  <1> USE DEF MagicShape, MagicTypeOK, Consumed
  <1>r. NoReq \in Req
    BY DEF NoReq, Req, PC, Purpose
  <1>f. ASSUME NEW r \in Request, Finish(r), UNCHANGED <<links, users, clock, logins, revived>>
        PROVE  MagicShape'
    BY <1>r, <1>f DEF Finish, NoReq
  <1>1. ASSUME NEW r \in Request, NEW e \in Email, NEW p \in Purpose, BeginRequest(r, e, p)
        PROVE  MagicShape'
    <2>1. [NoReq EXCEPT !.pc = "insert", !.purpose = p, !.email = e, !.now = clock] \in Req
      BY DEF NoReq, Req, PC
    <2> QED BY <1>1, <2>1 DEF BeginRequest, NoReq
  <1>2. ASSUME NEW r \in Request, InsertMagicTokenLimited(r)
        PROVE  MagicShape'
    <2>1. PICK l \in Link, owner \in User \cup {None} :
            links' = [links EXCEPT ![l] =
                        [st |-> "present", email |-> req[r].email, purpose |-> req[r].purpose,
                         created |-> req[r].now, exp |-> req[r].now + LinkTTL, used |-> FALSE,
                         at |-> clock, owner |-> owner]]
      BY <1>2 DEF InsertMagicTokenLimited
    <2>2. [st |-> "present", email |-> req[r].email, purpose |-> req[r].purpose,
           created |-> req[r].now, exp |-> req[r].now + LinkTTL, used |-> FALSE,
           at |-> clock, owner |-> owner] \in LinkRow
      BY TimesAssumption DEF LinkRow, Req
    <2>3. links' \in [Link -> LinkRow]
      BY <2>1, <2>2
    <2> QED BY <1>2, <2>3, <1>r DEF InsertMagicTokenLimited, Finish, NoReq
  <1>3. ASSUME NEW r \in Request, QuotaExceeded(r)
        PROVE  MagicShape'
    BY <1>3, <1>f DEF QuotaExceeded
  <1>4. ASSUME NEW r \in Request, NEW l \in Link, NEW p \in Purpose, BeginRedeem(r, l, p)
        PROVE  MagicShape'
    <2>1. [NoReq EXCEPT !.pc = "consume", !.purpose = p, !.link = l, !.now = clock] \in Req
      BY DEF NoReq, Req, PC
    <2> QED BY <1>4, <2>1 DEF BeginRedeem, NoReq
  <1>5. ASSUME NEW r \in Request, ConsumeMagicToken(r)
        PROVE  MagicShape'
    <2>1. req[r].link \in Link /\ req[r].purpose \in Purpose
      BY <1>5 DEF ConsumeMagicToken, At, Req
    <2>2. links' \in [Link -> LinkRow]
      <3>1. links[req[r].link] \in LinkRow
        BY <2>1
      <3>2. [links[req[r].link] EXCEPT !.used = TRUE] \in LinkRow
        BY <3>1 DEF LinkRow
      <3> QED BY <1>5, <2>1, <3>2 DEF ConsumeMagicToken
    <2>3. [NoReq EXCEPT !.pc = "lookup", !.link = req[r].link,
                        !.purpose = req[r].purpose] \in Req
      BY <2>1 DEF NoReq, Req, PC
    <2>4. CASE Finish(r)
      BY <1>5, <2>2, <2>4, <1>r DEF ConsumeMagicToken, Finish, NoReq
    <2>5. CASE req' = [req EXCEPT ![r] = [NoReq EXCEPT !.pc = "lookup", !.link = req[r].link,
                                                       !.purpose = req[r].purpose]]
      BY <1>5, <2>1, <2>2, <2>3, <2>5 DEF ConsumeMagicToken, NoReq
    <2> QED BY <1>5, <2>4, <2>5 DEF ConsumeMagicToken
  <1>6. ASSUME NEW r \in Request, LookupUser(r)
        PROVE  MagicShape'
    <2>1. req[r].link \in Link
      BY <1>6 DEF LookupUser, At
    <2>2. \A u \in User : [req[r] EXCEPT !.pc = "complete", !.user = u] \in Req
      BY DEF Req, PC
    <2>3. [req[r] EXCEPT !.pc = "register"] \in Req
      BY DEF Req, PC
    <2>4. CASE \E u \in GetActiveUserByEmail(LinkEmail(r)) : ResolvedTo(r, u)
      <3>1. PICK u \in User : ResolvedTo(r, u)
        BY <2>4 DEF GetActiveUserByEmail, Holders
      <3>2. /\ req' \in [Request -> Req]
            /\ req'[r].link = req[r].link /\ req'[r].user = u /\ req'[r].pc = "complete"
        BY <3>1, <2>2 DEF ResolvedTo, Req
      <3>3. revived' \in BOOLEAN
        BY <3>1 DEF ResolvedTo
      <3> QED BY <1>6, <2>1, <3>1, <3>2, <3>3 DEF LookupUser, ResolvedTo
    <2>5. CASE req' = [req EXCEPT ![r].pc = "register"] /\ UNCHANGED revived
      <3>1. /\ req' \in [Request -> Req]
            /\ req'[r].link = req[r].link /\ req'[r].pc = "register"
        BY <2>5, <2>3 DEF Req
      <3> QED BY <1>6, <2>1, <2>5, <3>1 DEF LookupUser
    <2>6. CASE Finish(r) /\ UNCHANGED revived
      BY <1>6, <2>6, <1>f DEF LookupUser
    <2> QED BY <1>6, <2>4, <2>5, <2>6 DEF LookupUser
  <1>7. ASSUME NEW r \in Request, RegisterUser(r)
        PROVE  MagicShape'
    <2>1. req[r].link \in Link
      BY <1>7 DEF RegisterUser, At
    <2>2. CASE Finish(r) /\ UNCHANGED <<users, revived>>
      BY <1>7, <2>2, <1>f DEF RegisterUser
    <2>3. ASSUME NEW u \in User, ResolvedTo(r, u),
                 users' = [users EXCEPT ![u] = [st |-> "present", email |-> LinkEmail(r),
                                                active |-> TRUE]]
          PROVE  MagicShape'
      <3>1. [st |-> "present", email |-> LinkEmail(r), active |-> TRUE] \in UserRow
        BY <2>1 DEF UserRow, LinkEmail, LinkRow
      <3>2. [req[r] EXCEPT !.pc = "complete", !.user = u] \in Req
        BY DEF Req, PC
      <3>3. /\ req' \in [Request -> Req]
            /\ req'[r].link = req[r].link /\ req'[r].user = u /\ req'[r].pc = "complete"
        BY <2>3, <3>2 DEF ResolvedTo, Req
      <3>4. revived' \in BOOLEAN /\ users' \in [User -> UserRow]
        BY <2>3, <3>1 DEF ResolvedTo
      <3> QED BY <1>7, <2>1, <2>3, <3>3, <3>4 DEF RegisterUser, ResolvedTo
    <2> QED BY <1>7, <2>2, <2>3 DEF RegisterUser
  <1>8. ASSUME NEW r \in Request, CompleteLogin(r)
        PROVE  MagicShape'
    <2>1. req[r].link \in Link /\ req[r].user \in User
      BY <1>8 DEF CompleteLogin, At
    <2>2. Append(logins[req[r].link], req[r].user) \in Seq(User)
      BY <2>1, AppendProperties
    <2>3. logins' \in [Link -> Seq(User)]
      BY <1>8, <2>1, <2>2 DEF CompleteLogin
    <2> QED BY <1>8, <2>3, <1>r DEF CompleteLogin, Finish, NoReq
  <1>9. ASSUME NEW r \in Request, StatementFails(r)
        PROVE  MagicShape'
    BY <1>9, <1>f DEF StatementFails
  <1>10. ASSUME NEW u \in User, NEW e \in Email, HandleCreate(u, e)
         PROVE  MagicShape'
    BY <1>10 DEF HandleCreate, UserRow
  <1>11. ASSUME NEW u \in User, HandleDeactivate(u)
         PROVE  MagicShape'
    BY <1>11 DEF HandleDeactivate, UserRow
  <1>12. ASSUME NEW u \in User, NEW e \in Email, HandleEmailChange(u, e)
         PROVE  MagicShape'
    <2>1. users' \in [User -> UserRow]
      BY <1>12 DEF HandleEmailChange, UserRow
    <2>2. \A l \in Link : [links[l] EXCEPT !.used = TRUE] \in LinkRow
      BY UsedRow
    <2>3. links' \in [Link -> LinkRow]
      BY <1>12, <2>2 DEF HandleEmailChange, BurnMagicTokensForEmails
    <2> QED BY <1>12, <2>1, <2>3 DEF HandleEmailChange
  <1>13. CASE cleanMagicTokens
    <2>1. \A l \in Link : [links[l] EXCEPT !.st = "deleted"] \in LinkRow
      BY DeletedRow
    <2>2. links' \in [Link -> LinkRow]
      BY <1>13, <2>1 DEF cleanMagicTokens
    <2> QED BY <1>13, <2>2 DEF cleanMagicTokens
  <1>14. CASE Tick
    BY <1>14 DEF Tick
  <1>15. CASE UNCHANGED vars
    BY <1>15 DEF vars
  <1> QED
    BY <1>1, <1>2, <1>3, <1>4, <1>5, <1>6, <1>7, <1>8, <1>9, <1>10, <1>11, <1>12,
       <1>13, <1>14, <1>15 DEF Next, RequestStep, AdminStep

-----------------------------------------------------------------------------
(* Addresses *)

\* The unique index on the address: every statement that gives a user an
\* address is refused when anybody has it.
LEMMA AddressNext ==
    ASSUME MagicShape, UniqueAddress, ~revived, [Next]_vars
    PROVE  UniqueAddress' /\ ~revived'
  <1> USE DEF MagicShape, MagicTypeOK, UniqueAddress, Holders
  <1>0. CASE UNCHANGED <<users, revived>>
    BY <1>0
  <1>1. ASSUME NEW r \in Request, LookupUser(r)
        PROVE  UniqueAddress' /\ ~revived'
    <2>1. UniqueAddress'
      BY <1>1 DEF LookupUser
    <2>2. ASSUME NEW u \in GetActiveUserByEmail(LinkEmail(r)), ResolvedTo(r, u)
          PROVE  ~revived'
      <3>1. \A v \in Holders(LinkEmail(r)) : v = u
        BY <2>2 DEF GetActiveUserByEmail
      <3>2. users[u].active
        BY <2>2 DEF GetActiveUserByEmail
      <3> QED BY <2>2, <3>1, <3>2 DEF ResolvedTo
    <2> QED BY <1>1, <2>1, <2>2 DEF LookupUser
  <1>2. ASSUME NEW r \in Request, RegisterUser(r)
        PROVE  UniqueAddress' /\ ~revived'
    <2>1. CASE UNCHANGED <<users, revived>>
      BY <2>1, <1>0
    <2>2. ASSUME NEW u \in User, Holders(LinkEmail(r)) = {}, ResolvedTo(r, u),
                 users' = [users EXCEPT ![u] = [st |-> "present", email |-> LinkEmail(r),
                                                active |-> TRUE]]
          PROVE  UniqueAddress' /\ ~revived'
      <3>1. UniqueAddress'
        BY <2>2
      <3>2. ~revived'
        BY <2>2 DEF ResolvedTo
      <3> QED BY <3>1, <3>2
    <2> QED BY <1>2, <2>1, <2>2 DEF RegisterUser
  <1>3. ASSUME NEW u \in User, NEW e \in Email, HandleCreate(u, e)
        PROVE  UniqueAddress' /\ ~revived'
    BY <1>3 DEF HandleCreate
  <1>4. ASSUME NEW u \in User, HandleDeactivate(u)
        PROVE  UniqueAddress' /\ ~revived'
    BY <1>4 DEF HandleDeactivate, UserRow
  <1>5. ASSUME NEW u \in User, NEW e \in Email, HandleEmailChange(u, e)
        PROVE  UniqueAddress' /\ ~revived'
    BY <1>5 DEF HandleEmailChange, UserRow
  <1> QED
    BY <1>0, <1>1, <1>2, <1>3, <1>4, <1>5
    DEF Next, RequestStep, AdminStep, BeginRequest, InsertMagicTokenLimited, QuotaExceeded,
        BeginRedeem, ConsumeMagicToken, CompleteLogin, StatementFails, cleanMagicTokens, Tick, vars

\* A link is burned by the very transaction that takes its address away from
\* its owner; no other step takes an address away.
LEMMA OwnerNext ==
    ASSUME MagicShape, UsableLinkKeepsOwner, [Next]_vars
    PROVE  UsableLinkKeepsOwner'
  <1> USE DEF MagicShape, MagicTypeOK, UsableLinkKeepsOwner, Holders
  <1> DEFINE Usable(l) == /\ links[l].st = "present" /\ ~links[l].used
                          /\ links[l].exp > clock /\ links[l].owner # None
             SameRow(l) == /\ links'[l].email = links[l].email
                           /\ links'[l].owner = links[l].owner
  <1>0. ASSUME \A l \in Link : Usable(l)' => Usable(l) /\ SameRow(l),
               \A u \in User : users[u].st = "present" =>
                   users'[u].st = "present" /\ users'[u].email = users[u].email
        PROVE  UsableLinkKeepsOwner'
    BY <1>0
  <1>1. CASE UNCHANGED <<links, users, clock>>
    BY <1>1, <1>0
  <1>2. ASSUME NEW r \in Request, InsertMagicTokenLimited(r)
        PROVE  UsableLinkKeepsOwner'
    <2>1. PICK k \in Link, owner \in User \cup {None} :
            /\ IF Holders(req[r].email) = {} THEN owner = None ELSE owner \in Holders(req[r].email)
            /\ links' = [links EXCEPT ![k] =
                        [st |-> "present", email |-> req[r].email, purpose |-> req[r].purpose,
                         created |-> req[r].now, exp |-> req[r].now + LinkTTL, used |-> FALSE,
                         at |-> clock, owner |-> owner]]
      BY <1>2 DEF InsertMagicTokenLimited
    <2>2. UNCHANGED <<users, clock>>
      BY <1>2 DEF InsertMagicTokenLimited
    <2>3. links'[k].email = req[r].email /\ links'[k].owner = owner
      BY <2>1
    <2>4. \A l \in Link \ {k} : links'[l] = links[l]
      BY <2>1
    <2>5. owner # None => owner \in Holders(req[r].email)
      BY <2>1
    <2> QED BY <2>2, <2>3, <2>4, <2>5
  <1>3. ASSUME NEW r \in Request, ConsumeMagicToken(r)
        PROVE  UsableLinkKeepsOwner'
    <2>1. UNCHANGED <<users, clock>>
      BY <1>3 DEF ConsumeMagicToken
    <2>2. req[r].link \in Link
      BY <1>3 DEF ConsumeMagicToken, At
    <2>3. \A l \in Link : Usable(l)' => links'[l] = links[l]
      BY <1>3, <2>2 DEF ConsumeMagicToken, LinkRow
    <2> QED BY <2>1, <2>3, <1>0
  <1>4. ASSUME NEW r \in Request, RegisterUser(r)
        PROVE  UsableLinkKeepsOwner'
    BY <1>4, <1>0 DEF RegisterUser
  <1>5. ASSUME NEW u \in User, NEW e \in Email, HandleCreate(u, e)
        PROVE  UsableLinkKeepsOwner'
    BY <1>5, <1>0 DEF HandleCreate
  <1>6. ASSUME NEW u \in User, HandleDeactivate(u)
        PROVE  UsableLinkKeepsOwner'
    BY <1>6, <1>0 DEF HandleDeactivate, UserRow
  <1>7. ASSUME NEW u \in User, NEW e \in Email, HandleEmailChange(u, e)
        PROVE  UsableLinkKeepsOwner'
    <2>1. /\ UNCHANGED clock
          /\ \A v \in User : /\ users'[v].st = users[v].st
                             /\ v # u => users'[v].email = users[v].email
      BY <1>7 DEF HandleEmailChange, UserRow
    <2>2. ASSUME NEW l \in Link, Usable(l)'
          PROVE  links'[l] = links[l] /\ Usable(l) /\ links[l].email # users[u].email
      <3>1. links[l] \in LinkRow
        OBVIOUS
      <3>2. PICK now \in ReadBefore : links' = BurnMagicTokensForEmails(users[u].email, e, now)
        BY <1>7 DEF HandleEmailChange
      <3>now. now \in Int /\ now <= clock /\ links[l].exp \in Int
        BY <3>1 DEF ReadBefore, LinkRow
      <3>3. CASE links[l].st = "present" /\ links[l].email \in {users[u].email, e} /\ links[l].exp > now
        <4>1. links'[l] = [links[l] EXCEPT !.used = TRUE]
          BY <3>2, <3>3 DEF BurnMagicTokensForEmails
        <4>2. links'[l].used
          BY <4>1, <3>1 DEF LinkRow
        <4> QED BY <4>2, <2>2
      <3>4. CASE ~(links[l].st = "present" /\ links[l].email \in {users[u].email, e} /\ links[l].exp > now)
        <4>1. links'[l] = links[l]
          BY <3>2, <3>4 DEF BurnMagicTokensForEmails
        <4>2. Usable(l)
          BY <4>1, <2>1, <2>2
        <4> QED BY <4>1, <4>2, <3>4, <3>now
      <3> QED BY <3>3, <3>4
    <2>3. ASSUME NEW l \in Link, Usable(l)'
          PROVE  /\ links'[l].owner \in User /\ users'[links'[l].owner].st = "present"
                 /\ users'[links'[l].owner].email = links'[l].email
      <3>1. links'[l] = links[l] /\ Usable(l) /\ links[l].email # users[u].email
        BY <2>2, <2>3
      <3>2. links[l].owner \in Holders(links[l].email)
        BY <3>1
      <3>3. links[l].owner # u
        BY <3>1, <3>2
      <3>4. /\ links[l].owner \in User /\ users[links[l].owner].st = "present"
            /\ users[links[l].owner].email = links[l].email
        BY <3>2
      <3>5. /\ users'[links[l].owner].st = "present"
            /\ users'[links[l].owner].email = links[l].email
        <4> HIDE DEF MagicShape, MagicTypeOK, UsableLinkKeepsOwner, Holders, Usable
        <4> QED BY <2>1, <3>3, <3>4
      <3> QED BY <3>1, <3>4, <3>5
    <2> QED BY <2>3
  <1>8. CASE cleanMagicTokens
    <2>1. \A l \in Link : Usable(l)' => links'[l] = links[l]
      BY <1>8 DEF cleanMagicTokens, LinkRow
    <2> QED BY <1>8, <2>1, <1>0 DEF cleanMagicTokens
  <1>9. CASE Tick
    <2>1. /\ UNCHANGED <<links, users>>
          /\ \A l \in Link : links[l].exp \in Int /\ (links[l].exp > clock + 1 => links[l].exp > clock)
      BY <1>9 DEF Tick, LinkRow
    <2>2. \A l \in Link : Usable(l)' => Usable(l) /\ SameRow(l)
      BY <1>9, <2>1 DEF Tick
    <2> QED BY <2>1, <2>2, <1>0
  <1> QED
    BY <1>1, <1>2, <1>3, <1>4, <1>5, <1>6, <1>7, <1>8, <1>9
    DEF Next, RequestStep, AdminStep, BeginRequest, QuotaExceeded,
        BeginRedeem, LookupUser, CompleteLogin, StatementFails, vars

-----------------------------------------------------------------------------
(* One login per link *)

\* A step that consumes no link and logs nobody in.
LEMMA OnceKept ==
    ASSUME OnceInv, UNCHANGED logins,
           \A l \in Link : \/ links'[l] = links[l]
                           \/ /\ links[l].used => links'[l].used
                              /\ links'[l].st = "none" => ~links'[l].used,
           \A r \in Request : Consumed(r)' =>
               Consumed(r) /\ req'[r].link = req[r].link /\ req[r].link \in Link
    PROVE  OnceInv'
  <1>1. \A r \in Request : Consumed(r)' =>
           /\ links'[req'[r].link].used
           /\ logins'[req'[r].link] = << >>
           /\ \A q \in Request : Consumed(q)' /\ req'[q].link = req'[r].link => q = r
    BY DEF OnceInv
  <1> QED BY <1>1 DEF OnceInv

\* Every step keeps who holds a consumed link.
LEMMA OnceNext ==
    ASSUME MagicShape, OnceInv, [Next]_vars
    PROVE  OnceInv'
  <1> USE DEF MagicShape, MagicTypeOK
  <1>1. ASSUME NEW r \in Request, NEW q, req' = [req EXCEPT ![r] = q],
               q.pc \notin {"lookup", "register", "complete"}, UNCHANGED <<links, logins>>
        PROVE  OnceInv'
    BY <1>1, OnceKept DEF Consumed
  <1>2. ASSUME NEW r \in Request, InsertMagicTokenLimited(r)
        PROVE  OnceInv'
    <2>1. PICK k \in Link, owner \in User \cup {None} :
            /\ links[k].st = "none"
            /\ links' = [links EXCEPT ![k] =
                        [st |-> "present", email |-> req[r].email, purpose |-> req[r].purpose,
                         created |-> req[r].now, exp |-> req[r].now + LinkTTL, used |-> FALSE,
                         at |-> clock, owner |-> owner]]
      BY <1>2 DEF InsertMagicTokenLimited
    <2>2. ~links[k].used /\ links'[k].st = "present"
      BY <2>1 DEF OnceInv
    <2>3. \A l \in Link : /\ links[l].used => links'[l].used
                          /\ links'[l].st = "none" => ~links'[l].used
      BY <2>1, <2>2 DEF OnceInv
    <2>4. \A q \in Request : Consumed(q)' =>
            Consumed(q) /\ req'[q].link = req[q].link /\ req[q].link \in Link
      BY <1>2 DEF InsertMagicTokenLimited, Finish, NoReq, Consumed
    <2>5. logins' = logins
      BY <1>2 DEF InsertMagicTokenLimited
    <2> QED BY <2>3, <2>4, <2>5, OnceKept
  <1>3. ASSUME NEW r \in Request, ConsumeMagicToken(r)
        PROVE  OnceInv'
    <2> DEFINE k == req[r].link
    <2>1. k \in Link /\ UNCHANGED logins /\ links[k] \in LinkRow
      BY <1>3 DEF ConsumeMagicToken, At
    <2>2. CASE Finish(r) /\ links' = links
      BY <2>1, <2>2, OnceKept DEF Finish, NoReq, Consumed
    <2>3. CASE Valid(k, req[r].purpose, req[r].now) /\ links' = [links EXCEPT ![k].used = TRUE]
      <3>1. ~links[k].used /\ links[k].st = "present"
        BY <2>3 DEF Valid
      <3>2. /\ links'[k].used /\ links'[k].st = "present"
            /\ \A l \in Link \ {k} : links'[l] = links[l]
        BY <2>1, <2>3, <3>1 DEF LinkRow
      <3>3. /\ logins[k] = << >>
            /\ \A q \in Request : Consumed(q) => req[q].link # k
        BY <2>1, <3>1 DEF OnceInv
      <3>4. /\ req'[r].link \in {k, None}
            /\ Consumed(r)' => req'[r].link = k
            /\ \A q \in Request \ {r} : req'[q] = req[q]
        <4>1. CASE Finish(r)
          BY <4>1 DEF Finish, NoReq, Consumed
        <4>2. CASE req' = [req EXCEPT ![r] = [NoReq EXCEPT !.pc = "lookup", !.link = req[r].link,
                                                           !.purpose = req[r].purpose]]
          BY <4>2 DEF NoReq
        <4> QED BY <1>3, <4>1, <4>2 DEF ConsumeMagicToken
      <3>5. \A q \in Request \ {r} : /\ Consumed(q)' => Consumed(q) /\ req[q].link \in Link
                                     /\ req'[q].link = req[q].link
        BY <3>4 DEF Consumed
      <3>6. \A q \in Request : Consumed(q)' =>
              /\ links'[req'[q].link].used
              /\ logins'[req'[q].link] = << >>
              /\ \A s \in Request : Consumed(s)' /\ req'[s].link = req'[q].link => s = q
        BY <2>1, <3>2, <3>3, <3>4, <3>5 DEF OnceInv
      <3>7. /\ \A l \in Link : ~links'[l].used => logins'[l] = << >>
            /\ \A l \in Link : Len(logins'[l]) <= 1
            /\ \A l \in Link : links'[l].st = "none" => ~links'[l].used
        BY <2>1, <3>2 DEF OnceInv
      <3> QED BY <3>6, <3>7 DEF OnceInv
    <2> QED BY <1>3, <2>2, <2>3 DEF ConsumeMagicToken, Finish
  <1>4. ASSUME NEW r \in Request, LookupUser(r) \/ RegisterUser(r)
        PROVE  OnceInv'
    <2>1. /\ UNCHANGED <<links, logins>> /\ Consumed(r) /\ req[r].link \in Link
          /\ \A q \in Request \ {r} : req'[q] = req[q]
      BY <1>4 DEF LookupUser, RegisterUser, At, Consumed, Finish, ResolvedTo
    <2>2. Consumed(r)' => req'[r].link = req[r].link
      BY <1>4 DEF LookupUser, RegisterUser, Consumed, Finish, ResolvedTo, NoReq, Req
    <2>3. \A q \in Request : Consumed(q)' =>
            Consumed(q) /\ req'[q].link = req[q].link /\ req[q].link \in Link
      BY <2>1, <2>2 DEF Consumed
    <2> QED BY <2>1, <2>3, OnceKept
  <1>5. ASSUME NEW r \in Request, CompleteLogin(r)
        PROVE  OnceInv'
    <2> DEFINE k == req[r].link
    <2>1. /\ k \in Link /\ req[r].user \in User /\ Consumed(r) /\ UNCHANGED links
          /\ ~Consumed(r)' /\ \A q \in Request \ {r} : req'[q] = req[q]
      BY <1>5 DEF CompleteLogin, At, Finish, NoReq, Consumed
    <2>2. CASE UNCHANGED logins
      BY <2>1, <2>2, OnceKept DEF Consumed
    <2>3. CASE logins' = [logins EXCEPT ![k] = Append(@, req[r].user)]
      <3>1. links[k].used /\ logins[k] = << >>
        BY <2>1 DEF OnceInv
      <3>2. Len(logins'[k]) = 1
        <4>1. logins'[k] = Append(logins[k], req[r].user) /\ logins[k] \in Seq(User)
          BY <2>1, <2>3
        <4>2. Len(Append(logins[k], req[r].user)) = Len(logins[k]) + 1
          BY <2>1, <4>1, AppendProperties
        <4> QED BY <4>1, <4>2, <3>1
      <3>3. \A l \in Link \ {k} : logins'[l] = logins[l]
        BY <2>3
      <3>4. \A q \in Request : Consumed(q)' =>
              Consumed(q) /\ req'[q].link = req[q].link /\ req[q].link \in Link \ {k}
        BY <2>1 DEF OnceInv, Consumed
      <3>5. \A q \in Request : Consumed(q)' =>
              /\ links'[req'[q].link].used
              /\ logins'[req'[q].link] = << >>
              /\ \A s \in Request : Consumed(s)' /\ req'[s].link = req'[q].link => s = q
        BY <2>1, <3>3, <3>4 DEF OnceInv
      <3>6. /\ \A l \in Link : ~links'[l].used => logins'[l] = << >>
            /\ \A l \in Link : Len(logins'[l]) <= 1
            /\ \A l \in Link : links'[l].st = "none" => ~links'[l].used
        <4>1. \A l \in Link : ~links'[l].used => logins'[l] = << >>
          BY <2>1, <3>1, <3>3 DEF OnceInv
        <4>2. \A l \in Link : Len(logins'[l]) <= 1
          <5>1. Len(logins'[k]) <= 1
            BY <3>2
          <5>2. \A l \in Link \ {k} : Len(logins'[l]) <= 1
            BY <3>3 DEF OnceInv
          <5> QED BY <5>1, <5>2
        <4>3. \A l \in Link : links'[l].st = "none" => ~links'[l].used
          BY <2>1 DEF OnceInv
        <4> QED BY <4>1, <4>2, <4>3
      <3> QED BY <3>5, <3>6 DEF OnceInv
    <2> QED BY <1>5, <2>2, <2>3 DEF CompleteLogin
  <1>6. ASSUME req' = req, logins' = logins,
               \A l \in Link : \/ links'[l] = links[l]
                               \/ (links[l].used => links'[l].used) /\ links'[l].st # "none"
        PROVE  OnceInv'
    BY <1>6, OnceKept DEF Consumed
  <1>7. ASSUME NEW u \in User, NEW e \in Email, HandleEmailChange(u, e)
        PROVE  OnceInv'
    <2>1. \A l \in Link : \/ links'[l] = links[l]
                          \/ links[l].st = "present" /\ links'[l] = [links[l] EXCEPT !.used = TRUE]
      BY <1>7 DEF HandleEmailChange, BurnMagicTokensForEmails
    <2>2. \A l \in Link : \/ links'[l] = links[l]
                          \/ links'[l].used /\ links'[l].st # "none"
      BY <2>1 DEF LinkRow
    <2> QED BY <1>7, <2>2, <1>6 DEF HandleEmailChange
  <1>8. CASE cleanMagicTokens
    <2>1. \A l \in Link : \/ links'[l] = links[l]
                          \/ links'[l] = [links[l] EXCEPT !.st = "deleted"]
      BY <1>8 DEF cleanMagicTokens
    <2>2. \A l \in Link : \/ links'[l] = links[l]
                          \/ (links[l].used => links'[l].used) /\ links'[l].st # "none"
      BY <2>1 DEF LinkRow
    <2> QED BY <1>8, <2>2, <1>6 DEF cleanMagicTokens
  <1>9. CASE UNCHANGED <<links, req, logins>>
    BY <1>9, <1>6
  <1> QED
    BY <1>1, <1>2, <1>3, <1>4, <1>5, <1>7, <1>8, <1>9
    DEF Next, RequestStep, AdminStep, BeginRequest, QuotaExceeded, BeginRedeem, StatementFails,
        Finish, NoReq, HandleCreate, HandleDeactivate, Tick, vars

-----------------------------------------------------------------------------
(* Time *)

\* Steps that neither insert a link nor begin a request.
LEMMA TimesKept ==
    ASSUME MagicShape, TimesInv, UNCHANGED clock,
           \A l \in Link : \/ links'[l] = links[l]
                           \/ /\ links[l].st # "none"
                              /\ links'[l].at = links[l].at /\ links'[l].created = links[l].created
                              /\ links'[l].exp = links[l].exp
                              /\ \/ links'[l].st = links[l].st
                                 \/ links[l].exp < clock,
           \A r \in Request : req'[r].pc \in {"insert", "consume"} =>
               \/ req'[r] = req[r]
               \/ req'[r].now = clock
    PROVE  TimesInv'
  <1>1. \A r \in Request : req'[r].pc \in {"insert", "consume"} =>
          req'[r].now <= clock /\ clock <= req'[r].now + Lag
    BY TimesAssumption DEF TimesInv, MagicShape, MagicTypeOK
  <1> QED BY <1>1 DEF TimesInv

\* Every step keeps how rows and requests are dated.
LEMMA TimesNext ==
    ASSUME MagicShape, TimesInv, [Next]_vars
    PROVE  TimesInv'
  <1> USE DEF MagicShape, MagicTypeOK
  <1>1. ASSUME NEW r \in Request, NEW q, req' = [req EXCEPT ![r] = q],
               q.pc \in {"insert", "consume"} => q.now = clock, UNCHANGED <<links, clock>>
        PROVE  TimesInv'
    BY <1>1, TimesKept
  <1>2. ASSUME NEW r \in Request, InsertMagicTokenLimited(r)
        PROVE  TimesInv'
    <2>1. PICK k \in Link, owner \in User \cup {None} :
            links' = [links EXCEPT ![k] =
                        [st |-> "present", email |-> req[r].email, purpose |-> req[r].purpose,
                         created |-> req[r].now, exp |-> req[r].now + LinkTTL, used |-> FALSE,
                         at |-> clock, owner |-> owner]]
      BY <1>2 DEF InsertMagicTokenLimited
    <2>2. req[r].now <= clock /\ clock <= req[r].now + Lag /\ clock' = clock
      BY <1>2 DEF InsertMagicTokenLimited, At, TimesInv
    <2>3. \A l \in Link : links'[l].st # "none" =>
            /\ links'[l].at <= clock
            /\ links'[l].created <= links'[l].at /\ links'[l].at <= links'[l].created + Lag
            /\ links'[l].exp = links'[l].created + LinkTTL
      BY <2>1, <2>2 DEF TimesInv
    <2>4. \A l \in Link : links'[l].st = "deleted" => links'[l].exp < clock
      BY <2>1 DEF TimesInv
    <2>5. \A q \in Request : req'[q].pc \in {"insert", "consume"} => req'[q] = req[q]
      BY <1>2 DEF InsertMagicTokenLimited, Finish, NoReq
    <2> QED BY <2>2, <2>3, <2>4, <2>5 DEF TimesInv
  <1>3. ASSUME NEW r \in Request, ConsumeMagicToken(r)
        PROVE  TimesInv'
    <2>1. req[r].link \in Link
      BY <1>3 DEF ConsumeMagicToken, At
    <2>2. \A l \in Link : links'[l] = links[l] \/ links'[l] = [links[l] EXCEPT !.used = TRUE]
      BY <1>3, <2>1 DEF ConsumeMagicToken
    <2>3. \A l \in Link : \/ links'[l] = links[l]
                          \/ /\ links[l].st # "none"
                             /\ links'[l].at = links[l].at /\ links'[l].created = links[l].created
                             /\ links'[l].exp = links[l].exp /\ links'[l].st = links[l].st
      BY <1>3, <2>1 DEF ConsumeMagicToken, Valid, LinkRow
    <2>4. \A q \in Request : req'[q].pc \in {"insert", "consume"} => req'[q] = req[q]
      <3>1. CASE Finish(r)
        BY <3>1 DEF Finish, NoReq
      <3>2. CASE req' = [req EXCEPT ![r] = [NoReq EXCEPT !.pc = "lookup", !.link = req[r].link,
                                                         !.purpose = req[r].purpose]]
        BY <3>2 DEF NoReq
      <3> QED BY <1>3, <3>1, <3>2 DEF ConsumeMagicToken
    <2> QED BY <1>3, <2>3, <2>4, TimesKept DEF ConsumeMagicToken
  <1>4. ASSUME NEW r \in Request, LookupUser(r) \/ RegisterUser(r)
        PROVE  TimesInv'
    <2>1. \A q \in Request : req'[q].pc \in {"insert", "consume"} => req'[q] = req[q]
      BY <1>4 DEF LookupUser, RegisterUser, Finish, ResolvedTo, NoReq, Req
    <2> QED BY <1>4, <2>1, TimesKept DEF LookupUser, RegisterUser
  <1>5. ASSUME NEW u \in User, NEW e \in Email, HandleEmailChange(u, e)
        PROVE  TimesInv'
    <2>1. \A l \in Link : \/ links'[l] = links[l]
                          \/ /\ links[l].st = "present"
                             /\ links'[l] = [links[l] EXCEPT !.used = TRUE]
      BY <1>5 DEF HandleEmailChange, BurnMagicTokensForEmails
    <2>2. \A l \in Link : \/ links'[l] = links[l]
                          \/ /\ links[l].st # "none"
                             /\ links'[l].at = links[l].at /\ links'[l].created = links[l].created
                             /\ links'[l].exp = links[l].exp /\ links'[l].st = links[l].st
      BY <2>1, UsedRow
    <2> QED BY <1>5, <2>2, TimesKept DEF HandleEmailChange
  <1>6. CASE cleanMagicTokens
    <2>1. \A l \in Link : \/ links'[l] = links[l]
                          \/ /\ links[l].st = "present" /\ links[l].exp < clock
                             /\ links'[l] = [links[l] EXCEPT !.st = "deleted"]
      <3>1. PICK now \in ReadBefore :
              links' = [l \in Link |-> IF Deletable(links[l], now)
                                       THEN [links[l] EXCEPT !.st = "deleted"] ELSE links[l]]
        BY <1>6 DEF cleanMagicTokens
      <3>2. now \in Int /\ now <= clock
        BY DEF ReadBefore
      <3>3. \A l \in Link : Deletable(links[l], now) =>
              links[l].st = "present" /\ links[l].exp < clock
        BY <3>2, TimesAssumption DEF Deletable, LinkRow
      <3> QED BY <3>1, <3>3
    <2>2. \A l \in Link : \/ links'[l] = links[l]
                          \/ /\ links[l].st # "none"
                             /\ links'[l].at = links[l].at /\ links'[l].created = links[l].created
                             /\ links'[l].exp = links[l].exp /\ links[l].exp < clock
      BY <2>1, DeletedRow
    <2> QED BY <1>6, <2>2, TimesKept DEF cleanMagicTokens
  <1>7. CASE Tick
    <2>1. \A r \in Request : req[r].now \in Nat
      BY DEF Req
    <2>2. \A l \in Link : links[l].at \in Nat /\ links[l].exp \in Nat
      BY DEF LinkRow
    <2> QED BY <1>7, <2>1, <2>2, TimesAssumption DEF Tick, TimesInv
  <1>8. CASE UNCHANGED <<links, clock, req>>
    BY <1>8, TimesKept
  <1> QED
    BY <1>1, <1>2, <1>3, <1>4, <1>5, <1>6, <1>7, <1>8
    DEF Next, RequestStep, AdminStep, BeginRequest, QuotaExceeded, BeginRedeem, StatementFails,
        CompleteLogin, Finish, NoReq, HandleCreate, HandleDeactivate, vars

-----------------------------------------------------------------------------
(* The quota *)

\* The links QuotaHolds counts for l, in the table tab.
Near(tab, l) ==
    {k \in Link : /\ tab[k].st # "none"
                  /\ tab[k].email = tab[l].email /\ tab[k].purpose = tab[l].purpose
                  /\ tab[k].at <= tab[l].at
                  /\ tab[k].at > tab[l].at - (Window - Lag)}

\* A new link: whatever is near it was counted by the statement that
\* inserted it, because cleanup deletes no row that is still in the window.
LEMMA QuotaInsert ==
    ASSUME MagicShape, TimesInv, QuotaHolds,
           NEW r \in Request, InsertMagicTokenLimited(r)
    PROVE  QuotaHolds'
  <1> USE DEF MagicShape, MagicTypeOK
  <1> DEFINE e == req[r].email
             p == req[r].purpose
             now == req[r].now
  <1>1. PICK k \in Link, owner \in User \cup {None} :
          /\ links[k].st = "none"
          /\ links' = [links EXCEPT ![k] =
                        [st |-> "present", email |-> e, purpose |-> p, created |-> now,
                         exp |-> now + LinkTTL, used |-> FALSE, at |-> clock, owner |-> owner]]
    BY DEF InsertMagicTokenLimited
  <1>2. /\ links'[k].st = "present" /\ links'[k].email = e /\ links'[k].purpose = p
        /\ links'[k].at = clock
        /\ \A l \in Link \ {k} : links'[l] = links[l]
    BY <1>1
  <1>3. now \in Nat /\ clock \in Nat /\ now <= clock /\ clock <= now + Lag
    BY DEF InsertMagicTokenLimited, At, TimesInv, Req
  <1>4. Cardinality(Near(links', k)) <= Quota
    <2>1. ASSUME NEW l \in Near(links', k), l # k
          PROVE  l \in InWindow(e, p, now)
      <3>1. /\ l \in Link /\ links'[l] = links[l] /\ links[l].st # "none"
            /\ links[l].email = e /\ links[l].purpose = p
            /\ links[l].at > clock - (Window - Lag)
        BY <1>2, <2>1 DEF Near
      <3>2. links[l].created \in Nat /\ links[l].at \in Nat /\ links[l].exp \in Nat
            /\ links[l].st \in {"none", "present", "deleted"}
        BY <3>1 DEF LinkRow
      <3>3. /\ links[l].at <= links[l].created + Lag
            /\ links[l].exp = links[l].created + LinkTTL
            /\ links[l].st = "deleted" => links[l].exp < clock
        BY <3>1 DEF TimesInv
      <3>4. links[l].created > clock - Window
        BY <1>3, <3>1, <3>2, <3>3, TimesAssumption
      <3>5. links[l].st = "present"
        BY <1>3, <3>1, <3>2, <3>3, <3>4, TimesAssumption
      <3>6. links[l].created > now - Window
        BY <1>3, <3>2, <3>4, TimesAssumption
      <3> QED BY <3>1, <3>5, <3>6 DEF InWindow
    <2>2. Near(links', k) \in SUBSET (InWindow(e, p, now) \cup {k})
      BY <2>1
    <2>3. IsFiniteSet(InWindow(e, p, now))
      BY LinkAssumption, FS_Subset DEF InWindow
    <2>4. /\ IsFiniteSet(InWindow(e, p, now) \cup {k})
          /\ Cardinality(InWindow(e, p, now) \cup {k}) <= Cardinality(InWindow(e, p, now)) + 1
      <3>1. Cardinality(InWindow(e, p, now)) \in Nat
        BY <2>3, FS_CardinalityType
      <3>2. /\ IsFiniteSet(InWindow(e, p, now) \cup {k})
            /\ \/ Cardinality(InWindow(e, p, now) \cup {k}) = Cardinality(InWindow(e, p, now))
               \/ Cardinality(InWindow(e, p, now) \cup {k}) = Cardinality(InWindow(e, p, now)) + 1
        BY <2>3, FS_AddElement, Zenon
      <3> QED BY <3>1, <3>2
    <2>5. Cardinality(InWindow(e, p, now)) < Quota
      BY DEF InsertMagicTokenLimited
    <2>6. Cardinality(Near(links', k)) <= Cardinality(InWindow(e, p, now) \cup {k})
      BY <2>2, <2>4, FS_Subset
    <2>7. /\ Cardinality(Near(links', k)) \in Nat /\ Cardinality(InWindow(e, p, now)) \in Nat
          /\ Cardinality(InWindow(e, p, now) \cup {k}) \in Nat
      BY <2>2, <2>3, <2>4, FS_Subset, FS_CardinalityType
    <2> QED BY <2>4, <2>5, <2>6, <2>7, QuotaAssumption
  <1>5. ASSUME NEW l \in Link, l # k, links[l].st # "none"
        PROVE  Cardinality(Near(links', l)) <= Quota
    <2>1. links'[l] = links[l] /\ links[l].at \in Nat /\ links[l].at <= clock
      BY <1>2, <1>5 DEF TimesInv, LinkRow
    <2>2. CASE k \in Near(links', l)
      <3>1. /\ links[l].email = e /\ links[l].purpose = p /\ links[l].at = clock
        BY <1>2, <1>3, <2>1, <2>2 DEF Near
      <3>2. Near(links', l) = Near(links', k)
        BY <1>2, <2>1, <3>1 DEF Near
      <3> QED BY <1>4, <3>2
    <2>3. CASE k \notin Near(links', l)
      <3>1. Near(links', l) = Near(links, l)
        BY <1>1, <1>2, <2>1, <2>3 DEF Near
      <3> QED BY <1>5, <3>1 DEF QuotaHolds, Near
    <2> QED BY <2>2, <2>3
  <1>6. \A l \in Link : links'[l].st # "none" => Cardinality(Near(links', l)) <= Quota
    BY <1>2, <1>4, <1>5
  <1> QED BY <1>6 DEF QuotaHolds, Near

\* Every step keeps the quota.
LEMMA QuotaNext ==
    ASSUME MagicShape, TimesInv, QuotaHolds, [Next]_vars
    PROVE  QuotaHolds'
  <1> USE DEF MagicShape, MagicTypeOK
  <1>1. ASSUME \A l \in Link : /\ links'[l].st = "none" <=> links[l].st = "none"
                               /\ links'[l].email = links[l].email
                               /\ links'[l].purpose = links[l].purpose
                               /\ links'[l].at = links[l].at
        PROVE  QuotaHolds'
    <2>1. \A l \in Link : Near(links', l) = Near(links, l)
      BY <1>1 DEF Near
    <2>2. \A l \in Link : links[l].st # "none" => Cardinality(Near(links, l)) <= Quota
      BY DEF QuotaHolds, Near
    <2>3. \A l \in Link : links'[l].st # "none" => Cardinality(Near(links', l)) <= Quota
      BY <1>1, <2>1, <2>2
    <2> QED BY <2>3 DEF QuotaHolds, Near
  <1>2. CASE UNCHANGED links
    BY <1>2, <1>1
  <1>3. ASSUME NEW r \in Request, ConsumeMagicToken(r)
        PROVE  QuotaHolds'
    <2>1. req[r].link \in Link
      BY <1>3 DEF ConsumeMagicToken, At
    <2>2. \A l \in Link : links'[l] = links[l] \/ links'[l] = [links[l] EXCEPT !.used = TRUE]
      BY <1>3, <2>1 DEF ConsumeMagicToken
    <2>3. ASSUME NEW l \in Link
          PROVE  /\ links'[l].st = links[l].st /\ links'[l].email = links[l].email
                 /\ links'[l].purpose = links[l].purpose /\ links'[l].at = links[l].at
      <3>1. links[l] \in LinkRow
        OBVIOUS
      <3>2. CASE links'[l] = [links[l] EXCEPT !.used = TRUE]
        BY <3>1, <3>2, UsedRow
      <3> QED BY <2>2, <3>2
    <2> QED BY <2>3, <1>1
  <1>4. ASSUME NEW u \in User, NEW e \in Email, HandleEmailChange(u, e)
        PROVE  QuotaHolds'
    <2>1. \A l \in Link : links'[l] = links[l] \/ links'[l] = [links[l] EXCEPT !.used = TRUE]
      BY <1>4 DEF HandleEmailChange, BurnMagicTokensForEmails
    <2>3. ASSUME NEW l \in Link
          PROVE  /\ links'[l].st = links[l].st /\ links'[l].email = links[l].email
                 /\ links'[l].purpose = links[l].purpose /\ links'[l].at = links[l].at
      <3>1. links[l] \in LinkRow
        OBVIOUS
      <3>2. CASE links'[l] = [links[l] EXCEPT !.used = TRUE]
        BY <3>1, <3>2, UsedRow
      <3> QED BY <2>1, <3>2
    <2> QED BY <2>3, <1>1
  <1>5. CASE cleanMagicTokens
    <2>1. \A l \in Link : \/ links'[l] = links[l]
                          \/ links[l].st = "present" /\ links'[l] = [links[l] EXCEPT !.st = "deleted"]
      BY <1>5 DEF cleanMagicTokens, Deletable
    <2>3. \A l \in Link : /\ links'[l].st = "none" <=> links[l].st = "none"
                          /\ links'[l].email = links[l].email
                          /\ links'[l].purpose = links[l].purpose
                          /\ links'[l].at = links[l].at
      BY <2>1, DeletedRow
    <2> QED BY <2>3, <1>1
  <1> QED
    BY <1>2, <1>3, <1>4, <1>5, QuotaInsert
    DEF Next, RequestStep, AdminStep, BeginRequest, QuotaExceeded, BeginRedeem, LookupUser,
        RegisterUser, CompleteLogin, StatementFails, HandleCreate, HandleDeactivate, Tick, vars

-----------------------------------------------------------------------------
(* The theorems *)

\* The initial state satisfies every layer of the invariant.
LEMMA MagicInit == Init => MagicIInv
  <1> SUFFICES ASSUME Init PROVE MagicIInv
    OBVIOUS
  <1>1. MagicShape
    BY ShapeInit
  <1>2. /\ \A l \in Link : /\ links[l].st = "none" /\ ~links[l].used
                           /\ logins[l] = << >>
        /\ \A r \in Request : req[r].pc = "idle"
        /\ \A u \in User : users[u].st = "none"
        /\ ~revived
    BY DEF Init, NoLink, NoReq, NoUser
  <1>3. UniqueAddress /\ UsableLinkKeepsOwner /\ TimesInv /\ QuotaHolds
    BY <1>2 DEF UniqueAddress, UsableLinkKeepsOwner, TimesInv, QuotaHolds
  <1>4. OnceInv
    BY <1>2 DEF OnceInv, Consumed
  <1> QED
    BY <1>1, <1>2, <1>3, <1>4 DEF MagicIInv

\* The layers together are an inductive invariant of the magic links.
THEOREM MagicInductiveInvariant == Spec => []MagicIInv
  <1>1. MagicIInv /\ [Next]_vars => MagicIInv'
    BY ShapeNext, AddressNext, OwnerNext, OnceNext, TimesNext, QuotaNext DEF MagicIInv
  <1> QED
    BY <1>1, MagicInit, PTL DEF Spec

\* Every reachable state is well typed.
THEOREM MagicTypeCorrect == Spec => []MagicTypeOK
  <1>1. MagicIInv => MagicTypeOK
    BY DEF MagicIInv, MagicShape
  <1> QED BY <1>1, MagicInductiveInvariant, PTL

\* InsertMagicTokenLimited, cleanup and burning together keep the quota.
THEOREM QuotaIsKept == Spec => []QuotaHolds
  <1>1. MagicIInv => QuotaHolds
    BY DEF MagicIInv
  <1> QED BY <1>1, MagicInductiveInvariant, PTL

\* ConsumeMagicToken makes a link single-use however the requests interleave.
THEOREM LinkLogsInOnce == Spec => []OneLoginPerLink
  <1>1. MagicIInv => OneLoginPerLink
    BY DEF MagicIInv, OnceInv, OneLoginPerLink
  <1> QED BY <1>1, MagicInductiveInvariant, PTL

\* HandleEmailChange leaves no usable link that would follow the address.
THEOREM UsableLinksStayWithOwner == Spec => []UsableLinkKeepsOwner
  <1>1. MagicIInv => UsableLinkKeepsOwner
    BY DEF MagicIInv
  <1> QED BY <1>1, MagicInductiveInvariant, PTL

\* Redeem and HandleVerifyPost never revive a deactivated account.
THEOREM DeactivatedIsNeverRevived == Spec => []DeactivatedStaysOut
  <1>1. MagicIInv => DeactivatedStaysOut
    BY DEF MagicIInv, DeactivatedStaysOut
  <1> QED BY <1>1, MagicInductiveInvariant, PTL
=============================================================================
