------------------------ MODULE RefreshTokensProofs ------------------------
(***************************************************************************)
(* The safety properties of RefreshTokens, for any number of tokens,       *)
(* families, users, services and concurrent requests, any lifetimes and    *)
(* any bound on the clock and on failing statements.                       *)
(*                                                                         *)
(* The table lemmas show that each statement keeps TableInv and Grows.     *)
(* What is left is that the values a handler carries from one statement to *)
(* the next stay true of the table while other requests change it: ReqInv. *)
(* It holds because a row never changes family, owner or absolute end and  *)
(* never becomes unused again (Grows).                                     *)
(***************************************************************************)
EXTENDS RefreshTokens, TLAPS

-----------------------------------------------------------------------------
(* The table: every statement on refresh_tokens keeps TableInv, and none   *)
(* brings a dead family back.  These lemmas are about values of the table, *)
(* so the components that share it cite them instead of repeating them.    *)

\* computeExpiresAt never passes the end of the family.
LEMMA ExpiryBound ==
    ASSUME NEW now \in Nat, NEW famExp \in Nat \cup {None}
    PROVE  /\ computeExpiresAt(now, famExp) \in Nat
           /\ famExp # None => computeExpiresAt(now, famExp) <= famExp
  BY TTLAssumption, NoneAssumption DEF computeExpiresAt

\* A login, or the redemption of an authorization code, starts a family.
LEMMA InsertRootKeepsTable ==
    ASSUME NEW tab, TableInv(tab),
           NEW t \in Token, tab[t].st = "none",
           NEW f \in Family, ~FamilyStarted(tab, f),
           NEW u \in User, NEW s \in Service, NEW m \in MaxAges, NEW now \in Nat
    PROVE  TableInv(InsertRefreshToken(tab, t, newRootToken(u, s, f, m, now)))
  <1> DEFINE famExp == IF m = None THEN None ELSE now + m
             new == newRootToken(u, s, f, m, now)
             after == InsertRefreshToken(tab, t, new)
  <1>1. famExp \in Nat \cup {None}
    BY MaxAgesAssumption
  <1>2. /\ computeExpiresAt(now, famExp) \in Nat
        /\ famExp # None => computeExpiresAt(now, famExp) <= famExp
    BY <1>1, ExpiryBound
  <1>3. /\ new \in Row /\ new.st = "present" /\ new.family = f /\ new.user = u
        /\ new.parent = None /\ ~new.used /\ ~new.revoked
        /\ new.famExp # None => new.exp <= new.famExp
    BY <1>1, <1>2 DEF newRootToken, Row
  <1>4. after \in [Token -> Row] /\ after[t] = new
    BY <1>3 DEF TableInv, InsertRefreshToken
  <1>5. \A x \in Token : x # t => after[x] = tab[x] /\ tab[x].family # f
    BY DEF InsertRefreshToken, TableInv, FamilyStarted
  <1> HIDE DEF new, after, famExp
  <1>6. RowShape(after)
    BY <1>3, <1>4, <1>5 DEF TableInv, RowShape
  <1>7. SingleLive(after)
    BY <1>3, <1>4, <1>5 DEF TableInv, SingleLive, Siblings, Present
  <1>8. SameFamilyData(after)
    BY <1>3, <1>4, <1>5 DEF TableInv, SameFamilyData
  <1>9. RevokedTogether(after)
    BY <1>3, <1>4, <1>5 DEF TableInv, RevokedTogether, Siblings, Present
  <1>10. OneChild(after)
    BY <1>3, <1>4, <1>5, NoneAssumption DEF TableInv, OneChild, Siblings, Present, Row
  <1>11. CapRespected(after)
    BY <1>3, <1>4, <1>5 DEF TableInv, CapRespected
  <1>12. DeletedTogether(after)
    BY <1>3, <1>4, <1>5 DEF TableInv, DeletedTogether, Present
  <1> QED
    BY <1>4, <1>6, <1>7, <1>8, <1>9, <1>10, <1>11, <1>12 DEF TableInv, after, new

\* Rotation: consuming a row and inserting its child in one transaction.
LEMMA RotateKeepsTable ==
    ASSUME NEW tab, TableInv(tab),
           NEW t \in Token, NEW now \in Nat, Consumable(tab, t, now),
           NEW c \in Token, tab[c].st = "none"
    PROVE  TableInv(InsertRefreshToken(ConsumeRefreshToken(tab, t), c, childOf(tab, t, now)))
  <1> DEFINE new == childOf(tab, t, now)
             after == InsertRefreshToken(ConsumeRefreshToken(tab, t), c, new)
  <1>1. /\ tab \in [Token -> Row] /\ tab[t] \in Row /\ tab[t].st = "present"
        /\ ~tab[t].used /\ ~tab[t].revoked /\ t # c
        /\ tab[t].user \in User /\ tab[t].family \in Family /\ tab[c] = NoRow
    BY DEF TableInv, Consumable, Present, RowShape
  <1>2. /\ computeExpiresAt(now, tab[t].famExp) \in Nat
        /\ tab[t].famExp # None => computeExpiresAt(now, tab[t].famExp) <= tab[t].famExp
    BY <1>1, ExpiryBound DEF Row
  <1>3. /\ new \in Row /\ new.st = "present" /\ new.parent = t /\ ~new.used /\ ~new.revoked
        /\ new.family = tab[t].family /\ new.user = tab[t].user
        /\ new.service = tab[t].service /\ new.famExp = tab[t].famExp
        /\ new.famExp # None => new.exp <= new.famExp
    BY <1>1, <1>2 DEF childOf, Row
  <1>4. after \in [Token -> Row] /\ after[c] = new
    BY <1>1, <1>3 DEF InsertRefreshToken, ConsumeRefreshToken, Row
  <1>5. \A x \in Token : x # t /\ x # c => after[x] = tab[x]
    BY <1>1 DEF InsertRefreshToken, ConsumeRefreshToken
  <1>6. /\ after[t].used
        /\ after[t].st = "present" /\ after[t].revoked = tab[t].revoked
        /\ after[t].family = tab[t].family /\ after[t].user = tab[t].user
        /\ after[t].service = tab[t].service /\ after[t].famExp = tab[t].famExp
        /\ after[t].exp = tab[t].exp /\ after[t].parent = tab[t].parent
    BY <1>1 DEF InsertRefreshToken, ConsumeRefreshToken, Row
  <1> HIDE DEF new, after
  <1>7. RowShape(after)
    BY <1>1, <1>3, <1>4, <1>5, <1>6 DEF TableInv, RowShape
  <1>8. SingleLive(after)
    <2>1. \A x \in Token : Siblings(after, x, c) /\ ~after[x].used => x = c
      BY <1>1, <1>3, <1>4, <1>5, <1>6 DEF TableInv, SingleLive, Siblings, Present
    <2> QED
      BY <2>1, <1>1, <1>3, <1>4, <1>5, <1>6 DEF TableInv, SingleLive, Siblings, Present
  <1>9. SameFamilyData(after)
    BY <1>1, <1>3, <1>4, <1>5, <1>6 DEF TableInv, SameFamilyData
  <1>10. RevokedTogether(after)
    <2>1. new.revoked = FALSE /\ tab[t].revoked = FALSE
      BY <1>1, <1>3 DEF Row
    <2>2. \A x \in Token : Present(tab, x) /\ tab[x].family = tab[t].family
                           => tab[x].revoked = FALSE
      BY <2>1, <1>1 DEF TableInv, RevokedTogether, Siblings, Present
    <2>3. \A x \in Token : Present(after, x) /\ after[x].family = tab[t].family
                           => after[x].revoked = FALSE
      BY <2>1, <2>2, <1>4, <1>5, <1>6 DEF Present
    <2> SUFFICES ASSUME NEW x \in Token, NEW y \in Token, Siblings(after, x, y)
                 PROVE  after[x].revoked = after[y].revoked
      BY DEF RevokedTogether
    <2>4. CASE after[x].family = tab[t].family
      BY <2>3, <2>4 DEF Siblings
    <2>5. CASE after[x].family # tab[t].family
      <3>1. after[x] = tab[x] /\ after[y] = tab[y]
        BY <2>5, <1>3, <1>4, <1>5, <1>6 DEF Siblings
      <3> QED
        BY <3>1 DEF TableInv, RevokedTogether, Siblings, Present
    <2> QED
      BY <2>4, <2>5
  <1>11. OneChild(after)
    \* No other row has t as its parent: t would have been consumed.
    <2>1. \A x \in Token : Present(tab, x) => tab[x].parent # t /\ tab[x].parent # c
      BY <1>1, NoneAssumption DEF TableInv, OneChild, Siblings, Present, NoRow
    <2> SUFFICES ASSUME NEW x \in Token, Present(after, x), after[x].parent # None
                 PROVE  /\ Siblings(after, x, after[x].parent)
                        /\ after[after[x].parent].used
                        /\ \A y \in Token :
                             Present(after, y) /\ after[y].parent = after[x].parent => x = y
      BY DEF OneChild
    <2>2. CASE x = c
      BY <2>1, <2>2, <1>1, <1>3, <1>4, <1>5, <1>6 DEF Siblings, Present
    <2>3. CASE x # c
      <3>1. /\ Present(tab, x) /\ tab[x].parent = after[x].parent
            /\ after[x].family = tab[x].family
        BY <2>3, <1>1, <1>5, <1>6 DEF Present
      <3>2. /\ tab[x].parent \in Token /\ tab[x].parent # t /\ tab[x].parent # c
            /\ Siblings(tab, x, tab[x].parent) /\ tab[tab[x].parent].used
        BY <3>1, <2>1, <1>1 DEF TableInv, OneChild, Row
      <3>3. \A y \in Token :
              Present(after, y) /\ after[y].parent = after[x].parent => x = y
        BY <3>1, <3>2, <1>1, <1>3, <1>4, <1>5, <1>6 DEF TableInv, OneChild, Present
      <3> QED
        BY <3>1, <3>2, <3>3, <1>5 DEF Siblings, Present
    <2> QED
      BY <2>2, <2>3
  <1>12. CapRespected(after)
    BY <1>1, <1>3, <1>4, <1>5, <1>6 DEF TableInv, CapRespected
  <1>13. DeletedTogether(after)
    BY <1>1, <1>3, <1>4, <1>5, <1>6 DEF TableInv, DeletedTogether, Present
  <1> QED
    BY <1>4, <1>7, <1>8, <1>9, <1>10, <1>11, <1>12, <1>13 DEF TableInv, after, new

\* Revoking any set of present tab that holds a row's siblings with it.
LEMMA RevokeSetKeepsTable ==
    ASSUME NEW tab, TableInv(tab), NEW S \in SUBSET Token, NEW after,
           \A x \in S : Present(tab, x),
           \A x \in S, y \in Token : Siblings(tab, x, y) => y \in S,
           after = [t \in Token |->
                      IF t \in S THEN [tab[t] EXCEPT !.revoked = TRUE] ELSE tab[t]]
    PROVE  TableInv(after)
  <1>1. after \in [Token -> Row]
    <2>1. \A x \in Token : tab[x] \in Row
      BY DEF TableInv
    <2>2. \A row \in Row : [row EXCEPT !.revoked = TRUE] \in Row
      BY DEF Row
    <2> QED BY <2>1, <2>2
  <1>2. \A x \in Token :
           /\ after[x].st = tab[x].st /\ after[x].used = tab[x].used
           /\ after[x].family = tab[x].family /\ after[x].user = tab[x].user
           /\ after[x].service = tab[x].service /\ after[x].famExp = tab[x].famExp
           /\ after[x].exp = tab[x].exp /\ after[x].parent = tab[x].parent
    BY DEF TableInv, Row
  <1>3. \A x \in Token : IF x \in S THEN after[x].revoked = TRUE ELSE after[x] = tab[x]
    BY DEF TableInv, Row
  <1>4. RowShape(after)
    BY <1>2, <1>3 DEF TableInv, RowShape, Present
  <1>5. SingleLive(after)
    BY <1>2 DEF TableInv, SingleLive, Siblings, Present
  <1>6. SameFamilyData(after)
    BY <1>2 DEF TableInv, SameFamilyData
  <1>7. RevokedTogether(after)
    <2> SUFFICES ASSUME NEW x \in Token, NEW y \in Token, Siblings(after, x, y)
                 PROVE  after[x].revoked = after[y].revoked
      BY DEF RevokedTogether
    <2>1. Siblings(tab, x, y) /\ Siblings(tab, y, x)
      BY <1>2 DEF Siblings, Present
    <2>2. x \in S <=> y \in S
      BY <2>1
    <2>3. tab[x].revoked = tab[y].revoked
      BY <2>1 DEF TableInv, RevokedTogether
    <2> QED
      BY <2>2, <2>3, <1>3
  <1>8. OneChild(after)
    <2>1. \A x \in Token : after[x].parent # None => after[x].parent \in Token
      BY <1>1 DEF Row
    <2> QED
      BY <2>1, <1>2 DEF TableInv, OneChild, Siblings, Present
  <1>9. CapRespected(after)
    BY <1>2 DEF TableInv, CapRespected
  <1>10. DeletedTogether(after)
    BY <1>2 DEF TableInv, DeletedTogether, Present
  <1> QED
    BY <1>1, <1>4, <1>5, <1>6, <1>7, <1>8, <1>9, <1>10 DEF TableInv

\* RevokeFamilyTokens takes a family as a whole.
LEMMA RevokeFamilyKeepsTable ==
    ASSUME NEW tab, TableInv(tab), NEW f
    PROVE  TableInv(RevokeFamilyTokens(tab, f))
  <1> DEFINE S == {x \in Token : Present(tab, x) /\ tab[x].family = f}
  <1>1. \A x \in S, y \in Token : Siblings(tab, x, y) => y \in S
    BY DEF Siblings
  <1>2. RevokeFamilyTokens(tab, f) =
          [t \in Token |-> IF t \in S THEN [tab[t] EXCEPT !.revoked = TRUE] ELSE tab[t]]
    BY DEF RevokeFamilyTokens
  <1>3. \A x \in S : Present(tab, x)
    OBVIOUS
  <1> HIDE DEF S
  <1>4. S \in SUBSET Token
    BY DEF S
  <1> QED
    BY <1>1, <1>2, <1>3, <1>4, RevokeSetKeepsTable

\* RevokeUserRefreshTokens takes every family of the user as a whole.
LEMMA RevokeUserKeepsTable ==
    ASSUME NEW tab, TableInv(tab), NEW u
    PROVE  TableInv(RevokeUserRefreshTokens(tab, u))
  <1> DEFINE S == {x \in Token : Present(tab, x) /\ tab[x].user = u}
  <1>1. \A x \in S, y \in Token : Siblings(tab, x, y) => y \in S
    BY DEF Siblings, Present, TableInv, SameFamilyData
  <1>2. RevokeUserRefreshTokens(tab, u) =
          [t \in Token |-> IF t \in S THEN [tab[t] EXCEPT !.revoked = TRUE] ELSE tab[t]]
    BY DEF RevokeUserRefreshTokens
  <1>3. \A x \in S : Present(tab, x)
    OBVIOUS
  <1> HIDE DEF S
  <1>4. S \in SUBSET Token
    BY DEF S
  <1> QED
    BY <1>1, <1>2, <1>3, <1>4, RevokeSetKeepsTable

\* Cleanup: a family with an absolute end goes as a whole, because no row of
\* it outlives that end; parent_id is cleared with the row it names.
LEMMA DeleteKeepsTable ==
    ASSUME NEW tab, TableInv(tab), NEW now \in Nat
    PROVE  TableInv(DeleteExpiredRefreshTokens(tab, now))
  <1> DEFINE after == DeleteExpiredRefreshTokens(tab, now)
             gone(x) == Expired(tab[x], now)
  <1>1. tab \in [Token -> Row]
    BY DEF TableInv
  <1>2. \A x \in Token : after[x].st = IF gone(x) THEN "deleted" ELSE tab[x].st
    BY <1>1 DEF DeleteExpiredRefreshTokens, Row
  <1>3. \A x \in Token : after[x].parent =
            IF tab[x].parent # None /\ gone(tab[x].parent) THEN None ELSE tab[x].parent
    BY <1>1 DEF DeleteExpiredRefreshTokens, Row
  <1>4. \A x \in Token :
           /\ after[x].used = tab[x].used /\ after[x].revoked = tab[x].revoked
           /\ after[x].family = tab[x].family /\ after[x].user = tab[x].user
           /\ after[x].service = tab[x].service /\ after[x].famExp = tab[x].famExp
           /\ after[x].exp = tab[x].exp
    BY <1>1 DEF DeleteExpiredRefreshTokens, Row
  <1>5. after \in [Token -> Row]
    <2> SUFFICES ASSUME NEW x \in Token PROVE after[x] \in Row
      BY DEF DeleteExpiredRefreshTokens
    <2>1. \A row \in Row, s \in {"none", "present", "deleted"}, p \in Token \cup {None} :
             [row EXCEPT !.st = s, !.parent = p] \in Row
      BY DEF Row
    <2> DEFINE s == IF gone(x) THEN "deleted" ELSE tab[x].st
               p == IF tab[x].parent # None /\ gone(tab[x].parent) THEN None ELSE tab[x].parent
    <2>2. s \in {"none", "present", "deleted"} /\ p \in Token \cup {None}
      BY <1>1 DEF Row
    <2>3. after[x] = [tab[x] EXCEPT !.st = s, !.parent = p]
      BY DEF DeleteExpiredRefreshTokens
    <2>4. tab[x] \in Row
      BY <1>1
    <2>5. [tab[x] EXCEPT !.st = s, !.parent = p] \in Row
      <3> HIDE DEF s, p
      <3> QED BY <2>1, <2>2, <2>4
    <2> QED BY <2>3, <2>5
  <1>6. \A x \in Token : gone(x) => tab[x].st = "present"
    BY DEF Expired
  <1>7. \A x \in Token : tab[x].st = "none" => after[x] = tab[x]
    <2> SUFFICES ASSUME NEW x \in Token, tab[x].st = "none" PROVE after[x] = tab[x]
      OBVIOUS
    <2>1. tab[x] = NoRow /\ ~gone(x)
      BY <1>6 DEF TableInv, RowShape
    <2>2. tab[x].parent = None
      BY <2>1 DEF NoRow
    <2> QED
      BY <1>1, <2>1, <2>2 DEF DeleteExpiredRefreshTokens, Row
  <1>8. \A x, y \in Token :
           gone(x) /\ tab[x].famExp # None /\ tab[x].family = tab[y].family
             /\ tab[y].st = "present" => gone(y)
    <2> SUFFICES ASSUME NEW x \in Token, NEW y \in Token, gone(x), tab[x].famExp # None,
                        tab[x].family = tab[y].family, tab[y].st = "present"
                 PROVE  gone(y)
      BY DEF gone
    <2>1. tab[y].famExp = tab[x].famExp /\ tab[x].famExp < now
      BY DEF TableInv, SameFamilyData, Expired
    <2>2. tab[y].exp <= tab[y].famExp
      BY <2>1 DEF TableInv, CapRespected
    <2>3. tab[y].exp \in Nat /\ tab[y].famExp \in Nat
      BY <1>1, <2>1 DEF Row
    <2> QED
      BY <2>1, <2>2, <2>3 DEF Expired
  <1> HIDE DEF after, gone
  <1>9. \A x \in Token : Present(after, x) => Present(tab, x) /\ ~gone(x)
    BY <1>2 DEF Present
  <1>10. RowShape(after)
    BY <1>2, <1>4, <1>6, <1>7 DEF TableInv, RowShape
  <1>11. SingleLive(after)
    BY <1>4, <1>9 DEF TableInv, SingleLive, Siblings
  <1>12. SameFamilyData(after)
    BY <1>2, <1>4, <1>6 DEF TableInv, SameFamilyData
  <1>13. RevokedTogether(after)
    BY <1>4, <1>9 DEF TableInv, RevokedTogether, Siblings
  <1>14. OneChild(after)
    <2> SUFFICES ASSUME NEW x \in Token, Present(after, x), after[x].parent # None
                 PROVE  /\ Siblings(after, x, after[x].parent)
                        /\ after[after[x].parent].used
                        /\ \A y \in Token :
                             Present(after, y) /\ after[y].parent = after[x].parent => x = y
      BY DEF OneChild
    <2> DEFINE p == tab[x].parent
    <2>1. p \in Token /\ after[x].parent = p /\ ~gone(p)
      BY <1>1, <1>3 DEF Row
    <2>2. /\ Siblings(tab, x, p) /\ tab[p].used
          /\ \A y \in Token : Present(tab, y) /\ tab[y].parent = p => x = y
      BY <2>1, <1>9, NoneAssumption DEF TableInv, OneChild
    <2> HIDE DEF p
    <2>3. Siblings(after, x, p) /\ after[p].used
      BY <2>1, <2>2, <1>2, <1>4 DEF Siblings, Present
    <2>4. \A y \in Token : Present(after, y) /\ after[y].parent = p => x = y
      BY <2>1, <2>2, <1>3, <1>9, NoneAssumption
    <2> QED
      BY <2>1, <2>3, <2>4
  <1>15. CapRespected(after)
    BY <1>2, <1>4, <1>6 DEF TableInv, CapRespected
  <1>16. DeletedTogether(after)
    BY <1>2, <1>4, <1>6, <1>8, <1>9 DEF TableInv, DeletedTogether, Present
  <1> QED
    BY <1>5, <1>10, <1>11, <1>12, <1>13, <1>14, <1>15, <1>16 DEF TableInv, after

-----------------------------------------------------------------------------
\* What a statement may never undo: a row keeps its family, owner, service,
\* absolute end and used flag for good, and a dead family stays dead.
Grows(before, after) ==
    /\ \A t \in Token : before[t].st # "none" =>
         /\ after[t].st # "none"
         /\ after[t].family = before[t].family
         /\ after[t].user = before[t].user
         /\ after[t].service = before[t].service
         /\ after[t].famExp = before[t].famExp
         /\ before[t].used => after[t].used
    /\ \A f \in Family : FamilyStarted(before, f) =>
         /\ FamilyStarted(after, f)
         /\ Dead(before, f) => Dead(after, f)

\* A new family touches no other.
LEMMA InsertRootGrows ==
    ASSUME NEW tab, TableInv(tab),
           NEW t \in Token, tab[t].st = "none",
           NEW f \in Family, ~FamilyStarted(tab, f),
           NEW u \in User, NEW s \in Service, NEW m \in MaxAges, NEW now \in Nat
    PROVE  Grows(tab, InsertRefreshToken(tab, t, newRootToken(u, s, f, m, now)))
  <1> DEFINE after == InsertRefreshToken(tab, t, newRootToken(u, s, f, m, now))
  <1>1. tab[t].family = None
    BY DEF TableInv, RowShape, NoRow
  <1>2. after[t].family = f
    BY DEF TableInv, InsertRefreshToken, newRootToken
  <1>3. \A x \in Token : x # t => after[x] = tab[x]
    BY DEF TableInv, InsertRefreshToken
  <1> HIDE DEF after
  <1> QED
    BY <1>1, <1>2, <1>3, NoneAssumption DEF Grows, FamilyStarted, Dead, Present, after

\* A rotation extends a family that is not dead.
LEMMA RotateGrows ==
    ASSUME NEW tab, TableInv(tab),
           NEW t \in Token, NEW now \in Nat, Consumable(tab, t, now),
           NEW c \in Token, tab[c].st = "none"
    PROVE  Grows(tab, InsertRefreshToken(ConsumeRefreshToken(tab, t), c,
                                          childOf(tab, t, now)))
  <1> DEFINE after == InsertRefreshToken(ConsumeRefreshToken(tab, t), c, childOf(tab, t, now))
  <1>1. /\ tab \in [Token -> Row] /\ tab[t].st = "present" /\ t # c
        /\ ~tab[t].revoked /\ tab[c].family = None
    BY DEF TableInv, Consumable, Present, RowShape, NoRow
  <1>2. after[c].family = tab[t].family
    BY <1>1 DEF InsertRefreshToken, ConsumeRefreshToken, childOf
  <1>3. \A x \in Token : x # t /\ x # c => after[x] = tab[x]
    BY <1>1 DEF InsertRefreshToken, ConsumeRefreshToken
  <1>4. /\ after[t].used /\ after[t].st = "present"
        /\ after[t].family = tab[t].family /\ after[t].user = tab[t].user
        /\ after[t].service = tab[t].service /\ after[t].famExp = tab[t].famExp
    BY <1>1 DEF InsertRefreshToken, ConsumeRefreshToken, Row
  <1> HIDE DEF after
  <1>5. ASSUME NEW f \in Family, FamilyStarted(tab, f) PROVE FamilyStarted(after, f)
    BY <1>1, <1>3, <1>4, <1>5, NoneAssumption DEF FamilyStarted
  <1>6. ASSUME NEW f \in Family, Dead(tab, f) PROVE Dead(after, f)
    <2>1. tab[t].family # f
      BY <1>1, <1>6 DEF Dead, Present
    <2> QED
      BY <2>1, <1>2, <1>3, <1>4, <1>6 DEF Dead, Present
  <1> QED
    BY <1>1, <1>3, <1>4, <1>5, <1>6 DEF Grows, after

\* Revoking only adds revoked tab, and no row of the family escapes it.
LEMMA RevokeFamilyGrows ==
    ASSUME NEW tab, TableInv(tab), NEW f
    PROVE  /\ Grows(tab, RevokeFamilyTokens(tab, f))
           /\ Dead(RevokeFamilyTokens(tab, f), f)
  <1> DEFINE after == RevokeFamilyTokens(tab, f)
  <1>1. \A x \in Token :
           /\ after[x].st = tab[x].st /\ after[x].used = tab[x].used
           /\ after[x].family = tab[x].family /\ after[x].user = tab[x].user
           /\ after[x].service = tab[x].service /\ after[x].famExp = tab[x].famExp
    BY DEF TableInv, Row, RevokeFamilyTokens
  <1>2. \A x \in Token : tab[x].revoked => after[x].revoked
    BY DEF TableInv, Row, RevokeFamilyTokens
  <1>3. \A x \in Token : Present(tab, x) /\ tab[x].family = f => after[x].revoked
    BY DEF TableInv, Row, RevokeFamilyTokens
  <1> HIDE DEF after
  <1> QED
    BY <1>1, <1>2, <1>3 DEF Grows, FamilyStarted, Dead, Present, after

\* Revoking a user's tab only adds revoked tab, too.
LEMMA RevokeUserGrows ==
    ASSUME NEW tab, TableInv(tab), NEW u
    PROVE  Grows(tab, RevokeUserRefreshTokens(tab, u))
  <1> DEFINE after == RevokeUserRefreshTokens(tab, u)
  <1>1. \A x \in Token :
           /\ after[x].st = tab[x].st /\ after[x].used = tab[x].used
           /\ after[x].family = tab[x].family /\ after[x].user = tab[x].user
           /\ after[x].service = tab[x].service /\ after[x].famExp = tab[x].famExp
    BY DEF TableInv, Row, RevokeUserRefreshTokens
  <1>2. \A x \in Token : tab[x].revoked => after[x].revoked
    BY DEF TableInv, Row, RevokeUserRefreshTokens
  <1> HIDE DEF after
  <1> QED
    BY <1>1, <1>2 DEF Grows, FamilyStarted, Dead, Present, after

\* Cleanup forgets tab but never a family, nor that a row was revoked.
LEMMA DeleteGrows ==
    ASSUME NEW tab, TableInv(tab), NEW now \in Nat
    PROVE  Grows(tab, DeleteExpiredRefreshTokens(tab, now))
  <1> DEFINE after == DeleteExpiredRefreshTokens(tab, now)
  <1>1. \A x \in Token :
           /\ after[x].used = tab[x].used /\ after[x].revoked = tab[x].revoked
           /\ after[x].family = tab[x].family /\ after[x].user = tab[x].user
           /\ after[x].service = tab[x].service /\ after[x].famExp = tab[x].famExp
    BY DEF TableInv, Row, DeleteExpiredRefreshTokens
  <1>2. \A x \in Token : after[x].st = "present" => tab[x].st = "present"
    BY DEF TableInv, Row, DeleteExpiredRefreshTokens
  <1>3. \A x \in Token : tab[x].st # "none" => after[x].st # "none"
    BY DEF TableInv, Row, DeleteExpiredRefreshTokens
  <1> HIDE DEF after
  <1> QED
    BY <1>1, <1>2, <1>3 DEF Grows, FamilyStarted, Dead, Present, after

-----------------------------------------------------------------------------
\* Families that have started are the ones that had.
SameFamilies(before, after) ==
    \A f \in Family : FamilyStarted(after, f) => FamilyStarted(before, f)

\* Only a root row starts a family: a rotation's child joins its parent's.
LEMMA NoNewFamilies ==
    ASSUME NEW tab, TableInv(tab)
    PROVE  /\ \A t \in Token, c \in Token, now \in Nat :
                Consumable(tab, t, now) /\ tab[c].st = "none" =>
                SameFamilies(tab, InsertRefreshToken(ConsumeRefreshToken(tab, t), c,
                                                      childOf(tab, t, now)))
           /\ \A f : SameFamilies(tab, RevokeFamilyTokens(tab, f))
           /\ \A u : SameFamilies(tab, RevokeUserRefreshTokens(tab, u))
           /\ \A now \in Nat : SameFamilies(tab, DeleteExpiredRefreshTokens(tab, now))
  <1>1. ASSUME NEW t \in Token, NEW c \in Token, NEW now \in Nat,
               Consumable(tab, t, now), tab[c].st = "none"
        PROVE  SameFamilies(tab, InsertRefreshToken(ConsumeRefreshToken(tab, t), c,
                                                     childOf(tab, t, now)))
    <2> DEFINE after == InsertRefreshToken(ConsumeRefreshToken(tab, t), c, childOf(tab, t, now))
    <2>1. after[c].family = tab[t].family
      BY <1>1 DEF InsertRefreshToken, ConsumeRefreshToken, childOf, TableInv, Row
    <2>2. \A x \in Token : x # c => after[x].family = tab[x].family
      BY <1>1 DEF InsertRefreshToken, ConsumeRefreshToken, TableInv, Row
    <2> HIDE DEF after
    <2> QED
      BY <2>1, <2>2 DEF SameFamilies, FamilyStarted, after
  <1>2. \A f : SameFamilies(tab, RevokeFamilyTokens(tab, f))
    BY DEF SameFamilies, FamilyStarted, RevokeFamilyTokens, TableInv, Row
  <1>3. \A u : SameFamilies(tab, RevokeUserRefreshTokens(tab, u))
    BY DEF SameFamilies, FamilyStarted, RevokeUserRefreshTokens, TableInv, Row
  <1>4. ASSUME NEW now \in Nat PROVE SameFamilies(tab, DeleteExpiredRefreshTokens(tab, now))
    <2>1. \A x \in Token : DeleteExpiredRefreshTokens(tab, now)[x].family = tab[x].family
      BY DEF DeleteExpiredRefreshTokens, TableInv, Row
    <2> QED
      BY <2>1 DEF SameFamilies, FamilyStarted
  <1> QED
    BY <1>1, <1>2, <1>3, <1>4

\* A root row starts one family, alive, and leaves the others as they are.
LEMMA RootStartsOneFamily ==
    ASSUME NEW tab, TableInv(tab),
           NEW t \in Token, tab[t].st = "none",
           NEW f \in Family, ~FamilyStarted(tab, f),
           NEW u, NEW s, NEW m, NEW now,
           NEW after, after = InsertRefreshToken(tab, t, newRootToken(u, s, f, m, now))
    PROVE  /\ FamilyStarted(after, f) /\ ~Dead(after, f)
           /\ \A g \in Family : g # f =>
                /\ FamilyStarted(after, g) <=> FamilyStarted(tab, g)
                /\ Dead(after, g) <=> Dead(tab, g)
  <1>1. tab[t].family = None
    BY DEF TableInv, RowShape, NoRow
  <1>2. after[t].family = f /\ after[t].st = "present" /\ ~after[t].revoked
    BY DEF TableInv, InsertRefreshToken, newRootToken
  <1>3. \A x \in Token : x # t => after[x] = tab[x]
    BY DEF TableInv, InsertRefreshToken
  <1>4. tab[t].st # "present" /\ None \notin Family
    BY NoneAssumption
  <1> QED
    BY <1>1, <1>2, <1>3, <1>4 DEF FamilyStarted, Dead, Present

-----------------------------------------------------------------------------
(* Requests *)

\* A token that some statement has inserted.
Known(tab, t) == t \in Token /\ tab[t].st # "none"

\* What a handler may rely on between two statements, by program counter.
ReqInv(tab, act, q) ==
    /\ q.pc \in {"rotate", "classify", "logout"} => Known(tab, q.token)
    /\ q.pc \in {"rotate", "classify", "user", "authorize"} => q.family \in Family
    /\ q.pc \in {"user", "authorize"} => Known(tab, q.child)
    /\ q.pc \in {"user", "authorize", "issue", "revokeUser"} => q.user \in User
    /\ q.pc = "revoke" =>
         q.family \in Family /\ FamilyStarted(tab, q.family) /\ q.outcome # "granted"
    /\ q.replay =>
         /\ q.pc \in {"rotate", "classify", "revoke"}
         /\ Known(tab, q.token) /\ tab[q.token].used
         /\ q.family = tab[q.token].family
    /\ q.locked =>
         /\ q.pc # "authorize"
         /\ Known(tab, q.token) /\ ~act[tab[q.token].user]
         /\ q.pc = "user" => q.user = tab[q.token].user

\* What past answers have promised still holds.
HistInv(tab, h) ==
    /\ \A f \in h.ended : FamilyStarted(tab, f) /\ Dead(tab, f)
    /\ \A f \in h.replayed : FamilyStarted(tab, f) /\ (Capped(tab, f) => Dead(tab, f))
    /\ ~h.lateGrant

IInv ==
    /\ TypeOK
    /\ TableInv(rows)
    /\ \A t \in held : Known(rows, t)
    /\ \A r \in Request : ReqInv(rows, active, req[r])
    /\ HistInv(rows, hist)

-----------------------------------------------------------------------------
(* Statements of other requests do not disturb what a handler relies on *)

\* A statement that changes nothing undoes nothing.
LEMMA GrowsRefl == ASSUME NEW tab PROVE Grows(tab, tab)
  BY DEF Grows

\* A handler's values stay true of the table while others run statements on it.
LEMMA ReqInvStable ==
    ASSUME NEW tab, NEW tab2, TableInv(tab), Grows(tab, tab2),
           NEW act, NEW act2, \A u \in User : act2[u] => act[u],
           NEW q \in Req, ReqInv(tab, act, q)
    PROVE  ReqInv(tab2, act2, q)
  <1>1. \A t : Known(tab, t) => Known(tab2, t)
    BY DEF Known, Grows
  <1>2. \A t : Known(tab, t) => /\ tab2[t].family = tab[t].family
                                /\ tab2[t].user = tab[t].user
                                /\ tab[t].used => tab2[t].used
                                /\ tab[t].user \in User
    BY DEF Known, Grows, TableInv, RowShape
  <1>3. \A f \in Family : FamilyStarted(tab, f) => FamilyStarted(tab2, f)
    BY DEF Grows
  <1> QED
    BY <1>1, <1>2, <1>3 DEF ReqInv

\* So do the promises of past answers.
LEMMA HistInvStable ==
    ASSUME NEW tab, NEW tab2, TableInv(tab), Grows(tab, tab2),
           NEW h \in Hist, HistInv(tab, h)
    PROVE  HistInv(tab2, h)
  <1>1. \A f \in Family : Capped(tab2, f) => Capped(tab, f)
    <2> SUFFICES ASSUME NEW f \in Family, Capped(tab2, f),
                        NEW t \in Token, tab[t].family = f
                 PROVE  tab[t].famExp # None
      BY DEF Capped
    <2>1. tab[t].st # "none"
      BY NoneAssumption DEF TableInv, RowShape, NoRow
    <2> QED
      BY <2>1 DEF Grows, Capped
  <1>2. h.ended \subseteq Family /\ h.replayed \subseteq Family
    BY DEF Hist
  <1> QED
    BY <1>1, <1>2 DEF HistInv, Grows

\* A step of request r that keeps the table lemmas' promises.
LEMMA StepKeepsIInv ==
    ASSUME IInv, TypeOK', TableInv(rows'), Grows(rows, rows'),
           \A u \in User : active'[u] => active[u],
           \A t \in held' \ held : Known(rows', t),
           NEW r \in Request, \A s \in Request \ {r} : req'[s] = req[s],
           ReqInv(rows', active', req'[r]), HistInv(rows', hist')
    PROVE  IInv'
  <1>1. \A t \in held' : Known(rows', t)
    BY DEF IInv, Known, Grows
  <1>2. ASSUME NEW s \in Request, s # r PROVE ReqInv(rows', active', req'[s])
    <2>1. req'[s] = req[s] /\ req[s] \in Req /\ ReqInv(rows, active, req[s])
      BY <1>2 DEF IInv, TypeOK
    <2>2. ReqInv(rows', active', req[s])
      BY <2>1, ReqInvStable DEF IInv
    <2> QED
      BY <2>1, <2>2
  <1>3. \A s \in Request : ReqInv(rows', active', req'[s])
    BY <1>2
  <1> QED
    BY <1>1, <1>3 DEF IInv

-----------------------------------------------------------------------------
(* The ways a step ends *)

\* A handler that holds nothing relies on nothing.
LEMMA NoReqInv ==
    ASSUME NEW tab, NEW act PROVE NoReq \in Req /\ ReqInv(tab, act, NoReq)
  BY DEF NoReq, Req, PC, Outcome, ReqInv

\* Finish keeps the promises of past answers, and its own.
LEMMA FinishKeepsIInv ==
    ASSUME IInv, NEW r \in Request, NEW o, Finish(r, o),
           TableInv(rows'), Grows(rows, rows'), UNCHANGED <<active, clock, faults>>,
           held' \subseteq Token, \A t \in held' \ held : Known(rows', t),
           o \in EndsSession => /\ req[r].family \in Family
                                /\ FamilyStarted(rows', req[r].family)
                                /\ Dead(rows', req[r].family),
           req[r].replay => /\ req[r].family \in Family
                            /\ FamilyStarted(rows', req[r].family)
                            /\ Capped(rows', req[r].family) => Dead(rows', req[r].family),
           o = "granted" => ~req[r].locked
    PROVE  IInv'
  <1>1. /\ req' \in [Request -> Req] /\ req'[r] = NoReq
        /\ \A s \in Request \ {r} : req'[s] = req[s]
    BY NoReqInv DEF IInv, TypeOK, Finish
  <1>2. HistInv(rows', hist) /\ hist \in Hist
    BY HistInvStable DEF IInv, TypeOK
  <1>3. /\ hist'.ended \subseteq hist.ended \cup (IF o \in EndsSession THEN {req[r].family} ELSE {})
        /\ hist'.replayed \subseteq
             hist.replayed \cup (IF req[r].replay THEN {req[r].family} ELSE {})
        /\ hist'.lateGrant => hist.lateGrant \/ (o = "granted" /\ req[r].locked)
    BY <1>2 DEF Finish, Hist
  <1>4. hist' \in Hist
    <2>1. /\ (IF o \in EndsSession THEN hist.ended \cup {req[r].family} ELSE hist.ended)
                \in SUBSET Family
          /\ hist.denied \in SUBSET Family
      BY <1>2 DEF Hist
    <2>2. (IF req[r].replay THEN hist.replayed \cup {req[r].family} ELSE hist.replayed)
             \in SUBSET Family
      BY <1>2 DEF Hist
    <2>3. (hist.lateGrant \/ (o = "granted" /\ req[r].locked)) \in BOOLEAN
      OBVIOUS
    <2> QED
      BY <1>2, <2>1, <2>2, <2>3 DEF Finish, Hist
  <1>5. HistInv(rows', hist')
    BY <1>2, <1>3 DEF HistInv
  <1>6. TypeOK'
    BY <1>1, <1>4 DEF IInv, TypeOK, TableInv
  <1>7. ReqInv(rows', active', req'[r])
    BY <1>1, NoReqInv
  <1> QED
    BY <1>1, <1>5, <1>6, <1>7, StepKeepsIInv

\* A failing statement changes nothing but the request.
LEMMA FailKeepsIInv ==
    ASSUME IInv, NEW r \in Request, Fail(r) \/ RevokeFamilyFails(r)
    PROVE  IInv'
  <1>1. /\ req' \in [Request -> Req] /\ req'[r] = NoReq
        /\ \A s \in Request \ {r} : req'[s] = req[s]
    BY NoReqInv DEF IInv, TypeOK, Fail, RevokeFamilyFails
  <1>2. /\ hist' \in Hist /\ hist'.ended = hist.ended /\ hist'.replayed = hist.replayed
        /\ hist'.lateGrant = hist.lateGrant
    <2>1. CASE Fail(r)
      BY <2>1 DEF IInv, TypeOK, Fail, Hist
    <2>2. CASE RevokeFamilyFails(r)
      <3>1. req[r].family \in Family /\ hist \in Hist
        BY <2>2 DEF IInv, TypeOK, RevokeFamilyFails, At, ReqInv
      <3>2. (IF req[r].outcome \in Denials THEN hist.denied \cup {req[r].family}
                                           ELSE hist.denied) \in SUBSET Family
        BY <3>1 DEF Hist
      <3> QED
        BY <2>2, <3>1, <3>2 DEF RevokeFamilyFails, Hist
    <2> QED
      BY <2>1, <2>2
  <1>3. UNCHANGED <<rows, held, active, clock>> /\ faults' \in Nat
    BY DEF IInv, TypeOK, Fail, RevokeFamilyFails
  <1>4. TypeOK'
    BY <1>1, <1>2, <1>3 DEF IInv, TypeOK
  <1>5. HistInv(rows', hist')
    BY <1>2, <1>3 DEF IInv, HistInv
  <1>6. TableInv(rows') /\ Grows(rows, rows')
    BY <1>3, GrowsRefl DEF IInv
  <1>7. ReqInv(rows', active', req'[r])
    BY <1>1, NoReqInv
  <1> QED
    BY <1>1, <1>3, <1>4, <1>5, <1>6, <1>7, StepKeepsIInv

\* A step that only moves its own request on.
LEMMA MoveKeepsIInv ==
    ASSUME IInv, NEW r \in Request, NEW q \in Req, req' = [req EXCEPT ![r] = q],
           TableInv(rows'), Grows(rows, rows'),
           active' \in [User -> BOOLEAN], \A u \in User : active'[u] => active[u],
           UNCHANGED <<held, clock, faults, hist>>, ReqInv(rows', active', q)
    PROVE  IInv'
  <1>1. /\ req' \in [Request -> Req] /\ req'[r] = q
        /\ \A s \in Request \ {r} : req'[s] = req[s]
    BY DEF IInv, TypeOK
  <1>2. HistInv(rows', hist')
    BY HistInvStable DEF IInv, TypeOK
  <1>3. TypeOK'
    BY <1>1 DEF IInv, TypeOK, TableInv
  <1> QED
    BY <1>1, <1>2, <1>3, StepKeepsIInv

\* Deciding to revoke a family that exists.
LEMMA RevokeThenKeepsIInv ==
    ASSUME IInv, NEW r \in Request, NEW f \in Family, FamilyStarted(rows, f),
           NEW o \in Outcome \ {"granted"}, RevokeThen(r, f, o),
           req[r].replay => f = rows[req[r].token].family,
           UNCHANGED <<rows, held, active, clock, faults>>
    PROVE  IInv'
  <1> DEFINE q == [req[r] EXCEPT !.pc = "revoke", !.family = f, !.outcome = o]
  <1>1. req[r] \in Req /\ ReqInv(rows, active, req[r])
    BY DEF IInv, TypeOK
  <1>2. /\ q \in Req /\ q.pc = "revoke" /\ q.family = f /\ q.outcome = o /\ q.token = req[r].token
        /\ q.replay = req[r].replay /\ q.locked = req[r].locked
    BY <1>1 DEF Req, PC
  <1>3. req' = [req EXCEPT ![r] = q]
    BY DEF RevokeThen, IInv, TypeOK
  <1> HIDE DEF q
  <1>4. ReqInv(rows', active', q)
    BY <1>1, <1>2 DEF ReqInv
  <1>5. TableInv(rows') /\ Grows(rows, rows') /\ active' \in [User -> BOOLEAN]
    BY GrowsRefl DEF IInv, TypeOK
  <1> QED
    BY <1>2, <1>3, <1>4, <1>5, MoveKeepsIInv DEF RevokeThen

-----------------------------------------------------------------------------
(* One lemma per handler *)

\* POST /token with grant_type=refresh_token, up to the answer or to a revocation.
LEMMA RefreshSteps ==
    ASSUME IInv, NEW r \in Request
    PROVE  /\ \A t \in Token : BeginRefresh(r, t) => IInv'
           /\ Rotate(r) => IInv'
           /\ RotateRejected(r) => IInv'
           /\ RotateFails(r) => IInv'
           /\ classifyRejected(r) => IInv'
           /\ ClassifyFails(r) => IInv'
           /\ activeSessionUser(r) => IInv'
           /\ UserLookupFails(r) => IInv'
           /\ Authorize(r) => IInv'
  <1>1. req[r] \in Req /\ ReqInv(rows, active, req[r])
    BY DEF IInv, TypeOK
  <1>2. TableInv(rows) /\ Grows(rows, rows) /\ active \in [User -> BOOLEAN]
    BY GrowsRefl DEF IInv, TypeOK
  <1>3. \A t : Known(rows, t) => /\ rows[t].user \in User /\ rows[t].family \in Family
                                 /\ FamilyStarted(rows, rows[t].family)
    BY <1>2 DEF Known, TableInv, RowShape, FamilyStarted
  <1>4. ASSUME NEW t \in Token, BeginRefresh(r, t) PROVE IInv'
    <2> DEFINE q == [NoReq EXCEPT !.pc = "rotate", !.token = t, !.now = clock,
                                  !.family = rows[t].family,
                                  !.replay = rows[t].used,
                                  !.locked = ~active[rows[t].user]]
    <2>1. Known(rows, t) /\ rows[t] \in Row /\ clock \in Nat
      BY <1>4 DEF BeginRefresh, IInv, TypeOK
    <2>2. q \in Req
      BY <2>1, <1>3, NoReqInv DEF Req, PC, Row
    <2>3. /\ q.pc = "rotate" /\ q.token = t /\ q.family = rows[t].family
          /\ q.replay = rows[t].used /\ q.locked = ~active[rows[t].user]
      BY NoReqInv DEF Req, NoReq
    <2>4. req' = [req EXCEPT ![r] = q]
      BY <1>4 DEF BeginRefresh
    <2> HIDE DEF q
    <2>5. ReqInv(rows, active, q)
      BY <2>1, <2>3, <1>3 DEF ReqInv
    <2> QED
      BY <1>2, <1>4, <2>2, <2>4, <2>5, MoveKeepsIInv DEF BeginRefresh
  <1>5. ASSUME Rotate(r) PROVE IInv'
    <2> DEFINE t == req[r].token
    <2>1. Known(rows, t) /\ Consumable(rows, t, req[r].now) /\ req[r].now \in Nat
      BY <1>1, <1>5 DEF Rotate, At, ReqInv, Req
    <2>2. PICK c \in Token :
            /\ rows[c].st = "none"
            /\ rows' = InsertRefreshToken(ConsumeRefreshToken(rows, t), c,
                                          childOf(rows, t, req[r].now))
            /\ req' = [req EXCEPT ![r].pc = "user", ![r].child = c,
                                  ![r].user = rows[t].user]
      BY <1>5 DEF Rotate
    <2>3. TableInv(rows') /\ Grows(rows, rows')
      BY <1>2, <2>1, <2>2, RotateKeepsTable, RotateGrows DEF Known
    <2> DEFINE q == [req[r] EXCEPT !.pc = "user", !.child = c, !.user = rows[t].user]
    <2>4. /\ q \in Req /\ q.pc = "user" /\ q.child = c /\ q.user = rows[t].user
          /\ q.token = t /\ q.family = req[r].family
          /\ q.replay = req[r].replay /\ q.locked = req[r].locked
      BY <1>1, <1>3, <2>1 DEF Req, PC
    <2>5. req' = [req EXCEPT ![r] = q]
      BY <2>2 DEF IInv, TypeOK
    <2>6. Known(rows', c)
      BY <2>2, <1>2 DEF Known, InsertRefreshToken, ConsumeRefreshToken, childOf, TableInv
    <2>7. ~req[r].replay /\ req[r].family \in Family
      BY <1>1, <1>5, <2>1 DEF ReqInv, Consumable, Rotate, At
    <2>8. req[r].locked => ~active[rows[t].user]
      BY <1>1 DEF ReqInv
    <2>9. Known(rows', t) /\ rows'[t].user = rows[t].user
      BY <2>1, <2>3 DEF Known, Grows
    <2>10. UNCHANGED <<held, active, clock, faults, hist>>
      BY <1>5 DEF Rotate
    <2> HIDE DEF q, t
    <2>11. ReqInv(rows', active', q)
      BY <1>3, <2>1, <2>4, <2>6, <2>7, <2>8, <2>9, <2>10 DEF ReqInv
    <2> QED
      BY <1>2, <2>3, <2>4, <2>5, <2>10, <2>11, MoveKeepsIInv
  <1>6. ASSUME RotateRejected(r) PROVE IInv'
    <2> DEFINE q == [req[r] EXCEPT !.pc = "classify"]
    <2>1. /\ q \in Req /\ q.pc = "classify" /\ q.token = req[r].token
          /\ q.family = req[r].family /\ q.replay = req[r].replay /\ q.locked = req[r].locked
      BY <1>1 DEF Req, PC
    <2>2. req' = [req EXCEPT ![r] = q]
      BY <1>6 DEF RotateRejected, Goto, IInv, TypeOK
    <2> HIDE DEF q
    <2>3. ReqInv(rows, active, q)
      BY <1>1, <1>6, <2>1 DEF ReqInv, RotateRejected, At
    <2> QED
      BY <1>2, <1>6, <2>1, <2>2, <2>3, MoveKeepsIInv DEF RotateRejected, Goto
  <1>7. ASSUME RotateFails(r) PROVE IInv'
    BY <1>7, FailKeepsIInv DEF RotateFails
  <1>8. ASSUME classifyRejected(r) PROVE IInv'
    <2> DEFINE t == req[r].token
    <2>1. Known(rows, t)
      BY <1>1, <1>8 DEF classifyRejected, At, ReqInv
    <2>2. UNCHANGED <<rows, held, active, clock, faults>>
      BY <1>8 DEF classifyRejected
    <2>3. CASE Finish(r, "invalid_token") /\ (Present(rows, t) => ~rows[t].used)
      \* A consumed token that is gone takes its capped family with it.
      <3>1. req[r].replay =>
              /\ req[r].family = rows[t].family /\ rows[t].used /\ rows[t].st = "deleted"
        BY <1>1, <1>2, <2>1, <2>3 DEF ReqInv, Known, Present, TableInv, Row
      <3>2. rows[t].st = "deleted" /\ Capped(rows, rows[t].family)
              => Dead(rows, rows[t].family)
        BY <1>2, <2>1 DEF TableInv, DeletedTogether, Capped, Dead, Known
      <3> QED
        BY <1>2, <1>3, <2>1, <2>2, <2>3, <3>1, <3>2, FinishKeepsIInv
           DEF EndsSession, Denials, IInv, TypeOK
    <2>4. CASE \E o \in {"reused", "invalid_token"} : RevokeThen(r, rows[t].family, o)
      BY <1>3, <2>1, <2>2, <2>4, RevokeThenKeepsIInv DEF Outcome
    <2> QED
      BY <1>8, <2>3, <2>4 DEF classifyRejected
  <1>9. ASSUME ClassifyFails(r) PROVE IInv'
    BY <1>9, FailKeepsIInv DEF ClassifyFails
  <1>10. ASSUME activeSessionUser(r) PROVE IInv'
    <2>1. /\ Known(rows, req[r].child) /\ req[r].user \in User /\ req[r].family \in Family
          /\ ~req[r].replay
          /\ req[r].locked => ~active[req[r].user]
      BY <1>1, <1>10 DEF activeSessionUser, At, ReqInv
    <2>2. UNCHANGED <<rows, held, active, clock, faults>>
      BY <1>10 DEF activeSessionUser
    <2>3. CASE active[req[r].user] /\ Goto(r, "authorize")
      <3> DEFINE q == [req[r] EXCEPT !.pc = "authorize"]
      <3>1. /\ q \in Req /\ q.pc = "authorize" /\ q.child = req[r].child
            /\ q.user = req[r].user /\ q.family = req[r].family
            /\ q.replay = req[r].replay /\ q.locked = req[r].locked
        BY <1>1 DEF Req, PC
      <3>2. req' = [req EXCEPT ![r] = q]
        BY <2>3 DEF Goto, IInv, TypeOK
      <3> HIDE DEF q
      <3>3. ReqInv(rows, active, q)
        BY <1>1, <1>10, <2>1, <2>3, <3>1 DEF ReqInv, activeSessionUser, At
      <3> QED
        BY <1>2, <2>2, <2>3, <3>1, <3>2, <3>3, MoveKeepsIInv DEF Goto
    <2>4. CASE RevokeThen(r, rows[req[r].child].family, "user_inactive")
      BY <1>1, <1>3, <1>10, <2>1, <2>2, <2>4, RevokeThenKeepsIInv
         DEF Outcome, ReqInv, activeSessionUser, At
    <2> QED
      BY <1>10, <2>3, <2>4 DEF activeSessionUser
  <1>11. ASSUME UserLookupFails(r) PROVE IInv'
    BY <1>1, <1>11, FailKeepsIInv DEF UserLookupFails, At, ReqInv
  <1>12. ASSUME Authorize(r) PROVE IInv'
    <2>1. Known(rows, req[r].child) /\ ~req[r].replay /\ ~req[r].locked
      BY <1>1, <1>12 DEF Authorize, At, ReqInv
    <2>2. UNCHANGED <<rows, active, clock, faults>>
      BY <1>12 DEF Authorize
    <2>3. CASE held' = held \cup {req[r].child} /\ Finish(r, "granted")
      <3>1. held' \subseteq Token /\ \A t \in held' \ held : Known(rows, t)
        BY <2>1, <2>3 DEF IInv, TypeOK, Known
      <3> QED
        BY <1>2, <2>1, <2>2, <2>3, <3>1, FinishKeepsIInv DEF EndsSession, Denials
    <2>4. CASE /\ \E o \in {"invalid_grant", "issue_failed"} :
                    RevokeThen(r, rows[req[r].child].family, o)
               /\ UNCHANGED held
      BY <1>3, <2>1, <2>2, <2>4, RevokeThenKeepsIInv DEF Outcome
    <2> QED
      BY <1>12, <2>3, <2>4 DEF Authorize
  <1> QED
    BY <1>4, <1>5, <1>6, <1>7, <1>8, <1>9, <1>10, <1>11, <1>12

\* The revocation every handler may end with.
LEMMA RevokeSteps ==
    ASSUME IInv, NEW r \in Request
    PROVE  /\ RevokeFamily(r) => IInv'
           /\ RevokeFamilyFails(r) => IInv'
  <1>1. At(r, "revoke") => /\ ReqInv(rows, active, req[r])
                           /\ req[r].family \in Family
                           /\ FamilyStarted(rows, req[r].family)
    BY DEF IInv, ReqInv, At
  <1>2. ASSUME RevokeFamily(r) PROVE IInv'
    <2> DEFINE f == req[r].family
    <2>1. f \in Family /\ FamilyStarted(rows, f)
      BY <1>1, <1>2 DEF RevokeFamily
    <2>2. TableInv(rows') /\ Grows(rows, rows') /\ Dead(rows', f)
      BY <1>2, RevokeFamilyKeepsTable, RevokeFamilyGrows DEF RevokeFamily, IInv
    <2>3. FamilyStarted(rows', f)
      BY <2>1, <2>2 DEF Grows
    <2>4. req[r].outcome # "granted"
      BY <1>2 DEF RevokeFamily, At, IInv, ReqInv
    <2> QED
      BY <1>2, <2>1, <2>2, <2>3, <2>4, FinishKeepsIInv DEF RevokeFamily, IInv, TypeOK
  <1>3. ASSUME RevokeFamilyFails(r) PROVE IInv'
    BY <1>3, FailKeepsIInv
  <1> QED
    BY <1>2, <1>3

\* Login and logout.
LEMMA SessionSteps ==
    ASSUME IInv, NEW r \in Request
    PROVE  /\ \A u \in User : BeginLogin(r, u) => IInv'
           /\ Issue(r) => IInv'
           /\ IssueFails(r) => IInv'
           /\ \A t \in Token : BeginLogout(r, t) => IInv'
           /\ LogoutLookup(r) => IInv'
           /\ LogoutLookupFails(r) => IInv'
  <1>1. req[r] \in Req /\ ReqInv(rows, active, req[r])
    BY DEF IInv, TypeOK
  <1>2. TableInv(rows) /\ Grows(rows, rows) /\ active \in [User -> BOOLEAN]
    BY GrowsRefl DEF IInv, TypeOK
  <1>3. ASSUME NEW u \in User, BeginLogin(r, u) PROVE IInv'
    <2> DEFINE q == [NoReq EXCEPT !.pc = "issue", !.user = u, !.now = clock]
    <2>1. q \in Req /\ ReqInv(rows, active, q)
      BY DEF Req, NoReq, PC, Outcome, ReqInv, IInv, TypeOK
    <2>2. req' = [req EXCEPT ![r] = q]
      BY <1>3 DEF BeginLogin
    <2> HIDE DEF q
    <2> QED
      BY <1>2, <1>3, <2>1, <2>2, MoveKeepsIInv DEF BeginLogin
  <1>4. ASSUME Issue(r) PROVE IInv'
    <2>1. PICK t \in Token, f \in Family, s \in Service, m \in MaxAges,
               now \in req[r].now .. clock :
            /\ rows[t].st = "none"
            /\ ~FamilyStarted(rows, f)
            /\ rows' = InsertRefreshToken(rows, t, newRootToken(req[r].user, s, f, m, now))
            /\ held' = held \cup {t}
            /\ Finish(r, "issued")
      BY <1>4 DEF Issue
    <2>2. req[r].user \in User /\ ~req[r].replay /\ now \in Nat
      BY <1>1, <1>4, <2>1 DEF Issue, At, ReqInv, IInv, TypeOK, Req
    <2>3. TableInv(rows') /\ Grows(rows, rows')
      BY <1>2, <2>1, <2>2, InsertRootKeepsTable, InsertRootGrows
    <2>4. rows'[t].st = "present"
      BY <2>1, <1>2 DEF InsertRefreshToken, newRootToken, TableInv
    <2>5. held' \subseteq Token /\ \A x \in held' \ held : Known(rows', x)
      BY <2>1, <2>4 DEF Known, IInv, TypeOK
    <2>6. UNCHANGED <<active, clock, faults>>
      BY <1>4 DEF Issue
    <2> QED
      BY <2>1, <2>2, <2>3, <2>5, <2>6, FinishKeepsIInv DEF EndsSession, Denials
  <1>5. ASSUME IssueFails(r) PROVE IInv'
    BY <1>5, FailKeepsIInv DEF IssueFails
  <1>6. ASSUME NEW t \in Token, BeginLogout(r, t) PROVE IInv'
    <2> DEFINE q == [NoReq EXCEPT !.pc = "logout", !.token = t]
    <2>1. Known(rows, t)
      BY <1>6 DEF BeginLogout, IInv
    <2>2. q \in Req /\ ReqInv(rows, active, q)
      BY <2>1 DEF Req, NoReq, PC, Outcome, ReqInv
    <2>3. req' = [req EXCEPT ![r] = q]
      BY <1>6 DEF BeginLogout
    <2> HIDE DEF q
    <2> QED
      BY <1>2, <1>6, <2>2, <2>3, MoveKeepsIInv DEF BeginLogout
  <1>7. ASSUME LogoutLookup(r) PROVE IInv'
    <2> DEFINE t == req[r].token
    <2>1. Known(rows, t) /\ ~req[r].replay
      BY <1>1, <1>7 DEF LogoutLookup, At, ReqInv
    <2>2. UNCHANGED <<rows, held, active, clock, faults>>
      BY <1>7 DEF LogoutLookup
    <2>3. rows[t].family \in Family /\ FamilyStarted(rows, rows[t].family)
      BY <1>2, <2>1 DEF Known, TableInv, RowShape, FamilyStarted
    <2>4. CASE Finish(r, "logout_unknown")
      BY <1>2, <2>1, <2>2, <2>4, FinishKeepsIInv DEF EndsSession, Denials, IInv, TypeOK
    <2>5. CASE \E o \in {"logged_out", "logout_repeated"} : RevokeThen(r, rows[t].family, o)
      BY <2>1, <2>2, <2>3, <2>5, RevokeThenKeepsIInv DEF Outcome
    <2> QED
      BY <1>7, <2>4, <2>5 DEF LogoutLookup
  <1>8. ASSUME LogoutLookupFails(r) PROVE IInv'
    BY <1>8, FailKeepsIInv DEF LogoutLookupFails
  <1> QED
    BY <1>3, <1>4, <1>5, <1>6, <1>7, <1>8

\* The admin's deactivation of a user.
LEMMA DeactivateSteps ==
    ASSUME IInv, NEW r \in Request
    PROVE  /\ \A u \in User : Deactivate(r, u) => IInv'
           /\ RevokeUser(r) => IInv'
           /\ RevokeUserFails(r) => IInv'
  <1>1. ASSUME NEW u \in User, Deactivate(r, u) PROVE IInv'
    <2> DEFINE q == [NoReq EXCEPT !.pc = "revokeUser", !.user = u]
    <2>1. /\ active' \in [User -> BOOLEAN]
          /\ \A x \in User : active'[x] => active[x]
      BY <1>1 DEF Deactivate, IInv, TypeOK
    <2>2. q \in Req /\ ReqInv(rows', active', q)
      BY DEF Req, NoReq, PC, Outcome, ReqInv
    <2>3. req' = [req EXCEPT ![r] = q]
      BY <1>1 DEF Deactivate
    <2>4. TableInv(rows') /\ Grows(rows, rows')
      BY <1>1, GrowsRefl DEF Deactivate, IInv
    <2> HIDE DEF q
    <2> QED
      BY <1>1, <2>1, <2>2, <2>3, <2>4, MoveKeepsIInv DEF Deactivate
  <1>2. ASSUME RevokeUser(r) PROVE IInv'
    <2>1. TableInv(rows') /\ Grows(rows, rows')
      BY <1>2, RevokeUserKeepsTable, RevokeUserGrows DEF RevokeUser, IInv
    <2>2. ~req[r].replay
      BY <1>2 DEF RevokeUser, At, IInv, ReqInv
    <2> QED
      BY <1>2, <2>1, <2>2, FinishKeepsIInv DEF RevokeUser, EndsSession, Denials, IInv, TypeOK
  <1>3. ASSUME RevokeUserFails(r) PROVE IInv'
    BY <1>3, FailKeepsIInv DEF RevokeUserFails
  <1> QED
    BY <1>1, <1>2, <1>3

\* A step of somebody else: an admin, cleanup, or another component that shares
\* the table.
LEMMA OutsideStepKeepsIInv ==
    ASSUME IInv, TableInv(rows'), Grows(rows, rows'), clock' \in Nat, faults' \in Nat,
           held' \subseteq Token, \A t \in held' \ held : Known(rows', t),
           UNCHANGED <<active, req, hist>>
    PROVE  IInv'
  <1>1. TypeOK'
    BY DEF IInv, TypeOK, TableInv
  <1>2. HistInv(rows', hist')
    BY HistInvStable DEF IInv, TypeOK
  <1>3. \A t \in held' : Known(rows', t)
    BY DEF IInv, Known, Grows
  <1>4. ASSUME NEW r \in Request PROVE ReqInv(rows', active', req'[r])
    <2>1. req[r] \in Req /\ ReqInv(rows, active, req[r])
      BY DEF IInv, TypeOK
    <2>2. ReqInv(rows', active, req[r])
      BY <2>1, ReqInvStable DEF IInv
    <2> QED
      BY <2>2
  <1> QED
    BY <1>1, <1>2, <1>3, <1>4 DEF IInv

\* Steps no request slot takes part in.
LEMMA BackgroundSteps ==
    ASSUME IInv
    PROVE  /\ \A u \in User : EndUserSessions(u) => IInv'
           /\ cleanRefreshTokens => IInv'
           /\ Tick => IInv'
           /\ UNCHANGED vars => IInv'
  <1>1. ASSUME NEW u \in User, EndUserSessions(u) PROVE IInv'
    <2>1. TableInv(rows') /\ Grows(rows, rows')
      BY <1>1, RevokeUserKeepsTable, RevokeUserGrows DEF EndUserSessions, IInv
    <2> QED
      BY <1>1, <2>1, OutsideStepKeepsIInv DEF EndUserSessions, IInv, TypeOK
  <1>2. ASSUME cleanRefreshTokens PROVE IInv'
    <2>1. TableInv(rows') /\ Grows(rows, rows')
      BY <1>2, DeleteKeepsTable, DeleteGrows DEF cleanRefreshTokens, IInv, TypeOK
    <2> QED
      BY <1>2, <2>1, OutsideStepKeepsIInv DEF cleanRefreshTokens, IInv, TypeOK
  <1>3. ASSUME Tick PROVE IInv'
    BY <1>3, GrowsRefl, OutsideStepKeepsIInv DEF Tick, IInv, TypeOK
  <1>4. ASSUME UNCHANGED vars PROVE IInv'
    BY <1>4, GrowsRefl, OutsideStepKeepsIInv DEF vars, IInv, TypeOK
  <1> QED
    BY <1>1, <1>2, <1>3, <1>4

-----------------------------------------------------------------------------
(* The theorems *)

\* The empty table and idle handlers satisfy the inductive invariant.
LEMMA InitIInv == Init => IInv
  <1> SUFFICES ASSUME Init PROVE IInv
    OBVIOUS
  <1>1. NoRow \in Row
    BY DEF NoRow, Row
  <1>2. rows \in [Token -> Row] /\ \A t \in Token : rows[t] = NoRow
    BY <1>1 DEF Init
  <1>3. TableInv(rows)
    BY <1>2 DEF TableInv, RowShape, SingleLive, SameFamilyData, RevokedTogether, OneChild,
                CapRespected, DeletedTogether, Siblings, Present, NoRow
  <1>4. \A r \in Request : req[r] \in Req /\ ReqInv(rows, active, req[r])
    BY NoReqInv DEF Init
  <1>5. TypeOK
    BY <1>2, <1>4 DEF Init, TypeOK, NoHist, Hist
  <1> QED
    BY <1>3, <1>4, <1>5 DEF IInv, Init, HistInv, NoHist

\* Every step of every handler, of the admin and of cleanup keeps it.
LEMMA NextIInv == IInv /\ [Next]_vars => IInv'
  <1> SUFFICES ASSUME IInv, [Next]_vars PROVE IInv'
    OBVIOUS
  <1>1. ASSUME NEW r \in Request, ServerStep(r) PROVE IInv'
    BY <1>1, RefreshSteps, RevokeSteps, SessionSteps, DeactivateSteps DEF ServerStep
  <1>2. CASE EnvironmentStep
    BY <1>2, RefreshSteps, SessionSteps, DeactivateSteps, BackgroundSteps DEF EnvironmentStep
  <1>3. CASE cleanRefreshTokens
    BY <1>3, BackgroundSteps
  <1>4. CASE UNCHANGED vars
    BY <1>4, BackgroundSteps
  <1> QED
    BY <1>1, <1>2, <1>3, <1>4 DEF Next

\* The inductive invariant holds in every reachable state.
THEOREM InductiveInvariant == Spec => []IInv
  BY InitIInv, NextIInv, PTL DEF Spec

\* No handler ever stores a column or a variable outside its type, the NULLs of
\* user_id, family_id and family_expires_at included.
THEOREM TypeCorrect == Spec => []TypeOK
  <1>1. IInv => TypeOK
    BY DEF IInv
  <1> QED
    BY <1>1, InductiveInvariant, PTL

\* Concurrent refreshes never leave two unconsumed rows in a family (Rotate).
THEOREM AtMostOneLiveToken == Spec => []SingleLiveToken
  <1>1. IInv => SingleLiveToken
    BY DEF IInv, TableInv, SingleLiveToken
  <1> QED
    BY <1>1, InductiveInvariant, PTL

\* RevokeFamily and RevokeUserRefreshTokens take a family as a whole, whatever
\* rotation is in flight.
THEOREM FamilyIsAUnit == Spec => []FamilyMovesTogether
  <1>1. IInv => FamilyMovesTogether
    BY DEF IInv, TableInv, FamilyMovesTogether
  <1> QED
    BY <1>1, InductiveInvariant, PTL

\* GetRefreshChild has at most one row to find, also after cleanup.
THEOREM AtMostOneChild == Spec => []OneChildPerToken
  <1>1. IInv => OneChildPerToken
    BY DEF IInv, TableInv, OneChildPerToken
  <1> QED
    BY <1>1, InductiveInvariant, PTL

\* A replay of a consumed token that met no failing statement leaves a family
\* with an absolute end dead (classifyRejected, handleReuse).
THEOREM ReplayIsFatal == Spec => []ReplayKillsFamily
  <1>1. IInv => ReplayKillsFamily
    BY DEF IInv, HistInv, ReplayKillsFamily
  <1> QED
    BY <1>1, InductiveInvariant, PTL

\* No refresh that starts after HandleDeactivate committed yields tokens.
THEOREM DeactivationLocksOut == Spec => []DeactivatedUserLockedOut
  <1>1. IInv => DeactivatedUserLockedOut
    BY DEF IInv, HistInv, DeactivatedUserLockedOut
  <1> QED
    BY <1>1, InductiveInvariant, PTL

\* No step undoes what Grows protects.
LEMMA NextGrows == IInv /\ [Next]_vars => Grows(rows, rows')
  <1> SUFFICES ASSUME IInv, [Next]_vars PROVE Grows(rows, rows')
    OBVIOUS
  <1>1. TableInv(rows) /\ clock \in Nat
    BY DEF IInv, TypeOK
  <1>2. CASE UNCHANGED rows
    BY <1>2, GrowsRefl
  <1>3. ASSUME NEW r \in Request, Rotate(r) PROVE Grows(rows, rows')
    <2>1. req[r].token \in Token /\ req[r].now \in Nat
      BY <1>3 DEF Rotate, At, IInv, TypeOK, Req, ReqInv, Known
    <2> QED
      BY <1>1, <1>3, <2>1, RotateGrows DEF Rotate
  <1>4. ASSUME NEW r \in Request, RevokeFamily(r) PROVE Grows(rows, rows')
    BY <1>1, <1>4, RevokeFamilyGrows DEF RevokeFamily
  <1>5. ASSUME NEW r \in Request, Issue(r) PROVE Grows(rows, rows')
    <2>1. req[r].user \in User /\ req[r].now .. clock \subseteq Nat
      BY <1>5 DEF Issue, At, IInv, ReqInv, TypeOK, Req
    <2> QED
      BY <1>1, <1>5, <2>1, InsertRootGrows DEF Issue
  <1>6. ASSUME NEW r \in Request, RevokeUser(r) PROVE Grows(rows, rows')
    BY <1>1, <1>6, RevokeUserGrows DEF RevokeUser
  <1>7. ASSUME NEW u \in User, EndUserSessions(u) PROVE Grows(rows, rows')
    BY <1>1, <1>7, RevokeUserGrows DEF EndUserSessions
  <1>8. CASE cleanRefreshTokens
    BY <1>1, <1>8, DeleteGrows DEF cleanRefreshTokens
  <1>9. ASSUME NEW r \in Request, ServerStep(r) PROVE Grows(rows, rows')
    BY <1>2, <1>3, <1>4, <1>5, <1>6, <1>9
       DEF ServerStep, RotateRejected, RotateFails, classifyRejected, ClassifyFails,
           activeSessionUser, UserLookupFails, Authorize, RevokeFamilyFails, IssueFails,
           LogoutLookup, LogoutLookupFails, RevokeUserFails, Fail
  <1>10. CASE EnvironmentStep
    BY <1>2, <1>7, <1>10
       DEF EnvironmentStep, BeginRefresh, BeginLogout, BeginLogin, Deactivate, Tick
  <1> QED
    BY <1>2, <1>8, <1>9, <1>10 DEF Next, vars

\* Nothing revives a family whose rows are all revoked or deleted: no rotation
\* still in flight, no later login.
THEOREM DeadForGood == Spec => DeadFamilyStaysDead
  <1>1. IInv /\ [Next]_vars =>
          [\A f \in Family : FamilyStarted(rows, f) /\ Dead(rows, f) => Dead(rows, f)']_vars
    BY NextGrows DEF Grows, Dead, Present
  <1> QED
    BY <1>1, InductiveInvariant, PTL DEF Spec, DeadFamilyStaysDead

-----------------------------------------------------------------------------
(* Denials: an answer that ends the session although the revocation failed *)

\* A row the next rotation of its family would consume.
Unused(tab, t) == Present(tab, t) /\ ~tab[t].used

\* The handler has a child that no response has carried yet.
Carries(q) ==
    q.pc \in {"user", "authorize"} \/ (q.pc = "revoke" /\ q.outcome \in Denials)

\* Only a token that has left the server is presented.
PresentedIsHeld == \A r \in Request : At(r, "rotate") => req[r].token \in held

\* A child under way is its handler's own, and its family has no other row left
\* to rotate.
CarriedChild(r) ==
    /\ Known(rows, req[r].child) /\ req[r].child \notin held
    /\ req[r].pc = "revoke" => req[r].family = rows[req[r].child].family
    /\ \A t \in Token :
         Unused(rows, t) /\ rows[t].family = rows[req[r].child].family => t = req[r].child
    /\ \A s \in Request : Carries(req[s]) /\ req[s].child = req[r].child => s = r

CarriedChildren == \A r \in Request : Carries(req[r]) => CarriedChild(r)

\* What is left to rotate in a denied family nobody has, or will be sent.
DeniedUnheld ==
    \A f \in hist.denied :
        /\ FamilyStarted(rows, f)
        /\ \A t \in Token : Unused(rows, t) /\ rows[t].family = f =>
             t \notin held /\ \A r \in Request : Carries(req[r]) => req[r].child # t

DenialInv == PresentedIsHeld /\ CarriedChildren /\ DeniedUnheld

\* A step that sends no token, makes no row to rotate and starts no child.
LEMMA QuietKeepsDenial ==
    ASSUME IInv, DenialInv, Grows(rows, rows'), UNCHANGED held, hist'.denied = hist.denied,
           \A t \in Token : Unused(rows', t) => Unused(rows, t),
           \A s \in Request : req'[s].pc = "rotate" => req'[s].token \in held,
           \A s \in Request : Carries(req'[s]) =>
              /\ Carries(req[s]) /\ req'[s].child = req[s].child
              /\ req'[s].pc = "revoke" => req'[s].family = rows[req[s].child].family
    PROVE  DenialInv'
  <1>1. \A t : Known(rows, t) => Known(rows', t) /\ rows'[t].family = rows[t].family
    BY DEF Known, Grows
  <1>2. \A t \in Token : Unused(rows', t) => Known(rows, t) /\ Unused(rows, t)
    BY DEF Unused, Known, Present
  <1>3. PresentedIsHeld'
    BY DEF PresentedIsHeld, At
  <1>4. CarriedChildren'
    <2> SUFFICES ASSUME NEW r \in Request, Carries(req'[r]) PROVE CarriedChild(r)'
      BY DEF CarriedChildren
    <2>1. CarriedChild(r) /\ req'[r].child = req[r].child
      BY DEF DenialInv, CarriedChildren
    <2> QED
      BY <2>1, <1>1, <1>2 DEF CarriedChild
  <1>5. DeniedUnheld'
    <2>1. hist.denied \subseteq Family
      BY DEF IInv, TypeOK, Hist
    <2>2. \A f \in hist.denied : FamilyStarted(rows', f)
      BY <2>1 DEF DenialInv, DeniedUnheld, Grows
    <2> QED
      BY <2>2, <1>1, <1>2 DEF DenialInv, DeniedUnheld
  <1> QED
    BY <1>3, <1>4, <1>5 DEF DenialInv

\* Nor does the end of a request whose statement failed, a denial included: the
\* child it leaves behind was its own.
LEMMA FailKeepsDenial ==
    ASSUME IInv, DenialInv, NEW r \in Request, Fail(r) \/ RevokeFamilyFails(r)
    PROVE  DenialInv'
  <1>1. /\ req'[r] = NoReq /\ ~Carries(NoReq) /\ NoReq.pc # "rotate"
        /\ \A s \in Request \ {r} : req'[s] = req[s]
    BY DEF IInv, TypeOK, Fail, RevokeFamilyFails, Carries, NoReq
  <1>2. UNCHANGED <<rows, held>>
    BY DEF Fail, RevokeFamilyFails
  <1>3. CASE hist'.denied = hist.denied
    BY <1>1, <1>2, <1>3, GrowsRefl, QuietKeepsDenial
       DEF DenialInv, PresentedIsHeld, CarriedChildren, CarriedChild, At
  <1>4. CASE /\ hist'.denied = hist.denied \cup {req[r].family}
             /\ At(r, "revoke") /\ req[r].outcome \in Denials
    <2>1. Carries(req[r]) /\ CarriedChild(r) /\ req[r].pc = "revoke"
      BY <1>4 DEF At, Carries, DenialInv, CarriedChildren
    <2>2. FamilyStarted(rows, req[r].family)
      BY <1>4 DEF At, IInv, ReqInv
    <2>3. PresentedIsHeld'
      BY <1>1, <1>2 DEF DenialInv, PresentedIsHeld, At
    <2>4. CarriedChildren'
      <3> SUFFICES ASSUME NEW s \in Request, Carries(req'[s]) PROVE CarriedChild(s)'
        BY DEF CarriedChildren
      <3>1. s # r /\ req'[s] = req[s] /\ CarriedChild(s)
        BY <1>1 DEF DenialInv, CarriedChildren
      <3> QED
        BY <3>1, <1>1, <1>2 DEF CarriedChild
    <2>5. \A t \in Token : Unused(rows, t) /\ rows[t].family = req[r].family =>
             t \notin held /\ \A s \in Request : Carries(req'[s]) => req'[s].child # t
      BY <1>1, <2>1 DEF CarriedChild
    <2>6. DeniedUnheld'
      BY <1>1, <1>2, <1>4, <2>2, <2>5 DEF DenialInv, DeniedUnheld
    <2> QED
      BY <2>3, <2>4, <2>6 DEF DenialInv
  <1>5. hist \in Hist
    BY DEF IInv, TypeOK
  <1> QED
    BY <1>3, <1>4, <1>5 DEF Fail, RevokeFamilyFails, Hist

\* A rotation makes the one row its family has left, out of a row it had.
LEMMA RotateKeepsDenial ==
    ASSUME IInv, DenialInv, NEW r \in Request, Rotate(r)
    PROVE  DenialInv'
  <1> DEFINE t == req[r].token
  <1>1. /\ Known(rows, t) /\ t \in held /\ req[r].now \in Nat /\ TableInv(rows)
        /\ Consumable(rows, t, req[r].now) /\ Unused(rows, t)
    BY DEF Rotate, At, IInv, TypeOK, Req, ReqInv, DenialInv, PresentedIsHeld, Consumable, Unused
  <1>2. PICK c \in Token :
          /\ rows[c].st = "none"
          /\ rows' = InsertRefreshToken(ConsumeRefreshToken(rows, t), c,
                                        childOf(rows, t, req[r].now))
          /\ req' = [req EXCEPT ![r].pc = "user", ![r].child = c, ![r].user = rows[t].user]
    BY DEF Rotate
  <1>3. /\ UNCHANGED <<held, hist>>
        /\ req'[r].pc = "user" /\ req'[r].child = c
        /\ \A s \in Request \ {r} : req'[s] = req[s]
    BY <1>2 DEF Rotate, IInv, TypeOK, Req
  <1>4. Grows(rows, rows')
    BY <1>1, <1>2, RotateGrows DEF Known
  <1>5. /\ rows'[c].family = rows[t].family /\ rows'[c].st = "present" /\ c # t
        /\ rows'[t].used
        /\ \A x \in Token : x # t /\ x # c => rows'[x] = rows[x]
    BY <1>1, <1>2 DEF InsertRefreshToken, ConsumeRefreshToken, childOf, TableInv, Row, Known
  <1> HIDE DEF t
  <1>6. \A x \in Token : Unused(rows', x) /\ x # c =>
          Unused(rows, x) /\ rows'[x].family = rows[x].family
    BY <1>5 DEF Unused, Present
  <1>7. \A x : Known(rows, x) =>
          x # c /\ Known(rows', x) /\ rows'[x].family = rows[x].family
    BY <1>2, <1>4 DEF Known, Grows
  <1>8. PresentedIsHeld'
    BY <1>3 DEF DenialInv, PresentedIsHeld, At
  <1>9. CarriedChild(r)'
    <2>1. Known(rows', c) /\ c \notin held
      BY <1>2, <1>5 DEF Known, IInv
    <2>2. \A x \in Token : Unused(rows', x) /\ rows'[x].family = rows[t].family => x = c
      BY <1>1, <1>5, <1>6 DEF TableInv, SingleLive, Siblings, Unused, Known
    <2>3. \A s \in Request : Carries(req'[s]) /\ req'[s].child = c => s = r
      BY <1>3, <1>7 DEF DenialInv, CarriedChildren, CarriedChild
    <2> QED
      BY <1>3, <1>5, <2>1, <2>2, <2>3 DEF CarriedChild
  <1>10. ASSUME NEW s \in Request, s # r, Carries(req[s]) PROVE CarriedChild(s)'
    <2>1. CarriedChild(s) /\ req'[s] = req[s] /\ req[s].child # c
      BY <1>3, <1>7, <1>10 DEF DenialInv, CarriedChildren, CarriedChild
    <2>2. rows[t].family # rows[req[s].child].family
      BY <1>1, <2>1 DEF CarriedChild, Known
    <2>3. \A x \in Token : Unused(rows', x) /\ rows'[x].family = rows[req[s].child].family
            => x = req[s].child
      BY <1>5, <1>6, <2>1, <2>2 DEF CarriedChild
    <2>4. Known(rows', req[s].child) /\ rows'[req[s].child].family = rows[req[s].child].family
      BY <1>7, <2>1 DEF CarriedChild
    <2>5. \A x \in Request : Carries(req'[x]) /\ req'[x].child = req[s].child => x = s
      BY <1>3, <2>1 DEF CarriedChild
    <2> QED
      BY <1>3, <2>1, <2>3, <2>4, <2>5 DEF CarriedChild
  <1>11. DeniedUnheld'
    <2>1. hist.denied \subseteq Family /\ hist' = hist
      BY <1>3 DEF IInv, TypeOK, Hist
    <2>2. rows[t].family \notin hist.denied
      BY <1>1 DEF DenialInv, DeniedUnheld, Known
    <2>3. \A f \in hist.denied : FamilyStarted(rows', f)
      BY <1>4, <2>1 DEF DenialInv, DeniedUnheld, Grows
    <2> QED
      BY <1>3, <1>5, <1>6, <2>1, <2>2, <2>3 DEF DenialInv, DeniedUnheld
  <1> QED
    BY <1>3, <1>8, <1>9, <1>10, <1>11 DEF DenialInv, CarriedChildren

\* The response carries a child that no denial has left behind.
LEMMA GrantKeepsDenial ==
    ASSUME IInv, DenialInv, NEW r \in Request, At(r, "authorize"),
           held' = held \cup {req[r].child}, Finish(r, "granted"), UNCHANGED rows
    PROVE  DenialInv'
  <1>1. /\ req'[r] = NoReq /\ ~Carries(NoReq) /\ NoReq.pc # "rotate"
        /\ \A s \in Request \ {r} : req'[s] = req[s]
    BY DEF IInv, TypeOK, Finish, Carries, NoReq
  <1>2. hist'.denied = hist.denied
    BY DEF IInv, TypeOK, Finish, Hist
  <1>3. Carries(req[r]) /\ CarriedChild(r)
    BY DEF At, Carries, DenialInv, CarriedChildren
  <1>4. PresentedIsHeld'
    BY <1>1 DEF DenialInv, PresentedIsHeld, At
  <1>5. CarriedChildren'
    <2> SUFFICES ASSUME NEW s \in Request, Carries(req'[s]) PROVE CarriedChild(s)'
      BY DEF CarriedChildren
    <2>1. s # r /\ req'[s] = req[s] /\ CarriedChild(s) /\ Carries(req[s])
      BY <1>1 DEF DenialInv, CarriedChildren
    <2>2. req[s].child # req[r].child
      BY <1>3, <2>1 DEF CarriedChild
    <2> QED
      BY <2>1, <2>2, <1>1 DEF CarriedChild
  <1>6. DeniedUnheld'
    BY <1>1, <1>2, <1>3 DEF DenialInv, DeniedUnheld
  <1> QED
    BY <1>4, <1>5, <1>6 DEF DenialInv

\* A new family is no denied one.
LEMMA IssueKeepsDenial ==
    ASSUME IInv, DenialInv, NEW r \in Request, Issue(r)
    PROVE  DenialInv'
  <1>1. PICK t \in Token, f \in Family, s \in Service, m \in MaxAges,
             now \in req[r].now .. clock :
          /\ rows[t].st = "none"
          /\ ~FamilyStarted(rows, f)
          /\ rows' = InsertRefreshToken(rows, t, newRootToken(req[r].user, s, f, m, now))
          /\ held' = held \cup {t}
          /\ Finish(r, "issued")
    BY DEF Issue
  <1>2. TableInv(rows) /\ req[r].user \in User /\ now \in Nat
    BY <1>1 DEF Issue, At, ReqInv, IInv, TypeOK, Req
  <1>3. /\ req'[r] = NoReq /\ ~Carries(NoReq) /\ NoReq.pc # "rotate"
        /\ \A x \in Request \ {r} : req'[x] = req[x]
    BY <1>1 DEF IInv, TypeOK, Finish, Carries, NoReq
  <1>4. hist'.denied = hist.denied /\ hist.denied \subseteq Family
    BY <1>1 DEF IInv, TypeOK, Finish, Hist
  <1>5. Grows(rows, rows')
    BY <1>1, <1>2, InsertRootGrows
  <1>6. /\ rows'[t].family = f
        /\ \A x \in Token : x # t => rows'[x] = rows[x]
        /\ \A x \in Token : rows[x].family # f
    BY <1>1, <1>2 DEF InsertRefreshToken, newRootToken, TableInv, FamilyStarted
  <1>7. PresentedIsHeld'
    BY <1>1, <1>3 DEF DenialInv, PresentedIsHeld, At
  <1>8. CarriedChildren'
    <2> SUFFICES ASSUME NEW x \in Request, Carries(req'[x]) PROVE CarriedChild(x)'
      BY DEF CarriedChildren
    <2>1. x # r /\ req'[x] = req[x] /\ CarriedChild(x)
      BY <1>3 DEF DenialInv, CarriedChildren
    <2>2. Known(rows, req[x].child) /\ req[x].child # t /\ rows'[req[x].child] = rows[req[x].child]
      BY <1>1, <1>6, <2>1 DEF CarriedChild, Known
    <2>3. \A y \in Token : Unused(rows', y) /\ rows'[y].family = rows[req[x].child].family
            => y # t /\ Unused(rows, y) /\ rows[y].family = rows[req[x].child].family
      BY <1>6, <2>2 DEF Known, Unused, Present
    <2> QED
      BY <1>1, <1>3, <2>1, <2>2, <2>3 DEF CarriedChild, Known
  <1>9. DeniedUnheld'
    <2>1. \A g \in hist.denied : FamilyStarted(rows', g) /\ g # f
      BY <1>1, <1>4, <1>5 DEF DenialInv, DeniedUnheld, Grows
    <2>2. \A g \in hist.denied, y \in Token : Unused(rows', y) /\ rows'[y].family = g
            => y # t /\ Unused(rows, y) /\ rows[y].family = g
      BY <1>6, <2>1 DEF Unused, Present
    <2> QED
      BY <1>1, <1>3, <1>4, <2>1, <2>2 DEF DenialInv, DeniedUnheld
  <1> QED
    BY <1>7, <1>8, <1>9 DEF DenialInv

\* Revocation and cleanup make no row to rotate.
LEMMA NoNewUnused ==
    ASSUME NEW tab, TableInv(tab)
    PROVE  /\ \A f, t : t \in Token /\ Unused(RevokeFamilyTokens(tab, f), t) => Unused(tab, t)
           /\ \A u, t : t \in Token /\ Unused(RevokeUserRefreshTokens(tab, u), t) => Unused(tab, t)
           /\ \A t \in Token : Unused(DeleteExpiredRefreshTokens(tab, clock), t) => Unused(tab, t)
  <1>1. \A f, t : t \in Token /\ Unused(RevokeFamilyTokens(tab, f), t) => Unused(tab, t)
    BY DEF Unused, Present, RevokeFamilyTokens, TableInv, Row
  <1>2. \A u, t : t \in Token /\ Unused(RevokeUserRefreshTokens(tab, u), t) => Unused(tab, t)
    BY DEF Unused, Present, RevokeUserRefreshTokens, TableInv, Row
  <1>3. \A t \in Token : /\ DeleteExpiredRefreshTokens(tab, clock)[t].used = tab[t].used
                         /\ DeleteExpiredRefreshTokens(tab, clock)[t].st = "present"
                              => tab[t].st = "present"
    BY DEF DeleteExpiredRefreshTokens, TableInv, Row
  <1> QED
    BY <1>1, <1>2, <1>3 DEF Unused, Present

\* The other steps of a handler: what it carries stays with it.
LEMMA MoveKeepsDenial ==
    ASSUME IInv, DenialInv, [Next]_vars, NEW r \in Request, UNCHANGED held,
           hist'.denied = hist.denied,
           \A t \in Token : Unused(rows', t) => Unused(rows, t),
           \A s \in Request \ {r} : req'[s] = req[s],
           req'[r].pc = "rotate" => req'[r].token \in held,
           Carries(req'[r]) =>
              /\ Carries(req[r]) /\ req'[r].child = req[r].child
              /\ req'[r].pc = "revoke" => req'[r].family = rows[req[r].child].family
    PROVE  DenialInv'
  <1>1. Grows(rows, rows')
    BY NextGrows
  <1>2. \A s \in Request : req'[s].pc = "rotate" => req'[s].token \in held
    BY DEF DenialInv, PresentedIsHeld, At
  <1>3. \A s \in Request : Carries(req'[s]) =>
          /\ Carries(req[s]) /\ req'[s].child = req[s].child
          /\ req'[s].pc = "revoke" => req'[s].family = rows[req[s].child].family
    BY DEF DenialInv, CarriedChildren, CarriedChild
  <1> QED
    BY <1>1, <1>2, <1>3, QuietKeepsDenial

\* Every step keeps it.
LEMMA NextDenial == IInv /\ DenialInv /\ [Next]_vars => DenialInv'
  <1> SUFFICES ASSUME IInv, DenialInv, [Next]_vars PROVE DenialInv'
    OBVIOUS
  <1>1. /\ TableInv(rows) /\ hist \in Hist /\ req \in [Request -> Req]
        /\ ~Carries(NoReq) /\ NoReq.pc # "rotate"
    BY DEF IInv, TypeOK, Carries, NoReq
  <1>2. ASSUME NEW r \in Request, NEW o, Finish(r, o), UNCHANGED held,
               \A t \in Token : Unused(rows', t) => Unused(rows, t)
        PROVE  DenialInv'
    <2>1. /\ hist'.denied = hist.denied /\ req'[r] = NoReq
          /\ \A s \in Request \ {r} : req'[s] = req[s]
      BY <1>1, <1>2 DEF Finish, Hist
    <2> QED
      BY <1>1, <1>2, <2>1, MoveKeepsDenial
  <1>3. ASSUME NEW r \in Request, NEW f, NEW o, RevokeThen(r, f, o), UNCHANGED <<rows, held>>,
               o \in Denials => Carries(req[r]) /\ f = rows[req[r].child].family
        PROVE  DenialInv'
    <2>1. /\ hist'.denied = hist.denied
          /\ req'[r].pc = "revoke" /\ req'[r].family = f /\ req'[r].outcome = o
          /\ req'[r].child = req[r].child
          /\ \A s \in Request \ {r} : req'[s] = req[s]
      BY <1>1, <1>3 DEF RevokeThen, Req
    <2>2. Carries(req'[r]) => o \in Denials
      BY <2>1 DEF Carries
    <2> QED
      BY <1>3, <2>1, <2>2, MoveKeepsDenial
  <1>4. ASSUME NEW r \in Request, NEW q, req' = [req EXCEPT ![r] = q], ~Carries(q),
               q.pc = "rotate" => q.token \in held, UNCHANGED <<rows, held, hist>>
        PROVE  DenialInv'
    <2>1. req'[r] = q /\ \A s \in Request \ {r} : req'[s] = req[s]
      BY <1>1, <1>4
    <2> QED
      BY <1>4, <2>1, MoveKeepsDenial
  <1>5. ASSUME NEW r \in Request, ServerStep(r) PROVE DenialInv'
    <2>1. ASSUME Fail(r) \/ RevokeFamilyFails(r) PROVE DenialInv'
      BY <2>1, FailKeepsDenial
    <2>2. CASE Rotate(r)
      BY <2>2, RotateKeepsDenial
    <2>3. CASE RotateRejected(r)
      <3>1. /\ req'[r].pc = "classify" /\ UNCHANGED <<rows, held, hist>>
            /\ \A s \in Request \ {r} : req'[s] = req[s]
        BY <1>1, <2>3 DEF RotateRejected, Goto, Req
      <3> QED
        BY <3>1, MoveKeepsDenial DEF Carries
    <2>4. CASE classifyRejected(r)
      <3>1. UNCHANGED <<rows, held>>
        BY <2>4 DEF classifyRejected
      <3>2. CASE Finish(r, "invalid_token")
        BY <1>2, <3>1, <3>2
      <3>3. CASE \E o \in {"reused", "invalid_token"} :
                    RevokeThen(r, rows[req[r].token].family, o)
        BY <1>3, <3>1, <3>3 DEF Denials
      <3> QED
        BY <2>4, <3>2, <3>3 DEF classifyRejected
    <2>5. CASE activeSessionUser(r)
      <3>1. UNCHANGED <<rows, held>> /\ Carries(req[r])
        BY <2>5 DEF activeSessionUser, At, Carries
      <3>2. CASE Goto(r, "authorize")
        <4>1. /\ req'[r].pc = "authorize" /\ req'[r].child = req[r].child
              /\ UNCHANGED hist /\ \A s \in Request \ {r} : req'[s] = req[s]
          BY <1>1, <3>2 DEF Goto, Req
        <4> QED
          BY <3>1, <4>1, MoveKeepsDenial
      <3>3. CASE RevokeThen(r, rows[req[r].child].family, "user_inactive")
        BY <1>3, <3>1, <3>3
      <3> QED
        BY <2>5, <3>2, <3>3 DEF activeSessionUser
    <2>6. CASE Authorize(r)
      <3>1. UNCHANGED rows /\ Carries(req[r]) /\ At(r, "authorize")
        BY <2>6 DEF Authorize, At, Carries
      <3>2. CASE held' = held \cup {req[r].child} /\ Finish(r, "granted")
        BY <3>1, <3>2, GrantKeepsDenial
      <3>3. CASE /\ UNCHANGED held
                 /\ \E o \in {"invalid_grant", "issue_failed"} :
                      RevokeThen(r, rows[req[r].child].family, o)
        BY <1>3, <3>1, <3>3
      <3> QED
        BY <2>6, <3>2, <3>3 DEF Authorize
    <2>7. CASE RevokeFamily(r)
      BY <1>1, <1>2, <2>7, NoNewUnused DEF RevokeFamily
    <2>8. CASE Issue(r)
      BY <2>8, IssueKeepsDenial
    <2>9. CASE LogoutLookup(r)
      <3>1. UNCHANGED <<rows, held>>
        BY <2>9 DEF LogoutLookup
      <3>2. CASE Finish(r, "logout_unknown")
        BY <1>2, <3>1, <3>2
      <3>3. CASE \E o \in {"logged_out", "logout_repeated"} :
                    RevokeThen(r, rows[req[r].token].family, o)
        BY <1>3, <3>1, <3>3 DEF Denials
      <3> QED
        BY <2>9, <3>2, <3>3 DEF LogoutLookup
    <2>10. CASE RevokeUser(r)
      BY <1>1, <1>2, <2>10, NoNewUnused DEF RevokeUser
    <2> QED
      BY <1>5, <2>1, <2>2, <2>3, <2>4, <2>5, <2>6, <2>7, <2>8, <2>9, <2>10
         DEF ServerStep, RotateFails, ClassifyFails, UserLookupFails, IssueFails,
             LogoutLookupFails, RevokeUserFails
  <1>6. ASSUME UNCHANGED <<held, req, hist>>, \A t \in Token : Unused(rows', t) => Unused(rows, t)
        PROVE  DenialInv'
    <2>1. Grows(rows, rows')
      BY NextGrows
    <2>2. \A s \in Request : req[s].pc = "rotate" => req[s].token \in held
      BY DEF DenialInv, PresentedIsHeld, At
    <2>3. \A s \in Request : Carries(req[s]) =>
            (req[s].pc = "revoke" => req[s].family = rows[req[s].child].family)
      BY DEF DenialInv, CarriedChildren, CarriedChild
    <2> QED
      BY <1>6, <2>1, <2>2, <2>3, QuietKeepsDenial
  <1>7. CASE EnvironmentStep
    <2>1. ASSUME NEW r \in Request, NEW t \in Token, BeginRefresh(r, t) PROVE DenialInv'
      <3> DEFINE q == [NoReq EXCEPT !.pc = "rotate", !.token = t, !.now = clock,
                                    !.family = rows[t].family,
                                    !.replay = rows[t].used,
                                    !.locked = ~active[rows[t].user]]
      <3>1. q.pc = "rotate" /\ q.token = t
        BY DEF NoReq
      <3>2. req' = [req EXCEPT ![r] = q] /\ t \in held /\ UNCHANGED <<rows, held, hist>>
        BY <2>1 DEF BeginRefresh
      <3> HIDE DEF q
      <3> QED
        BY <1>4, <3>1, <3>2 DEF Carries
    <2>2. ASSUME NEW r \in Request, NEW t \in Token, BeginLogout(r, t) PROVE DenialInv'
      BY <1>4, <2>2 DEF BeginLogout, NoReq, Carries
    <2>3. ASSUME NEW r \in Request, NEW u \in User, BeginLogin(r, u) PROVE DenialInv'
      BY <1>4, <2>3 DEF BeginLogin, NoReq, Carries
    <2>4. ASSUME NEW r \in Request, NEW u \in User, Deactivate(r, u) PROVE DenialInv'
      BY <1>4, <2>4 DEF Deactivate, NoReq, Carries
    <2>5. ASSUME NEW u \in User, EndUserSessions(u) PROVE DenialInv'
      BY <1>1, <1>6, <2>5, NoNewUnused DEF EndUserSessions
    <2>6. CASE Tick
      BY <1>6, <2>6 DEF Tick
    <2> QED
      BY <1>7, <2>1, <2>2, <2>3, <2>4, <2>5, <2>6 DEF EnvironmentStep
  <1>8. CASE cleanRefreshTokens
    BY <1>1, <1>6, <1>8, NoNewUnused DEF cleanRefreshTokens
  <1>9. CASE UNCHANGED vars
    BY <1>6, <1>9 DEF vars
  <1> QED
    BY <1>5, <1>7, <1>8, <1>9 DEF Next

\* After an answer that ends the session the family is dead; after a refusal
\* whose RevokeFamily failed, no token of it that any response has carried can
\* be rotated (handleRefresh's deny, activeSessionUser and IssueAccess branches).
THEOREM EndedIsDead == Spec => []EndedSessionIsDead
  <1>1. Init => DenialInv
    BY DEF Init, NoReq, NoHist, DenialInv, PresentedIsHeld, CarriedChildren, DeniedUnheld,
           Carries, At
  <1>2. Spec => []DenialInv
    BY <1>1, NextDenial, InductiveInvariant, PTL DEF Spec
  <1>3. IInv /\ DenialInv => EndedSessionIsDead
    BY DEF IInv, TypeOK, HistInv, DenialInv, DeniedUnheld, Unused, EndedSessionIsDead
  <1> QED
    BY <1>2, <1>3, InductiveInvariant, PTL

-----------------------------------------------------------------------------
(* Families implement sessions *)

\* A statement that starts no family and revives none ends sessions, or none.
LEMMA EndingStep ==
    ASSUME Grows(rows, rows'), SameFamilies(rows, rows')
    PROVE  [Sess!Next]_SessionState
  <1> DEFINE S == {f \in Family : SessionState[f] = "live" /\ Dead(rows', f)}
  <1>1. \A f \in Family : FamilyStarted(rows', f) <=> FamilyStarted(rows, f)
    BY DEF Grows, SameFamilies
  <1>2. \A f \in Family : FamilyStarted(rows, f) /\ Dead(rows, f) => Dead(rows', f)
    BY DEF Grows
  <1>3. SessionState' = [f \in Family |-> IF f \in S THEN "dead" ELSE SessionState[f]]
    BY <1>1, <1>2 DEF SessionState
  <1>4. S \in SUBSET Family /\ \A f \in S : SessionState[f] = "live"
    OBVIOUS
  <1> HIDE DEF S
  <1>5. Sess!End(S)
    BY <1>3, <1>4 DEF Sess!End
  <1> QED
    BY <1>4, <1>5 DEF Sess!Next

\* A root row starts exactly one session.
LEMMA StartingStep ==
    ASSUME TableInv(rows), NEW t \in Token, rows[t].st = "none",
           NEW f \in Family, ~FamilyStarted(rows, f), NEW u, NEW s, NEW m, NEW now,
           rows' = InsertRefreshToken(rows, t, newRootToken(u, s, f, m, now))
    PROVE  Sess!Next
  <1>1. /\ FamilyStarted(rows', f) /\ ~Dead(rows', f)
        /\ \A g \in Family : g # f =>
             /\ FamilyStarted(rows', g) <=> FamilyStarted(rows, g)
             /\ Dead(rows', g) <=> Dead(rows, g)
    BY RootStartsOneFamily
  <1>2. SessionState[f] = "unborn"
    BY DEF SessionState
  <1>3. SessionState' = [SessionState EXCEPT ![f] = "live"]
    BY <1>1 DEF SessionState
  <1> QED
    BY <1>2, <1>3 DEF Sess!Next, Sess!Start

\* Every step of RefreshTokens starts one session, ends some, or changes none.
LEMMA NextImplements == IInv /\ [Next]_vars => [Sess!Next]_SessionState
  <1> SUFFICES ASSUME IInv, [Next]_vars PROVE [Sess!Next]_SessionState
    OBVIOUS
  <1>1. TableInv(rows) /\ clock \in Nat /\ Grows(rows, rows')
    BY NextGrows DEF IInv, TypeOK
  <1>2. CASE UNCHANGED rows
    BY <1>2 DEF SessionState, FamilyStarted, Dead, Present
  <1>3. ASSUME NEW r \in Request, Rotate(r) PROVE SameFamilies(rows, rows')
    <2>1. req[r].token \in Token /\ req[r].now \in Nat
      BY <1>3 DEF Rotate, At, IInv, TypeOK, Req, ReqInv, Known
    <2> QED
      BY <1>1, <1>3, <2>1, NoNewFamilies DEF Rotate
  <1>4. ASSUME NEW r \in Request, RevokeFamily(r) PROVE SameFamilies(rows, rows')
    BY <1>1, <1>4, NoNewFamilies DEF RevokeFamily
  <1>5. ASSUME NEW r \in Request, Issue(r) PROVE Sess!Next
    BY <1>1, <1>5, StartingStep DEF Issue
  <1>6. ASSUME NEW r \in Request, RevokeUser(r) PROVE SameFamilies(rows, rows')
    BY <1>1, <1>6, NoNewFamilies DEF RevokeUser
  <1>7. ASSUME NEW u \in User, EndUserSessions(u) PROVE SameFamilies(rows, rows')
    BY <1>1, <1>7, NoNewFamilies DEF EndUserSessions
  <1>8. ASSUME cleanRefreshTokens PROVE SameFamilies(rows, rows')
    BY <1>1, <1>8, NoNewFamilies DEF cleanRefreshTokens
  <1>9. ASSUME NEW r \in Request, ServerStep(r)
        PROVE UNCHANGED rows \/ SameFamilies(rows, rows') \/ Sess!Next
    BY <1>3, <1>4, <1>5, <1>6, <1>9
       DEF ServerStep, RotateRejected, RotateFails, classifyRejected, ClassifyFails,
           activeSessionUser, UserLookupFails, Authorize, RevokeFamilyFails, IssueFails,
           LogoutLookup, LogoutLookupFails, RevokeUserFails, Fail
  <1>10. CASE EnvironmentStep
    <2>1. UNCHANGED rows \/ SameFamilies(rows, rows')
      BY <1>7, <1>10
         DEF EnvironmentStep, BeginRefresh, BeginLogout, BeginLogin, Deactivate, Tick
    <2> QED
      BY <1>1, <1>2, <2>1, EndingStep
  <1> QED
    BY <1>1, <1>2, <1>8, <1>9, <1>10, EndingStep DEF Next, vars

\* Token families implement sessions, for any number of concurrent requests.
THEOREM FamiliesImplementSessions == Spec => ImplementsSessions
  <1>1. Init => Sess!Init
    BY NoneAssumption DEF Init, Sess!Init, SessionState, FamilyStarted, NoRow
  <1> QED
    BY <1>1, NextImplements, InductiveInvariant, PTL DEF Spec, ImplementsSessions, Sess!Spec
=============================================================================
