---------------------------- MODULE RefreshTable ----------------------------
(***************************************************************************)
(* The refresh_tokens table and the SQL statements that touch it           *)
(* (internal/db/query/refresh_tokens.sql), as pure operators on a value of *)
(* the table.  Every statement is atomic: SQLite admits one writer at a    *)
(* time, so a module that uses these operators takes one step per          *)
(* statement, or one step per transaction.                                 *)
(*                                                                         *)
(* The table maps every token (its 256-bit random value, never the hash)   *)
(* to a row.  A row that was never inserted is "none", a row removed by    *)
(* the cleanup job is "deleted"; the columns of a deleted row are kept     *)
(* only so that properties can still speak about it.  SQL NULL is None.    *)
(* revoked_reason is left out: no statement reads it.                      *)
(***************************************************************************)
EXTENDS Integers

CONSTANTS
    Token,      \* opaque refresh-token values
    Family,     \* family ids
    User,       \* user ids
    Service,    \* service ids
    TTL,        \* standard lifetime of one token (30 days in the code)
    MaxAges,    \* values services.refresh_token_max_age can hold when a family starts
    None        \* SQL NULL

ASSUME TTLAssumption == TTL \in Nat
ASSUME MaxAgesAssumption == MaxAges \subseteq Nat \cup {None}
ASSUME NoneAssumption ==
    None \notin Nat /\ None \notin Token /\ None \notin Family /\ None \notin User

Row == [st: {"none", "present", "deleted"},
        user: User \cup {None}, service: Service \cup {None},
        family: Family \cup {None}, parent: Token \cup {None},
        exp: Nat, famExp: Nat \cup {None},
        used: BOOLEAN, revoked: BOOLEAN]

NoRow == [st |-> "none", user |-> None, service |-> None, family |-> None,
          parent |-> None, exp |-> 0, famExp |-> None,
          used |-> FALSE, revoked |-> FALSE]

-----------------------------------------------------------------------------
(* Reading the table *)

Present(rows, t) == rows[t].st = "present"

\* Faulty variants, for checking the properties: a WHERE clause without
\* used = 0, and one without revoked = 0.
ConsumableTwice(rows, t, now) ==
    Present(rows, t) /\ ~rows[t].revoked /\ rows[t].exp > now

ConsumableRevoked(rows, t, now) ==
    Present(rows, t) /\ ~rows[t].used /\ rows[t].exp > now

\* The WHERE clause of ConsumeRefreshToken.
Consumable(rows, t, now) ==
    /\ Present(rows, t)
    /\ ~rows[t].used
    /\ ~rows[t].revoked
    /\ rows[t].exp > now

FamilyStarted(rows, f) == \E t \in Token : rows[t].family = f

\* No row of the family can be consumed at any time: this is what revoking,
\* or deleting, all of it means.
Dead(rows, f) ==
    \A t \in Token : Present(rows, t) /\ rows[t].family = f => rows[t].revoked

\* The family has an absolute end (refresh_token_max_age was set).
Capped(rows, f) == \A t \in Token : rows[t].family = f => rows[t].famExp # None

-----------------------------------------------------------------------------
(* Building a row *)

\* Faulty variant: the nil check on familyExpStr is missing.
computeExpiresAtNoNil(now, famExp) ==
    IF famExp # None /\ famExp >= now + TTL THEN now + TTL ELSE famExp

\* min(now + 30 days, the absolute end of the family).
computeExpiresAt(now, famExp) ==
    IF famExp = None \/ famExp >= now + TTL THEN now + TTL ELSE famExp

\* The first row of a family; maxAge is the service's refresh_token_max_age.
newRootToken(u, s, f, maxAge, now) ==
    LET famExp == IF maxAge = None THEN None ELSE now + maxAge
    IN  [st |-> "present", user |-> u, service |-> s, family |-> f,
         parent |-> None, exp |-> computeExpiresAt(now, famExp), famExp |-> famExp,
         used |-> FALSE, revoked |-> FALSE]

\* The row a rotation inserts: everything but its own expiry is inherited.
childOf(rows, t, now) ==
    [st |-> "present", user |-> rows[t].user, service |-> rows[t].service,
     family |-> rows[t].family, parent |-> t,
     exp |-> computeExpiresAt(now, rows[t].famExp), famExp |-> rows[t].famExp,
     used |-> FALSE, revoked |-> FALSE]

-----------------------------------------------------------------------------
(* The statements *)

InsertRefreshToken(rows, t, row) == [rows EXCEPT ![t] = row]

ConsumeRefreshToken(rows, t) == [rows EXCEPT ![t].used = TRUE]

RevokeFamilyTokens(rows, f) ==
    [t \in Token |->
        IF Present(rows, t) /\ rows[t].family = f
        THEN [rows[t] EXCEPT !.revoked = TRUE]
        ELSE rows[t]]

RevokeUserRefreshTokens(rows, u) ==
    [t \in Token |->
        IF Present(rows, t) /\ rows[t].user = u
        THEN [rows[t] EXCEPT !.revoked = TRUE]
        ELSE rows[t]]

\* Faulty variant: cleanup looks at the row's own expiry only.
ExpiredAlone(row, now) == row.st = "present" /\ row.exp < now

Expired(row, now) ==
    /\ row.st = "present"
    /\ row.exp < now
    /\ row.famExp # None => row.famExp < now

\* parent_id is declared ON DELETE SET NULL (migration 005).
DeleteExpiredRefreshTokens(rows, now) ==
    [t \in Token |->
        [rows[t] EXCEPT
            !.st = IF Expired(rows[t], now) THEN "deleted" ELSE @,
            !.parent = IF @ # None /\ Expired(rows[@], now) THEN None ELSE @]]

-----------------------------------------------------------------------------
(* What the statements keep true of the table, whoever runs them *)

\* Tokens of one family that are still in the table.
Siblings(rows, t1, t2) ==
    /\ Present(rows, t1) /\ Present(rows, t2)
    /\ rows[t1].family = rows[t2].family

\* A row that was never inserted is empty; any other has its owner and family.
RowShape(rows) ==
    \A t \in Token :
        IF rows[t].st = "none"
        THEN rows[t] = NoRow
        ELSE rows[t].user \in User /\ rows[t].family \in Family

\* At most one row of a family has not been consumed.
SingleLive(rows) ==
    \A t1, t2 \in Token :
        Siblings(rows, t1, t2) /\ ~rows[t1].used /\ ~rows[t2].used => t1 = t2

\* Owner, service and absolute end are those of the family, for good.
SameFamilyData(rows) ==
    \A t1, t2 \in Token :
        rows[t1].st # "none" /\ rows[t2].st # "none" /\ rows[t1].family = rows[t2].family
        => /\ rows[t1].user = rows[t2].user
           /\ rows[t1].service = rows[t2].service
           /\ rows[t1].famExp = rows[t2].famExp

\* A family is revoked as a whole.
RevokedTogether(rows) ==
    \A t1, t2 \in Token : Siblings(rows, t1, t2) => rows[t1].revoked = rows[t2].revoked

\* parent_id names a consumed row of the same family that has no other child.
OneChild(rows) ==
    \A t1 \in Token : Present(rows, t1) /\ rows[t1].parent # None =>
        /\ Siblings(rows, t1, rows[t1].parent)
        /\ rows[rows[t1].parent].used
        /\ \A t2 \in Token :
             Present(rows, t2) /\ rows[t2].parent = rows[t1].parent => t1 = t2

\* No token outlives the absolute end of its family.
CapRespected(rows) ==
    \A t \in Token :
        rows[t].st # "none" /\ rows[t].famExp # None => rows[t].exp <= rows[t].famExp

\* Cleanup takes a family with an absolute end as a whole.
DeletedTogether(rows) ==
    \A t1, t2 \in Token :
        /\ rows[t1].st = "deleted" /\ rows[t1].famExp # None
        /\ rows[t1].family = rows[t2].family
        => ~Present(rows, t2)

TableInv(rows) ==
    /\ rows \in [Token -> Row]
    /\ RowShape(rows)
    /\ SingleLive(rows)
    /\ SameFamilyData(rows)
    /\ RevokedTogether(rows)
    /\ OneChild(rows)
    /\ CapRespected(rows)
    /\ DeletedTogether(rows)
=============================================================================
