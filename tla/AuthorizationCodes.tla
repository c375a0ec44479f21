------------------------- MODULE AuthorizationCodes -------------------------
(***************************************************************************)
(* OIDC authorization codes: level 0 of /dispatch issues them              *)
(* (internal/auth/dispatch.go), POST /token redeems them                   *)
(* (internal/auth/token_endpoint.go) and the hourly cleanup deletes them.  *)
(* Redeeming a code starts a refresh-token family, and presenting it again *)
(* revokes that family, so this module is composed with RefreshTokens: it  *)
(* shares the refresh_tokens table, the users, the clock and the bound on  *)
(* failing statements, and adds the authorization_codes table.             *)
(*                                                                         *)
(* A caller that presents a code either matches client_id, redirect_uri    *)
(* and PKCE verifier (verified) or does not: which of the three is wrong   *)
(* only changes an audit line.                                             *)
(***************************************************************************)
EXTENDS RefreshTokens

CONSTANTS
    Code,           \* authorization codes
    CodeRequest,    \* request slots for /dispatch and code redemption
    CodeTTL         \* lifetime of a code (60 seconds in the code)

ASSUME CodeTTLAssumption == CodeTTL \in Nat

VARIABLES
    codes,      \* the authorization_codes table
    creq,       \* what each slot is doing
    chist       \* what past answers have promised; read by properties only

codeVars == <<codes, creq, chist>>
allVars == <<vars, codeVars>>

CodeRow == [st: {"none", "present", "deleted"}, user: User \cup {None},
            service: Service \cup {None}, exp: Nat, used: BOOLEAN,
            family: Family \cup {None}]

NoCode == [st |-> "none", user |-> None, service |-> None, exp |-> 0,
           used |-> FALSE, family |-> None]

CodePC == {"idle", "insert", "lookup", "user", "sign", "redeem", "reread", "revoke"}

\* locked records, for the properties, that the code's owner was deactivated
\* when the request started.
CodeReq == [pc: CodePC, code: Code \cup {None}, verified: BOOLEAN, now: Nat,
            user: User \cup {None}, family: Family \cup {None},
            locked: BOOLEAN]

NoCodeReq == [pc |-> "idle", code |-> None, verified |-> FALSE, now |-> 0,
              user |-> None, family |-> None, locked |-> FALSE]

(***************************************************************************)
(* born: which family each redemption started; reused: families whose code *)
(* was classified as reused by a verified request that met no failure;     *)
(* lateGrant: a redemption that started after the user was deactivated     *)
(* handed out tokens.                                                      *)
(***************************************************************************)
CodeHist == [born: SUBSET (Code \X Family), reused: SUBSET Family, lateGrant: BOOLEAN]

NoCodeHist == [born |-> {}, reused |-> {}, lateGrant |-> FALSE]

CodeTypeOK ==
    /\ TypeOK
    /\ codes \in [Code -> CodeRow]
    /\ creq \in [CodeRequest -> CodeReq]
    /\ chist \in CodeHist

CodeInit ==
    /\ Init
    /\ codes = [c \in Code |-> NoCode]
    /\ creq = [k \in CodeRequest |-> NoCodeReq]
    /\ chist = NoCodeHist

-----------------------------------------------------------------------------
(* Steps of a request *)

CodeAt(k, pc) == creq[k].pc = pc

CodeGoto(k, pc) ==
    /\ creq' = [creq EXCEPT ![k].pc = pc]
    /\ UNCHANGED chist

\* Answer the client; reused is the family a reuse has revoked, if any.
CodeFinish(k, reused) ==
    /\ creq' = [creq EXCEPT ![k] = NoCodeReq]
    /\ chist' = [chist EXCEPT !.reused = @ \cup (reused \ {None})]

CodeRefuse(k) ==
    /\ CodeFinish(k, {})
    /\ UNCHANGED <<vars, codes>>

\* A statement fails; 500, or a revocation that is only audited as failed.
CodeFail(k) ==
    /\ faults < MaxFaults
    /\ faults' = faults + 1
    /\ creq' = [creq EXCEPT ![k] = NoCodeReq]
    /\ UNCHANGED <<rows, held, active, clock, req, hist, codes, chist>>

-----------------------------------------------------------------------------
(* GET /dispatch, level 0 *)

\* The access token was accepted and names an active user.
BeginDispatch(k, u) ==
    /\ CodeAt(k, "idle")
    /\ active[u]
    /\ creq' = [creq EXCEPT ![k] = [NoCodeReq EXCEPT !.pc = "insert", !.user = u,
                                                             !.now = clock]]
    /\ UNCHANGED <<vars, codes, chist>>

\* expires_at comes from a clock read before the wait for the write lock.
InsertAuthorizationCode(k) ==
    /\ CodeAt(k, "insert")
    /\ \E c \in Code, s \in Service, now \in creq[k].now .. clock :
         /\ codes[c].st = "none"
         /\ codes' = [codes EXCEPT ![c] = [NoCode EXCEPT
                        !.st = "present", !.user = creq[k].user, !.service = s,
                        !.exp = now + CodeTTL]]
    /\ CodeFinish(k, {})
    /\ UNCHANGED vars

-----------------------------------------------------------------------------
(* POST /token, grant_type=authorization_code *)

\* Any code that has been sent to a browser may be presented, again or by
\* somebody who lacks the verifier.
BeginRedeem(k, c, verified) ==
    /\ CodeAt(k, "idle")
    /\ codes[c].st # "none"
    /\ creq' = [creq EXCEPT ![k] =
                  [NoCodeReq EXCEPT !.pc = "lookup", !.code = c, !.verified = verified,
                                    !.locked = ~active[codes[c].user]]]
    /\ UNCHANGED <<vars, codes, chist>>

\* Faulty variant: reuse is acted on whoever presents the code.
rejectCodeUnverified(k, c) ==
    /\ codes[c].used
    /\ creq' = [creq EXCEPT ![k].pc = "revoke", ![k].family = codes[c].family]
    /\ UNCHANGED <<vars, codes, chist>>

\* A used code: a caller that proves the whole exchange revokes the family it
\* started, any other is refused.  A mismatch or an expired code is refused
\* and the row is left alone.
rejectCode(k, c) ==
    \/ /\ codes[c].used /\ creq[k].verified /\ codes[c].family # None
       /\ creq' = [creq EXCEPT ![k].pc = "revoke", ![k].family = codes[c].family]
       /\ UNCHANGED <<vars, codes, chist>>
    \/ /\ \/ codes[c].used /\ (creq[k].verified => codes[c].family = None)
          \/ ~codes[c].used /\ (codes[c].exp <= clock \/ ~creq[k].verified)
       /\ CodeRefuse(k)

\* The default branch of rejectCode's switch.
Redeemable(k, c) == ~codes[c].used /\ codes[c].exp > clock /\ creq[k].verified

GetAuthorizationCode(k) ==
    /\ CodeAt(k, "lookup")
    /\ LET c == creq[k].code IN
       \/ codes[c].st # "present" /\ CodeRefuse(k)
       \/ codes[c].st = "present" /\ rejectCode(k, c)
       \/ /\ codes[c].st = "present" /\ Redeemable(k, c)
          /\ creq' = [creq EXCEPT ![k].pc = "user", ![k].user = codes[c].user]
          /\ UNCHANGED <<vars, codes, chist>>

\* The service is resolved in memory, then the user is looked up by user_id.
codeSessionUser(k) ==
    /\ CodeAt(k, "user")
    /\ \/ active[creq[k].user] /\ CodeGoto(k, "sign") /\ UNCHANGED <<vars, codes>>
       \/ CodeRefuse(k)

\* Policy and signing, before anything is consumed; RedeemAuthorizationCode
\* then reads the clock and waits for the write lock.
SignTokens(k) ==
    /\ CodeAt(k, "sign")
    /\ \/ /\ creq' = [creq EXCEPT ![k].pc = "redeem", ![k].now = clock]
          /\ UNCHANGED <<vars, codes, chist>>
       \/ CodeRefuse(k)

\* Faulty variant: the WHERE clause without used = 0.
ConsumableCodeTwice(c, verified, now) ==
    codes[c].st = "present" /\ verified /\ codes[c].exp > now

\* The WHERE clause of ConsumeAuthorizationCodeChecked.
ConsumableCode(c, verified, now) ==
    codes[c].st = "present" /\ verified /\ ~codes[c].used /\ codes[c].exp > now

ConsumeAuthorizationCodeChecked(c, f) ==
    [codes EXCEPT ![c].used = TRUE, ![c].family = f]

\* One transaction: consume the code and insert the first row of its family.
RedeemAuthorizationCode(k) ==
    /\ CodeAt(k, "redeem")
    /\ LET c == creq[k].code IN
       /\ ConsumableCode(c, creq[k].verified, creq[k].now)
       /\ \E t \in Token, f \in Family, m \in MaxAges :
            /\ rows[t].st = "none"
            /\ ~FamilyStarted(rows, f)
            /\ rows' = InsertRefreshToken(rows, t,
                         newRootToken(creq[k].user, codes[c].service, f, m, creq[k].now))
            /\ codes' = ConsumeAuthorizationCodeChecked(c, f)
            /\ held' = held \cup {t}
            /\ chist' = [chist EXCEPT !.born = @ \cup {<<c, f>>},
                                      !.lateGrant = @ \/ creq[k].locked]
    /\ creq' = [creq EXCEPT ![k] = NoCodeReq]
    /\ UNCHANGED <<active, clock, faults, req, hist>>

\* sql.ErrNoRows: a lost race, a reuse or an expiry.
RedeemRejected(k) ==
    /\ CodeAt(k, "redeem")
    /\ ~ConsumableCode(creq[k].code, creq[k].verified, creq[k].now)
    /\ CodeGoto(k, "reread")
    /\ UNCHANGED <<vars, codes>>

\* The loser reads the row again and is classified like any other caller.
RereadCode(k) ==
    /\ CodeAt(k, "reread")
    /\ LET c == creq[k].code IN
       \/ codes[c].st = "present" /\ rejectCode(k, c)
       \/ (codes[c].st # "present" \/ Redeemable(k, c)) /\ CodeRefuse(k)

\* RevokeFamily(..., "authorization_code_reuse"), whatever the client does.
RevokeCodeFamily(k) ==
    /\ CodeAt(k, "revoke")
    /\ rows' = RevokeFamilyTokens(rows, creq[k].family)
    /\ CodeFinish(k, {creq[k].family})
    /\ UNCHANGED <<held, active, clock, faults, req, hist, codes>>

\* Faulty variant: the code is consumed in a transaction of its own, before
\* the refresh row is inserted.
FailAfterConsume(k) ==
    \/ /\ creq[k].pc \in {"insert", "lookup", "user", "reread", "revoke"}
       /\ CodeFail(k)
    \/ /\ CodeAt(k, "redeem")
       /\ codes[creq[k].code].st = "present" /\ ~codes[creq[k].code].used
       /\ faults < MaxFaults
       /\ faults' = faults + 1
       /\ codes' = [codes EXCEPT ![creq[k].code].used = TRUE]
       /\ creq' = [creq EXCEPT ![k] = NoCodeReq]
       /\ UNCHANGED <<rows, held, active, clock, req, hist, chist>>

\* Every statement above may fail; a failing transaction is rolled back.
CodeStatementFails(k) ==
    /\ creq[k].pc \in {"insert", "lookup", "user", "redeem", "reread", "revoke"}
    /\ CodeFail(k)

-----------------------------------------------------------------------------
\* The hourly cleanup: DeleteExpiredAuthorizationCodes.
cleanAuthorizationCodes ==
    /\ \E c \in Code : codes[c].st = "present" /\ codes[c].exp < clock
    /\ codes' = [c \in Code |->
                   IF codes[c].st = "present" /\ codes[c].exp < clock
                   THEN [codes[c] EXCEPT !.st = "deleted"] ELSE codes[c]]
    /\ UNCHANGED <<vars, creq, chist>>

CodeStep(k) ==
    \/ \E u \in User : BeginDispatch(k, u)
    \/ \E c \in Code, verified \in BOOLEAN : BeginRedeem(k, c, verified)
    \/ InsertAuthorizationCode(k)
    \/ GetAuthorizationCode(k)
    \/ codeSessionUser(k)
    \/ SignTokens(k)
    \/ RedeemAuthorizationCode(k) \/ RedeemRejected(k) \/ RereadCode(k)
    \/ RevokeCodeFamily(k)
    \/ CodeStatementFails(k)

CodeNext ==
    \/ Next /\ UNCHANGED codeVars
    \/ \E k \in CodeRequest : CodeStep(k)
    \/ cleanAuthorizationCodes

CodeSpec == CodeInit /\ [][CodeNext]_allVars

-----------------------------------------------------------------------------
(* Properties *)

\* However many requests race with one code, at most one of them wins a
\* session (K23): a code never gives rise to two families.
CodeRedeemedOnce ==
    \A b1, b2 \in chist.born : b1[1] = b2[1] => b1 = b2

\* Consuming a code and starting its family is one thing: a used code names a
\* family that exists, has the code's owner and service and came from this
\* code alone; an internal error leaves the code unused.
CodeAndFamilyTogether ==
    \A c \in Code : codes[c].used =>
        /\ <<c, codes[c].family>> \in chist.born
        /\ \E t \in Token :
             /\ rows[t].family = codes[c].family
             /\ rows[t].user = codes[c].user /\ rows[t].service = codes[c].service
        /\ \A d \in Code : codes[d].used /\ codes[d].family = codes[c].family => c = d

\* A verified request that meets a used code, also as the loser of a race,
\* leaves the winner's family dead, whatever rotations were in flight.
ReusedCodeKillsFamily == \A f \in chist.reused : Dead(rows, f)

\* A redemption that starts after the user was deactivated hands out nothing.
CodeOfDeactivatedUser == ~chist.lateGrant

\* A caller that cannot prove client, redirect_uri and verifier can neither
\* burn the code nor end the session it started.
MismatchTouchesNothing ==
    [][\A k \in CodeRequest :
         creq[k].pc \notin {"idle", "insert"} /\ ~creq[k].verified /\ creq'[k] # creq[k]
         => UNCHANGED <<codes, rows, held>>]_allVars
=============================================================================
