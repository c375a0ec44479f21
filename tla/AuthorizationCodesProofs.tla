---------------------- MODULE AuthorizationCodesProofs ----------------------
(***************************************************************************)
(* The safety properties of AuthorizationCodes, composed with refresh      *)
(* tokens, for any number of codes, requests, tokens and families.         *)
(*                                                                         *)
(* The inductive invariant of RefreshTokens is kept as it is: a code       *)
(* request is somebody else who runs the same statements on the table.     *)
(* CodesInv adds that a used code and its family come into being together, *)
(* CodeReqInv what a redemption may rely on between two statements.        *)
(***************************************************************************)
EXTENDS AuthorizationCodes, RefreshTokensProofs

KnownCode(cs, c) == c \in Code /\ cs[c].st # "none"

\* The owner's row that a code's redemption inserted is still known.
FamilyOfCode(tab, row) ==
    \E t \in Token : /\ tab[t].family = row.family
                     /\ tab[t].user = row.user /\ tab[t].service = row.service

CodesInv(tab, cs, born) ==
    \A c \in Code :
        /\ cs[c].st # "none" => cs[c].user \in User /\ cs[c].service \in Service
        /\ cs[c].used => /\ cs[c].st # "none" /\ cs[c].family \in Family
                         /\ <<c, cs[c].family>> \in born
                         /\ FamilyOfCode(tab, cs[c])
        /\ \A f \in Family : <<c, f>> \in born => cs[c].used /\ cs[c].family = f
        /\ \A d \in Code : cs[c].used /\ cs[d].used /\ cs[c].family = cs[d].family => c = d

CodeReqInv(tab, act, cs, q) ==
    /\ q.pc \in {"lookup", "user", "sign", "redeem", "reread"} => KnownCode(cs, q.code)
    /\ q.pc \in {"insert", "user", "sign", "redeem"} => q.user \in User
    /\ q.pc \in {"user", "sign", "redeem"} => q.user = cs[q.code].user
    /\ q.pc = "revoke" => q.family \in Family /\ FamilyStarted(tab, q.family)
    /\ q.locked => /\ q.pc \in {"lookup", "user", "revoke"}
                   /\ KnownCode(cs, q.code) /\ ~act[cs[q.code].user]
    /\ ~q.verified => q.pc \in {"idle", "insert", "lookup"}

CodeHistInv(tab, h) ==
    /\ \A f \in h.reused : FamilyStarted(tab, f) /\ Dead(tab, f)
    /\ ~h.lateGrant

CodeIInv ==
    /\ IInv
    /\ CodeTypeOK
    /\ CodesInv(rows, codes, chist.born)
    /\ \A k \in CodeRequest : CodeReqInv(rows, active, codes, creq[k])
    /\ CodeHistInv(rows, chist)

\* What a statement on authorization_codes may never undo.
CodesGrow(before, after) ==
    \A c \in Code : before[c].st # "none" =>
        /\ after[c].st # "none"
        /\ after[c].user = before[c].user /\ after[c].service = before[c].service
        /\ before[c].used => after[c].used /\ after[c].family = before[c].family

-----------------------------------------------------------------------------
(* Statements of other requests do not disturb what a redemption relies on *)

\* A family's row keeps its owner and service.
LEMMA FamilyOfCodeStable ==
    ASSUME NEW tab, NEW tab2, TableInv(tab), Grows(tab, tab2),
           NEW row, row.family \in Family, FamilyOfCode(tab, row)
    PROVE  FamilyOfCode(tab2, row)
  <1>1. PICK t \in Token : /\ tab[t].family = row.family
                           /\ tab[t].user = row.user /\ tab[t].service = row.service
    BY DEF FamilyOfCode
  <1>2. tab[t].st # "none"
    BY <1>1, NoneAssumption DEF TableInv, RowShape, NoRow
  <1> QED
    BY <1>1, <1>2 DEF Grows, FamilyOfCode

\* The code table's invariant survives statements on refresh_tokens.
LEMMA CodesInvStable ==
    ASSUME NEW tab, NEW tab2, TableInv(tab), Grows(tab, tab2),
           NEW cs, NEW born, CodesInv(tab, cs, born)
    PROVE  CodesInv(tab2, cs, born)
  <1>1. \A c \in Code : cs[c].used => FamilyOfCode(tab2, cs[c])
    BY FamilyOfCodeStable DEF CodesInv
  <1> QED
    BY <1>1 DEF CodesInv

\* A redemption's values survive statements on either table.
LEMMA CodeReqInvStable ==
    ASSUME NEW tab, NEW tab2, Grows(tab, tab2),
           NEW act, NEW act2, \A u \in User : act2[u] => act[u],
           NEW cs, NEW cs2, CodesGrow(cs, cs2),
           \A c \in Code : cs[c].st # "none" => cs[c].user \in User,
           NEW q \in CodeReq, CodeReqInv(tab, act, cs, q)
    PROVE  CodeReqInv(tab2, act2, cs2, q)
  <1>1. \A c : KnownCode(cs, c) => /\ KnownCode(cs2, c) /\ cs2[c].user = cs[c].user
                                   /\ cs[c].used => cs2[c].used
                                   /\ cs[c].user \in User
    BY DEF KnownCode, CodesGrow
  <1>2. \A f \in Family : FamilyStarted(tab, f) => FamilyStarted(tab2, f)
    BY DEF Grows
  <1> QED
    BY <1>1, <1>2 DEF CodeReqInv

\* A step of slot k.
LEMMA CodeStepKeeps ==
    ASSUME CodeIInv, IInv', CodeTypeOK', Grows(rows, rows'), CodesGrow(codes, codes'),
           \A u \in User : active'[u] => active[u],
           NEW k \in CodeRequest, \A j \in CodeRequest \ {k} : creq'[j] = creq[j],
           CodesInv(rows', codes', chist'.born),
           CodeReqInv(rows', active', codes', creq'[k]), CodeHistInv(rows', chist')
    PROVE  CodeIInv'
  <1>1. ASSUME NEW j \in CodeRequest, j # k
        PROVE  CodeReqInv(rows', active', codes', creq'[j])
    <2>1. /\ creq'[j] = creq[j] /\ creq[j] \in CodeReq
          /\ CodeReqInv(rows, active, codes, creq[j])
          /\ \A c \in Code : codes[c].st # "none" => codes[c].user \in User
      BY <1>1 DEF CodeIInv, CodeTypeOK, CodesInv
    <2>2. CodeReqInv(rows', active', codes', creq[j])
      BY <2>1, CodeReqInvStable
    <2> QED
      BY <2>1, <2>2
  <1>2. \A j \in CodeRequest : CodeReqInv(rows', active', codes', creq'[j])
    BY <1>1
  <1> QED
    BY <1>2 DEF CodeIInv

\* Promises about reused codes survive.
LEMMA CodeHistInvStable ==
    ASSUME NEW tab, NEW tab2, Grows(tab, tab2), NEW h \in CodeHist, CodeHistInv(tab, h)
    PROVE  CodeHistInv(tab2, h)
  BY DEF CodeHistInv, Grows, CodeHist

-----------------------------------------------------------------------------
(* The ways a step ends *)

\* A slot that holds nothing relies on nothing.
LEMMA NoCodeReqInv ==
    ASSUME NEW tab, NEW act, NEW cs
    PROVE  NoCodeReq \in CodeReq /\ CodeReqInv(tab, act, cs, NoCodeReq)
  BY DEF NoCodeReq, CodeReq, CodePC, CodeReqInv

\* Every table grows from itself.
LEMMA CodesGrowRefl == ASSUME NEW cs PROVE CodesGrow(cs, cs)
  BY DEF CodesGrow

\* Answering keeps the promises of past answers, and its own.
LEMMA CodeFinishKeeps ==
    ASSUME CodeIInv, NEW k \in CodeRequest, NEW S, CodeFinish(k, S),
           IInv', Grows(rows, rows'), UNCHANGED active,
           codes' \in [Code -> CodeRow], CodesGrow(codes, codes'),
           CodesInv(rows', codes', chist.born),
           \A f \in S \ {None} : f \in Family /\ FamilyStarted(rows', f) /\ Dead(rows', f)
    PROVE  CodeIInv'
  <1>1. /\ creq' \in [CodeRequest -> CodeReq] /\ creq'[k] = NoCodeReq
        /\ \A j \in CodeRequest \ {k} : creq'[j] = creq[j]
    BY NoCodeReqInv DEF CodeIInv, CodeTypeOK, CodeFinish
  <1>2. CodeHistInv(rows', chist) /\ chist \in CodeHist
    BY CodeHistInvStable DEF CodeIInv, CodeTypeOK
  <1>4. (chist.reused \cup (S \ {None})) \in SUBSET Family
    BY <1>2 DEF CodeHist
  <1>5. /\ chist' \in CodeHist /\ chist'.born = chist.born
        /\ chist'.reused = chist.reused \cup (S \ {None})
        /\ chist'.lateGrant = chist.lateGrant
    BY <1>2, <1>4 DEF CodeFinish, CodeHist
  <1>6. CodeHistInv(rows', chist')
    BY <1>2, <1>5 DEF CodeHistInv
  <1>7. CodeTypeOK'
    BY <1>1, <1>5 DEF CodeTypeOK, IInv
  <1>8. CodeReqInv(rows', active', codes', creq'[k])
    BY <1>1, NoCodeReqInv
  <1>9. CodesInv(rows', codes', chist'.born)
    BY <1>5
  <1> QED
    BY <1>1, <1>6, <1>7, <1>8, <1>9, CodeStepKeeps

\* Nothing happened to the refresh tokens.
LEMMA VarsUnchanged ==
    ASSUME CodeIInv, UNCHANGED vars
    PROVE  IInv' /\ Grows(rows, rows') /\ UNCHANGED active
  BY BackgroundSteps, GrowsRefl DEF CodeIInv, vars

\* A refusal touches neither table.
LEMMA CodeRefuseKeeps ==
    ASSUME CodeIInv, NEW k \in CodeRequest, CodeRefuse(k)
    PROVE  CodeIInv'
  <1>1. /\ UNCHANGED codes /\ codes' \in [Code -> CodeRow] /\ CodesGrow(codes, codes')
        /\ IInv' /\ Grows(rows, rows') /\ UNCHANGED active
    BY VarsUnchanged, CodesGrowRefl DEF CodeRefuse, CodeIInv, CodeTypeOK
  <1>2. CodesInv(rows', codes', chist.born)
    BY <1>1 DEF CodeRefuse, vars, CodeIInv
  <1> QED
    BY <1>1, <1>2, CodeFinishKeeps DEF CodeRefuse

\* A step that only moves its own slot on.
LEMMA CodeMoveKeeps ==
    ASSUME CodeIInv, NEW k \in CodeRequest, NEW q \in CodeReq,
           creq' = [creq EXCEPT ![k] = q], CodeReqInv(rows, active, codes, q),
           UNCHANGED <<vars, codes, chist>>
    PROVE  CodeIInv'
  <1>1. /\ creq' \in [CodeRequest -> CodeReq] /\ creq'[k] = q
        /\ \A j \in CodeRequest \ {k} : creq'[j] = creq[j]
    BY DEF CodeIInv, CodeTypeOK
  <1>2. IInv' /\ Grows(rows, rows') /\ CodesGrow(codes, codes')
    BY VarsUnchanged, CodesGrowRefl
  <1>3. CodeTypeOK'
    BY <1>1, <1>2 DEF CodeIInv, CodeTypeOK, IInv
  <1>4. UNCHANGED <<rows, active>>
    BY DEF vars
  <1> QED
    BY <1>1, <1>2, <1>3, <1>4, CodeStepKeeps DEF CodeIInv

\* A failing statement changes neither table: the transaction is rolled back.
LEMMA CodeFailKeeps ==
    ASSUME CodeIInv, NEW k \in CodeRequest, CodeFail(k)
    PROVE  CodeIInv'
  <1>1. /\ creq' \in [CodeRequest -> CodeReq] /\ creq'[k] = NoCodeReq
        /\ \A j \in CodeRequest \ {k} : creq'[j] = creq[j]
    BY NoCodeReqInv DEF CodeIInv, CodeTypeOK, CodeFail
  <1>2. UNCHANGED <<rows, held, active, clock, req, hist, codes, chist>> /\ faults' \in Nat
    BY DEF CodeFail, CodeIInv, IInv, TypeOK
  <1>3. Grows(rows, rows') /\ CodesGrow(codes, codes') /\ TableInv(rows')
    BY <1>2, GrowsRefl, CodesGrowRefl DEF CodeIInv, IInv
  <1>4. IInv'
    BY <1>2, <1>3, OutsideStepKeepsIInv DEF CodeIInv, IInv, TypeOK
  <1>5. CodeTypeOK'
    BY <1>1, <1>2, <1>4 DEF CodeIInv, CodeTypeOK, IInv
  <1>6. CodeReqInv(rows', active', codes', creq'[k])
    BY <1>1, NoCodeReqInv
  <1> QED
    BY <1>1, <1>2, <1>3, <1>4, <1>5, <1>6, CodeStepKeeps DEF CodeIInv

-----------------------------------------------------------------------------
(* One lemma per handler *)

\* The switch of rejectCode, for a code that is present.
LEMMA RejectKeeps ==
    ASSUME CodeIInv, NEW k \in CodeRequest, NEW c, KnownCode(codes, c),
           c = creq[k].code, rejectCode(k, c)
    PROVE  CodeIInv'
  <1>1. CASE CodeRefuse(k)
    BY <1>1, CodeRefuseKeeps
  <1>2. CASE /\ codes[c].used /\ creq[k].verified
             /\ creq' = [creq EXCEPT ![k].pc = "revoke", ![k].family = codes[c].family]
             /\ UNCHANGED <<vars, codes, chist>>
    <2> DEFINE q == [creq[k] EXCEPT !.pc = "revoke", !.family = codes[c].family]
    <2>1. creq[k] \in CodeReq /\ CodeReqInv(rows, active, codes, creq[k])
      BY DEF CodeIInv, CodeTypeOK
    <2>2. codes[c].family \in Family /\ FamilyStarted(rows, codes[c].family)
      BY <1>2 DEF CodeIInv, CodesInv, KnownCode, FamilyOfCode, FamilyStarted
    <2>3. /\ q \in CodeReq /\ q.pc = "revoke" /\ q.family = codes[c].family
          /\ q.code = creq[k].code
          /\ q.locked = creq[k].locked /\ q.verified = creq[k].verified
      BY <2>1, <2>2 DEF CodeReq, CodePC
    <2>4. creq' = [creq EXCEPT ![k] = q]
      BY <1>2 DEF CodeIInv, CodeTypeOK
    <2> HIDE DEF q
    <2>5. CodeReqInv(rows, active, codes, q)
      BY <1>2, <2>1, <2>2, <2>3 DEF CodeReqInv
    <2> QED
      BY <1>2, <2>3, <2>4, <2>5, CodeMoveKeeps
  <1> QED
    BY <1>1, <1>2 DEF rejectCode

\* Issuing a code at level 0 of /dispatch.
LEMMA DispatchSteps ==
    ASSUME CodeIInv, NEW k \in CodeRequest
    PROVE  /\ \A u \in User : BeginDispatch(k, u) => CodeIInv'
           /\ InsertAuthorizationCode(k) => CodeIInv'
  <1>1. ASSUME NEW u \in User, BeginDispatch(k, u) PROVE CodeIInv'
    <2> DEFINE q == [NoCodeReq EXCEPT !.pc = "insert", !.user = u, !.now = clock]
    <2>1. q \in CodeReq /\ CodeReqInv(rows, active, codes, q)
      BY DEF NoCodeReq, CodeReq, CodePC, CodeReqInv, CodeIInv, IInv, TypeOK
    <2>2. creq' = [creq EXCEPT ![k] = q]
      BY <1>1 DEF BeginDispatch
    <2> HIDE DEF q
    <2> QED
      BY <1>1, <2>1, <2>2, CodeMoveKeeps DEF BeginDispatch
  <1>2. ASSUME InsertAuthorizationCode(k) PROVE CodeIInv'
    <2>1. PICK c \in Code, s \in Service, now \in creq[k].now .. clock :
            /\ codes[c].st = "none"
            /\ codes' = [codes EXCEPT ![c] = [NoCode EXCEPT
                           !.st = "present", !.user = creq[k].user, !.service = s,
                           !.exp = now + CodeTTL]]
      BY <1>2 DEF InsertAuthorizationCode
    <2> DEFINE new == [NoCode EXCEPT !.st = "present", !.user = creq[k].user, !.service = s,
                                     !.exp = now + CodeTTL]
    <2>2. creq[k].user \in User /\ now + CodeTTL \in Nat
      BY <1>2, <2>1, CodeTTLAssumption
         DEF InsertAuthorizationCode, CodeAt, CodeIInv, CodeTypeOK, CodeReq, CodeReqInv,
             IInv, TypeOK
    <2>3. /\ new \in CodeRow /\ new.st = "present" /\ new.user \in User
          /\ new.service \in Service /\ ~new.used
      BY <2>2 DEF NoCode, CodeRow
    <2>4. /\ codes' \in [Code -> CodeRow] /\ codes'[c] = new
          /\ \A d \in Code : d # c => codes'[d] = codes[d]
      BY <2>1, <2>3 DEF CodeIInv, CodeTypeOK
    <2> HIDE DEF new
    <2>5. ~codes[c].used
      BY <2>1 DEF CodeIInv, CodesInv
    <2>6. CodesGrow(codes, codes')
      BY <2>1, <2>4 DEF CodesGrow
    <2>7. CodesInv(rows, codes', chist.born)
      <3>1. \A d \in Code : codes'[d].used \/ codes[d].used => codes'[d] = codes[d]
        BY <2>3, <2>4, <2>5
      <3>2. \A d \in Code : codes'[d].st # "none" =>
              codes'[d].user \in User /\ codes'[d].service \in Service
        BY <2>3, <2>4 DEF CodeIInv, CodesInv
      <3>3. CodesInv(rows, codes, chist.born)
        BY DEF CodeIInv
      <3> QED
        BY <3>1, <3>2, <3>3 DEF CodesInv
    <2>8. UNCHANGED vars /\ UNCHANGED rows /\ CodeFinish(k, {})
      BY <1>2 DEF InsertAuthorizationCode, vars
    <2>9. IInv' /\ Grows(rows, rows') /\ UNCHANGED active
      BY <2>8, VarsUnchanged
    <2> QED
      BY <2>4, <2>6, <2>7, <2>8, <2>9, CodeFinishKeeps
  <1> QED
    BY <1>1, <1>2

\* Redemption, up to the transaction.
LEMMA RedeemSteps ==
    ASSUME CodeIInv, NEW k \in CodeRequest
    PROVE  /\ \A c \in Code, v \in BOOLEAN : BeginRedeem(k, c, v) => CodeIInv'
           /\ GetAuthorizationCode(k) => CodeIInv'
           /\ codeSessionUser(k) => CodeIInv'
           /\ SignTokens(k) => CodeIInv'
           /\ RedeemRejected(k) => CodeIInv'
           /\ RereadCode(k) => CodeIInv'
           /\ CodeStatementFails(k) => CodeIInv'
  <1>1. creq[k] \in CodeReq /\ CodeReqInv(rows, active, codes, creq[k])
    BY DEF CodeIInv, CodeTypeOK
  <1>2. creq \in [CodeRequest -> CodeReq] /\ clock \in Nat
    BY DEF CodeIInv, CodeTypeOK, TypeOK
  <1>3. \A c : KnownCode(codes, c) => codes[c].user \in User /\ codes[c] \in CodeRow
    BY DEF CodeIInv, CodesInv, CodeTypeOK, KnownCode
  <1>4. ASSUME NEW c \in Code, NEW v \in BOOLEAN, BeginRedeem(k, c, v) PROVE CodeIInv'
    <2> DEFINE q == [NoCodeReq EXCEPT !.pc = "lookup", !.code = c, !.verified = v,
                                      !.locked = ~active[codes[c].user]]
    <2>1. KnownCode(codes, c)
      BY <1>4 DEF BeginRedeem, KnownCode
    <2>2. /\ q \in CodeReq /\ q.pc = "lookup" /\ q.code = c /\ q.verified = v
          /\ q.locked = ~active[codes[c].user]
      BY <1>3, <2>1 DEF NoCodeReq, CodeReq, CodePC, CodeRow
    <2>3. creq' = [creq EXCEPT ![k] = q]
      BY <1>4 DEF BeginRedeem
    <2> HIDE DEF q
    <2>4. CodeReqInv(rows, active, codes, q)
      BY <2>1, <2>2 DEF CodeReqInv
    <2> QED
      BY <1>4, <2>2, <2>3, <2>4, CodeMoveKeeps DEF BeginRedeem
  <1>5. ASSUME GetAuthorizationCode(k) PROVE CodeIInv'
    <2> DEFINE c == creq[k].code
    <2>1. KnownCode(codes, c) /\ CodeAt(k, "lookup")
      BY <1>1, <1>5 DEF GetAuthorizationCode, CodeAt, CodeReqInv
    <2>2. CASE CodeRefuse(k)
      BY <2>2, CodeRefuseKeeps
    <2>3. CASE rejectCode(k, c)
      BY <2>1, <2>3, RejectKeeps
    <2>4. CASE /\ Redeemable(k, c)
               /\ creq' = [creq EXCEPT ![k].pc = "user", ![k].user = codes[c].user]
               /\ UNCHANGED <<vars, codes, chist>>
      <3> DEFINE q == [creq[k] EXCEPT !.pc = "user", !.user = codes[c].user]
      <3>1. /\ q \in CodeReq /\ q.pc = "user" /\ q.user = codes[c].user /\ q.code = c
            /\ q.locked = creq[k].locked
            /\ q.verified = creq[k].verified
        BY <1>1, <1>3, <2>1 DEF CodeReq, CodePC
      <3>2. creq' = [creq EXCEPT ![k] = q]
        BY <1>2, <2>4
      <3> HIDE DEF q
      <3>3. CodeReqInv(rows, active, codes, q)
        BY <1>1, <1>3, <2>1, <2>4, <3>1 DEF CodeReqInv, Redeemable
      <3> QED
        BY <2>4, <3>1, <3>2, <3>3, CodeMoveKeeps
    <2> QED
      BY <1>5, <2>2, <2>3, <2>4 DEF GetAuthorizationCode
  <1>6. ASSUME codeSessionUser(k) PROVE CodeIInv'
    <2>1. CASE CodeRefuse(k)
      BY <2>1, CodeRefuseKeeps
    <2>2. CASE active[creq[k].user] /\ CodeGoto(k, "sign") /\ UNCHANGED <<vars, codes>>
      <3> DEFINE q == [creq[k] EXCEPT !.pc = "sign"]
      <3>1. /\ q \in CodeReq /\ q.pc = "sign" /\ q.user = creq[k].user
            /\ q.code = creq[k].code
            /\ q.locked = creq[k].locked /\ q.verified = creq[k].verified
        BY <1>1 DEF CodeReq, CodePC
      <3>2. creq' = [creq EXCEPT ![k] = q]
        BY <1>2, <2>2 DEF CodeGoto
      <3> HIDE DEF q
      <3>3. CodeReqInv(rows, active, codes, q)
        BY <1>1, <1>6, <2>2, <3>1 DEF CodeReqInv, codeSessionUser, CodeAt
      <3> QED
        BY <2>2, <3>1, <3>2, <3>3, CodeMoveKeeps DEF CodeGoto
    <2> QED
      BY <1>6, <2>1, <2>2 DEF codeSessionUser
  <1>7. ASSUME SignTokens(k) PROVE CodeIInv'
    <2>1. CASE CodeRefuse(k)
      BY <2>1, CodeRefuseKeeps
    <2>2. CASE /\ creq' = [creq EXCEPT ![k].pc = "redeem", ![k].now = clock]
               /\ UNCHANGED <<vars, codes, chist>>
      <3> DEFINE q == [creq[k] EXCEPT !.pc = "redeem", !.now = clock]
      <3>1. /\ q \in CodeReq /\ q.pc = "redeem" /\ q.user = creq[k].user
            /\ q.code = creq[k].code
            /\ q.locked = creq[k].locked /\ q.verified = creq[k].verified
        BY <1>1, <1>2 DEF CodeReq, CodePC
      <3>2. creq' = [creq EXCEPT ![k] = q]
        BY <1>2, <2>2
      <3> HIDE DEF q
      <3>3. CodeReqInv(rows, active, codes, q)
        BY <1>1, <1>7, <3>1 DEF CodeReqInv, SignTokens, CodeAt
      <3> QED
        BY <2>2, <3>1, <3>2, <3>3, CodeMoveKeeps
    <2> QED
      BY <1>7, <2>1, <2>2 DEF SignTokens
  <1>8. ASSUME RedeemRejected(k) PROVE CodeIInv'
    <2> DEFINE q == [creq[k] EXCEPT !.pc = "reread"]
    <2>1. /\ q \in CodeReq /\ q.pc = "reread" /\ q.code = creq[k].code
          /\ q.locked = creq[k].locked
          /\ q.verified = creq[k].verified
      BY <1>1 DEF CodeReq, CodePC
    <2>2. creq' = [creq EXCEPT ![k] = q]
      BY <1>2, <1>8 DEF RedeemRejected, CodeGoto
    <2> HIDE DEF q
    <2>3. CodeReqInv(rows, active, codes, q)
      BY <1>1, <1>8, <2>1 DEF CodeReqInv, RedeemRejected, CodeAt
    <2> QED
      BY <1>8, <2>1, <2>2, <2>3, CodeMoveKeeps DEF RedeemRejected, CodeGoto
  <1>9. ASSUME RereadCode(k) PROVE CodeIInv'
    <2>1. KnownCode(codes, creq[k].code)
      BY <1>1, <1>9 DEF RereadCode, CodeAt, CodeReqInv
    <2> QED
      BY <1>9, <2>1, RejectKeeps, CodeRefuseKeeps DEF RereadCode
  <1>10. ASSUME CodeStatementFails(k) PROVE CodeIInv'
    BY <1>10, CodeFailKeeps DEF CodeStatementFails
  <1> QED
    BY <1>4, <1>5, <1>6, <1>7, <1>8, <1>9, <1>10

\* The transaction that consumes a code and starts its family, and the
\* revocation of that family when the code is presented again.
LEMMA FamilySteps ==
    ASSUME CodeIInv, NEW k \in CodeRequest
    PROVE  /\ RedeemAuthorizationCode(k) => CodeIInv'
           /\ RevokeCodeFamily(k) => CodeIInv'
  <1>1. creq[k] \in CodeReq /\ CodeReqInv(rows, active, codes, creq[k])
    BY DEF CodeIInv, CodeTypeOK
  <1>2. /\ IInv /\ TableInv(rows) /\ codes \in [Code -> CodeRow] /\ chist \in CodeHist
        /\ held \subseteq Token /\ clock \in Nat /\ faults \in Nat
        /\ CodesInv(rows, codes, chist.born) /\ CodeHistInv(rows, chist)
    BY DEF CodeIInv, CodeTypeOK, IInv, TypeOK
  <1>3. ASSUME RedeemAuthorizationCode(k) PROVE CodeIInv'
    <2> DEFINE c == creq[k].code
    <2>1. /\ KnownCode(codes, c) /\ creq[k].user = codes[c].user /\ creq[k].user \in User
          /\ creq[k].now \in Nat /\ ~creq[k].locked
      BY <1>1, <1>3 DEF RedeemAuthorizationCode, CodeAt, CodeReqInv, CodeReq
    <2>2. ~codes[c].used /\ codes[c].service \in Service /\ c \in Code
      BY <1>2, <1>3, <2>1
         DEF RedeemAuthorizationCode, ConsumableCode, CodesInv, KnownCode
    <2>3. PICK t \in Token, f \in Family, m \in MaxAges :
            /\ rows[t].st = "none"
            /\ ~FamilyStarted(rows, f)
            /\ rows' = InsertRefreshToken(rows, t,
                         newRootToken(creq[k].user, codes[c].service, f, m, creq[k].now))
            /\ codes' = ConsumeAuthorizationCodeChecked(c, f)
            /\ held' = held \cup {t}
            /\ chist' = [chist EXCEPT !.born = @ \cup {<<c, f>>},
                                      !.lateGrant = @ \/ creq[k].locked]
      BY <1>3 DEF RedeemAuthorizationCode
    <2>4. UNCHANGED <<active, clock, faults, req, hist>> /\ creq' = [creq EXCEPT ![k] = NoCodeReq]
      BY <1>3 DEF RedeemAuthorizationCode
    <2>5. TableInv(rows') /\ Grows(rows, rows')
      BY <1>2, <2>1, <2>2, <2>3, InsertRootKeepsTable, InsertRootGrows
    <2>6. /\ rows'[t].st = "present" /\ rows'[t].family = f
          /\ rows'[t].user = codes[c].user /\ rows'[t].service = codes[c].service
      BY <1>2, <2>1, <2>3 DEF InsertRefreshToken, newRootToken, TableInv
    <2>7. IInv'
      <3>1. held' \subseteq Token /\ \A x \in held' \ held : Known(rows', x)
        BY <1>2, <2>3, <2>6 DEF Known
      <3> QED
        BY <1>2, <2>4, <2>5, <3>1, OutsideStepKeepsIInv
    <2>8. /\ codes' \in [Code -> CodeRow]
          /\ codes'[c].used /\ codes'[c].family = f /\ codes'[c].st = codes[c].st
          /\ codes'[c].user = codes[c].user /\ codes'[c].service = codes[c].service
          /\ \A d \in Code : d # c => codes'[d] = codes[d]
      <3>1. c \in Code /\ f \in Family /\ codes \in [Code -> CodeRow]
        BY <1>2, <2>2
      <3>2. codes' = [codes EXCEPT ![c] = [codes[c] EXCEPT !.used = TRUE, !.family = f]]
        BY <2>3, <3>1 DEF ConsumeAuthorizationCodeChecked
      <3>3. \A row \in CodeRow :
               LET new == [row EXCEPT !.used = TRUE, !.family = f]
               IN  /\ new \in CodeRow /\ new.used /\ new.family = f /\ new.st = row.st
                   /\ new.user = row.user /\ new.service = row.service
        BY <3>1 DEF CodeRow
      <3> QED BY <3>1, <3>2, <3>3
    <2>9. CodesGrow(codes, codes')
      BY <2>2, <2>8 DEF CodesGrow
    <2>10. /\ chist' \in CodeHist /\ chist'.born = chist.born \cup {<<c, f>>}
           /\ chist'.reused = chist.reused /\ ~chist'.lateGrant
      <3>1. (chist.born \cup {<<c, f>>}) \in SUBSET (Code \X Family)
        BY <1>2, <2>2 DEF CodeHist
      <3>2. ~(chist.lateGrant \/ creq[k].locked)
        BY <1>2, <2>1 DEF CodeHistInv
      <3> QED
        BY <1>2, <2>3, <3>1, <3>2 DEF CodeHist
    <2>11. \A d \in Code : codes[d].used => codes[d].family # f
      <3> SUFFICES ASSUME NEW d \in Code, codes[d].used PROVE codes[d].family # f
        OBVIOUS
      <3>1. FamilyOfCode(rows, codes[d])
        BY <1>2 DEF CodesInv
      <3> QED
        BY <2>3, <3>1 DEF FamilyOfCode, FamilyStarted
    <2> HIDE DEF c
    <2>12. \A d \in Code : codes'[d].used => FamilyOfCode(rows', codes'[d])
      <3>1. FamilyOfCode(rows', codes'[c])
        BY <2>6, <2>8 DEF FamilyOfCode
      <3>2. ASSUME NEW d \in Code, d # c, codes'[d].used PROVE FamilyOfCode(rows', codes'[d])
        BY <1>2, <2>5, <2>8, <3>2, FamilyOfCodeStable DEF CodesInv
      <3> QED
        BY <3>1, <3>2
    <2>13. CodesInv(rows', codes', chist'.born)
      <3> SUFFICES ASSUME NEW d \in Code
            PROVE /\ codes'[d].st # "none" => codes'[d].user \in User /\ codes'[d].service \in Service
                  /\ codes'[d].used => /\ codes'[d].st # "none" /\ codes'[d].family \in Family
                                       /\ <<d, codes'[d].family>> \in chist'.born
                                       /\ FamilyOfCode(rows', codes'[d])
                  /\ \A g \in Family : <<d, g>> \in chist'.born
                                         => codes'[d].used /\ codes'[d].family = g
                  /\ \A e \in Code : codes'[d].used /\ codes'[e].used
                                       /\ codes'[d].family = codes'[e].family => d = e
        BY DEF CodesInv
      <3>1. codes'[d].st # "none" => codes'[d].user \in User /\ codes'[d].service \in Service
        BY <1>2, <2>2, <2>8 DEF CodesInv
      <3>2. codes'[d].used => /\ codes'[d].st # "none" /\ codes'[d].family \in Family
                              /\ <<d, codes'[d].family>> \in chist'.born
        BY <1>2, <2>1, <2>8, <2>10 DEF CodesInv, KnownCode
      <3>3. \A g \in Family : <<d, g>> \in chist'.born => codes'[d].used /\ codes'[d].family = g
        <4> SUFFICES ASSUME NEW g \in Family, <<d, g>> \in chist'.born
                     PROVE  codes'[d].used /\ codes'[d].family = g
          OBVIOUS
        <4>1. CASE <<d, g>> \in chist.born
          <5>1. codes[d].used /\ codes[d].family = g
            BY <1>2, <4>1 DEF CodesInv
          <5> QED
            BY <2>2, <2>8, <5>1
        <4>2. CASE d = c /\ g = f
          BY <2>8, <4>2
        <4> QED
          BY <2>10, <4>1, <4>2
      <3>4. \A e \in Code : codes'[d].used /\ codes'[e].used
                              /\ codes'[d].family = codes'[e].family => d = e
        <4>1. \A x, y \in Code :
                codes[x].used /\ codes[y].used /\ codes[x].family = codes[y].family => x = y
          BY <1>2 DEF CodesInv
        <4> QED
          BY <2>8, <2>11, <4>1
      <3> QED
        BY <2>12, <3>1, <3>2, <3>3, <3>4
    <2>14. /\ creq' \in [CodeRequest -> CodeReq] /\ creq'[k] = NoCodeReq
           /\ \A j \in CodeRequest \ {k} : creq'[j] = creq[j]
      BY <2>4, NoCodeReqInv DEF CodeIInv, CodeTypeOK
    <2>15. CodeReqInv(rows', active', codes', creq'[k])
      BY <2>14, NoCodeReqInv
    <2>16. CodeHistInv(rows', chist')
      BY <1>2, <2>5, <2>10 DEF CodeHistInv, CodeHist, Grows
    <2>17. CodeTypeOK'
      BY <2>7, <2>8, <2>10, <2>14 DEF CodeTypeOK, IInv
    <2> QED
      BY <2>4, <2>5, <2>7, <2>9, <2>13, <2>14, <2>15, <2>16, <2>17, CodeStepKeeps
  <1>4. ASSUME RevokeCodeFamily(k) PROVE CodeIInv'
    <2> DEFINE f == creq[k].family
    <2>1. f \in Family /\ FamilyStarted(rows, f)
      BY <1>1, <1>4 DEF RevokeCodeFamily, CodeAt, CodeReqInv
    <2>2. TableInv(rows') /\ Grows(rows, rows') /\ Dead(rows', f)
      BY <1>2, <1>4, RevokeFamilyKeepsTable, RevokeFamilyGrows DEF RevokeCodeFamily
    <2>3. FamilyStarted(rows', f)
      BY <2>1, <2>2 DEF Grows
    <2>4. UNCHANGED <<held, active, clock, faults, req, hist, codes>> /\ CodeFinish(k, {f})
      BY <1>4 DEF RevokeCodeFamily
    <2>5. IInv'
      BY <1>2, <2>2, <2>4, OutsideStepKeepsIInv
    <2>6. CodesInv(rows', codes', chist.born) /\ CodesGrow(codes, codes')
      BY <1>2, <2>2, <2>4, CodesInvStable, CodesGrowRefl
    <2> HIDE DEF f
    <2> QED
      BY <1>2, <2>1, <2>2, <2>3, <2>4, <2>5, <2>6, CodeFinishKeeps
  <1> QED
    BY <1>3, <1>4

\* A step of the refresh-token component, as seen from the codes.
LEMMA RefreshStepKeeps ==
    ASSUME CodeIInv, [Next]_vars, UNCHANGED codeVars
    PROVE  CodeIInv'
  <1>1. IInv' /\ Grows(rows, rows') /\ TableInv(rows)
    BY NextIInv, NextGrows DEF CodeIInv, IInv
  <1>2. \A u \in User : active'[u] => active[u]
    <2>1. active \in [User -> BOOLEAN]
      BY DEF CodeIInv, IInv, TypeOK
    <2>2. ASSUME NEW r \in Request, ServerStep(r) PROVE UNCHANGED active
      BY <2>2
         DEF ServerStep, Rotate, RotateRejected, RotateFails, classifyRejected, ClassifyFails,
             activeSessionUser, UserLookupFails, Authorize, RevokeFamily, RevokeFamilyFails,
             Issue, IssueFails, LogoutLookup, LogoutLookupFails, RevokeUser, RevokeUserFails,
             Fail
    <2>3. ASSUME NEW r \in Request, NEW u \in User, Deactivate(r, u)
          PROVE  \A x \in User : active'[x] => active[x]
      BY <2>1, <2>3 DEF Deactivate
    <2>4. CASE EnvironmentStep
      BY <2>3, <2>4
         DEF EnvironmentStep, BeginRefresh, BeginLogout, BeginLogin, EndUserSessions, Tick
    <2>5. CASE cleanRefreshTokens
      BY <2>5 DEF cleanRefreshTokens
    <2> QED
      BY <2>2, <2>4, <2>5 DEF Next, vars
  <1>3. CodesInv(rows', codes', chist'.born)
    BY <1>1, CodesInvStable DEF CodeIInv, codeVars
  <1>4. CodeHistInv(rows', chist')
    BY <1>1, CodeHistInvStable DEF CodeIInv, CodeTypeOK, codeVars
  <1>5. CodeTypeOK'
    BY <1>1 DEF CodeIInv, CodeTypeOK, IInv, codeVars
  <1>6. ASSUME NEW k \in CodeRequest PROVE CodeReqInv(rows', active', codes', creq'[k])
    <2>1. /\ creq[k] \in CodeReq /\ CodeReqInv(rows, active, codes, creq[k])
          /\ \A c \in Code : codes[c].st # "none" => codes[c].user \in User
      BY DEF CodeIInv, CodeTypeOK, CodesInv
    <2>2. CodeReqInv(rows', active', codes, creq[k])
      BY <1>1, <1>2, <2>1, CodeReqInvStable, CodesGrowRefl
    <2> QED
      BY <2>2 DEF codeVars
  <1> QED
    BY <1>1, <1>3, <1>4, <1>5, <1>6 DEF CodeIInv

\* Cleanup forgets codes; it never makes one usable again.
LEMMA CleanCodesKeeps ==
    ASSUME CodeIInv, cleanAuthorizationCodes
    PROVE  CodeIInv'
  <1>1. codes' = [c \in Code |->
                   IF codes[c].st = "present" /\ codes[c].exp < clock
                   THEN [codes[c] EXCEPT !.st = "deleted"] ELSE codes[c]]
    BY DEF cleanAuthorizationCodes
  <1>2. /\ codes' \in [Code -> CodeRow]
        /\ \A c \in Code : /\ codes'[c].st = "none" <=> codes[c].st = "none"
                           /\ codes'[c].used = codes[c].used
                           /\ codes'[c].family = codes[c].family
                           /\ codes'[c].user = codes[c].user
                           /\ codes'[c].service = codes[c].service
    BY <1>1 DEF CodeIInv, CodeTypeOK, CodeRow
  <1>3. CodesGrow(codes, codes')
    BY <1>2 DEF CodesGrow
  <1>4. UNCHANGED <<vars, creq, chist>> /\ UNCHANGED <<rows, active>>
    BY DEF cleanAuthorizationCodes, vars
  <1>5. IInv' /\ Grows(rows, rows')
    BY <1>4, VarsUnchanged
  <1>6. CodesInv(rows', codes', chist'.born)
    <2>1. \A c \in Code : FamilyOfCode(rows, codes[c]) => FamilyOfCode(rows, codes'[c])
      BY <1>2 DEF FamilyOfCode
    <2> QED
      BY <1>2, <1>4, <2>1 DEF CodeIInv, CodesInv
  <1>7. ASSUME NEW k \in CodeRequest PROVE CodeReqInv(rows', active', codes', creq'[k])
    <2>1. /\ creq[k] \in CodeReq /\ CodeReqInv(rows, active, codes, creq[k])
          /\ \A c \in Code : codes[c].st # "none" => codes[c].user \in User
      BY DEF CodeIInv, CodeTypeOK, CodesInv
    <2>2. CodeReqInv(rows', active', codes', creq[k])
      BY <1>3, <1>4, <1>5, <2>1, CodeReqInvStable
    <2> QED
      BY <1>4, <2>2
  <1>8. CodeTypeOK'
    BY <1>2, <1>4, <1>5 DEF CodeIInv, CodeTypeOK, IInv
  <1> QED
    BY <1>4, <1>5, <1>6, <1>7, <1>8 DEF CodeIInv

-----------------------------------------------------------------------------
(* The theorems *)

\* Empty tables satisfy the inductive invariant.
LEMMA CodeInitIInv == CodeInit => CodeIInv
  <1> SUFFICES ASSUME CodeInit PROVE CodeIInv
    OBVIOUS
  <1>1. IInv
    BY InitIInv DEF CodeInit
  <1>2. /\ codes \in [Code -> CodeRow] /\ creq \in [CodeRequest -> CodeReq]
        /\ chist \in CodeHist
    BY NoCodeReqInv DEF CodeInit, NoCode, CodeRow, NoCodeHist, CodeHist
  <1>3. CodesInv(rows, codes, chist.born)
    BY DEF CodeInit, CodesInv, NoCode, NoCodeHist
  <1>4. CodeHistInv(rows, chist)
    BY DEF CodeInit, CodeHistInv, NoCodeHist
  <1>5. \A k \in CodeRequest : CodeReqInv(rows, active, codes, creq[k])
    BY NoCodeReqInv DEF CodeInit
  <1> QED
    BY <1>1, <1>2, <1>3, <1>4, <1>5 DEF CodeIInv, CodeTypeOK, IInv

\* Every step of either component keeps it.
LEMMA CodeNextIInv == CodeIInv /\ [CodeNext]_allVars => CodeIInv'
  <1> SUFFICES ASSUME CodeIInv, [CodeNext]_allVars PROVE CodeIInv'
    OBVIOUS
  <1>1. CASE Next /\ UNCHANGED codeVars
    BY <1>1, RefreshStepKeeps
  <1>2. ASSUME NEW k \in CodeRequest, CodeStep(k) PROVE CodeIInv'
    BY <1>2, DispatchSteps, RedeemSteps, FamilySteps DEF CodeStep
  <1>3. CASE cleanAuthorizationCodes
    BY <1>3, CleanCodesKeeps
  <1>4. CASE UNCHANGED allVars
    BY <1>4, RefreshStepKeeps DEF allVars
  <1> QED
    BY <1>1, <1>2, <1>3, <1>4 DEF CodeNext

\* The inductive invariant holds in every reachable state of the composition.
THEOREM CodeInductiveInvariant == CodeSpec => []CodeIInv
  BY CodeInitIInv, CodeNextIInv, PTL DEF CodeSpec

\* No handler of either component leaves a value outside its type.
THEOREM CodeTypeCorrect == CodeSpec => []CodeTypeOK
  <1>1. CodeIInv => CodeTypeOK
    BY DEF CodeIInv
  <1> QED
    BY <1>1, CodeInductiveInvariant, PTL

\* RedeemAuthorizationCode lets at most one of any number of racing requests win.
THEOREM OneFamilyPerCode == CodeSpec => []CodeRedeemedOnce
  <1>1. CodeIInv => CodeRedeemedOnce
    <2> SUFFICES ASSUME CodeIInv, NEW b1 \in chist.born, NEW b2 \in chist.born, b1[1] = b2[1]
                 PROVE  b1 = b2
      BY DEF CodeRedeemedOnce
    <2>1. b1 \in Code \X Family /\ b2 \in Code \X Family
      BY DEF CodeIInv, CodeTypeOK, CodeHist
    <2>2. PICK c1 \in Code, f1 \in Family : b1 = <<c1, f1>>
      BY <2>1
    <2>3. PICK c2 \in Code, f2 \in Family : b2 = <<c2, f2>>
      BY <2>1
    <2>4. c1 = c2
      BY <2>2, <2>3
    <2>5. f1 = codes[c1].family /\ f2 = codes[c2].family
      <3>1. \A c \in Code, f \in Family : <<c, f>> \in chist.born => codes[c].family = f
        BY DEF CodeIInv, CodesInv
      <3>2. <<c1, f1>> \in chist.born /\ <<c2, f2>> \in chist.born
        BY <2>2, <2>3
      <3> QED
        BY <3>1, <3>2
    <2> QED
      BY <2>2, <2>3, <2>4, <2>5
  <1> QED
    BY <1>1, CodeInductiveInvariant, PTL

\* A used code and its family come into being together, or not at all.
THEOREM CodeAndFamilyAtomic == CodeSpec => []CodeAndFamilyTogether
  <1>1. CodeIInv => CodeAndFamilyTogether
    BY DEF CodeIInv, CodesInv, CodeAndFamilyTogether, FamilyOfCode
  <1> QED
    BY <1>1, CodeInductiveInvariant, PTL

\* A verified reuse of a code, also by the loser of a race, is fatal to its family.
THEOREM CodeReuseIsFatal == CodeSpec => []ReusedCodeKillsFamily
  <1>1. CodeIInv => ReusedCodeKillsFamily
    BY DEF CodeIInv, CodeHistInv, ReusedCodeKillsFamily
  <1> QED
    BY <1>1, CodeInductiveInvariant, PTL

\* No redemption that starts after HandleDeactivate committed yields tokens.
THEOREM DeactivationStopsCodes == CodeSpec => []CodeOfDeactivatedUser
  <1>1. CodeIInv => CodeOfDeactivatedUser
    BY DEF CodeIInv, CodeHistInv, CodeOfDeactivatedUser
  <1> QED
    BY <1>1, CodeInductiveInvariant, PTL

\* A caller without the verifier can neither burn a code nor end its session.
THEOREM MismatchIsHarmless == CodeSpec => MismatchTouchesNothing
  <1> DEFINE Harmless ==
        \A k \in CodeRequest :
          creq[k].pc \notin {"idle", "insert"} /\ ~creq[k].verified /\ creq'[k] # creq[k]
          => UNCHANGED <<codes, rows, held>>
  <1>1. ASSUME CodeIInv, CodeNext PROVE Harmless
    <2> SUFFICES ASSUME NEW k \in CodeRequest, creq[k].pc \notin {"idle", "insert"},
                        ~creq[k].verified, creq'[k] # creq[k]
                 PROVE  UNCHANGED <<codes, rows, held>>
      OBVIOUS
    <2>1. creq \in [CodeRequest -> CodeReq] /\ creq[k].pc = "lookup"
      BY <1>1 DEF CodeIInv, CodeTypeOK, CodeReqInv
    <2>2. CASE UNCHANGED creq
      BY <2>2
    <2>3. PICK j \in CodeRequest : CodeStep(j)
      BY <1>1, <2>2 DEF CodeNext, codeVars, cleanAuthorizationCodes
    <2>4. j = k
      <3> SUFFICES ASSUME j # k PROVE creq'[k] = creq[k]
        OBVIOUS
      <3> QED
        BY <2>1, <2>3
           DEF CodeStep, BeginDispatch, BeginRedeem, InsertAuthorizationCode,
               GetAuthorizationCode, codeSessionUser, SignTokens, RedeemAuthorizationCode,
               RedeemRejected, RereadCode, RevokeCodeFamily, CodeStatementFails, rejectCode,
               CodeRefuse, CodeFinish, CodeGoto, CodeFail
    <2>5. GetAuthorizationCode(k) \/ CodeFail(k)
      BY <2>1, <2>3, <2>4
         DEF CodeStep, CodeAt, BeginDispatch, BeginRedeem, InsertAuthorizationCode,
             codeSessionUser, SignTokens, RedeemAuthorizationCode, RedeemRejected,
             RereadCode, RevokeCodeFamily, CodeStatementFails
    <2> QED
      BY <2>5 DEF GetAuthorizationCode, rejectCode, Redeemable, CodeRefuse, CodeFail, vars
  <1>2. CodeIInv /\ [CodeNext]_allVars => [Harmless]_allVars
    BY <1>1
  <1> QED
    BY <1>2, CodeInductiveInvariant, PTL DEF CodeSpec, MismatchTouchesNothing

\* Codes and logins together still implement sessions.
THEOREM CodesImplementSessions == CodeSpec => ImplementsSessions
  <1>1. CodeInit => Sess!Init
    BY NoneAssumption DEF CodeInit, Init, Sess!Init, SessionState, FamilyStarted, NoRow
  <1>2. CodeIInv /\ [CodeNext]_allVars => [Sess!Next]_SessionState
    <2> SUFFICES ASSUME CodeIInv, [CodeNext]_allVars PROVE [Sess!Next]_SessionState
      OBVIOUS
    <2>1. IInv /\ TableInv(rows)
      BY DEF CodeIInv, IInv
    <2>2. CASE UNCHANGED rows
      BY <2>2 DEF SessionState, FamilyStarted, Dead, Present
    <2>3. CASE Next
      BY <2>1, <2>3, NextImplements
    <2>4. ASSUME NEW k \in CodeRequest, RedeemAuthorizationCode(k) PROVE Sess!Next
      BY <2>1, <2>4, StartingStep DEF RedeemAuthorizationCode
    <2>5. ASSUME NEW k \in CodeRequest, RevokeCodeFamily(k) PROVE [Sess!Next]_SessionState
      BY <2>1, <2>5, RevokeFamilyGrows, NoNewFamilies, EndingStep DEF RevokeCodeFamily
    <2>6. ASSUME NEW k \in CodeRequest, CodeStep(k)
          PROVE  UNCHANGED rows \/ [Sess!Next]_SessionState
      BY <2>4, <2>5, <2>6
         DEF CodeStep, BeginDispatch, BeginRedeem, InsertAuthorizationCode,
             GetAuthorizationCode, codeSessionUser, SignTokens, RedeemRejected, RereadCode,
             CodeStatementFails, rejectCode, CodeRefuse, CodeFail, vars
    <2>7. CASE cleanAuthorizationCodes
      BY <2>2, <2>7 DEF cleanAuthorizationCodes, vars
    <2>8. CASE UNCHANGED allVars
      BY <2>2, <2>8 DEF allVars, vars
    <2> QED
      BY <2>2, <2>3, <2>6, <2>7, <2>8 DEF CodeNext
  <1> QED
    BY <1>1, <1>2, CodeInductiveInvariant, PTL DEF CodeSpec, ImplementsSessions, Sess!Spec
=============================================================================
