------------------------ MODULE MCAuthorizationCodes ------------------------
(***************************************************************************)
(* Model-checking instance of AuthorizationCodes.                          *)
(***************************************************************************)
EXTENDS AuthorizationCodes, TLC

Symmetry ==
    Permutations(Token) \cup Permutations(Family) \cup Permutations(Code)
        \cup Permutations(CodeRequest)

\* What the steps read and the properties of codes speak of: the history of
\* RefreshTokens and what is kept for it or for lateGrant are left out.
CodeView ==
    <<rows, held, active, clock, faults, codes, chist.born, chist.reused,
      [r \in Request |-> <<req[r].pc, req[r].now, req[r].token, req[r].child,
                           req[r].family, req[r].user>>],
      [k \in CodeRequest |-> [creq[k] EXCEPT !.locked = FALSE]]>>
=============================================================================
