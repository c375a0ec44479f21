-------------------------- MODULE MCRefreshTokens --------------------------
(***************************************************************************)
(* Model-checking instance of RefreshTokens.  Tokens, families and request *)
(* slots are only compared for equality, so they are interchangeable.      *)
(***************************************************************************)
EXTENDS RefreshTokens, TLC

Symmetry ==
    Permutations(Token) \cup Permutations(Family) \cup Permutations(Request)
        \cup Permutations(User) \cup Permutations(Service)
=============================================================================
