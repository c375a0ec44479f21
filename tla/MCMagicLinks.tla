---------------------------- MODULE MCMagicLinks ----------------------------
(***************************************************************************)
(* Model-checking instance of MagicLinks.                                  *)
(***************************************************************************)
EXTENDS MagicLinks, TLC

Symmetry ==
    Permutations(Link) \cup Permutations(Email) \cup Permutations(User)
        \cup Permutations(Request)
=============================================================================
