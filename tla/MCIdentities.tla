---------------------------- MODULE MCIdentities ----------------------------
(***************************************************************************)
(* Model-checking instance of Identities.                                  *)
(***************************************************************************)
EXTENDS Identities, TLC

Policy(auto, create) ==
    [AutoLink |-> auto, AutoRegister |-> create, EmailUntrusted |-> FALSE]

\* A strict service and an open one.
MCPolicies == {Policy(FALSE, FALSE), Policy(TRUE, TRUE)}

\* Sound where every account reaches the admin login; elsewhere AdminCapable
\* and Google tell accounts apart.
Symmetry ==
    Permutations(User) \cup Permutations(Email) \cup Permutations(Request)
        \cup Permutations(Subject)

\* No guard reads sessions, and of the properties only UnlinkEndsSessions.
WithoutSessions == <<users, idents, req>>
=============================================================================
