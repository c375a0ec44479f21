-------------------------- MODULE MCFederatedFlow --------------------------
EXTENDS FederatedFlow, TLC

CONSTANTS a, b, ua, ub, p1, i1

\* Two services; the second also has the address of the first, as services
\* that share a callback do.
MCCallbackUrl == (a :> <<ua>>) @@ (b :> <<ub, ua>>)

MCInviteFor == i1 :> [service |-> b, slug |-> p1]

\* The service on the shared host is the one that is revised.
MCRevisable == {b} \X {"google", "github", p1}

Symmetry == Permutations(Attempt) \cup Permutations(Handler)

=============================================================================
