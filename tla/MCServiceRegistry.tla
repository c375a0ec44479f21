------------------------- MODULE MCServiceRegistry --------------------------
EXTENDS ServiceRegistry, TLC

MCForms == [active: BOOLEAN, sub_format: {None, "id"}]

Symmetry == Permutations(Request) \cup Permutations(Provider)
=============================================================================
