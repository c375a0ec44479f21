---------------------------- MODULE MCLinkInvites ----------------------------
EXTENDS LinkInvites, TLC

Symmetry == Permutations(User) \cup Permutations(Email) \cup Permutations(Invite)
            \cup Permutations(InviteRequest)

=============================================================================
