-------------------------- MODULE MCWorkspaceCleanup --------------------------
EXTENDS WorkspaceCleanup, TLC
CONSTANTS u1, u2
Two == {u1, u2}
Same == Permutations(Two)
==============================================================================
