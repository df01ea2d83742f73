------------------------- MODULE MCWorktreeCleanup -------------------------
EXTENDS WorktreeCleanup

MCManifest == <<"x", "y">>
=============================================================================
