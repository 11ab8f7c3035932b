------------------------- MODULE MCRundownPlaylists -------------------------
EXTENDS RundownPlaylists, TLC

Symmetry == Permutations(Rundown) \cup Permutations(External)
=============================================================================
