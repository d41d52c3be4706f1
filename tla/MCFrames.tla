------------------------------- MODULE MCFrames -------------------------------
EXTENDS Frames

CONSTANTS int, void, Null, NotSet

MCTypes == {int, void}

\* No definition names a particular type.
Symmetry == Permutations(MCTypes)
=============================================================================
