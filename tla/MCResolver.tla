------------------------------ MODULE MCResolver ------------------------------
EXTENDS Resolver

CONSTANTS x, y, Null

MCNames == {x, y}

\* No definition names a particular identifier.
Symmetry == Permutations(MCNames)
=============================================================================
