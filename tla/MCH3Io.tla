------------------------------- MODULE MCH3Io -------------------------------
\* H3Io for model checking: the connections are interchangeable.
EXTENDS H3Io, TLC

ConnSymmetry == Permutations(Conns)
=============================================================================
