---------------------------- MODULE MCH3Session ----------------------------
\* H3Session for model checking: the streams are interchangeable.
EXTENDS H3Session, TLC

StreamSymmetry == Permutations(Streams)
=============================================================================
