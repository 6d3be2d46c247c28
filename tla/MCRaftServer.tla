---------------------------- MODULE MCRaftServer ----------------------------
EXTENDS RaftServer, TLC

Symmetry == Permutations(Workers)
=============================================================================
