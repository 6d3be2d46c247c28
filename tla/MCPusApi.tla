------------------------------ MODULE MCPusApi ------------------------------
EXTENDS PusApi, TLC

Symmetry == Permutations(Workers)
=============================================================================
