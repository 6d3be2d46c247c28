------------------------------ MODULE MCApp501 ------------------------------
(* Small instances of App501 for TLC.                                      *)
EXTENDS App501
=============================================================================
