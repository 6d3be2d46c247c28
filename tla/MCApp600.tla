------------------------------ MODULE MCApp600 ------------------------------
(* A small instance of App600 for TLC.                                     *)
EXTENDS App600
=============================================================================
