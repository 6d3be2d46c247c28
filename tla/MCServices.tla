----------------------------- MODULE MCServices -----------------------------
(* A small instance of Services for TLC.                                   *)
EXTENDS Services
=============================================================================
