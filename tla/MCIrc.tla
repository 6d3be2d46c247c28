------------------------------- MODULE MCIrc -------------------------------
(* A small instance of Irc for TLC.                                        *)
EXTENDS Irc
=============================================================================
