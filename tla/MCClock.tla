------------------------------ MODULE MCClock ------------------------------
EXTENDS Clock
=============================================================================
