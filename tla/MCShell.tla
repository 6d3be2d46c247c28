------------------------------ MODULE MCShell ------------------------------
(***************************************************************************)
(* A small instance of Shell for TLC.  In a session the user runs either   *)
(* fibon or the commands that share the device: neither touches a variable *)
(* of the other, and together they would only multiply the states.         *)
(***************************************************************************)
EXTENDS Shell

CONSTANTS s1, s2

MCSubs == {s1, s2}
MCSubRounds == [s \in MCSubs |-> IF s = s1 THEN 2 ELSE 1]

VARIABLE session    \* what the user runs: "fibon" or "device"

MCInit ==
    /\ ShellInit
    /\ session \in {"fibon", "device"}
    /\ session = "fibon" => ~formatted

MCNext ==
    /\ ShellNext
    /\ IF session = "fibon" THEN fg' \in {"prompt", "fibon"} ELSE fg' # "fibon"
    /\ UNCHANGED session

MCSpec == MCInit /\ [][MCNext]_<<shellVars, session>> /\ ShellFairness
=============================================================================
