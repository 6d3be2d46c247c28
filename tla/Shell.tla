------------------------------- MODULE Shell -------------------------------
(***************************************************************************)
(* The console and three of its commands: app500, fibon and coapcli.  The  *)
(* console runs one command at a time and reads the next line when it has  *)
(* returned, so a command that does not return is the last one; but the    *)
(* threads that coapcli lets go of run on beside the next commands, and    *)
(* mount, and may format, the device that app500 keeps its pipe on.        *)
(***************************************************************************)
EXTENDS App500, Fibon, CoapCli

ASSUME WorkersAssumption ==
    Workers \cap {"prompt", "format", "mounted", "app500", "fibon", "coapcli"} = {}

VARIABLES
    fg,         \* what the console's thread is in; a worker: it joins that one
    detached    \* history: the workers coapcli has let go of

shellVars == <<vars, fibVars, cliVars, fg, detached>>

ShellInit ==
    /\ Init
    /\ FibInit
    /\ CliInit
    /\ records > 0 => formatted
    /\ fg = "prompt"
    /\ detached = {}

-----------------------------------------------------------------------------
(* app500.                                                                 *)

\* lfs_mount succeeds
Mount500 ==
    /\ fg = "prompt"
    /\ runs < MaxRuns
    /\ formatted
    /\ fg' = "mounted"
    /\ UNCHANGED <<vars, fibVars, cliVars, detached>>

\* lfs_mount fails, whatever the device holds
MountFails500 ==
    /\ fg = "prompt"
    /\ runs < MaxRuns
    /\ MountFails("app500", Cardinality(Formatting))
    /\ fg' = "format"
    /\ UNCHANGED <<vars, fibVars, cliPc, framed, count, mount_lfs, detached>>

\* lfs_format, and lfs_mount again; the command goes on even if they fail.
Format500 ==
    /\ fg = "format"
    /\ Format("app500")
    /\ records' \in {0, records}
    /\ fg' = "mounted"
    /\ UNCHANGED <<running, runs, pc, round, pipe_lock, written, delivered>>
    /\ UNCHANGED <<fibVars, cliPc, framed, count, mount_lfs, detached>>

Start500 ==
    /\ fg = "mounted"
    /\ Start
    /\ fg' = "app500"
    /\ UNCHANGED <<fibVars, cliVars, detached>>

\* No file can be created where there is no file system.
Thread500(t) ==
    /\ ThreadStep(t)
    /\ records' > 0 => formatted
    /\ UNCHANGED <<fibVars, cliVars, fg, detached>>

End500 ==
    /\ fg = "app500"
    /\ JoinAll
    /\ fg' = "prompt"
    /\ UNCHANGED <<fibVars, cliVars, detached>>

-----------------------------------------------------------------------------
(* fibon.                                                                  *)

StartFibon ==
    /\ fg = "prompt"
    /\ FibStart
    /\ fg' = "fibon"
    /\ UNCHANGED <<vars, cliVars, detached>>

ThreadFibon(c) == FibStep(c) /\ UNCHANGED <<vars, cliVars, fg, detached>>

ConfigureNet == Configure /\ UNCHANGED <<vars, cliVars, fg, detached>>

EndFibon ==
    /\ fg = "fibon"
    /\ FibEnd
    /\ fg' = "prompt"
    /\ UNCHANGED <<vars, cliVars, detached>>

-----------------------------------------------------------------------------
(* coapcli.                                                                *)

\* A positive argument: a worker is started, and joined.
StartCli(w) ==
    /\ fg = "prompt"
    /\ CliSpawn(w)
    /\ fg' = w
    /\ UNCHANGED <<vars, fibVars, detached>>

\* Mistake: the worker is not joined.
EndCliEarly ==
    /\ fg \in Workers
    /\ CliReturn
    /\ fg' = "prompt"
    /\ UNCHANGED <<vars, fibVars, detached>>

EndCli ==
    /\ fg \in Workers
    /\ cliPc[fg] = "done"
    /\ CliReturn
    /\ fg' = "prompt"
    /\ UNCHANGED <<vars, fibVars, detached>>

\* A negative argument: one worker after another is started and let go of.
DetachCli(w) ==
    /\ fg \in {"prompt", "coapcli"}
    /\ CliSpawn(w)
    /\ detached' = detached \cup {w}
    /\ fg' = "coapcli"
    /\ UNCHANGED <<vars, fibVars>>

LeaveCli ==
    /\ fg = "coapcli"
    /\ CliReturn
    /\ fg' = "prompt"
    /\ UNCHANGED <<vars, fibVars, detached>>

\* Mistake: the device is formatted without a look at what it holds.
FailsAnyway(w) ==
    /\ cliPc[w] = "mount"
    /\ CliGoto(w, "format")
    /\ UNCHANGED <<framed, count, mount_lfs, device, vars, fibVars, fg, detached>>

\* A worker's lfs_mount fails.
WorkerMountFails(w) ==
    /\ CliMountFails(w, IF fg = "format" THEN 1 ELSE 0)
    /\ UNCHANGED <<vars, fibVars, fg, detached>>

\* A worker formats the device.  pipe0 is gone, unless app500 still finds it in
\* what its own lfs_t remembers.
WorkerFormat(w) ==
    /\ CliFormat(w)
    /\ records' \in {0, records}
    /\ UNCHANGED <<running, runs, pc, round, pipe_lock, written, delivered>>
    /\ UNCHANGED <<fibVars, fg, detached>>

WorkerStep(w) ==
    \/ CliQuiet(w) /\ UNCHANGED <<vars, fibVars, fg, detached>>
    \/ WorkerMountFails(w)
    \/ WorkerFormat(w)

-----------------------------------------------------------------------------

ShellStep ==
    \/ Format500 \/ Start500 \/ End500 \/ EndFibon \/ EndCli \/ LeaveCli

ShellNext ==
    \/ Mount500 \/ MountFails500 \/ StartFibon \/ ConfigureNet
    \/ \E w \in Workers : StartCli(w) \/ DetachCli(w) \/ WorkerStep(w)
    \/ ShellStep
    \/ \E t \in Threads : Thread500(t)
    \/ \E c \in Calls : ThreadFibon(c)

(* The threads of each command are scheduled and their sleeps end; what the   *)
(* user types is up to the user, and whether the network comes up is open.    *)
ShellFairness ==
    /\ WF_shellVars(ShellStep)
    /\ WF_shellVars(\E t \in Threads : Thread500(t))
    /\ WF_shellVars(\E c \in Calls : ThreadFibon(c))
    /\ WF_shellVars(\E w \in Workers : WorkerStep(w))

ShellSpec == ShellInit /\ [][ShellNext]_shellVars /\ ShellFairness

-----------------------------------------------------------------------------
(* Properties.                                                             *)

\* Every variable of the console and of its commands has its type.
ShellTypeOK ==
    /\ TypeOK /\ FibTypeOK /\ CliTypeOK
    /\ fg \in {"prompt", "format", "mounted", "app500", "fibon", "coapcli"} \cup Workers
    /\ erred \subseteq {"app500"} \cup Workers
    /\ detached \subseteq Workers

(***************************************************************************)
(* The console comes back: every command returns, whatever the threads it  *)
(* started and the ones coapcli has left behind do, except an app500 whose *)
(* subscriber has left with the lock and a fibon on a node whose network is*)
(* not configured, which waits in raft_sender.                             *)
(***************************************************************************)
ConsoleComesBack ==
    fg # "prompt" ~> \/ fg = "prompt"
                     \/ Abandoned
                     \/ fg = "fibon" /\ ~configured

(***************************************************************************)
(* A pipe0 once written survives the mounts of all commands, but in two    *)
(* cases: two mounters have overlapped, so that the second one formats what*)
(* the first has made, or somebody is about to format whose mount failed   *)
(* although the device held a file system.                                 *)
(***************************************************************************)
PipeSurvives == [][records > 0 /\ records' = 0 => overlap \/ erred # {}]_shellVars

(***************************************************************************)
(* Only a worker that coapcli has let go of can find something else in     *)
(* place of the count it was given a pointer to.                           *)
(***************************************************************************)
CountIsRight == \A w \in Workers : count[w] = "garbage" => w \in detached

-----------------------------------------------------------------------------
(* The inductive invariant behind the properties above, but for fibon's and *)
(* the console's return.                                                    *)

Typed ==
    /\ TypeOK /\ CliTypeOK
    /\ fg \in {"prompt", "format", "mounted", "app500", "fibon", "coapcli"} \cup Workers
    /\ erred \subseteq {"app500"} \cup Workers
    /\ detached \subseteq Workers

\* The threads of app500 run inside the command, and pipe0 is on a device with a
\* file system.
InPlace500 ==
    /\ running => fg = "app500"
    /\ ~running => \A t \in Threads : pc[t] = "done"
    /\ records > 0 => formatted

\* Whoever is about to format a file system has seen its mount fail there, or has
\* overlapped with another, as has whoever is not the only one about to format.
FormatsOverlap ==
    /\ fg = "format" => (formatted => overlap \/ "app500" \in erred)
    /\ \A w \in Formatting : formatted => overlap \/ w \in erred
    /\ fg = "format" /\ Formatting # {} => overlap
    /\ \A u, w \in Formatting : u # w => overlap

\* A worker that has not read its count yet has been let go of, or its frame is
\* there and coapcli waits for it.
FramedOrDetached ==
    \A w \in Workers : cliPc[w] = "copy" => w \in detached \/ (w \in framed /\ fg = w)

IndInv ==
    Typed /\ LockAccounted /\ InPlace500 /\ FormatsOverlap /\ FramedOrDetached /\ CountIsRight
=============================================================================
