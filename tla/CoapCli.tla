------------------------------ MODULE CoapCli ------------------------------
(***************************************************************************)
(* The console command coapcli (pus/app/coapcli/coapcli.c): workers that   *)
(* mount the file system if mount_lfs says that nobody has, register the   *)
(* callback and ask the sensor.  A positive argument starts them one after *)
(* the other and joins each; a negative one starts them all at once and    *)
(* lets go of them, and of the count they have a pointer to.               *)
(*                                                                         *)
(* The device is the one app500 mounts too.  A mount fails on a device that*)
(* holds no file system, and may fail on one that does (a sector that reads*)
(* wrong, memory that runs out); either way its caller then formats it.    *)
(***************************************************************************)
EXTENDS Naturals, FiniteSets

CONSTANTS
    Workers         \* workers started, over all invocations

ASSUME CliAssumption == IsFiniteSet(Workers)

VARIABLES
    cliPc,      \* where each worker is
    framed,     \* the workers whose coapcli, with its pull_count_r, has not returned
    count,      \* the pull_count each worker has read: "unread", "right", "garbage"
    mount_lfs,
    formatted,  \* does the device hold a file system?
    overlap,    \* history: did a mount fail while another mounter was about to format?
    erred       \* history: those about to format whose mount of a file system failed

device == <<formatted, overlap, erred>>
cliVars == <<cliPc, framed, count, mount_lfs, device>>

CliInit ==
    /\ cliPc = [w \in Workers |-> "none"]
    /\ framed = {}
    /\ count = [w \in Workers |-> "unread"]
    /\ mount_lfs = FALSE
    /\ formatted \in BOOLEAN
    /\ overlap = FALSE
    /\ erred = {}

CliGoto(w, l) == cliPc' = [cliPc EXCEPT ![w] = l]

\* thread_create and thread_resume, from a frame that is there
CliSpawn(w) ==
    /\ cliPc[w] = "none"
    /\ framed' = framed \cup {w}
    /\ CliGoto(w, "copy")
    /\ UNCHANGED <<count, mount_lfs, device>>

\* coapcli returns.
CliReturn ==
    /\ framed' = {}
    /\ UNCHANGED <<cliPc, count, mount_lfs, device>>

\* int pull_count = *((int *) argument)
CliCopy(w) ==
    /\ cliPc[w] = "copy"
    /\ \E n \in IF w \in framed THEN {"right"} ELSE {"right", "garbage"} :
           count' = [count EXCEPT ![w] = n]
    /\ CliGoto(w, IF mount_lfs THEN "ask" ELSE "mount")
    /\ UNCHANGED <<framed, mount_lfs, device>>

\* bio_open or udp_open fails: the worker returns -1.
CliFails(w) ==
    /\ cliPc[w] \in {"mount", "ask"}
    /\ CliGoto(w, "done")
    /\ UNCHANGED <<framed, count, mount_lfs, device>>

\* lfs_mount succeeds.
CliMount(w) ==
    /\ cliPc[w] = "mount"
    /\ formatted
    /\ mount_lfs' = TRUE
    /\ CliGoto(w, "ask")
    /\ UNCHANGED <<framed, count, device>>

\* The mount of m fails; others counts those who are about to format already.
MountFails(m, others) ==
    /\ overlap' = (overlap \/ others > 0)
    /\ erred' = IF formatted THEN erred \cup {m} ELSE erred
    /\ UNCHANGED formatted

Formatting == {w \in Workers : cliPc[w] = "format"}

\* lfs_mount fails.
CliMountFails(w, others) ==
    /\ cliPc[w] = "mount"
    /\ MountFails(w, Cardinality(Formatting) + others)
    /\ CliGoto(w, "format")
    /\ UNCHANGED <<framed, count, mount_lfs>>

\* lfs_format by m, of whatever the device holds by now.  When it fails, the device
\* is left as it was.
Format(m) ==
    /\ formatted' \in {formatted, TRUE}
    /\ erred' = erred \ {m}
    /\ UNCHANGED overlap

\* lfs_format, and lfs_mount again; what they return is not looked at.
CliFormat(w) ==
    /\ cliPc[w] = "format"
    /\ Format(w)
    /\ mount_lfs' = TRUE
    /\ CliGoto(w, "ask")
    /\ UNCHANGED <<framed, count>>

\* udp_listen, udp_open, and as many requests as the count says, each built, sent
\* and slept on.
CliAsk(w) ==
    /\ cliPc[w] = "ask"
    /\ CliGoto(w, "done")
    /\ UNCHANGED <<framed, count, mount_lfs, device>>

\* What a worker does that leaves the device alone.
CliQuiet(w) == CliCopy(w) \/ CliFails(w) \/ CliMount(w) \/ CliAsk(w)

-----------------------------------------------------------------------------
(* Properties.                                                             *)

CliTypeOK ==
    /\ cliPc \in [Workers -> {"none", "copy", "mount", "format", "ask", "done"}]
    /\ framed \subseteq Workers
    /\ count \in [Workers -> {"unread", "right", "garbage"}]
    /\ mount_lfs \in BOOLEAN
    /\ formatted \in BOOLEAN
    /\ overlap \in BOOLEAN
=============================================================================
