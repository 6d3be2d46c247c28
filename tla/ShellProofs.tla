----------------------------- MODULE ShellProofs -----------------------------
(***************************************************************************)
(* What the console and its commands keep, for every number of             *)
(* subscribers, rounds, workers and invocations: IndInv is inductive, and  *)
(* the lock of app500, the counts of coapcli and the life of pipe0 follow; *)
(* FibInv is, for every argument of fibon, and its series follows.         *)
(***************************************************************************)
EXTENDS Shell, FiniteSetTheorems, TLAPS

\* The number of workers about to format says whether there are any.
LEMMA SomeFormatting ==
  /\ Cardinality(Formatting) \in Nat
  /\ Cardinality(Formatting) > 0 <=> Formatting # {}
<1>1. IsFiniteSet(Formatting)
  BY CliAssumption, FS_Subset DEF Formatting
<1>2. Cardinality(Formatting) \in Nat
  BY <1>1, FS_CardinalityType
<1> QED
  BY <1>1, <1>2, FS_EmptySet

-----------------------------------------------------------------------------
(* Every action keeps the invariant.                                       *)

\* app500 finds a file system.
LEMMA Mount500Keeps ==
  ASSUME IndInv, Mount500
  PROVE  IndInv'
<1> USE DEF IndInv, Typed, TypeOK, CliTypeOK, vars, fibVars, cliVars, device,
    Mount500
<1>1. Typed'
  OBVIOUS
<1>2. LockAccounted'
  BY DEF LockAccounted
<1>3. InPlace500'
  BY DEF InPlace500
<1>4. FormatsOverlap'
  BY DEF FormatsOverlap, Formatting
<1>5. FramedOrDetached'
  BY WorkersAssumption DEF FramedOrDetached
<1>6. CountIsRight'
  BY DEF CountIsRight
<1> QED
  BY <1>1, <1>2, <1>3, <1>4, <1>5, <1>6

\* Its mount fails: whoever is about to format already has overlapped with it.
LEMMA MountFails500Keeps ==
  ASSUME IndInv, MountFails500
  PROVE  IndInv'
<1> USE DEF IndInv, Typed, TypeOK, CliTypeOK, vars, fibVars, cliVars, device,
    MountFails500, MountFails
<1>1. Typed'
  OBVIOUS
<1>2. LockAccounted'
  BY DEF LockAccounted
<1>3. InPlace500'
  BY DEF InPlace500
<1>4. FormatsOverlap'
  <2>1. /\ formatted' = formatted /\ erred \subseteq erred'
        /\ formatted => "app500" \in erred'
    OBVIOUS
  <2>2. overlap \/ Formatting # {} => overlap'
    BY SomeFormatting
  <2>3. Formatting' = Formatting
    BY DEF Formatting
  <2> QED
    BY <2>1, <2>2, <2>3 DEF FormatsOverlap
<1>5. FramedOrDetached'
  BY WorkersAssumption DEF FramedOrDetached
<1>6. CountIsRight'
  BY DEF CountIsRight
<1> QED
  BY <1>1, <1>2, <1>3, <1>4, <1>5, <1>6

\* app500 formats the device and with it pipe0, or fails to.
LEMMA Format500Keeps ==
  ASSUME IndInv, Format500
  PROVE  IndInv'
<1> USE DEF IndInv, Typed, TypeOK, CliTypeOK, vars, fibVars, cliVars, device,
    Format500, Format
<1>1. Typed'
  OBVIOUS
<1>2. LockAccounted'
  BY DEF LockAccounted
<1>3. InPlace500'
  <2>1. formatted => formatted'
    OBVIOUS
  <2>2. records' > 0 => records > 0
    OBVIOUS
  <2> QED
    BY <2>1, <2>2 DEF InPlace500
<1>4. FormatsOverlap'
  BY DEF FormatsOverlap, Formatting
<1>5. FramedOrDetached'
  BY WorkersAssumption DEF FramedOrDetached
<1>6. CountIsRight'
  BY DEF CountIsRight
<1> QED
  BY <1>1, <1>2, <1>3, <1>4, <1>5, <1>6

\* app500 starts its three threads with the lock free.
LEMMA Start500Keeps ==
  ASSUME IndInv, Start500
  PROVE  IndInv'
<1> USE DEF IndInv, Typed, TypeOK, CliTypeOK, vars, fibVars, cliVars, device,
    Start500, Start
<1>1. Typed'
  BY MaxRunsAssumption
<1>2. LockAccounted'
  BY ThreadsAssumption DEF LockAccounted, InPlace500, Threads
<1>3. InPlace500'
  BY DEF InPlace500
<1>4. FormatsOverlap'
  BY DEF FormatsOverlap, Formatting
<1>5. FramedOrDetached'
  BY WorkersAssumption DEF FramedOrDetached
<1>6. CountIsRight'
  BY DEF CountIsRight
<1> QED
  BY <1>1, <1>2, <1>3, <1>4, <1>5, <1>6

\* app500 has joined its threads.
LEMMA End500Keeps ==
  ASSUME IndInv, End500
  PROVE  IndInv'
<1> USE DEF IndInv, Typed, TypeOK, CliTypeOK, vars, fibVars, cliVars, device,
    End500, JoinAll
<1>1. Typed'
  OBVIOUS
<1>2. LockAccounted'
  BY DEF LockAccounted
<1>3. InPlace500'
  BY DEF InPlace500
<1>4. FormatsOverlap'
  BY DEF FormatsOverlap, Formatting
<1>5. FramedOrDetached'
  BY WorkersAssumption DEF FramedOrDetached
<1>6. CountIsRight'
  BY DEF CountIsRight
<1> QED
  BY <1>1, <1>2, <1>3, <1>4, <1>5, <1>6

\* fibon starts from the prompt.
LEMMA StartFibonKeeps ==
  ASSUME IndInv, StartFibon
  PROVE  IndInv'
<1> USE DEF IndInv, Typed, TypeOK, CliTypeOK, vars, fibVars, cliVars, device,
    StartFibon
<1>1. Typed'
  OBVIOUS
<1>2. LockAccounted'
  BY DEF LockAccounted
<1>3. InPlace500'
  BY DEF InPlace500
<1>4. FormatsOverlap'
  BY DEF FormatsOverlap, Formatting
<1>5. FramedOrDetached'
  BY WorkersAssumption DEF FramedOrDetached
<1>6. CountIsRight'
  BY DEF CountIsRight
<1> QED
  BY <1>1, <1>2, <1>3, <1>4, <1>5, <1>6

\* fibon returns to the prompt.
LEMMA EndFibonKeeps ==
  ASSUME IndInv, EndFibon
  PROVE  IndInv'
<1> USE DEF IndInv, Typed, TypeOK, CliTypeOK, vars, fibVars, cliVars, device,
    EndFibon
<1>1. Typed'
  OBVIOUS
<1>2. LockAccounted'
  BY DEF LockAccounted
<1>3. InPlace500'
  BY DEF InPlace500
<1>4. FormatsOverlap'
  BY DEF FormatsOverlap, Formatting
<1>5. FramedOrDetached'
  BY WorkersAssumption DEF FramedOrDetached
<1>6. CountIsRight'
  BY DEF CountIsRight
<1> QED
  BY <1>1, <1>2, <1>3, <1>4, <1>5, <1>6

\* A thread of fibon moves and leaves the device and the lock alone.
LEMMA ThreadFibonKeeps ==
  ASSUME IndInv, NEW c \in Calls, ThreadFibon(c)
  PROVE  IndInv'
<1> USE DEF IndInv, Typed, TypeOK, CliTypeOK, vars, fibVars, cliVars, device,
    ThreadFibon
<1>1. Typed'
  OBVIOUS
<1>2. LockAccounted'
  BY DEF LockAccounted
<1>3. InPlace500'
  BY DEF InPlace500
<1>4. FormatsOverlap'
  BY DEF FormatsOverlap, Formatting
<1>5. FramedOrDetached'
  BY DEF FramedOrDetached
<1>6. CountIsRight'
  BY DEF CountIsRight
<1> QED
  BY <1>1, <1>2, <1>3, <1>4, <1>5, <1>6

\* coapcli starts a worker and waits for it.
LEMMA StartCliKeeps ==
  ASSUME IndInv, NEW v \in Workers, StartCli(v)
  PROVE  IndInv'
<1> USE DEF IndInv, Typed, TypeOK, CliTypeOK, vars, fibVars, cliVars, device,
    StartCli, CliSpawn, CliGoto
<1>1. Typed'
  OBVIOUS
<1>2. LockAccounted'
  BY DEF LockAccounted
<1>3. InPlace500'
  BY WorkersAssumption DEF InPlace500, LockAccounted
<1>4. FormatsOverlap'
  BY WorkersAssumption DEF FormatsOverlap, InPlace500, Formatting
<1>5. FramedOrDetached'
  BY WorkersAssumption DEF FramedOrDetached
<1>6. CountIsRight'
  BY DEF CountIsRight
<1> QED
  BY <1>1, <1>2, <1>3, <1>4, <1>5, <1>6

\* coapcli starts a worker and lets go of it.
LEMMA DetachCliKeeps ==
  ASSUME IndInv, NEW v \in Workers, DetachCli(v)
  PROVE  IndInv'
<1> USE DEF IndInv, Typed, TypeOK, CliTypeOK, vars, fibVars, cliVars, device,
    DetachCli, CliSpawn, CliGoto
<1>1. Typed'
  OBVIOUS
<1>2. LockAccounted'
  BY DEF LockAccounted
<1>3. InPlace500'
  BY DEF InPlace500
<1>4. FormatsOverlap'
  BY DEF FormatsOverlap, Formatting
<1>5. FramedOrDetached'
  BY WorkersAssumption DEF FramedOrDetached
<1>6. CountIsRight'
  BY DEF CountIsRight
<1> QED
  BY <1>1, <1>2, <1>3, <1>4, <1>5, <1>6

\* coapcli has joined its worker, which has long read its count.
LEMMA EndCliKeeps ==
  ASSUME IndInv, EndCli
  PROVE  IndInv'
<1> USE DEF IndInv, Typed, TypeOK, CliTypeOK, vars, fibVars, cliVars, device,
    EndCli, CliReturn
<1>1. Typed'
  OBVIOUS
<1>2. LockAccounted'
  BY DEF LockAccounted
<1>3. InPlace500'
  BY WorkersAssumption DEF InPlace500, LockAccounted
<1>4. FormatsOverlap'
  BY DEF FormatsOverlap, Formatting
<1>5. FramedOrDetached'
  BY DEF FramedOrDetached
<1>6. CountIsRight'
  BY DEF CountIsRight
<1> QED
  BY <1>1, <1>2, <1>3, <1>4, <1>5, <1>6

\* coapcli returns, and its frame is gone, under workers it has let go of.
LEMMA LeaveCliKeeps ==
  ASSUME IndInv, LeaveCli
  PROVE  IndInv'
<1> USE DEF IndInv, Typed, TypeOK, CliTypeOK, vars, fibVars, cliVars, device,
    LeaveCli, CliReturn
<1>1. Typed'
  OBVIOUS
<1>2. LockAccounted'
  BY DEF LockAccounted
<1>3. InPlace500'
  BY DEF InPlace500
<1>4. FormatsOverlap'
  BY DEF FormatsOverlap, Formatting
<1>5. FramedOrDetached'
  BY WorkersAssumption DEF FramedOrDetached
<1>6. CountIsRight'
  BY DEF CountIsRight
<1> QED
  BY <1>1, <1>2, <1>3, <1>4, <1>5, <1>6

\* A worker reads its count: garbage only without its frame.
LEMMA CliCopyKeeps ==
  ASSUME IndInv, NEW v \in Workers, CliCopy(v), UNCHANGED <<vars, fibVars, fg, detached>>
  PROVE  IndInv'
<1> USE DEF IndInv, Typed, TypeOK, CliTypeOK, vars, fibVars, cliVars, device,
    CliCopy, CliGoto
<1>1. Typed'
  OBVIOUS
<1>2. LockAccounted'
  BY DEF LockAccounted
<1>3. InPlace500'
  BY DEF InPlace500
<1>4. FormatsOverlap'
  BY DEF FormatsOverlap, Formatting
<1>5. FramedOrDetached'
  BY DEF FramedOrDetached
<1>6. CountIsRight'
  BY WorkersAssumption DEF CountIsRight, FramedOrDetached
<1> QED
  BY <1>1, <1>2, <1>3, <1>4, <1>5, <1>6

\* A worker cannot open the device or its socket.
LEMMA CliFailsKeeps ==
  ASSUME IndInv, NEW v \in Workers, CliFails(v), UNCHANGED <<vars, fibVars, fg, detached>>
  PROVE  IndInv'
<1> USE DEF IndInv, Typed, TypeOK, CliTypeOK, vars, fibVars, cliVars, device,
    CliFails, CliGoto
<1>1. Typed'
  OBVIOUS
<1>2. LockAccounted'
  BY DEF LockAccounted
<1>3. InPlace500'
  BY DEF InPlace500
<1>4. FormatsOverlap'
  BY DEF FormatsOverlap, Formatting
<1>5. FramedOrDetached'
  BY DEF FramedOrDetached
<1>6. CountIsRight'
  BY DEF CountIsRight
<1> QED
  BY <1>1, <1>2, <1>3, <1>4, <1>5, <1>6

\* A worker finds a file system.
LEMMA CliMountKeeps ==
  ASSUME IndInv, NEW v \in Workers, CliMount(v), UNCHANGED <<vars, fibVars, fg, detached>>
  PROVE  IndInv'
<1> USE DEF IndInv, Typed, TypeOK, CliTypeOK, vars, fibVars, cliVars, device,
    CliMount, CliGoto
<1>1. Typed'
  OBVIOUS
<1>2. LockAccounted'
  BY DEF LockAccounted
<1>3. InPlace500'
  BY DEF InPlace500
<1>4. FormatsOverlap'
  BY DEF FormatsOverlap, Formatting
<1>5. FramedOrDetached'
  BY DEF FramedOrDetached
<1>6. CountIsRight'
  BY DEF CountIsRight
<1> QED
  BY <1>1, <1>2, <1>3, <1>4, <1>5, <1>6

\* A worker asks the sensor and ends.
LEMMA CliAskKeeps ==
  ASSUME IndInv, NEW v \in Workers, CliAsk(v), UNCHANGED <<vars, fibVars, fg, detached>>
  PROVE  IndInv'
<1> USE DEF IndInv, Typed, TypeOK, CliTypeOK, vars, fibVars, cliVars, device,
    CliAsk, CliGoto
<1>1. Typed'
  OBVIOUS
<1>2. LockAccounted'
  BY DEF LockAccounted
<1>3. InPlace500'
  BY DEF InPlace500
<1>4. FormatsOverlap'
  BY DEF FormatsOverlap, Formatting
<1>5. FramedOrDetached'
  BY DEF FramedOrDetached
<1>6. CountIsRight'
  BY DEF CountIsRight
<1> QED
  BY <1>1, <1>2, <1>3, <1>4, <1>5, <1>6

\* A worker's mount fails: whoever is about to format already has overlapped with
\* it.
LEMMA WorkerMountFailsKeeps ==
  ASSUME IndInv, NEW v \in Workers, WorkerMountFails(v)
  PROVE  IndInv'
<1> USE DEF IndInv, Typed, TypeOK, CliTypeOK, vars, fibVars, cliVars, device,
    WorkerMountFails, CliMountFails, MountFails, CliGoto
<1>1. Typed'
  OBVIOUS
<1>2. LockAccounted'
  BY DEF LockAccounted
<1>3. InPlace500'
  BY DEF InPlace500
<1>4. FormatsOverlap'
  <2> DEFINE others == IF fg = "format" THEN 1 ELSE 0
  <2>1. /\ formatted' = formatted /\ fg' = fg /\ erred \subseteq erred'
        /\ formatted => v \in erred'
    BY DEF WorkerMountFails, CliMountFails, MountFails
  <2>2. overlap' = (overlap \/ Cardinality(Formatting) + others > 0)
    BY Zenon DEF WorkerMountFails, CliMountFails, MountFails
  <2>3. Formatting # {} \/ fg = "format" => Cardinality(Formatting) + others > 0
    BY SomeFormatting
  <2>4. overlap \/ Formatting # {} \/ fg = "format" => overlap'
    BY <2>2, <2>3
  <2>5. Formatting' = Formatting \cup {v}
    BY DEF WorkerMountFails, CliMountFails, CliGoto, Formatting, Typed, CliTypeOK
  <2> QED
    BY <2>1, <2>4, <2>5 DEF FormatsOverlap
<1>5. FramedOrDetached'
  BY DEF FramedOrDetached
<1>6. CountIsRight'
  BY DEF CountIsRight
<1> QED
  BY <1>1, <1>2, <1>3, <1>4, <1>5, <1>6

\* A worker formats the device: whoever else is about to has overlapped with it.
LEMMA WorkerFormatKeeps ==
  ASSUME IndInv, NEW v \in Workers, WorkerFormat(v)
  PROVE  IndInv'
<1> USE DEF IndInv, Typed, TypeOK, CliTypeOK, vars, fibVars, cliVars, device,
    WorkerFormat, CliFormat, Format, CliGoto
<1>1. Typed'
  OBVIOUS
<1>2. LockAccounted'
  BY DEF LockAccounted
<1>3. InPlace500'
  <2>1. formatted => formatted'
    OBVIOUS
  <2>2. records' > 0 => records > 0
    OBVIOUS
  <2> QED
    BY <2>1, <2>2 DEF InPlace500
<1>4. FormatsOverlap'
  BY DEF FormatsOverlap, Formatting
<1>5. FramedOrDetached'
  BY DEF FramedOrDetached
<1>6. CountIsRight'
  BY DEF CountIsRight
<1> QED
  BY <1>1, <1>2, <1>3, <1>4, <1>5, <1>6

\* A thread of app500 takes the free lock.
LEMMA AcquireKeeps ==
  ASSUME IndInv, NEW t \in Threads, Acquire(t),
         UNCHANGED <<fibVars, cliVars, fg, detached>>
  PROVE  IndInv'
<1> USE DEF IndInv, Typed, TypeOK, CliTypeOK, vars, fibVars, cliVars, device,
    Acquire, Threads
<1>1. Typed'
  OBVIOUS
<1>2. LockAccounted'
  BY ThreadsAssumption DEF LockAccounted, InPlace500
<1>3. InPlace500'
  BY DEF InPlace500
<1>4. FormatsOverlap'
  BY DEF FormatsOverlap, Formatting
<1>5. FramedOrDetached'
  BY DEF FramedOrDetached
<1>6. CountIsRight'
  BY DEF CountIsRight
<1> QED
  BY <1>1, <1>2, <1>3, <1>4, <1>5, <1>6

\* pub500 writes its record and releases.
LEMMA PublishKeeps ==
  ASSUME IndInv, NEW t \in Threads, Publish, records' > 0 => formatted,
         UNCHANGED <<fibVars, cliVars, fg, detached>>
  PROVE  IndInv'
<1> USE DEF IndInv, Typed, TypeOK, CliTypeOK, vars, fibVars, cliVars, device,
    Publish, WriteAtStart, Threads
<1>1. Typed'
  OBVIOUS
<1>2. LockAccounted'
  BY ThreadsAssumption DEF LockAccounted, InPlace500
<1>3. InPlace500'
  BY DEF InPlace500
<1>4. FormatsOverlap'
  BY DEF FormatsOverlap, Formatting
<1>5. FramedOrDetached'
  BY DEF FramedOrDetached
<1>6. CountIsRight'
  BY DEF CountIsRight
<1> QED
  BY <1>1, <1>2, <1>3, <1>4, <1>5, <1>6

\* A thread that cannot open the pipe releases and returns.
LEMMA GiveUpKeeps ==
  ASSUME IndInv, NEW t \in Threads, pc[t] = "held", GiveUp(t),
         UNCHANGED <<fibVars, cliVars, fg, detached>>
  PROVE  IndInv'
<1> USE DEF IndInv, Typed, TypeOK, CliTypeOK, vars, fibVars, cliVars, device,
    GiveUp, Threads
<1>1. Typed'
  OBVIOUS
<1>2. LockAccounted'
  BY ThreadsAssumption DEF LockAccounted, InPlace500
<1>3. InPlace500'
  BY DEF InPlace500
<1>4. FormatsOverlap'
  BY DEF FormatsOverlap, Formatting
<1>5. FramedOrDetached'
  BY DEF FramedOrDetached
<1>6. CountIsRight'
  BY DEF CountIsRight
<1> QED
  BY <1>1, <1>2, <1>3, <1>4, <1>5, <1>6

\* A subscriber reads the record and leaves, with the lock if nothing is behind it.
LEMMA SubscribeKeeps ==
  ASSUME IndInv, NEW t \in Threads, Subscribe(t),
         UNCHANGED <<fibVars, cliVars, fg, detached>>
  PROVE  IndInv'
<1> USE DEF IndInv, Typed, TypeOK, CliTypeOK, vars, fibVars, cliVars, device,
    Subscribe, Leave, Threads
<1>1. Typed'
  OBVIOUS
<1>2. LockAccounted'
  BY DEF LockAccounted
<1>3. InPlace500'
  BY DEF InPlace500
<1>4. FormatsOverlap'
  BY DEF FormatsOverlap, Formatting
<1>5. FramedOrDetached'
  BY DEF FramedOrDetached
<1>6. CountIsRight'
  BY DEF CountIsRight
<1> QED
  BY <1>1, <1>2, <1>3, <1>4, <1>5, <1>6

\* A thread has slept and goes on, or ends.
LEMMA NextRoundKeeps ==
  ASSUME IndInv, NEW t \in Threads, NextRound(t),
         UNCHANGED <<fibVars, cliVars, fg, detached>>
  PROVE  IndInv'
<1> USE DEF IndInv, Typed, TypeOK, CliTypeOK, vars, fibVars, cliVars, device,
    NextRound, Threads
<1>1. Typed'
  OBVIOUS
<1>2. LockAccounted'
  BY DEF LockAccounted
<1>3. InPlace500'
  BY DEF InPlace500
<1>4. FormatsOverlap'
  BY DEF FormatsOverlap, Formatting
<1>5. FramedOrDetached'
  BY DEF FramedOrDetached
<1>6. CountIsRight'
  BY DEF CountIsRight
<1> QED
  BY <1>1, <1>2, <1>3, <1>4, <1>5, <1>6

\* A step of a thread of app500 keeps the invariant.
LEMMA Thread500Keeps ==
  ASSUME IndInv, NEW t \in Threads, Thread500(t)
  PROVE  IndInv'
<1>1. UNCHANGED <<fibVars, cliVars, fg, detached>> /\ (records' > 0 => formatted)
  BY DEF Thread500
<1>2. CASE Acquire(t)
  BY <1>1, <1>2, AcquireKeeps
<1>3. CASE t = Pub /\ Publish
  BY <1>1, <1>3, PublishKeeps
<1>4. CASE t = Pub /\ PublishFails
  BY <1>1, <1>4, GiveUpKeeps DEF PublishFails
<1>5. CASE Subscribe(t)
  BY <1>1, <1>5, SubscribeKeeps
<1>6. CASE SubscribeFails(t)
  BY <1>1, <1>6, GiveUpKeeps DEF SubscribeFails
<1>7. CASE NextRound(t)
  BY <1>1, <1>7, NextRoundKeeps
<1> QED
  BY <1>2, <1>3, <1>4, <1>5, <1>6, <1>7 DEF Thread500, ThreadStep

\* A step of a worker of coapcli keeps the invariant.
LEMMA WorkerKeeps ==
  ASSUME IndInv, NEW v \in Workers, WorkerStep(v)
  PROVE  IndInv'
<1>1. CASE CliQuiet(v) /\ UNCHANGED <<vars, fibVars, fg, detached>>
  BY <1>1, CliCopyKeeps, CliFailsKeeps, CliMountKeeps, CliAskKeeps DEF CliQuiet
<1>2. CASE WorkerMountFails(v)
  BY <1>2, WorkerMountFailsKeeps
<1>3. CASE WorkerFormat(v)
  BY <1>3, WorkerFormatKeeps
<1> QED
  BY <1>1, <1>2, <1>3 DEF WorkerStep

\* The invariant holds when the console comes up: no command runs.
LEMMA InitInv == ShellInit => IndInv
<1> SUFFICES ASSUME ShellInit PROVE IndInv
  OBVIOUS
<1> USE DEF ShellInit, Init, CliInit
<1>1. Typed
  <2>1. TypeOK
    <3>1. runs \in 0 .. MaxRuns /\ written \in Nat /\ delivered \in Nat
      BY MaxRunsAssumption
    <3>2. pc \in [Threads -> {"acquire", "held", "sleep", "done", "gone"}]
      OBVIOUS
    <3>3. round \in [Threads -> Nat]
      OBVIOUS
    <3> QED
      BY <3>1, <3>2, <3>3 DEF TypeOK
  <2>2. CliTypeOK
    BY DEF CliTypeOK
  <2> QED
    BY <2>1, <2>2 DEF Typed
<1>2. LockAccounted
  BY DEF LockAccounted
<1>3. InPlace500
  BY DEF InPlace500
<1>4. FormatsOverlap
  BY DEF FormatsOverlap, Formatting
<1>5. FramedOrDetached
  BY DEF FramedOrDetached
<1>6. CountIsRight
  BY DEF CountIsRight
<1> QED
  BY <1>1, <1>2, <1>3, <1>4, <1>5, <1>6 DEF IndInv

\* Every step of the console, of its commands and of the workers keeps it.
LEMMA StepInv == IndInv /\ [ShellNext]_shellVars => IndInv'
<1> SUFFICES ASSUME IndInv, [ShellNext]_shellVars PROVE IndInv'
  OBVIOUS
<1>1. CASE Mount500 \/ MountFails500 \/ StartFibon
  BY <1>1, Mount500Keeps, MountFails500Keeps, StartFibonKeeps
<1>2. CASE \E w \in Workers : StartCli(w) \/ DetachCli(w) \/ WorkerStep(w)
  BY <1>2, StartCliKeeps, DetachCliKeeps, WorkerKeeps
<1>3. CASE ShellStep
  BY <1>3, Format500Keeps, Start500Keeps, End500Keeps, EndFibonKeeps, EndCliKeeps,
     LeaveCliKeeps DEF ShellStep
<1>4. CASE \E t \in Threads : Thread500(t)
  BY <1>4, Thread500Keeps
<1>5. CASE \E c \in Calls : ThreadFibon(c)
  BY <1>5, ThreadFibonKeeps
<1>6. CASE UNCHANGED <<vars, cliVars, fg, detached>>
  BY <1>6 DEF vars, cliVars, device, IndInv, Typed, TypeOK, CliTypeOK,
     LockAccounted, InPlace500, FormatsOverlap, Formatting, FramedOrDetached, CountIsRight
<1>7. CASE ConfigureNet \/ UNCHANGED shellVars
  BY <1>6, <1>7 DEF ConfigureNet, shellVars
<1> QED
  BY <1>1, <1>2, <1>3, <1>4, <1>5, <1>7 DEF ShellNext

-----------------------------------------------------------------------------

\* The inductive invariant holds throughout, for every number of subscribers,
\* rounds, workers and invocations.
THEOREM Invariance == ShellSpec => []IndInv
  BY InitInv, StepInv, PTL DEF ShellSpec

\* pipe_lock is held by the thread of app500 that uses pipe0 or by the one that
\* has left with it, and by nobody else, whatever runs beside app500.
THEOREM LockIsAccounted == ShellSpec => []LockAccounted
<1>1. IndInv => LockAccounted
  BY DEF IndInv
<1> QED
  BY <1>1, Invariance, PTL

\* A worker that coapcli waits for reads the count it was given.
THEOREM CountsAreRight == ShellSpec => []CountIsRight
<1>1. IndInv => CountIsRight
  BY DEF IndInv
<1> QED
  BY <1>1, Invariance, PTL

\* Once a subscriber of app500 has left with pipe_lock nothing more is written or
\* read before the command has returned: the lock is its, so nobody gets behind
\* mutex_acquire.
THEOREM AbandonedIsDead == ShellSpec => DeadOnceAbandoned
<1>1. ASSUME IndInv, [ShellNext]_shellVars
      PROVE  [Abandoned /\ running' => UNCHANGED <<written, delivered>>]_vars
  <2> SUFFICES ASSUME Abandoned, running' PROVE UNCHANGED <<written, delivered>>
    OBVIOUS
  <2>1. PICK s \in Subs : pc[s] = "gone"
    BY DEF Abandoned
  <2>2. pipe_lock = s
    BY <1>1, <2>1 DEF Abandoned, IndInv, LockAccounted, Threads
  <2>3. \A t \in Threads : pc[t] # "held"
    BY <1>1, <2>1, <2>2, ThreadsAssumption DEF Abandoned, IndInv, LockAccounted
  <2> USE DEF vars
  <2>4. CASE \E t \in Threads : Thread500(t)
    <3> PICK t \in Threads : ThreadStep(t)
      BY <2>4 DEF Thread500
    <3> QED
      BY <2>3 DEF ThreadStep, Acquire, Publish, PublishFails, Subscribe, SubscribeFails,
         NextRound, Threads
  <2>5. CASE End500
    BY <2>5 DEF End500, JoinAll
  <2>6. CASE Start500
    BY <2>6 DEF Start500, Start
  <2>7. CASE Mount500 \/ MountFails500 \/ StartFibon \/ ConfigureNet
    BY <2>7 DEF Mount500, MountFails500, StartFibon, ConfigureNet
  <2>8. CASE \E w \in Workers : StartCli(w) \/ DetachCli(w)
    BY <2>8 DEF StartCli, DetachCli
  <2>9. CASE \E w \in Workers : WorkerStep(w)
    BY <2>9 DEF WorkerStep, WorkerMountFails, WorkerFormat
  <2>10. CASE Format500 \/ EndFibon \/ EndCli \/ LeaveCli
    BY <2>10 DEF Format500, EndFibon, EndCli, LeaveCli
  <2>11. CASE \E c \in Calls : ThreadFibon(c)
    BY <2>11 DEF ThreadFibon
  <2>12. CASE UNCHANGED shellVars
    BY <2>12 DEF shellVars
  <2> QED
    BY <1>1, <2>4, <2>5, <2>6, <2>7, <2>8, <2>9, <2>10, <2>11, <2>12
       DEF ShellNext, ShellStep
<1> QED
  BY <1>1, Invariance, PTL DEF ShellSpec, DeadOnceAbandoned

\* pipe0, once written, is only ever formatted away by one of two mounters that
\* have overlapped, or by one whose mount failed on the file system itself.
THEOREM PipeIsKept == ShellSpec => PipeSurvives
<1>1. ASSUME IndInv, [ShellNext]_shellVars
      PROVE  [records > 0 /\ records' = 0 => overlap \/ erred # {}]_shellVars
  <2> SUFFICES ASSUME records > 0, records' = 0 PROVE overlap \/ erred # {}
    OBVIOUS
  <2>1. formatted
    BY <1>1 DEF IndInv, InPlace500
  <2> USE DEF vars
  <2>2. CASE Format500
    BY <1>1, <2>1, <2>2 DEF Format500, IndInv, FormatsOverlap
  <2>3. CASE \E w \in Workers : WorkerFormat(w)
    BY <1>1, <2>1, <2>3 DEF WorkerFormat, CliFormat, IndInv, FormatsOverlap, Formatting
  <2>4. CASE \E t \in Threads : Thread500(t)
    <3> PICK t \in Threads : ThreadStep(t)
      BY <2>4 DEF Thread500
    <3> QED
      BY DEF ThreadStep, Acquire, Publish, WriteAtStart, PublishFails, Subscribe,
         SubscribeFails, GiveUp, NextRound
  <2>5. CASE Start500 \/ End500
    BY <2>5 DEF Start500, Start, End500, JoinAll
  <2>6. CASE \/ Mount500 \/ MountFails500 \/ StartFibon \/ EndFibon
             \/ ConfigureNet \/ EndCli \/ LeaveCli
    BY <2>6 DEF Mount500, MountFails500, StartFibon, EndFibon, ConfigureNet, EndCli, LeaveCli
  <2>7. CASE \E w \in Workers : StartCli(w) \/ DetachCli(w)
    BY <2>7 DEF StartCli, DetachCli
  <2>8. CASE \E w \in Workers : WorkerStep(w) /\ ~WorkerFormat(w)
    BY <2>8 DEF WorkerStep, WorkerMountFails
  <2>9. CASE \E c \in Calls : ThreadFibon(c)
    BY <2>9 DEF ThreadFibon
  <2>10. CASE UNCHANGED shellVars
    BY <2>10 DEF shellVars
  <2> QED
    BY <1>1, <2>2, <2>3, <2>4, <2>5, <2>6, <2>7, <2>8, <2>9, <2>10
       DEF ShellNext, ShellStep
<1> QED
  BY <1>1, Invariance, PTL DEF ShellSpec, PipeSurvives
-----------------------------------------------------------------------------
(* fibon: its tree of threads fills the table in order.  The other commands *)
(* leave its variables alone, so it has an invariant of its own.            *)

\* The first n entries of fib_seri, as many as it has, hold the series.
Filled(n) == \A i \in 1 .. FibSlots : i <= n => fib_seri[i] = Series[i]

\* A call that has started no threads has none.
TreeInStep ==
    \A c \in Calls : fibPc[c] \in {"none", "fork"} => \A d \in Children(c) : fibPc[d] = "none"

\* The call at path p has started, directly or not, the one at path c.
Above(p, c) == Len(p) < Len(c) /\ \A i \in 1 .. Len(p) : p[i] = c[i]

\* Whoever has started a call that has not returned waits for it.
Waited ==
    \A c, p \in Calls :
        Above(p, c) /\ fibPc[c] \notin {"none", "done"} => fibPc[p] = "join"

\* The snapshot for v has been asked for, or a call is about to.
Asked(v) == v \in saved \/ \E c \in Calls : fibPc[c] = "send" /\ fibRet[c] = v

\* The table holds numbers of the series without a gap, in order unless a number
\* has been missed, each with its snapshot asked for.
TableInOrder ==
    \A i \in 1 .. FibSlots :
        fib_seri[i] # 0 => /\ fib_seri[i] \in Found
                           /\ Asked(fib_seri[i])
                           /\ \A j \in 1 .. i : fib_seri[j] # 0
                           /\ ~missed => fib_seri[i] = Series[i]

\* A call that has its number has passed over taken entries only.
CallInStep(c) ==
    /\ fibPc[c] \in {"none", "fork", "join"} => fibAt[c] = 1
    /\ fibPc[c] # "joinOne"
    /\ fibPc[c] \in {"scan", "look", "store", "send", "done"} => fibRet[c] = Series[CallArg(c) - 1]
    /\ fibPc[c] \in {"scan", "look", "store"} =>
         \A j \in 1 .. FibSlots : j < fibAt[c] => fib_seri[j] # 0

\* Unless a number has been missed, it finds all smaller ones in the table, looks no
\* further than its own entry, and leaves that one filled.
CallInOrder(c) ==
    /\ fibPc[c] \in {"scan", "look", "store", "send", "done"} => Filled(CallArg(c) - 2)
    /\ fibPc[c] \in {"scan", "look"} => fibAt[c] <= CallArg(c) - 1
    /\ fibPc[c] = "store" => fibAt[c] = CallArg(c) - 1
    /\ fibPc[c] \in {"send", "done"} => Filled(CallArg(c) - 1)

\* A call at an entry is inside the table.
LooksInside == \A c \in Calls : fibPc[c] \in {"look", "store"} => fibAt[c] <= FibSlots

CallsInOrder == ~missed => \A c \in Calls : CallInOrder(c)

FibInv ==
    /\ FibTypeOK /\ LooksInside
    /\ refusals = 0 => /\ TreeInStep /\ Waited /\ TableInOrder
                       /\ \A c \in Calls : CallInStep(c)
                       /\ CallsInOrder

\* A set of numbers that holds 0 and, with a number, the next one, holds them all:
\* otherwise shifting its part below a missing number would put n + 1 numbers
\* into n places.
LEMMA SetInduction ==
  ASSUME NEW D, 0 \in D, \A n \in Nat : n \in D => n + 1 \in D
  PROVE  \A n \in Nat : n \in D
<1> SUFFICES ASSUME NEW m \in Nat, m \notin D PROVE FALSE
  OBVIOUS
<1> DEFINE h == [x \in 0 .. m |-> IF x \in D THEN x + 1 ELSE x]
<1>1. h \in [0 .. m -> 1 .. m]
  <2> SUFFICES ASSUME NEW x \in 0 .. m
               PROVE  (IF x \in D THEN x + 1 ELSE x) \in 1 .. m
    OBVIOUS
  <2>1. CASE x \in D
    BY <2>1
  <2>2. CASE x \notin D
    BY <2>2
  <2> QED
    BY <2>1, <2>2
<1>2. /\ Cardinality(1 .. m) < Cardinality(0 .. m)
      /\ IsFiniteSet(1 .. m) /\ IsFiniteSet(0 .. m)
  <2>1. Cardinality(1 .. m) = m
    BY FS_Interval
  <2>2. Cardinality(0 .. m) = m + 1
    BY FS_Interval
  <2> QED
    BY <2>1, <2>2, FS_Interval
<1>3. PICK x \in 0 .. m, y \in 0 .. m : x # y /\ h[x] = h[y]
  <2> HIDE DEF h
  <2> QED
    BY <1>1, <1>2, FS_PigeonHole
<1>4. h[x] \in D <=> x \in D
  OBVIOUS
<1>5. h[y] \in D <=> y \in D
  OBVIOUS
<1> QED
  BY <1>3, <1>4, <1>5

\* There is a function as the definition of the series asks for: the initial pieces
\* that obey the recurrence exist, by induction, and agree.
LEMMA SeriesExists ==
  \E f : f = [i \in Nat |-> IF i <= 1 THEN 1 ELSE f[i - 1] + f[i - 2]]
<1> DEFINE Rec(g, n) ==
             /\ g \in [0 .. n -> Nat]
             /\ \A i \in 0 .. n : g[i] = IF i <= 1 THEN 1 ELSE g[i - 1] + g[i - 2]
<1>1. \A n \in Nat : \E g : Rec(g, n)
  <2> DEFINE D == {n \in Nat : \E g : Rec(g, n)}
  <2>1. 0 \in D
    <3>1. Rec([i \in 0 .. 0 |-> 1], 0)
      OBVIOUS
    <3> QED
      BY <3>1
  <2>2. ASSUME NEW n \in Nat, n \in D PROVE n + 1 \in D
    <3> PICK g : Rec(g, n)
      BY <2>2
    <3> DEFINE e == [i \in 0 .. n + 1 |->
                       IF i <= n THEN g[i] ELSE IF n = 0 THEN 1 ELSE g[n] + g[n - 1]]
    <3>1. e \in [0 .. n + 1 -> Nat]
      OBVIOUS
    <3>2. ASSUME NEW i \in 0 .. n + 1
          PROVE  e[i] = IF i <= 1 THEN 1 ELSE e[i - 1] + e[i - 2]
      <4>1. CASE i <= n
        BY <4>1
      <4>2. CASE i = n + 1 /\ n = 0
        BY <4>2
      <4>3. CASE i = n + 1 /\ n # 0
        BY <4>3
      <4> QED
        BY <4>1, <4>2, <4>3
    <3>3. Rec(e, n + 1)
      BY <3>1, <3>2
    <3> HIDE DEF Rec, e
    <3>4. n + 1 \in Nat /\ \E d : Rec(d, n + 1)
      BY <3>3
    <3> QED
      BY <3>4
  <2> HIDE DEF D
  <2>3. \A n \in Nat : n \in D
    BY <2>1, <2>2, SetInduction
  <2> QED
    BY <2>3 DEF D
<1>2. ASSUME NEW m \in Nat, NEW n \in Nat, m <= n, NEW g, NEW h, Rec(g, m), Rec(h, n)
      PROVE  \A i \in 0 .. m : g[i] = h[i]
  <2> DEFINE D == {k \in Nat : \A i \in 0 .. k : i <= m => g[i] = h[i]}
  <2>1. 0 \in D
    BY <1>2
  <2>2. ASSUME NEW k \in Nat, k \in D PROVE k + 1 \in D
    <3>1. CASE k + 1 > m
      BY <2>2, <3>1
    <3>2. CASE k + 1 <= m
      <4>1. g[k + 1] = IF k + 1 <= 1 THEN 1 ELSE g[k] + g[k - 1]
        BY <1>2, <3>2
      <4>2. h[k + 1] = IF k + 1 <= 1 THEN 1 ELSE h[k] + h[k - 1]
        BY <1>2, <3>2
      <4>3. k # 0 => g[k] = h[k] /\ g[k - 1] = h[k - 1]
        BY <2>2, <3>2
      <4>4. g[k + 1] = h[k + 1]
        BY <4>1, <4>2, <4>3
      <4> QED
        BY <2>2, <4>4
    <3> QED
      BY <3>1, <3>2
  <2> HIDE DEF D
  <2>3. \A k \in Nat : k \in D
    BY <2>1, <2>2, SetInduction
  <2>4. m \in D
    BY <2>3
  <2> QED
    BY <2>4 DEF D
<1> DEFINE G(n) == CHOOSE g : Rec(g, n)
           f == [n \in Nat |-> G(n)[n]]
<1> HIDE DEF Rec
<1>3. \A n \in Nat : Rec(G(n), n)
  BY <1>1
<1> HIDE DEF G
<1>4. ASSUME NEW i \in Nat PROVE f[i] = IF i <= 1 THEN 1 ELSE f[i - 1] + f[i - 2]
  <2>1. G(i)[i] = IF i <= 1 THEN 1 ELSE G(i)[i - 1] + G(i)[i - 2]
    BY <1>3 DEF Rec
  <2>2. ASSUME i > 1 PROVE G(i)[i - 1] = f[i - 1] /\ G(i)[i - 2] = f[i - 2]
    <3>1. i - 1 \in Nat /\ i - 2 \in Nat
      BY <2>2
    <3>2. Rec(G(i), i) /\ Rec(G(i - 1), i - 1) /\ Rec(G(i - 2), i - 2)
      BY <1>3, <3>1
    <3>3. G(i - 1)[i - 1] = G(i)[i - 1]
      BY <1>2, <3>1, <3>2
    <3>4. G(i - 2)[i - 2] = G(i)[i - 2]
      BY <1>2, <3>1, <3>2
    <3> QED
      BY <3>1, <3>3, <3>4
  <2> QED
    BY <2>1, <2>2
<1>5. f = [i \in Nat |-> IF i <= 1 THEN 1 ELSE f[i - 1] + f[i - 2]]
  <2>1. f = [i \in Nat |-> f[i]]
    OBVIOUS
  <2> HIDE DEF f
  <2> QED
    BY <1>4, <2>1
<1> QED
  BY <1>5

\* The definition of the series defines it.
LEMMA SeriesDef ==
  Series = [i \in Nat |-> IF i <= 1 THEN 1 ELSE Series[i - 1] + Series[i - 2]]
  BY SeriesExists DEF Series

\* The recurrence, as it is used.
LEMMA SeriesRec ==
  /\ Series[0] = 1 /\ Series[1] = 1
  /\ \A i \in Nat : i >= 2 => Series[i] = Series[i - 1] + Series[i - 2]
<1> DEFINE body(i) == IF i <= 1 THEN 1 ELSE Series[i - 1] + Series[i - 2]
<1>1. Series = [i \in Nat |-> body(i)]
  BY SeriesDef
<1>2. \A i \in Nat : Series[i] = body(i)
  <2> HIDE DEF body
  <2> QED
    BY <1>1
<1> QED
  BY <1>2

\* No number of the series is 0, the mark of a free entry.
LEMMA SeriesPositive == \A i \in Nat : Series[i] \in Nat /\ Series[i] >= 1
<1> DEFINE D == {n \in Nat : \A i \in 0 .. n : Series[i] \in Nat /\ Series[i] >= 1}
<1>1. 0 \in D
  BY SeriesRec
<1>2. ASSUME NEW n \in Nat, n \in D PROVE n + 1 \in D
  <2>1. Series[n + 1] \in Nat /\ Series[n + 1] >= 1
    <3>1. CASE n = 0
      BY <3>1, SeriesRec
    <3>2. CASE n > 0
      <4>1. Series[n + 1] = Series[n] + Series[n - 1]
        BY <3>2, SeriesRec
      <4> QED
        BY <1>2, <3>2, <4>1
    <3> QED
      BY <3>1, <3>2
  <2> QED
    BY <1>2, <2>1
<1> HIDE DEF D
<1>3. \A n \in Nat : n \in D
  BY <1>1, <1>2, SetInduction
<1> QED
  BY <1>3 DEF D

\* From the second 1 on the series increases: a number names its entry.
LEMMA SeriesIncreases ==
  \A i, j \in Nat : 1 <= i /\ i < j => Series[i] < Series[j]
<1> DEFINE D == {n \in Nat : \A i \in 1 .. n : i < n => Series[i] < Series[n]}
<1>1. 0 \in D
  OBVIOUS
<1>2. ASSUME NEW n \in Nat, n \in D PROVE n + 1 \in D
  <2>1. CASE n = 0
    BY <2>1
  <2>2. CASE n > 0
    <3>1. Series[n] < Series[n + 1]
      <4>1. Series[n + 1] = Series[n] + Series[n - 1]
        BY <2>2, SeriesRec
      <4>2. Series[n - 1] >= 1 /\ Series[n - 1] \in Nat /\ Series[n] \in Nat
        BY <2>2, SeriesPositive
      <4> QED
        BY <4>1, <4>2
    <3>2. ASSUME NEW i \in 1 .. n + 1, i < n + 1 PROVE Series[i] < Series[n + 1]
      <4>1. i = n \/ Series[i] < Series[n]
        BY <1>2, <3>2
      <4> QED
        BY <3>1, <4>1, SeriesPositive
    <3> QED
      BY <3>2
  <2> QED
    BY <2>1, <2>2
<1> HIDE DEF D
<1>3. \A n \in Nat : n \in D
  BY <1>1, <1>2, SetInduction
<1> QED
  BY <1>3 DEF D

\* A call is a path, and its argument is at least 2.
LEMMA CallFacts ==
  ASSUME NEW c \in Calls
  PROVE  /\ c \in Seq({1, 2}) /\ Len(c) \in 0 .. FibArg
         /\ IsFiniteSet({i \in DOMAIN c : c[i] = 2})
         /\ Cardinality({i \in DOMAIN c : c[i] = 2}) \in Nat
         /\ CallArg(c) \in Nat /\ CallArg(c) >= 2
<1>1. PICK n \in 0 .. FibArg : c \in [1 .. n -> {1, 2}]
  BY DEF Calls, FibPaths
<1>2. c \in Seq({1, 2}) /\ Len(c) = n /\ DOMAIN c = 1 .. n
  BY <1>1, FibAssumption
<1>3. IsFiniteSet({i \in DOMAIN c : c[i] = 2})
  BY <1>2, FS_Interval, FS_Subset, FibAssumption
<1>4. Cardinality({i \in DOMAIN c : c[i] = 2}) \in Nat
  BY <1>3, FS_CardinalityType
<1> QED
  BY <1>2, <1>3, <1>4, FibAssumption DEF Calls, CallArg

\* A thread of a call has the argument 1 or 2 less, is a call if that leaves 2, and
\* has one parent only.
LEMMA ChildFacts ==
  ASSUME NEW c \in Calls, NEW k \in {1, 2}
  PROVE  /\ CallArg(Child(c, k)) = CallArg(c) - k
         /\ Child(c, k) \in Calls <=> CallArg(c) - k >= 2
         /\ Child(c, k) # c
         /\ \A d \in Calls, j \in {1, 2} : Child(c, k) = Child(d, j) => c = d
<1> DEFINE p == Child(c, k)
           Twos(q) == {i \in DOMAIN q : q[i] = 2}
<1>1. /\ c \in Seq({1, 2}) /\ Len(c) \in Nat /\ DOMAIN c = 1 .. Len(c)
      /\ IsFiniteSet(Twos(c)) /\ Cardinality(Twos(c)) \in Nat
  BY CallFacts, FibAssumption
<1>2. /\ p \in Seq({1, 2}) /\ Len(p) = Len(c) + 1 /\ DOMAIN p = 1 .. Len(c) + 1
      /\ \A i \in 1 .. Len(c) : p[i] = c[i]
      /\ p[Len(c) + 1] = k
  BY <1>1 DEF Child
<1>3. Cardinality(Twos(p)) = Cardinality(Twos(c)) + (k - 1)
  <2>1. CASE k = 1
    <3>1. Twos(p) = Twos(c)
      BY <1>1, <1>2, <2>1
    <3> HIDE DEF Twos
    <3> QED
      BY <1>1, <2>1, <3>1
  <2>2. CASE k = 2
    <3>1. Twos(p) = Twos(c) \cup {Len(c) + 1}
      BY <1>1, <1>2, <2>2
    <3>2. Len(c) + 1 \notin Twos(c)
      BY <1>1
    <3> HIDE DEF Twos
    <3> QED
      BY <1>1, <2>2, <3>1, <3>2, FS_AddElement
  <2> QED
    BY <2>1, <2>2
<1>4. CallArg(c) = FibArg - Len(c) - Cardinality(Twos(c)) /\ CallArg(p) = CallArg(c) - k
  <2>1. /\ CallArg(c) = FibArg - Len(c) - Cardinality(Twos(c))
        /\ CallArg(p) = FibArg - Len(p) - Cardinality(Twos(p))
    BY DEF CallArg
  <2> HIDE DEF Twos, p
  <2> QED
    BY <1>1, <1>2, <1>3, <2>1, FibAssumption
<1>5. CallArg(c) - k >= 2 => p \in FibPaths
  <2> SUFFICES ASSUME CallArg(c) - k >= 2 PROVE p \in FibPaths
    OBVIOUS
  <2>1. Len(c) + 1 \in 0 .. FibArg
    <3> HIDE DEF Twos, p
    <3> QED
      BY <1>1, <1>4, FibAssumption
  <2>2. p \in [1 .. Len(c) + 1 -> {1, 2}]
    BY <1>2
  <2> QED
    BY <2>1, <2>2 DEF FibPaths
<1>6. p # c
  BY <1>1, <1>2
<1>7. ASSUME NEW d \in Calls, NEW j \in {1, 2}, p = Child(d, j) PROVE c = d
  <2>1. d \in Seq({1, 2})
    BY CallFacts
  <2>2. Len(d) = Len(c) /\ \A i \in 1 .. Len(c) : d[i] = c[i]
    BY <1>1, <1>2, <1>7, <2>1 DEF Child
  <2> QED
    BY <1>1, <2>1, <2>2
<1> HIDE DEF p
<1>8. p \in Calls <=> CallArg(c) - k >= 2
  BY <1>4, <1>5 DEF Calls
<1> QED
  BY <1>4, <1>6, <1>7, <1>8 DEF p

\* A call is a sequence.
LEMMA PathFacts ==
  ASSUME NEW c \in Calls
  PROVE  c \in Seq({1, 2}) /\ Len(c) \in Nat /\ DOMAIN c = 1 .. Len(c)
<1>1. c \in Seq({1, 2})
  BY CallFacts
<1> QED
  BY <1>1

\* A call that is above another is above, or is the parent of, the same one's thread;
\* nothing else is above a thread.
LEMMA AboveFacts ==
  ASSUME NEW c \in Calls
  PROVE  /\ \A k \in {1, 2}, p \in Calls : Above(p, Child(c, k)) => p = c \/ Above(p, c)
         /\ \A d \in Calls : Above(c, d) =>
              \E k \in {1, 2} : Child(c, k) \in Calls /\ (Child(c, k) = d \/ Above(Child(c, k), d))
         /\ Root \in Calls /\ CallArg(Root) = FibArg /\ (c = Root \/ Above(Root, c))
         /\ CallArg(c) \in 2 .. FibArg
<1>1. /\ c \in Seq({1, 2}) /\ Len(c) \in Nat /\ DOMAIN c = 1 .. Len(c)
      /\ CallArg(c) \in Nat /\ CallArg(c) >= 2
  BY PathFacts, CallFacts
<1>2. ASSUME NEW k \in {1, 2}, NEW p \in Calls, Above(p, Child(c, k)) PROVE p = c \/ Above(p, c)
  <2>1. p \in Seq({1, 2}) /\ Len(p) \in Nat /\ DOMAIN p = 1 .. Len(p)
    BY PathFacts
  <2>2. Len(Child(c, k)) = Len(c) + 1 /\ \A i \in 1 .. Len(c) : Child(c, k)[i] = c[i]
    BY <1>1 DEF Child
  <2>3. Len(p) <= Len(c) /\ \A i \in 1 .. Len(p) : p[i] = c[i]
    BY <1>1, <1>2, <2>1, <2>2 DEF Above
  <2>4. CASE Len(p) = Len(c)
    BY <1>1, <2>1, <2>3, <2>4
  <2>5. CASE Len(p) < Len(c)
    BY <2>3, <2>5 DEF Above
  <2>6. Len(p) = Len(c) \/ Len(p) < Len(c)
    <3>1. Len(p) \in Nat /\ Len(c) \in Nat /\ Len(p) <= Len(c)
      BY <1>1, <2>1, <2>3
    <3> QED
      BY <3>1
  <2> QED
    BY <2>4, <2>5, <2>6
<1>3. ASSUME NEW d \in Calls, Above(c, d)
      PROVE  \E k \in {1, 2} : Child(c, k) \in Calls /\ (Child(c, k) = d \/ Above(Child(c, k), d))
  <2> DEFINE k == d[Len(c) + 1]
             e == Child(c, k)
             Twos(q) == {i \in DOMAIN q : q[i] = 2}
  <2>1. /\ d \in Seq({1, 2}) /\ Len(d) \in Nat /\ DOMAIN d = 1 .. Len(d)
        /\ IsFiniteSet(Twos(d)) /\ Cardinality(Twos(d)) \in Nat
    BY PathFacts, CallFacts
  <2>2. k \in {1, 2} /\ Len(c) + 1 \in 1 .. Len(d)
    BY <1>1, <1>3, <2>1 DEF Above
  <2>3. /\ e \in Seq({1, 2}) /\ Len(e) = Len(c) + 1 /\ DOMAIN e = 1 .. Len(c) + 1
        /\ \A i \in 1 .. Len(c) + 1 : e[i] = d[i]
    BY <1>1, <1>3, <2>2 DEF Child, Above
  <2>4. Twos(e) \subseteq Twos(d)
    BY <1>1, <2>1, <2>2, <2>3
  <2>5. Cardinality(Twos(e)) \in Nat /\ Cardinality(Twos(e)) <= Cardinality(Twos(d))
    BY <2>1, <2>4, FS_Subset, FS_CardinalityType
  <2>6. CallArg(e) >= CallArg(d) /\ CallArg(e) = CallArg(c) - k /\ CallArg(d) >= 2
    <3>1. CallArg(e) = FibArg - Len(e) - Cardinality(Twos(e))
      BY DEF CallArg
    <3>2. CallArg(d) = FibArg - Len(d) - Cardinality(Twos(d))
      BY DEF CallArg
    <3>3. CallArg(e) = CallArg(c) - k /\ CallArg(d) >= 2
      BY <2>2, ChildFacts, CallFacts
    <3> HIDE DEF Twos, e, k
    <3> QED
      BY <1>1, <2>1, <2>2, <2>3, <2>5, <3>1, <3>2, <3>3, FibAssumption
  <2>7. e \in Calls
    <3>1. CallArg(c) - k >= 2
      <4>1. CallArg(d) \in Nat
        BY CallFacts
      <4> HIDE DEF e, k
      <4> QED
        BY <1>1, <2>2, <2>6, <4>1
    <3> QED
      BY <2>2, <3>1, ChildFacts
  <2>8. e = d \/ Above(e, d)
    <3>1. CASE Len(d) = Len(c) + 1
      BY <1>1, <2>1, <2>3, <3>1
    <3>2. CASE Len(d) > Len(c) + 1
      BY <1>1, <2>1, <2>3, <3>2 DEF Above
    <3>3. Len(d) = Len(c) + 1 \/ Len(d) > Len(c) + 1
      <4>1. Len(d) \in Nat /\ Len(c) \in Nat /\ Len(c) + 1 <= Len(d)
        BY <1>1, <2>1, <2>2
      <4> QED
        BY <4>1
    <3> QED
      BY <3>1, <3>2, <3>3
  <2> QED
    BY <2>2, <2>7, <2>8
<1>4. CallArg(Root) = FibArg /\ Len(Root) = 0
  <2>1. {i \in DOMAIN Root : Root[i] = 2} = {} /\ Len(Root) = 0
    BY DEF Root
  <2> QED
    BY <2>1, FS_EmptySet, FibAssumption DEF CallArg
<1>5. CallArg(c) \in 2 .. FibArg
  <2>1. Cardinality({i \in DOMAIN c : c[i] = 2}) \in Nat
    BY CallFacts
  <2>2. CallArg(c) = FibArg - Len(c) - Cardinality({i \in DOMAIN c : c[i] = 2})
    BY DEF CallArg
  <2> QED
    BY <1>1, <2>1, <2>2, FibAssumption
<1>6. Root \in Calls
  <2>1. Root \in [1 .. 0 -> {1, 2}]
    BY DEF Root
  <2>2. 0 \in 0 .. FibArg
    BY FibAssumption
  <2>3. Root \in FibPaths
    BY <2>1, <2>2 DEF FibPaths
  <2> QED
    BY <1>4, <1>5, <2>3, FibAssumption DEF Calls
<1>7. c = Root \/ Above(Root, c)
  <2>1. CASE Len(c) = 0
    BY <1>1, <2>1 DEF Root
  <2>2. CASE Len(c) > 0
    BY <1>1, <1>4, <2>2 DEF Above
  <2> QED
    BY <1>1, <2>1, <2>2
<1> QED
  BY <1>2, <1>3, <1>4, <1>5, <1>6, <1>7

\* What every call finds is one of the numbers up to the root's, and not 0.
LEMMA CallFinds ==
  ASSUME NEW c \in Calls
  PROVE  Series[CallArg(c) - 1] \in Found /\ Series[CallArg(c) - 1] \in Nat \ {0}
<1>1. CallArg(c) - 1 \in 1 .. FibArg - 1
  BY AboveFacts, FibAssumption
<1> QED
  BY <1>1, SeriesPositive DEF Found

\* The parts of the invariant that no step but those of the tree can disturb.
LEMMA SameTable ==
  ASSUME FibInv, refusals = 0, fib_seri' = fib_seri, missed' = missed, saved' = saved,
         \A v : Asked(v) => Asked(v)'
  PROVE  TableInOrder'
BY DEF FibInv, TableInOrder

\* Before the first fibon.
LEMMA FibInitInv ==
  ASSUME FibInit
  PROVE  FibInv
<1> USE DEF FibInit
<1>1. FibTypeOK /\ LooksInside
  <2>1. 1 \in 1 .. FibSlots + 1 /\ 0 \in 0 .. MaxRefusals
    BY FibAssumption
  <2> QED
    BY <2>1 DEF FibTypeOK, LooksInside
<1> SUFFICES ASSUME refusals = 0
             PROVE  /\ TreeInStep /\ Waited /\ TableInOrder
                    /\ \A d \in Calls : CallInStep(d)
                    /\ CallsInOrder
  BY <1>1 DEF FibInv
<1>2. TreeInStep /\ Waited
  BY DEF TreeInStep, Waited, Children
<1>3. TableInOrder
  BY DEF TableInOrder
<1>4. ASSUME NEW d \in Calls PROVE CallInStep(d) /\ CallInOrder(d)
  BY DEF CallInStep, CallInOrder
<1> QED
  BY <1>2, <1>3, <1>4 DEF CallsInOrder

\* fibon clears the table and starts the root.
LEMMA FibStartKeeps ==
  ASSUME FibInv, FibStart
  PROVE  FibInv'
<1> USE DEF FibStart
<1>1. FibTypeOK' /\ LooksInside'
  BY FibAssumption DEF FibInv, FibTypeOK, LooksInside
<1> SUFFICES ASSUME refusals = 0
             PROVE  /\ TreeInStep' /\ Waited' /\ TableInOrder'
                    /\ \A d \in Calls : CallInStep(d)'
                    /\ CallsInOrder'
  BY <1>1 DEF FibInv
<1>2. TreeInStep'
  <2> SUFFICES ASSUME NEW b \in Calls, NEW d \in Children(b), fibPc'[b] \in {"none", "fork"}
               PROVE  fibPc'[d] = "none"
    BY DEF TreeInStep
  <2>1. PICK k \in {1, 2} : d = Child(b, k)
    BY DEF Children
  <2>2. d # Root
    BY <2>1, CallFacts DEF Child, Root
  <2> QED
    BY <2>2 DEF Children
<1>3. Waited'
  <2>1. ASSUME NEW p \in Calls, Above(p, Root) PROVE FALSE
    BY <2>1, CallFacts DEF Above, Root
  <2> QED
    BY <2>1 DEF Waited
<1>4. TableInOrder'
  BY DEF TableInOrder
<1>5. ASSUME NEW d \in Calls PROVE CallInStep(d)' /\ CallInOrder(d)'
  BY DEF FibInv, CallInStep, CallInOrder, FibTypeOK
<1> QED
  BY <1>2, <1>3, <1>4, <1>5 DEF CallsInOrder

\* A call starts its two threads, which have started none.
LEMMA ForkKeeps ==
  ASSUME FibInv, NEW c \in Calls, Fork(c)
  PROVE  FibInv'
<1> USE DEF FibInv, Fork
<1>1. FibTypeOK' /\ LooksInside'
  BY FibAssumption DEF FibTypeOK, LooksInside
<1> SUFFICES ASSUME refusals = 0
             PROVE  /\ TreeInStep' /\ Waited' /\ TableInOrder'
                    /\ \A d \in Calls : CallInStep(d)'
                    /\ CallsInOrder'
  BY <1>1
<1>2. TreeInStep'
  <2> SUFFICES ASSUME NEW b \in Calls, fibPc'[b] \in {"none", "fork"}, NEW d \in Children(b)
               PROVE  fibPc'[d] = "none"
    BY DEF TreeInStep, Children
  <2>1. d \in Calls /\ b # c
    BY DEF Children
  <2>2. fibPc[b] \in {"none", "fork"}
    BY <2>1 DEF TreeInStep, FibTypeOK
  <2>3. fibPc[d] = "none" /\ d # c
    BY <2>2 DEF TreeInStep
  <2>4. d \notin Children(c)
    BY <2>1, ChildFacts DEF Children
  <2> QED
    BY <2>1, <2>3, <2>4 DEF FibTypeOK
<1>3. Waited'
  <2> SUFFICES ASSUME NEW d \in Calls, NEW p \in Calls, Above(p, d),
                      fibPc'[d] \notin {"none", "done"}
               PROVE  fibPc'[p] = "join"
    BY DEF Waited, Above
  <2>1. CASE d \in Children(c)
    <3>1. p = c \/ Above(p, c)
      BY <2>1, AboveFacts DEF Children
    <3>2. Above(p, c) => fibPc[p] = "join"
      BY DEF Waited
    <3>3. fibPc[p] = "join" => fibPc'[p] = "join"
      BY DEF TreeInStep
    <3> QED
      BY <3>1, <3>2, <3>3
  <2>2. CASE d \notin Children(c)
    <3>1. fibPc[d] \notin {"none", "done"}
      BY <2>2 DEF FibTypeOK
    <3>2. fibPc[p] = "join"
      BY <3>1 DEF Waited
    <3> QED
      BY <3>2 DEF TreeInStep
  <2> QED
    BY <2>1, <2>2
<1>4. TableInOrder'
  <2>1. ASSUME NEW v, Asked(v) PROVE Asked(v)'
    BY <2>1 DEF Asked, TreeInStep
  <2> QED
    BY <2>1, SameTable
<1>5. ASSUME NEW d \in Calls PROVE CallInStep(d)' /\ (~missed => CallInOrder(d)')
  <2>1. d \in Children(c) => fibPc[d] = "none"
    BY DEF TreeInStep
  <2> QED
    BY <2>1 DEF CallInStep, CallsInOrder, CallInOrder, Filled, FibTypeOK
<1> QED
  BY <1>2, <1>3, <1>4, <1>5 DEF CallsInOrder

\* A thread cannot be created.
LEMMA ForkRefusedKeeps ==
  ASSUME FibInv, NEW c \in Calls, ForkRefused(c) \/ ForkHalf(c)
  PROVE  FibInv'
<1> USE DEF FibInv, ForkRefused, ForkHalf
<1>1. FibTypeOK'
  <2>1. refusals' \in 0 .. MaxRefusals
    BY FibAssumption DEF FibTypeOK
  <2>2. CASE ForkRefused(c)
    BY <2>1, <2>2 DEF FibTypeOK
  <2>3. CASE ForkHalf(c)
    BY <2>1, <2>3 DEF FibTypeOK
  <2> QED
    BY <2>2, <2>3
<1>2. LooksInside'
  BY DEF LooksInside, FibTypeOK
<1>3. refusals' # 0
  BY DEF FibTypeOK
<1> QED
  BY <1>1, <1>2, <1>3

\* A step of a call inside the tree, to a place where it is still waited for or has
\* returned, leaves the calls above it waiting.
LEMMA StillWaited ==
  ASSUME FibInv, refusals = 0, NEW c \in Calls, NEW l,
         fibPc[c] \notin {"none", "done", "fork", "join"},
         l \in {"scan", "look", "store", "send", "done"},
         fibPc' = [fibPc EXCEPT ![c] = l]
  PROVE  TreeInStep' /\ Waited'
<1> USE DEF FibInv, FibTypeOK
<1>1. TreeInStep'
  BY DEF TreeInStep, Children
<1>2. Waited'
  BY DEF Waited, Above
<1> QED
  BY <1>1, <1>2

\* A call that could start one thread only has joined it.
LEMMA JoinOneKeeps ==
  ASSUME FibInv, NEW c \in Calls, JoinOne(c)
  PROVE  FibInv'
<1> USE DEF FibInv, JoinOne
<1>1. FibTypeOK' /\ LooksInside'
  BY FibAssumption DEF FibTypeOK, LooksInside
<1>2. refusals # 0
  BY DEF CallInStep
<1> QED
  BY <1>1, <1>2

\* A call adds what its two threads have returned.
LEMMA JoinBothKeeps ==
  ASSUME FibInv, NEW c \in Calls, JoinBoth(c)
  PROVE  FibInv'
<1> USE DEF FibInv, JoinBoth
<1>1. FibTypeOK' /\ LooksInside'
  <2>1. ASSUME NEW k \in {1, 2} PROVE Retcode(c, k) \in Nat
    <3>1. CallArg(c) \in Nat /\ CallArg(c) >= 2
      BY CallFacts
    <3>2. CallArg(c) - k \in Nat
      BY <2>1, <3>1
    <3> QED
      BY <3>2 DEF FibTypeOK, Retcode
  <2> QED
    BY <2>1 DEF FibTypeOK, LooksInside
<1> SUFFICES ASSUME refusals = 0
             PROVE  /\ TreeInStep' /\ Waited' /\ TableInOrder'
                    /\ \A d \in Calls : CallInStep(d)'
                    /\ CallsInOrder'
  BY <1>1
<1>2. TreeInStep'
  BY DEF TreeInStep, FibTypeOK, Children
<1>3. Waited'
  <2> SUFFICES ASSUME NEW d \in Calls, NEW p \in Calls, Above(p, d),
                      fibPc'[d] \notin {"none", "done"}
               PROVE  fibPc'[p] = "join"
    BY DEF Waited, Above
  <2>1. fibPc[d] \notin {"none", "done"}
    BY DEF FibTypeOK
  <2>2. fibPc[p] = "join"
    BY <2>1 DEF Waited
  <2>3. ASSUME p = c PROVE FALSE
    <3>1. PICK k \in {1, 2} : Child(c, k) \in Calls /\ (Child(c, k) = d \/ Above(Child(c, k), d))
      BY <2>3, AboveFacts
    <3>2. fibPc[Child(c, k)] = "done"
      BY <3>1 DEF Returned
    <3>3. fibPc[Child(c, k)] # "done"
      BY <2>1, <3>1 DEF Waited
    <3> QED
      BY <3>2, <3>3
  <2> QED
    BY <2>2, <2>3 DEF FibTypeOK
<1>4. TableInOrder'
  <2>1. ASSUME NEW v, Asked(v) PROVE Asked(v)'
    BY <2>1 DEF Asked, FibTypeOK
  <2> QED
    BY <2>1, SameTable
<1>5. ASSUME NEW d \in Calls PROVE CallInStep(d)' /\ (~missed => CallInOrder(d)')
  <2>1. CASE d # c
    BY <2>1 DEF CallInStep, CallsInOrder, CallInOrder, Filled, FibTypeOK
  <2>2. CASE d = c
    <3> DEFINE a == CallArg(c)
    <3>1. a \in Nat /\ a >= 2
      BY CallFacts
    <3>2. ASSUME NEW k \in {1, 2}
          PROVE  Retcode(c, k) = IF a - k = 0 THEN 0 ELSE Series[a - k - 1]
      <4>1. CASE Child(c, k) \in Calls
        BY <3>1, <3>2, <4>1, ChildFacts DEF Retcode, Returned, CallInStep
      <4>2. CASE Child(c, k) \notin Calls
        BY <3>1, <3>2, <4>2, ChildFacts, SeriesRec DEF Retcode
      <4> QED
        BY <4>1, <4>2
    <3>3. Retcode(c, 1) + Retcode(c, 2) = Series[a - 1]
      BY <3>1, <3>2, SeriesRec, SeriesPositive
    <3>4. ~missed => Filled(a - 2)
      <4>1. CASE Child(c, 1) \in Calls
        BY <3>1, <4>1, ChildFacts DEF Returned, CallsInOrder, CallInOrder
      <4>2. CASE Child(c, 1) \notin Calls
        BY <3>1, <4>2, ChildFacts DEF Filled
      <4> QED
        BY <4>1, <4>2
    <3>5. fibAt[c] = 1
      BY DEF CallInStep
    <3>6. fibPc'[c] = "scan" /\ fibRet'[c] = Series[a - 1] /\ fibAt'[c] = 1
      BY <3>3, <3>5 DEF FibTypeOK
    <3>7. CallInStep(c)'
      BY <3>6 DEF CallInStep
    <3>8. ~missed => CallInOrder(c)'
      BY <3>1, <3>4, <3>6 DEF CallInOrder, Filled
    <3> QED
      BY <2>2, <3>7, <3>8
  <2> QED
    BY <2>1, <2>2
<1> QED
  BY <1>2, <1>3, <1>4, <1>5 DEF CallsInOrder

\* A call finds its number, or the table full.
LEMMA KnownKeeps ==
  ASSUME FibInv, NEW c \in Calls, Known(c)
  PROVE  FibInv'
<1> USE DEF FibInv, Known
<1>1. FibTypeOK' /\ LooksInside'
  BY FibAssumption DEF FibTypeOK, LooksInside
<1> SUFFICES ASSUME refusals = 0
             PROVE  /\ TreeInStep' /\ Waited' /\ TableInOrder'
                    /\ \A d \in Calls : CallInStep(d)'
                    /\ CallsInOrder'
  BY <1>1
<1>2. TreeInStep' /\ Waited'
  BY StillWaited
<1>3. TableInOrder'
  <2>1. ASSUME NEW v, Asked(v) PROVE Asked(v)'
    BY <2>1 DEF Asked, FibTypeOK
  <2> QED
    BY <2>1, SameTable
<1>4. ASSUME NEW d \in Calls PROVE CallInStep(d)'
  BY DEF CallInStep, FibTypeOK
<1>5. ASSUME NEW d \in Calls, ~missed PROVE CallInOrder(d)'
  <2>1. CASE d # c
    BY <1>5, <2>1 DEF CallsInOrder, CallInOrder, Filled, FibTypeOK
  <2>2. CASE d = c
    <3> DEFINE a == CallArg(c)
    <3>1. a \in Nat /\ a >= 2 /\ fibAt[c] \in 1 .. FibSlots + 1
      BY CallFacts, FibAssumption DEF FibTypeOK
    <3>2. fibRet[c] = Series[a - 1] /\ Filled(a - 2) /\ fibAt[c] <= a - 1
      BY <1>5 DEF CallInStep, CallsInOrder, CallInOrder
    <3>3. Filled(a - 1)
      <4>1. CASE fibAt[c] <= FibSlots
        <5>1. fib_seri[fibAt[c]] = Series[a - 1] /\ Series[a - 1] # 0
          BY <3>1, <3>2, <4>1, SeriesPositive
        <5>2. Series[fibAt[c]] = Series[a - 1]
          BY <1>5, <3>1, <4>1, <5>1 DEF TableInOrder
        <5>3. fibAt[c] = a - 1
          BY <3>1, <3>2, <5>2, SeriesIncreases, SeriesPositive
        <5> QED
          BY <3>1, <3>2, <5>1, <5>3 DEF Filled
      <4>2. CASE fibAt[c] = FibSlots + 1
        BY <3>1, <3>2, <4>2, FibAssumption DEF Filled
      <4> QED
        BY <3>1, <4>1, <4>2, FibAssumption
    <3> QED
      BY <2>2, <3>2, <3>3 DEF CallInOrder, Filled, FibTypeOK
  <2> QED
    BY <2>1, <2>2
<1> QED
  BY <1>2, <1>3, <1>4, <1>5 DEF CallsInOrder

\* A call finds another number, or none.
LEMMA DiffersKeeps ==
  ASSUME FibInv, NEW c \in Calls, Differs(c)
  PROVE  FibInv'
<1> USE DEF FibInv, Differs
<1>1. FibTypeOK' /\ LooksInside'
  BY FibAssumption DEF FibTypeOK, LooksInside
<1> SUFFICES ASSUME refusals = 0
             PROVE  /\ TreeInStep' /\ Waited' /\ TableInOrder'
                    /\ \A d \in Calls : CallInStep(d)'
                    /\ CallsInOrder'
  BY <1>1
<1>2. TreeInStep' /\ Waited'
  BY StillWaited
<1>3. TableInOrder'
  <2>1. ASSUME NEW v, Asked(v) PROVE Asked(v)'
    BY <2>1 DEF Asked, FibTypeOK
  <2> QED
    BY <2>1, SameTable
<1>4. ASSUME NEW d \in Calls PROVE CallInStep(d)'
  BY DEF CallInStep, FibTypeOK
<1>5. ASSUME NEW d \in Calls, ~missed PROVE CallInOrder(d)'
  BY <1>5 DEF CallsInOrder, CallInOrder, Filled, FibTypeOK
<1> QED
  BY <1>2, <1>3, <1>4, <1>5 DEF CallsInOrder

\* A call passes over a taken entry, which holds a smaller number unless it misses
\* its own.
LEMMA SkipKeeps ==
  ASSUME FibInv, NEW c \in Calls, Skip(c)
  PROVE  FibInv'
<1> USE DEF FibInv, Skip
<1>1. FibTypeOK' /\ LooksInside'
  BY FibAssumption DEF FibTypeOK, LooksInside
<1> SUFFICES ASSUME refusals = 0
             PROVE  /\ TreeInStep' /\ Waited' /\ TableInOrder'
                    /\ \A d \in Calls : CallInStep(d)'
                    /\ CallsInOrder'
  BY <1>1
<1> DEFINE a == CallArg(c)
<1>2. /\ a \in Nat /\ a >= 2 /\ fibAt[c] \in 1 .. FibSlots
      /\ fibRet[c] = Series[a - 1] /\ fibRet[c] # 0 /\ fib_seri[fibAt[c]] # 0
  <2>1. a \in Nat /\ a >= 2
    BY CallFacts
  <2>2. fibAt[c] \in 1 .. FibSlots
    BY FibAssumption DEF FibTypeOK, LooksInside
  <2>3. fibRet[c] = Series[a - 1] /\ fibRet[c] # 0
    BY CallFinds DEF CallInStep
  <2> QED
    BY <2>1, <2>2, <2>3 DEF Free
<1>3. TreeInStep' /\ Waited'
  BY StillWaited
<1>4. TableInOrder'
  <2>1. ASSUME NEW v, Asked(v) PROVE Asked(v)'
    BY <2>1 DEF Asked, FibTypeOK
  <2> QED
    BY <2>1 DEF TableInOrder
<1>5. ASSUME NEW d \in Calls PROVE CallInStep(d)'
  <2>1. CASE d # c
    BY <2>1 DEF CallInStep, FibTypeOK
  <2>2. CASE d = c
    <3>1. \A j \in 1 .. FibSlots : j < fibAt[c] + 1 => fib_seri[j] # 0
      BY <1>2 DEF CallInStep
    <3> QED
      BY <1>2, <2>2, <3>1 DEF CallInStep, FibTypeOK
  <2> QED
    BY <2>1, <2>2
<1>6. ASSUME NEW d \in Calls, ~missed' PROVE CallInOrder(d)'
  <2>1. ~missed /\ fib_seri[fibAt[c]] # fibRet[c]
    BY <1>6
  <2>2. CASE d # c
    BY <2>1, <2>2 DEF CallsInOrder, CallInOrder, Filled, FibTypeOK
  <2>3. CASE d = c
    <3>1. Filled(a - 2) /\ fibAt[c] <= a - 1
      BY <2>1 DEF CallsInOrder, CallInOrder
    <3>2. fibAt[c] # a - 1
      BY <1>2, <2>1 DEF TableInOrder
    <3>3. fibAt'[c] <= a - 1
      BY <1>2, <3>1, <3>2 DEF FibTypeOK
    <3> QED
      BY <2>3, <3>1, <3>3 DEF CallInOrder, Filled, FibTypeOK
  <2> QED
    BY <2>2, <2>3
<1> QED
  BY <1>3, <1>4, <1>5, <1>6 DEF CallsInOrder

\* A call finds a free entry: the one behind all smaller numbers.
LEMMA ClaimKeeps ==
  ASSUME FibInv, NEW c \in Calls, Claim(c)
  PROVE  FibInv'
<1> USE DEF FibInv, Claim
<1>1. FibTypeOK' /\ LooksInside'
  BY FibAssumption DEF FibTypeOK, LooksInside
<1> SUFFICES ASSUME refusals = 0
             PROVE  /\ TreeInStep' /\ Waited' /\ TableInOrder'
                    /\ \A d \in Calls : CallInStep(d)'
                    /\ CallsInOrder'
  BY <1>1
<1>2. TreeInStep' /\ Waited'
  BY StillWaited
<1>3. TableInOrder'
  <2>1. ASSUME NEW v, Asked(v) PROVE Asked(v)'
    BY <2>1 DEF Asked, FibTypeOK
  <2> QED
    BY <2>1, SameTable
<1>4. ASSUME NEW d \in Calls PROVE CallInStep(d)'
  BY DEF CallInStep, FibTypeOK
<1>5. ASSUME NEW d \in Calls, ~missed PROVE CallInOrder(d)'
  <2>1. CASE d # c
    BY <1>5, <2>1 DEF CallsInOrder, CallInOrder, Filled, FibTypeOK
  <2>2. CASE d = c
    <3> DEFINE a == CallArg(c)
    <3>1. a \in Nat /\ a >= 2 /\ fibAt[c] \in 1 .. FibSlots
      <4>1. fibAt[c] \in 1 .. FibSlots
        BY FibAssumption DEF FibTypeOK, LooksInside
      <4> QED
        BY <4>1, CallFacts
    <3>2. Filled(a - 2) /\ fibAt[c] <= a - 1
      BY <1>5 DEF CallsInOrder, CallInOrder
    <3>3. fibAt[c] = a - 1
      <4>1. ASSUME fibAt[c] <= a - 2 PROVE FALSE
        BY <3>1, <3>2, <4>1, SeriesPositive DEF Filled, Free
      <4> QED
        BY <3>1, <3>2, <4>1
    <3> QED
      BY <2>2, <3>2, <3>3 DEF CallInOrder, Filled, FibTypeOK
  <2> QED
    BY <2>1, <2>2
<1> QED
  BY <1>2, <1>3, <1>4, <1>5 DEF CallsInOrder

\* A call enters its number: over the same number or, once one has been missed, over
\* any.
LEMMA StoreKeeps ==
  ASSUME FibInv, NEW c \in Calls, Store(c)
  PROVE  FibInv'
<1> USE DEF FibInv, Store
<1>1. FibTypeOK' /\ LooksInside'
  BY FibAssumption DEF FibTypeOK, LooksInside
<1> SUFFICES ASSUME refusals = 0
             PROVE  /\ TreeInStep' /\ Waited' /\ TableInOrder'
                    /\ \A d \in Calls : CallInStep(d)'
                    /\ CallsInOrder'
  BY <1>1
<1> DEFINE a == CallArg(c)
           n == Series[a - 1]
<1>2. /\ a \in Nat /\ a >= 2 /\ fibAt[c] \in 1 .. FibSlots
      /\ fibRet[c] = n /\ n \in Found /\ n # 0
      /\ \A j \in 1 .. FibSlots : j < fibAt[c] => fib_seri[j] # 0
  <2>1. a \in Nat /\ a >= 2
    BY CallFacts
  <2>2. fibAt[c] \in 1 .. FibSlots
    BY FibAssumption DEF FibTypeOK, LooksInside
  <2>3. fibRet[c] = n /\ \A j \in 1 .. FibSlots : j < fibAt[c] => fib_seri[j] # 0
    BY DEF CallInStep
  <2>4. n \in Found /\ n # 0
    BY CallFinds
  <2> QED
    BY <2>1, <2>2, <2>3, <2>4
<1>3. fib_seri' = [fib_seri EXCEPT ![fibAt[c]] = n] /\ fibPc' = [fibPc EXCEPT ![c] = "send"]
  BY <1>2
<1>4. ~missed => fibAt[c] = a - 1 /\ Filled(a - 2)
  BY DEF CallsInOrder, CallInOrder
<1>5. TreeInStep' /\ Waited'
  BY StillWaited
<1>6. Asked(n)' /\ \A v : Asked(v) => Asked(v)'
  BY <1>2 DEF Asked, FibTypeOK
<1>7. TableInOrder'
  <2> HIDE DEF n, a
  <2> SUFFICES ASSUME NEW i \in 1 .. FibSlots, fib_seri'[i] # 0
               PROVE  /\ fib_seri'[i] \in Found
                      /\ Asked(fib_seri[i])'
                      /\ \A j \in 1 .. i : fib_seri'[j] # 0
                      /\ ~missed => fib_seri'[i] = Series[i]
    BY DEF TableInOrder
  <2>1. CASE i = fibAt[c]
    <3>1. fib_seri'[i] = n
      BY <1>2, <1>3, <2>1 DEF FibTypeOK
    <3>2. ASSUME NEW j \in 1 .. i PROVE fib_seri'[j] # 0
      <4>1. CASE j = i
        BY <1>2, <3>1, <4>1
      <4>2. CASE j < i
        <5>1. j \in 1 .. FibSlots /\ j < fibAt[c] /\ j # fibAt[c]
          BY <2>1, <4>2, FibAssumption
        <5> QED
          BY <1>2, <1>3, <5>1 DEF FibTypeOK
      <4> QED
        BY <4>1, <4>2
    <3>3. ~missed => n = Series[i]
      BY <1>4, <2>1 DEF n
    <3> QED
      BY <1>2, <1>6, <3>1, <3>2, <3>3
  <2>2. CASE i # fibAt[c]
    <3>1. fib_seri'[i] = fib_seri[i]
      BY <1>3, <2>2 DEF FibTypeOK
    <3>2. ASSUME NEW j \in 1 .. i PROVE fib_seri'[j] # 0
      <4>1. j \in 1 .. FibSlots /\ fib_seri[j] # 0
        BY <3>1, FibAssumption DEF TableInOrder
      <4> QED
        BY <1>2, <1>3, <4>1 DEF FibTypeOK
    <3>3. /\ fib_seri[i] \in Found /\ Asked(fib_seri[i])
          /\ ~missed => fib_seri[i] = Series[i]
      BY <3>1 DEF TableInOrder
    <3> QED
      BY <1>6, <3>1, <3>2, <3>3
  <2> QED
    BY <2>1, <2>2
<1>8. ASSUME NEW d \in Calls PROVE CallInStep(d)'
  BY <1>2, <1>3 DEF CallInStep, FibTypeOK
<1>9. ASSUME NEW d \in Calls, ~missed PROVE CallInOrder(d)'
  <2>1. fibAt[c] = a - 1 /\ Filled(a - 2)
    BY <1>4, <1>9
  <2>2. ASSUME NEW m, Filled(m) PROVE Filled(m)'
    BY <1>2, <1>3, <2>1, <2>2 DEF Filled, FibTypeOK
  <2>3. Filled(a - 1)'
    BY <1>2, <1>3, <2>1 DEF Filled, FibTypeOK
  <2>4. CASE d = c
    BY <1>3, <2>1, <2>2, <2>3, <2>4 DEF CallInOrder, FibTypeOK
  <2>5. CASE d # c
    <3>1. Filled(CallArg(d) - 2) => Filled(CallArg(d) - 2)'
      BY <2>2
    <3>2. Filled(CallArg(d) - 1) => Filled(CallArg(d) - 1)'
      BY <2>2
    <3> QED
      BY <1>9, <2>5, <3>1, <3>2 DEF CallsInOrder, CallInOrder, FibTypeOK
  <2> QED
    BY <2>4, <2>5
<1> QED
  BY <1>5, <1>7, <1>8, <1>9 DEF CallsInOrder

\* A call has sent its request for a snapshot.
LEMMA SendKeeps ==
  ASSUME FibInv, NEW c \in Calls, Send(c)
  PROVE  FibInv'
<1> USE DEF FibInv, Send
<1>1. FibTypeOK' /\ LooksInside'
  BY FibAssumption DEF FibTypeOK, LooksInside
<1> SUFFICES ASSUME refusals = 0
             PROVE  /\ TreeInStep' /\ Waited' /\ TableInOrder'
                    /\ \A d \in Calls : CallInStep(d)'
                    /\ CallsInOrder'
  BY <1>1
<1>2. TreeInStep' /\ Waited'
  BY StillWaited
<1>3. TableInOrder'
  <2>1. ASSUME NEW v, Asked(v) PROVE Asked(v)'
    BY <2>1 DEF Asked, FibTypeOK
  <2> QED
    BY <2>1 DEF TableInOrder
<1>4. ASSUME NEW d \in Calls PROVE CallInStep(d)'
  BY DEF CallInStep, FibTypeOK
<1>5. ASSUME NEW d \in Calls, ~missed PROVE CallInOrder(d)'
  BY <1>5 DEF CallsInOrder, CallInOrder, Filled, FibTypeOK
<1> QED
  BY <1>2, <1>3, <1>4, <1>5 DEF CallsInOrder

\* When the root has returned every snapshot has been asked for: no call is left.
LEMMA RootIsLast ==
  ASSUME FibInv, refusals = 0, Root \in Calls => fibPc[Root] = "done", NEW v, Asked(v)
  PROVE  v \in saved
<1>1. ASSUME NEW c \in Calls, fibPc[c] = "send" PROVE FALSE
  <2>1. Root \in Calls /\ (c = Root \/ Above(Root, c))
    BY AboveFacts
  <2> QED
    BY <1>1, <2>1 DEF FibInv, Waited
<1> QED
  BY <1>1 DEF Asked

\* The root has been joined.
LEMMA FibEndKeeps ==
  ASSUME FibInv, FibEnd
  PROVE  FibInv'
<1> USE DEF FibInv, FibEnd
<1>1. FibTypeOK' /\ LooksInside'
  BY FibAssumption DEF FibTypeOK, LooksInside
<1> SUFFICES ASSUME refusals = 0
             PROVE  /\ TreeInStep' /\ Waited' /\ TableInOrder'
                    /\ \A d \in Calls : CallInStep(d)'
                    /\ CallsInOrder'
  BY <1>1
<1>2. TreeInStep' /\ Waited'
  BY DEF TreeInStep, Waited, Children
<1>3. TableInOrder'
  <2>1. ASSUME NEW v, Asked(v) PROVE Asked(v)'
    BY <2>1, RootIsLast DEF Asked
  <2> QED
    BY <2>1 DEF TableInOrder
<1>4. ASSUME NEW d \in Calls PROVE CallInStep(d)' /\ CallInOrder(d)'
  BY DEF CallInStep, CallInOrder, FibTypeOK
<1> QED
  BY <1>2, <1>3, <1>4 DEF CallsInOrder

\* The property follows.
LEMMA SeriesFollows == FibInv => SeriesInOrder
<1> SUFFICES ASSUME FibInv, refusals = 0 PROVE SeriesInOrder
  BY DEF SeriesInOrder
<1>1. \A i \in 1 .. FibSlots :
        fib_seri[i] # 0 => /\ fib_seri[i] \in Found
                           /\ \A j \in 1 .. i : fib_seri[j] # 0
                           /\ ~missed => fib_seri[i] = Series[i]
  BY DEF FibInv, TableInOrder
<1>2. ASSUME FibArg >= 2, fibPc[Root] = "done"
      PROVE  /\ fibRet[Root] = Series[FibArg - 1]
             /\ \A i \in 1 .. FibSlots :
                  /\ i <= FibArg - 1 /\ ~missed => fib_seri[i] = Series[i]
                  /\ fib_seri[i] # 0 => fib_seri[i] \in saved
  <2>1. CallArg(Root) = FibArg
    <3>1. {i \in DOMAIN Root : Root[i] = 2} = {} /\ Len(Root) = 0
      BY DEF Root
    <3> QED
      BY <3>1, FS_EmptySet, FibAssumption DEF CallArg
  <2>2. Root \in Calls
    <3>1. Root \in [1 .. 0 -> {1, 2}]
      BY DEF Root
    <3>2. 0 \in 0 .. FibArg
      BY FibAssumption
    <3>3. Root \in FibPaths
      BY <3>1, <3>2 DEF FibPaths
    <3> QED
      BY <1>2, <2>1, <3>3 DEF Calls
  <2>3. fibRet[Root] = Series[FibArg - 1] /\ (~missed => Filled(FibArg - 1))
    BY <1>2, <2>1, <2>2 DEF FibInv, CallInStep, CallsInOrder, CallInOrder
  <2>4. ASSUME NEW i \in 1 .. FibSlots, fib_seri[i] # 0 PROVE fib_seri[i] \in saved
    BY <1>2, <2>4, RootIsLast DEF FibInv, TableInOrder
  <2> QED
    BY <2>3, <2>4 DEF Filled
<1> QED
  BY <1>1, <1>2 DEF SeriesInOrder

\* Every step of the console, of its commands and of the workers keeps fibon's
\* invariant.
LEMMA FibStepInv == FibInv /\ [ShellNext]_shellVars => FibInv'
<1> SUFFICES ASSUME FibInv, [ShellNext]_shellVars PROVE FibInv'
  OBVIOUS
<1>1. CASE StartFibon
  BY <1>1, FibStartKeeps DEF StartFibon
<1>2. CASE EndFibon
  BY <1>2, FibEndKeeps DEF EndFibon
<1>3. ASSUME NEW c \in Calls, ThreadFibon(c) PROVE FibInv'
  BY <1>3, ForkKeeps, ForkRefusedKeeps, JoinOneKeeps, JoinBothKeeps, KnownKeeps, SkipKeeps,
     DiffersKeeps, ClaimKeeps, StoreKeeps, SendKeeps DEF ThreadFibon, FibStep
<1>4. CASE UNCHANGED fibVars
  BY <1>4 DEF fibVars, FibInv, FibTypeOK, LooksInside, TreeInStep, Waited, TableInOrder,
     Asked, CallInStep, CallsInOrder, CallInOrder, Filled
<1>5. CASE Mount500 \/ MountFails500 \/ Format500 \/ Start500 \/ End500
  BY <1>4, <1>5 DEF Mount500, MountFails500, Format500, Start500, End500
<1>6. CASE EndCli \/ LeaveCli \/ \E w \in Workers : StartCli(w) \/ DetachCli(w)
  BY <1>4, <1>6 DEF EndCli, LeaveCli, StartCli, DetachCli
<1>7. CASE \E w \in Workers : WorkerStep(w)
  BY <1>4, <1>7 DEF WorkerStep, WorkerMountFails, WorkerFormat
<1>8. CASE \E t \in Threads : Thread500(t)
  BY <1>4, <1>8 DEF Thread500
<1>9. CASE UNCHANGED shellVars
  BY <1>4, <1>9 DEF shellVars
<1>10. CASE ConfigureNet
  BY <1>10 DEF ConfigureNet, Configure, FibInv, FibTypeOK, LooksInside, TreeInStep, Waited,
     TableInOrder, Asked, CallInStep, CallsInOrder, CallInOrder, Filled
<1> QED
  BY <1>1, <1>2, <1>3, <1>5, <1>6, <1>7, <1>8, <1>9, <1>10 DEF ShellNext, ShellStep

\* fibon's invariant holds throughout, for every argument and size of the table.
THEOREM FibInvariance == ShellSpec => []FibInv
<1>1. ShellInit => FibInv
  BY FibInitInv DEF ShellInit
<1> QED
  BY <1>1, FibStepInv, PTL DEF ShellSpec

\* Every variable of the console and of its three commands keeps its type.
THEOREM TypeCorrect == ShellSpec => []ShellTypeOK
<1>1. IndInv /\ FibInv => ShellTypeOK
  BY DEF IndInv, Typed, FibInv, ShellTypeOK
<1> QED
  BY <1>1, Invariance, FibInvariance, PTL

\* The threads of fibon, which take no lock, fill fib_seri from its beginning with
\* numbers of the series, each with its snapshot, and in order and once each as long
\* as no call misses its number between two looks; the root returns its number,
\* however they are scheduled, as long as every thread can be created.
THEOREM SeriesIsInOrder == ShellSpec => []SeriesInOrder
BY SeriesFollows, FibInvariance, PTL
=============================================================================
