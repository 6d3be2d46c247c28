------------------------------- MODULE App500 -------------------------------
(***************************************************************************)
(* The console command app500 (pus/exp/app500/myapp.c): a publisher and    *)
(* two subscribers use the file pipe0 on littlefs as a pipe, one mutex     *)
(* around every use.  The publisher always writes one record at the        *)
(* beginning of the file, so the file never holds more than one; a         *)
(* subscriber that finds nothing behind the record it read leaves its loop *)
(* with the file open and the mutex held.                                  *)
(*                                                                         *)
(* Records are only counted.  What a thread does while it holds the mutex  *)
(* is one step.  The file outlives the invocation.                         *)
(***************************************************************************)
EXTENDS Integers, FiniteSets

CONSTANTS
    PubRounds,      \* rounds of pub500 (10)
    SubRounds,      \* rounds of each subscriber (12 and 11)
    Pub,
    Subs,
    NoThread,
    MaxRuns         \* bound: how often the command is invoked

ASSUME RoundsAssumption ==
    PubRounds \in Nat \ {0} /\ SubRounds \in [Subs -> Nat \ {0}]
ASSUME ThreadsAssumption == Pub \notin Subs /\ NoThread \notin Subs \cup {Pub}
ASSUME MaxRunsAssumption == MaxRuns \in Nat

Threads == {Pub} \cup Subs

VARIABLES
    running,    \* app500 is between mutex_init and mutex_destroy
    runs,
    pc,         \* "acquire", "held", "sleep", "done", or "gone": left with the lock
    round,      \* rounds completed in this invocation
    pipe_lock,
    records,    \* records in pipe0; 0: the file does not exist
    written,    \* history: records written in this invocation
    delivered   \* history: records read in this invocation

vars == <<running, runs, pc, round, pipe_lock, records, written, delivered>>

Init ==
    /\ running = FALSE
    /\ runs = 0
    /\ pc = [t \in Threads |-> "done"]
    /\ round = [t \in Threads |-> 0]
    /\ pipe_lock = NoThread
    /\ records \in {0, 1}
    /\ written = 0
    /\ delivered = 0

\* The device is mounted, the lock initialised, the three threads resumed.
Start ==
    /\ ~running
    /\ runs < MaxRuns
    /\ running' = TRUE
    /\ runs' = runs + 1
    /\ pipe_lock' = NoThread
    /\ pc' = [t \in Threads |-> "acquire"]
    /\ UNCHANGED <<round, records, written, delivered>>

\* Mistake: the lock is not waited for.
AcquireAnyway(t) ==
    /\ pc[t] = "acquire"
    /\ pipe_lock' = t
    /\ pc' = [pc EXCEPT ![t] = "held"]
    /\ UNCHANGED <<running, runs, round, records, written, delivered>>

\* mutex_acquire(&pipe_lock)
Acquire(t) ==
    /\ pc[t] = "acquire"
    /\ pipe_lock = NoThread
    /\ pipe_lock' = t
    /\ pc' = [pc EXCEPT ![t] = "held"]
    /\ UNCHANGED <<running, runs, round, records, written, delivered>>

\* Mistake: the error return keeps the lock.
GiveUpLocked(t) ==
    /\ pc' = [pc EXCEPT ![t] = "done"]
    /\ UNCHANGED <<running, runs, round, pipe_lock, records, written, delivered>>

\* The file cannot be opened: release and return 1.
GiveUp(t) ==
    /\ pipe_lock' = NoThread
    /\ pc' = [pc EXCEPT ![t] = "done"]
    /\ UNCHANGED <<running, runs, round, records, written, delivered>>

\* The file is created if needed and written from its beginning.
WriteAtStart(r) == IF r = 0 THEN 1 ELSE r

\* pub500 writes a record.
Publish ==
    /\ pc[Pub] = "held"
    /\ written' = written + 1
    /\ records' = WriteAtStart(records)
    /\ pipe_lock' = NoThread
    /\ pc' = [pc EXCEPT ![Pub] = "sleep"]
    /\ UNCHANGED <<running, runs, round, delivered>>

\* lfs_file_open may fail at any time, and does where nothing is mounted.
PublishFails ==
    /\ pc[Pub] = "held"
    /\ GiveUp(Pub)

\* A subscriber has read the first record: with nothing behind it, it breaks out
\* of the loop past close and release; otherwise it closes, releases and sleeps.
Leave(t) ==
    IF records <= 1
    THEN pc' = [pc EXCEPT ![t] = "gone"] /\ UNCHANGED pipe_lock
    ELSE pc' = [pc EXCEPT ![t] = "sleep"] /\ pipe_lock' = NoThread

Subscribe(t) ==
    /\ t \in Subs
    /\ pc[t] = "held"
    /\ records > 0
    /\ delivered' = delivered + 1
    /\ Leave(t)
    /\ UNCHANGED <<running, runs, round, records, written>>

SubscribeFails(t) ==
    /\ t \in Subs
    /\ pc[t] = "held"
    /\ GiveUp(t)

\* thread_sleep(1000) and the loop's count.
NextRound(t) ==
    /\ pc[t] = "sleep"
    /\ round' = [round EXCEPT ![t] = @ + 1]
    /\ pc' = [pc EXCEPT ![t] =
                IF round[t] + 1 < (IF t = Pub THEN PubRounds ELSE SubRounds[t])
                THEN "acquire" ELSE "done"]
    /\ UNCHANGED <<running, runs, pipe_lock, records, written, delivered>>

\* All three joins have returned and the threads are gone; the lock is destroyed.
JoinAll ==
    /\ running
    /\ \A t \in Threads : pc[t] \in {"done", "gone"}
    /\ running' = FALSE
    /\ pipe_lock' = NoThread
    /\ pc' = [t \in Threads |-> "done"]
    /\ round' = [t \in Threads |-> 0]
    /\ written' = 0
    /\ delivered' = 0
    /\ UNCHANGED <<runs, records>>

ThreadStep(t) ==
    \/ Acquire(t)
    \/ t = Pub /\ (Publish \/ PublishFails)
    \/ Subscribe(t)
    \/ SubscribeFails(t)
    \/ NextRound(t)

Next == Start \/ JoinAll \/ \E t \in Threads : ThreadStep(t)

(* Threads are scheduled and the sleeps end. *)
Fairness == WF_vars(JoinAll) /\ WF_vars(\E t \in Threads : ThreadStep(t))

Spec == Init /\ [][Next]_vars /\ Fairness

-----------------------------------------------------------------------------
(* Properties.                                                             *)

TypeOK ==
    /\ running \in BOOLEAN
    /\ runs \in 0 .. MaxRuns
    /\ pc \in [Threads -> {"acquire", "held", "sleep", "done", "gone"}]
    /\ round \in [Threads -> Nat]
    /\ pipe_lock \in Threads \cup {NoThread}
    /\ records \in {0, 1}
    /\ written \in Nat
    /\ delivered \in Nat

\* Somebody has left its loop with the lock.
Abandoned == running /\ \E t \in Subs : pc[t] = "gone"

\* The lock is held by the thread that uses the file or by the one that left with
\* it: every other way out of pub500, sub500 and sub500_2 gives it back, and no
\* two subscribers ever leave with it.
LockAccounted ==
    running => \A t \in Threads : pc[t] \in {"held", "gone"} <=> pipe_lock = t

\* Once a subscriber has found the pipe "empty", as the first that reads a record
\* does, nothing moves through it any more in this invocation: no record is
\* written and none is read, however many rounds the threads have left.
DeadOnceAbandoned ==
    [][Abandoned /\ running' => UNCHANGED <<written, delivered>>]_vars

=============================================================================
