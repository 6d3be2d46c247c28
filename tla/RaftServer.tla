----------------------------- MODULE RaftServer -----------------------------
(***************************************************************************)
(* Executing replicated commands on a node: the worker threads of          *)
(* pus/exp/raft1/raft_test.c, one per connection, each of which evaluates  *)
(* one command with the mu interpreter under the mutex mu_lock_raft1; and  *)
(* the other users of the interpreter, the console with muapp and the      *)
(* app600 commands, and the network thread with app600's callbacks.        *)
(*                                                                         *)
(* Two things go on behind the mutex's back.  A worker waits 2.5 seconds   *)
(* for it and then evaluates without it, and releases it nevertheless.     *)
(* And an evaluation that fails jumps to wherever mu_error_jmp was set     *)
(* last: the jump is safe only if that was by the same thread, in a        *)
(* function that has not returned.                                         *)
(*                                                                         *)
(* The mutex is the kernel's: a count of those who hold or want it, and a  *)
(* queue.  A release by a thread that does not hold it is a panic in a     *)
(* debug build of the kernel and taken at its word in another.             *)
(***************************************************************************)
EXTENDS Integers, FiniteSets

CONSTANTS
    Workers,        \* raftserver_worker threads
    Others,         \* threads that use the interpreter without mu_lock_raft1
    NoThread,
    MaxCommands     \* bound: evaluations begun

ASSUME ThreadsAssumption ==
    IsFiniteSet(Workers) /\ Workers \cap Others = {} /\ NoThread \notin Workers \cup Others
ASSUME MaxCommandsAssumption == MaxCommands \in Nat

Threads == Workers \cup Others

VARIABLES
    debug,      \* is the kernel a debug build?
    pc,         \* "idle", "acquire", "wait", "enter", "eval" or "release"
    has,        \* did mutex_acquire_timeout say that the thread has the mutex?
    count,      \* the mutex: those who hold it or wait for it
    holder,     \* the mutex: whose it is
    jmp,        \* the thread whose frame mu_error_jmp names, or NoThread
    commands,   \* evaluations begun
    foreign,    \* history: releases by a thread that did not have the mutex
    intruded,   \* history: has anyone evaluated without the mutex?
    node        \* "up", "panic", or "lost" after a jump into another's frame

vars == <<debug, pc, has, count, holder, jmp, commands, foreign, intruded, node>>

mutex == <<has, count, holder>>

Init ==
    /\ debug \in BOOLEAN
    /\ pc = [t \in Threads |-> "idle"]
    /\ has = [t \in Threads |-> FALSE]
    /\ count = 0
    /\ holder = NoThread
    /\ jmp = NoThread
    /\ commands = 0
    /\ foreign = 0
    /\ intruded = FALSE
    /\ node = "up"

Goto(t, l) == pc' = [pc EXCEPT ![t] = l]

(***************************************************************************)
(* A connection: its thread reads a message and decodes it.  One that      *)
(* cannot be read or decoded ends the thread, its socket left open.        *)
(***************************************************************************)
Receive(t) ==
    /\ t \in Workers
    /\ pc[t] = "idle"
    /\ commands < MaxCommands
    /\ commands' = commands + 1
    /\ Goto(t, "acquire")
    /\ UNCHANGED <<debug, mutex, jmp, foreign, intruded, node>>

\* Mistake: two are let in.
mustWaitAsThird(c) == c > 2

\* Is the mutex taken, the caller being counted as the c-th?
mustWait(c) == c > 1

\* mutex_acquire_timeout(&mu_lock_raft1, 2500), as far as it gets at once
Acquire(t) ==
    /\ pc[t] = "acquire"
    /\ count' = count + 1
    /\ IF mustWait(count')
       THEN Goto(t, "wait") /\ UNCHANGED <<has, holder>>
       ELSE /\ Goto(t, "enter")
            /\ has' = [has EXCEPT ![t] = TRUE]
            /\ holder' = t
    /\ UNCHANGED <<debug, jmp, commands, foreign, intruded, node>>

\* Mistake: one who gives up waiting stays counted.
countAfterTimeoutKept == count

countAfterTimeout == count - 1

\* The 2.5 seconds pass: the worker goes on as if it had the mutex.
TimeOut(t) ==
    /\ pc[t] = "wait"
    /\ count' = countAfterTimeout
    /\ intruded' = TRUE
    /\ Goto(t, "enter")
    /\ UNCHANGED <<debug, has, holder, jmp, commands, foreign, node>>

\* setjmp(mu_error_jmp), and mu_eval begins
SetJump(t) ==
    /\ pc[t] = "enter"
    /\ jmp' = t
    /\ Goto(t, "eval")
    /\ UNCHANGED <<debug, mutex, commands, foreign, intruded, node>>

(***************************************************************************)
(* Another user of the interpreter begins to evaluate: muapp after setting *)
(* mu_error_jmp, the app600 commands and callbacks without.                *)
(***************************************************************************)
EvalOutside(t) ==
    /\ t \in Others
    /\ pc[t] = "idle"
    /\ commands < MaxCommands
    /\ commands' = commands + 1
    /\ intruded' = TRUE
    /\ jmp' \in {jmp, t}
    /\ Goto(t, "eval")
    /\ UNCHANGED <<debug, mutex, foreign, node>>

\* The function that called setjmp returns: mu_error_jmp names nothing any more.
JumpAfterReturn(t) == IF jmp = t THEN NoThread ELSE jmp

\* The evaluation is over; a worker has yet to release, the others just return.
Finish(t) ==
    IF t \in Workers THEN Goto(t, "release") /\ UNCHANGED jmp
                     ELSE Goto(t, "idle") /\ jmp' = JumpAfterReturn(t)

EvalSucceeds(t) ==
    /\ pc[t] = "eval"
    /\ Finish(t)
    /\ UNCHANGED <<debug, mutex, commands, foreign, intruded, node>>

\* mu_error_jmp names a frame of this thread that is still there.
jumpsHome(t) == jmp = t

\* mu_sys_error: longjmp(mu_error_jmp, 1)
EvalFails(t) ==
    /\ pc[t] = "eval"
    /\ IF jumpsHome(t)
       THEN Finish(t) /\ UNCHANGED node
       ELSE node' = "lost" /\ UNCHANGED <<pc, jmp>>
    /\ UNCHANGED <<debug, mutex, commands, foreign, intruded>>

Waiting == {t \in Workers : pc[t] = "wait"}

mayRelease(t) == debug => holder = t

\* Mistake: the branch for a failed command releases, and line 165 once more.
ReleaseTwice(t) ==
    /\ pc[t] = "release"
    /\ mayRelease(t)
    /\ Waiting = {}
    /\ count' = count - 2
    /\ foreign' = IF has[t] THEN foreign ELSE foreign + 1
    /\ Goto(t, "idle")
    /\ has' = [has EXCEPT ![t] = FALSE]
    /\ holder' = NoThread
    /\ jmp' = JumpAfterReturn(t)
    /\ UNCHANGED <<debug, commands, intruded, node>>

\* mutex_release(&mu_lock_raft1), whoever has it
Release(t) ==
    /\ pc[t] = "release"
    /\ mayRelease(t)
    /\ count' = count - 1
    /\ foreign' = IF has[t] THEN foreign ELSE foreign + 1
    /\ IF count' >= 1 /\ Waiting # {}
       THEN \E u \in Waiting :
                /\ pc' = [pc EXCEPT ![t] = "idle", ![u] = "enter"]
                /\ has' = [has EXCEPT ![t] = FALSE, ![u] = TRUE]
                /\ holder' = u
       ELSE /\ pc' = [pc EXCEPT ![t] = "idle"]
            /\ has' = [has EXCEPT ![t] = FALSE]
            /\ holder' = NoThread
    /\ jmp' = JumpAfterReturn(t)
    /\ UNCHANGED <<debug, commands, intruded, node>>

\* The debug kernel finds that the mutex is someone else's.
ReleasePanics(t) ==
    /\ pc[t] = "release"
    /\ ~mayRelease(t)
    /\ node' = "panic"
    /\ UNCHANGED <<debug, pc, mutex, jmp, commands, foreign, intruded>>

Step(t) ==
    \/ Receive(t) \/ Acquire(t) \/ TimeOut(t) \/ SetJump(t) \/ EvalOutside(t)
    \/ EvalSucceeds(t) \/ EvalFails(t) \/ Release(t) \/ ReleasePanics(t)

Next == node = "up" /\ \E t \in Threads : Step(t)

Spec == Init /\ [][Next]_vars

-----------------------------------------------------------------------------

Evaluating == {t \in Threads : pc[t] = "eval"}
Having == {t \in Workers : has[t]}

TypeOK ==
    /\ debug \in BOOLEAN
    /\ pc \in [Threads -> {"idle", "acquire", "wait", "enter", "eval", "release"}]
    /\ has \in [Threads -> BOOLEAN]
    /\ count \in Int
    /\ holder \in Workers \cup {NoThread}
    /\ jmp \in Threads \cup {NoThread}
    /\ commands \in Nat
    /\ foreign \in Nat
    /\ intruded \in BOOLEAN
    /\ node \in {"up", "panic", "lost"}

(***************************************************************************)
(* The mutex's count is who has it and who waits for it, less one for      *)
(* every release by a worker that had given up waiting: those never come   *)
(* back, so each of them lets one more worker in for ever.                 *)
(***************************************************************************)
CountAccounted == count = Cardinality(Having) + Cardinality(Waiting) - foreign

(***************************************************************************)
(* As long as nobody has evaluated without the mutex, evaluations exclude  *)
(* each other, an error returns to the worker that caused it, and the node *)
(* stays up, whatever commands fail.                                       *)
(***************************************************************************)
ContainedUntilIntruded ==
    ~intruded =>
        /\ \A t, u \in Evaluating : t = u
        /\ node = "up"
        /\ \A t \in Evaluating : jmp = t

(***************************************************************************)
(* What a release without the mutex costs: one place more, for good.  With *)
(* n such releases so far the mutex lets n + 1 workers in, never more, and *)
(* a worker waits only while all of these places are taken: exclusion is   *)
(* lost one step at a time, but no worker is forgotten in the queue.       *)
(***************************************************************************)
ForeignReleasesWiden ==
    /\ Cardinality(Having) <= foreign + 1
    /\ Waiting # {} => Cardinality(Having) = foreign + 1
=============================================================================
