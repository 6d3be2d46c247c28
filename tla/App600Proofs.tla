----------------------------- MODULE App600Proofs -----------------------------
(***************************************************************************)
(* Proofs about App600, for any number of threads that run commands or     *)
(* hellox, of commands and of answers, in both builds of the kernel.       *)
(***************************************************************************)
EXTENDS App600, FiniteSetTheorems, TLAPS

\* What the threads are busy with: the network thread with an answer to somebody
\* who listens, the others with a command.
ThreadsInPlace ==
    /\ pc[Net] \in {"idle", "acquire", "wait", "eval", "release"}
    /\ pc[Net] # "idle" =>
         /\ cmd[Net] \in {"handle_temp_resp", "handle_humidity_resp"}
         /\ Table(cmd[Net]) \in listening
    /\ \A t \in Cmds :
         pc[t] # "idle" => cmd[t] \in {"app600", "app601", "app602", "app603"}

\* The threads that wait for mu_lock_600.
Waiting == {t \in Users : pc[t] = "wait"}

\* The queue holds threads that wait.  Before the lock is torn it holds all of
\* them, there is one holder at most, who is past mutex_acquire, all of these are
\* counted, and nobody waits for nobody.
LockInStep ==
    /\ queue \subseteq Waiting
    /\ torn = FALSE =>
         /\ queue = Waiting
         /\ holder = NoThread => count = 0 /\ Waiting = {}
         /\ holder # NoThread => count = Cardinality(Waiting) + 1
         /\ \A t \in Users : pc[t] \in {"eval", "release"} <=> holder = t

\* The scope is there where it is relied upon, and, unless it was created twice,
\* so is what somebody has put into it.
ScopeInStep ==
    /\ names # {} => scope = TRUE
    /\ \A t \in Cmds :
         cmd[t] \in Asking /\ pc[t] \notin {"idle", "check", "create"} => scope = TRUE
    /\ \A x \in Hxs : pc[x] = "let" => scope = TRUE
    /\ wiped = FALSE =>
         /\ listening \subseteq names
         /\ \A t \in Cmds :
              pc[t] = "listen" \/ (pc[t] = "release" /\ cmd[t] \in Asking)
                => Table(cmd[t]) \in names
         /\ signaled = TRUE => "data" \in names

\* Whoever has signalled spins until hello withdraws the event, which hello does
\* only after it has acted on it.
EventInStep ==
    /\ signaled = TRUE => \E x \in Hxs : pc[x] = "spin"
    /\ hello \in {"eval", "unsignal"} => signaled = TRUE
    /\ \A x \in Hxs :
         pc[x] = "spin" /\ (signaled = FALSE \/ hello = "unsignal") => x \in seen \cup crowded

IndInv ==
    /\ TypeOK /\ ThreadsInPlace /\ LockInStep /\ ScopeInStep /\ EventInStep
    /\ SeenUnlessCrowded /\ DownHasCause

\* Nobody waits for a lock that nobody holds, until it is torn: the release of
\* mu_lock_600 that a waiter needs is still to come.
NoLostWakeup ==
    ~torn => \A t \in Users : pc[t] = "wait" =>
                 \E u \in Users : pc[u] \in {"eval", "release"} /\ holder = u

-----------------------------------------------------------------------------
(* Counting those who wait.                                                *)

\* They are finitely many.
LEMMA WaitingFinite ==
  /\ IsFiniteSet(Waiting)
  /\ Cardinality(Waiting) \in Nat
  /\ Cardinality(Waiting) = 0 <=> Waiting = {}
<1>1. IsFiniteSet(Users)
  BY ThreadsAssumption, FS_AddElement DEF Users
<1>2. IsFiniteSet(Waiting)
  BY <1>1, FS_Subset DEF Waiting
<1> QED
  BY <1>2, FS_CardinalityType, FS_EmptySet

-----------------------------------------------------------------------------
(* Every action keeps the invariant.                                       *)

\* A command is entered.
LEMMA EnterKeeps ==
  ASSUME IndInv, NEW t \in Cmds, NEW k \in {"app600", "app601", "app602", "app603"},
         node = "up", Enter(t, k)
  PROVE  IndInv'
<1> USE DEF IndInv, TypeOK, lock, tables, answers, event, Enter, Begin, Goto
<1>1. TypeOK'
  BY ThreadsAssumption DEF Users, Threads
<1>2. ThreadsInPlace'
  BY ThreadsAssumption DEF ThreadsInPlace, Users, Threads
<1>3. LockInStep'
  BY ThreadsAssumption DEF LockInStep, Waiting, Users, Threads
<1>4. ScopeInStep'
  BY ThreadsAssumption DEF ScopeInStep, Users, Threads
<1>5. EventInStep'
  BY DEF EventInStep
<1>6. SeenUnlessCrowded'
  BY DEF SeenUnlessCrowded
<1>7. DownHasCause'
  BY DEF DownHasCause
<1> QED
  BY <1>1, <1>2, <1>3, <1>4, <1>5, <1>6, <1>7

\* An answer arrives for somebody who listens.
LEMMA AnswerKeeps ==
  ASSUME IndInv, NEW k \in {"handle_temp_resp", "handle_humidity_resp"},
         NEW n \in BOOLEAN, node = "up", Answer(k, n)
  PROVE  IndInv'
<1> USE DEF IndInv, TypeOK, lock, tables, answers, event, Answer, Begin, Goto
<1>1. TypeOK'
  BY ThreadsAssumption DEF Users, Threads
<1>2. ThreadsInPlace'
  BY ThreadsAssumption DEF ThreadsInPlace, Users, Threads
<1>3. LockInStep'
  <2>1. Waiting' = Waiting
    BY ThreadsAssumption DEF Waiting, Users, Threads
  <2>2. \A u \in Users : pc'[u] \in {"eval", "release"} <=> pc[u] \in {"eval", "release"}
    BY ThreadsAssumption DEF Users, Threads
  <2> QED
    BY <2>1, <2>2 DEF LockInStep
<1>4. ScopeInStep'
  BY ThreadsAssumption DEF ScopeInStep, Users, Threads
<1>5. EventInStep'
  BY DEF EventInStep
<1>6. SeenUnlessCrowded'
  BY DEF SeenUnlessCrowded
<1>7. DownHasCause'
  BY DEF DownHasCause
<1> QED
  BY <1>1, <1>2, <1>3, <1>4, <1>5, <1>6, <1>7

\* hellox is started.
LEMMA EnterHelloxKeeps ==
  ASSUME IndInv, NEW x \in Hxs, node = "up", EnterHellox(x)
  PROVE  IndInv'
<1> USE DEF IndInv, TypeOK, lock, tables, answers, event, EnterHellox, Begin, Goto
<1>1. TypeOK'
  BY ThreadsAssumption DEF Users, Threads
<1>2. ThreadsInPlace'
  BY ThreadsAssumption DEF ThreadsInPlace, Users, Threads
<1>3. LockInStep'
  <2>1. Waiting' = Waiting
    BY ThreadsAssumption DEF Waiting, Users, Threads
  <2>2. \A u \in Users : pc'[u] \in {"eval", "release"} <=> pc[u] \in {"eval", "release"}
    BY ThreadsAssumption DEF Users, Threads
  <2> QED
    BY <2>1, <2>2 DEF LockInStep
<1>4. ScopeInStep'
  BY DEF ScopeInStep
<1>5. EventInStep'
  BY DEF EventInStep
<1>6. SeenUnlessCrowded'
  BY DEF SeenUnlessCrowded
<1>7. DownHasCause'
  BY DEF DownHasCause
<1> QED
  BY <1>1, <1>2, <1>3, <1>4, <1>5, <1>6, <1>7

\* A thread looks for the scope.
LEMMA CheckScopeKeeps ==
  ASSUME IndInv, NEW t \in Threads, node = "up", CheckScope(t)
  PROVE  IndInv'
<1> USE DEF IndInv, TypeOK, lock, tables, answers, event, CheckScope, Goto, AfterScope
<1>1. TypeOK'
  BY ThreadsAssumption DEF Users, Threads
<1>2. ThreadsInPlace'
  BY DEF ThreadsInPlace
<1>3. LockInStep'
  <2>1. Waiting' = Waiting
    BY ThreadsAssumption DEF Waiting, Users, Threads
  <2>2. \A u \in Users : pc'[u] \in {"eval", "release"} <=> pc[u] \in {"eval", "release"}
    BY ThreadsAssumption DEF Users, Threads
  <2> QED
    BY <2>1, <2>2 DEF LockInStep
<1>4. ScopeInStep'
  BY DEF ScopeInStep
<1>5. EventInStep'
  BY DEF EventInStep
<1>6. SeenUnlessCrowded'
  BY DEF SeenUnlessCrowded
<1>7. DownHasCause'
  BY DEF DownHasCause
<1> QED
  BY <1>1, <1>2, <1>3, <1>4, <1>5, <1>6, <1>7

\* A thread creates the scope, perhaps over another one.
LEMMA CreateScopeKeeps ==
  ASSUME IndInv, NEW t \in Threads, node = "up", CreateScope(t)
  PROVE  IndInv'
<1> USE DEF IndInv, TypeOK, lock, tables, answers, event, CreateScope, Goto, AfterScope
<1>1. TypeOK'
  BY ThreadsAssumption DEF Users, Threads
<1>2. ThreadsInPlace'
  BY DEF ThreadsInPlace
<1>3. LockInStep'
  <2>1. Waiting' = Waiting
    BY ThreadsAssumption DEF Waiting, Users, Threads
  <2>2. \A u \in Users : pc'[u] \in {"eval", "release"} <=> pc[u] \in {"eval", "release"}
    BY ThreadsAssumption DEF Users, Threads
  <2> QED
    BY <2>1, <2>2 DEF LockInStep
<1>4. ScopeInStep'
  BY DEF ScopeInStep
<1>5. EventInStep'
  BY DEF EventInStep
<1>6. SeenUnlessCrowded'
  BY DEF SeenUnlessCrowded
<1>7. DownHasCause'
  BY DEF DownHasCause
<1> QED
  BY <1>1, <1>2, <1>3, <1>4, <1>5, <1>6, <1>7

\* The lock is initialised: torn, unless nobody holds it or waits.
LEMMA InitLockKeeps ==
  ASSUME IndInv, NEW t \in Users, node = "up", InitLock(t)
  PROVE  IndInv'
<1> USE DEF IndInv, TypeOK, lock, tables, answers, event, InitLock, Goto
<1>1. TypeOK'
  BY ThreadsAssumption DEF Users, Threads
<1>2. ThreadsInPlace'
  BY DEF ThreadsInPlace
<1>3. LockInStep'
  <2>1. Waiting' = Waiting
    BY DEF Waiting, Users, Threads
  <2> SUFFICES ASSUME torn' = FALSE
               PROVE  /\ Waiting = {}
                      /\ \A u \in Users : pc'[u] \notin {"eval", "release"} /\ NoThread # u
    BY <2>1 DEF LockInStep
  <2>2. torn = FALSE /\ count = 0
    OBVIOUS
  <2>3. holder = NoThread
    BY <2>2, WaitingFinite DEF LockInStep
  <2> QED
    BY <2>2, <2>3, ThreadsAssumption DEF LockInStep, Users, Threads
<1>4. ScopeInStep'
  BY DEF ScopeInStep
<1>5. EventInStep'
  BY DEF EventInStep
<1>6. SeenUnlessCrowded'
  BY DEF SeenUnlessCrowded
<1>7. DownHasCause'
  BY DEF DownHasCause
<1> QED
  BY <1>1, <1>2, <1>3, <1>4, <1>5, <1>6, <1>7

\* A thread gets the lock that nobody holds.
LEMMA AcquireFreeKeeps ==
  ASSUME IndInv, NEW t \in Users, node = "up", pc[t] = "acquire", count' = count + 1,
         ~(count' > 1), pc' = [pc EXCEPT ![t] = "eval"], holder' = t, queue' = queue,
         UNCHANGED <<debug, node, cmd, uses, tables, answers, inited, torn, event>>
  PROVE  IndInv'
<1> USE DEF IndInv, TypeOK, lock, tables, answers, event
<1>1. TypeOK'
  BY ThreadsAssumption DEF Users, Threads
<1>2. ThreadsInPlace'
  BY DEF ThreadsInPlace
<1>3. LockInStep'
  <2>1. Waiting' = Waiting
    BY DEF Waiting, Users, Threads
  <2>2. CASE torn = FALSE
    <3>1. holder = NoThread
      BY <2>2, WaitingFinite DEF LockInStep
    <3>2. count' = 1 /\ Cardinality(Waiting) = 0
      BY <2>2, <3>1, WaitingFinite DEF LockInStep
    <3>3. \A u \in Users : pc'[u] \in {"eval", "release"} <=> holder' = u
      BY <2>2, <3>1, ThreadsAssumption DEF LockInStep, Users, Threads
    <3>4. holder' # NoThread
      BY ThreadsAssumption DEF Users
    <3> QED
      BY <2>1, <2>2, <3>2, <3>3, <3>4 DEF LockInStep
  <2> QED
    BY <2>1, <2>2 DEF LockInStep
<1>4. ScopeInStep'
  BY DEF ScopeInStep
<1>5. EventInStep'
  BY DEF EventInStep
<1>6. SeenUnlessCrowded'
  BY DEF SeenUnlessCrowded
<1>7. DownHasCause'
  BY DEF DownHasCause
<1> QED
  BY <1>1, <1>2, <1>3, <1>4, <1>5, <1>6, <1>7

\* A thread queues for the lock.
LEMMA AcquireWaitsKeeps ==
  ASSUME IndInv, NEW t \in Users, node = "up", pc[t] = "acquire", count' = count + 1,
         count' > 1, pc' = [pc EXCEPT ![t] = "wait"], holder' = holder, queue' =
         queue \cup {t}, UNCHANGED <<debug, node, cmd, uses, tables, answers,
         inited, torn, event>>
  PROVE  IndInv'
<1> USE DEF IndInv, TypeOK, lock, tables, answers, event
<1>1. TypeOK'
  BY ThreadsAssumption DEF Users, Threads
<1>2. ThreadsInPlace'
  BY DEF ThreadsInPlace
<1>3. LockInStep'
  <2>1. Waiting' = Waiting \cup {t} /\ t \notin Waiting
    BY DEF Waiting, Users, Threads
  <2>2. CASE torn = FALSE
    <3>1. holder # NoThread
      BY <2>2 DEF LockInStep
    <3>2. Cardinality(Waiting') = Cardinality(Waiting) + 1
      BY <2>1, WaitingFinite, FS_AddElement
    <3>3. count' = Cardinality(Waiting') + 1
      BY <2>2, <3>1, <3>2, WaitingFinite DEF LockInStep
    <3>4. \A u \in Users : pc'[u] \in {"eval", "release"} <=> holder' = u
      BY <2>2, ThreadsAssumption DEF LockInStep, Users, Threads
    <3> QED
      BY <2>1, <2>2, <3>1, <3>3, <3>4 DEF LockInStep
  <2> QED
    BY <2>1, <2>2 DEF LockInStep
<1>4. ScopeInStep'
  BY DEF ScopeInStep
<1>5. EventInStep'
  BY DEF EventInStep
<1>6. SeenUnlessCrowded'
  BY DEF SeenUnlessCrowded
<1>7. DownHasCause'
  BY DEF DownHasCause
<1> QED
  BY <1>1, <1>2, <1>3, <1>4, <1>5, <1>6, <1>7

\* The lock was never initialised.
LEMMA AcquirePanicsKeeps ==
  ASSUME IndInv, NEW t \in Users, node = "up", AcquirePanics(t)
  PROVE  IndInv'
<1> USE DEF IndInv, TypeOK, lock, tables, answers, event, AcquirePanics
<1>1. TypeOK'
  OBVIOUS
<1>2. ThreadsInPlace'
  BY DEF ThreadsInPlace
<1>3. LockInStep'
  BY DEF LockInStep, Waiting
<1>4. ScopeInStep'
  BY DEF ScopeInStep
<1>5. EventInStep'
  BY DEF EventInStep
<1>6. SeenUnlessCrowded'
  BY DEF SeenUnlessCrowded
<1>7. DownHasCause'
  BY DEF DownHasCause
<1> QED
  BY <1>1, <1>2, <1>3, <1>4, <1>5, <1>6, <1>7

\* A script ends, and its table is there.
LEMMA EvalEndsKeeps ==
  ASSUME IndInv, NEW t \in Users, node = "up", EvalEnds(t)
  PROVE  IndInv'
<1> USE DEF IndInv, TypeOK, lock, tables, answers, event, EvalEnds, Goto, Evaluable
<1>1. TypeOK'
  BY ThreadsAssumption DEF Users, Threads, Table
<1>2. ThreadsInPlace'
  BY DEF ThreadsInPlace
<1>3. LockInStep'
  BY DEF LockInStep, Waiting
<1>4. ScopeInStep'
  BY DEF ScopeInStep
<1>5. EventInStep'
  BY DEF EventInStep
<1>6. SeenUnlessCrowded'
  BY DEF SeenUnlessCrowded
<1>7. DownHasCause'
  BY DEF DownHasCause
<1> QED
  BY <1>1, <1>2, <1>3, <1>4, <1>5, <1>6, <1>7

\* A script fails.
LEMMA EvalFailsKeeps ==
  ASSUME IndInv, NEW t \in Users, node = "up", EvalFails(t)
  PROVE  IndInv'
<1> USE DEF IndInv, TypeOK, lock, tables, answers, event, EvalFails
<1>1. TypeOK'
  OBVIOUS
<1>2. ThreadsInPlace'
  BY DEF ThreadsInPlace
<1>3. LockInStep'
  BY DEF LockInStep, Waiting
<1>4. ScopeInStep'
  BY DEF ScopeInStep
<1>5. EventInStep'
  BY DEF EventInStep
<1>6. SeenUnlessCrowded'
  BY DEF SeenUnlessCrowded
<1>7. DownHasCause'
  <2> SUFFICES ASSUME wiped = FALSE, ~(pc[Net] = "eval" /\ negative)
               PROVE  t \in Cmds /\ cmd[t] \in {"app601", "app603"} /\ "temp" \notin names
    BY DEF DownHasCause
  <2>1. ~(scope = TRUE) => names = {}
    BY DEF ScopeInStep
  <2>2. t # Net
    BY <2>1 DEF ThreadsInPlace, ScopeInStep, Evaluable
  <2>3. t \in Cmds /\ cmd[t] \in {"app600", "app601", "app602", "app603"}
    BY <2>2 DEF ThreadsInPlace, Users
  <2>4. cmd[t] \notin Asking
    BY <2>3 DEF ScopeInStep, Evaluable
  <2> QED
    BY <2>1, <2>3, <2>4 DEF Evaluable, Asking, Table
<1> QED
  BY <1>1, <1>2, <1>3, <1>4, <1>5, <1>6, <1>7

\* The callback overruns its buffer.
LEMMA AnswerOverrunsKeeps ==
  ASSUME IndInv, NEW t \in Users, node = "up", AnswerOverruns(t)
  PROVE  IndInv'
<1> USE DEF IndInv, TypeOK, lock, tables, answers, event, AnswerOverruns
<1>1. TypeOK'
  OBVIOUS
<1>2. ThreadsInPlace'
  BY DEF ThreadsInPlace
<1>3. LockInStep'
  BY DEF LockInStep, Waiting
<1>4. ScopeInStep'
  BY DEF ScopeInStep
<1>5. EventInStep'
  BY DEF EventInStep
<1>6. SeenUnlessCrowded'
  BY DEF SeenUnlessCrowded
<1>7. DownHasCause'
  BY DEF DownHasCause
<1> QED
  BY <1>1, <1>2, <1>3, <1>4, <1>5, <1>6, <1>7

\* The lock is released to one that waits.
LEMMA ReleaseToKeeps ==
  ASSUME IndInv, NEW t \in Users, node = "up", pc[t] = "release", debug => holder =
         t, count' = count - 1, NEW u \in queue, count' >= 1, holder' = u, queue' =
         queue \ {u}, pc' = [pc EXCEPT ![t] = AfterRelease(t), ![u] = "eval"],
         UNCHANGED <<debug, node, cmd, uses, tables, answers, inited, torn, event>>
  PROVE  IndInv'
<1> USE DEF IndInv, TypeOK, lock, tables, answers, event, AfterRelease
<1>1. TypeOK'
  BY ThreadsAssumption DEF Users, Threads
<1>2. ThreadsInPlace'
  BY ThreadsAssumption DEF ThreadsInPlace, LockInStep, Waiting, Asking, Users,
     Threads
<1>3. LockInStep'
  <2>1. u \in Waiting /\ u # t /\ u \in Users
    BY DEF LockInStep, Waiting
  <2>2. Waiting' = Waiting \ {u}
    BY <2>1 DEF Waiting, Users, Threads, Asking
  <2>3. CASE torn = FALSE
    <3>1. holder = t /\ t # NoThread /\ u # NoThread
      BY <2>1, <2>3, ThreadsAssumption DEF LockInStep, Users
    <3>2. Cardinality(Waiting') = Cardinality(Waiting) - 1
      BY <2>1, <2>2, WaitingFinite, FS_RemoveElement
    <3>3. count' = Cardinality(Waiting') + 1
      BY <2>3, <3>1, <3>2, WaitingFinite DEF LockInStep
    <3>4. \A v \in Users : pc'[v] \in {"eval", "release"} <=> holder' = v
      BY <2>1, <2>3, <3>1 DEF LockInStep, Users, Threads
    <3> QED
      BY <2>2, <2>3, <3>1, <3>3, <3>4 DEF LockInStep
  <2> QED
    BY <2>2, <2>3 DEF LockInStep
<1>4. ScopeInStep'
  BY ThreadsAssumption DEF ScopeInStep, LockInStep, Waiting, ThreadsInPlace, Users,
     Threads, Asking
<1>5. EventInStep'
  BY ThreadsAssumption DEF EventInStep, Users, Threads
<1>6. SeenUnlessCrowded'
  BY ThreadsAssumption DEF SeenUnlessCrowded, Users, Threads
<1>7. DownHasCause'
  BY DEF DownHasCause
<1> QED
  BY <1>1, <1>2, <1>3, <1>4, <1>5, <1>6, <1>7

\* The lock is released, and nobody waits or is counted.
LEMMA ReleaseLastKeeps ==
  ASSUME IndInv, NEW t \in Users, node = "up", pc[t] = "release", debug => holder =
         t, count' = count - 1, ~(count' >= 1 /\ queue # {}), holder' = NoThread,
         queue' = queue, pc' = [pc EXCEPT ![t] = AfterRelease(t)], UNCHANGED <<debug,
         node, cmd, uses, tables, answers, inited, torn, event>>
  PROVE  IndInv'
<1> USE DEF IndInv, TypeOK, lock, tables, answers, event, AfterRelease
<1>1. TypeOK'
  BY ThreadsAssumption DEF Users, Threads
<1>2. ThreadsInPlace'
  BY ThreadsAssumption DEF ThreadsInPlace, LockInStep, Waiting, Asking, Users,
     Threads
<1>3. LockInStep'
  <2>1. Waiting' = Waiting
    BY DEF Waiting, Users, Threads
  <2>2. CASE torn = FALSE
    <3>1. holder = t /\ t # NoThread
      BY <2>2, ThreadsAssumption DEF LockInStep, Users
    <3>2. count' = Cardinality(Waiting)
      BY <2>2, <3>1, WaitingFinite DEF LockInStep
    <3>3. Waiting = {} /\ count' = 0
      BY <2>2, <3>2, WaitingFinite DEF LockInStep
    <3>4. \A u \in Users : pc'[u] \in {"eval", "release"} <=> holder' = u
      BY <2>2, <3>1, ThreadsAssumption DEF LockInStep, Users, Threads
    <3> QED
      BY <2>1, <2>2, <3>3, <3>4 DEF LockInStep
  <2> QED
    BY <2>1, <2>2 DEF LockInStep
<1>4. ScopeInStep'
  BY DEF ScopeInStep
<1>5. EventInStep'
  BY DEF EventInStep
<1>6. SeenUnlessCrowded'
  BY DEF SeenUnlessCrowded
<1>7. DownHasCause'
  BY DEF DownHasCause
<1> QED
  BY <1>1, <1>2, <1>3, <1>4, <1>5, <1>6, <1>7

\* The lock is not the one of the thread that releases it.
LEMMA ReleasePanicsKeeps ==
  ASSUME IndInv, NEW t \in Users, node = "up", ReleasePanics(t)
  PROVE  IndInv'
<1> USE DEF IndInv, TypeOK, lock, tables, answers, event, ReleasePanics
<1>1. TypeOK'
  OBVIOUS
<1>2. ThreadsInPlace'
  BY DEF ThreadsInPlace
<1>3. LockInStep'
  BY DEF LockInStep, Waiting
<1>4. ScopeInStep'
  BY DEF ScopeInStep
<1>5. EventInStep'
  BY DEF EventInStep
<1>6. SeenUnlessCrowded'
  BY DEF SeenUnlessCrowded
<1>7. DownHasCause'
  BY ThreadsAssumption DEF DownHasCause, LockInStep, ScopeInStep, EventInStep,
     ThreadsInPlace, Users, Threads
<1> QED
  BY <1>1, <1>2, <1>3, <1>4, <1>5, <1>6, <1>7

\* A command listens for its answers.
LEMMA AskKeeps ==
  ASSUME IndInv, NEW t \in Users, node = "up", Ask(t)
  PROVE  IndInv'
<1> USE DEF IndInv, TypeOK, lock, tables, answers, event, Ask, Goto
<1>1. TypeOK'
  BY ThreadsAssumption DEF Users, Threads, Table
<1>2. ThreadsInPlace'
  BY DEF ThreadsInPlace
<1>3. LockInStep'
  BY ThreadsAssumption DEF LockInStep, Waiting, Users, Threads
<1>4. ScopeInStep'
  BY ThreadsAssumption DEF ScopeInStep, ThreadsInPlace, Users, Threads, Table, Asking
<1>5. EventInStep'
  BY DEF EventInStep
<1>6. SeenUnlessCrowded'
  BY DEF SeenUnlessCrowded
<1>7. DownHasCause'
  BY DEF DownHasCause
<1> QED
  BY <1>1, <1>2, <1>3, <1>4, <1>5, <1>6, <1>7

\* hellox signals.
LEMMA SignalKeeps ==
  ASSUME IndInv, NEW x \in Hxs, node = "up", Signal(x)
  PROVE  IndInv'
<1> USE DEF IndInv, TypeOK, lock, tables, answers, event, Signal, Signalling, Goto
<1>1. TypeOK'
  BY ThreadsAssumption DEF Users, Threads, Table
<1>2. ThreadsInPlace'
  BY DEF ThreadsInPlace
<1>3. LockInStep'
  <2>1. Waiting' = Waiting
    BY ThreadsAssumption DEF Waiting, Users, Threads
  <2>2. \A u \in Users : pc'[u] \in {"eval", "release"} <=> pc[u] \in {"eval", "release"}
    BY ThreadsAssumption DEF Users, Threads
  <2> QED
    BY <2>1, <2>2 DEF LockInStep
<1>4. ScopeInStep'
  BY DEF ScopeInStep
<1>5. EventInStep'
  BY ThreadsAssumption DEF EventInStep, Users, Threads
<1>6. SeenUnlessCrowded'
  BY DEF SeenUnlessCrowded
<1>7. DownHasCause'
  BY DEF DownHasCause
<1> QED
  BY <1>1, <1>2, <1>3, <1>4, <1>5, <1>6, <1>7

\* hellox has been let go.
LEMMA HelloxReturnsKeeps ==
  ASSUME IndInv, NEW x \in Hxs, node = "up", HelloxReturns(x)
  PROVE  IndInv'
<1> USE DEF IndInv, TypeOK, lock, tables, answers, event, HelloxReturns, Goto
<1>1. TypeOK'
  BY ThreadsAssumption DEF Users, Threads
<1>2. ThreadsInPlace'
  BY DEF ThreadsInPlace
<1>3. LockInStep'
  <2>1. Waiting' = Waiting
    BY ThreadsAssumption DEF Waiting, Users, Threads
  <2>2. \A u \in Users : pc'[u] \in {"eval", "release"} <=> pc[u] \in {"eval", "release"}
    BY ThreadsAssumption DEF Users, Threads
  <2> QED
    BY <2>1, <2>2 DEF LockInStep
<1>4. ScopeInStep'
  BY DEF ScopeInStep
<1>5. EventInStep'
  BY DEF EventInStep
<1>6. SeenUnlessCrowded'
  BY ThreadsAssumption DEF SeenUnlessCrowded, EventInStep, Users, Threads
<1>7. DownHasCause'
  BY DEF DownHasCause
<1> QED
  BY <1>1, <1>2, <1>3, <1>4, <1>5, <1>6, <1>7

\* hello has waited in vain.
LEMMA HelloTimesOutKeeps ==
  ASSUME IndInv, node = "up", HelloTimesOut
  PROVE  IndInv'
<1> USE DEF IndInv, TypeOK, lock, tables, answers, event, HelloTimesOut, HelloUnchanged
<1>1. TypeOK'
  OBVIOUS
<1>2. ThreadsInPlace'
  BY DEF ThreadsInPlace
<1>3. LockInStep'
  BY DEF LockInStep, Waiting
<1>4. ScopeInStep'
  BY DEF ScopeInStep
<1>5. EventInStep'
  BY DEF EventInStep
<1>6. SeenUnlessCrowded'
  BY DEF SeenUnlessCrowded
<1>7. DownHasCause'
  BY DEF DownHasCause
<1> QED
  BY <1>1, <1>2, <1>3, <1>4, <1>5, <1>6, <1>7

\* hello has slept.
LEMMA HelloWakesKeeps ==
  ASSUME IndInv, node = "up", HelloWakes
  PROVE  IndInv'
<1> USE DEF IndInv, TypeOK, lock, tables, answers, event, HelloWakes, HelloUnchanged
<1>1. TypeOK'
  OBVIOUS
<1>2. ThreadsInPlace'
  BY DEF ThreadsInPlace
<1>3. LockInStep'
  BY DEF LockInStep, Waiting
<1>4. ScopeInStep'
  BY DEF ScopeInStep
<1>5. EventInStep'
  BY DEF EventInStep
<1>6. SeenUnlessCrowded'
  BY DEF SeenUnlessCrowded
<1>7. DownHasCause'
  BY DEF DownHasCause
<1> QED
  BY <1>1, <1>2, <1>3, <1>4, <1>5, <1>6, <1>7

\* hello finds the event.
LEMMA HelloWokenKeeps ==
  ASSUME IndInv, node = "up", HelloWoken
  PROVE  IndInv'
<1> USE DEF IndInv, TypeOK, lock, tables, answers, event, HelloWoken, HelloUnchanged
<1>1. TypeOK'
  OBVIOUS
<1>2. ThreadsInPlace'
  BY DEF ThreadsInPlace
<1>3. LockInStep'
  BY DEF LockInStep, Waiting
<1>4. ScopeInStep'
  BY DEF ScopeInStep
<1>5. EventInStep'
  BY DEF EventInStep
<1>6. SeenUnlessCrowded'
  BY DEF SeenUnlessCrowded
<1>7. DownHasCause'
  BY DEF DownHasCause
<1> QED
  BY <1>1, <1>2, <1>3, <1>4, <1>5, <1>6, <1>7

\* hello acts on the event.
LEMMA HelloEvalKeeps ==
  ASSUME IndInv, node = "up", HelloEval
  PROVE  IndInv'
<1> USE DEF IndInv, TypeOK, lock, tables, answers, event, HelloEval, HelloUnchanged,
    Signalling
<1>1. TypeOK'
  BY ThreadsAssumption DEF Users, Threads, Table
<1>2. ThreadsInPlace'
  BY DEF ThreadsInPlace
<1>3. LockInStep'
  BY DEF LockInStep, Waiting
<1>4. ScopeInStep'
  BY DEF ScopeInStep
<1>5. EventInStep'
  BY ThreadsAssumption DEF EventInStep, Users, Threads
<1>6. SeenUnlessCrowded'
  BY DEF SeenUnlessCrowded
<1>7. DownHasCause'
  BY ThreadsAssumption DEF DownHasCause, LockInStep, ScopeInStep, EventInStep,
     ThreadsInPlace, Users, Threads
<1> QED
  BY <1>1, <1>2, <1>3, <1>4, <1>5, <1>6, <1>7

\* hello withdraws the event.
LEMMA HelloUnsignalsKeeps ==
  ASSUME IndInv, node = "up", HelloUnsignals
  PROVE  IndInv'
<1> USE DEF IndInv, TypeOK, lock, tables, answers, event, HelloUnsignals, HelloUnchanged
<1>1. TypeOK'
  OBVIOUS
<1>2. ThreadsInPlace'
  BY DEF ThreadsInPlace
<1>3. LockInStep'
  BY DEF LockInStep, Waiting
<1>4. ScopeInStep'
  BY DEF ScopeInStep
<1>5. EventInStep'
  BY DEF EventInStep
<1>6. SeenUnlessCrowded'
  BY DEF SeenUnlessCrowded
<1>7. DownHasCause'
  BY DEF DownHasCause
<1> QED
  BY <1>1, <1>2, <1>3, <1>4, <1>5, <1>6, <1>7

\* Two threads meet inside the interpreter.
LEMMA MeetKeeps ==
  ASSUME IndInv, node = "up", Meet
  PROVE  IndInv'
<1> USE DEF IndInv, TypeOK, lock, tables, answers, event, Meet
<1>1. TypeOK'
  OBVIOUS
<1>2. ThreadsInPlace'
  BY DEF ThreadsInPlace
<1>3. LockInStep'
  BY DEF LockInStep, Waiting
<1>4. ScopeInStep'
  BY DEF ScopeInStep
<1>5. EventInStep'
  BY DEF EventInStep
<1>6. SeenUnlessCrowded'
  BY DEF SeenUnlessCrowded
<1>7. DownHasCause'
  BY DEF DownHasCause
<1> QED
  BY <1>1, <1>2, <1>3, <1>4, <1>5, <1>6, <1>7

\* A script fails for what they left behind.
LEMMA DerailKeeps ==
  ASSUME IndInv, node = "up", Derail
  PROVE  IndInv'
<1> USE DEF IndInv, TypeOK, lock, tables, answers, event, Derail
<1>1. TypeOK'
  OBVIOUS
<1>2. ThreadsInPlace'
  BY DEF ThreadsInPlace
<1>3. LockInStep'
  BY DEF LockInStep, Waiting
<1>4. ScopeInStep'
  BY DEF ScopeInStep
<1>5. EventInStep'
  BY DEF EventInStep
<1>6. SeenUnlessCrowded'
  BY DEF SeenUnlessCrowded
<1>7. DownHasCause'
  BY DEF DownHasCause
<1> QED
  BY <1>1, <1>2, <1>3, <1>4, <1>5, <1>6, <1>7

\* Whatever mutex_acquire finds, it keeps the invariant.
LEMMA AcquireKeeps ==
  ASSUME IndInv, NEW t \in Users, node = "up", Acquire(t)
  PROVE  IndInv'
<1>1. CASE MustWait(count')
  BY <1>1, AcquireWaitsKeeps DEF Acquire, MustWait, Goto
<1>2. CASE ~MustWait(count')
  BY <1>2, AcquireFreeKeeps DEF Acquire, MustWait, Goto
<1> QED
  BY <1>1, <1>2

\* Whatever mutex_release finds, it keeps the invariant.
LEMMA ReleaseKeeps ==
  ASSUME IndInv, NEW t \in Users, node = "up", Release(t)
  PROVE  IndInv'
<1>1. CASE count' >= 1 /\ queue # {}
  BY <1>1, ReleaseToKeeps DEF Release
<1>2. CASE ~(count' >= 1 /\ queue # {})
  BY <1>2, ReleaseLastKeeps DEF Release, Goto
<1> QED
  BY <1>1, <1>2

\* The invariant holds before the first command.
LEMMA InitInv == Init => IndInv
<1> SUFFICES ASSUME Init PROVE IndInv
  OBVIOUS
<1> USE ThreadsAssumption DEF Init, Users, Threads
<1>1. TypeOK
  <2>1. pc \in [Threads -> {"idle", "check", "create", "init", "acquire", "wait", "eval",
                            "release", "listen", "let", "spin", "done"}]
    OBVIOUS
  <2>2. cmd \in [Users -> {"none", "app600", "app601", "app602", "app603",
                           "handle_temp_resp", "handle_humidity_resp"}]
    OBVIOUS
  <2>3. \A t \in Threads : pc[t] = "idle"
    OBVIOUS
  <2>4. uses \in Nat /\ count \in Int
    OBVIOUS
  <2> QED
    BY <2>1, <2>2, <2>3, <2>4 DEF TypeOK
<1>2. ThreadsInPlace
  BY DEF ThreadsInPlace
<1>3. LockInStep
  BY DEF LockInStep, Waiting
<1>4. ScopeInStep
  BY DEF ScopeInStep
<1>5. EventInStep /\ SeenUnlessCrowded
  BY DEF EventInStep, SeenUnlessCrowded
<1>6. DownHasCause
  BY DEF DownHasCause
<1> QED
  BY <1>1, <1>2, <1>3, <1>4, <1>5, <1>6 DEF IndInv

\* Every step keeps it.
LEMMA StepInv == IndInv /\ [Next]_vars => IndInv'
<1> SUFFICES ASSUME IndInv, [Next]_vars PROVE IndInv'
  OBVIOUS
<1>1. CASE UNCHANGED vars
  <2>1. Waiting' = Waiting
    BY <1>1 DEF vars, Waiting
  <2> QED
    BY <1>1, <2>1 DEF vars, lock, tables, answers, event, IndInv, TypeOK, ThreadsInPlace, LockInStep,
       ScopeInStep, EventInStep, SeenUnlessCrowded, DownHasCause
<1>2. ASSUME node = "up", NEW t \in Cmds, NEW k \in {"app600", "app601", "app602", "app603"},
             Enter(t, k)
      PROVE  IndInv'
  BY <1>2, EnterKeeps
<1>3. ASSUME node = "up", NEW k \in {"handle_temp_resp", "handle_humidity_resp"},
             NEW n \in BOOLEAN, Answer(k, n)
      PROVE  IndInv'
  BY <1>3, AnswerKeeps
<1>4. ASSUME node = "up", NEW x \in Hxs, EnterHellox(x)
      PROVE  IndInv'
  BY <1>4, EnterHelloxKeeps
<1>5. ASSUME node = "up", NEW t \in Users, UserStep(t)
      PROVE  IndInv'
  <2>1. t \in Threads
    BY DEF Threads
  <2> QED
    BY <1>5, <2>1, CheckScopeKeeps, CreateScopeKeeps, InitLockKeeps, AcquireKeeps,
       AcquirePanicsKeeps, EvalEndsKeeps, EvalFailsKeeps, AnswerOverrunsKeeps, ReleaseKeeps,
       ReleasePanicsKeeps, AskKeeps DEF UserStep
<1>6. ASSUME node = "up", NEW x \in Hxs, HelloxStep(x)
      PROVE  IndInv'
  <2>1. x \in Threads
    BY DEF Threads
  <2> QED
    BY <1>6, <2>1, CheckScopeKeeps, CreateScopeKeeps, SignalKeeps, HelloxReturnsKeeps
       DEF HelloxStep
<1>7. ASSUME node = "up", HelloStep
      PROVE  IndInv'
  BY <1>7, HelloTimesOutKeeps, HelloWakesKeeps, HelloWokenKeeps, HelloEvalKeeps,
     HelloUnsignalsKeeps DEF HelloStep
<1>8. ASSUME node = "up", Meet \/ Derail
      PROVE  IndInv'
  BY <1>8, MeetKeeps, DerailKeeps
<1> QED
  BY <1>1, <1>2, <1>3, <1>4, <1>5, <1>6, <1>7, <1>8 DEF Next

-----------------------------------------------------------------------------

\* The inductive invariant holds throughout.
THEOREM Invariance == Spec => []IndInv
BY InitInv, StepInv, PTL DEF Spec

\* Every variable keeps its type, and every thread the part of the code that is its.
THEOREM TypeCorrect == Spec => []TypeOK
BY Invariance, PTL DEF IndInv

\* Scripts under mu_lock_600 exclude each other until some app600 or app602
\* initialises it in use.
THEOREM Exclusive == Spec => []ExclusiveUntilTorn
<1>1. IndInv => ExclusiveUntilTorn
  BY DEF IndInv, TypeOK, LockInStep, ExclusiveUntilTorn
<1> QED
  BY <1>1, Invariance, PTL

\* Until then no release of mu_lock_600 forgets a thread that waits: the callback
\* on the network thread is never left behind a lock that is free.
THEOREM WakeupsAreKept == Spec => []NoLostWakeup
<1>1. ASSUME IndInv PROVE NoLostWakeup
  <2> SUFFICES ASSUME ~torn, NEW t \in Users, pc[t] = "wait"
               PROVE  \E u \in Users : pc[u] \in {"eval", "release"} /\ holder = u
    BY Zenon DEF NoLostWakeup
  <2>1. holder # NoThread
    BY <1>1 DEF IndInv, LockInStep, Waiting
  <2>2. holder \in Users
    BY <1>1, <2>1 DEF IndInv, TypeOK
  <2> QED
    BY <1>1, <2>2 DEF IndInv, LockInStep
<1> QED
  BY <1>1, Invariance, PTL

\* A script fails only for a reader that came before the table it reads, for a value
\* below zero, or after the scope was created twice or two threads met inside the
\* interpreter; the kernel panics only on a lock never initialised or torn.
THEOREM DownsHaveCause == Spec => []DownHasCause
BY Invariance, PTL DEF IndInv

\* hello has acted on the signal of every hellox that has returned, unless another
\* was signalling beside it.
THEOREM SignalsAreSeen == Spec => []SeenUnlessCrowded
BY Invariance, PTL DEF IndInv
=============================================================================
