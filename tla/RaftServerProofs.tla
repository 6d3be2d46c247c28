-------------------------- MODULE RaftServerProofs --------------------------
(***************************************************************************)
(* Proofs about RaftServer for any number of workers, of other users of    *)
(* the interpreter and of commands, in both builds of the kernel.          *)
(***************************************************************************)
EXTENDS RaftServer, FiniteSetTheorems, TLAPS

\* Where a thread can be, and that it has the mutex only between getting and
\* releasing it.
ThreadsInPlace ==
    /\ \A t \in Workers : pc[t] \in {"idle", "acquire", "wait"} => has[t] = FALSE
    /\ \A t \in Others : has[t] = FALSE /\ pc[t] \in {"idle", "eval"}

\* Before any intrusion: whoever is past the mutex has it, one thread at most,
\* and it is the one mu_error_jmp names while it evaluates.
Orderly ==
    ~intruded =>
        /\ foreign = 0
        /\ node = "up"
        /\ \A t \in Threads : pc[t] \in {"enter", "eval", "release"} => has[t] = TRUE
        /\ \A t, u \in Workers : (has[t] = TRUE /\ has[u] = TRUE) => t = u
        /\ \A t \in Workers : has[t] = TRUE => holder = t
        /\ \A t \in Threads : pc[t] = "eval" => jmp = t

IndInv == TypeOK /\ ThreadsInPlace /\ CountAccounted /\ ForeignReleasesWiden /\ Orderly

-----------------------------------------------------------------------------

\* Only workers meet the mutex.
LEMMA WorkersOnly ==
  ASSUME ThreadsInPlace, NEW t \in Threads, pc[t] \notin {"idle", "eval"}
  PROVE  t \in Workers
BY DEF ThreadsInPlace, Threads

\* TypeOK is inductive.
LEMMA TypeOKStep ==
  ASSUME TypeOK, ThreadsInPlace, [Next]_vars
  PROVE  TypeOK'
<1> USE ThreadsAssumption DEF TypeOK, Threads, Goto, mutex
<1>0. CASE UNCHANGED vars
  BY <1>0 DEF vars
<1>1. SUFFICES ASSUME NEW t \in Threads, Step(t) PROVE TypeOK'
  BY <1>0 DEF Next
<1>2. CASE Receive(t)
  BY <1>2, SMT DEF Receive
<1>3. CASE Acquire(t)
  <2>1. t \in Workers
    BY <1>3, WorkersOnly DEF Acquire
  <2>2. CASE mustWait(count')
    <3>1. /\ count' = count + 1 /\ pc' = [pc EXCEPT ![t] = "wait"]
          /\ UNCHANGED <<has, holder, debug, jmp, commands, foreign, intruded, node>>
      BY <1>3, <2>2 DEF Acquire
    <3> QED
      BY <3>1
  <2>3. CASE ~mustWait(count')
    <3>1. /\ count' = count + 1 /\ pc' = [pc EXCEPT ![t] = "enter"]
          /\ has' = [has EXCEPT ![t] = TRUE] /\ holder' = t
          /\ UNCHANGED <<debug, jmp, commands, foreign, intruded, node>>
      BY <1>3, <2>3 DEF Acquire
    <3> QED
      BY <2>1, <3>1
  <2> QED
    BY <2>2, <2>3
<1>4. CASE TimeOut(t)
  BY <1>4, SMT DEF TimeOut, countAfterTimeout
<1>5. CASE SetJump(t)
  BY <1>5, SMT DEF SetJump
<1>6. CASE EvalOutside(t)
  BY <1>6, SMT DEF EvalOutside
<1>7. CASE EvalSucceeds(t)
  BY <1>7, SMT DEF EvalSucceeds, Finish, JumpAfterReturn
<1>8. CASE EvalFails(t)
  BY <1>8, SMT DEF EvalFails, Finish, JumpAfterReturn
<1>9. CASE Release(t)
  <2>1. /\ count' \in Int /\ foreign' \in Nat
        /\ jmp' \in Threads \cup {NoThread}
        /\ UNCHANGED <<debug, commands, intruded, node>>
    BY <1>9, SMT DEF Release, JumpAfterReturn
  <2>2. CASE count' >= 1 /\ Waiting # {}
    <3>1. PICK u \in Waiting :
                /\ pc' = [pc EXCEPT ![t] = "idle", ![u] = "enter"]
                /\ has' = [has EXCEPT ![t] = FALSE, ![u] = TRUE]
                /\ holder' = u
      BY <1>9, <2>2 DEF Release
    <3> QED
      BY <2>1, <3>1 DEF Waiting
  <2>3. CASE ~(count' >= 1 /\ Waiting # {})
    BY <1>9, <2>1, <2>3 DEF Release
  <2> QED
    BY <2>2, <2>3
<1>10. CASE ReleasePanics(t)
  BY <1>10 DEF ReleasePanics
<1> QED
  BY <1>1, <1>2, <1>3, <1>4, <1>5, <1>6, <1>7, <1>8, <1>9, <1>10 DEF Step

\* ThreadsInPlace is inductive.
LEMMA ThreadsInPlaceStep ==
  ASSUME TypeOK, ThreadsInPlace, [Next]_vars
  PROVE  ThreadsInPlace'
<1> USE ThreadsAssumption DEF TypeOK, ThreadsInPlace, Threads, Goto, mutex
<1>0. CASE UNCHANGED vars
  BY <1>0 DEF vars
<1>1. SUFFICES ASSUME NEW t \in Threads, Step(t) PROVE ThreadsInPlace'
  BY <1>0 DEF Next
<1>2. CASE Receive(t)
  BY <1>2 DEF Receive
<1>3. CASE Acquire(t)
  BY <1>3 DEF Acquire
<1>4. CASE TimeOut(t)
  BY <1>4 DEF TimeOut
<1>5. CASE SetJump(t)
  BY <1>5 DEF SetJump
<1>6. CASE EvalOutside(t)
  BY <1>6 DEF EvalOutside
<1>7. CASE EvalSucceeds(t)
  BY <1>7 DEF EvalSucceeds, Finish
<1>8. CASE EvalFails(t)
  BY <1>8 DEF EvalFails, Finish
<1>9. CASE Release(t)
  <2>2. CASE count' >= 1 /\ Waiting # {}
    <3>1. PICK u \in Waiting :
                /\ pc' = [pc EXCEPT ![t] = "idle", ![u] = "enter"]
                /\ has' = [has EXCEPT ![t] = FALSE, ![u] = TRUE]
      BY <1>9, <2>2 DEF Release
    <3>2. t # u
      BY <1>9, <3>1 DEF Release, Waiting
    <3> QED
      BY <3>1, <3>2 DEF Waiting
  <2>3. CASE ~(count' >= 1 /\ Waiting # {})
    BY <1>9, <2>3 DEF Release
  <2> QED
    BY <2>2, <2>3
<1>10. CASE ReleasePanics(t)
  BY <1>10 DEF ReleasePanics
<1> QED
  BY <1>1, <1>2, <1>3, <1>4, <1>5, <1>6, <1>7, <1>8, <1>9, <1>10 DEF Step

-----------------------------------------------------------------------------
(* The count.                                                              *)

\* The sets the count is about are finite.
LEMMA FiniteSets ==
  /\ IsFiniteSet(Having) /\ IsFiniteSet(Waiting)
  /\ Cardinality(Having) \in Nat /\ Cardinality(Waiting) \in Nat
<1>1. Having \subseteq Workers /\ Waiting \subseteq Workers
  BY DEF Having, Waiting
<1> QED
  BY <1>1, ThreadsAssumption, FS_Subset, FS_CardinalityType

\* What a step can do to the mutex: nothing; one worker more waits, or gets it, or
\* gives up; or a release, with or without someone to hand it to, by a worker that
\* has it or by one that does not.
Moves(h, w, c, f, h1, w1, c1, f1) ==
    \/ h1 = h /\ w1 = w /\ c1 = c /\ f1 = f
    \/ c >= 1 /\ h1 = h /\ w1 = w + 1 /\ c1 = c + 1 /\ f1 = f
    \/ c <= 0 /\ h1 = h + 1 /\ w1 = w /\ c1 = c + 1 /\ f1 = f
    \/ h1 = h /\ w1 = w - 1 /\ c1 = c - 1 /\ f1 = f
    \/ /\ c - 1 >= 1 /\ w >= 1 /\ w1 = w - 1 /\ c1 = c - 1
       /\ (h1 = h /\ f1 = f) \/ (h1 = h + 1 /\ f1 = f + 1)
    \/ /\ ~(c - 1 >= 1 /\ w >= 1) /\ w1 = w /\ c1 = c - 1
       /\ (h1 = h - 1 /\ f1 = f) \/ (h1 = h /\ f1 = f + 1)

\* Every step is one of these moves.
LEMMA MutexMoves ==
  ASSUME TypeOK, ThreadsInPlace, [Next]_vars
  PROVE  Moves(Cardinality(Having), Cardinality(Waiting), count, foreign,
               Cardinality(Having'), Cardinality(Waiting'), count', foreign')
<1> DEFINE Goal == Moves(Cardinality(Having), Cardinality(Waiting), count, foreign,
                         Cardinality(Having'), Cardinality(Waiting'), count', foreign')
<1> USE ThreadsAssumption, FiniteSets
<1>t. /\ foreign \in Nat /\ count \in Int /\ has \in [Threads -> BOOLEAN]
      /\ pc \in [Threads -> {"idle", "acquire", "wait", "enter", "eval", "release"}]
  BY DEF TypeOK
<1>s. ASSUME Having' = Having, Waiting' = Waiting, count' = count, foreign' = foreign
      PROVE  Goal
  BY <1>s DEF Moves
<1>0. CASE UNCHANGED vars
  <2>1. Having' = Having /\ Waiting' = Waiting
    BY <1>0 DEF vars, Having, Waiting
  <2> QED
    BY <2>1, <1>0, <1>s DEF vars
<1>1. SUFFICES ASSUME NEW t \in Threads, Step(t) PROVE Goal
  BY <1>0 DEF Next
<1>2. CASE Receive(t)
  <2>1. Having' = Having /\ Waiting' = Waiting
    BY <1>2, <1>t DEF Receive, Goto, mutex, Having, Waiting, Threads
  <2> QED
    BY <2>1, <1>2, <1>s DEF Receive, mutex
<1>3. CASE Acquire(t)
  <2>1. t \in Workers /\ pc[t] = "acquire" /\ has[t] = FALSE
    BY <1>3, WorkersOnly DEF Acquire, ThreadsInPlace
  <2>2. CASE mustWait(count')
    <3>1. Having' = Having /\ Waiting' = Waiting \cup {t} /\ t \notin Waiting
      BY <1>3, <1>t, <2>1, <2>2 DEF Acquire, Goto, Having, Waiting, Threads
    <3>2. Cardinality(Waiting') = Cardinality(Waiting) + 1
      BY <3>1, FS_AddElement
    <3>3. count' = count + 1 /\ foreign' = foreign /\ count >= 1
      BY <1>3, <1>t, <2>2 DEF Acquire, mustWait
    <3> QED
      BY <3>1, <3>2, <3>3, <1>t, SMT DEF Moves
  <2>3. CASE ~mustWait(count')
    <3>1. Having' = Having \cup {t} /\ Waiting' = Waiting /\ t \notin Having
      BY <1>3, <1>t, <2>1, <2>3 DEF Acquire, Goto, Having, Waiting, Threads
    <3>2. Cardinality(Having') = Cardinality(Having) + 1
      BY <3>1, FS_AddElement
    <3>3. count' = count + 1 /\ foreign' = foreign /\ count <= 0
      BY <1>3, <1>t, <2>3 DEF Acquire, mustWait
    <3> QED
      BY <3>1, <3>2, <3>3, <1>t, SMT DEF Moves
  <2> QED
    BY <2>2, <2>3
<1>4. CASE TimeOut(t)
  <2>1. t \in Workers /\ pc[t] = "wait"
    BY <1>4, WorkersOnly DEF TimeOut
  <2>2. Having' = Having /\ Waiting' = Waiting \ {t} /\ t \in Waiting
    BY <1>4, <1>t, <2>1 DEF TimeOut, Goto, Having, Waiting, Threads
  <2>3. Cardinality(Waiting') = Cardinality(Waiting) - 1
    BY <2>2, FS_RemoveElement
  <2>4. count' = count - 1 /\ foreign' = foreign
    BY <1>4 DEF TimeOut, countAfterTimeout
  <2> QED
    BY <2>2, <2>3, <2>4, <1>t, SMT DEF Moves
<1>5. CASE SetJump(t)
  <2>1. Having' = Having /\ Waiting' = Waiting
    BY <1>5, <1>t DEF SetJump, Goto, mutex, Having, Waiting, Threads
  <2> QED
    BY <2>1, <1>5, <1>s DEF SetJump, mutex
<1>6. CASE EvalOutside(t)
  <2>1. Having' = Having /\ Waiting' = Waiting
    BY <1>6, <1>t DEF EvalOutside, Goto, mutex, Having, Waiting, Threads
  <2> QED
    BY <2>1, <1>6, <1>s DEF EvalOutside, mutex
<1>7. CASE EvalSucceeds(t)
  <2>1. Having' = Having /\ Waiting' = Waiting
    BY <1>7, <1>t DEF EvalSucceeds, Finish, Goto, mutex, Having, Waiting, Threads
  <2> QED
    BY <2>1, <1>7, <1>s DEF EvalSucceeds, mutex
<1>8. CASE EvalFails(t)
  <2>1. Having' = Having /\ Waiting' = Waiting
    BY <1>8, <1>t DEF EvalFails, Finish, Goto, mutex, Having, Waiting, Threads
  <2> QED
    BY <2>1, <1>8, <1>s DEF EvalFails, mutex
<1>9. CASE Release(t)
  <2>1. t \in Workers /\ pc[t] = "release"
    BY <1>9, WorkersOnly DEF Release
  <2>2. count' = count - 1 /\ foreign' = IF has[t] THEN foreign ELSE foreign + 1
    BY <1>9 DEF Release
  <2>3. /\ IsFiniteSet(Having \ {t})
        /\ Cardinality(Having \ {t}) = Cardinality(Having) - (IF has[t] THEN 1 ELSE 0)
    <3>1. CASE has[t]
      BY <2>1, <3>1, FS_RemoveElement DEF Having
    <3>2. CASE ~has[t]
      <4>1. Having \ {t} = Having
        BY <3>2 DEF Having
      <4>2. Cardinality(Having) = Cardinality(Having) - 0
        BY FiniteSets, SMT
      <4> QED
        BY <3>2, <4>1, <4>2, Zenon
    <3> QED
      BY <3>1, <3>2
  <2>4. CASE count' >= 1 /\ Waiting # {}
    <3>1. PICK u \in Waiting :
                /\ pc' = [pc EXCEPT ![t] = "idle", ![u] = "enter"]
                /\ has' = [has EXCEPT ![t] = FALSE, ![u] = TRUE]
      BY <1>9, <2>4 DEF Release
    <3>2. t # u /\ u \in Workers /\ has[u] = FALSE
      BY <2>1, <3>1 DEF Waiting, ThreadsInPlace
    <3>3. Having' = (Having \ {t}) \cup {u} /\ u \notin Having \ {t}
      BY <2>1, <3>1, <3>2, <1>t DEF Having, Threads
    <3>4. Waiting' = Waiting \ {u}
      BY <2>1, <3>1, <3>2, <1>t DEF Waiting, Threads
    <3>5. Cardinality(Having') = Cardinality(Having \ {t}) + 1
      BY <2>3, <3>3, FS_AddElement
    <3>6. Cardinality(Waiting') = Cardinality(Waiting) - 1
      BY <3>1, <3>4, FS_RemoveElement
    <3>7. Cardinality(Waiting) >= 1
      BY <2>4, FS_EmptySet
    <3>8. count - 1 >= 1
      BY <2>2, <2>4
    <3>9. CASE has[t]
      BY <2>2, <2>3, <3>5, <3>6, <3>7, <3>8, <3>9, <1>t, SMT DEF Moves
    <3>10. CASE ~has[t]
      BY <2>2, <2>3, <3>5, <3>6, <3>7, <3>8, <3>10, <1>t, SMT DEF Moves
    <3> QED
      BY <3>9, <3>10
  <2>5. CASE ~(count' >= 1 /\ Waiting # {})
    <3>1. pc' = [pc EXCEPT ![t] = "idle"] /\ has' = [has EXCEPT ![t] = FALSE]
      BY <1>9, <2>5 DEF Release
    <3>2. Having' = Having \ {t} /\ Waiting' = Waiting
      BY <2>1, <3>1, <1>t DEF Having, Waiting, Threads
    <3>3. ~(count - 1 >= 1 /\ Cardinality(Waiting) >= 1)
      BY <2>2, <2>5, FS_EmptySet
    <3>4. CASE has[t]
      BY <2>2, <2>3, <3>2, <3>3, <3>4, <1>t, SMT DEF Moves
    <3>5. CASE ~has[t]
      BY <2>2, <2>3, <3>2, <3>3, <3>5, <1>t, SMT DEF Moves
    <3> QED
      BY <3>4, <3>5
  <2> QED
    BY <2>4, <2>5
<1>10. CASE ReleasePanics(t)
  <2>1. Having' = Having /\ Waiting' = Waiting
    BY <1>10 DEF ReleasePanics, mutex, Having, Waiting
  <2> QED
    BY <2>1, <1>10, <1>s DEF ReleasePanics, mutex
<1> QED
  BY <1>1, <1>2, <1>3, <1>4, <1>5, <1>6, <1>7, <1>8, <1>9, <1>10 DEF Step

\* The moves keep both the count and the number of places.
LEMMA CountStep ==
  ASSUME TypeOK, ThreadsInPlace, CountAccounted, ForeignReleasesWiden, [Next]_vars
  PROVE  CountAccounted' /\ ForeignReleasesWiden'
<1> DEFINE h == Cardinality(Having)   w == Cardinality(Waiting)
           h1 == Cardinality(Having')  w1 == Cardinality(Waiting')
<1>1. h \in Nat /\ w \in Nat /\ count \in Int /\ foreign \in Nat
  BY FiniteSets DEF TypeOK
<1>2. /\ h1 \in Nat /\ w1 \in Nat /\ IsFiniteSet(Waiting')
  <2>1. Having' \subseteq Workers /\ Waiting' \subseteq Workers
    BY DEF Having, Waiting
  <2> QED
    BY <2>1, ThreadsAssumption, FS_Subset, FS_CardinalityType
<1>3. (w = 0 <=> Waiting = {}) /\ (w1 = 0 <=> Waiting' = {})
  BY <1>2, FiniteSets, FS_EmptySet
<1>4. Moves(h, w, count, foreign, h1, w1, count', foreign')
  BY MutexMoves
<1>5. count = h + w - foreign /\ h <= foreign + 1 /\ (w # 0 => h = foreign + 1)
  BY <1>3 DEF CountAccounted, ForeignReleasesWiden
<1> HIDE DEF h, w, h1, w1
<1>6. /\ count' = h1 + w1 - foreign'
      /\ h1 <= foreign' + 1
      /\ w1 # 0 => h1 = foreign' + 1
  BY <1>1, <1>2, <1>4, <1>5, SMT DEF Moves
<1> QED
  BY <1>3, <1>6 DEF CountAccounted, ForeignReleasesWiden, h1, w1

-----------------------------------------------------------------------------
(* Who has the mutex.                                                      *)

\* A worker that need not wait finds the mutex with nobody, as long as no
\* release was foreign: this is what the count is for.
LEMMA NobodyHasIt ==
  ASSUME TypeOK, CountAccounted, foreign = 0,
         NEW t \in Threads, Acquire(t), ~mustWait(count')
  PROVE  \A u \in Workers : has[u] = FALSE
<1>1. count' = count + 1 /\ count \in Int
  BY DEF Acquire, TypeOK
<1>2. count <= 0
  BY <1>1, SMT DEF mustWait
<1>3. Cardinality(Having) = 0
  BY <1>1, <1>2, FiniteSets, SMT DEF CountAccounted
<1>4. Having = {}
  BY <1>3, FiniteSets, FS_EmptySet
<1>5. has \in [Threads -> BOOLEAN]
  BY DEF TypeOK
<1> QED
  BY <1>4, <1>5 DEF Having, Threads

\* Orderly is inductive.
LEMMA OrderlyStep ==
  ASSUME TypeOK, ThreadsInPlace, CountAccounted, Orderly, [Next]_vars
  PROVE  Orderly'
<1> USE ThreadsAssumption
<1>t. /\ foreign \in Nat /\ count \in Int /\ has \in [Threads -> BOOLEAN]
      /\ pc \in [Threads -> {"idle", "acquire", "wait", "enter", "eval", "release"}]
      /\ intruded \in BOOLEAN
  BY DEF TypeOK
<1>0. CASE UNCHANGED vars
  BY <1>0 DEF vars, Orderly
<1>1. SUFFICES ASSUME NEW t \in Threads, Step(t), ~intruded' PROVE Orderly'
  BY <1>0 DEF Next, Orderly
<1>i. ~intruded
  BY <1>1 DEF Step, Receive, Acquire, TimeOut, SetJump, EvalOutside, EvalSucceeds, EvalFails,
              Release, ReleasePanics
<1>o. /\ foreign = 0 /\ node = "up"
      /\ \A u \in Threads : pc[u] \in {"enter", "eval", "release"} => has[u] = TRUE
      /\ \A u, v \in Workers : (has[u] = TRUE /\ has[v] = TRUE) => u = v
      /\ \A u \in Workers : has[u] = TRUE => holder = u
      /\ \A u \in Threads : pc[u] = "eval" => jmp = u
  BY <1>i DEF Orderly
<1>w. ASSUME NEW u \in Threads, has[u] = TRUE PROVE u \in Workers
  BY <1>w DEF ThreadsInPlace, Threads
<1>2. CASE Receive(t)
  BY <1>2, <1>o, <1>t DEF Receive, Goto, mutex, Orderly
<1>3. CASE Acquire(t)
  <2>1. t \in Workers /\ pc[t] = "acquire"
    BY <1>3, WorkersOnly DEF Acquire
  <2>2. CASE mustWait(count')
    <3>1. /\ pc' = [pc EXCEPT ![t] = "wait"]
          /\ UNCHANGED <<has, holder, jmp, foreign, node>>
      BY <1>3, <2>2 DEF Acquire, Goto
    <3> QED
      BY <3>1, <1>o, <1>t DEF Orderly
  <2>3. CASE ~mustWait(count')
    <3>1. /\ pc' = [pc EXCEPT ![t] = "enter"]
          /\ has' = [has EXCEPT ![t] = TRUE] /\ holder' = t
          /\ UNCHANGED <<jmp, foreign, node>>
      BY <1>3, <2>3 DEF Acquire, Goto
    <3>2. \A u \in Workers : has[u] = FALSE
      BY <1>3, <1>o, <2>3, NobodyHasIt
    <3> QED
      BY <2>1, <3>1, <3>2, <1>o, <1>t DEF Orderly, Threads
  <2> QED
    BY <2>2, <2>3
<1>4. CASE TimeOut(t)
  BY <1>4, <1>1 DEF TimeOut
<1>5. CASE SetJump(t)
  <2>1. /\ pc[t] = "enter" /\ pc' = [pc EXCEPT ![t] = "eval"] /\ jmp' = t
        /\ UNCHANGED <<has, holder, foreign, node>>
    BY <1>5 DEF SetJump, Goto, mutex
  <2>2. \A u \in Threads : pc[u] = "eval" => u = t
    BY <2>1, <1>o, <1>w
  <2> QED
    BY <2>1, <2>2, <1>o, <1>t DEF Orderly
<1>6. CASE EvalOutside(t)
  BY <1>6, <1>1 DEF EvalOutside
<1>7. CASE EvalSucceeds(t) \/ EvalFails(t)
  <2>1. pc[t] = "eval" /\ jmp = t /\ t \in Workers
    BY <1>7, <1>o, <1>w DEF EvalSucceeds, EvalFails
  <2>2. /\ pc' = [pc EXCEPT ![t] = "release"]
        /\ UNCHANGED <<has, holder, jmp, foreign, node>>
    BY <1>7, <2>1 DEF EvalSucceeds, EvalFails, jumpsHome, Finish, Goto, mutex
  <2> QED
    BY <2>1, <2>2, <1>o, <1>t DEF Orderly
<1>8. CASE Release(t)
  <2>1. pc[t] = "release" /\ has[t] = TRUE /\ t \in Workers
    BY <1>8, <1>o, <1>w DEF Release
  <2>2. foreign' = foreign /\ UNCHANGED node
    BY <1>8, <2>1 DEF Release
  <2>3. \A u \in Threads : has[u] = TRUE => u = t
    BY <2>1, <1>o, <1>w
  <2>4. \A u \in Threads : pc[u] # "eval"
    BY <2>1, <2>3, <1>o
  <2>5. CASE count' >= 1 /\ Waiting # {}
    <3>1. PICK u \in Waiting :
                /\ pc' = [pc EXCEPT ![t] = "idle", ![u] = "enter"]
                /\ has' = [has EXCEPT ![t] = FALSE, ![u] = TRUE]
                /\ holder' = u
      BY <1>8, <2>5 DEF Release
    <3>2. u \in Workers /\ u # t
      BY <2>1, <3>1 DEF Waiting
    <3> QED
      BY <2>1, <2>2, <2>3, <2>4, <3>1, <3>2, <1>o, <1>t DEF Orderly, Threads
  <2>6. CASE ~(count' >= 1 /\ Waiting # {})
    <3>1. pc' = [pc EXCEPT ![t] = "idle"] /\ has' = [has EXCEPT ![t] = FALSE]
      BY <1>8, <2>6 DEF Release
    <3> QED
      BY <2>1, <2>2, <2>3, <2>4, <3>1, <1>o, <1>t DEF Orderly, Threads
  <2> QED
    BY <2>5, <2>6
<1>9. CASE ReleasePanics(t)
  <2>1. pc[t] = "release" /\ holder # t
    BY <1>9 DEF ReleasePanics, mayRelease
  <2> QED
    BY <2>1, <1>o, <1>w
<1> QED
  BY <1>1, <1>2, <1>3, <1>4, <1>5, <1>6, <1>7, <1>8, <1>9 DEF Step

-----------------------------------------------------------------------------

\* Every reachable state satisfies the inductive invariant: types, places, the
\* count, the places, and who has the mutex before an intrusion.
THEOREM Invariance == Spec => []IndInv
<1>1. Init => IndInv
  <2> SUFFICES ASSUME Init PROVE IndInv
    OBVIOUS
  <2>0. TypeOK
    <3>1. /\ pc \in [Threads -> {"idle", "acquire", "wait", "enter", "eval", "release"}]
          /\ has \in [Threads -> BOOLEAN]
      BY DEF Init
    <3>2. count \in Int /\ commands \in Nat /\ foreign \in Nat
      BY DEF Init
    <3>3. debug \in BOOLEAN /\ intruded \in BOOLEAN
      BY DEF Init
    <3> QED
      BY <3>1, <3>2, <3>3, Zenon DEF Init, TypeOK
  <2>1. ThreadsInPlace
    BY DEF Init, ThreadsInPlace, Threads
  <2>2. Having = {} /\ Waiting = {}
    BY DEF Init, Having, Waiting, Threads
  <2>3. Cardinality(Having) = 0 /\ Cardinality(Waiting) = 0
    BY <2>2, FS_EmptySet
  <2>4. CountAccounted
    BY <2>3 DEF Init, CountAccounted
  <2>5. Orderly
    BY ThreadsAssumption DEF Init, Orderly, Threads
  <2>6. ForeignReleasesWiden
    BY <2>2, <2>3 DEF Init, ForeignReleasesWiden
  <2> QED
    BY <2>0, <2>1, <2>4, <2>5, <2>6 DEF IndInv
<1>2. IndInv /\ [Next]_vars => IndInv'
  BY TypeOKStep, ThreadsInPlaceStep, CountStep, OrderlyStep DEF IndInv
<1> QED
  BY <1>1, <1>2, PTL DEF Spec

\* Every variable of the workers, the mutex and the jump keeps its type.
THEOREM TypeCorrect == Spec => []TypeOK
<1>1. IndInv => TypeOK
  BY DEF IndInv
<1> QED
  BY <1>1, Invariance, PTL

\* However the waits for mu_lock_raft1 end, its count is those who have it and
\* those who wait, less the releases of workers that never had it.
THEOREM CountCorrect == Spec => []CountAccounted
<1>1. IndInv => CountAccounted
  BY DEF IndInv
<1> QED
  BY <1>1, Invariance, PTL

\* Until someone evaluates without the mutex, no two threads are in mu_eval and
\* every mu_sys_error jumps to the worker whose command failed.
THEOREM Containment == Spec => []ContainedUntilIntruded
<1>1. IndInv => ContainedUntilIntruded
  <2> SUFFICES ASSUME IndInv, ~intruded
               PROVE  /\ \A t, u \in Evaluating : t = u
                      /\ node = "up"
                      /\ \A t \in Evaluating : jmp = t
    BY DEF ContainedUntilIntruded
  <2>1. node = "up" /\ \A t \in Evaluating : jmp = t
    BY DEF IndInv, Orderly, Evaluating
  <2> QED
    BY <2>1
<1> QED
  BY <1>1, Invariance, PTL

\* Every release of mu_lock_raft1 by a worker that does not have it widens the mutex
\* by one place: never more workers have it, and none waits while a place is free.
THEOREM WidensByOne == Spec => []ForeignReleasesWiden
<1>1. IndInv => ForeignReleasesWiden
  BY DEF IndInv
<1> QED
  BY <1>1, Invariance, PTL
=============================================================================
