---------------------------- MODULE App501Proofs ----------------------------
(***************************************************************************)
(* Proofs about App501 for every ring size, every finite set of            *)
(* subscribers and every number of rounds and invocations.                 *)
(***************************************************************************)
EXTENDS App501, FiniteSetTheorems, SequenceTheorems, TLAPS

-----------------------------------------------------------------------------
(* Arithmetic of ring indices.                                             *)

\* Quotient and remainder.
LEMMA ModDef ==
  ASSUME NEW a \in Nat, NEW N \in Nat \ {0}
  PROVE  /\ a % N \in 0 .. N - 1
         /\ a \div N \in Nat
         /\ a = N * (a \div N) + (a % N)
BY SMT

\* The only multiple of N between -N and N is 0.
LEMMA Multiple ==
  ASSUME NEW p \in Int, NEW N \in Nat \ {0}, N * p < N, N * p > -N
  PROVE  p = 0
<1>1. CASE p >= 1
  BY <1>1, SMT
<1>2. CASE p <= -1
  BY <1>2, SMT
<1> QED
  BY <1>1, <1>2, SMT

\* Fewer than N apart, two numbers have different places in the ring.
LEMMA ModDistinct ==
  ASSUME NEW a \in Nat, NEW b \in Nat, NEW N \in Nat \ {0}, a < b, b - a < N
  PROVE  a % N # b % N
<1>1. SUFFICES ASSUME a % N = b % N PROVE FALSE
  OBVIOUS
<1>2. PICK p \in Nat : a = N * p + (a % N)
  BY ModDef
<1>3. PICK q \in Nat : b = N * q + (b % N)
  BY ModDef
<1>4. a % N \in Int /\ b % N \in Int /\ N * p \in Int /\ N * q \in Int
  BY ModDef, SMT
<1>5. N * (q - p) = N * q - N * p
  BY SMT
<1>6. N * (q - p) = b - a
  BY <1>1, <1>2, <1>3, <1>4, <1>5, SMT
<1>7. q - p = 0
  BY <1>6, Multiple, SMT
<1> QED
  BY <1>6, <1>7, SMT

\* The remainder is unique.
LEMMA ModUnique ==
  ASSUME NEW a \in Nat, NEW q \in Int, NEW r \in Nat, NEW N \in Nat \ {0},
         r < N, a = N * q + r
  PROVE  a % N = r
<1>2. PICK p \in Nat : a = N * p + (a % N)
  BY ModDef
<1>4. a % N \in 0 .. N-1 /\ N * p \in Int /\ N * q \in Int
  BY ModDef, SMT
<1>5. N * (q - p) = N * q - N * p
  BY SMT
<1>6. N * (q - p) = (a % N) - r
  BY <1>2, <1>4, <1>5, SMT
<1>7. q - p = 0
  BY <1>4, <1>6, Multiple, SMT
<1> QED
  BY <1>4, <1>6, <1>7, SMT

\* Moving an index by one is counting by one.
LEMMA ModSucc ==
  ASSUME NEW a \in Nat, NEW N \in Nat \ {0}
  PROVE  ((a % N) + 1) % N = (a + 1) % N
<1>1. PICK p \in Nat : a = N * p + (a % N)
  BY ModDef
<1>2. PICK r \in Nat : r = a % N /\ r < N
  BY ModDef, SMT
<1>3. PICK b \in Nat : b = a + 1
  OBVIOUS
<1>4. PICK c \in Nat : c = r + 1
  OBVIOUS
<1>5. N * p \in Int /\ p \in Int /\ 0 \in Int /\ 1 \in Int /\ 0 \in Nat
  BY SMT
<1>6. CASE c < N
  <2>1. b = N * p + c /\ c = N * 0 + c
    BY <1>1, <1>2, <1>3, <1>4, <1>5, SMT
  <2>2. b % N = c
    BY <1>5, <1>6, <2>1, ModUnique
  <2>3. c % N = c
    BY <1>5, <1>6, <2>1, ModUnique
  <2> QED
    BY <1>2, <1>3, <1>4, <2>2, <2>3
<1>7. CASE c = N
  <2>1. PICK q \in Int : q = p + 1
    OBVIOUS
  <2>2. N * q = N * p + N
    BY <2>1, SMT
  <2>3. b = N * q + 0 /\ c = N * 1 + 0 /\ 0 < N
    BY <1>1, <1>2, <1>3, <1>4, <1>5, <1>7, <2>2, SMT
  <2>4. b % N = 0
    BY <1>5, <2>3, ModUnique
  <2>5. c % N = 0
    BY <1>5, <2>3, ModUnique
  <2> QED
    BY <1>2, <1>3, <1>4, <2>4, <2>5
<1> QED
  BY <1>2, <1>4, <1>6, <1>7, SMT

-----------------------------------------------------------------------------
(* Semaphores.                                                             *)

\* A semaphore in order has a natural number of free permits.
LEMMA PermitsNat ==
  ASSUME NEW s \in Semaphores, SemOK(s)
  PROVE  Permits(s) \in Nat /\ (s.waiters # {} => Permits(s) = 0)
<1>1. Cardinality(s.waiters) \in Nat
  BY FS_CardinalityType DEF SemOK
<1>2. s.waiters = {} => Cardinality(s.waiters) = 0
  BY FS_EmptySet
<1> QED
  BY <1>1, <1>2, SMT DEF SemOK, Permits, Semaphores

\* sem_timedwait takes a free permit, or adds a waiter and no permit is lost.
LEMMA TakeLemma ==
  ASSUME NEW s \in Semaphores, SemOK(s), NEW t \in Threads, t \notin s.waiters
  PROVE  /\ Take(s, t) \in Semaphores
         /\ SemOK(Take(s, t))
         /\ s.count > 0 => /\ Permits(Take(s, t)) = Permits(s) - 1
                           /\ Take(s, t).waiters = s.waiters
         /\ ~(s.count > 0) => /\ Permits(Take(s, t)) = Permits(s)
                              /\ Take(s, t).waiters = s.waiters \cup {t}
<1>1. Cardinality(s.waiters) \in Nat /\ s.count \in Int
  BY FS_CardinalityType DEF SemOK, Semaphores
<1>2. /\ IsFiniteSet(s.waiters \cup {t})
      /\ Cardinality(s.waiters \cup {t}) = Cardinality(s.waiters) + 1
  BY FS_AddElement DEF SemOK
<1>3. s.waiters = {} => Cardinality(s.waiters) = 0
  BY FS_EmptySet
<1>4. s.waiters \cup {t} # {}
  OBVIOUS
<1>5. CASE s.count > 0
  <2>1. Take(s, t) = [count |-> s.count - 1, waiters |-> s.waiters]
    BY <1>1, <1>5, SMT DEF Take
  <2>2. s.waiters = {}
    BY <1>1, <1>5, SMT DEF SemOK
  <2> QED
    BY <1>1, <1>5, <2>1, <2>2, SMT DEF SemOK, Permits, Semaphores
<1>6. CASE ~(s.count > 0)
  <2>1. Take(s, t) = [count |-> s.count - 1, waiters |-> s.waiters \cup {t}]
    BY <1>1, <1>6, SMT DEF Take
  <2>2. s.count = 0 - Cardinality(s.waiters)
    BY <1>1, <1>3, <1>6, SMT DEF SemOK
  <2> QED
    BY <1>1, <1>2, <1>4, <1>6, <2>1, <2>2, SMT DEF SemOK, Permits, Semaphores
<1> QED
  BY <1>5, <1>6

\* A waiter that times out leaves the free permits as they are.
LEMMA GiveUpLemma ==
  ASSUME NEW s \in Semaphores, SemOK(s), NEW t \in s.waiters
  PROVE  /\ GiveUp(s, t) \in Semaphores
         /\ SemOK(GiveUp(s, t))
         /\ Permits(GiveUp(s, t)) = Permits(s)
         /\ GiveUp(s, t).waiters = s.waiters \ {t}
<1>1. Cardinality(s.waiters) \in Nat /\ s.count \in Int
  BY FS_CardinalityType DEF SemOK, Semaphores
<1>2. /\ IsFiniteSet(s.waiters \ {t})
      /\ Cardinality(s.waiters \ {t}) = Cardinality(s.waiters) - 1
  BY FS_RemoveElement DEF SemOK
<1>3. s.waiters \ {t} = {} => Cardinality(s.waiters \ {t}) = 0
  BY FS_EmptySet
<1> QED
  BY <1>1, <1>2, <1>3, SMT DEF GiveUp, SemOK, Permits, Semaphores

\* sem_post frees a permit, or hands it to a waiter.
LEMMA SignalLemma ==
  ASSUME NEW s \in Semaphores, SemOK(s), NEW w \in Wakeable(s)
  PROVE  /\ Signal(s, w) \in Semaphores
         /\ SemOK(Signal(s, w))
         /\ Signal(s, w).waiters = s.waiters \ {w}
         /\ s.waiters = {} => Permits(Signal(s, w)) = Permits(s) + 1
         /\ s.waiters # {} => Permits(Signal(s, w)) = Permits(s) /\ w \in s.waiters
<1>1. CASE s.waiters = {}
  <2>1. s.waiters \ {w} = {}
    BY <1>1
  <2> QED
    BY <1>1, <2>1, FS_EmptySet, SMT DEF Signal, SemOK, Permits, Semaphores
<1>2. CASE s.waiters # {}
  <2>1. w \in s.waiters
    BY <1>2 DEF Wakeable
  <2>2. Signal(s, w) = GiveUp(s, w)
    BY DEF Signal, GiveUp
  <2> QED
    BY <1>2, <2>1, <2>2, GiveUpLemma
<1> QED
  BY <1>1, <1>2

-----------------------------------------------------------------------------
(* Type correctness.                                                       *)

\* The next place in the ring is in the ring.
LEMMA NextSlot ==
  ASSUME NEW x \in Slots
  PROVE  (x + 1) % BUFFER_SIZE \in Slots
<1>1. x + 1 \in Nat
  BY BufferSizeAssumption, SMT DEF Slots
<1> QED
  BY <1>1, ModDef, BufferSizeAssumption DEF Slots

\* TypeOK is inductive: in particular in_x and out_x never leave buffer_501.
LEMMA TypeOKStep ==
  ASSUME TypeOK, [Next]_vars
  PROVE  TypeOK'
<1> USE DEF TypeOK, Semaphores, Steps, ring, tally
<1>1. CASE Start
  BY <1>1, BufferSizeAssumption, SMT DEF Start, AllFree, Semaphore
<1>2. ASSUME NEW t \in Threads, WaitSem(t) PROVE TypeOK'
  BY <1>2, SMT DEF WaitSem, Take
<1>3. ASSUME NEW t \in Threads, TimeOut(t) PROVE TypeOK'
  BY <1>3, SMT DEF TimeOut, GiveUp
<1>4. ASSUME NEW t \in Threads, Acquire(t) PROVE TypeOK'
  BY <1>4, SMT DEF Acquire
<1>5. CASE Store
  <2>1. in_x' \in Slots
    BY <1>5, NextSlot DEF Store, Advance
  <2> QED
    BY <1>5, <2>1, SMT DEF Store, Threads
<1>6. ASSUME NEW t \in Threads, Fetch(t) PROVE TypeOK'
  <2>1. out_x' \in Slots
    BY <1>6, NextSlot DEF Fetch, Advance
  <2> QED
    BY <1>6, <2>1, SMT DEF Fetch
<1>7. ASSUME NEW t \in Threads, Post(t) PROVE TypeOK'
  BY <1>7, SMT DEF Post, Signal
<1>8. ASSUME NEW t \in Threads, NextRound(t) PROVE TypeOK'
  BY <1>8, SMT DEF NextRound
<1>9. CASE JoinAll
  <2>1. running' \in BOOLEAN
    BY <1>9, Zenon DEF JoinAll
  <2>2. Semaphore(0) \in Semaphores
    BY SMT DEF Semaphore
  <2> QED
    BY <1>9, <2>1, <2>2, Zenon DEF JoinAll
<1>10. CASE UNCHANGED vars
  <2>1. /\ UNCHANGED <<running, runs, pc, iter, empty_sem, full_sem, pipe_lock>>
        /\ UNCHANGED <<in_x, out_x, buffer, sent, got>>
        /\ UNCHANGED <<lead, pubTimeouts, subTimeouts>>
    BY <1>10 DEF vars
  <2> QED
    BY <2>1
<1> QED
  BY <1>1, <1>2, <1>3, <1>4, <1>5, <1>6, <1>7, <1>8, <1>9, <1>10
     DEF Next, ThreadStep

\* Every variable of app501 keeps its type in every behaviour.
THEOREM TypeCorrect == Spec => []TypeOK
<1>1. Init => TypeOK
  <2>1. 0 \in Slots
    BY BufferSizeAssumption, SMT DEF Slots
  <2> QED
    BY <2>1, SMT DEF Init, TypeOK, Semaphore, Semaphores, Steps
<1>2. TypeOK /\ [Next]_vars => TypeOK'
  BY TypeOKStep
<1> QED
  BY <1>1, <1>2, PTL DEF Spec

-----------------------------------------------------------------------------
(* Control: the semaphores' queues and the lock agree with the threads.    *)

Control ==
    /\ SemOK(empty_sem) /\ SemOK(full_sem)
    /\ LockHeld
    /\ WaitersBlocked
    /\ IdleMeansDone

\* A fresh semaphore is in order.
LEMMA SemaphoreLemma ==
  ASSUME NEW n \in Nat
  PROVE  SemOK(Semaphore(n)) /\ Permits(Semaphore(n)) = n
<1>1. IsFiniteSet({}) /\ Cardinality({}) = 0
  BY FS_EmptySet
<1> QED
  BY <1>1, SMT DEF Semaphore, SemOK, Permits

\* A waiting thread's call of sem_timedwait, on either side.
LEMMA WaitSemControl ==
  ASSUME TypeOK, Control, NEW t \in Threads, WaitSem(t)
  PROVE  Control'
<1> USE ThreadsAssumption DEF TypeOK, Control, WaitersBlocked
<1>1. LockHeld' /\ IdleMeansDone'
  BY SMT DEF WaitSem, LockHeld, IdleMeansDone, Steps
<1>2. CASE t = Pub
  <2>1. t \notin empty_sem.waiters
    BY <1>2, SMT DEF WaitSem
  <2>2. SemOK(empty_sem') /\ SemOK(full_sem')
    BY <1>2, <2>1, TakeLemma DEF WaitSem
  <2>3. full_sem'.waiters = {s \in Subs : pc'[s] = "blocked"}
    BY <1>2, SMT DEF WaitSem, Threads
  <2>4. empty_sem'.waiters = {s \in {Pub} : pc'[s] = "blocked"}
    BY <1>2, <2>1, TakeLemma, SMT DEF WaitSem, Threads
  <2> QED
    BY <1>1, <2>2, <2>3, <2>4
<1>3. CASE t # Pub
  <2>1. t \notin full_sem.waiters
    BY <1>3, SMT DEF WaitSem
  <2>2. SemOK(empty_sem') /\ SemOK(full_sem')
    BY <1>3, <2>1, TakeLemma DEF WaitSem
  <2>3. empty_sem'.waiters = {s \in {Pub} : pc'[s] = "blocked"}
    BY <1>3, SMT DEF WaitSem, Threads
  <2>4. full_sem'.waiters = {s \in Subs : pc'[s] = "blocked"}
    BY <1>3, <2>1, TakeLemma, SMT DEF WaitSem, Threads
  <2> QED
    BY <1>1, <2>2, <2>3, <2>4
<1> QED
  BY <1>2, <1>3

\* A timeout, on either side.
LEMMA TimeOutControl ==
  ASSUME TypeOK, Control, NEW t \in Threads, TimeOut(t)
  PROVE  Control'
<1> USE ThreadsAssumption DEF TypeOK, Control, WaitersBlocked
<1>1. LockHeld' /\ IdleMeansDone'
  BY SMT DEF TimeOut, LockHeld, IdleMeansDone, Steps
<1>2. CASE t = Pub
  <2>1. t \in empty_sem.waiters
    BY <1>2, SMT DEF TimeOut
  <2>2. SemOK(empty_sem') /\ SemOK(full_sem')
    BY <1>2, <2>1, GiveUpLemma DEF TimeOut
  <2>3. full_sem'.waiters = {s \in Subs : pc'[s] = "blocked"}
    BY <1>2, SMT DEF TimeOut, Threads
  <2>4. empty_sem'.waiters = {s \in {Pub} : pc'[s] = "blocked"}
    BY <1>2, <2>1, GiveUpLemma, SMT DEF TimeOut, Threads
  <2> QED
    BY <1>1, <2>2, <2>3, <2>4
<1>3. CASE t # Pub
  <2>1. t \in full_sem.waiters
    BY <1>3, SMT DEF TimeOut, Threads
  <2>2. SemOK(empty_sem') /\ SemOK(full_sem')
    BY <1>3, <2>1, GiveUpLemma DEF TimeOut
  <2>3. empty_sem'.waiters = {s \in {Pub} : pc'[s] = "blocked"}
    BY <1>3, SMT DEF TimeOut, Threads
  <2>4. full_sem'.waiters = {s \in Subs : pc'[s] = "blocked"}
    BY <1>3, <2>1, GiveUpLemma, SMT DEF TimeOut, Threads
  <2> QED
    BY <1>1, <2>2, <2>3, <2>4
<1> QED
  BY <1>2, <1>3

\* A post, which may wake a thread of the other side.
LEMMA PostControl ==
  ASSUME TypeOK, Control, NEW t \in Threads, Post(t)
  PROVE  Control'
<1> USE ThreadsAssumption DEF TypeOK, Control, WaitersBlocked
<1>1. CASE t = Pub
  <2>1. PICK w \in Wakeable(full_sem) :
          /\ full_sem' = Signal(full_sem, w) /\ UNCHANGED empty_sem
          /\ pc' = [s \in Threads |-> IF s = t THEN "sleep"
                                      ELSE IF s = w THEN "acquire" ELSE pc[s]]
    BY <1>1 DEF Post
  <2>2. w = NoThread \/ (w \in Subs /\ pc[w] = "blocked")
    BY <1>1, <2>1 DEF Wakeable
  <2>3. SemOK(full_sem') /\ SemOK(empty_sem')
    BY <2>1, SignalLemma
  <2>4. empty_sem'.waiters = {s \in {Pub} : pc'[s] = "blocked"}
    BY <1>1, <2>1, <2>2, SMT DEF Post, Threads
  <2>5. full_sem'.waiters = {s \in Subs : pc'[s] = "blocked"}
    BY <1>1, <2>1, <2>2, SignalLemma, SMT DEF Threads
  <2>6. running' /\ UNCHANGED pipe_lock
    BY DEF Post, IdleMeansDone
  <2>7. \A s \in Threads : pc'[s] = "locked" <=> pc[s] = "locked"
    BY <2>1, <2>2 DEF Post, Threads
  <2>8. LockHeld' /\ IdleMeansDone'
    BY <2>6, <2>7 DEF LockHeld, IdleMeansDone
  <2> QED
    BY <2>3, <2>4, <2>5, <2>8
<1>2. CASE t # Pub
  <2>1. PICK w \in Wakeable(empty_sem) :
          /\ empty_sem' = Signal(empty_sem, w) /\ UNCHANGED full_sem
          /\ pc' = [s \in Threads |-> IF s = t THEN "sleep"
                                      ELSE IF s = w THEN "acquire" ELSE pc[s]]
    BY <1>2 DEF Post
  <2>2. w = NoThread \/ (w = Pub /\ pc[w] = "blocked")
    BY <1>2, <2>1 DEF Wakeable
  <2>3. SemOK(full_sem') /\ SemOK(empty_sem')
    BY <2>1, SignalLemma
  <2>4. full_sem'.waiters = {s \in Subs : pc'[s] = "blocked"}
    <3>1. \A s \in Subs : pc'[s] = "blocked" <=> pc[s] = "blocked"
      BY <2>1, <2>2 DEF Post, Threads
    <3> QED
      BY <2>1, <3>1
  <2>5. empty_sem'.waiters = {s \in {Pub} : pc'[s] = "blocked"}
    BY <1>2, <2>1, <2>2, SignalLemma, SMT DEF Threads
  <2>6. running' /\ UNCHANGED pipe_lock
    BY DEF Post, IdleMeansDone
  <2>7. \A s \in Threads : pc'[s] = "locked" <=> pc[s] = "locked"
    BY <2>1, <2>2 DEF Post, Threads
  <2>8. LockHeld' /\ IdleMeansDone'
    BY <2>6, <2>7 DEF LockHeld, IdleMeansDone
  <2> QED
    BY <2>3, <2>4, <2>5, <2>8
<1> QED
  BY <1>1, <1>2

\* The steps that leave the semaphores alone or create them.
LEMMA ControlStep ==
  ASSUME TypeOK, Control, [Next]_vars
  PROVE  Control'
<1> USE ThreadsAssumption
        DEF TypeOK, Control, WaitersBlocked, LockHeld, IdleMeansDone
<1>1. CASE Start
  <2>1. SemOK(empty_sem') /\ SemOK(full_sem')
    BY <1>1, SemaphoreLemma, BufferSizeAssumption DEF Start, AllFree
  <2>2. LockHeld' /\ WaitersBlocked' /\ IdleMeansDone'
    BY <1>1 DEF Start, AllFree, Semaphore, Threads
  <2> QED
    BY <2>1, <2>2
<1>2. ASSUME NEW t \in Threads, Acquire(t) PROVE Control'
  BY <1>2, SMT DEF Acquire, Threads
<1>3. CASE Store
  BY <1>3, SMT DEF Store, Threads
<1>4. ASSUME NEW t \in Threads, Fetch(t) PROVE Control'
  BY <1>4, SMT DEF Fetch, Threads
<1>5. ASSUME NEW t \in Threads, NextRound(t) PROVE Control'
  BY <1>5, SMT DEF NextRound, Threads
<1>6. CASE JoinAll
  <2>1. SemOK(empty_sem') /\ SemOK(full_sem')
    BY <1>6, SemaphoreLemma DEF JoinAll
  <2>2. LockHeld' /\ WaitersBlocked' /\ IdleMeansDone'
    BY <1>6 DEF JoinAll, Semaphore, Threads
  <2> QED
    BY <2>1, <2>2
<1>7. CASE UNCHANGED vars
  BY <1>7 DEF vars
<1> QED
  BY <1>1, <1>2, <1>3, <1>4, <1>5, <1>6, <1>7,
     WaitSemControl, TimeOutControl, PostControl
     DEF Next, ThreadStep

-----------------------------------------------------------------------------
(* Accounting: permits, hands and items.                                   *)

\* The two equations of PermitsAccounted.
Books ==
    /\ Permits(full_sem) + Cardinality(Fetching) + PubStored
          = Filled + subTimeouts
    /\ Permits(empty_sem) + Cardinality(Fetched) + PubStoring
          = BUFFER_SIZE - Filled + pubTimeouts

\* The subscribers between their wait and their post are finitely many.
LEMMA HandsFinite ==
  /\ IsFiniteSet(Fetching) /\ Cardinality(Fetching) \in Nat
  /\ IsFiniteSet(Fetched) /\ Cardinality(Fetched) \in Nat
<1>1. Fetching \subseteq Subs /\ Fetched \subseteq Subs
  BY DEF Fetching, Fetched
<1> QED
  BY <1>1, ThreadsAssumption, FS_Subset, FS_CardinalityType

\* The terms of the books are numbers.
LEMMA NumbersType ==
  ASSUME TypeOK, Control
  PROVE  /\ Permits(empty_sem) \in Nat /\ Permits(full_sem) \in Nat
         /\ Filled \in Int /\ PubStoring \in Nat /\ PubStored \in Nat
         /\ Cardinality(Fetching) \in Nat /\ Cardinality(Fetched) \in Nat
         /\ BUFFER_SIZE \in Nat /\ pubTimeouts \in Nat /\ subTimeouts \in Nat
<1>1. Permits(empty_sem) \in Nat /\ Permits(full_sem) \in Nat
  BY PermitsNat DEF TypeOK, Control
<1>2. Len(got) \in Nat
  BY DEF TypeOK
<1> QED
  BY <1>1, <1>2, HandsFinite, BufferSizeAssumption, SMT
     DEF TypeOK, Filled, PubStoring, PubStored

\* While the command runs its books bound the drift of the two indices.
LEMMA AccountsBoundDrift ==
  ASSUME TypeOK, Control, running, PermitsAccounted
  PROVE  /\ BoundedDrift
         /\ PubStoring = 1 => Filled < BUFFER_SIZE + pubTimeouts
         /\ Fetching # {} => Filled > 0 - subTimeouts
<1>1. Fetching # {} => Cardinality(Fetching) # 0
  BY HandsFinite, FS_EmptySet
<1>2. Books
  BY Zenon DEF PermitsAccounted, Books
<1> QED
  BY <1>1, <1>2, HandsFinite, NumbersType, SMT DEF Books, BoundedDrift

\* A thread that is not done runs under a running command.
LEMMA ActiveMeansRunning ==
  ASSUME Control, NEW t \in Threads, pc[t] # "done"
  PROVE  running
BY DEF Control, IdleMeansDone

\* Storing an item or fetching one moves the books by one.
LEMMA AccountRing ==
  ASSUME TypeOK, Control, PermitsAccounted, NEW t \in Threads,
         (t = Pub /\ Store) \/ Fetch(t)
  PROVE  PermitsAccounted'
<1> USE ThreadsAssumption
<1>1. running
  BY ActiveMeansRunning DEF Store, Fetch
<1>2. CASE t = Pub /\ Store
  <2>1. Fetching' = Fetching /\ Fetched' = Fetched
    BY <1>2 DEF Store, Fetching, Fetched, TypeOK, Threads
  <2>2. PubStoring = 1 /\ PubStored = 0 /\ PubStoring' = 0 /\ PubStored' = 1
    BY <1>2 DEF Store, PubStoring, PubStored, TypeOK
  <2>3. Filled' = Filled + 1
    BY <1>2, SMT DEF Store, Filled, TypeOK, tally
  <2>4. UNCHANGED <<empty_sem, full_sem, pubTimeouts, subTimeouts>>
    BY <1>2 DEF Store, tally
  <2>5. Permits(empty_sem)' = Permits(empty_sem) /\ Permits(full_sem)' = Permits(full_sem)
    BY <2>4 DEF Permits
  <2>10. Books
    BY <1>1, Zenon DEF PermitsAccounted, Books
  <2>12. /\ Permits(empty_sem) \in Nat /\ Permits(full_sem) \in Nat
         /\ Filled \in Int /\ PubStoring \in Nat /\ PubStored \in Nat
         /\ Cardinality(Fetching) \in Nat /\ Cardinality(Fetched) \in Nat
         /\ BUFFER_SIZE \in Nat /\ pubTimeouts \in Nat /\ subTimeouts \in Nat
    BY NumbersType
  <2>11. Books'
    BY <2>1, <2>2, <2>3, <2>4, <2>5, <2>10, <2>12, SMT DEF Books
  <2> QED
    BY <2>11, Zenon DEF PermitsAccounted, Books
<1>3. CASE Fetch(t)
  <2>1. t \in Fetching /\ t \notin Fetched
    BY <1>3 DEF Fetch, Fetching, Fetched
  <2>2. Fetching' = Fetching \ {t} /\ Fetched' = Fetched \cup {t}
    BY <1>3 DEF Fetch, Fetching, Fetched, TypeOK, Threads
  <2>3. /\ Cardinality(Fetching') = Cardinality(Fetching) - 1
        /\ Cardinality(Fetched') = Cardinality(Fetched) + 1
    BY <2>1, <2>2, HandsFinite, FS_RemoveElement, FS_AddElement
  <2>4. PubStoring' = PubStoring /\ PubStored' = PubStored
    BY <1>3 DEF Fetch, PubStoring, PubStored, TypeOK, Threads
  <2>5. Filled' = Filled - 1
    BY <1>3, SMT DEF Fetch, Filled, TypeOK, tally
  <2>6. UNCHANGED <<empty_sem, full_sem, pubTimeouts, subTimeouts>>
    BY <1>3 DEF Fetch, tally
  <2>7. Permits(empty_sem)' = Permits(empty_sem) /\ Permits(full_sem)' = Permits(full_sem)
    BY <2>6 DEF Permits
  <2>10. Books
    BY <1>1, Zenon DEF PermitsAccounted, Books
  <2>12. /\ Permits(empty_sem) \in Nat /\ Permits(full_sem) \in Nat
         /\ Filled \in Int /\ PubStoring \in Nat /\ PubStored \in Nat
         /\ Cardinality(Fetching) \in Nat /\ Cardinality(Fetched) \in Nat
         /\ BUFFER_SIZE \in Nat /\ pubTimeouts \in Nat /\ subTimeouts \in Nat
    BY NumbersType
  <2>11. Books'
    <3>1. /\ Permits(full_sem') = Permits(full_sem)
          /\ Permits(empty_sem') = Permits(empty_sem)
          /\ Cardinality(Fetched') \in Int /\ Cardinality(Fetching') \in Int
      BY <2>3, <2>4, <2>5, <2>6, <2>7, <2>10, <2>12, SMT
    <3>4. subTimeouts' = subTimeouts /\ pubTimeouts' = pubTimeouts
      BY <2>6
    <3>5. /\ Permits(full_sem) + Cardinality(Fetching) + PubStored
               = Filled + subTimeouts
          /\ Permits(empty_sem) + Cardinality(Fetched) + PubStoring
               = BUFFER_SIZE - Filled + pubTimeouts
      BY <2>10 DEF Books
    <3>2. (Permits(full_sem) + Cardinality(Fetching) + PubStored
             = Filled + subTimeouts)'
      BY <2>3, <2>4, <2>5, <2>12, <3>1, <3>4, <3>5, SMT
    <3>3. (Permits(empty_sem) + Cardinality(Fetched) + PubStoring
             = BUFFER_SIZE - Filled + pubTimeouts)'
      BY <2>3, <2>4, <2>5, <2>12, <3>1, <3>4, <3>5, SMT
    <3> QED
      BY <3>2, <3>3 DEF Books
  <2> QED
    BY <2>11, Zenon DEF PermitsAccounted, Books
<1> QED
  BY <1>2, <1>3

\* A wait takes a permit into a hand or only queues; a timeout puts a permit
\* nobody issued into a hand, and is counted.
LEMMA AccountWait ==
  ASSUME TypeOK, Control, PermitsAccounted, NEW t \in Threads,
         WaitSem(t) \/ TimeOut(t)
  PROVE  PermitsAccounted'
<1> USE ThreadsAssumption
<1>1. running
  BY ActiveMeansRunning DEF WaitSem, TimeOut
<1>2. Filled' = Filled
  BY DEF WaitSem, TimeOut, Filled, ring, tally
<1>3. Fetched' = Fetched /\ PubStored' = PubStored
  BY DEF WaitSem, TimeOut, Fetched, PubStored, TypeOK, Threads
<1>4. empty_sem \in Semaphores /\ full_sem \in Semaphores /\ SemOK(empty_sem) /\ SemOK(full_sem)
  BY DEF TypeOK, Control
<1>5. CASE WaitSem(t) /\ t = Pub
  <2>1. t \notin empty_sem.waiters
    BY <1>5 DEF WaitSem, Control, WaitersBlocked
  <2>2. Fetching' = Fetching /\ Permits(full_sem)' = Permits(full_sem)
    BY <1>5 DEF WaitSem, Fetching, Permits, TypeOK, Threads
  <2>3. Permits(empty_sem)' = Permits(Take(empty_sem, t))
    BY <1>5 DEF WaitSem, Permits
  <2>4. Permits(Take(empty_sem, t)) = IF empty_sem.count > 0 THEN Permits(empty_sem) - 1
                                                 ELSE Permits(empty_sem)
    BY <1>4, <2>1, TakeLemma
  <2>5. PubStoring = 0 /\ PubStoring' = IF empty_sem.count > 0 THEN 1 ELSE 0
    BY <1>5 DEF WaitSem, PubStoring, TypeOK
  <2>6. UNCHANGED <<pubTimeouts, subTimeouts>>
    BY <1>5 DEF WaitSem, tally
  <2>10. Books
    BY <1>1, Zenon DEF PermitsAccounted, Books
  <2>12. /\ Permits(empty_sem) \in Nat /\ Permits(full_sem) \in Nat
         /\ Filled \in Int /\ PubStoring \in Nat /\ PubStored \in Nat
         /\ Cardinality(Fetching) \in Nat /\ Cardinality(Fetched) \in Nat
         /\ BUFFER_SIZE \in Nat /\ pubTimeouts \in Nat /\ subTimeouts \in Nat
    BY NumbersType
  <2>11. Books'
    BY <1>2, <1>3, <2>2, <2>3, <2>4, <2>5, <2>6, <2>10, <2>12, SMT DEF Books
  <2> QED
    BY <2>11, Zenon DEF PermitsAccounted, Books
<1>6. CASE WaitSem(t) /\ t # Pub
  <2>1. t \notin full_sem.waiters /\ t \in Subs
    BY <1>6 DEF WaitSem, Control, WaitersBlocked, Threads
  <2>2. PubStoring' = PubStoring /\ Permits(empty_sem)' = Permits(empty_sem)
    BY <1>6 DEF WaitSem, PubStoring, Permits, TypeOK, Threads
  <2>3. Permits(full_sem)' = Permits(Take(full_sem, t))
    BY <1>6 DEF WaitSem, Permits
  <2>4. Permits(Take(full_sem, t)) = IF full_sem.count > 0 THEN Permits(full_sem) - 1
                                                ELSE Permits(full_sem)
    BY <1>4, <2>1, TakeLemma
  <2>5. t \notin Fetching /\ Fetching' = IF full_sem.count > 0 THEN Fetching \cup {t}
                                                       ELSE Fetching
    BY <1>6, <2>1 DEF WaitSem, Fetching, TypeOK, Threads
  <2>6. Cardinality(Fetching') = IF full_sem.count > 0 THEN Cardinality(Fetching) + 1
                                                 ELSE Cardinality(Fetching)
    BY <2>5, HandsFinite, FS_AddElement
  <2>7. UNCHANGED <<pubTimeouts, subTimeouts>>
    BY <1>6 DEF WaitSem, tally
  <2>10. Books
    BY <1>1, Zenon DEF PermitsAccounted, Books
  <2>12. /\ Permits(empty_sem) \in Nat /\ Permits(full_sem) \in Nat
         /\ Filled \in Int /\ PubStoring \in Nat /\ PubStored \in Nat
         /\ Cardinality(Fetching) \in Nat /\ Cardinality(Fetched) \in Nat
         /\ BUFFER_SIZE \in Nat /\ pubTimeouts \in Nat /\ subTimeouts \in Nat
    BY NumbersType
  <2>11. Books'
    BY <1>2, <1>3, <2>2, <2>3, <2>4, <2>6, <2>7, <2>10, <2>12, SMT DEF Books
  <2> QED
    BY <2>11, Zenon DEF PermitsAccounted, Books
<1>7. CASE TimeOut(t) /\ t = Pub
  <2>1. t \in empty_sem.waiters
    BY <1>7 DEF TimeOut, Control, WaitersBlocked
  <2>2. Fetching' = Fetching /\ Permits(full_sem)' = Permits(full_sem)
    BY <1>7 DEF TimeOut, Fetching, Permits, TypeOK, Threads
  <2>3. Permits(empty_sem)' = Permits(empty_sem)
    BY <1>4, <1>7, <2>1, GiveUpLemma DEF TimeOut, Permits
  <2>4. PubStoring = 0 /\ PubStoring' = 1
    BY <1>7 DEF TimeOut, PubStoring, TypeOK
  <2>5. pubTimeouts' = pubTimeouts + 1 /\ subTimeouts' = subTimeouts
    BY <1>7 DEF TimeOut
  <2>10. Books
    BY <1>1, Zenon DEF PermitsAccounted, Books
  <2>12. /\ Permits(empty_sem) \in Nat /\ Permits(full_sem) \in Nat
         /\ Filled \in Int /\ PubStoring \in Nat /\ PubStored \in Nat
         /\ Cardinality(Fetching) \in Nat /\ Cardinality(Fetched) \in Nat
         /\ BUFFER_SIZE \in Nat /\ pubTimeouts \in Nat /\ subTimeouts \in Nat
    BY NumbersType
  <2>11. Books'
    BY <1>2, <1>3, <2>2, <2>3, <2>4, <2>5, <2>10, <2>12, SMT DEF Books
  <2> QED
    BY <2>11, Zenon DEF PermitsAccounted, Books
<1>8. CASE TimeOut(t) /\ t # Pub
  <2>1. t \in full_sem.waiters /\ t \in Subs
    BY <1>8 DEF TimeOut, Control, WaitersBlocked, Threads
  <2>2. PubStoring' = PubStoring /\ Permits(empty_sem)' = Permits(empty_sem)
    BY <1>8 DEF TimeOut, PubStoring, Permits, TypeOK, Threads
  <2>3. Permits(full_sem)' = Permits(full_sem)
    BY <1>4, <1>8, <2>1, GiveUpLemma DEF TimeOut, Permits
  <2>4. t \notin Fetching /\ Fetching' = Fetching \cup {t}
    BY <1>8, <2>1 DEF TimeOut, Fetching, TypeOK, Threads
  <2>5. Cardinality(Fetching') = Cardinality(Fetching) + 1
    BY <2>4, HandsFinite, FS_AddElement
  <2>6. pubTimeouts' = pubTimeouts /\ subTimeouts' = subTimeouts + 1
    BY <1>8 DEF TimeOut
  <2>10. Books
    BY <1>1, Zenon DEF PermitsAccounted, Books
  <2>12. /\ Permits(empty_sem) \in Nat /\ Permits(full_sem) \in Nat
         /\ Filled \in Int /\ PubStoring \in Nat /\ PubStored \in Nat
         /\ Cardinality(Fetching) \in Nat /\ Cardinality(Fetched) \in Nat
         /\ BUFFER_SIZE \in Nat /\ pubTimeouts \in Nat /\ subTimeouts \in Nat
    BY NumbersType
  <2>11. Books'
    <3>1. /\ Permits(full_sem') = Permits(full_sem)
          /\ Permits(empty_sem') = Permits(empty_sem)
          /\ Cardinality(Fetched') \in Int /\ Cardinality(Fetching') \in Int
      BY <1>2, <1>3, <2>2, <2>3, <2>5, <2>6, <2>10, <2>12, SMT
    <3>2. (Permits(full_sem) + Cardinality(Fetching) + PubStored
             = Filled + subTimeouts)'
      BY <1>2, <1>3, <2>2, <2>3, <2>5, <2>6, <2>10, <2>12, <3>1, SMT DEF Books
    <3>3. (Permits(empty_sem) + Cardinality(Fetched) + PubStoring
             = BUFFER_SIZE - Filled + pubTimeouts)'
      BY <1>2, <1>3, <2>2, <2>3, <2>5, <2>6, <2>10, <2>12, <3>1, SMT DEF Books
    <3> QED
      BY <3>2, <3>3 DEF Books
  <2> QED
    BY <2>11, Zenon DEF PermitsAccounted, Books
<1> QED
  BY <1>5, <1>6, <1>7, <1>8

\* A post returns the permit of a hand, to the semaphore or to a waiter's hand.
LEMMA AccountPost ==
  ASSUME TypeOK, Control, PermitsAccounted, NEW t \in Threads, Post(t)
  PROVE  PermitsAccounted'
<1> USE ThreadsAssumption
<1>1. running
  BY ActiveMeansRunning DEF Post
<1>2. Filled' = Filled /\ UNCHANGED <<pubTimeouts, subTimeouts>>
  BY DEF Post, Filled, ring, tally
<1>3. /\ empty_sem \in Semaphores /\ SemOK(empty_sem)
      /\ full_sem \in Semaphores /\ SemOK(full_sem)
  BY DEF TypeOK, Control
<1>4. Books
  BY <1>1, Zenon DEF PermitsAccounted, Books
<1>5. /\ Permits(empty_sem) \in Nat /\ Permits(full_sem) \in Nat
      /\ Filled \in Int /\ PubStoring \in Nat /\ PubStored \in Nat
      /\ Cardinality(Fetching) \in Nat /\ Cardinality(Fetched) \in Nat
      /\ BUFFER_SIZE \in Nat /\ pubTimeouts \in Nat /\ subTimeouts \in Nat
  BY NumbersType
<1>6. CASE t = Pub
  <2>1. PICK w \in Wakeable(full_sem) :
          /\ full_sem' = Signal(full_sem, w) /\ UNCHANGED empty_sem
          /\ pc' = [s \in Threads |-> IF s = t THEN "sleep"
                                      ELSE IF s = w THEN "acquire" ELSE pc[s]]
    BY <1>6 DEF Post
  <2>2. PubStored = 1 /\ PubStored' = 0 /\ PubStoring = 0 /\ PubStoring' = 0
    BY <1>6, <2>1 DEF Post, PubStored, PubStoring
  <2>3. Permits(empty_sem') = Permits(empty_sem)
    BY <2>1
  <2>4. ASSUME full_sem.waiters = {} PROVE Books'
    <3>1. w = NoThread
      BY <2>1, <2>4 DEF Wakeable
    <3>2. Permits(full_sem') = Permits(full_sem) + 1
      BY <1>3, <2>1, <2>4, SignalLemma
    <3>3. Fetching' = Fetching /\ Fetched' = Fetched
      BY <1>6, <2>1, <3>1 DEF Fetching, Fetched, Threads
    <3> QED
      BY <1>2, <1>4, <1>5, <2>2, <2>3, <3>2, <3>3, SMT DEF Books
  <2>5. ASSUME full_sem.waiters # {} PROVE Books'
    <3>1. w \in Subs /\ pc[w] = "blocked"
      BY <2>1, <2>5 DEF Wakeable, Control, WaitersBlocked
    <3>2. Permits(full_sem') = Permits(full_sem)
      BY <1>3, <2>1, <2>5, SignalLemma
    <3>3. w \notin Fetching /\ Fetching' = Fetching \cup {w} /\ Fetched' = Fetched
      BY <1>6, <2>1, <3>1 DEF Fetching, Fetched, Threads
    <3>4. Cardinality(Fetching') = Cardinality(Fetching) + 1
      BY <3>3, HandsFinite, FS_AddElement
    <3>5. Fetched' = Fetched
      BY <3>3
    <3> QED
      BY <1>2, <1>4, <1>5, <2>2, <2>3, <3>2, <3>4, <3>5, SMT DEF Books
  <2> QED
    BY <2>4, <2>5, Zenon DEF PermitsAccounted, Books
<1>7. CASE t # Pub
  <2>1. PICK w \in Wakeable(empty_sem) :
          /\ empty_sem' = Signal(empty_sem, w) /\ UNCHANGED full_sem
          /\ pc' = [s \in Threads |-> IF s = t THEN "sleep"
                                      ELSE IF s = w THEN "acquire" ELSE pc[s]]
    BY <1>7 DEF Post
  <2>2. w = NoThread \/ w = Pub
    BY <2>1 DEF Wakeable, Control, WaitersBlocked
  <2>3. t \in Fetched /\ Fetched' = Fetched \ {t} /\ Fetching' = Fetching
    BY <1>7, <2>1, <2>2 DEF Post, Fetching, Fetched, Threads
  <2>4. Cardinality(Fetched') = Cardinality(Fetched) - 1
    BY <2>3, HandsFinite, FS_RemoveElement
  <2>5. Fetching' = Fetching /\ Permits(full_sem') = Permits(full_sem)
    BY <2>1, <2>3
  <2>6. ASSUME empty_sem.waiters = {} PROVE Books'
    <3>1. w = NoThread
      BY <2>1, <2>6 DEF Wakeable
    <3>2. Permits(empty_sem') = Permits(empty_sem) + 1
      BY <1>3, <2>1, <2>6, SignalLemma
    <3>3. PubStoring' = PubStoring /\ PubStored' = PubStored
      BY <1>7, <2>1, <3>1 DEF PubStoring, PubStored, Threads
    <3> QED
      BY <1>2, <1>4, <1>5, <2>4, <2>5, <3>2, <3>3, SMT DEF Books
  <2>7. ASSUME empty_sem.waiters # {} PROVE Books'
    <3>1. w = Pub /\ pc[w] = "blocked"
      BY <2>1, <2>7 DEF Wakeable, Control, WaitersBlocked
    <3>2. Permits(empty_sem') = Permits(empty_sem)
      BY <1>3, <2>1, <2>7, SignalLemma
    <3>3. /\ PubStoring = 0 /\ PubStoring' = 1
          /\ PubStored = 0 /\ PubStored' = 0
      BY <1>7, <2>1, <3>1 DEF PubStoring, PubStored, Threads
    <3> QED
      BY <1>2, <1>4, <1>5, <2>4, <2>5, <3>2, <3>3, SMT DEF Books
  <2> QED
    BY <2>6, <2>7, Zenon DEF PermitsAccounted, Books
<1> QED
  BY <1>6, <1>7

\* The books balance after every step.
LEMMA AccountStep ==
  ASSUME TypeOK, Control, PermitsAccounted, [Next]_vars
  PROVE  PermitsAccounted'
<1> USE ThreadsAssumption
<1>1. CASE Start
  <2>1. /\ Permits(empty_sem') = BUFFER_SIZE
        /\ Permits(full_sem') = 0
    BY <1>1, SemaphoreLemma, BufferSizeAssumption DEF Start, AllFree
  <2>2. Fetching' = {} /\ Fetched' = {}
    BY <1>1 DEF Start, Fetching, Fetched, Threads
  <2>3. Cardinality(Fetching') = 0 /\ Cardinality(Fetched') = 0
    BY <2>2, FS_EmptySet
  <2>4. PubStoring' = 0 /\ PubStored' = 0
    BY <1>1 DEF Start, PubStoring, PubStored, Threads
  <2>5. Filled' = 0
    <3>1. Len(got) \in Nat /\ sent \in Nat
      BY DEF TypeOK
    <3> QED
      BY <1>1, <3>1, SMT DEF Start, Filled, ring
  <2>6. pubTimeouts' = 0 /\ subTimeouts' = 0
    BY <1>1 DEF Start
  <2> QED
    BY <2>1, <2>3, <2>4, <2>5, <2>6, BufferSizeAssumption, SMT DEF PermitsAccounted
<1>2. ASSUME NEW t \in Threads, Acquire(t) \/ NextRound(t) PROVE PermitsAccounted'
  <2>1. Fetching' = Fetching /\ Fetched' = Fetched
    BY <1>2 DEF Acquire, NextRound, Fetching, Fetched, TypeOK, Threads
  <2>2. PubStoring' = PubStoring /\ PubStored' = PubStored
    BY <1>2 DEF Acquire, NextRound, PubStoring, PubStored, TypeOK, Threads
  <2>3. UNCHANGED <<running, empty_sem, full_sem, pubTimeouts, subTimeouts>>
    BY <1>2 DEF Acquire, NextRound, tally
  <2>4. Filled' = Filled
    BY <1>2 DEF Acquire, NextRound, Filled, ring, tally
  <2> QED
    BY <2>1, <2>2, <2>3, <2>4, Zenon DEF PermitsAccounted
<1>3. CASE JoinAll
  BY <1>3, Zenon DEF JoinAll, PermitsAccounted
<1>4. CASE UNCHANGED vars
  BY <1>4, Zenon DEF vars, PermitsAccounted, Permits, Fetching, Fetched, PubStoring,
     PubStored, Filled
<1> QED
  BY <1>1, <1>2, <1>3, <1>4, AccountRing, AccountWait, AccountPost
     DEF Next, ThreadStep

-----------------------------------------------------------------------------
(* The ring as a queue.                                                    *)

\* The drift stays bounded, also while no invocation runs.
LEMMA DriftStep ==
  ASSUME TypeOK, Control, BoundedDrift, [Next]_vars, TypeOK', Control',
         PermitsAccounted'
  PROVE  BoundedDrift'
<1>1. CASE running'
  BY <1>1, AccountsBoundDrift, PTL
<1>2. CASE ~running'
  <2>1. JoinAll \/ UNCHANGED vars
    BY <1>2, ActiveMeansRunning
       DEF Next, ThreadStep, Start, WaitSem, TimeOut, Acquire, Store, Fetch, Post,
           NextRound, Threads
  <2>2. UNCHANGED <<sent, got, lead, pubTimeouts, subTimeouts>>
    BY <2>1 DEF JoinAll, vars, ring, tally
  <2> QED
    BY <2>2 DEF BoundedDrift, Filled
<1> QED
  BY <1>1, <1>2

\* in_x and out_x count stores and fetches.
LEMMA IndicesStep ==
  ASSUME TypeOK, IndicesFollowHistory, [Next]_vars
  PROVE  IndicesFollowHistory'
<1>1. CASE Store
  <2>1. in_x' = (sent + 1) % BUFFER_SIZE
    BY <1>1, ModSucc, BufferSizeAssumption DEF Store, Advance, IndicesFollowHistory, TypeOK
  <2> QED
    BY <1>1, <2>1 DEF Store, IndicesFollowHistory
<1>2. ASSUME NEW t \in Threads, Fetch(t) PROVE IndicesFollowHistory'
  <2>1. Len(got) \in Nat /\ Len(got') = Len(got) + 1
    BY <1>2, SMT DEF Fetch, TypeOK
  <2>2. out_x' = (Len(got) + 1) % BUFFER_SIZE
    BY <1>2, <2>1, ModSucc, BufferSizeAssumption DEF Fetch, Advance, IndicesFollowHistory
  <2> QED
    BY <1>2, <2>1, <2>2 DEF Fetch, IndicesFollowHistory
<1>3. CASE UNCHANGED ring
  BY <1>3 DEF ring, IndicesFollowHistory
<1> QED
  BY <1>1, <1>2, <1>3
     DEF Next, ThreadStep, Start, WaitSem, TimeOut, Acquire, Post, NextRound, JoinAll,
         vars, ring

\* Nothing is stored or read before the command is first invoked.
LEMMA FirstRunStep ==
  ASSUME TypeOK, Control, NothingBeforeFirstRun, [Next]_vars
  PROVE  NothingBeforeFirstRun'
<1>1. CASE Start
  BY <1>1, SMT DEF Start, NothingBeforeFirstRun, TypeOK
<1>2. ASSUME NEW t \in Threads, ThreadStep(t) PROVE NothingBeforeFirstRun'
  <2>1. running
    BY <1>2, ActiveMeansRunning
       DEF ThreadStep, WaitSem, TimeOut, Acquire, Store, Fetch, Post, NextRound
  <2>2. UNCHANGED runs
    BY <1>2 DEF ThreadStep, WaitSem, TimeOut, Acquire, Store, Fetch, Post, NextRound
  <2> QED
    BY <2>1, <2>2, Zenon DEF NothingBeforeFirstRun
<1>3. CASE JoinAll
  BY <1>3, Zenon DEF JoinAll, NothingBeforeFirstRun
<1>4. CASE UNCHANGED vars
  BY <1>4, Zenon DEF vars, NothingBeforeFirstRun
<1> QED
  BY <1>1, <1>2, <1>3, <1>4 DEF Next

\* A store goes to a free place: no unread item is overwritten.
LEMMA QueueStore ==
  ASSUME TypeOK, Control, PermitsAccounted, IndicesFollowHistory,
         UnreadInPlace, FifoUntilTimeout, Store
  PROVE  UnreadInPlace' /\ FifoUntilTimeout'
<1>1. UNCHANGED <<got, lead, runs, pubTimeouts, subTimeouts>>
  BY DEF Store, tally
<1>2. FifoUntilTimeout'
  BY <1>1 DEF FifoUntilTimeout
<1>3. SUFFICES ASSUME Undisturbed
               PROVE  \A k \in Len(got) .. sent : buffer'[k % BUFFER_SIZE] = k + 1
  BY <1>1, <1>2, SMT DEF UnreadInPlace, Undisturbed, Store, TypeOK
<1>4. running
  BY ActiveMeansRunning DEF Store, Threads
<1>5. sent - Len(got) < BUFFER_SIZE
  <2>1. PubStoring = 1
    BY DEF Store, PubStoring
  <2>2. Filled < BUFFER_SIZE + pubTimeouts
    BY <1>4, <2>1, AccountsBoundDrift
  <2>3. lead = 0 /\ pubTimeouts = 0 /\ Len(got) \in Nat /\ sent \in Nat
    BY <1>3 DEF UnreadInPlace, Undisturbed, TypeOK
  <2> QED
    BY <2>2, <2>3, BufferSizeAssumption, SMT DEF Filled
<1>6. TAKE k \in Len(got) .. sent
<1>7. k \in Nat /\ sent \in Nat /\ Len(got) \in Nat /\ k <= sent /\ k >= Len(got)
  BY SMT DEF TypeOK
<1>8. k % BUFFER_SIZE \in Slots /\ in_x = sent % BUFFER_SIZE
  BY <1>7, ModDef, BufferSizeAssumption DEF Slots, IndicesFollowHistory
<1>9. CASE k = sent
  BY <1>8, <1>9, SMT DEF Store, TypeOK
<1>10. CASE k # sent
  <2>1. k < sent /\ sent - k < BUFFER_SIZE
    BY <1>5, <1>7, <1>10, BufferSizeAssumption, SMT
  <2>2. k % BUFFER_SIZE # in_x
    BY <1>7, <1>8, <2>1, ModDistinct, BufferSizeAssumption
  <2>3. buffer[k % BUFFER_SIZE] = k + 1
    BY <1>3, <1>7, <2>1, SMT DEF UnreadInPlace
  <2> QED
    BY <1>8, <2>2, <2>3 DEF Store, TypeOK
<1> QED
  BY <1>9, <1>10

\* A fetch finds the oldest unread item.
LEMMA QueueFetch ==
  ASSUME TypeOK, Control, PermitsAccounted, IndicesFollowHistory,
         UnreadInPlace, FifoUntilTimeout, NEW t \in Threads, Fetch(t)
  PROVE  UnreadInPlace' /\ FifoUntilTimeout'
<1>1. UNCHANGED <<buffer, sent, lead, runs, pubTimeouts, subTimeouts>>
  BY DEF Fetch, tally
<1>2. /\ got' = Append(got, buffer[out_x]) /\ got \in Seq(Nat)
      /\ Len(got) \in Nat /\ sent \in Nat
  BY DEF Fetch, TypeOK
<1>3. buffer[out_x] \in Nat
  BY DEF TypeOK
<1>4. Len(got') = Len(got) + 1
  BY <1>2, <1>3, SMT
<1>5. CASE ~Undisturbed
  BY <1>1, <1>5 DEF UnreadInPlace, FifoUntilTimeout, Undisturbed
<1>6. CASE Undisturbed
  <2>1. lead = 0 /\ subTimeouts = 0 /\ got = [k \in 1 .. Len(got) |-> k]
    BY <1>6 DEF UnreadInPlace, Undisturbed, FifoUntilTimeout
  <2>2. running /\ Fetching # {}
    BY ActiveMeansRunning DEF Fetch, Fetching
  <2>3. Filled > 0 - subTimeouts
    BY <2>2, AccountsBoundDrift
  <2>4. Len(got) < sent
    BY <1>2, <2>1, <2>3, SMT DEF Filled
  <2>5. buffer[Len(got) % BUFFER_SIZE] = Len(got) + 1
    BY <1>2, <1>6, <2>4, SMT DEF UnreadInPlace
  <2>6. buffer[out_x] = Len(got) + 1
    BY <2>5 DEF IndicesFollowHistory
  <2>7. UnreadInPlace'
    BY <1>1, <1>2, <1>4, <1>6, SMT DEF UnreadInPlace, Undisturbed
  <2>8. \A k \in 1 .. Len(got') : got'[k] = k
    BY <1>2, <1>3, <1>4, <2>1, <2>6, SMT
  <2>9. got' = [k \in 1 .. Len(got') |-> k]
    BY <1>2, <1>3, <1>4, <2>8, SMT
  <2> QED
    BY <2>7, <2>9 DEF FifoUntilTimeout
<1> QED
  BY <1>5, <1>6

\* The ring stays a queue until the first timeout.
LEMMA QueueStep ==
  ASSUME TypeOK, Control, PermitsAccounted, IndicesFollowHistory,
         NothingBeforeFirstRun, UnreadInPlace, FifoUntilTimeout, [Next]_vars
  PROVE  UnreadInPlace' /\ FifoUntilTimeout'
<1>1. CASE Start
  <2>1. CASE runs' <= 1
    <3>1. runs = 0
      BY <1>1, <2>1, SMT DEF Start, TypeOK
    <3>2. sent' = 0 /\ got' = <<>>
      BY <1>1, <3>1, Zenon DEF Start, NothingBeforeFirstRun, ring
    <3>3. lead' = 0
      <4>1. sent = 0 /\ Len(got) = 0
        BY <3>1 DEF NothingBeforeFirstRun
      <4>2. lead' = sent - Len(got)
        BY <1>1 DEF Start
      <4>3. lead' = 0 - 0
        BY <4>1, <4>2, Zenon
      <4> QED
        BY <4>3, SMT
    <3>4. Len(got') = 0
      BY <3>2
    <3>5. 0 .. 0 - 1 = {} /\ 1 .. 0 = {}
      BY SMT
    <3>6. got' = [k \in 1 .. Len(got') |-> k]
      BY <3>2, SMT
    <3> QED
      BY <3>2, <3>3, <3>4, <3>5, <3>6, SMT DEF UnreadInPlace, FifoUntilTimeout
  <2>2. CASE ~(runs' <= 1)
    BY <2>2 DEF UnreadInPlace, FifoUntilTimeout, Undisturbed
  <2> QED
    BY <2>1, <2>2
<1>2. ASSUME NEW t \in Threads, TimeOut(t) PROVE UnreadInPlace' /\ FifoUntilTimeout'
  <2>1. pubTimeouts' # 0 \/ subTimeouts' # 0
    BY <1>2, SMT DEF TimeOut, TypeOK
  <2> QED
    BY <2>1 DEF UnreadInPlace, FifoUntilTimeout, Undisturbed
<1>3. ASSUME UNCHANGED <<ring, tally, runs>> PROVE UnreadInPlace' /\ FifoUntilTimeout'
  BY <1>3 DEF ring, tally, UnreadInPlace, FifoUntilTimeout, Undisturbed
<1>4. ASSUME NEW t \in Threads, WaitSem(t) \/ Acquire(t) \/ Post(t) \/ NextRound(t)
      PROVE  UnreadInPlace' /\ FifoUntilTimeout'
  BY <1>3, <1>4 DEF WaitSem, Acquire, Post, NextRound
<1>5. CASE JoinAll
  BY <1>3, <1>5 DEF JoinAll
<1>6. CASE UNCHANGED vars
  BY <1>3, <1>6 DEF vars, ring, tally
<1> QED
  BY <1>1, <1>2, <1>4, <1>5, <1>6, QueueStore, QueueFetch DEF Next, ThreadStep

-----------------------------------------------------------------------------
(* The theorems.                                                           *)

\* The initial state satisfies the inductive invariant.
LEMMA IndInvInit ==
  ASSUME Init
  PROVE  IndInv
<1>1. TypeOK
  <2>1. 0 \in Slots
    BY BufferSizeAssumption, SMT DEF Slots
  <2> QED
    BY <2>1, SMT DEF Init, TypeOK, Semaphore, Semaphores, Steps
<1>2. SemOK(empty_sem) /\ SemOK(full_sem)
  BY SemaphoreLemma DEF Init
<1>3. LockHeld /\ WaitersBlocked /\ IdleMeansDone
  BY ThreadsAssumption
     DEF Init, LockHeld, WaitersBlocked, IdleMeansDone, Semaphore, Threads
<1>4. NothingBeforeFirstRun /\ PermitsAccounted
  BY Zenon DEF Init, NothingBeforeFirstRun, PermitsAccounted
<1>5. Len(got) = 0 /\ sent = 0 /\ lead = 0 /\ got = <<>>
  BY DEF Init
<1>6. BoundedDrift
  BY <1>5, BufferSizeAssumption, SMT DEF Init, BoundedDrift, Filled
<1>7. 0 % BUFFER_SIZE = 0
  <2>1. 0 = BUFFER_SIZE * 0 + 0
    BY BufferSizeAssumption, SMT
  <2> QED
    BY <2>1, ModUnique, BufferSizeAssumption, SMT
<1>8. IndicesFollowHistory
  BY <1>5, <1>7 DEF Init, IndicesFollowHistory
<1>9. UnreadInPlace
  BY <1>5, SMT DEF UnreadInPlace
<1>10. FifoUntilTimeout
  <2>1. got = [k \in 1 .. Len(got) |-> k]
    BY <1>5, SMT
  <2> QED
    BY <2>1 DEF FifoUntilTimeout
<1> QED
  BY <1>1, <1>2, <1>3, <1>4, <1>6, <1>8, <1>9, <1>10 DEF IndInv

\* Every step preserves the inductive invariant.
LEMMA IndInvStep ==
  ASSUME IndInv, [Next]_vars
  PROVE  IndInv'
<1>1. TypeOK /\ Control
  BY DEF IndInv, Control
<1>2. TypeOK'
  BY <1>1, TypeOKStep
<1>3. Control'
  BY <1>1, ControlStep
<1>4. PermitsAccounted'
  BY <1>1, AccountStep DEF IndInv
<1>5. BoundedDrift'
  BY <1>1, <1>2, <1>3, <1>4, DriftStep DEF IndInv
<1>6. IndicesFollowHistory'
  BY <1>1, IndicesStep DEF IndInv
<1>7. NothingBeforeFirstRun'
  BY <1>1, FirstRunStep DEF IndInv
<1>8. UnreadInPlace' /\ FifoUntilTimeout'
  BY <1>1, QueueStep DEF IndInv
<1> QED
  BY <1>2, <1>3, <1>4, <1>5, <1>6, <1>7, <1>8 DEF IndInv, Control

\* The inductive invariant holds in every reachable state of app501.
THEOREM Invariance == Spec => []IndInv
<1>1. Init => IndInv
  BY IndInvInit
<1>2. IndInv /\ [Next]_vars => IndInv'
  BY IndInvStep
<1> QED
  BY <1>1, <1>2, PTL DEF Spec

\* Only ignored timeouts let the publisher of app501 overrun the ring or a
\* subscriber read what was not stored, and each by one item only.
THEOREM DriftBounded == Spec => []BoundedDrift
<1>1. IndInv => BoundedDrift
  BY DEF IndInv
<1> QED
  BY <1>1, Invariance, PTL

\* Until the first ignored timeout app501's ring is a first-in first-out queue,
\* whatever its size, the number of subscribers and the interleaving.
THEOREM RingIsFifo == Spec => []FifoUntilTimeout
<1>1. IndInv => FifoUntilTimeout
  BY DEF IndInv
<1> QED
  BY <1>1, Invariance, PTL

\* in_x and out_x always stand where the stores and fetches since boot put them.
THEOREM IndicesCorrect == Spec => []IndicesFollowHistory
<1>1. IndInv => IndicesFollowHistory
  BY DEF IndInv
<1> QED
  BY <1>1, Invariance, PTL

-----------------------------------------------------------------------------
(* The ring implements a queue.                                            *)

\* Until the first timeout the cells between the indices hold the items that
\* follow the ones already read.
LEMMA UnreadItems ==
  ASSUME IndInv, Undisturbed
  PROVE  /\ sent - Len(got) \in 0 .. BUFFER_SIZE
         /\ Len(got) \in Nat
         /\ Unread = [i \in 1 .. sent - Len(got) |-> Len(got) + i]
<1>1. /\ sent \in Nat /\ Len(got) \in Nat /\ BUFFER_SIZE \in Nat \ {0}
      /\ buffer \in [Slots -> Nat]
  BY BufferSizeAssumption, SMT DEF IndInv, TypeOK
<1>2. lead = 0 /\ \A k \in Len(got) .. sent - 1 : buffer[k % BUFFER_SIZE] = k + 1
  BY DEF IndInv, UnreadInPlace
<1>3. sent - Len(got) \in 0 .. BUFFER_SIZE
  BY <1>1, <1>2, SMT DEF IndInv, BoundedDrift, Filled, Undisturbed
<1>4. ASSUME NEW i \in 1 .. sent - Len(got)
      PROVE  buffer[(Len(got) + i - 1) % BUFFER_SIZE] = Len(got) + i
  <2>1. /\ Len(got) + i - 1 \in Len(got) .. sent - 1
        /\ (Len(got) + i - 1) + 1 = Len(got) + i
    BY <1>1, <1>4, SMT
  <2> QED
    BY <2>1, <1>2
<1> QED
  BY <1>1, <1>3, <1>4 DEF Unread

\* A disturbed ring stays disturbed.
LEMMA DisturbedForEver ==
  ASSUME IndInv, [Next]_vars, ~Undisturbed
  PROVE  ~Undisturbed'
<1> USE DEF Undisturbed
<1>1. runs \in Nat /\ pubTimeouts \in Nat /\ subTimeouts \in Nat
  BY DEF IndInv, TypeOK
<1>2. CASE Start
  <2>1. runs' = runs + 1
    BY <1>2 DEF Start
  <2>2. runs # 0
    BY <1>1, SMT DEF IndInv, NothingBeforeFirstRun
  <2> QED
    BY <1>1, <2>1, <2>2, SMT
<1>3. ASSUME NEW t \in Threads, TimeOut(t) PROVE ~Undisturbed'
  BY <1>1, <1>3, SMT DEF TimeOut
<1>4. CASE UNCHANGED <<runs, pubTimeouts, subTimeouts>>
  BY <1>4
<1> QED
  BY <1>2, <1>3, <1>4
     DEF Next, ThreadStep, vars, WaitSem, Acquire, Store, Fetch, Post, NextRound,
         JoinAll, tally

\* Storing an item is a Put.
LEMMA StoreIsPut ==
  ASSUME IndInv, IndInv', Undisturbed, Undisturbed', Store
  PROVE  /\ Len(Unread) < BUFFER_SIZE
         /\ Unread' = Append(Unread, Len(got) + Len(Unread) + 1)
         /\ got' = got
<1>1. /\ sent - Len(got) \in 0 .. BUFFER_SIZE /\ Len(got) \in Nat
      /\ Unread = [i \in 1 .. sent - Len(got) |-> Len(got) + i]
  BY UnreadItems
<1>2. Unread' = [i \in 1 .. sent' - Len(got') |-> Len(got') + i]
  <2>1. (IndInv /\ Undisturbed)' => (Unread = [i \in 1 .. sent - Len(got) |-> Len(got) + i])'
    BY UnreadItems, PTL
  <2> QED
    BY <2>1
<1>3. sent' = sent + 1 /\ got' = got /\ sent \in Nat
  BY DEF Store, IndInv, TypeOK
<1>4. Len(Unread) = sent - Len(got)
  BY <1>1, <1>3, SMT
<1>5. sent - Len(got) < BUFFER_SIZE
  <2>1. TypeOK /\ Control /\ running /\ PermitsAccounted
    <3>1. TypeOK /\ Control /\ PermitsAccounted
      BY DEF IndInv, Control
    <3>2. Pub \in Threads /\ pc[Pub] # "done"
      BY DEF Threads, Store
    <3> QED
      BY <3>1, <3>2, ActiveMeansRunning
  <2>2. PubStoring = 1
    BY DEF PubStoring, Store
  <2>3. Filled < BUFFER_SIZE + pubTimeouts
    BY <2>1, <2>2, AccountsBoundDrift
  <2>4. lead = 0 /\ pubTimeouts = 0
    BY DEF IndInv, UnreadInPlace, Undisturbed
  <2> QED
    BY <2>3, <2>4, <1>1, <1>3, BufferSizeAssumption, SMT DEF Filled
<1>6. Append(Unread, Len(got) + Len(Unread) + 1)
        = [i \in 1 .. sent + 1 - Len(got) |-> Len(got) + i]
  <2> DEFINE n == sent - Len(got)
  <2>1. n \in Nat
    BY <1>1, <1>3, SMT
  <2>2. sent + 1 - Len(got) = n + 1
    BY <1>1, <1>3, SMT
  <2>3. Unread = [i \in 1 .. n |-> Len(got) + i] /\ Len(Unread) = n
    BY <1>1, <1>4
  <2> HIDE DEF n
  <2>4. Unread \in Seq(Nat)
    BY <2>1, <2>3, <1>1, SMT
  <2>5. Append(Unread, Len(got) + n + 1) = [i \in 1 .. n + 1 |-> Len(got) + i]
    BY <2>1, <2>3, <2>4, <1>1, SMT
  <2> QED
    BY <2>2, <2>3, <2>5
<1>7. Unread' = [i \in 1 .. sent + 1 - Len(got) |-> Len(got) + i]
  BY <1>2, <1>3, SMT
<1>8. Len(Unread) < BUFFER_SIZE
  BY <1>4, <1>5, Zenon
<1> QED
  BY <1>3, <1>6, <1>7, <1>8, Zenon

\* Reading an item is a Get.
LEMMA FetchIsGet ==
  ASSUME IndInv, IndInv', Undisturbed, Undisturbed', NEW t \in Threads, Fetch(t)
  PROVE  /\ Unread # <<>>
         /\ got' = Append(got, Head(Unread))
         /\ Unread' = Tail(Unread)
<1>1. /\ sent - Len(got) \in 0 .. BUFFER_SIZE /\ Len(got) \in Nat
      /\ Unread = [i \in 1 .. sent - Len(got) |-> Len(got) + i]
  BY UnreadItems
<1>2. Unread' = [i \in 1 .. sent' - Len(got') |-> Len(got') + i]
  <2>1. (IndInv /\ Undisturbed)' => (Unread = [i \in 1 .. sent - Len(got) |-> Len(got) + i])'
    BY UnreadItems, PTL
  <2> QED
    BY <2>1
<1>3. /\ sent' = sent /\ got' = Append(got, buffer[out_x])
      /\ sent \in Nat /\ got \in Seq(Nat) /\ buffer[out_x] \in Nat
      /\ Len(got') = Len(got) + 1
  BY SMT DEF Fetch, IndInv, TypeOK
<1>5. sent - Len(got) > 0
  <2>1. TypeOK /\ Control /\ running /\ PermitsAccounted
    <3>1. TypeOK /\ Control /\ PermitsAccounted
      BY DEF IndInv, Control
    <3>2. pc[t] # "done"
      BY DEF Fetch
    <3> QED
      BY <3>1, <3>2, ActiveMeansRunning
  <2>2. Fetching # {}
    BY DEF Fetching, Fetch
  <2>3. Filled > 0 - subTimeouts
    BY <2>1, <2>2, AccountsBoundDrift
  <2>4. lead = 0 /\ subTimeouts = 0
    BY DEF IndInv, UnreadInPlace, Undisturbed
  <2> QED
    BY <2>3, <2>4, <1>1, <1>3, SMT DEF Filled
<1>6. buffer[out_x] = Unread[1]
  <2>1. out_x = Len(got) % BUFFER_SIZE
    BY DEF IndInv, IndicesFollowHistory
  <2>2. 1 \in 1 .. sent - Len(got) /\ Len(got) + 1 - 1 = Len(got)
    BY <1>1, <1>3, <1>5, SMT
  <2> QED
    BY <2>1, <2>2 DEF Unread
<1>7. /\ Unread # <<>> /\ Head(Unread) = Unread[1]
      /\ Tail(Unread) = [i \in 1 .. sent - (Len(got) + 1) |-> (Len(got) + 1) + i]
  <2> DEFINE n == sent - Len(got)
  <2>1. n \in Nat \ {0} /\ sent - (Len(got) + 1) = n - 1
    BY <1>1, <1>3, <1>5, SMT
  <2>2. Unread = [i \in 1 .. n |-> Len(got) + i]
    BY <1>1
  <2> HIDE DEF n
  <2>3. Unread \in Seq(Nat) /\ Len(Unread) = n
    BY <2>1, <2>2, <1>1, SMT
  <2>4. Tail(Unread) = [i \in 1 .. n - 1 |-> (Len(got) + 1) + i]
    <3>1. /\ Tail(Unread) \in Seq(Nat) /\ Len(Tail(Unread)) = n - 1
          /\ \A i \in 1 .. n - 1 : Tail(Unread)[i] = Unread[i + 1]
      <4>1. Unread # <<>>
        BY <2>1, <2>3, SMT
      <4> QED
        BY <2>3, <4>1, HeadTailProperties
    <3>2. ASSUME NEW i \in 1 .. n - 1 PROVE Unread[i + 1] = (Len(got) + 1) + i
      <4>1. i + 1 \in 1 .. n /\ Len(got) + (i + 1) = (Len(got) + 1) + i
        BY <2>1, <1>1, SMT
      <4> QED
        BY <4>1, <2>2
    <3>3. Tail(Unread) = [i \in 1 .. n - 1 |-> Tail(Unread)[i]]
      BY <3>1, LenProperties
    <3> QED
      BY <3>1, <3>2, <3>3, Zenon
  <2> QED
    BY <2>1, <2>3, <2>4, SMT
<1> QED
  BY <1>2, <1>3, <1>6, <1>7

\* The ring of app501 implements a bounded queue up to the first timeout: every
\* step of the threads is a Put, a Get, the break or leaves the queue alone, for
\* every ring size and number of subscribers.
THEOREM RingImplementsQueue == Spec => ImplementsQueue
<1>1. Init => Queue!Init
  <2> SUFFICES ASSUME Init PROVE Queue!Init
    OBVIOUS
  <2>1. Undisturbed /\ got = <<>> /\ sent = 0 /\ Len(got) = 0
    BY SMT DEF Init, Undisturbed
  <2>2. Unread = <<>>
    BY <2>1, SMT DEF Unread
  <2> QED
    BY <2>1, <2>2 DEF Queue!Init
<1>2. IndInv /\ IndInv' /\ [Next]_vars => [Queue!Next]_(Queue!vars)
  <2> SUFFICES ASSUME IndInv, IndInv', [Next]_vars
               PROVE  [Queue!Next]_(Queue!vars)
    OBVIOUS
  <2> USE DEF Queue!Next, Queue!vars
  <2>1. CASE ~Undisturbed
    BY <2>1, DisturbedForEver
  <2>2. CASE Undisturbed /\ ~Undisturbed'
    BY <2>2 DEF Queue!Break
  <2>3. CASE Undisturbed /\ Undisturbed'
    <3>1. CASE Store
      <4>1. Queue!Put
        BY <2>3, <3>1, StoreIsPut DEF Queue!Put
      <4> QED
        BY <4>1
    <3>2. ASSUME NEW t \in Threads, Fetch(t) PROVE [Queue!Next]_(Queue!vars)
      <4>1. Queue!Get
        BY <2>3, <3>2, FetchIsGet DEF Queue!Get
      <4> QED
        BY <4>1
    <3>3. CASE UNCHANGED ring
      <4>1. Unread' = Unread /\ got' = got
        BY <3>3 DEF ring, Unread
      <4> QED
        BY <2>3, <4>1
    <3> QED
      BY <3>1, <3>2, <3>3
         DEF Next, ThreadStep, vars, Start, WaitSem, TimeOut, Acquire, Post,
             NextRound, JoinAll, ring
  <2> QED
    BY <2>1, <2>2, <2>3
<1> QED
  BY <1>1, <1>2, Invariance, PTL DEF Spec, ImplementsQueue, Queue!Spec

=============================================================================
