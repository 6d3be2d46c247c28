------------------------------- MODULE App501 -------------------------------
(***************************************************************************)
(* The console command app501 (pus/exp/app500/myapp2.c): one publisher and *)
(* several subscribers share a ring of BUFFER_SIZE six-byte items, guarded *)
(* by a mutex and by two counting semaphores.  Both semaphores are waited  *)
(* on with a timeout whose result the code ignores, and the ring indices   *)
(* are static: they survive from one invocation of the command to the next *)
(* while the semaphores are initialised again.                             *)
(*                                                                         *)
(* Data is abstracted to identity: the k-th item ever generated is the     *)
(* number k, and 0 is the zero-initialised content of buffer_501.          *)
(*                                                                         *)
(* The mutex, the semaphores and the scheduler belong to the kernel, which *)
(* this repository only uses: they are modelled from that use.  A timeout  *)
(* may fire whenever its thread is blocked, because nothing bounds how     *)
(* long the other threads take.                                            *)
(***************************************************************************)
EXTENDS Integers, Sequences, FiniteSets

CONSTANTS
    BUFFER_SIZE,    \* slots of the ring (9 in the code)
    PubIters,       \* rounds of the publisher's loop (20)
    SubIters,       \* rounds of a subscriber's loop (22)
    Pub,            \* the publisher thread
    Subs,           \* the subscriber threads (3)
    NoThread,       \* the holder of a free mutex
    MaxRuns         \* bound: how often the command is invoked

ASSUME BufferSizeAssumption == BUFFER_SIZE \in Nat \ {0}
ASSUME ItersAssumption == PubIters \in Nat \ {0} /\ SubIters \in Nat \ {0}
ASSUME ThreadsAssumption ==
    /\ IsFiniteSet(Subs)
    /\ Pub \notin Subs
    /\ NoThread \notin Subs \cup {Pub}
ASSUME MaxRunsAssumption == MaxRuns \in Nat

Threads == {Pub} \cup Subs

Slots == 0 .. BUFFER_SIZE - 1

VARIABLES
    running,    \* the command is between its thread_create_etc and its last join
    runs,       \* how often the command was invoked
    pc,         \* where each thread is in its loop
    iter,       \* rounds each thread has completed in this invocation
    empty_sem,  \* [count, waiters]: count < 0 means -count threads wait
    full_sem,
    pipe_lock,  \* the thread that holds pipe_lock_501, or NoThread
    in_x,
    out_x,
    buffer,     \* buffer_501, one cell per item
    sent,       \* history: items stored since boot
    got,        \* history: the items read since boot, in order
    lead,       \* history: stores minus fetches when this invocation began
    pubTimeouts,    \* history: the publisher's waits of this invocation that
    subTimeouts     \* timed out, and the subscribers'

vars == <<running, runs, pc, iter, empty_sem, full_sem, pipe_lock, in_x, out_x,
          buffer, sent, got, lead, pubTimeouts, subTimeouts>>

ring == <<in_x, out_x, buffer, sent, got>>

tally == <<lead, pubTimeouts, subTimeouts>>

-----------------------------------------------------------------------------
(* Kernel semaphores.                                                      *)

\* sem_init
Semaphore(n) == [count |-> n, waiters |-> {}]

\* The permits nobody has claimed yet.
Permits(s) == s.count + Cardinality(s.waiters)

\* sem_timedwait up to the point where it returns or blocks.
Take(s, t) == [count   |-> s.count - 1,
               waiters |-> IF s.count <= 0 THEN s.waiters \cup {t} ELSE s.waiters]

\* A blocked sem_timedwait that gives up takes its claim back.
GiveUp(s, t) == [count |-> s.count + 1, waiters |-> s.waiters \ {t}]

\* sem_post, which wakes the thread w when somebody waits.
Signal(s, w) == [count |-> s.count + 1, waiters |-> s.waiters \ {w}]

\* The threads a post may wake: one waiter, or none when nobody waits.
Wakeable(s) == IF s.waiters = {} THEN {NoThread} ELSE s.waiters

-----------------------------------------------------------------------------
\* Mistake: the index wraps one slot early.
AdvanceEarly(x) == (x + 1) % (BUFFER_SIZE - 1)

\* How in_x and out_x move.
Advance(x) == (x + 1) % BUFFER_SIZE

\* Mistake: the ring is initialised for one slot too many.
AllFreeOffByOne == Semaphore(BUFFER_SIZE + 1)

\* empty_sem when the command starts.
AllFree == Semaphore(BUFFER_SIZE)

Rounds(t) == IF t = Pub THEN PubIters ELSE SubIters

Init ==
    /\ running = FALSE
    /\ runs = 0
    /\ pc = [t \in Threads |-> "done"]
    /\ iter = [t \in Threads |-> 0]
    /\ empty_sem = Semaphore(0)
    /\ full_sem = Semaphore(0)
    /\ pipe_lock = NoThread
    /\ in_x = 0
    /\ out_x = 0
    /\ buffer = [i \in Slots |-> 0]
    /\ sent = 0
    /\ got = <<>>
    /\ lead = 0
    /\ pubTimeouts = 0
    /\ subTimeouts = 0

\* app501 up to its first join: the lock and the semaphores are initialised, the
\* threads created and resumed; in_x, out_x and the buffer are left alone.
Start ==
    /\ ~running
    /\ runs < MaxRuns
    /\ running' = TRUE
    /\ runs' = runs + 1
    /\ pipe_lock' = NoThread
    /\ empty_sem' = AllFree
    /\ full_sem' = Semaphore(0)
    /\ pc' = [t \in Threads |-> "wait"]
    /\ iter' = [t \in Threads |-> 0]
    /\ lead' = sent - Len(got)
    /\ pubTimeouts' = 0
    /\ subTimeouts' = 0
    /\ UNCHANGED ring

\* sem_timedwait is called: the permit is there, or the thread blocks.
WaitSem(t) ==
    /\ pc[t] = "wait"
    /\ IF t = Pub
       THEN empty_sem' = Take(empty_sem, t) /\ UNCHANGED full_sem
       ELSE full_sem' = Take(full_sem, t) /\ UNCHANGED empty_sem
    /\ pc' = [pc EXCEPT ![t] =
                IF (IF t = Pub THEN empty_sem ELSE full_sem).count > 0
                THEN "acquire" ELSE "blocked"]
    /\ UNCHANGED <<running, runs, iter, pipe_lock, ring, tally>>

\* Mistake: sem_wait in the place of sem_timedwait.
TimeOutNever(t) == t \in {} /\ UNCHANGED vars

\* The wait times out.  Its result is ignored: the thread goes on to the ring.
TimeOut(t) ==
    /\ pc[t] = "blocked"
    /\ IF t = Pub
       THEN /\ empty_sem' = GiveUp(empty_sem, t)
            /\ pubTimeouts' = pubTimeouts + 1
            /\ UNCHANGED <<full_sem, subTimeouts>>
       ELSE /\ full_sem' = GiveUp(full_sem, t)
            /\ subTimeouts' = subTimeouts + 1
            /\ UNCHANGED <<empty_sem, pubTimeouts>>
    /\ pc' = [pc EXCEPT ![t] = "acquire"]
    /\ UNCHANGED <<running, runs, iter, pipe_lock, ring, lead>>

\* mutex_acquire(&pipe_lock_501)
Acquire(t) ==
    /\ pc[t] = "acquire"
    /\ pipe_lock = NoThread
    /\ pipe_lock' = t
    /\ pc' = [pc EXCEPT ![t] = "locked"]
    /\ UNCHANGED <<running, runs, iter, empty_sem, full_sem, ring, tally>>

\* pub501 stores its item at in_x, moves in_x and releases the lock.
Store ==
    /\ pc[Pub] = "locked"
    /\ buffer' = [buffer EXCEPT ![in_x] = sent + 1]
    /\ sent' = sent + 1
    /\ in_x' = Advance(in_x)
    /\ pipe_lock' = NoThread
    /\ pc' = [pc EXCEPT ![Pub] = "post"]
    /\ UNCHANGED <<running, runs, iter, empty_sem, full_sem, out_x, got, tally>>

\* sub501 copies the item at out_x, moves out_x and releases the lock.
Fetch(t) ==
    /\ t \in Subs
    /\ pc[t] = "locked"
    /\ got' = Append(got, buffer[out_x])
    /\ out_x' = Advance(out_x)
    /\ pipe_lock' = NoThread
    /\ pc' = [pc EXCEPT ![t] = "post"]
    /\ UNCHANGED <<running, runs, iter, empty_sem, full_sem, in_x, buffer, sent,
                   tally>>

\* sem_post of the other side's semaphore; a waiter w gets the permit.
Post(t) ==
    /\ pc[t] = "post"
    /\ \E w \in Wakeable(IF t = Pub THEN full_sem ELSE empty_sem) :
        /\ IF t = Pub
           THEN full_sem' = Signal(full_sem, w) /\ UNCHANGED empty_sem
           ELSE empty_sem' = Signal(empty_sem, w) /\ UNCHANGED full_sem
        /\ pc' = [s \in Threads |-> IF s = t THEN "sleep"
                                    ELSE IF s = w THEN "acquire" ELSE pc[s]]
    /\ UNCHANGED <<running, runs, iter, pipe_lock, ring, tally>>

\* thread_sleep(500) ends, and with it the round; the last round ends the thread.
NextRound(t) ==
    /\ pc[t] = "sleep"
    /\ iter' = [iter EXCEPT ![t] = @ + 1]
    /\ pc' = [pc EXCEPT ![t] = IF iter[t] + 1 < Rounds(t) THEN "wait" ELSE "done"]
    /\ UNCHANGED <<running, runs, empty_sem, full_sem, pipe_lock, ring, tally>>

\* app501 has joined every thread: it destroys the lock and the semaphores.
JoinAll ==
    /\ running
    /\ \A t \in Threads : pc[t] = "done"
    /\ running' = FALSE
    /\ empty_sem' = Semaphore(0)
    /\ full_sem' = Semaphore(0)
    /\ pipe_lock' = NoThread
    /\ UNCHANGED <<runs, pc, iter, ring, tally>>

ThreadStep(t) ==
    \/ WaitSem(t)
    \/ TimeOut(t)
    \/ Acquire(t)
    \/ t = Pub /\ Store
    \/ Fetch(t)
    \/ Post(t)
    \/ NextRound(t)

Next ==
    \/ Start
    \/ \E t \in Threads : ThreadStep(t)
    \/ JoinAll

(* Every thread is scheduled, timers fire and the join returns.  The kernel *)
(* serves the waiters of a mutex in order, so no one is passed over for     *)
(* ever: strong fairness of Acquire.                                        *)
Fairness ==
    /\ WF_vars(JoinAll)
    /\ \A t \in Threads : WF_vars(ThreadStep(t)) /\ SF_vars(Acquire(t))

Spec == Init /\ [][Next]_vars /\ Fairness

-----------------------------------------------------------------------------
(* Properties.                                                             *)

Steps == {"wait", "blocked", "acquire", "locked", "post", "sleep", "done"}

Semaphores == [count : Int, waiters : SUBSET Threads]

\* Every variable has its type: in particular the ring indices stay in the ring.
TypeOK ==
    /\ running \in BOOLEAN
    /\ runs \in Nat
    /\ pc \in [Threads -> Steps]
    /\ iter \in [Threads -> Nat]
    /\ empty_sem \in Semaphores
    /\ full_sem \in Semaphores
    /\ pipe_lock \in Threads \cup {NoThread}
    /\ in_x \in Slots
    /\ out_x \in Slots
    /\ buffer \in [Slots -> Nat]
    /\ sent \in Nat
    /\ got \in Seq(Nat)
    /\ lead \in Int
    /\ pubTimeouts \in Nat
    /\ subTimeouts \in Nat

\* Items stored and not yet read, counted from the start of this invocation.
Filled == sent - Len(got) - lead

\* How far the two ends of the ring may drift apart: every wait whose timeout
\* pub501 ignored lets it run one item further ahead of the subscribers than the
\* ring holds, every one sub501 ignored lets a subscriber read one item that was
\* not stored, and nothing else does.
BoundedDrift ==
    /\ Filled >= 0 - subTimeouts
    /\ Filled <= BUFFER_SIZE + pubTimeouts

\* Until the first ignored timeout of the first invocation the ring is a queue:
\* the subscribers of app501 together read the published items in order, none
\* twice, none skipped, none overwritten before it was read.
FifoUntilTimeout ==
    (runs <= 1 /\ pubTimeouts = 0 /\ subTimeouts = 0) =>
        got = [k \in 1 .. Len(got) |-> k]

\* The indices follow the numbers of stores and fetches since boot, so the next
\* invocation of app501 begins reading as far off the writer as the stores and
\* the fetches of all earlier ones differ.
IndicesFollowHistory ==
    /\ in_x = sent % BUFFER_SIZE
    /\ out_x = Len(got) % BUFFER_SIZE

\* app501 always returns: all its threads end and are joined, although the
\* subscribers ask for more items than the publisher delivers.
Returns == running ~> ~running

\* Nothing has happened yet that makes the ring of app501 more than a queue: no
\* wait of the first invocation timed out and there was no second one.
Undisturbed == runs <= 1 /\ pubTimeouts = 0 /\ subTimeouts = 0

\* What the cells from out_x to in_x hold, in the order they will be read.
Unread == [i \in 1 .. sent - Len(got) |-> buffer[(Len(got) + i - 1) % BUFFER_SIZE]]

Queue == INSTANCE BoundedQueue WITH
    Capacity <- BUFFER_SIZE,
    queue    <- IF Undisturbed THEN Unread ELSE <<>>,
    taken    <- IF Undisturbed THEN got ELSE <<>>,
    broken   <- ~Undisturbed

\* The ring, its two indices, the two semaphores and the mutex of app501 together
\* implement a queue of BUFFER_SIZE items, up to the first wait that times out:
\* what lies in buffer_501 between the indices is the queue's content, a store is
\* a Put, a fetch a Get, and everything else leaves the queue alone.
ImplementsQueue == Queue!Spec

-----------------------------------------------------------------------------
(* The inductive invariant behind BoundedDrift and FifoUntilTimeout.       *)

\* A semaphore in order: with waiters its count is minus their number.
SemOK(s) ==
    /\ IsFiniteSet(s.waiters)
    /\ s.waiters = {} => s.count >= 0
    /\ s.waiters # {} => s.count = 0 - Cardinality(s.waiters)

\* Who has passed the wait and not yet used the ring, and who has used it and
\* not yet posted.
PubStoring == IF pc[Pub] \in {"acquire", "locked"} THEN 1 ELSE 0
PubStored  == IF pc[Pub] = "post" THEN 1 ELSE 0
Fetching   == {t \in Subs : pc[t] \in {"acquire", "locked"}}
Fetched    == {t \in Subs : pc[t] = "post"}

LockHeld == \A t \in Threads : pc[t] = "locked" <=> pipe_lock = t

WaitersBlocked ==
    /\ empty_sem.waiters = {t \in {Pub} : pc[t] = "blocked"}
    /\ full_sem.waiters = {t \in Subs : pc[t] = "blocked"}

IdleMeansDone == ~running => \A t \in Threads : pc[t] = "done"

NothingBeforeFirstRun ==
    runs = 0 => /\ ~running /\ sent = 0 /\ got = <<>>
                /\ pubTimeouts = 0 /\ subTimeouts = 0

\* Every stored item is a permit of full_sem or in somebody's hands, every free
\* slot one of empty_sem, except for the permits the timeouts conjured up.
PermitsAccounted ==
    running =>
        /\ Permits(full_sem) + Cardinality(Fetching) + PubStored
              = Filled + subTimeouts
        /\ Permits(empty_sem) + Cardinality(Fetched) + PubStoring
              = BUFFER_SIZE - Filled + pubTimeouts

\* The unread items lie in the ring, each at its own place.
UnreadInPlace ==
    Undisturbed =>
        /\ lead = 0
        /\ \A k \in Len(got) .. sent - 1 : buffer[k % BUFFER_SIZE] = k + 1

IndInv ==
    /\ TypeOK
    /\ SemOK(empty_sem) /\ SemOK(full_sem)
    /\ LockHeld
    /\ WaitersBlocked
    /\ IdleMeansDone
    /\ NothingBeforeFirstRun
    /\ PermitsAccounted
    /\ BoundedDrift
    /\ IndicesFollowHistory
    /\ UnreadInPlace
    /\ FifoUntilTimeout

=============================================================================
