------------------------------- MODULE Fibon -------------------------------
(***************************************************************************)
(* The console command fibon (pus/test/app/fibon.c): a tree of threads, one*)
(* for each call of the naive recursion, that enter the numbers they find  *)
(* into the shared table fib_seri without a lock and ask for a snapshot    *)
(* (raft_sender "savevm") for each number they enter, which waits until the*)
(* network is configured.                                                  *)
(*                                                                         *)
(* A call is the path that leads to it from the root: 1 for the thread of  *)
(* n - 1, 2 for that of n - 2.  A thread whose argument is 0 or 1 returns  *)
(* it at once, which is one step with its creation.                        *)
(***************************************************************************)
EXTENDS Integers, Sequences, FiniteSets

CONSTANTS
    FibArg,         \* the argument of the command
    FibSlots,       \* entries of fib_seri (20)
    MaxRefusals     \* bound: threads that cannot be created

\* Up to 46 the number fits the int it is returned in; the tree of 47 has more
\* calls than a node has memory for.
ASSUME FibAssumption == FibArg \in 0 .. 46 /\ FibSlots \in Nat /\ MaxRefusals \in Nat

FibPaths == UNION {[1 .. k -> {1, 2}] : k \in 0 .. FibArg}

\* The argument of the call at path p: one less for each step, two less for a 2.
CallArg(p) == FibArg - Len(p) - Cardinality({i \in DOMAIN p : p[i] = 2})

\* The calls that start threads of their own.
Calls == {p \in FibPaths : CallArg(p) >= 2}

Root == <<>>

VARIABLES
    fibPc,      \* where each call is
    fibRet,     \* what it returns: retcode0 + retcode1
    fibAt,      \* the entry of fib_seri it looks at
    fib_seri,
    missed,     \* history: a call's number was entered between its two looks at an entry
    saved,      \* history: numbers this invocation has asked a snapshot for
    refusals,   \* threads that could not be created
    configured  \* minip_is_configured()

fibVars == <<fibPc, fibRet, fibAt, fib_seri, missed, saved, refusals, configured>>

FibInit ==
    /\ fibPc = [c \in Calls |-> "none"]
    /\ fibRet = [c \in Calls |-> 0]
    /\ fibAt = [c \in Calls |-> 1]
    /\ fib_seri = [i \in 1 .. FibSlots |-> 0]
    /\ missed = FALSE
    /\ saved = {}
    /\ refusals = 0
    /\ configured = FALSE

\* The node gets its address, if it ever does.
Configure ==
    /\ ~configured
    /\ configured' = TRUE
    /\ UNCHANGED <<fibPc, fibRet, fibAt, fib_seri, missed, saved, refusals>>

\* fibon clears the table and starts the root.
FibStart ==
    /\ fibPc = [c \in Calls |-> "none"]
    /\ fib_seri' = [i \in 1 .. FibSlots |-> 0]
    /\ fibPc' = [c \in Calls |-> IF c = Root THEN "fork" ELSE "none"]
    /\ missed' = FALSE
    /\ saved' = {}
    /\ UNCHANGED <<fibRet, fibAt, refusals, configured>>

Child(c, k) == Append(c, k)
Children(c) == {Child(c, k) : k \in {1, 2}} \cap Calls

\* Has the k-th thread of c returned, and what?
Returned(c, k) == Child(c, k) \in Calls => fibPc[Child(c, k)] = "done"
Retcode(c, k) ==
    IF Child(c, k) \in Calls THEN fibRet[Child(c, k)] ELSE CallArg(c) - k

\* Both threads are created and resumed.
Fork(c) ==
    /\ fibPc[c] = "fork"
    /\ fibPc' = [d \in Calls |-> IF d = c THEN "join"
                                 ELSE IF d \in Children(c) THEN "fork" ELSE fibPc[d]]
    /\ UNCHANGED <<fibRet, fibAt, fib_seri, missed, saved, refusals, configured>>

\* The first thread cannot be created: the call returns 0.
ForkRefused(c) ==
    /\ fibPc[c] = "fork"
    /\ refusals < MaxRefusals
    /\ refusals' = refusals + 1
    /\ fibPc' = [fibPc EXCEPT ![c] = "done"]
    /\ UNCHANGED <<fibRet, fibAt, fib_seri, missed, saved, configured>>

\* The second one cannot: the first is resumed, to be waited for.
ForkHalf(c) ==
    /\ fibPc[c] = "fork"
    /\ refusals < MaxRefusals
    /\ refusals' = refusals + 1
    /\ fibPc' = [d \in Calls |-> IF d = c THEN "joinOne"
                                 ELSE IF d = Child(c, 1) THEN "fork" ELSE fibPc[d]]
    /\ UNCHANGED <<fibRet, fibAt, fib_seri, missed, saved, configured>>

\* The one thread has returned: the call returns 0.
JoinOne(c) ==
    /\ fibPc[c] = "joinOne"
    /\ Returned(c, 1)
    /\ fibPc' = [fibPc EXCEPT ![c] = "done"]
    /\ UNCHANGED <<fibRet, fibAt, fib_seri, missed, saved, refusals, configured>>

\* Mistake: only the second thread is waited for.
JoinSecond(c) ==
    /\ fibPc[c] = "join"
    /\ Returned(c, 2)
    /\ fibRet' = [fibRet EXCEPT ![c] = Retcode(c, 1) + Retcode(c, 2)]
    /\ fibPc' = [fibPc EXCEPT ![c] = "scan"]
    /\ UNCHANGED <<fibAt, fib_seri, missed, saved, refusals, configured>>

\* Both threads have returned, and the call has slept for a second.
JoinBoth(c) ==
    /\ fibPc[c] = "join"
    /\ Returned(c, 1) /\ Returned(c, 2)
    /\ fibRet' = [fibRet EXCEPT ![c] = Retcode(c, 1) + Retcode(c, 2)]
    /\ fibPc' = [fibPc EXCEPT ![c] = "scan"]
    /\ UNCHANGED <<fibAt, fib_seri, missed, saved, refusals, configured>>

\* The number is in the table, or the table has no entry left: the call returns.
Known(c) ==
    /\ fibPc[c] = "scan"
    /\ fibAt[c] <= FibSlots => fib_seri[fibAt[c]] = fibRet[c]
    /\ fibPc' = [fibPc EXCEPT ![c] = "done"]
    /\ UNCHANGED <<fibRet, fibAt, fib_seri, missed, saved, refusals, configured>>

\* The entry is not the number.  The next line looks at it again: whatever another
\* thread has entered in between counts.
Differs(c) ==
    /\ fibPc[c] = "scan"
    /\ fibAt[c] <= FibSlots /\ fib_seri[fibAt[c]] # fibRet[c]
    /\ fibPc' = [fibPc EXCEPT ![c] = "look"]
    /\ UNCHANGED <<fibRet, fibAt, fib_seri, missed, saved, refusals, configured>>

\* The entry is free.  The condition reads it twice; each outcome of the two reads is
\* that of one of them.
Free(c) == fib_seri[fibAt[c]] = 0 /\ fibRet[c] # 0

\* The entry is taken, perhaps by the number itself by now.
Skip(c) ==
    /\ fibPc[c] = "look"
    /\ ~Free(c)
    /\ missed' = (missed \/ fib_seri[fibAt[c]] = fibRet[c])
    /\ fibAt' = [fibAt EXCEPT ![c] = @ + 1]
    /\ fibPc' = [fibPc EXCEPT ![c] = "scan"]
    /\ UNCHANGED <<fibRet, fib_seri, saved, refusals, configured>>

Claim(c) ==
    /\ fibPc[c] = "look"
    /\ Free(c)
    /\ fibPc' = [fibPc EXCEPT ![c] = "store"]
    /\ UNCHANGED <<fibRet, fibAt, fib_seri, missed, saved, refusals, configured>>

\* The number is entered.
Store(c) ==
    /\ fibPc[c] = "store"
    /\ fib_seri' = [fib_seri EXCEPT ![fibAt[c]] = fibRet[c]]
    /\ fibPc' = [fibPc EXCEPT ![c] = "send"]
    /\ UNCHANGED <<fibRet, fibAt, missed, saved, refusals, configured>>

\* raft_sender("savevm"): it sleeps until the network is configured, for ever if
\* need be, and sends; the call returns.
Send(c) ==
    /\ fibPc[c] = "send"
    /\ configured
    /\ saved' = saved \cup {fibRet[c]}
    /\ fibPc' = [fibPc EXCEPT ![c] = "done"]
    /\ UNCHANGED <<fibRet, fibAt, fib_seri, missed, refusals, configured>>

FibStep(c) ==
    \/ Fork(c) \/ ForkRefused(c) \/ ForkHalf(c) \/ JoinOne(c) \/ JoinBoth(c)
    \/ Known(c) \/ Differs(c) \/ Skip(c) \/ Claim(c) \/ Store(c) \/ Send(c)

\* The root has been joined: fibon returns.
FibEnd ==
    /\ Root \in Calls => fibPc[Root] = "done"
    /\ fibPc' = [c \in Calls |-> "none"]
    /\ fibRet' = [c \in Calls |-> 0]
    /\ fibAt' = [c \in Calls |-> 1]
    /\ UNCHANGED <<fib_seri, missed, saved, refusals, configured>>

-----------------------------------------------------------------------------
(* Properties.                                                             *)

FibTypeOK ==
    /\ fibPc \in [Calls -> {"none", "fork", "join", "joinOne", "scan", "look", "store", "send",
                        "done"}]
    /\ fibRet \in [Calls -> Nat]
    /\ fibAt \in [Calls -> 1 .. FibSlots + 1]
    /\ fib_seri \in [1 .. FibSlots -> Nat]
    /\ missed \in BOOLEAN
    /\ saved \subseteq Nat
    /\ refusals \in 0 .. MaxRefusals
    /\ configured \in BOOLEAN

\* The Fibonacci numbers from the second 1 on.
Series[i \in Nat] == IF i <= 1 THEN 1 ELSE Series[i - 1] + Series[i - 2]

\* The numbers up to that of the root.
Found == {Series[i] : i \in 1 .. FibArg - 1}

(***************************************************************************)
(* Although no thread of the tree takes a lock, the table fills from its   *)
(* beginning with numbers of the series and never has a gap, the root      *)
(* returns the Fibonacci number of its argument, and when it does, each    *)
(* entry has had its snapshot.  As long as no call's number was entered    *)
(* between its two looks at the entry, the table holds the series in order *)
(* and without a number twice at every moment, complete as far as it goes  *)
(* when the root returns: a number is found only after all smaller ones    *)
(* have been entered, and two threads that claim one entry bring the same  *)
(* number.  Only a thread that could not be created makes it otherwise.    *)
(***************************************************************************)
SeriesInOrder ==
    refusals = 0 =>
        /\ \A i \in 1 .. FibSlots :
            fib_seri[i] # 0 =>
                /\ fib_seri[i] \in Found
                /\ \A j \in 1 .. i : fib_seri[j] # 0
                /\ ~missed => fib_seri[i] = Series[i]
        /\ (FibArg >= 2 /\ fibPc[Root] = "done") =>
            /\ fibRet[Root] = Series[FibArg - 1]
            /\ \A i \in 1 .. FibSlots :
                /\ i <= FibArg - 1 /\ ~missed => fib_seri[i] = Series[i]
                /\ fib_seri[i] # 0 => fib_seri[i] \in saved
=============================================================================
