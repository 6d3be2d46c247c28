------------------------------- MODULE App600 -------------------------------
(***************************************************************************)
(* The sensor commands app600 to app603 (pus/exp/app600) and the pair      *)
(* hello and hellox (pus/test/eventer): everything that evaluates mu       *)
(* scripts in scope_600.                                                   *)
(*                                                                         *)
(* app600 and app602 create the scope if there is none, initialise the     *)
(* mutex, make their table (temp, humidity), listen and ask the sensor; the*)
(* network thread stores each answer in the table; app601 and app603 print *)
(* what was stored.  Commands come from the console and, through cmdserver,*)
(* from other threads.  hello waits for an event and prints what hellox has*)
(* left in the scope; these two take no lock, so that they may be inside   *)
(* the interpreter, whose data nothing protects, together with another     *)
(* thread.  Those who evaluate in other scopes are RaftServer's.           *)
(*                                                                         *)
(* The mutex is the kernel's: a count of those who hold or want it and a   *)
(* queue, both forgotten when it is initialised again.  A debug build of   *)
(* the kernel panics on a mutex that was never initialised and on a        *)
(* release by a thread that does not hold it.  A script that fails jumps   *)
(* to mu_error_jmp, which none of these callers has set.                   *)
(***************************************************************************)
EXTENDS Integers, FiniteSets

CONSTANTS
    Cmds,           \* threads that run commands: the console's, cmdserver's
    Net,            \* the network thread, which runs the callbacks
    Hxs,            \* threads that run hellox, once each
    NoThread,
    MaxUses         \* bound: commands and hellox begun, answers received

ASSUME ThreadsAssumption ==
    /\ IsFiniteSet(Cmds) /\ IsFiniteSet(Hxs)
    /\ Cmds \cap Hxs = {} /\ Net \notin Cmds \cup Hxs
    /\ NoThread \notin Cmds \cup Hxs \cup {Net}
ASSUME MaxUsesAssumption == MaxUses \in Nat

Users == Cmds \cup {Net}

VARIABLES
    debug,      \* is the kernel a debug build?
    node,       \* "up", "panic", "overrun", or "lost" after a jump to nowhere
    pc,         \* where each thread is
    cmd,        \* what each user of the lock is doing
    uses,       \* how much has been begun
    scope,      \* has scope_600 been created?
    names,      \* what it defines, of temp, humidity and hellox's data
    listening,  \* the tables whose callback is registered
    negative,   \* is the value in the answer being handled below zero?
    inited,     \* has mu_lock_600 ever been initialised?
    count,      \* mu_lock_600: those who hold it or wait for it
    holder,
    queue,      \* mu_lock_600: those it will wake
    torn,       \* history: was it initialised while in use?
    wiped,      \* history: was scope_600 created over an existing one?
    mixed,      \* history: have two threads met inside the interpreter?
    signaled,   \* e_hello.signaled
    hello,      \* where hello is
    seen,       \* history: the hellox threads whose signal hello has acted on
    crowded     \* history: those that had signalled beside another one

lock == <<inited, count, holder, queue, torn>>
tables == <<scope, names, wiped, mixed>>
answers == <<listening, negative>>
event == <<signaled, hello, seen, crowded>>
vars == <<debug, node, pc, cmd, uses, tables, answers, lock, event>>

Threads == Users \cup Hxs

Init ==
    /\ debug \in BOOLEAN
    /\ node = "up"
    /\ pc = [t \in Threads |-> "idle"]
    /\ cmd = [t \in Users |-> "none"]
    /\ uses = 0
    /\ scope = FALSE
    /\ names = {}
    /\ wiped = FALSE
    /\ mixed = FALSE
    /\ listening = {}
    /\ negative = FALSE
    /\ inited = FALSE
    /\ count = 0
    /\ holder = NoThread
    /\ queue = {}
    /\ torn = FALSE
    /\ signaled = FALSE
    /\ hello = "wait"
    /\ seen = {}
    /\ crowded = {}

Goto(t, l) == pc' = [pc EXCEPT ![t] = l]

Begin == uses < MaxUses /\ uses' = uses + 1

\* The table a command or a callback works on.
Table(k) == IF k \in {"app602", "handle_humidity_resp"} THEN "humidity" ELSE "temp"

\* The commands that make their table and ask the sensor.
Asking == {"app600", "app602"}

-----------------------------------------------------------------------------
(* Commands and answers.                                                   *)

\* A command is entered.  app600 and app602 begin with the scope, app601 and
\* app603 with the lock.
Enter(t, k) ==
    /\ t \in Cmds
    /\ pc[t] = "idle"
    /\ Begin
    /\ cmd' = [cmd EXCEPT ![t] = k]
    /\ Goto(t, IF k \in Asking THEN "check" ELSE "acquire")
    /\ UNCHANGED <<debug, node, tables, answers, lock, event>>

\* An answer of the sensor arrives, with a payload the callback accepts and a value
\* below zero or not.
Answer(k, n) ==
    /\ pc[Net] = "idle"
    /\ Table(k) \in listening
    /\ Begin
    /\ cmd' = [cmd EXCEPT ![Net] = k]
    /\ negative' = n
    /\ Goto(Net, "acquire")
    /\ UNCHANGED <<debug, node, tables, listening, lock, event>>

\* hellox is started.
EnterHellox(x) ==
    /\ x \in Hxs
    /\ pc[x] = "idle"
    /\ Begin
    /\ Goto(x, "check")
    /\ UNCHANGED <<debug, node, cmd, tables, answers, lock, event>>

\* Where a thread goes once there is a scope.
AfterScope(t) == IF t \in Hxs THEN "let" ELSE "init"

\* if (mu_isnil(scope_600))
CheckScope(t) ==
    /\ pc[t] = "check"
    /\ Goto(t, IF scope THEN AfterScope(t) ELSE "create")
    /\ UNCHANGED <<debug, node, cmd, uses, tables, answers, lock, event>>

\* scope_600 = mu_tbl_extend(0, MU_BUILTINS): an empty scope, also if somebody
\* else has made one since.
CreateScope(t) ==
    /\ pc[t] = "create"
    /\ scope' = TRUE
    /\ names' = {}
    /\ wiped' = (wiped \/ scope)
    /\ Goto(t, AfterScope(t))
    /\ UNCHANGED <<debug, node, cmd, uses, mixed, answers, lock, event>>

\* Mistake: the callback is registered before the table is made.
ListenFirst(t) ==
    /\ pc[t] = "init"
    /\ inited' = TRUE
    /\ count' = 0
    /\ holder' = NoThread
    /\ queue' = {}
    /\ torn' = (torn \/ count # 0)
    /\ listening' = listening \cup {Table(cmd[t])}
    /\ Goto(t, "acquire")
    /\ UNCHANGED <<debug, node, cmd, uses, tables, negative, event>>

\* mutex_init(&mu_lock_600)
InitLock(t) ==
    /\ pc[t] = "init"
    /\ inited' = TRUE
    /\ count' = 0
    /\ holder' = NoThread
    /\ queue' = {}
    /\ torn' = (torn \/ count # 0)
    /\ Goto(t, "acquire")
    /\ UNCHANGED <<debug, node, cmd, uses, tables, answers, event>>

\* Mistake: two are let in.
MustWaitAsThird(c) == c > 2

\* Is the mutex taken, the caller being counted as the c-th?
MustWait(c) == c > 1

\* mutex_acquire(&mu_lock_600), of a mutex the kernel accepts
Acquire(t) ==
    /\ pc[t] = "acquire"
    /\ inited \/ ~debug
    /\ count' = count + 1
    /\ IF MustWait(count')
       THEN Goto(t, "wait") /\ queue' = queue \cup {t} /\ UNCHANGED holder
       ELSE Goto(t, "eval") /\ holder' = t /\ UNCHANGED queue
    /\ UNCHANGED <<debug, node, cmd, uses, tables, answers, inited, torn, event>>

\* The debug build finds that the mutex was never initialised.
AcquirePanics(t) ==
    /\ pc[t] = "acquire"
    /\ debug /\ ~inited
    /\ node' = "panic"
    /\ UNCHANGED <<debug, pc, cmd, uses, tables, answers, lock, event>>

\* Can thread t's script be evaluated?  mu_eval needs a scope; every script but
\* the ones that make a table needs the table; and a callback prints its value
\* right behind the "=", where mu reads "=-" as one operator, which is not defined.
Evaluable(t) ==
    /\ scope
    /\ cmd[t] \in Asking \/ Table(cmd[t]) \in names
    /\ ~(t = Net /\ negative)

\* mu_eval comes back
EvalEnds(t) ==
    /\ pc[t] = "eval"
    /\ Evaluable(t)
    /\ names' = names \cup {Table(cmd[t])}
    /\ Goto(t, "release")
    /\ UNCHANGED <<debug, node, cmd, uses, scope, wiped, mixed, answers, lock, event>>

\* mu_eval fails: mu_sys_error jumps to nowhere.
EvalFails(t) ==
    /\ pc[t] = "eval"
    /\ ~Evaluable(t)
    /\ node' = "lost"
    /\ UNCHANGED <<debug, pc, cmd, uses, tables, answers, lock, event>>

\* The callback's script may be longer than its char cmd[16]: what sprintf
\* overwrites then need not leave the node up.
AnswerOverruns(t) ==
    /\ pc[t] = "eval"
    /\ t = Net
    /\ node' = "overrun"
    /\ UNCHANGED <<debug, pc, cmd, uses, tables, answers, lock, event>>

\* A command that asks the sensor goes on to listen; the others are done.
AfterRelease(t) == IF cmd[t] \in Asking THEN "listen" ELSE "idle"

\* Mistake: nobody is woken.
ReleaseWakesNobody(t) ==
    /\ pc[t] = "release"
    /\ count' = count - 1
    /\ holder' = NoThread
    /\ Goto(t, AfterRelease(t))
    /\ UNCHANGED <<debug, node, cmd, uses, tables, answers, inited, queue, torn, event>>

\* mutex_release(&mu_lock_600)
Release(t) ==
    /\ pc[t] = "release"
    /\ debug => holder = t
    /\ count' = count - 1
    /\ IF count' >= 1 /\ queue # {}
       THEN \E u \in queue :
                /\ holder' = u
                /\ queue' = queue \ {u}
                /\ pc' = [pc EXCEPT ![t] = AfterRelease(t), ![u] = "eval"]
       ELSE /\ holder' = NoThread
            /\ Goto(t, AfterRelease(t))
            /\ UNCHANGED queue
    /\ UNCHANGED <<debug, node, cmd, uses, tables, answers, inited, torn, event>>

\* The debug build finds that the mutex is not the caller's.
ReleasePanics(t) ==
    /\ pc[t] = "release"
    /\ debug /\ holder # t
    /\ node' = "panic"
    /\ UNCHANGED <<debug, pc, cmd, uses, tables, answers, lock, event>>

\* udp_listen, udp_open and the requests to the sensor
Ask(t) ==
    /\ pc[t] = "listen"
    /\ listening' = listening \cup {Table(cmd[t])}
    /\ Goto(t, "idle")
    /\ UNCHANGED <<debug, node, cmd, uses, tables, negative, lock, event>>

-----------------------------------------------------------------------------
(* The event.                                                              *)

\* Those who have signalled and wait for hello.
Signalling == {x \in Hxs : pc[x] = "spin"}

\* hellox evaluates "let data=..." and signals the event.
Signal(x) ==
    /\ pc[x] = "let"
    /\ names' = names \cup {"data"}
    /\ signaled' = TRUE
    /\ crowded' = IF Signalling = {} THEN crowded ELSE crowded \cup Signalling \cup {x}
    /\ Goto(x, "spin")
    /\ UNCHANGED <<debug, node, cmd, uses, scope, wiped, mixed, answers, lock, hello, seen>>

\* while (e_hello.signaled) is over.
HelloxReturns(x) ==
    /\ pc[x] = "spin"
    /\ ~signaled
    /\ Goto(x, "done")
    /\ UNCHANGED <<debug, node, cmd, uses, tables, answers, lock, event>>

HelloUnchanged == UNCHANGED <<debug, pc, cmd, uses, tables, answers, lock, crowded>>

\* event_wait_timeout gives up after four seconds and hello sleeps for three.
HelloTimesOut ==
    /\ hello = "wait"
    /\ ~signaled
    /\ hello' = "sleep"
    /\ UNCHANGED <<node, signaled, seen>> /\ HelloUnchanged

HelloWakes ==
    /\ hello = "sleep"
    /\ hello' = "wait"
    /\ UNCHANGED <<node, signaled, seen>> /\ HelloUnchanged

\* Mistake: the event is withdrawn before it is acted on.
HelloUnsignalsFirst ==
    /\ hello = "wait"
    /\ signaled
    /\ signaled' = FALSE
    /\ hello' = "eval"
    /\ UNCHANGED <<node, seen>> /\ HelloUnchanged

\* event_wait_timeout finds the event signalled; hello sleeps five milliseconds.
HelloWoken ==
    /\ hello = "wait"
    /\ signaled
    /\ hello' = "eval"
    /\ UNCHANGED <<node, signaled, seen>> /\ HelloUnchanged

\* hello evaluates "print(data.value)", which fails if data is gone.
HelloEval ==
    /\ hello = "eval"
    /\ node' = IF "data" \in names THEN "up" ELSE "lost"
    /\ seen' = seen \cup Signalling
    /\ hello' = "unsignal"
    /\ UNCHANGED signaled /\ HelloUnchanged

\* Mistake: hello goes back to wait without withdrawing the event.
HelloForgetsUnsignal ==
    /\ hello = "unsignal"
    /\ hello' = "wait"
    /\ UNCHANGED <<node, signaled, seen>> /\ HelloUnchanged

\* event_unsignal(&e_hello)
HelloUnsignals ==
    /\ hello = "unsignal"
    /\ signaled' = FALSE
    /\ hello' = "wait"
    /\ UNCHANGED <<node, seen>> /\ HelloUnchanged

HelloStep == HelloTimesOut \/ HelloWakes \/ HelloWoken \/ HelloEval \/ HelloUnsignals

-----------------------------------------------------------------------------

\* The threads inside the interpreter, hello aside.
Inside == {t \in Threads : pc[t] \in {"create", "eval", "let"}}

\* Two threads meet inside the interpreter.
Meet ==
    /\ ~mixed
    /\ \E t \in Inside : hello = "eval" \/ Inside # {t}
    /\ mixed' = TRUE
    /\ UNCHANGED <<debug, node, pc, cmd, uses, scope, names, wiped, answers, lock, event>>

\* What they left behind makes a script fail that is in order.
Derail ==
    /\ mixed
    /\ hello = "eval" \/ Inside # {}
    /\ node' = "lost"
    /\ UNCHANGED <<debug, pc, cmd, uses, tables, answers, lock, event>>

UserStep(t) ==
    \/ CheckScope(t) \/ CreateScope(t) \/ InitLock(t) \/ Acquire(t) \/ AcquirePanics(t)
    \/ EvalEnds(t) \/ EvalFails(t) \/ AnswerOverruns(t) \/ Release(t) \/ ReleasePanics(t) \/ Ask(t)

HelloxStep(x) == CheckScope(x) \/ CreateScope(x) \/ Signal(x) \/ HelloxReturns(x)

Next ==
    /\ node = "up"
    /\ \/ \E t \in Cmds, k \in {"app600", "app601", "app602", "app603"} : Enter(t, k)
       \/ \E k \in {"handle_temp_resp", "handle_humidity_resp"}, n \in BOOLEAN : Answer(k, n)
       \/ \E x \in Hxs : EnterHellox(x)
       \/ \E t \in Users : UserStep(t)
       \/ \E x \in Hxs : HelloxStep(x)
       \/ HelloStep
       \/ Meet
       \/ Derail

(* The kernel runs every thread in turn, the spinning hellox among them; when *)
(* commands are entered and answers arrive is up to others.                   *)
Fairness ==
    /\ \A t \in Users : WF_vars(node = "up" /\ UserStep(t))
    /\ \A x \in Hxs : WF_vars(node = "up" /\ HelloxStep(x))
    /\ WF_vars(node = "up" /\ HelloStep)

Spec == Init /\ [][Next]_vars /\ Fairness

-----------------------------------------------------------------------------
(* Properties.                                                             *)

\* Every variable has its type.
TypeOK ==
    /\ debug \in BOOLEAN
    /\ node \in {"up", "panic", "lost", "overrun"}
    /\ pc \in [Threads -> {"idle", "check", "create", "init", "acquire", "wait", "eval",
                            "release", "listen", "let", "spin", "done"}]
    /\ \A t \in Users : pc[t] \in {"idle", "check", "create", "init", "acquire", "wait",
                                   "eval", "release", "listen"}
    /\ \A x \in Hxs : pc[x] \in {"idle", "check", "create", "let", "spin", "done"}
    /\ cmd \in [Users -> {"none", "app600", "app601", "app602", "app603",
                             "handle_temp_resp", "handle_humidity_resp"}]
    /\ uses \in Nat
    /\ scope \in BOOLEAN
    /\ names \subseteq {"temp", "humidity", "data"}
    /\ listening \subseteq {"temp", "humidity"}
    /\ inited \in BOOLEAN
    /\ count \in Int
    /\ holder \in Users \cup {NoThread}
    /\ queue \subseteq Users
    /\ torn \in BOOLEAN
    /\ wiped \in BOOLEAN
    /\ mixed \in BOOLEAN
    /\ negative \in BOOLEAN
    /\ signaled \in BOOLEAN
    /\ hello \in {"wait", "sleep", "eval", "unsignal"}
    /\ seen \subseteq Hxs
    /\ crowded \subseteq Hxs

(***************************************************************************)
(* Scripts under mu_lock_600 exclude each other, in every order of         *)
(* commands and answers, until some app600 or app602 initialises the lock  *)
(* while another thread holds it.                                          *)
(***************************************************************************)
ExclusiveUntilTorn ==
    ~torn => \A t, u \in Users : pc[t] = "eval" /\ pc[u] = "eval" => t = u

(***************************************************************************)
(* What brings the node down.  A script fails only where a reader came     *)
(* before app600 had made its table, where a sensor reported a value below *)
(* zero, where two first commands each created the scope and the second    *)
(* threw away the tables of the first, or where two threads have met inside*)
(* the interpreter: a callback and hello always find theirs otherwise.  The*)
(* kernel panics only where the lock was never initialised, or was while   *)
(* in use.                                                                 *)
(***************************************************************************)
DownHasCause ==
    /\ node = "lost" =>
         \/ wiped
         \/ mixed
         \/ pc[Net] = "eval" /\ negative
         \/ \E t \in Cmds : pc[t] = "eval" /\ cmd[t] \in {"app601", "app603"} /\ "temp" \notin names
    /\ node = "panic" => torn \/ ~inited

(***************************************************************************)
(* The network thread always gets through its callback and back to the     *)
(* other packets, unless the lock is torn, threads have met inside the     *)
(* interpreter or the node goes down.                                      *)
(***************************************************************************)
NetworkComesBack ==
    (pc[Net] # "idle") ~> (pc[Net] = "idle" \/ torn \/ mixed \/ node # "up")

(***************************************************************************)
(* hellox returns only when hello has acted on its signal, unless another  *)
(* hellox was signalling at the same time: then hello may have looked      *)
(* before the second signal and withdrawn both after it.                   *)
(***************************************************************************)
SeenUnlessCrowded == \A x \in Hxs : pc[x] = "done" => x \in seen \cup crowded

\* hellox does not spin for ever: hello wakes from its sleep, finds the event
\* and withdraws it, unless threads have met inside the interpreter.
HelloxComesBack ==
    \A x \in Hxs : (pc[x] = "spin") ~> (pc[x] = "done" \/ mixed \/ node # "up")
=============================================================================
