------------------------------ MODULE Recovery ------------------------------
(***************************************************************************)
(* Crash detection and snapshot recovery: the controller on the host       *)
(* (tools/controller.py), the QMP commands it runs (tools/recovery.py) and *)
(* the nodes' heartbeat threads (pus/exp/raft1/raft_test.c).               *)
(*                                                                         *)
(* A node sends datagrams while it is up: a heartbeat every 1.2 s, and a   *)
(* "savevm" entry when the application asks for a snapshot.  The           *)
(* controller has two threads that share three dictionaries without a      *)
(* lock: the datagram handler and hb_checker.  Each read and each write of *)
(* the dictionaries whose value is used later, and each QMP command, is a  *)
(* step of its own.                                                        *)
(*                                                                         *)
(* A machine is abstracted to whether its kernel still runs ("up") or has  *)
(* halted ("crashed": the guest spins, QEMU still answers); its one        *)
(* snapshot, state101, to the same, or "none".  Timestamps are kept as     *)
(* ages in ticks, capped at MaxAge, and the thresholds are constants in    *)
(* the order they have in the code.  Nothing bounds how long a step takes, *)
(* so the clock may tick between any two of them; the pause between two    *)
(* peers takes its three seconds at least.                                 *)
(***************************************************************************)
EXTENDS Integers, FiniteSets

CONSTANTS
    Nodes,
    HbWait,         \* hb_wait: a heartbeat younger than this is fresh (1.2 s)
    HbWaitSaved,    \* the same after a "savevm" entry (2 s)
    LoadWait,       \* load_wait: silence after which a snapshot is loaded (6 s)
    LoadWaitSaved,  \* the same after the checker saved (7 s)
    Backoff,        \* factor of the silence added after a load (8)
    Pause,          \* what hb_checker sleeps between two peers (3 s)
    ResetWait,      \* silence after which the machine is also reset (250 s)
    MaxAge,         \* bound: ages stop growing here
    MaxCrashes,     \* bound: how many crashes a behaviour has
    Kinds,          \* what the nodes send: "heartbeat" and perhaps "savevm"
    QmpMayFail,     \* may a QMP command fail to reach its machine?
    None            \* no node

ASSUME ThresholdsAssumption ==
    /\ {HbWait, HbWaitSaved, LoadWait, LoadWaitSaved, Backoff, Pause, ResetWait,
       MaxAge}
         \subseteq Nat \ {0}
    /\ HbWait <= HbWaitSaved
    /\ HbWaitSaved <= LoadWait
    /\ HbWaitSaved <= Pause /\ Pause <= LoadWait
    /\ LoadWait <= LoadWaitSaved
    /\ LoadWaitSaved <= ResetWait
    /\ ResetWait < MaxAge
ASSUME CrashesAssumption == MaxCrashes \in Nat
ASSUME QmpAssumption == QmpMayFail \in BOOLEAN
ASSUME NoneAssumption == None \notin Nodes
ASSUME KindsAssumption == Kinds \subseteq {"heartbeat", "savevm"}

VARIABLES
    vm,         \* each machine: "up" or "crashed"
    snapshot,   \* its snapshot state101: "none", "up" or "crashed"
    saved,      \* history: the nodes of which a running kernel was ever saved
    net,        \* datagrams on their way to the controller
    peers,      \* the nodes heard of: the keys of peers
    age,        \* now - peers[n]
    peers_load, \* 0: no such key
    peers_hb,   \* 0: no such key
    handler,    \* the datagram handler: [pc, node]
    checker,    \* hb_checker: [pc, node, diff, sum, rest, todo]
    crashes     \* crashes so far

vars == <<vm, snapshot, saved, net, peers, age, peers_load, peers_hb, handler, checker, crashes>>

machines == <<vm, snapshot, saved, crashes>>
tables == <<peers, age, peers_load, peers_hb>>

Min(a, b) == IF a < b THEN a ELSE b

Init ==
    /\ vm = [n \in Nodes |-> "up"]
    /\ snapshot = [n \in Nodes |-> "none"]
    /\ saved = {}
    /\ net = {}
    /\ peers = {}
    /\ age = [n \in Nodes |-> 0]
    /\ peers_load = [n \in Nodes |-> 0]
    /\ peers_hb = [n \in Nodes |-> 0]
    /\ handler = [pc |-> "recv", node |-> None]
    /\ checker = [pc |-> "next", node |-> None, diff |-> 0, sum |-> 0, rest |-> 0,
                  todo |-> {}]
    /\ crashes = 0

-----------------------------------------------------------------------------
(* The nodes and the network.                                              *)

\* raft_worker's round, or raft_sender: one datagram leaves.  A second one of
\* the same kind that overtakes the first merges with it.
Send(n) ==
    /\ vm[n] = "up"
    /\ \E k \in Kinds : net' = net \cup {<<n, k>>}
    /\ UNCHANGED <<machines, tables, handler, checker>>

\* UDP may lose a datagram.
Lose ==
    /\ \E d \in net : net' = net \ {d}
    /\ UNCHANGED <<machines, tables, handler, checker>>

\* The kernel panics: platform_halt spins for ever, no datagram leaves any more.
Crash(n) ==
    /\ vm[n] = "up"
    /\ crashes < MaxCrashes
    /\ vm' = [vm EXCEPT ![n] = "crashed"]
    /\ crashes' = crashes + 1
    /\ UNCHANGED <<snapshot, saved, net, tables, handler, checker>>

\* Time passes on the host, and with it what is left of the checker's pause.
Tick ==
    /\ checker.rest > 0 \/ \E n \in peers : age[n] < MaxAge
    /\ checker' = [checker EXCEPT !.rest = IF @ > 0 THEN @ - 1 ELSE 0]
    /\ age' = [n \in Nodes |-> IF n \in peers THEN Min(age[n] + 1, MaxAge) ELSE age[n]]
    /\ UNCHANGED <<machines, net, peers, peers_load, peers_hb, handler>>

-----------------------------------------------------------------------------
(* recovery.py: each command works, or does not reach the machine.         *)

\* savevm state101: the one snapshot is overwritten with the machine as it is.
SaveVm(n) ==
    /\ \/ /\ snapshot' = [snapshot EXCEPT ![n] = vm[n]]
          /\ saved' = IF vm[n] = "up" THEN saved \cup {n} ELSE saved
       \/ QmpMayFail /\ UNCHANGED <<snapshot, saved>>
    /\ UNCHANGED <<vm, crashes>>

\* loadvm state101: the machine becomes what was saved, if anything was.
LoadVm(n) ==
    /\ \/ vm' = [vm EXCEPT ![n] = IF snapshot[n] = "none" THEN @ ELSE snapshot[n]]
       \/ QmpMayFail /\ UNCHANGED vm
    /\ UNCHANGED <<snapshot, saved, crashes>>

\* system_reset, then cont: the kernel boots.
ResetVm(n) ==
    /\ \/ vm' = [vm EXCEPT ![n] = "up"]
       \/ QmpMayFail /\ UNCHANGED vm
    /\ UNCHANGED <<snapshot, saved, crashes>>

-----------------------------------------------------------------------------
(* MyUDPHandler.handle: one datagram at a time.                            *)

Handle ==
    /\ handler.pc = "recv"
    /\ \E d \in net :
        /\ net' = net \ {d}
        /\ handler' = [pc |-> IF d[2] = "savevm" THEN "save" ELSE "stamp", node |-> d[1]]
    /\ UNCHANGED <<machines, tables, checker>>

HandlerSave ==
    /\ handler.pc = "save"
    /\ SaveVm(handler.node)
    /\ handler' = [handler EXCEPT !.pc = "widen"]
    /\ UNCHANGED <<net, tables, checker>>

\* peers_hb[ip] = 2
HandlerWiden ==
    /\ handler.pc = "widen"
    /\ peers_hb' = [peers_hb EXCEPT ![handler.node] = HbWaitSaved]
    /\ handler' = [handler EXCEPT !.pc = "stamp"]
    /\ UNCHANGED <<machines, net, peers, age, peers_load, checker>>

\* peers[ip] = datetime.now()
HandlerStamp ==
    /\ handler.pc = "stamp"
    /\ peers' = peers \cup {handler.node}
    /\ age' = [age EXCEPT ![handler.node] = 0]
    /\ handler' = [handler EXCEPT !.pc = "arm"]
    /\ UNCHANGED <<machines, net, peers_load, peers_hb, checker>>

\* Mistake: the threshold is left for the checker to set.
HandlerArmNot ==
    /\ handler.pc = "arm"
    /\ handler' = [pc |-> "recv", node |-> None]
    /\ UNCHANGED <<machines, net, tables, checker>>

\* peers_load[ip] = load_wait
HandlerArm ==
    /\ handler.pc = "arm"
    /\ peers_load' = [peers_load EXCEPT ![handler.node] = LoadWait]
    /\ handler' = [pc |-> "recv", node |-> None]
    /\ UNCHANGED <<machines, net, peers, age, peers_hb, checker>>

-----------------------------------------------------------------------------
(* hb_checker.  diff is read once per peer and used to the end of its round. *)

\* for p in list(peers): the list is taken when the previous one is used up.
CheckerList ==
    /\ checker.pc = "next"
    /\ checker.todo = {}
    /\ peers # {}
    /\ checker' = [checker EXCEPT !.todo = peers]
    /\ UNCHANGED <<machines, net, tables, handler>>

\* diff = datetime.now() - peers[p], for the next peer
CheckerSample ==
    /\ checker.pc = "next"
    /\ \E n \in checker.todo :
        checker' = [checker EXCEPT !.pc = "window?", !.node = n, !.diff = age[n], !.todo = @ \ {n}]
    /\ UNCHANGED <<machines, net, tables, handler>>

\* if p not in peers_hb
CheckerWindow ==
    /\ checker.pc = "window?"
    /\ checker' = [checker EXCEPT !.pc =
                     IF peers_hb[checker.node] = 0 THEN "window" ELSE "show"]
    /\ UNCHANGED <<machines, net, tables, handler>>

\* peers_hb[p] = hb_wait, which is also the 1.2 that follows a save
NarrowWindow(from, to) ==
    /\ checker.pc = from
    /\ peers_hb' = [peers_hb EXCEPT ![checker.node] = HbWait]
    /\ checker' = [checker EXCEPT !.pc = to]
    /\ UNCHANGED <<machines, net, peers, age, peers_load, handler>>

CheckerFirstWindow == NarrowWindow("window", "show")

\* The print reads the load threshold: a missing one is a KeyError, and the end of
\* the thread.
CheckerShow ==
    /\ checker.pc = "show"
    /\ checker' = [checker EXCEPT !.pc =
                     IF peers_load[checker.node] = 0 THEN "dead" ELSE "fresh?"]
    /\ UNCHANGED <<machines, net, tables, handler>>

\* Mistake: a heartbeat as old as the window is still fresh.
FreshInclusive(n, d) == d <= peers_hb[n]

\* diff < peers_hb[p]
Fresh(n, d) == d < peers_hb[n]

\* if diff < peers_hb[p]
CheckerFresh ==
    /\ checker.pc = "fresh?"
    /\ checker' = [checker EXCEPT !.pc =
                     IF Fresh(checker.node, checker.diff) THEN "save" ELSE "silent?"]
    /\ UNCHANGED <<machines, net, tables, handler>>

CheckerSave ==
    /\ checker.pc = "save"
    /\ SaveVm(checker.node)
    /\ checker' = [checker EXCEPT !.pc = "rearm"]
    /\ UNCHANGED <<net, tables, handler>>

\* peers_load[p] = 7
CheckerRearm ==
    /\ checker.pc = "rearm"
    /\ peers_load' = [peers_load EXCEPT ![checker.node] = LoadWaitSaved]
    /\ checker' = [checker EXCEPT !.pc = "narrow"]
    /\ UNCHANGED <<machines, net, peers, age, peers_hb, handler>>

CheckerNarrow == NarrowWindow("narrow", "silent?")

\* Mistake: the fresh window is tested in the place of the load threshold.
ShortSilence(n, d) == d >= peers_hb[n]

\* diff > peers_load[p]
Silent(n, d) == d > peers_load[n]

\* if diff > peers_load[p]
CheckerSilent ==
    /\ checker.pc = "silent?"
    /\ checker' = [checker EXCEPT !.pc =
                     IF Silent(checker.node, checker.diff) THEN "load" ELSE "lost?"]
    /\ UNCHANGED <<machines, net, tables, handler>>

CheckerLoad ==
    /\ checker.pc = "load"
    /\ LoadVm(checker.node)
    /\ checker' = [checker EXCEPT !.pc = "backoff"]
    /\ UNCHANGED <<net, tables, handler>>

\* peers_load[p] += diff * 8, capped where no age reaches: the old value is read ...
CheckerBackoff ==
    /\ checker.pc = "backoff"
    /\ checker' = [checker EXCEPT !.pc = "store", !.sum =
                     Min(peers_load[checker.node] + checker.diff * Backoff, MaxAge)]
    /\ UNCHANGED <<machines, net, tables, handler>>

\* ... and the sum stored, over whatever the handler has written since.
CheckerStore ==
    /\ checker.pc = "store"
    /\ peers_load' = [peers_load EXCEPT ![checker.node] = checker.sum]
    /\ checker' = [checker EXCEPT !.pc = "lost?", !.sum = 0]
    /\ UNCHANGED <<machines, net, peers, age, peers_hb, handler>>

\* time.sleep(3) begins.
FallAsleep == [checker EXCEPT !.pc = "sleep", !.rest = Pause]

\* if diff > 250
CheckerLost ==
    /\ checker.pc = "lost?"
    /\ checker' = IF checker.diff > ResetWait THEN [checker EXCEPT !.pc = "reset"]
                                              ELSE FallAsleep
    /\ UNCHANGED <<machines, net, tables, handler>>

CheckerReset ==
    /\ checker.pc = "reset"
    /\ ResetVm(checker.node)
    /\ checker' = [checker EXCEPT !.pc = "reload"]
    /\ UNCHANGED <<net, tables, handler>>

\* The load that follows the reset.
CheckerReload ==
    /\ checker.pc = "reload"
    /\ LoadVm(checker.node)
    /\ checker' = FallAsleep
    /\ UNCHANGED <<net, tables, handler>>

\* Mistake: the thread ends after one pass over the peers.
CheckerWakeOnce ==
    /\ checker.pc = "sleep"
    /\ checker.rest = 0
    /\ checker' = [checker EXCEPT !.pc = "dead"]
    /\ UNCHANGED <<machines, net, tables, handler>>

\* time.sleep(3) is over.
CheckerWake ==
    /\ checker.pc = "sleep"
    /\ checker.rest = 0
    /\ checker' = [checker EXCEPT !.pc = "next", !.node = None, !.diff = 0]
    /\ UNCHANGED <<machines, net, tables, handler>>

-----------------------------------------------------------------------------
HandlerStep == Handle \/ HandlerSave \/ HandlerWiden \/ HandlerStamp \/ HandlerArm

CheckerStep ==
    \/ CheckerList \/ CheckerSample \/ CheckerWindow \/ CheckerFirstWindow \/ CheckerShow
    \/ CheckerFresh \/ CheckerSave \/ CheckerRearm \/ CheckerNarrow \/ CheckerSilent
    \/ CheckerLoad \/ CheckerBackoff \/ CheckerStore \/ CheckerLost \/ CheckerReset
    \/ CheckerReload \/ CheckerWake

Next ==
    \/ \E n \in Nodes : Send(n) \/ Crash(n)
    \/ Lose
    \/ Tick
    \/ HandlerStep
    \/ CheckerStep

\* The load after a reset reaches the machine and brings it up.
ReloadWorks(n) == CheckerReload /\ checker.node = n /\ vm'[n] = "up"

(* Both controller threads run, the clock advances and a node that is up   *)
(* keeps sending; the network promises nothing.  A QMP command may fail    *)
(* any number of times, but not for ever: of the reloads the checker       *)
(* repeats round after round, one gets through.                            *)
Fairness ==
    /\ WF_vars(HandlerStep)
    /\ WF_vars(CheckerStep)
    /\ WF_vars(Tick)
    /\ \A n \in Nodes : WF_vars(Send(n)) /\ SF_vars(ReloadWorks(n))

Spec == Init /\ [][Next]_vars /\ Fairness

-----------------------------------------------------------------------------
(* Properties.                                                             *)

HandlerSteps == {"recv", "save", "widen", "stamp", "arm"}

\* Before the checker has looked up the load threshold of the peer it sampled.
Unchecked == {"next", "window?", "window", "show", "dead"}

CheckerSteps == Unchecked \cup {"fresh?", "save", "rearm", "narrow", "silent?", "load",
                                "backoff", "store", "lost?", "reset", "reload", "sleep"}

\* Every variable has its type, and a busy thread is busy with a node.
TypeOK ==
    /\ vm \in [Nodes -> {"up", "crashed"}]
    /\ snapshot \in [Nodes -> {"none", "up", "crashed"}]
    /\ saved \subseteq Nodes
    /\ net \subseteq Nodes \X Kinds
    /\ peers \subseteq Nodes
    /\ age \in [Nodes -> 0 .. MaxAge]
    /\ peers_load \in [Nodes -> 0 .. MaxAge]
    /\ peers_hb \in [Nodes -> {0, HbWait, HbWaitSaved}]
    /\ handler \in [pc : HandlerSteps, node : Nodes \cup {None}]
    /\ handler.pc # "recv" => handler.node \in Nodes
    /\ checker \in [pc : CheckerSteps, node : Nodes \cup {None},
                    diff : 0 .. MaxAge, sum : 0 .. MaxAge,
                    rest : 0 .. Pause, todo : SUBSET Nodes]
    /\ checker.pc # "next" => checker.node \in Nodes
    /\ crashes \in 0 .. MaxCrashes

\* hb_checker rolls a machine back only when it was silent for more than
\* load_wait as it was sampled, whatever the handler and the checker itself
\* write into peers_load between the sample and the test.
LoadOnlyAfterSilence ==
    checker.pc \in {"load", "backoff", "store", "reset", "reload"} => checker.diff > LoadWait

\* A peer without a load threshold is one whose first heartbeat the handler is
\* just storing: only then can hb_checker meet the KeyError that ends it.
ThresholdMissingOnlyAtFirst ==
    \A n \in peers : peers_load[n] = 0 => handler = [pc |-> "arm", node |-> n]

\* A snapshot of a dead kernel is only ever taken by the checker inside the
\* fresh window it sampled, or by the handler on a "savevm" entry; in particular
\* never by a round of the checker that also loads.
PoisonedOnlyWhenFresh ==
    [][\A n \in Nodes : (snapshot[n] # "crashed" /\ snapshot'[n] = "crashed") =>
          \/ checker.pc = "save" /\ checker.node = n /\ checker.diff < HbWaitSaved
          \/ handler.pc = "save" /\ handler.node = n]_vars

\* The inductive strengthening: a threshold that exists is at least load_wait,
\* and so is one about to be stored; the peers on the checker's list are known,
\* and the one it is busy with has a threshold.
ThresholdsHigh == \A n \in Nodes : peers_load[n] = 0 \/ peers_load[n] >= LoadWait

SumHigh == checker.pc = "store" => checker.sum >= LoadWait

ListedAreKnown == checker.todo \subseteq peers

SampledHasThreshold ==
    checker.pc \notin Unchecked => peers_load[checker.node] # 0

SaveOnlyWhenFresh == checker.pc = "save" => checker.diff < HbWaitSaved

IndInv ==
    /\ TypeOK
    /\ ThresholdsHigh
    /\ SumHigh
    /\ ListedAreKnown
    /\ SampledHasThreshold
    /\ SaveOnlyWhenFresh
    /\ LoadOnlyAfterSilence
    /\ ThresholdMissingOnlyAtFirst

\* A node is beyond the reach of a bad save: it has crashed, its snapshot is
\* good, nothing of it is on its way or being handled, its age and the checker's
\* sample of it are out of the fresh window, and the checker is safe.
Settled(n) ==
    /\ vm[n] = "crashed"
    /\ snapshot[n] = "up"
    /\ n \in peers
    /\ \A k \in Kinds : <<n, k>> \notin net
    /\ handler.node # n
    /\ age[n] >= HbWaitSaved
    /\ checker.node = n => checker.diff >= HbWaitSaved
    /\ checker.pc # "dead"
    /\ \A m \in Nodes : peers_load[m] # 0

\* hb_checker brings such a node back, although its commands may fail.
Recovers ==
    \A n \in Nodes : Settled(n) ~> (vm[n] = "up" /\ snapshot[n] = "up")

\* controller.py, line 91: what is loaded after the silence is the last successful
\* snapshot, hence one of a running kernel, if there ever was one.
LoadsSuccessfulSnapshot ==
    checker.pc \in {"load", "reload"} /\ checker.node \in saved =>
        snapshot[checker.node] = "up"
=============================================================================
