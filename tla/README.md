# PusOS: specifications, model checking and proofs

PusOS is a small operating system for fog nodes: applications compiled into a
Little Kernel (LK) image for the RISC-V "virt" machine of QEMU, and a few
Python tools on the host that watch the nodes and roll them back after a crash.
This directory holds TLA+ models of its own logic, the configurations TLC checks
them with, and proofs checked by TLAPS. Paths below are relative to the
repository's root. The kernel, its network stack (minip) and the vendored
libraries are not part of the repository's own logic; where the code depends on
them they are modelled from the way it uses them and marked external in the
map of `PROJECT.json`.

## 1. Inventory

| Component | State it keeps | Operations | What makes it correct |
|---|---|---|---|
| **app501**, bounded buffer (`pus/exp/app500/myapp2.c`) | ring of slots, `in_x`, `out_x`, two counting semaphores, a mutex | `pub501`, three `sub501`, the command that starts and joins them | first in, first out; overrun and underrun only where a wait timed out; the command returns |
| **app500**, file pipe (`pus/exp/app500/myapp.c`) | file `pipe0`, one mutex | `pub500`, `sub500`, `sub500_2`, the command | the mutex is given back on every path; the command returns |
| **controller** (`tools/controller.py`, `tools/recovery.py`) | `peers`, `peers_load`, `peers_hb`, one snapshot per machine | datagram handler, `hb_checker`, QMP commands | no rollback of a node that is heard of; a crashed node comes back; a good snapshot is kept |
| **raft1**, sender side (`pus/exp/raft1/raft_test.c`) | none | `raft_worker` (a heartbeat every 1.2 s), `raft_sender` (entries such as `savevm`) | keeps sending while the kernel lives |
| **raft1**, server side (same file, `pus/exp/mu/main.c`) | `mu_lock_raft1`, `scope_raft1`, `mu_error_jmp` | server, one worker per connection, evaluation, error jump | evaluations exclude each other; an error returns to its own thread |
| **CoAP library** (`pus/lib/coap/coap.c`) | none | parse, build, find options, make a response, dispatch | parse inverts build; limits are respected |
| **CoAP server** (`pus/app/coapsrv/coapsrv.c`) | `endpoints`, sockets | the UDP callback | an answer belongs to a request of the client that gets it |
| **clock** (`datetime.c`, `goldfish_rtc.c`, `systime.c`, `ntptime.c`) | offsets of the clock | conversion of seconds to a date, two commands | the date shown is the date it is |
| **pusapi**, HTTP (`pus/app/pusapi/pusapi.c`) | shared `reply`, `buffer`, parser; heap | server, workers, routes | the right text for the URL asked for |
| **app600 family** (`pus/exp/app600`), **eventer** (`pus/test/eventer`) | `mu_lock_600`, `scope_600` and the tables in it; the event `e_hello` | app600 to app603, the sensor's callbacks; `hello`, `hellox` | evaluations exclude each other; every answer finds its table; no signal is lost |
| **fibon** (`pus/test/app/fibon.c`) | `fib_seri` | a tree of threads | the series in order, each number once; it returns |
| **coapcli** (`pus/app/coapcli/coapcli.c`) | `mount_lfs`, the device, the count on its stack | workers that are joined or let go of | one mount; nobody's files are formatted away |
| **TCP services**: cmdserver, pbserver, netsrv, the raft1 server | one thread and one socket per connection; consoles | accept loop, worker | what a connection takes is given back; nobody waits for another |
| **heartbeat** (`pus/app/heartbeat/heartbeat.c`) | a socket, a period | connect, write, read, close, sleep | goes on through every refusal |
| **irc** (`pus/app/irc/irc.cpp`) | `sock_`, `state_`, `lock_`, two line buffers | application, console and reader threads, `shutdown` | QUIT comes last; the object outlives its threads; it ends |
| app503 (`pus/exp/app500/myapp3.c`) | `mu_lock_503`, `scope_503` | two threads that evaluate in turn | exclusion around one interpreter |
| qmp (`pus/exp/qmp/qmp.c`) | none | one exchange of commands | the commands go out in order |
| datastore and littlefs glue | records in a file | read the n-th record, map blocks | the n-th record is the n-th written |
| platform (`platform/qemu-virt-riscv-rtc`) | interrupt table, receive buffer | interrupt dispatch, console input, halt | interrupts are acknowledged |

**How they interact.** A node's `raft_worker` sends heartbeats by UDP to the
controller, which saves (QMP `savevm`) a node that was just heard of, loads its
only snapshot after some seconds of silence and resets it after minutes.
Commands are evaluated on a node by the mu interpreter, of which there is one
error jump buffer, whoever calls it: raft1's workers, the console, the app600
commands and their network callback. The CoAP server, pusapi, the TCP
services and the clients share the heap and the network stack. The command-line
applications (app500, app501, fibon, coapcli) run on the console thread, which
waits for most of the threads they start; coapcli may leave workers behind, which
mount the device app500 uses. cmdserver runs console commands from threads of its
own, so two commands of the app600 family may run at once.

**What is hard here.** Every wait with a timeout ignores its result (app501,
raft1), so what follows runs without what was waited for. Globals are shared by
threads without a lock (pusapi, the controller's dictionaries, `mu_error_jmp`).
Return codes are dropped (CoAP server, the parser of pusapi), and any mount error is answered with a
format. Reads have no timeout (TCP services, heartbeat). Resources are taken on every request and
not given back (sockets, consoles, heap blocks). Threads read their arguments
from the stack of a function that may have returned (coapcli, heartbeat). Locks
and scopes are initialised again while in use (app600). A crash may fall between a heartbeat and
the save it triggers. Widths are narrow (`uint8_t`) in the date and the option
arithmetic. Each of these is a hazard at its line in `PROJECT.json`, with the
properties that would catch it going wrong.

## 2. Modules

| Module | Models | Extended by |
|---|---|---|
| `BoundedQueue` | what a user expects of app501's buffer: the abstract specification | instantiated by `App501` |
| `App501` | app501 | `MCApp501`, `App501Proofs` |
| `Recovery` | controller, QMP commands, the nodes as sources of datagrams and crashes | `MCRecovery`, `RecoveryProofs` |
| `App500` | app500 | `Shell` |
| `Fibon` | fibon | `Shell` |
| `CoapCli` | coapcli | `Shell` |
| `Shell` | the console: app500, fibon and coapcli composed over one device | `MCShell`, `ShellProofs` |
| `Coap` | the CoAP library as operators | `CoapCodec`, `CoapServer` |
| `CoapCodec` | build, parse, and build again | `MCCoapCodec`, `NetworkProofs` |
| `CoapServer` | library + callback + lossy network + clients | `MCCoapServer`, `NetworkProofs` |
| `Clock` | date conversion, RTC reading, systime, ntptime | `MCClock`, `ClientProofs` |
| `PusApi` | pusapi | `MCPusApi`, `PusApiProofs` |
| `RaftServer` | raft1's workers, `mu_lock_raft1`, `mu_error_jmp`, other users of the interpreter | `MCRaftServer`, `RaftServerProofs` |
| `Services` | cmdserver, pbserver, netsrv, raft1's acceptor and the TCP heartbeat over one heap | `MCServices`, `NetworkProofs` |
| `App600` | app600 to app603, the sensor's callbacks, hello and hellox | `MCApp600`, `App600Proofs` |
| `Irc` | irc | `MCIrc`, `ClientProofs` |

### App501
State: the two semaphores as a count and a set of waiters (external, as LK's
`sem_timedwait` and `sem_post` are used), the mutex, the ring with `in_x` and
`out_x`, and histories of what was stored and read. A thread's round is: wait
for a permit (`WaitSem`, or `TimeOut`, whose result the code ignores at lines 43
and 68), lock, `Store` or `Fetch`, `Post`, `NextRound`. `Start` re-initialises
the semaphores and not the indices, as lines 120-138 do; `JoinAll` is the end of
the command. `ImplementsQueue` maps the ring to `BoundedQueue`: the queue is what
is stored and not yet fetched, read off the slots from `out_x` on, and it breaks
with the first ignored timeout.

### Recovery
One step per read or write of a shared dictionary whose outcome is used later, and per
QMP command: `Handle`, `HandlerSave`, `HandlerWiden`, `HandlerStamp`, `HandlerArm` are the
datagram handler, `CheckerList` to `CheckerWake` are `hb_checker`, where the `+=` of line 99
is a read (`CheckerBackoff`) and a write (`CheckerStore`). `diff` is
sampled once per peer and used to the end of its round, across the save. A
missing key in `peers_load` (value 0) is the KeyError that ends the checker
thread. `SaveVm` overwrites the single snapshot with the machine as it is, dead
or alive. Time is the age of the last heartbeat, in ticks; the thresholds are
constants in the order the code has them, the back-off is capped where no age
reaches. The clock may tick between any two steps, and the sleep between two peers
takes its three seconds (`Pause`). `Kinds` says whether the application of the nodes asks
for snapshots; `saved` remembers the nodes of which a running kernel was ever saved.

### App500
What a thread does under the mutex is one step, as it is exclusive there.
`Subscribe` contains the `break` at line 87, which leaves the loop with the file
open and the mutex held (`pc = "gone"`). In `Shell` the command begins with its
mount, which fails on an empty device and may fail on any other, and a format follows.

### Fibon, CoapCli, Shell
A call of `fibon_thread` is the path that leads to it, and its argument follows from
the path (`CallArg`); it forks, joins, and then
scans `fib_seri` entry by entry: the look of line 57 (`Known`, `Differs`), that of line 60
(`Skip`, `Claim`) and the store (`Store`) are steps of their own, since no lock keeps them
together. A number that another thread enters between the two looks is passed over and
entered again behind itself (`missed`). `Send` is `raft_sender`, which sleeps until the network is
configured, and that need never be. Either thread may fail to be created; here
only, because it is here that the code goes on. A worker of coapcli copies its
count (from a frame that may be gone), tests `mount_lfs`, mounts or formats, and asks;
the packets are `Coap`'s. A mount fails on a device without a file system and may fail on one
that has it, since coapcli.c:99 and myapp.c:190 format after any error, a read error
that littlefs.c:67 does not report or memory that ran out among them (`erred` remembers who did).
A format may fail too, which the code does not notice; the device is then what it was. `Shell` composes them: the console's thread is at the
prompt or in one command, coapcli's detached workers run beside the next ones, and
mounts and formats of all of them meet on one device, where app500 keeps `pipe0`.

### Coap, CoapCodec, CoapServer
`Coap` translates the library function by function over sequences of bytes, with
the nibbles, extended deltas and lengths, the cut of the option number to eight
bits and the MAXOPT limit. The loops over the options are recursive functions of the
number of turns (`optionLoop`, `buildLoop`), one operator being one turn (`nextOption`,
`addOption`). `Packet` is what a filled `coap_packet_t` holds. `CoapCodec` chooses a
packet or a raw datagram, builds, parses, and builds what it parsed. `CoapServer`
composes the library with the callback (`coap_svc_callback`: the parse's return code is
overwritten unread, so a malformed datagram is answered from what the stack held; the
length it declares has eight bits, so that it may see the beginning of a long datagram
only, `arrivesAs`), the endpoint table that has no end marker, one socket per datagram,
and a network that loses, repeats and reorders. Content is abstract (two or three bytes stand for a path).

### Clock
An instant is a pair of day and second of the day, since 32-bit seconds exceed
TLC's integers; `Minus`, `Plus` and `AsUint32` are arithmetic modulo 2^32 on
such pairs. `convertUnixTimeToDate` and `computeDayOfWeek` keep the widths of
their variables. The reference definition in the same module is the Gregorian
calendar, day by day.

### PusApi
`parse_request` is a chain of steps on globals: the URL callback chooses the
reply (`on_url`, `on_url_info`), `/data` reads the device and prints head and
body into the shared buffer, then the length is taken and the reply written. A
second worker may run between any two. A read brings a whole request or something else
("part": a piece of one, a malformed one, one with leftovers of an earlier read behind it, since
the buffer is not terminated); as nobody looks at the parser's result, such a read leads to any
sequence of URL callbacks, or to none. The heap is a number of blocks.

### RaftServer
`Receive`, `Acquire`, `TimeOut`, `SetJump`, `EvalSucceeds` or `EvalFails`,
`Release` are a worker. The mutex is the kernel's count, queue and holder.
`EvalOutside` stands for every other user of the interpreter; `foreign` counts the releases
by workers whose wait had timed out. Whether the kernel
is a debug build, in which a release by someone else panics, is chosen initially.

### Services
A connection is accepted, gets a thread, and goes through its server's worker;
`GiveUp` is every return without `tcp_close`. The heap is a number of blocks, one
for each socket, thread, console and buffer; where the code hands on the null pointer
of a full heap the node goes down. A client connects and is silent until something arrives
(`Arrive`): a whole request (ended by a zero byte), a part, or the end of the stream; until
then its worker waits in `tcp_read`. A script or an entry may never end (`stuck`). What raft1's
workers do to each other is `RaftServer`'s subject and appears here as its outcome: safe until
somebody evaluates without the mutex (`Intrude`), and afterwards a worker may take the node
down (`Derail`). The heartbeat is `HbStart` to `HbWake`, with the argument on
a frame that may be gone, the socket it uses whether or not it connected, and `HbListen`, the
read that may never return.

### App600
Each access of a command or callback to the scope, to the lock and to the tables
is a step. The mutex is the kernel's count, holder and queue, which `InitLock` forgets. A
script that needs a table that is not there fails, and so does one that stores a negative
value, as the callbacks print it right behind the `=` (600.c:70, 602.c:70) and the interpreter
takes `=-` for one operator (parse.c:409); the error jump goes to a frame
nobody has set up: the node is lost. The callbacks print into 16 bytes: the node may
be overrun at any answer. Two threads inside the interpreter at once, under a torn lock or
because hello and hellox take none, may meet (`Meet`), and from then on any script may
fail (`Derail`). The module assumes that nobody outside it, such as raft1 or the
console, evaluates at the same time; that is `RaftServer`'s `EvalOutside`.

### Irc
The application's thread, the console and the reader, with `shutdown` in the
steps between which others may run: QUIT, the sleep under the lock, the close, the
null pointer. The reader takes `sock_` without the lock. Lines are counted
characters; the reader's buffer has no bound check, and the model stops
(`overrun`) where it is written past, since anything may follow.

## 3. Runs

All runs finish within two to three minutes on two cores.

| Run | Instance | Checks | Shows |
|---|---|---|---|
| `app501` | 2 slots, 3 items, 2 subscribers × 2 rounds, 2 invocations; 227,999 states | `BoundedDrift`, `IndicesFollowHistory`, `Returns`, `ImplementsQueue` | the ring is a queue, and implements the abstract one, until the first ignored timeout; each ignored timeout costs exactly one item of drift, the displacement is carried into the next invocation, and the command always returns |
| `recovery` | 1 node, 2 crashes, thresholds 1..5, a pause of 2, ages to 6, heartbeats and "savevm" entries, QMP commands may fail; 685,242 states | `LoadOnlyAfterSilence`, `ThresholdMissingOnlyAtFirst`, `PoisonedOnlyWhenFresh`, `Recovers` | no early rollback, when the checker can die, when a dead kernel can be saved, and that a crashed node with a good snapshot outside the fresh window comes back |
| `recovery_snapshot` | 1 crash, heartbeats only, no command fails | `LoadsSuccessfulSnapshot` — violated | the comment at controller.py:91 promises the last successful snapshot; line 90 overwrites it with one of a dead kernel |
| `shell` | either app500 with 2 publisher rounds, invoked twice, opens that may fail, 2 workers of coapcli, a device with or without a file system, mounts and formats that may fail; or fibon 5 (seven calls) with a table of three entries, one refused thread and a network that may come up; 310,757 states | `LockAccounted`, `DeadOnceAbandoned`, `SeriesInOrder`, `CountIsRight`, `PipeSurvives`, `ConsoleComesBack` | once a subscriber has read a record the pipe stands still; that, and a fibon waiting for a network that is not configured, are the only ways the console is lost; fibon's table never has a gap or a foreign number and the answer is right without a lock, and a number is entered twice only if it was entered between two looks at its entry; a format takes `pipe0` away only where two mounts overlapped or a mount of a file system failed; only a detached worker misreads its count |
| `coap_codec` | option numbers and lengths on both sides of 13 and 269 (lengths 268 and 269), up to 2 options with MAXOPT 2, tails of up to 4 critical bytes behind six headers; 184,538 states | `CodecTypeOK`, `RoundTrip`, `StableWhenSorted` | parse inverts build exactly for options below 269 bytes, and what parses with its options in order can be built again to the same packet |
| `coap_server` | 2 clients (symmetric), 8 datagrams (one malformed, one of 260 bytes, one with a number that wraps), a leftover packet with a token of 60 bytes, 3 sends, 3 sockets; 721,375 states | `AnswersMatchRequests`, `AnswersAreLimited` | every answer parses and is the right one to a request of its client, unless that client sent something malformed or too long, and there are never more than sockets |
| `clock_dates` | every day from 1970 to 2106, four times of day, past the NTP rollover of 2036 and the end of 32-bit time; 397,704 states | `ShownIsNow`, `WeekdayUnlessCarry` | both commands show the right date and time, and the right weekday exactly where Zeller's sum fits its byte |
| `pusapi` | 2 workers, 3 requests, whole or not, 5 blocks; 2,353,257 states | `AloneIsAnsweredRight`, `CrashHasCause`, `HeapAccounted` | a whole request gets a wrong answer only in a race, `/info` apart, and one that was not read whole gets any; why the node may stop, and where the heap goes |
| `raft_server` | 3 workers, the console, 6 commands, both kernels; 9,203 states | `CountAccounted`, `ContainedUntilIntruded`, `ForeignReleasesWiden` | exclusion and containment hold until someone evaluates without the mutex; each foreign release lets exactly one more worker in, for ever, and nobody is forgotten in the queue |
| `services` | 2 connections, 4 servers, 5 blocks; 366,683 states | `LossAccounted`, `DownHasCause`, `EveryoneServed`, `HeartbeatGoesOn` | each failed request costs a socket and each command a console, nothing else is lost; a full heap, a refused heartbeat or an intrusion into raft1's evaluation is what brings the node down; no client that has sent its request waits for another; only a peer that never answers ends the heartbeat |
| `app600` | 2 threads of commands, the network thread, 2 hellox, 3 uses, both kernels; 464,448 states | `ExclusiveUntilTorn`, `DownHasCause`, `SeenUnlessCrowded`, `NetworkComesBack`, `HelloxComesBack` | exclusion holds until the lock is initialised in use; scripts fail only after a reader came first or a scope was created twice, on a negative value, or where threads met in the interpreter; a signal is missed only beside another |
| `irc` | lines of 3 characters, 12 characters from the server; 6,533 states | `QuitIsLast`, `SockIsLive`, `DeletedLast`, `Ends` | the shutdown is safe from both threads at any moment, and ends |

**Why the bounds are enough.** app501: two slots with three items wrap the
ring; four fetches for three items force underruns, and the second invocation
starts displaced. Recovery: the second crash can fall on a machine already
restored; the thresholds keep the order of the code's and one tick lies between
any two that are compared. shell: the device starts empty or formatted, the
file absent or present, and the second invocation of app500 meets what the first and
the workers left; two workers suffice for both to find `mount_lfs` at 0. fibon runs in sessions of its own
(`MCShell`), as it shares no variable with the others (the proofs cover the mixture): of its seven
calls up to three scan at a time and bring the same number, and there is one number more than entries. coap_codec: values on each side of every comparison in the code.
coap_server: three sends of two clients give duplicates and interleavings, and
the third socket is the last. clock: exhaustive over days; the times of day
include the two at which 2^32 falls. pusapi: three requests of two workers fill five
blocks. raft_server: three workers are needed for a foreign release to let in a
second one beside a holder; six commands let threads come twice. services: five
blocks hold two connections with their threads, or less and the heartbeat, so every
allocation is met by a full heap; both connections may go to one server. app600:
three uses let one thread hold the lock, one wait and one initialise it, or two hellox
signal beside a command. irc: three characters make a line that fits, one that just does
not, and a PING between them.
Symmetry is used where the module treats the threads alike and no liveness is
checked (pusapi, raft_server).

**Deadlock** is not checked: commands come to an end, the bounds stop the
environment, and in app500, pusapi, raft1, the services and app600 the system itself
may stop, which the properties above describe.

**Fairness.** App501: weak fairness of every thread and of the join
(LK schedules every runnable thread; a sleep or a timed wait ends) and strong
fairness of taking the mutex, whose waiters LK wakes in order. Shell: weak fairness of
the console inside a command and of the threads of each command taken together (some
thread of it that can run does: the trees and the pipe's three threads have a bounded
number of steps); nothing for what the user types nor for the configuration of the network. Recovery: weak
fairness of both Python threads, of time, and of sending by a node that is up;
nothing for the network; and strong fairness of the load after a reset: a QMP
command may fail any number of times, but of those the checker repeats every
round one gets through; without that no controller could promise recovery. Services:
weak fairness of the accept loops, of each worker that is not waiting for its client, and of the
heartbeat where it only needs the processor; none for clients, who may stay silent, for
`tcp_connect` and for the peer's answer, nor for a sleep whose length is garbage. In Services and
Irc a `tcp_write` is taken not to block, which holds as long as the peer reads what it is sent. App600: weak fairness
of every thread, the one that spins included, as LK preempts it. Irc: weak fairness of the
three threads where they are not waiting for a key or for the server. The other modules
state safety only.

**Mutants.** Every property has one in `PROJECT.json`: an operator next to the
one it replaces, marked "Mistake", which changes the model as a plausible slip in
the code would and makes TLC find the property violated.

## 4. Findings

One run expects a violation. `recovery_snapshot`: `hb_checker` saves whenever the last
heartbeat is young, over the only snapshot. In TLC's behaviour the checker saves a node while
it runs; the node crashes with one more heartbeat on its way; the handler stamps it, the checker's
next round finds a fresh age, and line 90 saves the dead machine over the good snapshot. After
the silence this is what the checker is about to load, although the comment at
`tools/controller.py:91` speaks of the last successful one. No "savevm" entry takes part: the
instance's nodes send none. A delayed entry does the same through line 63, as
`PoisonedOnlyWhenFresh` says.

What else the models showed is stated by properties that hold, as the exact
condition under which the code does what it should:

- the handler stores `peers[ip]` before `peers_load[ip]`; the checker in between
  dies of a KeyError outside its `try` (`ThresholdMissingOnlyAtFirst` says that this
  is the only window; `Recovers` is about a checker that is alive);
- `option->num` is a `uint8_t`, so an option numbered 256 or more comes back out of
  order (`StableWhenSorted` needs the order), and `coap_build` announces a wrong length
  from 269 bytes on (`RoundTrip` is an equivalence);
- `h` in `computeDayOfWeek` is a `uint8_t`: the weekday is wrong on some days
  between 1973 and 2000 and again from the 2060s (`WeekdayUnlessCarry`);
- a 4.04 answer carries a Content-Format option with the value 65535 although
  `coap.h:108` calls `COAP_CONTENTTYPE_NONE` a "bodge to allow us not to send
  option block";
- a fibon on a node without a network never gives the console back
  (`ConsoleComesBack`), a number may stand twice in its table (`SeriesInOrder`), and any error
  of a mount wipes the device (`PipeSurvives`);
- a request that pusapi does not read whole is answered with somebody else's text, and stops
  the node if it is the first (`AloneIsAnsweredRight`, `CrashHasCause`), and a negative
  temperature takes the node down (`DownHasCause` of App600);
- app500 stands still after its first successful read (`DeadOnceAbandoned`), an
  app600 entered while an answer is being stored lets two threads into the interpreter
  (`ExclusiveUntilTorn`), and the TCP services lose a socket per bad request and
  a console per good one (`LossAccounted`).

## 5. Proofs

TLAPS proves these for every value of the constants the named assumptions
admit (`ThresholdsAssumption`, `ThreadsAssumption` and so on, which TLC evaluates
on every run). Each module's inductive invariant is `IndInv`; `Invariance` is
`Spec => []IndInv`, from `Init => IndInv` and one lemma per action with one step
per conjunct, or the other way round where a conjunct needs an argument of its own.
Each `IndInv` was first checked by TLC on the instance of its run.

**`App501Proofs`** — any ring size, any number of subscribers, rounds and
invocations. `TypeCorrect`, `DriftBounded`, `RingIsFifo`, `IndicesCorrect`, and
`RingImplementsQueue`: `Spec => Queue!Spec`, the initial state mapped to the empty
queue, `Store` and `Fetch` to `Put` and `Get`, an ignored timeout to `Break`,
everything else to a stutter; that a `Fetch` is a `Get` rests on `UnreadInPlace`.
`FifoUntilTimeout` is far from inductive: it speaks of what was read, and the
reason lies in the ring. The strengthening accounts for every permit
(`PermitsAccounted`: the count of each semaphore plus the threads that hold a
permit plus the items, with the ignored timeouts as the difference), says that
the lock's holder is in its critical section (`LockHeld`), where blocked threads
are (`WaitersBlocked`), and that the unread items lie in order in the slots from
`out_x` on (`UnreadInPlace`). From the permits no store hits an unread slot and no
fetch an empty one; from the places what is fetched is the next item.

**`RecoveryProofs`** — any set of nodes, thresholds in the code's order, any
number of crashes, failing commands. `TypeCorrect`, `NoEarlyRollback`,
`KeyErrorOnlyAtFirst`, and the action property `PoisonBounded`. The strengthening:
a threshold that exists is at least `load_wait` (the handler, the checker's re-arming and
the back-off only ever write such values), and so is the sum the back-off has read and is about
to store (`SumHigh`), the peers on the checker's list
are known, the one it is busy with has a threshold, and it saves only inside the window
it sampled.

**`RaftServerProofs`** — any finite set of workers, any other users and commands,
both kernels. `TypeCorrect`, `CountCorrect`, `Containment`, `WidensByOne`.
Exclusion follows from the count: a worker that does not wait finds it at zero,
hence, with no foreign release, nobody has the mutex (`NobodyHasIt`). So
`CountAccounted` has to be in the invariant, with `ThreadsInPlace` (who can have
the mutex where) and `Orderly` (before an intrusion: whoever is past the mutex has it,
one at most, and is the one the jump buffer names). `WidensByOne` and `CountCorrect` rest on
one lemma, `MutexMoves`: every step moves the four numbers (holders, waiters, count, foreign
releases) in one of a few ways, whatever thread takes it; arithmetic does the rest.

**`ShellProofs`** — any number of subscribers, rounds, workers of coapcli and
invocations, failing opens. `LockIsAccounted`, `CountsAreRight`, and the action
properties `AbandonedIsDead` and `PipeIsKept`, all from one invariant over
the composition, with one lemma per action of the console, of app500's threads and of
coapcli's workers. What the properties do not say and the invariant must:
app500's threads run only inside the command, and pipe0 is on a device with a file system
(`InPlace500`); whoever is about to format a file system has seen its mount fail there or has
overlapped with another, and so has whoever is about to format beside another (`FormatsOverlap`, which
turns the number of formatters into a set by the cardinality of finite sets); a
worker that has not read its count was let go of, or coapcli waits for it with its
frame in place (`FramedOrDetached`). The dead pipe follows from the
lock: the one that left holds it, so nobody is behind `mutex_acquire`.

fibon's `SeriesIsInOrder` has an invariant of its own, `FibInv`, since no other command
touches its variables. In any case a call has passed over taken entries only
(`CallInStep`), so the table has no gap, and whoever has entered a number has asked for its
snapshot or is about to (`Asked`), which with the joins (`Waited`: whoever started a call that has not
returned waits for it) gives every entry its snapshot when the root returns. Unless a number was
missed (`CallInOrder`), a call that has its number finds all smaller ones in the table,
because the thread of n - 1 has returned and left its own entry filled
(`Filled`), so the only free entry it can meet is the one of its number,
and whoever claims that entry beside it brings the same number. That the calls of a
call that has not forked have not begun (`TreeInStep`) keeps a second start away. The
numbers themselves need induction, and the library's induction theorems cannot be used, as
they take an operator. `SetInduction` replaces them: a set with 0 and, with n, n + 1
holds every number, because otherwise its part below a missing m could be shifted
by one and put m + 1 numbers into m places (`FS_PigeonHole`). From it follow the existence
of the recursive function (`SeriesExists`), that no number is 0 and that they increase.

**`ClientProofs`**, irc — any line lengths and any traffic. `TypeCorrect`, `QuitComesLast`,
`NoClosedSocket`, `DeleteIsSafe`. The strengthening says who holds `lock_`
(`LockHeld`: the thread inside `shutdown`, across the sleep), between which points of
`irc_app_entry` the threads live (`ThreadsInPlace`), that `sock_` and the connection
agree except between the close and the assignment behind it (`SockInStep`),
and that behind QUIT the lock is held or the socket is gone (`QuitHolds`), which is
why no second thread sends.

**`ClientProofs`**, the clock — any range of days, any times of the day.
`DatesAreRight` and `WeekdaysUnlessCarry`, from `ClockInv` (what is shown is the
conversion of the time it is): the NTP stamp wraps and the subtraction wraps back
(`NtpIsNow`, with a borrow from the day or without). The calendar follows the conversion:
`CenturyPart` is the one day that is skipped in March 2100, `YearPart` and `MonthPart` bound
what is left in a year that starts in March and in one of its months (`IsDate`), and
`DateIs` compares this with the rules of the Gregorian calendar (`LeapIs`,
`YearStartIs`, `MonthStartIs`, the latter through a table that satisfies the recursion). For the
weekday the days in front of a month are Zeller's term plus 28 times the month,
so that day and sum differ by a multiple of seven (`WeekdayIs`), and cutting 256 off
the sum never keeps the remainder (`CutSum`).

**`PusApiProofs`** — any finite set of connections, any number of requests and
blocks. `TypeCorrect`, `HeapIsAccounted`, `AloneIsRight`, `CrashesHaveCause`, from
`WorkersAssumption` (there are finitely many connections) and `NullAssumption` (no text is the null
pointer). The answer of a request that was alone is right because of what each step left
in the globals, so `AloneInOrder` says for each place in `parse_request` what `reply`, `buffer` and the
length are; that nobody else has written them since follows from `RacedTogether` (two
inside at once both know). `CrashHasCause` needs that the forgotten blocks
stem from as many requests (`ServedOnce`) and that `reply`, once set, stays set (`ReplySet`).

**`NetworkProofs`**, the TCP services — any finite set of connections, any heap. `TypeCorrect`,
`LossIsAccounted`, `DownsHaveCause`. `LossAccounted` speaks of quiet moments only; the
invariant says at every moment which connection has a socket (`SocketsInStep`: one in
progress, or one whose worker gave up), a buffer (`BuffersInStep`) or has made a console
(`ConsolesInStep`), and with no connection in progress the sets coincide.
`BeatInStep` is why a heartbeat on a socket that is not open was refused before; a worker
taken down by an intrusion is one that is evaluating.

**`NetworkProofs`**, CoAP — any packets, any datagrams, any MAXOPT, any buffer.
`CodecTypes`, `BuildAndParse`, `ParseAndBuild`. `CodecInv` only says where each variable came from
(`wire` is what was built, `got` what was parsed from it); the content is in lemmas about
the two loops, which `SetInduction` (a pigeonhole argument, see fibon) makes possible: both
recursive functions exist (`OptionLoopDef`, `BuildLoopDef`); after n turns there are at most n
options and only bytes left (`OptionLoopType`); reading the bytes of one short option gives
the option back, on each of the three ways to write a delta and a length (`ReadHead`,
`ReadOption`); so after k turns the reader has the first k options and what the writer wrote
behind them (`LoopReads`), and stops at the marker or at the end (`LoopStops`, `ReadBack`).
The other direction of `RoundTrip` takes the first option of 269 bytes or more: up to it all
is read as it was written, there a length is read that is not the one written
(`MisreadOption`), and the reader fails or has another option at this place for good
(`LoopKeeps`, `NotReadBack`). Assumed is that `Packets` are packets and `Datagrams` bytes.

`AnswersLimited` and `AnswersMatch` hold for any clients, any requests of any bytes, any
greeting and any number of sockets. `ServerInv` counts the answers given, received or
under way, by the sockets, and says of each which request of its client it comes from
(`ComesFrom`). What an answer says follows from the codec: a response has one option of three
bytes (`ContentOptionIs`) and fits `packetbuf` or is not sent (`ResponseFits`), parses to
what was built (`ResponseIs`), and is the greeting exactly if the request asks for it
(`ServedIs`: with the options in order, the block of path options `coap_findOptions` returns is
all of them, `FindsOne`). Assumed is a buffer of 15 bytes or more (it has 64), and of a
packet left on the stack only that its id and token are bytes.

**`App600Proofs`** — any finite sets of threads for commands and for hellox, any number
of uses, both kernels. `TypeCorrect`, `Exclusive`, `WakeupsAreKept`, `DownsHaveCause`,
`SignalsAreSeen`. The mutex is again decided by its count: `LockInStep` says that, before
the lock is torn, the count is the number of waiters and the holder, that the queue is
exactly the waiters, and that the holder is the one thread between acquire and
release; so an acquirer that finds 1 is alone, and a release that leaves a count finds
someone to wake (`NoLostWakeup`, the safety that `NetworkComesBack` of the run rests on).
`ScopeInStep` carries what a script relies on from the step that made it (the scope, the table behind every registered callback, hellox's data) to the
evaluation, unless the scope was created twice; a script in order can then fail only on a
negative value or in an interpreter where threads have met; `EventInStep` says that whoever spins on a
withdrawn event was seen or crowded.

The type invariants of App501, Recovery, RaftServer, PusApi, Services, App600 and Irc are
part of their `IndInv` (`TypeCorrect`) and not checked by a run of their own. The invariants of
the codec, the CoAP server and the clock have names of their own (`CodecInv`, `ServerInv`,
`ClockInv`), as two components share a module of proofs.

**Only model-checked.** Liveness (`Returns`, `Recovers`, `ConsoleComesBack`,
`EveryoneServed`, `HeartbeatGoesOn`, `NetworkComesBack`, `HelloxComesBack`, `Ends`), which
needs reasoning about fairness and ENABLED that the prover does not do. Every safety
property a run checks is a theorem.

## 6. Not modelled

Most of the repository's lines are not its own: the tables and sources of
two FAT implementations, littlefs, llhttp, nanopb, binn, mu and nine other interpreters,
and generated protobuf code, more than nine lines in ten, which is why the map covers a small
share of them. Nor are the kernel, minip and virtio, which the repository only
uses. Of the modelled components: debug output, the header and body
callbacks of pusapi (they only print), `read_sensor_data` of app500 (no caller),
the one-shot alarm of the RTC (no caller), the echo server of netsrv (never started),
the editor of the mu console, a device left half formatted by a power cut or a failing write, the commands of recovery.py the controller does not
issue, and thread creation that fails outside fibon and the services. app503 repeats
app600's hazard with one table less. The remaining components and the reason for each
are in `PROJECT.json`.

## 7. Plan

1. **Proofs.** Every safety property of a passing run is a theorem; what changes in the
   code has to be carried through them. The liveness properties stay with TLC.
2. **app503** as a second instance of the app600 mutex, if it ever gets a
   user other than its own threads.
