------------------------------ MODULE Services ------------------------------
(***************************************************************************)
(* The TCP services of a node and the heap they share: the command server  *)
(* (cmdserver.c), the protobuf demonstration (pbserver.c), the receiving   *)
(* side of raft1 (raft_test.c) and the data service of netsrv.c, each an   *)
(* accept loop that starts a detached thread per connection; and the TCP   *)
(* heartbeat of heartbeat.c, a client that connects every five seconds.    *)
(*                                                                         *)
(* A request is one protobuf message that ends where the buffer holds its  *)
(* first zero byte: a message of which only a part has arrived is read     *)
(* with the 0xff the buffer was filled with behind it, and rejected.  A    *)
(* worker that gives up returns without tcp_close.  tcp_read has no        *)
(* timeout: a client that connects and says nothing has a worker that      *)
(* waits for it, for ever if need be, and so has the heartbeat its peer.   *)
(*                                                                         *)
(* How the workers of raft1 share the interpreter is RaftServer's subject. *)
(* Here it is enough that they are safe until somebody evaluates without   *)
(* mu_lock_raft1, and that afterwards a worker may take the node with it.  *)
(*                                                                         *)
(* The heap is the kernel's.  It holds HeapBlocks blocks, and a socket, a  *)
(* thread, a console and the buffer of a data connection each take one.    *)
(* thread_create and console_create answer a full heap with a null pointer,*)
(* which the code hands on to functions that dereference it.               *)
(***************************************************************************)
EXTENDS Naturals, FiniteSets

CONSTANTS
    Conns,          \* the connections clients may make
    HeapBlocks      \* what the heap holds

ASSUME ConnsAssumption == IsFiniteSet(Conns)
ASSUME HeapBlocksAssumption == HeapBlocks \in Nat

Servers == {"cmd", "pb", "raft", "data"}

\* What tcp_read finds: the whole message, a part of it, or nothing: the end of
\* the stream or an error, which no worker treats differently.
Arrivals == {"whole", "part", "nothing"}

\* The same, or "silent" while there is nothing to find and tcp_read waits.
Inputs == Arrivals \cup {"silent"}

VARIABLES
    node,       \* "up" or "down"
    server,     \* whose port the connection was made to
    input,      \* what the next tcp_read of the connection finds
    st,         \* where the connection's worker is
    sock,       \* "none", "open" or "closed"
    buf,        \* does the data worker have its buffer?
    consoles,   \* consoles created for commands
    failed,     \* history: the connections whose worker gave up
    ran,        \* history: the connections whose command was run
    answered,   \* history: the connections that got an answer
    intruded,   \* history: has anyone evaluated without mu_lock_raft1?
    hb,         \* where the heartbeat is
    period,     \* the wait_time the heartbeat's worker has read
    hbSock,     \* the worker's sock: "wild", "open" or "stale"
    refused     \* history: has tcp_connect ever failed?

conns == <<server, input, st, sock, buf, consoles, failed, ran, answered, intruded>>
beat == <<hb, period, hbSock, refused>>
vars == <<node, conns, beat>>

Init ==
    /\ node = "up"
    /\ server = [c \in Conns |-> "cmd"]
    /\ input = [c \in Conns |-> "silent"]
    /\ st = [c \in Conns |-> "none"]
    /\ sock = [c \in Conns |-> "none"]
    /\ buf = [c \in Conns |-> FALSE]
    /\ consoles = 0
    /\ failed = {}
    /\ ran = {}
    /\ answered = {}
    /\ intruded = FALSE
    /\ hb = "boot"
    /\ period = "unread"
    /\ hbSock = "wild"
    /\ refused = FALSE

OpenSockets == {c \in Conns : sock[c] = "open"}
Workers == {c \in Conns : st[c] \in {"alloc", "read", "run", "answer", "stuck"}}
Buffers == {c \in Conns : buf[c]}

\* Blocks of the heap in use, the heartbeat's thread and socket among them.
Used ==
    Cardinality(OpenSockets) + Cardinality(Workers) + Cardinality(Buffers) + consoles
      + (IF hbSock = "open" THEN 1 ELSE 0)
      + (IF hb = "boot" THEN 0 ELSE 1)

\* Does the heap have another block?
Room == Used < HeapBlocks

Goto(c, l) == st' = [st EXCEPT ![c] = l]

\* tcp_close
Close(c) == sock' = [sock EXCEPT ![c] = "closed"]

-----------------------------------------------------------------------------
(* Connections.                                                            *)

\* A client connects to server s; the kernel opens the socket.
Connect(c, s) ==
    /\ st[c] = "none"
    /\ Room
    /\ server' = [server EXCEPT ![c] = s]
    /\ sock' = [sock EXCEPT ![c] = "open"]
    /\ Goto(c, "queued")
    /\ UNCHANGED <<node, input, buf, consoles, failed, ran, answered, intruded, beat>>

\* The client sends something, closes or resets the connection: when it likes, if ever.
Arrive(c, i) ==
    /\ st[c] \in {"queued", "alloc", "read"}
    /\ input[c] = "silent"
    /\ input' = [input EXCEPT ![c] = i]
    /\ UNCHANGED <<node, server, st, sock, buf, consoles, failed, ran, answered, intruded, beat>>

\* Mistake: the server serves a connection itself before it accepts another.
AcceptOneByOne(c) ==
    /\ st[c] = "queued"
    /\ \A d \in Workers : server[d] # server[c]
    /\ Goto(c, IF server[c] = "data" THEN "alloc" ELSE "read")
    /\ UNCHANGED <<node, server, input, sock, buf, consoles, failed, ran, answered, intruded, beat>>

\* The server's loop: tcp_accept returns the connection and a thread is created
\* for it, or the null pointer is resumed.
Accept(c) ==
    /\ st[c] = "queued"
    /\ IF Room
       THEN Goto(c, IF server[c] = "data" THEN "alloc" ELSE "read") /\ UNCHANGED node
       ELSE node' = "down" /\ UNCHANGED st
    /\ UNCHANGED <<server, input, sock, buf, consoles, failed, ran, answered, intruded, beat>>

\* A worker gives up: it returns, and its socket stays open.
GiveUp(c) ==
    /\ Goto(c, "gone")
    /\ failed' = failed \cup {c}
    /\ UNCHANGED sock

\* wc_worker allocates its buffer.
AllocBuffer(c) ==
    /\ st[c] = "alloc"
    /\ IF Room
       THEN buf' = [buf EXCEPT ![c] = TRUE] /\ Goto(c, "read") /\ UNCHANGED <<sock, failed>>
       ELSE GiveUp(c) /\ UNCHANGED buf
    /\ UNCHANGED <<node, server, input, consoles, ran, answered, intruded, beat>>

\* wc_worker reads something, answers and reads on.
Chat(c) ==
    /\ st[c] = "read"
    /\ server[c] = "data"
    /\ input[c] \in {"whole", "part"}
    /\ answered' = answered \cup {c}
    /\ input' = [input EXCEPT ![c] = "silent"]
    /\ UNCHANGED <<node, server, st, sock, buf, consoles, failed, ran, intruded, beat>>

\* Mistake: the buffer is not freed.
EndChatKeepsBuffer(c) ==
    /\ st[c] = "read"
    /\ server[c] = "data"
    /\ input[c] = "nothing"
    /\ Close(c)
    /\ Goto(c, "gone")
    /\ UNCHANGED <<node, server, input, buf, consoles, failed, ran, answered, intruded, beat>>

\* wc_worker's tcp_read returns nothing: the buffer is freed, the socket closed.
EndChat(c) ==
    /\ st[c] = "read"
    /\ server[c] = "data"
    /\ input[c] = "nothing"
    /\ buf' = [buf EXCEPT ![c] = FALSE]
    /\ Close(c)
    /\ Goto(c, "gone")
    /\ UNCHANGED <<node, server, input, consoles, failed, ran, answered, intruded, beat>>

\* A protobuf worker reads and decodes.  Only the whole message decodes.
Read(c) ==
    /\ st[c] = "read"
    /\ server[c] # "data"
    /\ input[c] # "silent"
    /\ IF input[c] = "whole"
       THEN Goto(c, "run") /\ UNCHANGED <<sock, failed>>
       ELSE GiveUp(c)
    /\ UNCHANGED <<node, server, input, buf, consoles, ran, answered, intruded, beat>>

\* pbserver_worker prints the number, raftserver_worker evaluates the entry; both
\* close without an answer.
Consume(c) ==
    /\ st[c] = "run"
    /\ server[c] \in {"pb", "raft"}
    /\ Close(c)
    /\ Goto(c, "gone")
    /\ UNCHANGED <<node, server, input, buf, consoles, failed, ran, answered, intruded, beat>>

\* Somebody evaluates without mu_lock_raft1: a raftserver_worker whose 2.5 seconds
\* are over, the console or a callback of app600.
Intrude ==
    /\ ~intruded
    /\ intruded' = TRUE
    /\ UNCHANGED <<node, server, input, st, sock, buf, consoles, failed, ran, answered, beat>>

\* Afterwards raftserver_worker's error may jump into another thread's frame, and
\* its release may be a panic.
Derail(c) ==
    /\ st[c] = "run"
    /\ server[c] = "raft"
    /\ intruded
    /\ node' = "down"
    /\ UNCHANGED <<conns, beat>>

\* raftserver_worker evaluates an entry that does not end.
EvaluateForEver(c) ==
    /\ st[c] = "run"
    /\ server[c] = "raft"
    /\ Goto(c, "stuck")
    /\ UNCHANGED <<node, server, input, sock, buf, consoles, failed, ran, answered, intruded, beat>>

\* cmdserver_worker creates a console, which nobody ever frees, and runs the
\* script on it, which need not end, or on the null pointer.
RunScript(c) ==
    /\ st[c] = "run"
    /\ server[c] = "cmd"
    /\ IF Room
       THEN /\ consoles' = consoles + 1
            /\ ran' = ran \cup {c}
            /\ \E l \in {"answer", "stuck"} : Goto(c, l)
            /\ UNCHANGED node
       ELSE node' = "down" /\ UNCHANGED <<consoles, ran, st>>
    /\ UNCHANGED <<server, input, sock, buf, failed, answered, intruded, beat>>

\* cmdserver_worker writes its answer and closes.
Answer(c) ==
    /\ st[c] = "answer"
    /\ answered' = answered \cup {c}
    /\ Close(c)
    /\ Goto(c, "gone")
    /\ UNCHANGED <<node, server, input, buf, consoles, failed, ran, intruded, beat>>

\* cmdserver_worker's tcp_write fails.
AnswerFails(c) ==
    /\ st[c] = "answer"
    /\ GiveUp(c)
    /\ UNCHANGED <<node, server, input, buf, consoles, ran, answered, intruded, beat>>

Serve(c) ==
    \/ AllocBuffer(c) \/ Chat(c) \/ EndChat(c) \/ Read(c) \/ Consume(c)
    \/ Derail(c) \/ EvaluateForEver(c) \/ RunScript(c) \/ Answer(c) \/ AnswerFails(c)

-----------------------------------------------------------------------------
(* The heartbeat.                                                          *)

\* The interface has its address: heartbeat starts its worker and gives it the
\* address of a local variable.
HbStart ==
    /\ hb = "boot"
    /\ IF Room THEN hb' = "started" /\ UNCHANGED node
               ELSE node' = "down" /\ UNCHANGED hb
    /\ UNCHANGED <<conns, period, hbSock, refused>>

\* heartbeat returns: its frame is gone, the worker may not have read from it yet.
HbReturn ==
    /\ hb = "started"
    /\ hb' = "orphaned"
    /\ UNCHANGED <<node, conns, period, hbSock, refused>>

\* heartbeat_worker copies its argument.
HbCopy ==
    /\ hb \in {"started", "orphaned"}
    /\ period' \in IF hb = "started" THEN {"right"} ELSE {"right", "garbage"}
    /\ hb' = "connect"
    /\ UNCHANGED <<node, conns, hbSock, refused>>

\* tcp_connect: it needs a socket, and somebody at the other end.
HbConnect ==
    /\ hb = "connect"
    /\ Room
    /\ hbSock' = "open"
    /\ hb' = "talk"
    /\ UNCHANGED <<node, conns, period, refused>>

\* Mistake: the worker returns when it cannot connect.
HbRefusedReturns ==
    /\ hb = "connect"
    /\ refused' = TRUE
    /\ hb' = "ended"
    /\ UNCHANGED <<node, conns, period, hbSock>>

\* tcp_connect fails and sock stays what it was; the worker goes on.
HbRefused ==
    /\ hb = "connect"
    /\ refused' = TRUE
    /\ hb' = "talk"
    /\ UNCHANGED <<node, conns, period, hbSock>>

\* What may come of using a pointer to a socket that is not there.
MayFault == node' \in IF hbSock = "open" THEN {"up"} ELSE {"up", "down"}

\* tcp_write; what it returns is ignored.
HbTalk ==
    /\ hb = "talk"
    /\ MayFault
    /\ hb' = "listen"
    /\ UNCHANGED <<conns, period, hbSock, refused>>

\* tcp_read, when the peer answers or hangs up; what it returns is ignored.
HbListen ==
    /\ hb = "listen"
    /\ MayFault
    /\ hb' = "close"
    /\ UNCHANGED <<conns, period, hbSock, refused>>

\* tcp_close; sock points to what was freed.
HbClose ==
    /\ hb = "close"
    /\ MayFault
    /\ hbSock' = IF hbSock = "open" THEN "stale" ELSE hbSock
    /\ hb' = "sleep"
    /\ UNCHANGED <<conns, period, refused>>

\* Mistake: the connection is made once, before the loop.
HbWakeWithoutConnect ==
    /\ hb = "sleep"
    /\ hb' = "talk"
    /\ UNCHANGED <<node, conns, period, hbSock, refused>>

\* thread_sleep(warg.wait_time) ends.
HbWake ==
    /\ hb = "sleep"
    /\ hb' = "connect"
    /\ UNCHANGED <<node, conns, period, hbSock, refused>>

Heartbeat ==
    \/ HbStart \/ HbReturn \/ HbCopy \/ HbConnect \/ HbRefused \/ HbTalk \/ HbListen
    \/ HbClose \/ HbWake

-----------------------------------------------------------------------------

Next ==
    /\ node = "up"
    /\ \/ \E c \in Conns :
            \/ \E s \in Servers : Connect(c, s)
            \/ \E i \in Arrivals : Arrive(c, i)
            \/ Accept(c)
            \/ Serve(c)
       \/ Intrude
       \/ Heartbeat

(* The kernel runs every thread.  Whether the interface ever gets an address, *)
(* a client ever speaks and the heartbeat's peer ever answers is not up to    *)
(* the node, and a sleep whose length is garbage may not end.                 *)
Fairness ==
    /\ \A c \in Conns : WF_vars(node = "up" /\ Accept(c)) /\ WF_vars(node = "up" /\ Serve(c))
    /\ WF_vars(node = "up" /\ (HbCopy \/ HbTalk \/ HbClose))
    /\ WF_vars(node = "up" /\ period = "right" /\ HbWake)

Spec == Init /\ [][Next]_vars /\ Fairness

-----------------------------------------------------------------------------
(* Properties.                                                             *)

\* Every variable has its type.
TypeOK ==
    /\ node \in {"up", "down"}
    /\ server \in [Conns -> Servers]
    /\ input \in [Conns -> Inputs]
    /\ st \in [Conns -> {"none", "queued", "alloc", "read", "run", "answer", "stuck", "gone"}]
    /\ sock \in [Conns -> {"none", "open", "closed"}]
    /\ buf \in [Conns -> BOOLEAN]
    /\ consoles \in Nat
    /\ failed \subseteq Conns
    /\ ran \subseteq Conns
    /\ answered \subseteq Conns
    /\ intruded \in BOOLEAN
    /\ hb \in {"boot", "started", "orphaned", "connect", "talk", "listen", "close", "sleep"}
    /\ period \in {"unread", "right", "garbage"}
    /\ hbSock \in {"wild", "open", "stale"}
    /\ refused \in BOOLEAN

\* No connection is in progress.
Quiet == \A c \in Conns : st[c] \in {"none", "gone"}

(***************************************************************************)
(* Where the heap goes.  Once no connection is in progress the services    *)
(* have given everything back, save one socket for every worker that gave  *)
(* up and one console for every command that was run: what failing and     *)
(* succeeding requests cost for good, whatever mixture of them there was.  *)
(***************************************************************************)
LossAccounted ==
    Quiet => /\ Cardinality(OpenSockets) = Cardinality(failed)
             /\ Cardinality(Workers) + Cardinality(Buffers) = 0
             /\ consoles = Cardinality(ran)

(***************************************************************************)
(* The services take the node down for three reasons only: the heap is     *)
(* full, and a server passed the null pointer on; the heartbeat could not  *)
(* connect, and used a socket that was never opened or is already freed;   *)
(* or raft1 evaluates an entry after somebody evaluated without its mutex. *)
(***************************************************************************)
DownHasCause ==
    node = "down" =>
        \/ ~Room
        \/ refused /\ hbSock # "open"
        \/ intruded /\ \E c \in Conns : server[c] = "raft" /\ st[c] = "run"

(***************************************************************************)
(* No client keeps a server from another one: once a connection's request  *)
(* has arrived it is answered, or its worker ends or is busy with it for   *)
(* ever, however long others talk or say nothing, unless the node goes     *)
(* down.                                                                   *)
(***************************************************************************)
EveryoneServed ==
    \A c \in Conns :
        st[c] \in {"queued", "alloc", "read"} /\ input[c] # "silent"
          ~> (c \in answered \/ st[c] \in {"gone", "stuck"} \/ node = "down")

(***************************************************************************)
(* The heartbeat outlives every refusal: its worker comes back to          *)
(* tcp_connect again and again, provided that it read its period in time   *)
(* and that the peer it did reach does not leave it in tcp_read for ever.  *)
(***************************************************************************)
HeartbeatGoesOn ==
    []<>(hb # "listen") =>
        []<>(hb \in {"boot", "connect"} \/ period = "garbage" \/ node = "down")
=============================================================================
