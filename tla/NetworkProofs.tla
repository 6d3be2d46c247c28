---------------------------- MODULE NetworkProofs ----------------------------
(***************************************************************************)
(* Proofs about the network services: Services, for any number of          *)
(* connections and any size of the heap; CoapCodec, for any packets, any   *)
(* datagrams and any size of the buffer and of the table of options; and   *)
(* CoapServer, for any clients, requests and leftovers.                    *)
(***************************************************************************)
EXTENDS Services, CoapCodec, CoapServer, FiniteSetTheorems, TLAPS

\* A socket is open while its connection is in progress, and for ever if the
\* worker gave up.
SocketsInStep ==
    /\ \A c \in Conns :
         sock[c] = "open" <=> st[c] \notin {"none", "gone"} \/ c \in failed
    /\ \A c \in failed : st[c] = "gone"

\* Only a data worker allocates a buffer, and has it while it reads.
BuffersInStep ==
    \A c \in Conns :
        /\ st[c] = "alloc" => server[c] = "data"
        /\ buf[c] = TRUE => server[c] = "data" /\ st[c] = "read"

\* There is a console for each command that was run.
ConsolesInStep ==
    /\ \A c \in ran : st[c] \in {"answer", "stuck", "gone"}
    /\ consoles = Cardinality(ran)

\* The heartbeat talks on its socket, or on none because it could not connect.
BeatInStep == hb \in {"talk", "listen", "close"} /\ hbSock # "open" => refused = TRUE

IndInv ==
    TypeOK /\ SocketsInStep /\ BuffersInStep /\ ConsolesInStep /\ BeatInStep /\ DownHasCause

-----------------------------------------------------------------------------
(* Every action keeps the invariant.                                       *)

\* A client connects: the kernel opens a socket.
LEMMA ConnectKeeps ==
  ASSUME IndInv, NEW c \in Conns, NEW s \in Servers, node = "up", Connect(c, s)
  PROVE  IndInv'
<1> USE DEF IndInv, TypeOK, conns, beat, Connect, Goto
<1>1. TypeOK'
  OBVIOUS
<1>2. SocketsInStep'
  BY DEF SocketsInStep
<1>3. BuffersInStep'
  BY DEF BuffersInStep
<1>4. ConsolesInStep'
  BY DEF ConsolesInStep
<1>5. BeatInStep'
  BY DEF BeatInStep
<1>6. DownHasCause'
  BY DEF DownHasCause
<1> QED
  BY <1>1, <1>2, <1>3, <1>4, <1>5, <1>6

\* A client speaks, or hangs up.
LEMMA ArriveKeeps ==
  ASSUME IndInv, NEW c \in Conns, NEW i \in Arrivals, node = "up", Arrive(c, i)
  PROVE  IndInv'
<1> USE DEF IndInv, TypeOK, conns, beat, Arrive, Inputs
<1>1. TypeOK'
  OBVIOUS
<1>2. SocketsInStep'
  BY DEF SocketsInStep
<1>3. BuffersInStep'
  BY DEF BuffersInStep
<1>4. ConsolesInStep'
  BY DEF ConsolesInStep
<1>5. BeatInStep'
  BY DEF BeatInStep
<1>6. DownHasCause'
  BY DEF DownHasCause
<1> QED
  BY <1>1, <1>2, <1>3, <1>4, <1>5, <1>6

\* A server starts a worker, or resumes the null pointer on a full heap.
LEMMA AcceptKeeps ==
  ASSUME IndInv, NEW c \in Conns, node = "up", Accept(c)
  PROVE  IndInv'
<1> USE DEF IndInv, TypeOK, conns, beat, Accept, Goto
<1>1. TypeOK'
  OBVIOUS
<1>2. SocketsInStep'
  BY DEF SocketsInStep
<1>3. BuffersInStep'
  BY DEF BuffersInStep
<1>4. ConsolesInStep'
  BY DEF ConsolesInStep
<1>5. BeatInStep'
  BY DEF BeatInStep
<1>6. DownHasCause'
  BY DEF DownHasCause, Room, Used, OpenSockets, Workers, Buffers
<1> QED
  BY <1>1, <1>2, <1>3, <1>4, <1>5, <1>6

\* wc_worker gets its buffer, or gives up.
LEMMA AllocBufferKeeps ==
  ASSUME IndInv, NEW c \in Conns, node = "up", AllocBuffer(c)
  PROVE  IndInv'
<1> USE DEF IndInv, TypeOK, conns, beat, AllocBuffer, GiveUp, Goto
<1>1. TypeOK'
  OBVIOUS
<1>2. SocketsInStep'
  BY DEF SocketsInStep
<1>3. BuffersInStep'
  BY DEF BuffersInStep
<1>4. ConsolesInStep'
  BY DEF ConsolesInStep
<1>5. BeatInStep'
  BY DEF BeatInStep
<1>6. DownHasCause'
  BY DEF DownHasCause
<1> QED
  BY <1>1, <1>2, <1>3, <1>4, <1>5, <1>6

\* wc_worker answers and reads on.
LEMMA ChatKeeps ==
  ASSUME IndInv, NEW c \in Conns, node = "up", Chat(c)
  PROVE  IndInv'
<1> USE DEF IndInv, TypeOK, conns, beat, Chat, Inputs
<1>1. TypeOK'
  OBVIOUS
<1>2. SocketsInStep'
  BY DEF SocketsInStep
<1>3. BuffersInStep'
  BY DEF BuffersInStep
<1>4. ConsolesInStep'
  BY DEF ConsolesInStep
<1>5. BeatInStep'
  BY DEF BeatInStep
<1>6. DownHasCause'
  BY DEF DownHasCause
<1> QED
  BY <1>1, <1>2, <1>3, <1>4, <1>5, <1>6

\* wc_worker frees its buffer and closes.
LEMMA EndChatKeeps ==
  ASSUME IndInv, NEW c \in Conns, node = "up", EndChat(c)
  PROVE  IndInv'
<1> USE DEF IndInv, TypeOK, conns, beat, EndChat, Close, Goto
<1>1. TypeOK'
  OBVIOUS
<1>2. SocketsInStep'
  BY DEF SocketsInStep
<1>3. BuffersInStep'
  BY DEF BuffersInStep
<1>4. ConsolesInStep'
  BY DEF ConsolesInStep
<1>5. BeatInStep'
  BY DEF BeatInStep
<1>6. DownHasCause'
  BY DEF DownHasCause
<1> QED
  BY <1>1, <1>2, <1>3, <1>4, <1>5, <1>6

\* A protobuf worker decodes its message, or gives up.
LEMMA ReadKeeps ==
  ASSUME IndInv, NEW c \in Conns, node = "up", Read(c)
  PROVE  IndInv'
<1> USE DEF IndInv, TypeOK, conns, beat, Read, GiveUp, Goto
<1>1. TypeOK'
  OBVIOUS
<1>2. SocketsInStep'
  BY DEF SocketsInStep
<1>3. BuffersInStep'
  BY DEF BuffersInStep
<1>4. ConsolesInStep'
  BY DEF ConsolesInStep
<1>5. BeatInStep'
  BY DEF BeatInStep
<1>6. DownHasCause'
  BY DEF DownHasCause
<1> QED
  BY <1>1, <1>2, <1>3, <1>4, <1>5, <1>6

\* pbserver_worker or raftserver_worker closes.
LEMMA ConsumeKeeps ==
  ASSUME IndInv, NEW c \in Conns, node = "up", Consume(c)
  PROVE  IndInv'
<1> USE DEF IndInv, TypeOK, conns, beat, Consume, Close, Goto
<1>1. TypeOK'
  OBVIOUS
<1>2. SocketsInStep'
  BY DEF SocketsInStep
<1>3. BuffersInStep'
  BY DEF BuffersInStep
<1>4. ConsolesInStep'
  BY DEF ConsolesInStep
<1>5. BeatInStep'
  BY DEF BeatInStep
<1>6. DownHasCause'
  BY DEF DownHasCause
<1> QED
  BY <1>1, <1>2, <1>3, <1>4, <1>5, <1>6

\* Somebody evaluates without the mutex.
LEMMA IntrudeKeeps ==
  ASSUME IndInv, node = "up", Intrude
  PROVE  IndInv'
<1> USE DEF IndInv, TypeOK, conns, beat, Intrude
<1>1. TypeOK'
  OBVIOUS
<1>2. SocketsInStep'
  BY DEF SocketsInStep
<1>3. BuffersInStep'
  BY DEF BuffersInStep
<1>4. ConsolesInStep'
  BY DEF ConsolesInStep
<1>5. BeatInStep'
  BY DEF BeatInStep
<1>6. DownHasCause'
  BY DEF DownHasCause
<1> QED
  BY <1>1, <1>2, <1>3, <1>4, <1>5, <1>6

\* raftserver_worker takes the node down.
LEMMA DerailKeeps ==
  ASSUME IndInv, NEW c \in Conns, node = "up", Derail(c)
  PROVE  IndInv'
<1> USE DEF IndInv, TypeOK, conns, beat, Derail
<1>1. TypeOK'
  OBVIOUS
<1>2. SocketsInStep'
  BY DEF SocketsInStep
<1>3. BuffersInStep'
  BY DEF BuffersInStep
<1>4. ConsolesInStep'
  BY DEF ConsolesInStep
<1>5. BeatInStep'
  BY DEF BeatInStep
<1>6. DownHasCause'
  BY DEF DownHasCause
<1> QED
  BY <1>1, <1>2, <1>3, <1>4, <1>5, <1>6

\* raftserver_worker evaluates for ever.
LEMMA EvaluateForEverKeeps ==
  ASSUME IndInv, NEW c \in Conns, node = "up", EvaluateForEver(c)
  PROVE  IndInv'
<1> USE DEF IndInv, TypeOK, conns, beat, EvaluateForEver, Goto
<1>1. TypeOK'
  OBVIOUS
<1>2. SocketsInStep'
  BY DEF SocketsInStep
<1>3. BuffersInStep'
  BY DEF BuffersInStep
<1>4. ConsolesInStep'
  BY DEF ConsolesInStep
<1>5. BeatInStep'
  BY DEF BeatInStep
<1>6. DownHasCause'
  BY DEF DownHasCause
<1> QED
  BY <1>1, <1>2, <1>3, <1>4, <1>5, <1>6

\* cmdserver_worker creates a console, or runs the script on the null pointer.
LEMMA RunScriptKeeps ==
  ASSUME IndInv, NEW c \in Conns, node = "up", RunScript(c)
  PROVE  IndInv'
<1> USE DEF IndInv, TypeOK, conns, beat, RunScript, Goto
<1>1. TypeOK'
  OBVIOUS
<1>2. SocketsInStep'
  BY DEF SocketsInStep
<1>3. BuffersInStep'
  BY DEF BuffersInStep
<1>4. ConsolesInStep'
  <2>1. c \notin ran
    BY DEF ConsolesInStep
  <2>2. IsFiniteSet(ran)
    BY ConnsAssumption, FS_Subset
  <2>3. Cardinality(ran \cup {c}) = Cardinality(ran) + 1
    BY <2>1, <2>2, FS_AddElement
  <2> QED
    BY <2>3 DEF ConsolesInStep
<1>5. BeatInStep'
  BY DEF BeatInStep
<1>6. DownHasCause'
  BY DEF DownHasCause, Room, Used, OpenSockets, Workers, Buffers
<1> QED
  BY <1>1, <1>2, <1>3, <1>4, <1>5, <1>6

\* cmdserver_worker answers and closes.
LEMMA AnswerKeeps ==
  ASSUME IndInv, NEW c \in Conns, node = "up", Answer(c)
  PROVE  IndInv'
<1> USE DEF IndInv, TypeOK, conns, beat, Answer, Close, Goto
<1>1. TypeOK'
  OBVIOUS
<1>2. SocketsInStep'
  BY DEF SocketsInStep
<1>3. BuffersInStep'
  BY DEF BuffersInStep
<1>4. ConsolesInStep'
  BY DEF ConsolesInStep
<1>5. BeatInStep'
  BY DEF BeatInStep
<1>6. DownHasCause'
  BY DEF DownHasCause
<1> QED
  BY <1>1, <1>2, <1>3, <1>4, <1>5, <1>6

\* cmdserver_worker cannot write and gives up.
LEMMA AnswerFailsKeeps ==
  ASSUME IndInv, NEW c \in Conns, node = "up", AnswerFails(c)
  PROVE  IndInv'
<1> USE DEF IndInv, TypeOK, conns, beat, AnswerFails, GiveUp, Goto
<1>1. TypeOK'
  OBVIOUS
<1>2. SocketsInStep'
  BY DEF SocketsInStep
<1>3. BuffersInStep'
  BY DEF BuffersInStep
<1>4. ConsolesInStep'
  BY DEF ConsolesInStep
<1>5. BeatInStep'
  BY DEF BeatInStep
<1>6. DownHasCause'
  BY DEF DownHasCause
<1> QED
  BY <1>1, <1>2, <1>3, <1>4, <1>5, <1>6

\* heartbeat starts its worker, or resumes the null pointer.
LEMMA HbStartKeeps ==
  ASSUME IndInv, node = "up", HbStart
  PROVE  IndInv'
<1> USE DEF IndInv, TypeOK, conns, beat, HbStart
<1>1. TypeOK'
  OBVIOUS
<1>2. SocketsInStep'
  BY DEF SocketsInStep
<1>3. BuffersInStep'
  BY DEF BuffersInStep
<1>4. ConsolesInStep'
  BY DEF ConsolesInStep
<1>5. BeatInStep'
  BY DEF BeatInStep
<1>6. DownHasCause'
  BY DEF DownHasCause, Room, Used, OpenSockets, Workers, Buffers
<1> QED
  BY <1>1, <1>2, <1>3, <1>4, <1>5, <1>6

\* heartbeat returns under its worker.
LEMMA HbReturnKeeps ==
  ASSUME IndInv, node = "up", HbReturn
  PROVE  IndInv'
<1> USE DEF IndInv, TypeOK, conns, beat, HbReturn
<1>1. TypeOK'
  OBVIOUS
<1>2. SocketsInStep'
  BY DEF SocketsInStep
<1>3. BuffersInStep'
  BY DEF BuffersInStep
<1>4. ConsolesInStep'
  BY DEF ConsolesInStep
<1>5. BeatInStep'
  BY DEF BeatInStep
<1>6. DownHasCause'
  BY DEF DownHasCause
<1> QED
  BY <1>1, <1>2, <1>3, <1>4, <1>5, <1>6

\* heartbeat_worker copies its argument.
LEMMA HbCopyKeeps ==
  ASSUME IndInv, node = "up", HbCopy
  PROVE  IndInv'
<1> USE DEF IndInv, TypeOK, conns, beat, HbCopy
<1>1. TypeOK'
  OBVIOUS
<1>2. SocketsInStep'
  BY DEF SocketsInStep
<1>3. BuffersInStep'
  BY DEF BuffersInStep
<1>4. ConsolesInStep'
  BY DEF ConsolesInStep
<1>5. BeatInStep'
  BY DEF BeatInStep
<1>6. DownHasCause'
  BY DEF DownHasCause
<1> QED
  BY <1>1, <1>2, <1>3, <1>4, <1>5, <1>6

\* heartbeat_worker connects.
LEMMA HbConnectKeeps ==
  ASSUME IndInv, node = "up", HbConnect
  PROVE  IndInv'
<1> USE DEF IndInv, TypeOK, conns, beat, HbConnect
<1>1. TypeOK'
  OBVIOUS
<1>2. SocketsInStep'
  BY DEF SocketsInStep
<1>3. BuffersInStep'
  BY DEF BuffersInStep
<1>4. ConsolesInStep'
  BY DEF ConsolesInStep
<1>5. BeatInStep'
  BY DEF BeatInStep
<1>6. DownHasCause'
  BY DEF DownHasCause
<1> QED
  BY <1>1, <1>2, <1>3, <1>4, <1>5, <1>6

\* heartbeat_worker cannot connect and goes on.
LEMMA HbRefusedKeeps ==
  ASSUME IndInv, node = "up", HbRefused
  PROVE  IndInv'
<1> USE DEF IndInv, TypeOK, conns, beat, HbRefused
<1>1. TypeOK'
  OBVIOUS
<1>2. SocketsInStep'
  BY DEF SocketsInStep
<1>3. BuffersInStep'
  BY DEF BuffersInStep
<1>4. ConsolesInStep'
  BY DEF ConsolesInStep
<1>5. BeatInStep'
  BY DEF BeatInStep
<1>6. DownHasCause'
  BY DEF DownHasCause
<1> QED
  BY <1>1, <1>2, <1>3, <1>4, <1>5, <1>6

\* heartbeat_worker reads.
LEMMA HbListenKeeps ==
  ASSUME IndInv, node = "up", HbListen
  PROVE  IndInv'
<1> USE DEF IndInv, TypeOK, conns, beat, HbListen, MayFault
<1>1. TypeOK'
  OBVIOUS
<1>2. SocketsInStep'
  BY DEF SocketsInStep
<1>3. BuffersInStep'
  BY DEF BuffersInStep
<1>4. ConsolesInStep'
  BY DEF ConsolesInStep
<1>5. BeatInStep'
  BY DEF BeatInStep
<1>6. DownHasCause'
  BY DEF DownHasCause, BeatInStep
<1> QED
  BY <1>1, <1>2, <1>3, <1>4, <1>5, <1>6

\* heartbeat_worker writes.
LEMMA HbTalkKeeps ==
  ASSUME IndInv, node = "up", HbTalk
  PROVE  IndInv'
<1> USE DEF IndInv, TypeOK, conns, beat, HbTalk, MayFault
<1>1. TypeOK'
  OBVIOUS
<1>2. SocketsInStep'
  BY DEF SocketsInStep
<1>3. BuffersInStep'
  BY DEF BuffersInStep
<1>4. ConsolesInStep'
  BY DEF ConsolesInStep
<1>5. BeatInStep'
  BY DEF BeatInStep
<1>6. DownHasCause'
  BY DEF DownHasCause, BeatInStep
<1> QED
  BY <1>1, <1>2, <1>3, <1>4, <1>5, <1>6

\* heartbeat_worker closes.
LEMMA HbCloseKeeps ==
  ASSUME IndInv, node = "up", HbClose
  PROVE  IndInv'
<1> USE DEF IndInv, TypeOK, conns, beat, HbClose, MayFault
<1>1. TypeOK'
  OBVIOUS
<1>2. SocketsInStep'
  BY DEF SocketsInStep
<1>3. BuffersInStep'
  BY DEF BuffersInStep
<1>4. ConsolesInStep'
  BY DEF ConsolesInStep
<1>5. BeatInStep'
  BY DEF BeatInStep
<1>6. DownHasCause'
  BY DEF DownHasCause, BeatInStep
<1> QED
  BY <1>1, <1>2, <1>3, <1>4, <1>5, <1>6

\* heartbeat_worker has slept.
LEMMA HbWakeKeeps ==
  ASSUME IndInv, node = "up", HbWake
  PROVE  IndInv'
<1> USE DEF IndInv, TypeOK, conns, beat, HbWake
<1>1. TypeOK'
  OBVIOUS
<1>2. SocketsInStep'
  BY DEF SocketsInStep
<1>3. BuffersInStep'
  BY DEF BuffersInStep
<1>4. ConsolesInStep'
  BY DEF ConsolesInStep
<1>5. BeatInStep'
  BY DEF BeatInStep
<1>6. DownHasCause'
  BY DEF DownHasCause
<1> QED
  BY <1>1, <1>2, <1>3, <1>4, <1>5, <1>6

\* The invariant holds when the node comes up.
LEMMA InitInv == Init => IndInv
<1> SUFFICES ASSUME Init PROVE IndInv
  OBVIOUS
<1> USE DEF Init
<1>1. TypeOK
  BY DEF TypeOK, Servers, Inputs
<1>2. SocketsInStep /\ BuffersInStep /\ BeatInStep /\ DownHasCause
  BY DEF SocketsInStep, BuffersInStep, BeatInStep, DownHasCause
<1>3. ConsolesInStep
  BY FS_EmptySet DEF ConsolesInStep
<1> QED
  BY <1>1, <1>2, <1>3 DEF IndInv

\* Every step keeps it.
LEMMA StepInv == IndInv /\ [Next]_vars => IndInv'
<1> SUFFICES ASSUME IndInv, [Next]_vars PROVE IndInv'
  OBVIOUS
<1>1. CASE UNCHANGED vars
  BY <1>1 DEF vars, conns, beat, IndInv, TypeOK, SocketsInStep, BuffersInStep, ConsolesInStep,
     BeatInStep, DownHasCause, Room, Used, OpenSockets, Workers, Buffers
<1>2. ASSUME node = "up", NEW c \in Conns, NEW s \in Servers, Connect(c, s)
      PROVE  IndInv'
  BY <1>2, ConnectKeeps
<1>6. ASSUME node = "up", NEW c \in Conns, NEW i \in Arrivals, Arrive(c, i)
      PROVE  IndInv'
  BY <1>6, ArriveKeeps
<1>7. ASSUME node = "up", Intrude
      PROVE  IndInv'
  BY <1>7, IntrudeKeeps
<1>3. ASSUME node = "up", NEW c \in Conns, Accept(c)
      PROVE  IndInv'
  BY <1>3, AcceptKeeps
<1>4. ASSUME node = "up", NEW c \in Conns, Serve(c)
      PROVE  IndInv'
  BY <1>4, AllocBufferKeeps, ChatKeeps, EndChatKeeps, ReadKeeps, ConsumeKeeps, DerailKeeps,
     EvaluateForEverKeeps, RunScriptKeeps, AnswerKeeps, AnswerFailsKeeps DEF Serve
<1>5. ASSUME node = "up", Heartbeat
      PROVE  IndInv'
  BY <1>5, HbStartKeeps, HbReturnKeeps, HbCopyKeeps, HbConnectKeeps, HbRefusedKeeps, HbTalkKeeps,
     HbListenKeeps, HbCloseKeeps, HbWakeKeeps DEF Heartbeat
<1> QED
  BY <1>1, <1>2, <1>3, <1>4, <1>5, <1>6, <1>7 DEF Next

-----------------------------------------------------------------------------

\* The inductive invariant holds throughout.
THEOREM Invariance == Spec => []IndInv
BY InitInv, StepInv, PTL DEF Spec

\* Every variable keeps its type.
THEOREM TypeCorrect == Spec => []TypeOK
BY Invariance, PTL DEF IndInv

\* Between connections the services hold nothing but a socket for every worker
\* that gave up and a console for every command run (cmdserver_worker).
THEOREM LossIsAccounted == Spec => []LossAccounted
<1>1. ASSUME IndInv PROVE LossAccounted
  <2> SUFFICES ASSUME Quiet
               PROVE  /\ Cardinality(OpenSockets) = Cardinality(failed)
                      /\ Cardinality(Workers) + Cardinality(Buffers) = 0
                      /\ consoles = Cardinality(ran)
    BY DEF LossAccounted
  <2>1. OpenSockets = failed
    BY <1>1 DEF IndInv, TypeOK, SocketsInStep, Quiet, OpenSockets
  <2>2. Workers = {}
    BY DEF Quiet, Workers
  <2>3. Buffers = {}
    BY <1>1 DEF IndInv, TypeOK, BuffersInStep, Quiet, Buffers
  <2>4. Cardinality({}) = 0
    BY FS_EmptySet
  <2> QED
    BY <1>1, <2>1, <2>2, <2>3, <2>4 DEF IndInv, ConsolesInStep
<1> QED
  BY <1>1, Invariance, PTL

\* The node goes down only on a full heap, on the socket of a heartbeat that could
\* not connect (heartbeat_worker), or in an evaluation of raftserver_worker after
\* somebody evaluated without its mutex.
THEOREM DownsHaveCause == Spec => []DownHasCause
BY Invariance, PTL DEF IndInv

-----------------------------------------------------------------------------
(* The loops of coap_parse and coap_build, turn by turn.                   *)

\* Induction over the natural numbers, for a set: were m the number left out, each of
\* 0 .. m would have a place of its own in 1 .. m.
LEMMA SetInduction ==
  ASSUME NEW D, 0 \in D, \A n \in Nat : n \in D => n + 1 \in D
  PROVE  \A n \in Nat : n \in D
<1> SUFFICES ASSUME NEW m \in Nat, m \notin D PROVE FALSE
  OBVIOUS
<1> DEFINE h == [x \in 0 .. m |-> IF x \in D THEN x + 1 ELSE x]
<1>1. h \in [0 .. m -> 1 .. m]
  <2> SUFFICES ASSUME NEW x \in 0 .. m
               PROVE  (IF x \in D THEN x + 1 ELSE x) \in 1 .. m
    OBVIOUS
  <2>1. CASE x \in D
    BY <2>1
  <2>2. CASE x \notin D
    BY <2>2
  <2> QED
    BY <2>1, <2>2
<1>2. /\ Cardinality(1 .. m) < Cardinality(0 .. m)
      /\ IsFiniteSet(1 .. m) /\ IsFiniteSet(0 .. m)
  <2>1. Cardinality(1 .. m) = m
    BY FS_Interval
  <2>2. Cardinality(0 .. m) = m + 1
    BY FS_Interval
  <2> QED
    BY <2>1, <2>2, FS_Interval
<1>3. PICK x \in 0 .. m, y \in 0 .. m : x # y /\ h[x] = h[y]
  <2> HIDE DEF h
  <2> QED
    BY <1>1, <1>2, FS_PigeonHole
<1>4. h[x] \in D <=> x \in D
  OBVIOUS
<1>5. h[y] \in D <=> y \in D
  OBVIOUS
<1> QED
  BY <1>3, <1>4, <1>5

\* There is a function that tells the state of the loop over the bytes after each turn.
LEMMA OptionLoopExists ==
  ASSUME NEW s
  PROVE  \E f : f = [n \in Nat |-> IF n = 0 THEN noOptions(s) ELSE nextOption(f[n - 1])]
<1> DEFINE Rec(g, n) ==
             \A i \in 0 .. n : g[i] = IF i = 0 THEN noOptions(s) ELSE nextOption(g[i - 1])
<1>1. \A n \in Nat : \E g : Rec(g, n)
  <2> DEFINE D == {n \in Nat : \E g : Rec(g, n)}
  <2>1. 0 \in D
    <3>1. Rec([i \in 0 .. 0 |-> noOptions(s)], 0)
      OBVIOUS
    <3> QED
      BY <3>1
  <2>2. ASSUME NEW n \in Nat, n \in D PROVE n + 1 \in D
    <3> PICK g : Rec(g, n)
      BY <2>2
    <3> DEFINE e == [i \in 0 .. n + 1 |-> IF i <= n THEN g[i] ELSE nextOption(g[n])]
    <3>1. ASSUME NEW i \in 0 .. n + 1
          PROVE  e[i] = IF i = 0 THEN noOptions(s) ELSE nextOption(e[i - 1])
      <4>1. CASE i <= n
        BY <4>1
      <4>2. CASE i = n + 1
        BY <4>2
      <4> QED
        BY <4>1, <4>2
    <3>2. Rec(e, n + 1)
      BY <3>1
    <3> HIDE DEF Rec, e
    <3>3. n + 1 \in Nat /\ \E d : Rec(d, n + 1)
      BY <3>2
    <3> QED
      BY <3>3
  <2> HIDE DEF D
  <2>3. \A n \in Nat : n \in D
    BY <2>1, <2>2, SetInduction
  <2> QED
    BY <2>3 DEF D
<1>2. ASSUME NEW m \in Nat, NEW n \in Nat, m <= n, NEW g, NEW h, Rec(g, m), Rec(h, n)
      PROVE  \A i \in 0 .. m : g[i] = h[i]
  <2> DEFINE D == {k \in Nat : k <= m => g[k] = h[k]}
  <2>1. 0 \in D
    BY <1>2
  <2>2. ASSUME NEW k \in Nat, k \in D PROVE k + 1 \in D
    <3>1. CASE k + 1 > m
      BY <2>2, <3>1
    <3>2. CASE k + 1 <= m
      <4>1. g[k + 1] = nextOption(g[k]) /\ h[k + 1] = nextOption(h[k])
        BY <1>2, <3>2
      <4>2. g[k] = h[k]
        BY <2>2, <3>2
      <4> QED
        BY <4>1, <4>2
    <3> QED
      BY <3>1, <3>2
  <2> HIDE DEF D
  <2>3. \A k \in Nat : k \in D
    BY <2>1, <2>2, SetInduction
  <2> QED
    BY <2>3 DEF D
<1> DEFINE G(n) == CHOOSE g : Rec(g, n)
           f == [n \in Nat |-> G(n)[n]]
<1> HIDE DEF Rec
<1>3. \A n \in Nat : Rec(G(n), n)
  BY <1>1
<1> HIDE DEF G
<1>4. ASSUME NEW i \in Nat PROVE f[i] = IF i = 0 THEN noOptions(s) ELSE nextOption(f[i - 1])
  <2>1. G(i)[i] = IF i = 0 THEN noOptions(s) ELSE nextOption(G(i)[i - 1])
    BY <1>3 DEF Rec
  <2>2. ASSUME i > 0 PROVE G(i)[i - 1] = f[i - 1]
    <3>1. i - 1 \in Nat
      BY <2>2
    <3>2. Rec(G(i), i) /\ Rec(G(i - 1), i - 1)
      BY <1>3, <3>1
    <3>3. G(i - 1)[i - 1] = G(i)[i - 1]
      BY <1>2, <3>1, <3>2
    <3> QED
      BY <3>1, <3>3
  <2> QED
    BY <2>1, <2>2
<1>5. f = [i \in Nat |-> IF i = 0 THEN noOptions(s) ELSE nextOption(f[i - 1])]
  <2>1. f = [i \in Nat |-> f[i]]
    OBVIOUS
  <2> HIDE DEF f
  <2> QED
    BY <1>4, <2>1
<1> QED
  BY <1>5

\* The loop over the bytes of the options, turn by turn.
LEMMA OptionLoopDef ==
  ASSUME NEW s
  PROVE  /\ optionLoop(s)[0] = noOptions(s)
         /\ \A n \in Nat : optionLoop(s)[n + 1] = nextOption(optionLoop(s)[n])
<1> DEFINE f == optionLoop(s)
           body(n) == IF n = 0 THEN noOptions(s) ELSE nextOption(f[n - 1])
<1>1. f = [n \in Nat |-> body(n)]
  BY OptionLoopExists DEF optionLoop
<1>2. \A n \in Nat : f[n] = body(n)
  <2> HIDE DEF body, f
  <2> QED
    BY <1>1
<1>3. f[0] = noOptions(s)
  BY <1>2
<1>4. ASSUME NEW n \in Nat PROVE f[n + 1] = nextOption(f[n])
  <2>1. n + 1 \in Nat /\ n + 1 # 0 /\ (n + 1) - 1 = n
    OBVIOUS
  <2>2. f[n + 1] = body(n + 1)
    BY <1>2
  <2> QED
    BY <2>1, <2>2
<1> QED
  BY <1>3, <1>4

\* There is one for the loop over the options of a packet.
LEMMA BuildLoopExists ==
  ASSUME NEW buflen, NEW pkt
  PROVE  \E f : f = [n \in Nat |-> IF n = 0 THEN headOf(pkt)
                                   ELSE addOption(f[n - 1], pkt.opts[n], buflen)]
<1> DEFINE Rec(g, n) ==
             \A i \in 0 .. n : g[i] = IF i = 0 THEN headOf(pkt)
                                      ELSE addOption(g[i - 1], pkt.opts[i], buflen)
<1>1. \A n \in Nat : \E g : Rec(g, n)
  <2> DEFINE D == {n \in Nat : \E g : Rec(g, n)}
  <2>1. 0 \in D
    <3>1. Rec([i \in 0 .. 0 |-> headOf(pkt)], 0)
      OBVIOUS
    <3> QED
      BY <3>1
  <2>2. ASSUME NEW n \in Nat, n \in D PROVE n + 1 \in D
    <3> PICK g : Rec(g, n)
      BY <2>2
    <3> DEFINE e == [i \in 0 .. n + 1 |-> IF i <= n THEN g[i]
                                          ELSE addOption(g[n], pkt.opts[n + 1], buflen)]
    <3>1. ASSUME NEW i \in 0 .. n + 1
          PROVE  e[i] = IF i = 0 THEN headOf(pkt) ELSE addOption(e[i - 1], pkt.opts[i], buflen)
      <4>1. CASE i <= n
        BY <4>1
      <4>2. CASE i = n + 1
        BY <4>2
      <4> QED
        BY <4>1, <4>2
    <3>2. Rec(e, n + 1)
      BY <3>1
    <3> HIDE DEF Rec, e
    <3>3. n + 1 \in Nat /\ \E d : Rec(d, n + 1)
      BY <3>2
    <3> QED
      BY <3>3
  <2> HIDE DEF D
  <2>3. \A n \in Nat : n \in D
    BY <2>1, <2>2, SetInduction
  <2> QED
    BY <2>3 DEF D
<1>2. ASSUME NEW m \in Nat, NEW n \in Nat, m <= n, NEW g, NEW h, Rec(g, m), Rec(h, n)
      PROVE  \A i \in 0 .. m : g[i] = h[i]
  <2> DEFINE D == {k \in Nat : k <= m => g[k] = h[k]}
  <2>1. 0 \in D
    BY <1>2
  <2>2. ASSUME NEW k \in Nat, k \in D PROVE k + 1 \in D
    <3>1. CASE k + 1 > m
      BY <2>2, <3>1
    <3>2. CASE k + 1 <= m
      <4>1. /\ g[k + 1] = addOption(g[k], pkt.opts[k + 1], buflen)
            /\ h[k + 1] = addOption(h[k], pkt.opts[k + 1], buflen)
        BY <1>2, <3>2
      <4>2. g[k] = h[k]
        BY <2>2, <3>2
      <4> QED
        BY <4>1, <4>2
    <3> QED
      BY <3>1, <3>2
  <2> HIDE DEF D
  <2>3. \A k \in Nat : k \in D
    BY <2>1, <2>2, SetInduction
  <2> QED
    BY <2>3 DEF D
<1> DEFINE G(n) == CHOOSE g : Rec(g, n)
           f == [n \in Nat |-> G(n)[n]]
<1> HIDE DEF Rec
<1>3. \A n \in Nat : Rec(G(n), n)
  BY <1>1
<1> HIDE DEF G
<1>4. ASSUME NEW i \in Nat
      PROVE  f[i] = IF i = 0 THEN headOf(pkt) ELSE addOption(f[i - 1], pkt.opts[i], buflen)
  <2>1. G(i)[i] = IF i = 0 THEN headOf(pkt) ELSE addOption(G(i)[i - 1], pkt.opts[i], buflen)
    BY <1>3 DEF Rec
  <2>2. ASSUME i > 0 PROVE G(i)[i - 1] = f[i - 1]
    <3>1. i - 1 \in Nat
      BY <2>2
    <3>2. Rec(G(i), i) /\ Rec(G(i - 1), i - 1)
      BY <1>3, <3>1
    <3>3. G(i - 1)[i - 1] = G(i)[i - 1]
      BY <1>2, <3>1, <3>2
    <3> QED
      BY <3>1, <3>3
  <2> QED
    BY <2>1, <2>2
<1>5. f = [i \in Nat |-> IF i = 0 THEN headOf(pkt) ELSE addOption(f[i - 1], pkt.opts[i], buflen)]
  <2>1. f = [i \in Nat |-> f[i]]
    OBVIOUS
  <2> HIDE DEF f
  <2> QED
    BY <1>4, <2>1
<1> QED
  BY <1>5

\* The loop over the options of a packet, turn by turn.
LEMMA BuildLoopDef ==
  ASSUME NEW buflen, NEW pkt
  PROVE  /\ buildLoop(buflen, pkt)[0] = headOf(pkt)
         /\ \A n \in Nat :
              buildLoop(buflen, pkt)[n + 1] =
                addOption(buildLoop(buflen, pkt)[n], pkt.opts[n + 1], buflen)
<1> DEFINE f == buildLoop(buflen, pkt)
           body(n) == IF n = 0 THEN headOf(pkt) ELSE addOption(f[n - 1], pkt.opts[n], buflen)
<1>1. f = [n \in Nat |-> body(n)]
  BY BuildLoopExists DEF buildLoop
<1>2. \A n \in Nat : f[n] = body(n)
  <2> HIDE DEF body, f
  <2> QED
    BY <1>1
<1>3. f[0] = headOf(pkt)
  BY <1>2
<1>4. ASSUME NEW n \in Nat PROVE f[n + 1] = addOption(f[n], pkt.opts[n + 1], buflen)
  <2>1. n + 1 \in Nat /\ n + 1 # 0 /\ (n + 1) - 1 = n
    OBVIOUS
  <2>2. f[n + 1] = body(n + 1)
    BY <1>2
  <2> QED
    BY <2>1, <2>2
<1> QED
  BY <1>3, <1>4

-----------------------------------------------------------------------------
(* What coap_parse accepts is a packet.                                    *)

\* A byte is a number below 256.
LEMMA ByteIs == \A b : b \in Byte <=> b \in Nat /\ b <= 255
  BY DEF Byte

\* The fields of a byte.
LEMMA ByteFields ==
  ASSUME NEW b \in Byte
  PROVE  b \div 16 \in 0 .. 15 /\ b % 16 \in 0 .. 15 /\ (b \div 16) % 4 \in 0 .. 3
<1>1. b \in 0 .. 255
  BY ByteIs
<1> QED
  BY <1>1

\* A number cut to a width has that width.
LEMMA CutIs ==
  ASSUME NEW x \in Nat
  PROVE  x % 2^8 \in Byte /\ x % 2^16 \in Nat /\ x % 2^16 < 65536
  BY DEF Byte

\* What a nibble stands for is a number, found in front of the remaining bytes.
LEMMA ExtendedType ==
  ASSUME NEW nibble \in 0 .. 15, NEW s \in Seq(Byte), Extended(nibble, s).rc = "OK"
  PROVE  Extended(nibble, s).v \in Nat /\ Extended(nibble, s).rest \in Seq(Byte)
<1>1. CASE nibble < 13
  BY <1>1 DEF Extended
<1>2. CASE nibble = 13 /\ Len(s) >= 1
  <2>1. Extended(nibble, s) = [rc |-> "OK", v |-> s[1] + 13, rest |-> Tail(s)]
    BY <1>2 DEF Extended
  <2>2. s[1] \in Byte /\ Tail(s) \in Seq(Byte)
    BY <1>2
  <2> QED
    BY <2>1, <2>2, ByteIs
<1>3. CASE nibble = 14 /\ Len(s) >= 2
  <2>1. Extended(nibble, s) = [rc |-> "OK", v |-> (256 * s[1] + s[2] + 269) % 2^16,
                               rest |-> SubSeq(s, 3, Len(s))]
    BY <1>3 DEF Extended
  <2>2. s[1] \in Byte /\ s[2] \in Byte /\ SubSeq(s, 3, Len(s)) \in Seq(Byte)
    BY <1>3
  <2>3. (256 * s[1] + s[2] + 269) % 2^16 \in Nat
    BY <2>2, ByteIs
  <2> QED
    BY <2>1, <2>2, <2>3
<1>4. CASE nibble = 15
  <2>1. Extended(nibble, s) = Failure("INVALID")
    BY <1>4 DEF Extended
  <2> QED
    BY <2>1 DEF Failure
<1>5. CASE (nibble = 13 /\ ~(Len(s) >= 1)) \/ (nibble = 14 /\ ~(Len(s) >= 2))
  <2>1. Extended(nibble, s) = Failure("OPTION_TOO_SHORT_FOR_HEADER")
    BY <1>5 DEF Extended
  <2> QED
    BY <2>1 DEF Failure
<1> QED
  BY <1>1, <1>2, <1>3, <1>4, <1>5

\* It is a number of sixteen bits.
LEMMA ExtendedBound ==
  ASSUME NEW nibble \in 0 .. 15, NEW s \in Seq(Byte), Extended(nibble, s).rc = "OK"
  PROVE  Extended(nibble, s).v < 65536
<1>1. CASE nibble < 13
  BY <1>1 DEF Extended
<1>2. CASE nibble = 13 /\ Len(s) >= 1
  <2>1. Extended(nibble, s) = [rc |-> "OK", v |-> s[1] + 13, rest |-> Tail(s)]
    BY <1>2 DEF Extended
  <2>2. s[1] \in Byte /\ Tail(s) \in Seq(Byte)
    BY <1>2
  <2> QED
    BY <2>1, <2>2, ByteIs
<1>3. CASE nibble = 14 /\ Len(s) >= 2
  <2>1. Extended(nibble, s) = [rc |-> "OK", v |-> (256 * s[1] + s[2] + 269) % 2^16,
                               rest |-> SubSeq(s, 3, Len(s))]
    BY <1>3 DEF Extended
  <2>2. s[1] \in Byte /\ s[2] \in Byte /\ SubSeq(s, 3, Len(s)) \in Seq(Byte)
    BY <1>3
  <2>3. 256 * s[1] + s[2] + 269 \in Nat
    BY <2>2, ByteIs
  <2>4. (256 * s[1] + s[2] + 269) % 2^16 < 65536
    BY <2>3, CutIs
  <2> QED
    BY <2>1, <2>4
<1>4. CASE nibble = 15
  <2>1. Extended(nibble, s) = Failure("INVALID")
    BY <1>4 DEF Extended
  <2> QED
    BY <2>1 DEF Failure
<1>5. CASE (nibble = 13 /\ ~(Len(s) >= 1)) \/ (nibble = 14 /\ ~(Len(s) >= 2))
  <2>1. Extended(nibble, s) = Failure("OPTION_TOO_SHORT_FOR_HEADER")
    BY <1>5 DEF Extended
  <2> QED
    BY <2>1 DEF Failure
<1> QED
  BY <1>1, <1>2, <1>3, <1>4, <1>5

\* An option that is read is an option, and bytes remain behind it.
LEMMA ParseOptionType ==
  ASSUME NEW s \in Seq(Byte), s # <<>>, NEW run \in Nat, coap_parseOption(s, run).rc = "OK"
  PROVE  /\ coap_parseOption(s, run).opt \in Option
         /\ coap_parseOption(s, run).rest \in Seq(Byte)
         /\ coap_parseOption(s, run).running \in Nat
<1> DEFINE delta == Extended(Head(s) \div 16, Tail(s))
           len == Extended(Head(s) % 16, delta.rest)
<1>1. Head(s) \in Byte /\ Tail(s) \in Seq(Byte)
  OBVIOUS
<1>2. Head(s) \div 16 \in 0 .. 15 /\ Head(s) % 16 \in 0 .. 15
  BY <1>1, ByteFields
<1>3. coap_parseOption(s, run) =
        CASE delta.rc = "INVALID" -> Failure("OPTION_DELTA_INVALID")
          [] delta.rc \notin {"OK", "INVALID"} -> delta
          [] delta.rc = "OK" /\ len.rc = "INVALID" -> Failure("OPTION_LEN_INVALID")
          [] delta.rc = "OK" /\ len.rc \notin {"OK", "INVALID"} -> len
          [] delta.rc = "OK" /\ len.rc = "OK" /\ len.v > Len(len.rest) ->
                Failure("OPTION_TOO_BIG")
          [] OTHER ->
                [rc      |-> "OK",
                 opt     |-> [num |-> (delta.v + run) % 2^8,
                              val |-> SubSeq(len.rest, 1, len.v)],
                 rest    |-> SubSeq(len.rest, len.v + 1, Len(len.rest)),
                 running |-> (run + delta.v) % 2^16]
  BY DEF coap_parseOption
<1>4. delta.rc = "OK" => delta.v \in Nat /\ delta.rest \in Seq(Byte)
  BY <1>1, <1>2, ExtendedType
<1>5. delta.rc = "OK" /\ len.rc = "OK" => len.v \in Nat /\ len.rest \in Seq(Byte)
  BY <1>2, <1>4, ExtendedType
<1>10. delta.rc = "OK" /\ len.rc = "OK" => len.v < 65536
  BY <1>2, <1>4, ExtendedBound
<1> HIDE DEF delta, len
<1>6. delta.rc = "OK" /\ len.rc = "OK" /\ ~(len.v > Len(len.rest))
  BY <1>3 DEF Failure
<1>7. coap_parseOption(s, run) =
        [rc      |-> "OK",
         opt     |-> [num |-> (delta.v + run) % 2^8,
                      val |-> SubSeq(len.rest, 1, len.v)],
         rest    |-> SubSeq(len.rest, len.v + 1, Len(len.rest)),
         running |-> (run + delta.v) % 2^16]
  BY <1>3, <1>6
<1>8. /\ (delta.v + run) % 2^8 \in Byte
      /\ (run + delta.v) % 2^16 \in Nat
  <2>1. delta.v + run \in Nat /\ run + delta.v \in Nat
    BY <1>4, <1>6
  <2> QED
    BY <2>1, CutIs
<1>9. /\ SubSeq(len.rest, 1, len.v) \in Seq(Byte)
      /\ SubSeq(len.rest, len.v + 1, Len(len.rest)) \in Seq(Byte)
      /\ Len(SubSeq(len.rest, 1, len.v)) < 65536
  BY <1>5, <1>6, <1>10
<1> QED
  BY <1>7, <1>8, <1>9 DEF Option

\* After n turns of the loop there are at most n options, and nothing but bytes is left.
LEMMA OptionLoopType ==
  ASSUME NEW s \in Seq(Byte)
  PROVE  \A n \in Nat :
            LET p == optionLoop(s)[n]
            IN  p.rc = "OK" =>
                  /\ p.opts \in Seq(Option) /\ Len(p.opts) <= n
                  /\ p.rest \in Seq(Byte)
                  /\ p.running \in Nat
<1> DEFINE f == optionLoop(s)
           Good(n) == f[n].rc = "OK" =>
                         /\ f[n].opts \in Seq(Option) /\ Len(f[n].opts) <= n
                         /\ f[n].rest \in Seq(Byte)
                         /\ f[n].running \in Nat
           D == {n \in Nat : Good(n)}
<1>1. 0 \in D
  <2>1. f[0] = noOptions(s)
    BY OptionLoopDef
  <2> HIDE DEF f
  <2>2. f[0].opts = <<>> /\ f[0].rest = s /\ f[0].running = 0
    BY <2>1 DEF noOptions
  <2>3. f[0].opts \in Seq(Option) /\ Len(f[0].opts) <= 0
    BY <2>2
  <2>4. Good(0)
    BY <2>2, <2>3
  <2> QED
    BY <2>4
<1>2. ASSUME NEW n \in Nat, n \in D PROVE n + 1 \in D
  <2>1. f[n + 1] = nextOption(f[n])
    BY OptionLoopDef
  <2>2. Good(n)
    BY <1>2
  <2> HIDE DEF f
  <2> SUFFICES ASSUME f[n + 1].rc = "OK"
               PROVE  /\ f[n + 1].opts \in Seq(Option) /\ Len(f[n + 1].opts) <= n + 1
                      /\ f[n + 1].rest \in Seq(Byte)
                      /\ f[n + 1].running \in Nat
    OBVIOUS
  <2>3. CASE f[n].rc # "OK" \/ f[n].rest = <<>> \/ f[n].rest[1] = PayloadMarker
    <3>1. f[n + 1] = f[n]
      BY <2>1, <2>3 DEF nextOption
    <3> QED
      BY <2>2, <3>1
  <2>4. CASE ~(f[n].rc # "OK" \/ f[n].rest = <<>> \/ f[n].rest[1] = PayloadMarker)
    <3> DEFINE o == coap_parseOption(f[n].rest, f[n].running)
    <3>1. f[n + 1] = IF o.rc = "OK"
                     THEN [rc |-> "OK", opts |-> Append(f[n].opts, o.opt),
                           rest |-> o.rest, running |-> o.running]
                     ELSE Failure(o.rc)
      BY <2>1, <2>4 DEF nextOption
    <3>2. o.rc = "OK" => o.opt \in Option /\ o.rest \in Seq(Byte) /\ o.running \in Nat
      BY <2>2, <2>4, ParseOptionType
    <3> HIDE DEF o
    <3>3. o.rc = "OK"
      BY <3>1 DEF Failure
    <3> QED
      BY <2>2, <2>4, <3>1, <3>2, <3>3
  <2> QED
    BY <2>3, <2>4
<1> HIDE DEF D
<1>3. \A n \in Nat : n \in D
  BY <1>1, <1>2, SetInduction
<1> QED
  BY <1>3 DEF D

\* The header: its length, the fields and the token length of at most 15.
LEMMA HeaderType ==
  ASSUME NEW d \in Seq(Byte), coap_parseHeader(d).rc = "OK"
  PROVE  /\ Len(d) >= 4 /\ d[1] \div 64 = 1
         /\ coap_parseHeader(d) =
              [rc |-> "OK", ver |-> 1, t |-> (d[1] \div 16) % 4, tkl |-> d[1] % 16,
               code |-> d[2], id |-> <<d[3], d[4]>>]
         /\ d[1] \in Byte /\ d[2] \in Byte /\ d[3] \in Byte /\ d[4] \in Byte
         /\ (d[1] \div 16) % 4 \in 0 .. 3
         /\ d[1] % 16 \in 0 .. 15
<1>1. Len(d) >= 4 /\ d[1] \div 64 = 1
  BY DEF coap_parseHeader, Failure
<1>2. coap_parseHeader(d) =
        [rc |-> "OK", ver |-> 1, t |-> (d[1] \div 16) % 4, tkl |-> d[1] % 16,
         code |-> d[2], id |-> <<d[3], d[4]>>]
  BY <1>1 DEF coap_parseHeader
<1>3. d[1] \in Byte /\ d[2] \in Byte /\ d[3] \in Byte /\ d[4] \in Byte
  BY <1>1
<1> QED
  BY <1>1, <1>2, <1>3, ByteFields

\* Whatever bytes arrive, what coap_parse accepts is a packet.
LEMMA ParseType ==
  ASSUME NEW d \in Seq(Byte), coap_parse(d).rc = "OK"
  PROVE  /\ coap_parse(d).pkt \in Packet
         /\ coap_parse(d) = [rc |-> "OK", pkt |-> coap_parse(d).pkt]
<1> DEFINE hdr == coap_parseHeader(d)
           tok == coap_parseToken(hdr, d)
           r == SubSeq(d, 5 + hdr.tkl, Len(d))
           os == parseOptions(r)
           pkt == [ver |-> hdr.ver, t |-> hdr.t, tkl |-> hdr.tkl, code |-> hdr.code,
                   id |-> hdr.id, tok |-> tok.tok, opts |-> os.opts,
                   payload |-> payloadOf(os.rest)]
<1>1. coap_parse(d) = IF hdr.rc # "OK" THEN hdr
                      ELSE IF tok.rc # "OK" THEN tok
                      ELSE IF os.rc # "OK" THEN os
                      ELSE [rc |-> "OK", pkt |-> pkt]
  BY DEF coap_parse
<1>2. hdr.rc = "OK" /\ tok.rc = "OK" /\ os.rc = "OK" /\ coap_parse(d) = [rc |-> "OK", pkt |-> pkt]
  <2> HIDE DEF hdr, tok, os, pkt
  <2> QED
    BY <1>1
<1>3. /\ hdr.ver = 1 /\ hdr.t \in 0 .. 3 /\ hdr.tkl \in 0 .. 15 /\ hdr.code \in Byte
      /\ hdr.id \in Byte \X Byte
  BY <1>2, HeaderType
<1>4. hdr.tkl <= 8 /\ 4 + hdr.tkl <= Len(d) /\ tok.tok = SubSeq(d, 5, 4 + hdr.tkl)
  <2>1. tok = IF hdr.tkl > 8 \/ 4 + hdr.tkl > Len(d)
               THEN Failure("TOKEN_TOO_SHORT")
               ELSE [rc |-> "OK", tok |-> SubSeq(d, 5, 4 + hdr.tkl)]
    BY DEF coap_parseToken
  <2>2. Failure("TOKEN_TOO_SHORT").rc # "OK"
    BY DEF Failure
  <2> HIDE DEF hdr, tok, os
  <2>3. tok.rc = "OK"
    BY <1>2
  <2>4. ~(hdr.tkl > 8 \/ 4 + hdr.tkl > Len(d))
    BY <2>1, <2>2, <2>3
  <2>5. tok.tok = SubSeq(d, 5, 4 + hdr.tkl)
    BY <2>1, <2>4
  <2> QED
    BY <1>3, <2>4, <2>5
<1>5. tok.tok \in Seq(Byte) /\ Len(tok.tok) = hdr.tkl
  <2> HIDE DEF hdr, tok
  <2> QED
    BY <1>3, <1>4, SMTT(30)
<1>6. r \in Seq(Byte)
  <2> HIDE DEF hdr
  <2> QED
    BY <1>3, <1>4, SMTT(30)
<1>7. os.opts \in Seq(Option) /\ Len(os.opts) <= MAXOPT /\ os.rest \in Seq(Byte)
  <2>1. MAXOPT \in Nat /\ os = optionLoop(r)[MAXOPT]
    BY MAXOPTAssumption DEF parseOptions, turns
  <2> HIDE DEF r, os
  <2> QED
    BY <1>2, <1>6, <2>1, OptionLoopType
<1>8. payloadOf(os.rest) \in Seq(Byte)
  <2> HIDE DEF os
  <2> QED
    BY <1>7 DEF payloadOf
<1>9. pkt \in Packet
  <2>1. hdr.tkl \in 0 .. 8
    BY <1>3, <1>4
  <2> HIDE DEF hdr, tok, os
  <2>2. pkt \in [ver : {1}, t : 0 .. 3, tkl : 0 .. 8, code : Byte, id : Byte \X Byte,
                 tok : Seq(Byte), opts : Seq(Option), payload : Seq(Byte)]
    BY <1>3, <1>5, <1>7, <1>8, <2>1
  <2>3. pkt.tkl = Len(pkt.tok) /\ Len(pkt.opts) <= MAXOPT
    BY <1>5, <1>7
  <2> HIDE DEF pkt
  <2> QED
    BY <2>2, <2>3 DEF Packet
<1> HIDE DEF pkt
<1> QED
  BY <1>2, <1>9

-----------------------------------------------------------------------------
(* The bytes of an option, and what is read of them.                       *)

\* Concatenation is associative.
LEMMA ConcatTwo ==
  ASSUME NEW x \in Seq(Byte), NEW y \in Seq(Byte), NEW z \in Seq(Byte)
  PROVE  (x \o y) \o z = x \o (y \o z) /\ x \o y \in Seq(Byte)
  OBVIOUS

\* A sequence with a byte in front of it.
LEMMA OneInFront ==
  ASSUME NEW a \in Byte, NEW r \in Seq(Byte)
  PROVE  /\ <<a>> \o r \in Seq(Byte) /\ Len(<<a>> \o r) = Len(r) + 1 /\ Len(<<a>> \o r) >= 1
         /\ (<<a>> \o r)[1] = a /\ Head(<<a>> \o r) = a /\ Tail(<<a>> \o r) = r
  OBVIOUS

\* A sequence with two bytes in front of it.
LEMMA TwoInFront ==
  ASSUME NEW a \in Byte, NEW b \in Byte, NEW r \in Seq(Byte)
  PROVE  /\ <<a, b>> \o r \in Seq(Byte) /\ Len(<<a, b>> \o r) >= 2
         /\ (<<a, b>> \o r)[1] = a /\ (<<a, b>> \o r)[2] = b
         /\ SubSeq(<<a, b>> \o r, 3, Len(<<a, b>> \o r)) = r
  OBVIOUS

\* What a distance of option numbers is written as.
LEMMA DeltaBytesAre ==
  ASSUME NEW d \in Nat, d <= 255
  PROVE  /\ d <= 12 => coap_option_nibble(d) = d /\ deltaBytes(d) = <<>>
         /\ d >= 13 => /\ coap_option_nibble(d) = 13
                       /\ deltaBytes(d) = <<d - 13>> /\ d - 13 \in Byte
<1>1. CASE d <= 12
  BY <1>1 DEF coap_option_nibble, deltaBytes
<1>2. CASE d >= 13
  <2>1. coap_option_nibble(d) = 13
    BY <1>2 DEF coap_option_nibble
  <2>2. deltaBytes(d) = <<d - 13>>
    BY <2>1 DEF deltaBytes
  <2> QED
    BY <1>2, <2>1, <2>2 DEF Byte
<1> QED
  BY <1>1, <1>2

\* A smaller number than the last is written as no distance.
LEMMA NegativeDeltaBytesAre ==
  ASSUME NEW d \in Int, d < 0
  PROVE  coap_option_nibble(d) = 0 /\ deltaBytes(d) = <<>>
<1>1. coap_option_nibble(d) = 0
  BY DEF coap_option_nibble
<1> QED
  BY <1>1 DEF deltaBytes

\* What a length is written as.
LEMMA LenBytesAre ==
  ASSUME NEW l \in Nat
  PROVE  /\ l <= 12 => coap_option_nibble(l) = l /\ lenBytes(l) = <<>>
         /\ 13 <= l /\ l <= 268 => /\ coap_option_nibble(l) = 13
                                  /\ lenBytes(l) = <<l - 13>> /\ l - 13 \in Byte
         /\ 269 <= l /\ l <= 65804 =>
               /\ coap_option_nibble(l) = 14
               /\ lenBytes(l) = <<(l \div 256) % 256, (l - 269) % 256>>
               /\ (l \div 256) % 256 \in Byte /\ (l - 269) % 256 \in Byte
         /\ l > 65804 => coap_option_nibble(l) = 0 /\ lenBytes(l) = <<>>
<1>1. CASE l <= 12
  BY <1>1 DEF coap_option_nibble, lenBytes
<1>2. CASE 13 <= l /\ l <= 268
  <2>1. coap_option_nibble(l) = 13
    BY <1>2 DEF coap_option_nibble
  <2>2. lenBytes(l) = <<l - 13>>
    BY <2>1 DEF lenBytes
  <2> QED
    BY <1>2, <2>1, <2>2 DEF Byte
<1>3. CASE 269 <= l /\ l <= 65804
  <2>1. coap_option_nibble(l) = 14
    BY <1>3 DEF coap_option_nibble
  <2>2. lenBytes(l) = <<(l \div 256) % 256, (l - 269) % 256>>
    BY <2>1 DEF lenBytes
  <2>3. (l \div 256) % 256 \in Byte /\ (l - 269) % 256 \in Byte
    BY <1>3 DEF Byte
  <2> QED
    BY <1>3, <2>1, <2>2, <2>3
<1>4. CASE l > 65804
  <2>1. coap_option_nibble(l) = 0
    BY <1>4 DEF coap_option_nibble
  <2>2. lenBytes(l) = <<>>
    BY <2>1 DEF lenBytes
  <2> QED
    BY <1>4, <2>1, <2>2
<1> QED
  BY <1>1, <1>2, <1>3, <1>4

\* The nibble and the bytes of a length fit.
LEMMA LenBytesType ==
  ASSUME NEW l \in Nat
  PROVE  coap_option_nibble(l) \in Nat /\ coap_option_nibble(l) <= 14 /\ lenBytes(l) \in Seq(Byte)
<1>1. CASE l <= 12
  <2>1. coap_option_nibble(l) = l /\ lenBytes(l) = <<>>
    BY <1>1, LenBytesAre
  <2> QED
    BY <1>1, <2>1
<1>2. CASE 13 <= l /\ l <= 268
  <2>1. coap_option_nibble(l) = 13 /\ lenBytes(l) = <<l - 13>> /\ l - 13 \in Byte
    BY <1>2, LenBytesAre
  <2> QED
    BY <2>1
<1>3. CASE 269 <= l /\ l <= 65804
  <2> DEFINE a == (l \div 256) % 256
             b == (l - 269) % 256
  <2>1. coap_option_nibble(l) = 14 /\ lenBytes(l) = <<a, b>> /\ a \in Byte /\ b \in Byte
    BY <1>3, LenBytesAre
  <2> HIDE DEF a, b
  <2> QED
    BY <2>1
<1>4. CASE l > 65804
  <2>1. coap_option_nibble(l) = 0 /\ lenBytes(l) = <<>>
    BY <1>4, LenBytesAre
  <2> QED
    BY <2>1
<1> QED
  BY <1>1, <1>2, <1>3, <1>4

\* An option is written as bytes, the first of which is not the payload marker.
LEMMA OptionBytesType ==
  ASSUME NEW o \in Option, NEW run \in Byte
  PROVE  /\ optionBytes(o, run) \in Seq(Byte)
         /\ Len(optionBytes(o, run)) >= 1
         /\ optionBytes(o, run)[1] # PayloadMarker
<1> DEFINE d == o.num - run
           l == Len(o.val)
           h == 16 * coap_option_nibble(d) + coap_option_nibble(l)
<1>1. o.num \in Byte /\ o.val \in Seq(Byte) /\ l \in Nat
  BY DEF Option
<1>2. d \in Int /\ (d >= 0 => d \in Nat /\ d <= 255)
  BY <1>1, ByteIs
<1>3. coap_option_nibble(d) \in Nat /\ coap_option_nibble(d) <= 13 /\ deltaBytes(d) \in Seq(Byte)
  <2> HIDE DEF d
  <2>1. CASE d < 0
    <3>1. coap_option_nibble(d) = 0 /\ deltaBytes(d) = <<>>
      BY <1>2, <2>1, NegativeDeltaBytesAre
    <3> QED
      BY <3>1
  <2>2. CASE d >= 0 /\ d <= 12
    <3>1. coap_option_nibble(d) = d /\ deltaBytes(d) = <<>>
      BY <1>2, <2>2, DeltaBytesAre
    <3> QED
      BY <1>2, <2>2, <3>1
  <2>3. CASE d >= 13
    <3>1. coap_option_nibble(d) = 13 /\ deltaBytes(d) = <<d - 13>> /\ d - 13 \in Byte
      BY <1>2, <2>3, DeltaBytesAre
    <3> QED
      BY <3>1
  <2> QED
    BY <1>2, <2>1, <2>2, <2>3
<1>4. coap_option_nibble(l) \in Nat /\ coap_option_nibble(l) <= 14 /\ lenBytes(l) \in Seq(Byte)
  <2> HIDE DEF l
  <2> QED
    BY <1>1, LenBytesType
<1>5. h \in Byte /\ h # PayloadMarker
  <2> HIDE DEF d, l
  <2>1. h \in Nat /\ h <= 238
    BY <1>3, <1>4
  <2> HIDE DEF h
  <2> QED
    BY <2>1, ByteIs DEF PayloadMarker
<1>6. optionBytes(o, run) = <<h>> \o deltaBytes(d) \o lenBytes(l) \o o.val
  BY DEF optionBytes
<1> DEFINE x == deltaBytes(d)
           y == lenBytes(l)
           z == o.val
<1>7. h \in Byte /\ x \in Seq(Byte) /\ y \in Seq(Byte) /\ z \in Seq(Byte)
  BY <1>1, <1>3, <1>4, <1>5
<1>8. optionBytes(o, run) = ((<<h>> \o x) \o y) \o z
  BY <1>6
<1> HIDE DEF h, d, l, x, y, z
<1>9. optionBytes(o, run) = <<h>> \o ((x \o y) \o z)
  <2>1. ((<<h>> \o x) \o y) \o z = <<h>> \o ((x \o y) \o z)
    <3>1. <<h>> \in Seq(Byte) /\ x \o y \in Seq(Byte)
      BY <1>7
    <3>2. (<<h>> \o x) \o y = <<h>> \o (x \o y)
      BY <1>7, <3>1, ConcatTwo
    <3> QED
      BY <1>7, <3>1, <3>2, ConcatTwo
  <2> QED
    BY <1>8, <2>1
<1>10. (x \o y) \o z \in Seq(Byte)
  BY <1>7, ConcatTwo
<1> QED
  BY <1>5, <1>9, <1>10, OneInFront

\* A distance is read as it was written.
LEMMA ReadDelta ==
  ASSUME NEW d \in Nat, d <= 255, NEW r \in Seq(Byte)
  PROVE  Extended(coap_option_nibble(d), deltaBytes(d) \o r) = [rc |-> "OK", v |-> d, rest |-> r]
<1>1. CASE d <= 12
  <2>1. coap_option_nibble(d) = d /\ deltaBytes(d) \o r = r
    BY <1>1, DeltaBytesAre
  <2> QED
    BY <1>1, <2>1 DEF Extended
<1>2. CASE d >= 13
  <2>1. coap_option_nibble(d) = 13 /\ deltaBytes(d) = <<d - 13>> /\ d - 13 \in Byte
    BY <1>2, DeltaBytesAre
  <2> DEFINE s == deltaBytes(d) \o r
  <2>2. Len(s) >= 1 /\ s[1] = d - 13 /\ Tail(s) = r
    BY <2>1, OneInFront
  <2> HIDE DEF s
  <2>3. Extended(13, s) = [rc |-> "OK", v |-> s[1] + 13, rest |-> Tail(s)]
    BY <2>2 DEF Extended
  <2>4. s[1] + 13 = d
    BY <2>2
  <2> QED
    BY <2>1, <2>2, <2>3, <2>4 DEF s
<1> QED
  BY <1>1, <1>2

\* A length below 269 is read as it was written.
LEMMA ReadLength ==
  ASSUME NEW l \in Nat, l <= 268, NEW r \in Seq(Byte)
  PROVE  Extended(coap_option_nibble(l), lenBytes(l) \o r) = [rc |-> "OK", v |-> l, rest |-> r]
<1>1. CASE l <= 12
  <2>1. coap_option_nibble(l) = l /\ lenBytes(l) \o r = r
    BY <1>1, LenBytesAre
  <2> QED
    BY <1>1, <2>1 DEF Extended
<1>2. CASE l >= 13
  <2>1. coap_option_nibble(l) = 13 /\ lenBytes(l) = <<l - 13>> /\ l - 13 \in Byte
    BY <1>2, LenBytesAre
  <2> DEFINE s == lenBytes(l) \o r
  <2>2. Len(s) >= 1 /\ s[1] = l - 13 /\ Tail(s) = r
    BY <2>1, OneInFront
  <2> HIDE DEF s
  <2>3. Extended(13, s) = [rc |-> "OK", v |-> s[1] + 13, rest |-> Tail(s)]
    BY <2>2 DEF Extended
  <2>4. s[1] + 13 = l
    BY <2>2
  <2> QED
    BY <2>1, <2>2, <2>3, <2>4 DEF s
<1> QED
  BY <1>1, <1>2

\* No longer length is: the upper byte was taken before 269 was subtracted.
LEMMA ReadLongLength ==
  ASSUME NEW l \in Nat, l >= 269, NEW r \in Seq(Byte)
  PROVE  /\ Extended(coap_option_nibble(l), lenBytes(l) \o r).rc = "OK"
         /\ Extended(coap_option_nibble(l), lenBytes(l) \o r).v # l
<1>1. CASE l > 65804
  <2>1. coap_option_nibble(l) = 0 /\ lenBytes(l) \o r = r
    BY <1>1, LenBytesAre
  <2>2. Extended(0, r) = [rc |-> "OK", v |-> 0, rest |-> r]
    BY DEF Extended
  <2> QED
    BY <1>1, <2>1, <2>2
<1>2. CASE l <= 65804
  <2> DEFINE a == (l \div 256) % 256
             b == (l - 269) % 256
             s == lenBytes(l) \o r
  <2>1. coap_option_nibble(l) = 14 /\ lenBytes(l) = <<a, b>> /\ a \in Byte /\ b \in Byte
    BY <1>2, LenBytesAre
  <2>2. (256 * a + b + 269) % 65536 # l
    <3> DEFINE q == (l - 269) \div 256
    <3>1. q \in Nat /\ q <= 255 /\ b \in Nat /\ b <= 255 /\ l - 269 = 256 * q + b
      BY <1>2
    <3>2. l \div 256 \in {q + 1, q + 2}
      <4> HIDE DEF q, b
      <4> QED
        BY <3>1
    <3>3. a \in {q + 1, q + 2, q + 1 - 256, q + 2 - 256}
      <4> DEFINE z == l \div 256
      <4>1. z % 256 \in {z, z - 256}
        <5> HIDE DEF q, z
        <5> QED
          BY <3>1, <3>2 DEF z
      <4> QED
        BY <3>2, <4>1
    <3>4. a \in Nat /\ a <= 255
      BY <2>1, ByteIs
    <3> HIDE DEF a, b, q
    <3>5. 256 * a + b + 269 \in {l + 256, l + 512, l + 256 - 65536, l + 512 - 65536}
      BY <3>1, <3>3
    <3>6. 269 <= l /\ l <= 65804 /\ 256 * a + b + 269 <= 65804
      BY <1>2, <3>1, <3>4
    <3> QED
      BY <3>5, <3>6
  <2>3. s \in Seq(Byte) /\ Len(s) >= 2 /\ s[1] = a /\ s[2] = b
    <3> HIDE DEF a, b
    <3> QED
      BY <2>1, TwoInFront
  <2> HIDE DEF s, a, b
  <2>4. Extended(14, s) = [rc |-> "OK", v |-> (256 * s[1] + s[2] + 269) % 2^16,
                           rest |-> SubSeq(s, 3, Len(s))]
    BY <2>3 DEF Extended
  <2>5. 2^16 = 65536
    OBVIOUS
  <2> QED
    BY <2>1, <2>2, <2>3, <2>4, <2>5 DEF s
<1> QED
  BY <1>1, <1>2

\* The two nibbles of an option's first byte are told apart.
LEMMA NibblesApart ==
  ASSUME NEW a \in Nat, NEW b \in Nat, a <= 14, b <= 14
  PROVE  (16 * a + b) \div 16 = a /\ (16 * a + b) % 16 = b /\ 16 * a + b \in Byte
<1>1. (16 * a + b) \div 16 = a /\ (16 * a + b) % 16 = b
  OBVIOUS
<1>2. 16 * a + b \in Nat /\ 16 * a + b <= 255
  OBVIOUS
<1> QED
  BY <1>1, <1>2, ByteIs

\* A part of a sequence, and what is behind it.
LEMMA CutInTwo ==
  ASSUME NEW x \in Seq(Byte), NEW r \in Seq(Byte)
  PROVE  /\ x \o r \in Seq(Byte) /\ Len(x \o r) = Len(x) + Len(r)
         /\ SubSeq(x \o r, 1, Len(x)) = x
         /\ SubSeq(x \o r, Len(x) + 1, Len(x \o r)) = r
  OBVIOUS

\* What is read at the head of an option's bytes: its distance to the last option, and
\* what its length was written as.
LEMMA ReadHead ==
  ASSUME NEW o \in Option, NEW run \in Byte, run <= o.num, NEW r \in Seq(Byte)
  PROVE  LET s == optionBytes(o, run) \o r
             l == Len(o.val)
         IN  /\ s \in Seq(Byte) /\ s # <<>> /\ l \in Nat
             /\ Extended(Head(s) \div 16, Tail(s)) =
                  [rc |-> "OK", v |-> o.num - run, rest |-> lenBytes(l) \o (o.val \o r)]
             /\ Head(s) % 16 = coap_option_nibble(l)
             /\ o.val \o r \in Seq(Byte)
<1> DEFINE d == o.num - run
           l == Len(o.val)
           a == coap_option_nibble(d)
           b == coap_option_nibble(l)
           h == 16 * a + b
           x == deltaBytes(d)
           y == lenBytes(l)
           z == o.val
           s == optionBytes(o, run) \o r
<1>1. o.num \in Byte /\ z \in Seq(Byte) /\ l \in Nat
  BY DEF Option
<1>2. d \in Nat /\ d <= 255
  BY <1>1, ByteIs
<1>3. a \in Nat /\ a <= 14 /\ x \in Seq(Byte)
  <2> HIDE DEF d
  <2>1. CASE d <= 12
    <3>1. coap_option_nibble(d) = d /\ deltaBytes(d) = <<>>
      BY <1>2, <2>1, DeltaBytesAre
    <3> QED
      BY <1>2, <2>1, <3>1
  <2>2. CASE d >= 13
    <3>1. coap_option_nibble(d) = 13 /\ deltaBytes(d) = <<d - 13>> /\ d - 13 \in Byte
      BY <1>2, <2>2, DeltaBytesAre
    <3> QED
      BY <3>1
  <2> QED
    BY <1>2, <2>1, <2>2
<1>4. b \in Nat /\ b <= 14 /\ y \in Seq(Byte)
  <2> HIDE DEF l
  <2> QED
    BY <1>1, LenBytesType
<1>5. h \div 16 = a /\ h % 16 = b /\ h \in Byte
  <2> HIDE DEF a, b
  <2> QED
    BY <1>3, <1>4, NibblesApart
<1>6. optionBytes(o, run) = ((<<h>> \o x) \o y) \o z
  BY DEF optionBytes
<1>7. s = <<h>> \o (x \o (y \o (z \o r)))
  <2> HIDE DEF h, x, y, z
  <2>1. ((<<h>> \o x) \o y) \o z = <<h>> \o ((x \o y) \o z)
    <3>1. h \in Byte /\ x \in Seq(Byte) /\ y \in Seq(Byte) /\ z \in Seq(Byte)
      BY <1>1, <1>3, <1>4, <1>5
    <3>2. <<h>> \in Seq(Byte) /\ x \o y \in Seq(Byte)
      BY <3>1
    <3>3. (<<h>> \o x) \o y = <<h>> \o (x \o y)
      BY <3>1, <3>2, ConcatTwo
    <3> QED
      BY <3>1, <3>2, <3>3, ConcatTwo, SMTT(30)
  <2>2. (x \o y) \o z = x \o (y \o z) /\ y \o z \in Seq(Byte)
    BY <1>1, <1>3, <1>4, ConcatTwo, ZenonT(60)
  <2>3. optionBytes(o, run) = <<h>> \o (x \o (y \o z))
    BY <1>6, <2>1, <2>2
  <2>4. <<h>> \in Seq(Byte) /\ x \o (y \o z) \in Seq(Byte)
    BY <1>3, <1>5, <2>2
  <2>5. s = <<h>> \o ((x \o (y \o z)) \o r)
    BY <2>3, <2>4, ConcatTwo, SMTT(30)
  <2>6. (x \o (y \o z)) \o r = x \o ((y \o z) \o r)
    BY <1>3, <2>2, ConcatTwo, ZenonT(60)
  <2>7. (y \o z) \o r = y \o (z \o r)
    BY <1>1, <1>4, ConcatTwo, SMTT(30)
  <2> QED
    BY <2>5, <2>6, <2>7
<1>8. z \o r \in Seq(Byte) /\ y \o (z \o r) \in Seq(Byte) /\ x \o (y \o (z \o r)) \in Seq(Byte)
  <2> HIDE DEF x, y, z
  <2>1. z \o r \in Seq(Byte)
    BY <1>1, CutInTwo
  <2>2. y \o (z \o r) \in Seq(Byte)
    BY <1>4, <2>1, CutInTwo
  <2> QED
    BY <1>3, <2>1, <2>2, CutInTwo
<1>9. s \in Seq(Byte) /\ Len(s) >= 1 /\ Head(s) = h /\ Tail(s) = x \o (y \o (z \o r))
  <2> HIDE DEF h, x, y, z, s
  <2> QED
    BY <1>5, <1>7, <1>8, OneInFront
<1>10. Extended(a, x \o (y \o (z \o r))) = [rc |-> "OK", v |-> d, rest |-> y \o (z \o r)]
  <2> HIDE DEF d, y, z
  <2> QED
    BY <1>2, <1>8, ReadDelta
<1>11. s # <<>>
  <2> HIDE DEF s
  <2> QED
    BY <1>9
<1>12. Head(s) \div 16 = a /\ Head(s) % 16 = b
  BY <1>5, <1>9
<1>13. Extended(Head(s) \div 16, Tail(s)) = [rc |-> "OK", v |-> d, rest |-> y \o (z \o r)]
  <2> HIDE DEF s, a, x, y, z, d
  <2> QED
    BY <1>9, <1>10, <1>12
<1> HIDE DEF s
<1> QED
  BY <1>1, <1>8, <1>9, <1>11, <1>12, <1>13 DEF s

\* An option of fewer than 269 bytes is read as it was written.
LEMMA ReadOption ==
  ASSUME NEW o \in Option, NEW run \in Byte, run <= o.num, NEW r \in Seq(Byte),
         Len(o.val) < 269
  PROVE  coap_parseOption(optionBytes(o, run) \o r, run) =
            [rc |-> "OK", opt |-> o, rest |-> r, running |-> o.num]
<1> DEFINE s == optionBytes(o, run) \o r
           l == Len(o.val)
           delta == Extended(Head(s) \div 16, Tail(s))
           len == Extended(Head(s) % 16, delta.rest)
           z == o.val \o r
<1>1. o.num \in Byte /\ o.val \in Seq(Byte) /\ o = [num |-> o.num, val |-> o.val]
  BY DEF Option
<1>2. /\ delta = [rc |-> "OK", v |-> o.num - run, rest |-> lenBytes(l) \o z]
      /\ Head(s) % 16 = coap_option_nibble(l)
      /\ l \in Nat /\ l <= 268 /\ z \in Seq(Byte)
  <2>1. /\ delta = [rc |-> "OK", v |-> o.num - run, rest |-> lenBytes(l) \o z]
        /\ Head(s) % 16 = coap_option_nibble(l)
        /\ l \in Nat /\ z \in Seq(Byte)
    BY ReadHead
  <2>2. l < 269
    OBVIOUS
  <2> HIDE DEF l, delta, s, z
  <2>3. l <= 268
    BY <2>1, <2>2
  <2> QED
    BY <2>1, <2>3
<1>3. len = [rc |-> "OK", v |-> l, rest |-> z]
  <2>1. len = Extended(coap_option_nibble(l), lenBytes(l) \o z)
    <3> HIDE DEF delta, s, z, l
    <3> QED
      BY <1>2
  <2> HIDE DEF len, l, z
  <2> QED
    BY <1>2, <2>1, ReadLength
<1>4. coap_parseOption(s, run) =
        CASE delta.rc = "INVALID" -> Failure("OPTION_DELTA_INVALID")
          [] delta.rc \notin {"OK", "INVALID"} -> delta
          [] delta.rc = "OK" /\ len.rc = "INVALID" -> Failure("OPTION_LEN_INVALID")
          [] delta.rc = "OK" /\ len.rc \notin {"OK", "INVALID"} -> len
          [] delta.rc = "OK" /\ len.rc = "OK" /\ len.v > Len(len.rest) ->
                Failure("OPTION_TOO_BIG")
          [] OTHER ->
                [rc      |-> "OK",
                 opt     |-> [num |-> (delta.v + run) % 2^8,
                              val |-> SubSeq(len.rest, 1, len.v)],
                 rest    |-> SubSeq(len.rest, len.v + 1, Len(len.rest)),
                 running |-> (run + delta.v) % 2^16]
  BY DEF coap_parseOption
<1>5. l <= Len(z) /\ SubSeq(z, 1, l) = o.val /\ SubSeq(z, l + 1, Len(z)) = r
  BY <1>1, CutInTwo
<1>6. ((o.num - run) + run) % 2^8 = o.num /\ (run + (o.num - run)) % 2^16 = o.num
  <2>1. o.num \in Nat /\ o.num <= 255 /\ run \in Nat
    BY <1>1, ByteIs
  <2>2. (o.num - run) + run = o.num /\ run + (o.num - run) = o.num
    BY <2>1
  <2>3. o.num % 2^8 = o.num /\ o.num % 2^16 = o.num
    BY <2>1
  <2> QED
    BY <2>2, <2>3
<1> HIDE DEF s, delta, len, l, z
<1>7. delta.rc = "OK" /\ len.rc = "OK" /\ ~(len.v > Len(len.rest))
  <2>1. Len(z) \in Nat
    BY <1>2
  <2> QED
    BY <1>2, <1>3, <1>5, <2>1
<1>8. coap_parseOption(s, run) =
        [rc      |-> "OK",
         opt     |-> [num |-> (delta.v + run) % 2^8,
                      val |-> SubSeq(len.rest, 1, len.v)],
         rest    |-> SubSeq(len.rest, len.v + 1, Len(len.rest)),
         running |-> (run + delta.v) % 2^16]
  BY <1>4, <1>7
<1>9. delta.v = o.num - run /\ len.v = l /\ len.rest = z
  BY <1>2, <1>3
<1>10. coap_parseOption(s, run) = [rc |-> "OK", opt |-> o, rest |-> r, running |-> o.num]
  BY <1>1, <1>5, <1>6, <1>8, <1>9
<1> QED
  BY <1>10 DEF s

\* A longer one is not.
LEMMA MisreadOption ==
  ASSUME NEW o \in Option, NEW run \in Byte, run <= o.num, NEW r \in Seq(Byte),
         Len(o.val) >= 269, coap_parseOption(optionBytes(o, run) \o r, run).rc = "OK"
  PROVE  coap_parseOption(optionBytes(o, run) \o r, run).opt # o
<1> DEFINE s == optionBytes(o, run) \o r
           l == Len(o.val)
           delta == Extended(Head(s) \div 16, Tail(s))
           len == Extended(Head(s) % 16, delta.rest)
           z == o.val \o r
<1>1. /\ delta = [rc |-> "OK", v |-> o.num - run, rest |-> lenBytes(l) \o z]
      /\ Head(s) % 16 = coap_option_nibble(l)
      /\ l \in Nat /\ l >= 269 /\ z \in Seq(Byte)
  BY ReadHead
<1>2. len.rc = "OK" /\ len.v # l /\ len.v \in Nat /\ len.rest \in Seq(Byte)
  <2>1. len = Extended(coap_option_nibble(l), lenBytes(l) \o z)
    <3> HIDE DEF delta, s, z, l
    <3> QED
      BY <1>1
  <2> HIDE DEF len, l, z
  <2>2. len.rc = "OK" /\ len.v # l
    BY <1>1, <2>1, ReadLongLength
  <2>3. /\ coap_option_nibble(l) \in Nat /\ coap_option_nibble(l) <= 14
        /\ lenBytes(l) \o z \in Seq(Byte)
    <3>1. coap_option_nibble(l) \in Nat /\ coap_option_nibble(l) <= 14 /\ lenBytes(l) \in Seq(Byte)
      BY <1>1, LenBytesType
    <3> QED
      BY <1>1, <3>1, CutInTwo
  <2>4. coap_option_nibble(l) \in 0 .. 15
    <3> DEFINE n == coap_option_nibble(l)
    <3>1. n \in Nat /\ n <= 14
      BY <2>3
    <3> HIDE DEF n
    <3>2. n \in 0 .. 15
      BY <3>1
    <3> QED
      BY <3>2 DEF n
  <2>5. len.v \in Nat /\ len.rest \in Seq(Byte)
    BY <2>1, <2>2, <2>3, <2>4, ExtendedType
  <2> QED
    BY <2>2, <2>5
<1>3. coap_parseOption(s, run) =
        CASE delta.rc = "INVALID" -> Failure("OPTION_DELTA_INVALID")
          [] delta.rc \notin {"OK", "INVALID"} -> delta
          [] delta.rc = "OK" /\ len.rc = "INVALID" -> Failure("OPTION_LEN_INVALID")
          [] delta.rc = "OK" /\ len.rc \notin {"OK", "INVALID"} -> len
          [] delta.rc = "OK" /\ len.rc = "OK" /\ len.v > Len(len.rest) ->
                Failure("OPTION_TOO_BIG")
          [] OTHER ->
                [rc      |-> "OK",
                 opt     |-> [num |-> (delta.v + run) % 2^8,
                              val |-> SubSeq(len.rest, 1, len.v)],
                 rest    |-> SubSeq(len.rest, len.v + 1, Len(len.rest)),
                 running |-> (run + delta.v) % 2^16]
  BY DEF coap_parseOption
<1>4. coap_parseOption(s, run).rc = "OK"
  OBVIOUS
<1> HIDE DEF s, delta, len, z
<1>5. delta.rc = "OK" /\ ~(len.v > Len(len.rest))
  BY <1>1, <1>2, <1>3, <1>4 DEF Failure
<1>6. coap_parseOption(s, run).opt.val = SubSeq(len.rest, 1, len.v)
  BY <1>2, <1>3, <1>5
<1>7. Len(SubSeq(len.rest, 1, len.v)) = len.v
  BY <1>2, <1>5
<1>8. coap_parseOption(s, run).opt # o
  BY <1>2, <1>6, <1>7
<1> QED
  BY <1>8 DEF s

-----------------------------------------------------------------------------
(* The bytes of a packet.                                                  *)

\* The number the distance of option i + 1 is counted from.
Before(pkt, i) == IF i = 0 THEN 0 ELSE pkt.opts[i].num

\* What is behind the first bytes x of w.
Behind(w, x) == SubSeq(w, Len(x) + 1, Len(w))

\* Are the bytes x the first of w?
StartsWith(w, x) == \E r \in Seq(Byte) : w = x \o r

\* What a packet consists of.
LEMMA PacketIs ==
  ASSUME NEW p \in Packet
  PROVE  /\ p.ver = 1 /\ p.t \in 0 .. 3 /\ p.tkl \in 0 .. 8 /\ p.code \in Byte
         /\ p.id \in Byte \X Byte /\ p.tok \in Seq(Byte) /\ p.opts \in Seq(Option)
         /\ p.payload \in Seq(Byte) /\ p.tkl = Len(p.tok)
         /\ Len(p.opts) \in Nat /\ Len(p.opts) <= MAXOPT
         /\ p = [ver |-> p.ver, t |-> p.t, tkl |-> p.tkl, code |-> p.code, id |-> p.id,
                 tok |-> p.tok, opts |-> p.opts, payload |-> p.payload]
<1> DEFINE F == [ver : {1}, t : 0 .. 3, tkl : 0 .. 8, code : Byte, id : Byte \X Byte,
                 tok : Seq(Byte), opts : Seq(Option), payload : Seq(Byte)]
<1>1. p \in F /\ p.tkl = Len(p.tok) /\ Len(p.opts) <= MAXOPT
  BY DEF Packet
<1>2. /\ p.ver = 1 /\ p.t \in 0 .. 3 /\ p.tkl \in 0 .. 8 /\ p.code \in Byte
      /\ p.id \in Byte \X Byte /\ p.tok \in Seq(Byte) /\ p.opts \in Seq(Option)
      /\ p.payload \in Seq(Byte)
  BY <1>1
<1>3. p = [ver |-> p.ver, t |-> p.t, tkl |-> p.tkl, code |-> p.code, id |-> p.id,
           tok |-> p.tok, opts |-> p.opts, payload |-> p.payload]
  BY <1>1
<1>4. Len(p.opts) \in Nat
  BY <1>2
<1> QED
  BY <1>1, <1>2, <1>3, <1>4

\* A sequence with four bytes in front of it.
LEMMA FourInFront ==
  ASSUME NEW a \in Byte, NEW b \in Byte, NEW c \in Byte, NEW d \in Byte, NEW x \in Seq(Byte)
  PROVE  LET s == <<a, b, c, d>> \o x
         IN  /\ s \in Seq(Byte) /\ Len(s) = 4 + Len(x)
             /\ s[1] = a /\ s[2] = b /\ s[3] = c /\ s[4] = d
             /\ SubSeq(s, 5, 4 + Len(x)) = x
  OBVIOUS

\* The first byte of the header holds three fields.
LEMMA FirstByte ==
  ASSUME NEW t \in 0 .. 3, NEW k \in 0 .. 8
  PROVE  /\ 64 + 16 * t + k \in Byte
         /\ (64 + 16 * t + k) \div 64 = 1
         /\ ((64 + 16 * t + k) \div 16) % 4 = t
         /\ (64 + 16 * t + k) % 16 = k
<1>1. 64 + 16 * t + k \in Nat /\ 64 + 16 * t + k <= 255
  OBVIOUS
<1>2. (64 + 16 * t + k) \div 64 = 1
  OBVIOUS
<1>3. (64 + 16 * t + k) % 16 = k
  OBVIOUS
<1>4. (64 + 16 * t + k) \div 16 = 4 + t
  OBVIOUS
<1>5. (4 + t) % 4 = t
  OBVIOUS
<1> QED
  BY <1>1, <1>2, <1>3, <1>4, <1>5, ByteIs

\* The header and the token are 4 + tkl bytes.
LEMMA HeadBytesAre ==
  ASSUME NEW p \in Packet
  PROVE  LET h == 64 + 16 * p.t + p.tkl
         IN  /\ headBytes(p) = <<h, p.code, p.id[1], p.id[2]>> \o p.tok
             /\ h \in Byte /\ p.id[1] \in Byte /\ p.id[2] \in Byte
             /\ headBytes(p) \in Seq(Byte)
             /\ Len(headBytes(p)) = 4 + p.tkl
<1> DEFINE h == 64 + 16 * p.t + p.tkl
<1>1. /\ p.ver = 1 /\ p.t \in 0 .. 3 /\ p.tkl \in 0 .. 8 /\ p.code \in Byte
      /\ p.id \in Byte \X Byte /\ p.tok \in Seq(Byte) /\ p.tkl = Len(p.tok)
  BY PacketIs
<1>2. p.id[1] \in Byte /\ p.id[2] \in Byte
  BY <1>1
<1>3. h \in Byte
  BY <1>1, FirstByte
<1>4. 64 * (p.ver % 4) + 16 * (p.t % 4) + (p.tkl % 16) = h
  <2> DEFINE v == p.ver
             t == p.t
             k == p.tkl
  <2>1. v = 1 /\ t \in 0 .. 3 /\ k \in 0 .. 8
    BY <1>1
  <2> HIDE DEF v, t, k
  <2>2. 64 * (v % 4) + 16 * (t % 4) + (k % 16) = 64 + 16 * t + k
    BY <2>1
  <2> QED
    BY <2>2 DEF v, t, k
<1>5. SubSeq(p.tok, 1, p.tkl) = p.tok
  BY <1>1
<1>6. headBytes(p) = <<h, p.code, p.id[1], p.id[2]>> \o p.tok
  BY <1>4, <1>5 DEF headBytes
<1> HIDE DEF h
<1>7. headBytes(p) \in Seq(Byte) /\ Len(headBytes(p)) = 4 + Len(p.tok)
  BY <1>1, <1>2, <1>3, <1>6, FourInFront
<1>8. headBytes(p) \in Seq(Byte) /\ Len(headBytes(p)) = 4 + p.tkl
  BY <1>1, <1>7
<1> QED
  BY <1>2, <1>3, <1>6, <1>8 DEF h

\* A turn of the loop that adds an option adds its bytes.
LEMMA BuildStep ==
  ASSUME NEW bl, NEW p, NEW i \in Nat, buildLoop(bl, p)[i + 1].rc = "OK"
  PROVE  LET b == buildLoop(bl, p)[i]
             c == buildLoop(bl, p)[i + 1]
         IN  /\ b.rc = "OK"
             /\ c.buf = b.buf \o optionBytes(p.opts[i + 1], b.running)
             /\ c.running = p.opts[i + 1].num
             /\ ~(Len(b.buf) > bl)
<1> DEFINE b == buildLoop(bl, p)[i]
           c == buildLoop(bl, p)[i + 1]
<1>1. c = addOption(b, p.opts[i + 1], bl)
  BY BuildLoopDef
<1> HIDE DEF b, c
<1>2. c.rc = "OK"
  BY DEF c
<1>3. ~(b.rc # "OK" \/ Len(b.buf) > bl)
  BY <1>1, <1>2 DEF addOption, Failure
<1>4. c = [rc |-> "OK", buf |-> b.buf \o optionBytes(p.opts[i + 1], b.running),
           running |-> p.opts[i + 1].num]
  BY <1>1, <1>3 DEF addOption
<1>5. /\ b.rc = "OK"
      /\ c.buf = b.buf \o optionBytes(p.opts[i + 1], b.running)
      /\ c.running = p.opts[i + 1].num
      /\ ~(Len(b.buf) > bl)
  BY <1>3, <1>4
<1> QED
  BY <1>5 DEF b, c

\* What has been written is bytes, and the last number is remembered.
LEMMA BuildLoopType ==
  ASSUME NEW bl, NEW p \in Packet
  PROVE  \A i \in Nat :
            LET b == buildLoop(bl, p)[i]
            IN  i <= Len(p.opts) /\ b.rc = "OK" =>
                  /\ b.buf \in Seq(Byte)
                  /\ b.running = Before(p, i) /\ b.running \in Byte
<1> DEFINE f == buildLoop(bl, p)
           Good(i) == i <= Len(p.opts) /\ f[i].rc = "OK" =>
                        /\ f[i].buf \in Seq(Byte)
                        /\ f[i].running = Before(p, i) /\ f[i].running \in Byte
           D == {i \in Nat : Good(i)}
<1>1. 0 \in D
  <2>1. f[0] = headOf(p)
    BY BuildLoopDef
  <2> HIDE DEF f
  <2>2. f[0].buf = headBytes(p) /\ f[0].running = 0
    BY <2>1 DEF headOf
  <2>3. f[0].buf \in Seq(Byte)
    BY <2>2, HeadBytesAre
  <2>4. f[0].running \in Byte /\ f[0].running = Before(p, 0)
    BY <2>2, ByteIs DEF Before
  <2>5. Good(0)
    BY <2>3, <2>4
  <2> QED
    BY <2>5
<1>2. ASSUME NEW i \in Nat, i \in D PROVE i + 1 \in D
  <2> SUFFICES ASSUME i + 1 <= Len(p.opts), f[i + 1].rc = "OK"
               PROVE  /\ f[i + 1].buf \in Seq(Byte)
                      /\ f[i + 1].running = Before(p, i + 1) /\ f[i + 1].running \in Byte
    OBVIOUS
  <2>1. /\ f[i].rc = "OK"
        /\ f[i + 1].buf = f[i].buf \o optionBytes(p.opts[i + 1], f[i].running)
        /\ f[i + 1].running = p.opts[i + 1].num
    BY BuildStep, ZenonT(60)
  <2> HIDE DEF f
  <2>2. p.opts \in Seq(Option) /\ Len(p.opts) \in Nat
    BY PacketIs
  <2>3. p.opts[i + 1] \in Option /\ i <= Len(p.opts)
    BY <2>2
  <2>4. f[i].buf \in Seq(Byte) /\ f[i].running \in Byte
    BY <1>2, <2>1, <2>3
  <2>5. optionBytes(p.opts[i + 1], f[i].running) \in Seq(Byte)
    BY <2>3, <2>4, OptionBytesType
  <2>6. f[i + 1].buf \in Seq(Byte)
    BY <2>1, <2>4, <2>5, CutInTwo
  <2>7. f[i + 1].running \in Byte
    BY <2>1, <2>3 DEF Option
  <2>8. f[i + 1].running = Before(p, i + 1)
    <3>1. i + 1 # 0
      OBVIOUS
    <3> QED
      BY <2>1, <3>1 DEF Before
  <2> QED
    BY <2>6, <2>7, <2>8
<1> HIDE DEF D
<1>3. \A i \in Nat : i \in D
  BY <1>1, <1>2, SetInduction
<1> QED
  BY <1>3 DEF D

\* A packet that was built begins with what had been written after each option.
LEMMA BuildGrows ==
  ASSUME NEW bl, NEW p \in Packet, NEW n \in Nat, n <= Len(p.opts),
         buildLoop(bl, p)[n].rc = "OK"
  PROVE  \A i \in Nat : i <= n =>
            /\ buildLoop(bl, p)[i].rc = "OK"
            /\ StartsWith(buildLoop(bl, p)[n].buf, buildLoop(bl, p)[i].buf)
<1> DEFINE f == buildLoop(bl, p)
           Good(i) == f[i].rc = "OK" /\ StartsWith(f[n].buf, f[i].buf)
           D == {k \in Nat : k <= n => Good(n - k)}
<1>1. p.opts \in Seq(Option) /\ Len(p.opts) \in Nat
  BY PacketIs
<1>2. \A i \in Nat : i <= Len(p.opts) /\ f[i].rc = "OK" =>
                        f[i].buf \in Seq(Byte) /\ f[i].running \in Byte
  BY BuildLoopType
<1>3. 0 \in D
  <2>1. f[n].rc = "OK" /\ f[n].buf \in Seq(Byte)
    BY <1>2
  <2> HIDE DEF f
  <2>2. f[n].buf = f[n].buf \o <<>> /\ <<>> \in Seq(Byte)
    BY <2>1
  <2>3. Good(n)
    BY <2>1, <2>2 DEF StartsWith
  <2>4. n - 0 = n
    OBVIOUS
  <2> HIDE DEF Good
  <2> QED
    BY <2>3, <2>4
<1>4. ASSUME NEW k \in Nat, k \in D PROVE k + 1 \in D
  <2> SUFFICES ASSUME k + 1 <= n PROVE Good(n - (k + 1))
    OBVIOUS
  <2> DEFINE i == n - (k + 1)
  <2>1. i \in Nat /\ i + 1 <= n /\ i + 1 = n - k /\ k <= n
    OBVIOUS
  <2>2. Good(i + 1)
    <3>1. Good(n - k)
      BY <1>4, <2>1
    <3> HIDE DEF Good, i
    <3> QED
      BY <2>1, <3>1
  <2> HIDE DEF i
  <2>3. /\ f[i].rc = "OK"
        /\ f[i + 1].buf = f[i].buf \o optionBytes(p.opts[i + 1], f[i].running)
    <3>1. buildLoop(bl, p)[i + 1].rc = "OK"
      BY <2>2
    <3> HIDE DEF Good, D, f
    <3>2. LET b == buildLoop(bl, p)[i]
              c == buildLoop(bl, p)[i + 1]
          IN  b.rc = "OK" /\ c.buf = b.buf \o optionBytes(p.opts[i + 1], b.running)
      BY <2>1, <3>1, BuildStep, ZenonT(60)
    <3> QED
      BY <3>2 DEF f
  <2> HIDE DEF f
  <2>4. p.opts[i + 1] \in Option /\ i <= Len(p.opts)
    BY <1>1, <2>1
  <2>5. f[i].buf \in Seq(Byte) /\ f[i].running \in Byte
    BY <1>2, <2>1, <2>3, <2>4
  <2> DEFINE ob == optionBytes(p.opts[i + 1], f[i].running)
  <2>6. ob \in Seq(Byte)
    BY <2>4, <2>5, OptionBytesType
  <2> HIDE DEF ob
  <2>7. PICK r \in Seq(Byte) : f[n].buf = f[i + 1].buf \o r
    BY <2>2 DEF StartsWith
  <2>8. f[n].buf = f[i].buf \o (ob \o r) /\ ob \o r \in Seq(Byte)
    <3>1. f[i + 1].buf = f[i].buf \o ob
      BY <2>3 DEF ob
    <3> DEFINE x == f[i].buf
    <3>2. x \in Seq(Byte) /\ f[n].buf = (x \o ob) \o r
      BY <2>5, <2>7, <3>1
    <3> HIDE DEF x
    <3>3. (x \o ob) \o r = x \o (ob \o r) /\ ob \o r \in Seq(Byte)
      BY <2>6, <3>2, ConcatTwo
    <3> QED
      BY <3>2, <3>3 DEF x
  <2>9. Good(i)
    BY <2>3, <2>8 DEF StartsWith
  <2> QED
    BY <2>9 DEF i
<1> HIDE DEF D
<1>5. \A k \in Nat : k \in D
  BY <1>3, <1>4, SetInduction
<1>6. ASSUME NEW i \in Nat, i <= n PROVE Good(i)
  <2>1. n - i \in Nat /\ n - i <= n /\ n - (n - i) = i
    BY <1>6
  <2>2. Good(n - (n - i))
    BY <1>5, <2>1 DEF D
  <2> HIDE DEF Good
  <2> QED
    BY <2>1, <2>2
<1> QED
  BY <1>6

-----------------------------------------------------------------------------
(* coap_parse reads what coap_build wrote.                                 *)

\* What is behind the first and behind the second of four parts.
LEMMA BehindTwo ==
  ASSUME NEW x \in Seq(Byte), NEW y \in Seq(Byte), NEW r \in Seq(Byte), NEW rest \in Seq(Byte)
  PROVE  LET w == ((x \o y) \o r) \o rest
         IN  /\ Behind(w, x \o y) \in Seq(Byte)
             /\ Behind(w, x) = y \o Behind(w, x \o y)
<1> DEFINE v == x \o y
           w == (v \o r) \o rest
           z == r \o rest
<1>1. v \in Seq(Byte) /\ z \in Seq(Byte)
  BY ConcatTwo
<1>2. w = v \o z
  <2> HIDE DEF v
  <2> QED
    BY <1>1, ConcatTwo, SMTT(30)
<1>3. v \o z = x \o (y \o z) /\ y \o z \in Seq(Byte)
  <2> HIDE DEF v, w, z
  <2>1. (x \o y) \o z = x \o (y \o z) /\ y \o z \in Seq(Byte)
    BY <1>1, ConcatTwo, SMTT(30)
  <2> QED
    BY <2>1 DEF v
<1>4. Behind(w, v) = z
  <2> HIDE DEF v, w, z
  <2> QED
    BY <1>1, <1>2, CutInTwo DEF Behind
<1>5. Behind(w, x) = y \o z
  <2> DEFINE u == y \o z
  <2> HIDE DEF v, w, z
  <2>1. u \in Seq(Byte) /\ w = x \o u
    BY <1>2, <1>3
  <2> HIDE DEF u
  <2>2. Behind(w, x) = u
    BY <2>1, CutInTwo DEF Behind
  <2> QED
    BY <2>2 DEF u
<1> HIDE DEF w, v, z
<1>6. Behind(w, v) \in Seq(Byte) /\ Behind(w, x) = y \o Behind(w, v)
  BY <1>1, <1>4, <1>5
<1> QED
  BY <1>6 DEF w, v

\* A datagram holds, behind the bytes of the options so far, the next option and
\* what follows it.
LEMMA BehindOption ==
  ASSUME NEW bl, NEW p \in Packet, buildLoop(bl, p)[Len(p.opts)].rc = "OK",
         NEW rest \in Seq(Byte), NEW w, w = buildLoop(bl, p)[Len(p.opts)].buf \o rest,
         NEW i \in Nat, i < Len(p.opts)
  PROVE  LET f == buildLoop(bl, p)
         IN  /\ p.opts[i + 1] \in Option /\ Before(p, i) \in Byte
             /\ Behind(w, f[i].buf) =
                  optionBytes(p.opts[i + 1], Before(p, i)) \o Behind(w, f[i + 1].buf)
             /\ Behind(w, f[i + 1].buf) \in Seq(Byte)
<1> DEFINE f == buildLoop(bl, p)
           n == Len(p.opts)
           o == p.opts[i + 1]
           ob == optionBytes(o, Before(p, i))
           x == f[i].buf
           y == f[i + 1].buf
<1>1. p.opts \in Seq(Option) /\ n \in Nat
  BY PacketIs
<1>2. o \in Option /\ i + 1 <= n /\ i <= n
  BY <1>1
<1>3. \A j \in Nat : j <= n => f[j].rc = "OK" /\ StartsWith(f[n].buf, f[j].buf)
  <2>1. n <= Len(p.opts) /\ f[n].rc = "OK"
    BY <1>1
  <2> HIDE DEF n
  <2> QED
    BY <1>1, <2>1, BuildGrows
<1>4. f[i].rc = "OK" /\ f[i + 1].rc = "OK" /\ StartsWith(f[n].buf, y)
  <2> HIDE DEF f, n
  <2> QED
    BY <1>2, <1>3
<1> PICK r \in Seq(Byte) : f[n].buf = y \o r
  BY <1>4 DEF StartsWith
<1>5. x \in Seq(Byte) /\ f[i].running = Before(p, i) /\ Before(p, i) \in Byte
  BY <1>2, <1>4, BuildLoopType
<1>6. y \in Seq(Byte)
  <2>1. i + 1 \in Nat
    OBVIOUS
  <2> QED
    BY <1>2, <1>4, <2>1, BuildLoopType
<1>7. y = x \o ob
  <2>1. f[i + 1].buf = f[i].buf \o optionBytes(p.opts[i + 1], f[i].running)
    BY <1>4, BuildStep, ZenonT(60)
  <2> HIDE DEF f
  <2> QED
    BY <1>5, <2>1
<1>8. ob \in Seq(Byte)
  BY <1>2, <1>5, OptionBytesType
<1>9. w = (y \o r) \o rest
  OBVIOUS
<1> HIDE DEF f, n, o, ob, x, y
<1>10. w = ((x \o ob) \o r) \o rest
  BY <1>7, <1>9
<1>11. /\ Behind(w, x \o ob) \in Seq(Byte)
       /\ Behind(w, x) = ob \o Behind(w, x \o ob)
  BY <1>5, <1>8, <1>10, BehindTwo
<1>12. Behind(w, x) = ob \o Behind(w, y) /\ Behind(w, y) \in Seq(Byte)
  BY <1>7, <1>11
<1> QED
  BY <1>2, <1>5, <1>12 DEF x, y, ob, o, f, n

\* One option more of a sequence.
LEMMA OneMore ==
  ASSUME NEW q \in Seq(Option), NEW k \in Nat, k < Len(q)
  PROVE  /\ Append(SubSeq(q, 1, k), q[k + 1]) = SubSeq(q, 1, k + 1)
         /\ SubSeq(q, 1, k) \in Seq(Option) /\ Len(SubSeq(q, 1, k)) = k
  OBVIOUS

\* The numbers of increasing options count from the ones before.
LEMMA NumbersGrow ==
  ASSUME NEW p \in Packet, Increasing(p.opts), NEW i \in Nat, i < Len(p.opts)
  PROVE  Before(p, i) <= p.opts[i + 1].num
<1>1. p.opts \in Seq(Option) /\ Len(p.opts) \in Nat
  BY PacketIs
<1>2. p.opts[i + 1] \in Option
  BY <1>1
<1>3. CASE i = 0
  <2>1. p.opts[i + 1].num \in Nat
    BY <1>2, ByteIs DEF Option
  <2> QED
    BY <1>3, <2>1 DEF Before
<1>4. CASE i # 0
  <2>1. i \in 1 .. Len(p.opts) - 1
    BY <1>1, <1>4
  <2>2. p.opts[i].num <= p.opts[i + 1].num
    BY <2>1 DEF Increasing
  <2> QED
    BY <1>4, <2>2 DEF Before
<1> QED
  BY <1>3, <1>4

\* The turn of the reading loop that comes upon the bytes of an option.
LEMMA ReadStep ==
  ASSUME NEW s, NEW k \in Nat, NEW q \in Seq(Option), NEW o \in Option, NEW run \in Byte,
         NEW r \in Seq(Byte),
         optionLoop(s)[k] = [rc |-> "OK", opts |-> q, rest |-> optionBytes(o, run) \o r,
                             running |-> run]
  PROVE  LET e == coap_parseOption(optionBytes(o, run) \o r, run)
         IN  optionLoop(s)[k + 1] =
               IF e.rc = "OK" THEN [rc |-> "OK", opts |-> Append(q, e.opt),
                                    rest |-> e.rest, running |-> e.running]
                              ELSE Failure(e.rc)
<1> DEFINE ob == optionBytes(o, run)
           a == optionLoop(s)[k]
           c == optionLoop(s)[k + 1]
           e == coap_parseOption(ob \o r, run)
<1>1. ob \in Seq(Byte) /\ Len(ob) >= 1 /\ ob[1] # PayloadMarker
  BY OptionBytesType
<1>2. a = [rc |-> "OK", opts |-> q, rest |-> ob \o r, running |-> run]
  OBVIOUS
<1>3. c = nextOption(a)
  BY OptionLoopDef
<1> HIDE DEF a, c, ob
<1>4. (ob \o r)[1] = ob[1] /\ ob \o r # <<>>
  BY <1>1
<1>5. a.rc = "OK" /\ a.rest = ob \o r /\ a.opts = q /\ a.running = run
  BY <1>2
<1>6. ~(a.rc # "OK" \/ a.rest = <<>> \/ a.rest[1] = PayloadMarker)
  BY <1>1, <1>4, <1>5
<1>7. c = IF coap_parseOption(a.rest, a.running).rc = "OK"
          THEN [rc |-> "OK", opts |-> Append(a.opts, coap_parseOption(a.rest, a.running).opt),
                rest |-> coap_parseOption(a.rest, a.running).rest,
                running |-> coap_parseOption(a.rest, a.running).running]
          ELSE Failure(coap_parseOption(a.rest, a.running).rc)
  BY <1>3, <1>6 DEF nextOption
<1> HIDE DEF e
<1>8. coap_parseOption(a.rest, a.running) = e
  BY <1>5 DEF e
<1>9. c = IF e.rc = "OK" THEN [rc |-> "OK", opts |-> Append(q, e.opt),
                               rest |-> e.rest, running |-> e.running]
                         ELSE Failure(e.rc)
  BY <1>5, <1>7, <1>8
<1> QED
  BY <1>9 DEF c, e, ob

\* The loop of coap_parse reads the options that the loop of coap_build wrote, as far
\* as they are short.
LEMMA LoopReads ==
  ASSUME NEW bl, NEW p \in Packet, buildLoop(bl, p)[Len(p.opts)].rc = "OK",
         Increasing(p.opts),
         NEW rest \in Seq(Byte), NEW w, w = buildLoop(bl, p)[Len(p.opts)].buf \o rest
  PROVE  \A k \in Nat :
            k <= Len(p.opts) /\ (\A j \in 1 .. k : Len(p.opts[j].val) < 269) =>
                optionLoop(Behind(w, headBytes(p)))[k] =
                    [rc |-> "OK", opts |-> SubSeq(p.opts, 1, k),
                     rest |-> Behind(w, buildLoop(bl, p)[k].buf), running |-> Before(p, k)]
<1> DEFINE n == Len(p.opts)
           s == Behind(w, headBytes(p))
           f == optionLoop(s)
           At(k) == [rc |-> "OK", opts |-> SubSeq(p.opts, 1, k),
                     rest |-> Behind(w, buildLoop(bl, p)[k].buf), running |-> Before(p, k)]
           ShortTo(k) == \A j \in 1 .. k : Len(p.opts[j].val) < 269
           D == {k \in Nat : k <= n /\ ShortTo(k) => f[k] = At(k)}
<1>1. p.opts \in Seq(Option) /\ n \in Nat
  BY PacketIs
<1>2. 0 \in D
  <2>1. f[0] = noOptions(s)
    BY OptionLoopDef
  <2>2. buildLoop(bl, p)[0].buf = headBytes(p)
    <3>1. buildLoop(bl, p)[0] = headOf(p)
      BY BuildLoopDef
    <3> QED
      BY <3>1 DEF headOf
  <2>3. SubSeq(p.opts, 1, 0) = <<>> /\ Before(p, 0) = 0
    BY <1>1 DEF Before
  <2> HIDE DEF f
  <2>4. f[0] = At(0)
    BY <2>1, <2>2, <2>3 DEF noOptions
  <2> HIDE DEF At, ShortTo
  <2> QED
    BY <2>4
<1>3. ASSUME NEW k \in Nat, k \in D PROVE k + 1 \in D
  <2> SUFFICES ASSUME k + 1 <= n, ShortTo(k + 1) PROVE f[k + 1] = At(k + 1)
    OBVIOUS
  <2>1. k <= n /\ k < n /\ ShortTo(k)
    BY <1>1
  <2>2. f[k] = At(k)
    <3> HIDE DEF f, At, ShortTo
    <3> QED
      BY <1>3, <2>1
  <2> DEFINE o == p.opts[k + 1]
             run == Before(p, k)
             r == Behind(w, buildLoop(bl, p)[k + 1].buf)
             q == SubSeq(p.opts, 1, k)
  <2>3. /\ o \in Option /\ run \in Byte
        /\ Behind(w, buildLoop(bl, p)[k].buf) = optionBytes(o, run) \o r
        /\ r \in Seq(Byte)
    BY <2>1, BehindOption
  <2>4. q \in Seq(Option) /\ Append(q, o) = SubSeq(p.opts, 1, k + 1)
    BY <1>1, <2>1, OneMore
  <2>5. run <= o.num /\ Len(o.val) < 269
    <3>1. run <= o.num
      BY <2>1, NumbersGrow
    <3>2. k + 1 \in 1 .. k + 1
      OBVIOUS
    <3>3. Len(o.val) < 269
      BY <3>2
    <3> QED
      BY <3>1, <3>3
  <2>6. Before(p, k + 1) = o.num
    <3>1. k + 1 # 0
      OBVIOUS
    <3> QED
      BY <3>1 DEF Before
  <2>7. At(k + 1) = [rc |-> "OK", opts |-> Append(q, o), rest |-> r, running |-> o.num]
    BY <2>4, <2>6
  <2>8. f[k] = [rc |-> "OK", opts |-> q, rest |-> optionBytes(o, run) \o r, running |-> run]
    BY <2>2, <2>3
  <2> HIDE DEF At, o, run, r, q
  <2> DEFINE e == coap_parseOption(optionBytes(o, run) \o r, run)
  <2>9. e = [rc |-> "OK", opt |-> o, rest |-> r, running |-> o.num]
    BY <2>3, <2>5, ReadOption
  <2>10. f[k + 1] = IF e.rc = "OK" THEN [rc |-> "OK", opts |-> Append(q, e.opt),
                                        rest |-> e.rest, running |-> e.running]
                                  ELSE Failure(e.rc)
    <3>1. k \in Nat /\ q \in Seq(Option) /\ o \in Option /\ run \in Byte /\ r \in Seq(Byte)
      BY <2>3, <2>4
    <3>2. optionLoop(s)[k] = [rc |-> "OK", opts |-> q, rest |-> optionBytes(o, run) \o r,
                              running |-> run]
      BY <2>8
    <3> HIDE DEF s
    <3> QED
      BY <3>1, <3>2, ReadStep, ZenonT(60)
  <2> HIDE DEF f, e
  <2> QED
    BY <2>7, <2>9, <2>10
<1> HIDE DEF D
<1>4. \A k \in Nat : k \in D
  BY <1>2, <1>3, SetInduction
<1> QED
  BY <1>4 DEF D

\* At the end of the bytes and at the marker the loop has come to its end.
LEMMA LoopStops ==
  ASSUME NEW s, NEW n \in Nat,
         optionLoop(s)[n].rest = <<>> \/ optionLoop(s)[n].rest[1] = PayloadMarker
  PROVE  \A m \in Nat : m >= n => optionLoop(s)[m] = optionLoop(s)[n]
<1> DEFINE f == optionLoop(s)
           D == {k \in Nat : f[n + k] = f[n]}
<1>1. 0 \in D
  <2>1. n + 0 = n
    OBVIOUS
  <2> HIDE DEF f
  <2> QED
    BY <2>1
<1>2. ASSUME NEW k \in Nat, k \in D PROVE k + 1 \in D
  <2>1. n + k \in Nat /\ n + (k + 1) = (n + k) + 1
    OBVIOUS
  <2>2. f[(n + k) + 1] = nextOption(f[n + k])
    BY <2>1, OptionLoopDef
  <2>3. f[n].rest = <<>> \/ f[n].rest[1] = PayloadMarker
    OBVIOUS
  <2> HIDE DEF f
  <2>4. f[n + k] = f[n]
    BY <1>2
  <2>5. nextOption(f[n]) = f[n]
    BY <2>3 DEF nextOption
  <2>6. f[n + (k + 1)] = f[n]
    BY <2>1, <2>2, <2>4, <2>5
  <2> QED
    BY <2>6
<1> HIDE DEF D
<1>3. \A k \in Nat : k \in D
  BY <1>1, <1>2, SetInduction
<1>4. ASSUME NEW m \in Nat, m >= n PROVE f[m] = f[n]
  <2>1. m - n \in Nat /\ n + (m - n) = m
    BY <1>4
  <2>2. f[n + (m - n)] = f[n]
    BY <1>3, <2>1 DEF D
  <2> HIDE DEF f
  <2> QED
    BY <2>1, <2>2
<1> QED
  BY <1>4

\* A later turn fails or leaves the options that were read alone.
LEMMA LoopKeeps ==
  ASSUME NEW s \in Seq(Byte), NEW n \in Nat
  PROVE  \A m \in Nat : m >= n /\ optionLoop(s)[m].rc = "OK" =>
            LET a == optionLoop(s)[n]
                b == optionLoop(s)[m]
            IN  /\ a.rc = "OK" /\ Len(a.opts) <= Len(b.opts)
                /\ \A j \in 1 .. Len(a.opts) : b.opts[j] = a.opts[j]
<1> DEFINE f == optionLoop(s)
           Keeps(m) == f[m].rc = "OK" =>
                         /\ f[n].rc = "OK" /\ Len(f[n].opts) <= Len(f[m].opts)
                         /\ \A j \in 1 .. Len(f[n].opts) : f[m].opts[j] = f[n].opts[j]
           D == {k \in Nat : Keeps(n + k)}
<1>1. \A m \in Nat : f[m].rc = "OK" => f[m].opts \in Seq(Option) /\ Len(f[m].opts) \in Nat
  <2>1. \A m \in Nat : f[m].rc = "OK" => f[m].opts \in Seq(Option)
    BY OptionLoopType
  <2> HIDE DEF f
  <2> QED
    BY <2>1
<1>2. 0 \in D
  <2>1. n + 0 = n
    OBVIOUS
  <2>2. Keeps(n)
    <3> HIDE DEF f
    <3> QED
      BY <1>1
  <2> HIDE DEF Keeps
  <2> QED
    BY <2>1, <2>2
<1>3. ASSUME NEW k \in Nat, k \in D PROVE k + 1 \in D
  <2> DEFINE m == n + k
  <2>1. m \in Nat /\ n + (k + 1) = m + 1 /\ m + 1 \in Nat
    OBVIOUS
  <2>2. f[m + 1] = nextOption(f[m])
    BY <2>1, OptionLoopDef
  <2>3. Keeps(m)
    BY <1>3
  <2> HIDE DEF f, m
  <2>4. Keeps(m + 1)
    <3> SUFFICES ASSUME f[m + 1].rc = "OK"
                 PROVE  /\ f[n].rc = "OK" /\ Len(f[n].opts) <= Len(f[m + 1].opts)
                        /\ \A j \in 1 .. Len(f[n].opts) : f[m + 1].opts[j] = f[n].opts[j]
      OBVIOUS
    <3>1. CASE f[m].rc # "OK" \/ f[m].rest = <<>> \/ f[m].rest[1] = PayloadMarker
      <4>1. f[m + 1] = f[m]
        BY <2>2, <3>1 DEF nextOption
      <4> QED
        BY <2>3, <4>1
    <3>2. CASE ~(f[m].rc # "OK" \/ f[m].rest = <<>> \/ f[m].rest[1] = PayloadMarker)
      <4> DEFINE o == coap_parseOption(f[m].rest, f[m].running)
      <4>1. f[m + 1] = IF o.rc = "OK"
                       THEN [rc |-> "OK", opts |-> Append(f[m].opts, o.opt),
                             rest |-> o.rest, running |-> o.running]
                       ELSE Failure(o.rc)
        BY <2>2, <3>2 DEF nextOption
      <4> HIDE DEF o
      <4>2. o.rc = "OK"
        BY <4>1 DEF Failure
      <4>3. f[m + 1].opts = Append(f[m].opts, o.opt)
        BY <4>1, <4>2
      <4> DEFINE q == f[m].opts
      <4>4. q \in Seq(Option) /\ Len(q) \in Nat /\ Len(f[n].opts) \in Nat
        BY <1>1, <2>1, <2>3, <3>2
      <4>5. /\ f[n].rc = "OK" /\ Len(f[n].opts) <= Len(q)
            /\ \A j \in 1 .. Len(f[n].opts) : q[j] = f[n].opts[j]
        BY <2>3, <3>2
      <4> HIDE DEF q
      <4>6. Len(Append(q, o.opt)) = Len(q) + 1 /\ \A j \in 1 .. Len(q) : Append(q, o.opt)[j] = q[j]
        BY <4>4
      <4>7. Len(f[n].opts) <= Len(q) + 1
        BY <4>4, <4>5
      <4>8. ASSUME NEW j \in 1 .. Len(f[n].opts)
            PROVE  Append(q, o.opt)[j] = f[n].opts[j]
        <5>1. j \in 1 .. Len(q)
          BY <4>4, <4>5
        <5> QED
          BY <4>5, <4>6, <5>1
      <4>9. f[m + 1].opts = Append(q, o.opt)
        BY <4>3 DEF q
      <4> QED
        BY <4>5, <4>6, <4>7, <4>8, <4>9
    <3> QED
      BY <3>1, <3>2
  <2> HIDE DEF Keeps
  <2>5. Keeps(n + (k + 1))
    BY <2>1, <2>4
  <2> QED
    BY <2>5
<1> HIDE DEF D
<1>4. \A k \in Nat : k \in D
  BY <1>2, <1>3, SetInduction
<1>5. ASSUME NEW m \in Nat, m >= n PROVE Keeps(m)
  <2>1. m - n \in Nat /\ n + (m - n) = m
    BY <1>5
  <2>2. Keeps(n + (m - n))
    BY <1>4, <2>1 DEF D
  <2> HIDE DEF Keeps
  <2> QED
    BY <2>1, <2>2
<1> QED
  BY <1>5

\* A set of numbers that has a member has a least one.
LEMMA LeastNumber ==
  ASSUME NEW S, S \subseteq Nat, NEW x \in S
  PROVE  \E m \in S : \A y \in S : m <= y
<1> SUFFICES ASSUME \A m \in S : \E y \in S : y < m PROVE FALSE
  OBVIOUS
<1> DEFINE D == {n \in Nat : \A k \in 0 .. n : k \notin S}
<1>1. 0 \in D
  OBVIOUS
<1>2. ASSUME NEW n \in Nat, n \in D PROVE n + 1 \in D
  <2>1. n + 1 \notin S
    BY <1>2
  <2> QED
    BY <1>2, <2>1
<1> HIDE DEF D
<1>3. \A n \in Nat : n \in D
  BY <1>1, <1>2, SetInduction
<1> QED
  BY <1>3 DEF D

\* What coap_build puts behind the options.
PayloadBytes(p) == IF Len(p.payload) > 0 THEN <<PayloadMarker>> \o p.payload ELSE <<>>

\* A datagram that was built: the options, and behind them the payload.
LEMMA BuildIs ==
  ASSUME NEW bl, NEW p \in Packet, coap_build(bl, p).rc = "OK"
  PROVE  LET b == buildLoop(bl, p)[Len(p.opts)]
         IN  /\ b.rc = "OK" /\ b.buf \in Seq(Byte)
             /\ PayloadBytes(p) \in Seq(Byte)
             /\ PayloadBytes(p) = <<>> \/ PayloadBytes(p)[1] = PayloadMarker
             /\ payloadOf(PayloadBytes(p)) = p.payload
             /\ coap_build(bl, p).buf = b.buf \o PayloadBytes(p)
             /\ Len(p.payload) > 0 => ~(bl < Len(b.buf) + 1 + Len(p.payload))
<1> DEFINE b == buildLoop(bl, p)[Len(p.opts)]
           n == Len(p.payload)
<1>1. p.payload \in Seq(Byte) /\ p.tkl = Len(p.tok) /\ Len(p.opts) \in Nat /\ n \in Nat
  BY PacketIs
<1>2. coap_build(bl, p) =
        CASE bl < 4 + p.tkl -> Failure("BUFFER_TOO_SMALL")
          [] bl >= 4 + p.tkl /\ p.tkl > 0 /\ p.tkl # Len(p.tok) -> Failure("UNSUPPORTED")
          [] OTHER ->
                IF b.rc # "OK" \/ (n > 0 /\ bl < Len(b.buf) + 1 + n)
                THEN Failure("BUFFER_TOO_SMALL")
                ELSE [rc  |-> "OK",
                      buf |-> IF n > 0 THEN Append(b.buf, PayloadMarker) \o p.payload
                                       ELSE b.buf]
  BY DEF coap_build
<1> HIDE DEF b, n
<1>3. /\ ~(b.rc # "OK" \/ (n > 0 /\ bl < Len(b.buf) + 1 + n))
      /\ coap_build(bl, p).buf = IF n > 0 THEN Append(b.buf, PayloadMarker) \o p.payload ELSE b.buf
  BY <1>2 DEF Failure
<1>4. b.buf \in Seq(Byte)
  BY <1>1, <1>3, BuildLoopType DEF b
<1>5. PayloadMarker \in Byte
  BY ByteIs DEF PayloadMarker
<1>6. CASE n > 0
  <2> DEFINE x == b.buf
             z == p.payload
  <2>1. x \in Seq(Byte) /\ z \in Seq(Byte) /\ Len(z) > 0
    BY <1>1, <1>4, <1>6 DEF n
  <2>2. /\ PayloadBytes(p) = <<PayloadMarker>> \o z
        /\ coap_build(bl, p).buf = Append(x, PayloadMarker) \o z
    BY <1>3, <1>6 DEF PayloadBytes, n
  <2> HIDE DEF x, z
  <2> DEFINE t == <<PayloadMarker>> \o z
  <2>3. t \in Seq(Byte) /\ Len(t) > 1 /\ t[1] = PayloadMarker /\ Tail(t) = z
    BY <1>5, <2>1, OneInFront
  <2>4. Append(x, PayloadMarker) \o z = x \o t
    <3>1. Append(x, PayloadMarker) = x \o <<PayloadMarker>> /\ <<PayloadMarker>> \in Seq(Byte)
      BY <1>5, <2>1
    <3> QED
      BY <2>1, <3>1, ConcatTwo
  <2> HIDE DEF t
  <2>5. payloadOf(t) = z
    BY <2>3 DEF payloadOf
  <2>6. PayloadBytes(p) = t
    BY <2>2 DEF t
  <2>7. coap_build(bl, p).buf = x \o t
    BY <2>2, <2>4
  <2> QED
    BY <1>3, <1>4, <2>3, <2>5, <2>6, <2>7 DEF x, z, b, n
<1>7. CASE ~(n > 0)
  <2>1. p.payload = <<>>
    BY <1>1, <1>7 DEF n
  <2>2. PayloadBytes(p) = <<>>
    BY <1>7 DEF PayloadBytes, n
  <2>3. payloadOf(<<>>) = <<>>
    BY DEF payloadOf
  <2>4. coap_build(bl, p).buf = b.buf /\ b.buf = b.buf \o <<>> /\ <<>> \in Seq(Byte)
    BY <1>3, <1>4, <1>7
  <2> QED
    BY <1>3, <1>4, <1>7, <2>1, <2>2, <2>3, <2>4 DEF b, n
<1> QED
  BY <1>6, <1>7

\* A part of what is behind the first four bytes.
LEMMA PartOfPart ==
  ASSUME NEW w \in Seq(Byte), NEW k \in Nat, 4 + k <= Len(w)
  PROVE  SubSeq(SubSeq(w, 5, Len(w)), 1, k) = SubSeq(w, 5, 4 + k)
  OBVIOUS

\* The second of three parts of a sequence.
LEMMA MiddleIs ==
  ASSUME NEW a \in Seq(Byte), Len(a) = 4, NEW y \in Seq(Byte), NEW x \in Seq(Byte)
  PROVE  SubSeq(a \o (y \o x), 5, 4 + Len(y)) = y
<1> DEFINE z == y \o x
           w == a \o z
           k == Len(y)
<1>1. z \in Seq(Byte) /\ Len(z) = k + Len(x) /\ SubSeq(z, 1, k) = y /\ k \in Nat /\ Len(x) \in Nat
  BY CutInTwo
<1> HIDE DEF z, k
<1>2. w \in Seq(Byte) /\ Len(w) = Len(a) + Len(z) /\ SubSeq(w, Len(a) + 1, Len(w)) = z
  BY <1>1, CutInTwo
<1> HIDE DEF w
<1>3. SubSeq(w, 5, Len(w)) = z /\ 4 + k <= Len(w)
  BY <1>1, <1>2
<1>4. SubSeq(w, 5, 4 + k) = y
  BY <1>1, <1>2, <1>3, PartOfPart
<1> QED
  BY <1>4 DEF w, z, k

\* coap_parse reads the header and the token that coap_build wrote.
LEMMA HeadRead ==
  ASSUME NEW p \in Packet, NEW x \in Seq(Byte), NEW w, w = headBytes(p) \o x
  PROVE  /\ coap_parseHeader(w) = [rc |-> "OK", ver |-> p.ver, t |-> p.t, tkl |-> p.tkl,
                                   code |-> p.code, id |-> p.id]
         /\ coap_parseToken(coap_parseHeader(w), w) = [rc |-> "OK", tok |-> p.tok]
         /\ SubSeq(w, 5 + p.tkl, Len(w)) = Behind(w, headBytes(p))
         /\ Behind(w, headBytes(p)) = x
<1> DEFINE u == p.t
           k == p.tkl
           h == 64 + 16 * u + k
           c == p.code
           i == p.id[1]
           j == p.id[2]
           y == p.tok
           a == <<h, c, i, j>>
           v == y \o x
<1>1. /\ p.ver = 1 /\ u \in 0 .. 3 /\ k \in 0 .. 8 /\ c \in Byte
      /\ p.id \in Byte \X Byte /\ y \in Seq(Byte) /\ k = Len(y)
  BY PacketIs
<1>2. /\ headBytes(p) = a \o y
      /\ h \in Byte /\ i \in Byte /\ j \in Byte
      /\ headBytes(p) \in Seq(Byte) /\ Len(headBytes(p)) = 4 + k
  BY HeadBytesAre
<1>3. p.id = <<i, j>>
  BY <1>1
<1> HIDE DEF u, k
<1>4. h \div 64 = 1 /\ (h \div 16) % 4 = u /\ h % 16 = k
  BY <1>1, FirstByte, ZenonT(60)
<1> HIDE DEF h, c, i, j, y
<1>5. a \in Seq(Byte) /\ Len(a) = 4
  BY <1>1, <1>2
<1>6. v \in Seq(Byte) /\ Len(v) = k + Len(x) /\ Len(x) \in Nat
  BY <1>1
<1>7. w = a \o v
  <2>1. w = (a \o y) \o x
    BY <1>2
  <2> HIDE DEF a
  <2> QED
    BY <1>1, <1>5, <2>1, ConcatTwo
<1>8. SubSeq(w, 5, 4 + k) = y
  <2>1. SubSeq(a \o (y \o x), 5, 4 + Len(y)) = y
    <3> HIDE DEF a
    <3> QED
      BY <1>1, <1>5, MiddleIs
  <2> QED
    BY <1>1, <1>7, <2>1
<1> HIDE DEF v
<1>9. Len(w) = 4 + Len(v) /\ w[1] = h /\ w[2] = c /\ w[3] = i /\ w[4] = j
  BY <1>1, <1>2, <1>6, <1>7, FourInFront
<1>10. ~(Len(w) < 4) /\ ~(4 + k > Len(w)) /\ ~(k > 8)
  <2> DEFINE n == Len(w)
             m == Len(x)
  <2>1. n = 4 + (k + m) /\ m \in Nat /\ k \in 0 .. 8
    BY <1>1, <1>6, <1>9
  <2> HIDE DEF n, m
  <2>2. ~(n < 4) /\ ~(4 + k > n) /\ ~(k > 8)
    BY <2>1
  <2> QED
    BY <2>2 DEF n
<1>11. coap_parseHeader(w) = [rc |-> "OK", ver |-> 1, t |-> u, tkl |-> k,
                              code |-> c, id |-> <<i, j>>]
  <2>1. ~(w[1] \div 64 # 1) /\ (w[1] \div 16) % 4 = u /\ w[1] % 16 = k
    BY <1>4, <1>9
  <2> QED
    BY <1>9, <1>10, <2>1 DEF coap_parseHeader
<1>12. coap_parseToken(coap_parseHeader(w), w) = [rc |-> "OK", tok |-> y]
  <2> DEFINE hdr == coap_parseHeader(w)
  <2>1. hdr.tkl = k
    BY <1>11
  <2> HIDE DEF hdr
  <2>2. coap_parseToken(hdr, w) = [rc |-> "OK", tok |-> SubSeq(w, 5, 4 + k)]
    BY <1>10, <2>1 DEF coap_parseToken
  <2> QED
    BY <1>8, <2>2 DEF hdr
<1>13. SubSeq(w, Len(headBytes(p)) + 1, Len(w)) = x
  BY <1>2, CutInTwo
<1>14. 5 + k = Len(headBytes(p)) + 1
  BY <1>1, <1>2
<1> QED
  BY <1>1, <1>3, <1>11, <1>12, <1>13, <1>14 DEF Behind, k, c, y, u

\* What coap_build writes is bytes.
LEMMA BuildType ==
  ASSUME NEW bl, NEW p \in Packet, coap_build(bl, p).rc = "OK"
  PROVE  coap_build(bl, p).buf \in Seq(Byte)
<1> DEFINE x == buildLoop(bl, p)[Len(p.opts)].buf
<1>1. /\ x \in Seq(Byte) /\ PayloadBytes(p) \in Seq(Byte)
      /\ coap_build(bl, p).buf = x \o PayloadBytes(p)
  BY BuildIs
<1> HIDE DEF x
<1> QED
  BY <1>1, CutInTwo

\* What coap_parse makes of a datagram that coap_build wrote: the packet's header and
\* token, and the options and the payload that the loop finds.
LEMMA ParseOfBuild ==
  ASSUME NEW bl, NEW p \in Packet, coap_build(bl, p).rc = "OK"
  PROVE  LET w == coap_build(bl, p).buf
             s == Behind(w, headBytes(p))
             os == optionLoop(s)[MAXOPT]
         IN  /\ s \in Seq(Byte)
             /\ w = buildLoop(bl, p)[Len(p.opts)].buf \o PayloadBytes(p)
             /\ coap_parse(w) =
                  IF os.rc # "OK" THEN os
                  ELSE [rc |-> "OK",
                        pkt |-> [ver |-> p.ver, t |-> p.t, tkl |-> p.tkl, code |-> p.code,
                                 id |-> p.id, tok |-> p.tok, opts |-> os.opts,
                                 payload |-> payloadOf(os.rest)]]
<1> DEFINE w == coap_build(bl, p).buf
           s == Behind(w, headBytes(p))
           os == optionLoop(s)[MAXOPT]
           f == buildLoop(bl, p)
           n == Len(p.opts)
           z == PayloadBytes(p)
<1>1. f[n].rc = "OK" /\ f[n].buf \in Seq(Byte) /\ z \in Seq(Byte) /\ w = f[n].buf \o z
  BY BuildIs
<1>2. n \in Nat /\ n <= Len(p.opts)
  BY PacketIs
<1>3. StartsWith(f[n].buf, f[0].buf)
  <2> HIDE DEF n
  <2>1. buildLoop(bl, p)[n].rc = "OK"
    BY <1>1
  <2>2. \A i \in Nat : i <= n => StartsWith(buildLoop(bl, p)[n].buf, buildLoop(bl, p)[i].buf)
    BY <1>2, <2>1, BuildGrows
  <2>3. 0 <= n /\ 0 \in Nat
    BY <1>2
  <2> QED
    BY <2>2, <2>3
<1>4. f[0].buf = headBytes(p)
  <2>1. f[0] = headOf(p)
    BY BuildLoopDef
  <2> HIDE DEF f
  <2> QED
    BY <2>1 DEF headOf
<1>5. PICK y \in Seq(Byte) : f[n].buf = headBytes(p) \o y
  BY <1>3, <1>4 DEF StartsWith
<1>6. headBytes(p) \in Seq(Byte)
  BY HeadBytesAre
<1> HIDE DEF f, n, z, w
<1> DEFINE x == y \o z
<1>7. w = headBytes(p) \o x /\ x \in Seq(Byte)
  BY <1>1, <1>5, <1>6, ConcatTwo, SMTT(30)
<1> HIDE DEF x
<1>8. /\ coap_parseHeader(w) = [rc |-> "OK", ver |-> p.ver, t |-> p.t, tkl |-> p.tkl,
                                code |-> p.code, id |-> p.id]
      /\ coap_parseToken(coap_parseHeader(w), w) = [rc |-> "OK", tok |-> p.tok]
      /\ SubSeq(w, 5 + p.tkl, Len(w)) = s
      /\ s = x
  BY <1>7, HeadRead
<1>9. parseOptions(s) = os
  BY DEF parseOptions, turns
<1> HIDE DEF s, os
<1>10. coap_parse(w) =
         IF os.rc # "OK" THEN os
         ELSE [rc |-> "OK",
               pkt |-> [ver |-> p.ver, t |-> p.t, tkl |-> p.tkl, code |-> p.code,
                        id |-> p.id, tok |-> p.tok, opts |-> os.opts,
                        payload |-> payloadOf(os.rest)]]
  <2> DEFINE hdr == coap_parseHeader(w)
             tok == coap_parseToken(hdr, w)
  <2>1. /\ hdr.rc = "OK" /\ hdr.ver = p.ver /\ hdr.t = p.t /\ hdr.tkl = p.tkl
        /\ hdr.code = p.code /\ hdr.id = p.id /\ tok.rc = "OK" /\ tok.tok = p.tok
    BY <1>8
  <2>2. coap_parse(w) =
          IF hdr.rc # "OK" THEN hdr
          ELSE IF tok.rc # "OK" THEN tok
          ELSE IF parseOptions(SubSeq(w, 5 + hdr.tkl, Len(w))).rc # "OK"
               THEN parseOptions(SubSeq(w, 5 + hdr.tkl, Len(w)))
          ELSE [rc |-> "OK",
                pkt |-> [ver |-> hdr.ver, t |-> hdr.t, tkl |-> hdr.tkl, code |-> hdr.code,
                         id |-> hdr.id, tok |-> tok.tok,
                         opts |-> parseOptions(SubSeq(w, 5 + hdr.tkl, Len(w))).opts,
                         payload |-> payloadOf(parseOptions(SubSeq(w, 5 + hdr.tkl, Len(w))).rest)]]
    BY DEF coap_parse
  <2> HIDE DEF hdr, tok
  <2>3. parseOptions(SubSeq(w, 5 + hdr.tkl, Len(w))) = os
    BY <1>8, <1>9, <2>1
  <2> QED
    BY <2>1, <2>2, <2>3
<1> QED
  BY <1>1, <1>7, <1>8, <1>10 DEF w, s, os, f, n, z

\* A packet with short options in order is read as it was built.
LEMMA ReadBack ==
  ASSUME NEW bl, NEW p \in Packet, coap_build(bl, p).rc = "OK",
         Increasing(p.opts), Short(p.opts)
  PROVE  coap_parse(coap_build(bl, p).buf) = [rc |-> "OK", pkt |-> p]
<1> DEFINE w == coap_build(bl, p).buf
           s == Behind(w, headBytes(p))
           f == optionLoop(s)
           n == Len(p.opts)
           x == buildLoop(bl, p)[n].buf
           z == PayloadBytes(p)
<1>1. p.opts \in Seq(Option) /\ n \in Nat /\ n <= MAXOPT /\ MAXOPT \in Nat
  BY PacketIs, MAXOPTAssumption
<1>2. /\ buildLoop(bl, p)[n].rc = "OK" /\ x \in Seq(Byte)
      /\ z \in Seq(Byte) /\ (z = <<>> \/ z[1] = PayloadMarker) /\ payloadOf(z) = p.payload
      /\ w = x \o z
  BY BuildIs
<1>3. \A j \in 1 .. n : Len(p.opts[j].val) < 269
  <2>1. DOMAIN p.opts = 1 .. n
    BY <1>1
  <2> QED
    BY <2>1 DEF Short
<1>4. f[n] = [rc |-> "OK", opts |-> SubSeq(p.opts, 1, n), rest |-> Behind(w, x),
              running |-> Before(p, n)]
  <2>1. buildLoop(bl, p)[Len(p.opts)].rc = "OK" /\ w = buildLoop(bl, p)[Len(p.opts)].buf \o z
    BY <1>2
  <2>2. n <= Len(p.opts)
    BY <1>1
  <2> HIDE DEF w, z
  <2>3. \A k \in Nat :
            k <= Len(p.opts) /\ (\A j \in 1 .. k : Len(p.opts[j].val) < 269) =>
                optionLoop(Behind(w, headBytes(p)))[k] =
                    [rc |-> "OK", opts |-> SubSeq(p.opts, 1, k),
                     rest |-> Behind(w, buildLoop(bl, p)[k].buf), running |-> Before(p, k)]
    BY <1>2, <2>1, LoopReads, ZenonT(60)
  <2> QED
    BY <1>1, <1>3, <2>2, <2>3
<1>5. SubSeq(p.opts, 1, n) = p.opts
  BY <1>1
<1>6. Behind(w, x) = z
  <2> HIDE DEF w, x, z
  <2> QED
    BY <1>2, CutInTwo DEF Behind
<1>7. f[n].rc = "OK" /\ f[n].opts = p.opts /\ f[n].rest = z
  <2> HIDE DEF f, z, x, w, n
  <2> QED
    BY <1>4, <1>5, <1>6
<1>8. f[MAXOPT] = f[n]
  <2>1. f[n].rest = <<>> \/ f[n].rest[1] = PayloadMarker
    <3> HIDE DEF f, z, x, w, n
    <3> QED
      BY <1>2, <1>7
  <2>2. MAXOPT >= n
    BY <1>1
  <2> HIDE DEF n, s
  <2> QED
    BY <1>1, <2>1, <2>2, LoopStops
<1>9. coap_parse(w) =
        IF f[MAXOPT].rc # "OK" THEN f[MAXOPT]
        ELSE [rc |-> "OK",
              pkt |-> [ver |-> p.ver, t |-> p.t, tkl |-> p.tkl, code |-> p.code,
                       id |-> p.id, tok |-> p.tok, opts |-> f[MAXOPT].opts,
                       payload |-> payloadOf(f[MAXOPT].rest)]]
  BY ParseOfBuild
<1>10. p = [ver |-> p.ver, t |-> p.t, tkl |-> p.tkl, code |-> p.code, id |-> p.id,
            tok |-> p.tok, opts |-> p.opts, payload |-> p.payload]
  BY PacketIs
<1> HIDE DEF f, n, x, z, w
<1>11. coap_parse(w) = [rc |-> "OK", pkt |-> p]
  BY <1>2, <1>7, <1>8, <1>9, <1>10
<1> QED
  BY <1>11 DEF w

\* A packet with an option of 269 bytes or more is not.
LEMMA NotReadBack ==
  ASSUME NEW bl, NEW p \in Packet, coap_build(bl, p).rc = "OK",
         Increasing(p.opts), ~Short(p.opts)
  PROVE  coap_parse(coap_build(bl, p).buf) # [rc |-> "OK", pkt |-> p]
<1> DEFINE w == coap_build(bl, p).buf
           s == Behind(w, headBytes(p))
           f == optionLoop(s)
           n == Len(p.opts)
           g == buildLoop(bl, p)
           z == PayloadBytes(p)
           Long == {j \in 1 .. n : Len(p.opts[j].val) >= 269}
<1>1. p.opts \in Seq(Option) /\ n \in Nat /\ n <= MAXOPT /\ MAXOPT \in Nat
  BY PacketIs, MAXOPTAssumption
<1>2. g[n].rc = "OK" /\ g[n].buf \in Seq(Byte) /\ z \in Seq(Byte) /\ w = g[n].buf \o z
  BY BuildIs
<1>3. s \in Seq(Byte)
  BY ParseOfBuild
<1>4. \A j \in 1 .. n : p.opts[j] \in Option /\ Len(p.opts[j].val) \in Nat
  <2> SUFFICES ASSUME NEW j \in 1 .. n
               PROVE  p.opts[j] \in Option /\ Len(p.opts[j].val) \in Nat
    OBVIOUS
  <2>1. p.opts[j] \in Option
    BY <1>1
  <2>2. p.opts[j].val \in Seq(Byte)
    BY <2>1 DEF Option
  <2> QED
    BY <2>1, <2>2
<1>5. PICK i \in Nat : /\ i < n /\ Len(p.opts[i + 1].val) >= 269
                       /\ \A j \in 1 .. i : Len(p.opts[j].val) < 269
  <2>1. PICK l \in 1 .. n : ~(Len(p.opts[l].val) < 269)
    <3>1. DOMAIN p.opts = 1 .. n
      BY <1>1
    <3> QED
      BY <3>1 DEF Short
  <2>2. l \in Long /\ Long \subseteq Nat
    BY <1>1, <1>4, <2>1
  <2> HIDE DEF Long
  <2>3. PICK m \in Long : \A y \in Long : m <= y
    BY <2>2, LeastNumber
  <2>4. m \in 1 .. n /\ Len(p.opts[m].val) >= 269
    BY <2>3 DEF Long
  <2>5. ASSUME NEW j \in 1 .. m - 1 PROVE Len(p.opts[j].val) < 269
    <3>1. j \in 1 .. n /\ j < m
      BY <1>1, <2>4
    <3>2. j \notin Long
      BY <1>1, <2>3, <2>4, <3>1
    <3>3. ~(Len(p.opts[j].val) >= 269)
      BY <3>1, <3>2 DEF Long
    <3> QED
      BY <1>4, <3>1, <3>3
  <2>6. m - 1 \in Nat /\ m - 1 < n /\ (m - 1) + 1 = m
    BY <1>1, <2>4
  <2> QED
    BY <2>4, <2>5, <2>6
<1> DEFINE o == p.opts[i + 1]
           run == Before(p, i)
           r == Behind(w, g[i + 1].buf)
           q == SubSeq(p.opts, 1, i)
           e == coap_parseOption(optionBytes(o, run) \o r, run)
<1>6. i <= n /\ i + 1 <= n /\ i + 1 \in Nat
  BY <1>1, <1>5
<1>7. f[i] = [rc |-> "OK", opts |-> q, rest |-> Behind(w, g[i].buf), running |-> run]
  <2>1. buildLoop(bl, p)[Len(p.opts)].rc = "OK" /\ w = buildLoop(bl, p)[Len(p.opts)].buf \o z
    BY <1>2
  <2>2. i <= Len(p.opts)
    BY <1>6
  <2> HIDE DEF w, z
  <2>3. \A k \in Nat :
            k <= Len(p.opts) /\ (\A j \in 1 .. k : Len(p.opts[j].val) < 269) =>
                optionLoop(Behind(w, headBytes(p)))[k] =
                    [rc |-> "OK", opts |-> SubSeq(p.opts, 1, k),
                     rest |-> Behind(w, buildLoop(bl, p)[k].buf), running |-> Before(p, k)]
    BY <1>2, <2>1, LoopReads, ZenonT(60)
  <2> QED
    BY <1>5, <2>2, <2>3
<1>8. /\ o \in Option /\ run \in Byte
      /\ Behind(w, g[i].buf) = optionBytes(o, run) \o r
      /\ r \in Seq(Byte)
  <2>1. buildLoop(bl, p)[Len(p.opts)].rc = "OK" /\ w = buildLoop(bl, p)[Len(p.opts)].buf \o z
    BY <1>2
  <2>2. i < Len(p.opts)
    BY <1>5
  <2> HIDE DEF w, z
  <2> QED
    BY <1>2, <2>1, <2>2, BehindOption
<1>9. q \in Seq(Option) /\ Len(q) = i
  BY <1>1, <1>5, OneMore
<1>10. run <= o.num /\ Len(o.val) >= 269
  <2>1. i < Len(p.opts)
    BY <1>5
  <2>2. run <= o.num
    BY <2>1, NumbersGrow
  <2> QED
    BY <1>5, <2>2
<1>11. f[i + 1] = IF e.rc = "OK" THEN [rc |-> "OK", opts |-> Append(q, e.opt),
                                       rest |-> e.rest, running |-> e.running]
                                 ELSE Failure(e.rc)
  <2>1. optionLoop(s)[i] = [rc |-> "OK", opts |-> q, rest |-> optionBytes(o, run) \o r,
                            running |-> run]
    BY <1>7, <1>8
  <2>2. i \in Nat /\ q \in Seq(Option) /\ o \in Option /\ run \in Byte /\ r \in Seq(Byte)
    BY <1>8, <1>9
  <2> HIDE DEF s, o, run, r, q
  <2> QED
    BY <2>1, <2>2, ReadStep
<1>12. e.rc = "OK" => e.opt # o
  <2> HIDE DEF o, run, r
  <2> QED
    BY <1>8, <1>10, MisreadOption
<1>13. coap_parse(w) =
        IF f[MAXOPT].rc # "OK" THEN f[MAXOPT]
        ELSE [rc |-> "OK",
              pkt |-> [ver |-> p.ver, t |-> p.t, tkl |-> p.tkl, code |-> p.code,
                       id |-> p.id, tok |-> p.tok, opts |-> f[MAXOPT].opts,
                       payload |-> payloadOf(f[MAXOPT].rest)]]
  BY ParseOfBuild
<1>14. ASSUME coap_parse(w) = [rc |-> "OK", pkt |-> p] PROVE FALSE
  <2>1. f[MAXOPT].rc = "OK" /\ f[MAXOPT].opts = p.opts
    <3> HIDE DEF f, w
    <3> QED
      BY <1>13, <1>14
  <2>2. /\ f[i + 1].rc = "OK"
        /\ \A j \in 1 .. Len(f[i + 1].opts) : f[MAXOPT].opts[j] = f[i + 1].opts[j]
    <3>1. MAXOPT >= i + 1
      BY <1>1, <1>6
    <3> HIDE DEF s
    <3> QED
      BY <1>1, <1>3, <1>6, <2>1, <3>1, LoopKeeps
  <2> HIDE DEF f, e, o, q
  <2>3. e.rc = "OK" /\ f[i + 1].opts = Append(q, e.opt)
    BY <1>11, <2>2 DEF Failure
  <2>4. Len(Append(q, e.opt)) = i + 1 /\ Append(q, e.opt)[i + 1] = e.opt /\ i + 1 \in 1 .. i + 1
    BY <1>5, <1>9
  <2>5. p.opts[i + 1] = e.opt
    BY <2>1, <2>2, <2>3, <2>4
  <2> QED
    BY <1>12, <2>3, <2>5 DEF o
<1> QED
  BY <1>14

-----------------------------------------------------------------------------
(* The theorems about CoapCodec.                                           *)

\* What is parsed is the datagram, what was built is the packet sent, and what was
\* built again is the packet parsed.
CodecInv ==
    /\ wire = None => sent \in Packets
    /\ wire # None => wire \in Seq(Byte)
    /\ (sent # None /\ wire # None) =>
          /\ sent \in Packets
          /\ coap_build(BufLen, sent).rc = "OK"
          /\ wire = coap_build(BufLen, sent).buf
    /\ got # None => wire # None /\ got = coap_parse(wire)
    /\ again # None =>
          /\ got # None /\ got.rc = "OK"
          /\ coap_build(BufLen, got.pkt).rc = "OK"
          /\ again = coap_parse(coap_build(BufLen, got.pkt).buf)

\* The packets and the datagrams of a behaviour stay related as coap_build and
\* coap_parse relate them.
THEOREM CodecInvariant == CodecSpec => []CodecInv
<1>1. CodecInit => CodecInv
  BY DatagramsAssumption, NoneAssumption DEF CodecInit, CodecInv
<1>2. CodecInv /\ [CodecNext]_codecVars => CodecInv'
  <2> SUFFICES ASSUME CodecInv, [CodecNext]_codecVars PROVE CodecInv'
    OBVIOUS
  <2>1. CASE Build
    <3>1. /\ wire = None /\ coap_build(BufLen, sent).rc = "OK"
          /\ wire' = coap_build(BufLen, sent).buf
          /\ sent' = sent /\ got' = got /\ again' = again
      BY <2>1 DEF Build
    <3>2. sent \in Packets /\ sent \in Packet /\ got = None /\ again = None
      BY <3>1, PacketsAssumption DEF CodecInv
    <3>3. wire' \in Seq(Byte)
      BY <3>1, <3>2, BuildType
    <3> QED
      BY <3>1, <3>2, <3>3 DEF CodecInv
  <2>2. CASE Parse
    BY <2>2 DEF Parse, CodecInv
  <2>3. CASE Rebuild
    BY <2>3 DEF Rebuild, CodecInv
  <2>4. CASE UNCHANGED codecVars
    BY <2>4 DEF codecVars, CodecInv
  <2> QED
    BY <2>1, <2>2, <2>3, <2>4 DEF CodecNext
<1> QED
  BY <1>1, <1>2, PTL DEF CodecSpec

\* Whatever bytes arrive at coap_parse, a packet it accepts fits coap_packet_t: at most
\* MAXOPT options, at most eight token bytes, nothing but bytes.
THEOREM CodecTypes == CodecSpec => []CodecTypeOK
<1>1. CodecInv => CodecTypeOK
  BY ParseType DEF CodecInv, CodecTypeOK
<1> QED
  BY <1>1, CodecInvariant, PTL

\* coap_parse reads what coap_build wrote, options in order, exactly if no option has
\* 269 bytes or more.
THEOREM BuildAndParse == CodecSpec => []RoundTrip
<1>1. CodecInv => RoundTrip
  <2> SUFFICES ASSUME CodecInv, sent # None, got # None, Increasing(sent.opts)
               PROVE  got = [rc |-> "OK", pkt |-> sent] <=> Short(sent.opts)
    BY DEF RoundTrip
  <2>1. /\ sent \in Packet /\ coap_build(BufLen, sent).rc = "OK"
        /\ got = coap_parse(coap_build(BufLen, sent).buf)
    BY PacketsAssumption DEF CodecInv
  <2>2. CASE Short(sent.opts)
    BY <2>1, <2>2, ReadBack
  <2>3. CASE ~Short(sent.opts)
    BY <2>1, <2>3, NotReadBack
  <2> QED
    BY <2>2, <2>3
<1> QED
  BY <1>1, CodecInvariant, PTL

\* What coap_parse accepts survives being built and parsed once more, if its options are
\* short and in order.
THEOREM ParseAndBuild == CodecSpec => []StableWhenSorted
<1>1. CodecInv => StableWhenSorted
  <2> SUFFICES ASSUME CodecInv, again # None, Increasing(got.pkt.opts), Short(got.pkt.opts)
               PROVE  again = got
    BY DEF StableWhenSorted
  <2>1. /\ wire \in Seq(Byte) /\ got = coap_parse(wire) /\ got.rc = "OK"
        /\ coap_build(BufLen, got.pkt).rc = "OK"
        /\ again = coap_parse(coap_build(BufLen, got.pkt).buf)
    BY DEF CodecInv
  <2>2. got.pkt \in Packet /\ got = [rc |-> "OK", pkt |-> got.pkt]
    BY <2>1, ParseType
  <2> QED
    BY <2>1, <2>2, ReadBack
<1> QED
  BY <1>1, CodecInvariant, PTL

-----------------------------------------------------------------------------
(* Requests and the answers to them.                                       *)

\* The least of a set of numbers.
LEMMA MinIs ==
  ASSUME NEW S, S \subseteq Nat, NEW x \in S
  PROVE  Min(S) \in S /\ \A y \in S : Min(S) <= y
<1>1. \E m \in S : \A y \in S : m <= y
  BY LeastNumber
<1> QED
  BY <1>1 DEF Min

\* Options in order stay in order over any distance.
LEMMA NumbersInOrder ==
  ASSUME NEW q \in Seq(Option), Increasing(q), NEW i \in DOMAIN q, NEW j \in DOMAIN q, i <= j
  PROVE  q[i].num <= q[j].num
<1> DEFINE n == Len(q)
           D == {k \in Nat : i + k <= n => q[i].num <= q[i + k].num}
<1>1. n \in Nat /\ DOMAIN q = 1 .. n /\ i \in 1 .. n /\ j \in 1 .. n
  OBVIOUS
<1>2. \A k \in 1 .. n : q[k].num \in Nat
  <2> SUFFICES ASSUME NEW k \in 1 .. n PROVE q[k].num \in Nat
    OBVIOUS
  <2>1. q[k] \in Option
    BY <1>1
  <2> QED
    BY <2>1, ByteIs DEF Option
<1>3. \A k \in 1 .. n - 1 : q[k].num <= q[k + 1].num
  BY DEF Increasing
<1> HIDE DEF n
<1>4. 0 \in D
  <2>1. i + 0 = i /\ q[i].num <= q[i].num
    BY <1>1, <1>2
  <2> QED
    BY <2>1
<1>5. ASSUME NEW k \in Nat, k \in D PROVE k + 1 \in D
  <2> SUFFICES ASSUME i + (k + 1) <= n PROVE q[i].num <= q[i + (k + 1)].num
    OBVIOUS
  <2> DEFINE m == i + k
  <2>1. m \in 1 .. n - 1 /\ m + 1 = i + (k + 1) /\ m <= n /\ m \in 1 .. n /\ m + 1 \in 1 .. n
    BY <1>1
  <2>2. q[i].num <= q[m].num
    BY <1>5, <2>1
  <2> HIDE DEF m
  <2>3. q[i].num <= q[m + 1].num
    BY <1>1, <1>2, <1>3, <2>1, <2>2
  <2> QED
    BY <2>1, <2>3
<1> HIDE DEF D
<1>6. \A k \in Nat : k \in D
  BY <1>4, <1>5, SetInduction
<1>7. j - i \in Nat /\ i + (j - i) = j
  BY <1>1
<1>8. i + (j - i) <= n => q[i].num <= q[i + (j - i)].num
  BY <1>6, <1>7 DEF D
<1> QED
  BY <1>1, <1>7, <1>8

\* Is there one element of the path among the options, v, and no other?
OnePath(p, v) ==
    \E k \in DOMAIN p.opts :
        /\ p.opts[k].val = v
        /\ \A i \in DOMAIN p.opts : p.opts[i].num = COAP_OPTION_URI_PATH <=> i = k

\* For options in order coap_findOptions finds them all: one option numbered 11 with the
\* right value is found exactly if there is one and no other of that number.
LEMMA FindsOne ==
  ASSUME NEW p \in Packet, Increasing(p.opts), NEW v
  PROVE  LET path == coap_findOptions(p, COAP_OPTION_URI_PATH)
         IN  /\ path \in Seq(Option)
             /\ (path # <<>> /\ Len(path) = 1 /\ path[1].val = v) <=>
                OnePath(p, v)
<1> DEFINE q == p.opts
           n == Len(q)
           u == COAP_OPTION_URI_PATH
           found == {i \in DOMAIN q : q[i].num = u}
           first == Min(found)
           others == {i \in first .. n + 1 : i \notin found}
           after == Min(others)
           path == coap_findOptions(p, u)
<1>1. q \in Seq(Option) /\ n \in Nat /\ DOMAIN q = 1 .. n
  BY PacketIs
<1>2. path = IF found = {} THEN <<>> ELSE SubSeq(q, first, after - 1)
  BY DEF coap_findOptions
<1>3. \A i \in DOMAIN q : i \in found <=> q[i].num = u
  OBVIOUS
<1>4. found \subseteq 1 .. n
  BY <1>1
<1>5. \A i \in DOMAIN q, j \in DOMAIN q : i <= j => q[i].num <= q[j].num
  BY <1>1, NumbersInOrder
<1>6. \A i \in DOMAIN q : q[i].num \in Nat
  <2> SUFFICES ASSUME NEW i \in DOMAIN q PROVE q[i].num \in Nat
    OBVIOUS
  <2>1. q[i] \in Option
    BY <1>1
  <2> QED
    BY <2>1, ByteIs DEF Option
<1>7. u \in Nat
  BY DEF COAP_OPTION_URI_PATH
<1> HIDE DEF q, n, u, found, path
<1>8. CASE found = {}
  <2>1. path = <<>>
    BY <1>2, <1>8
  <2>2. ASSUME NEW k \in DOMAIN q, \A i \in DOMAIN q : q[i].num = u <=> i = k PROVE FALSE
    BY <1>3, <1>8, <2>2
  <2> QED
    BY <2>1, <2>2 DEF path, q, u, OnePath
<1>9. CASE found # {}
  <2>1. first \in found /\ \A y \in found : first <= y
    <3>1. found \subseteq Nat
      BY <1>1, <1>4
    <3>2. PICK x : x \in found
      BY <1>9
    <3> QED
      BY <3>1, <3>2, MinIs
  <2> HIDE DEF first
  <2>2. first \in 1 .. n
    BY <1>4, <2>1
  <2>3. n + 1 \in others /\ others \subseteq Nat
    BY <1>1, <1>4, <2>2
  <2>4. after \in others /\ \A y \in others : after <= y
    <3> HIDE DEF others
    <3> QED
      BY <2>3, MinIs
  <2> HIDE DEF after
  <2>5. after \in first .. n + 1 /\ after \notin found /\ after # first
    BY <2>1, <2>4
  <2> HIDE DEF others
  <2>6. after \in Nat /\ first + 1 <= after /\ after <= n + 1
    BY <1>1, <2>2, <2>5
  <2>7. path = SubSeq(q, first, after - 1)
    BY <1>2, <1>9
  <2>8. Len(path) = after - first /\ path[1] = q[first] /\ path # <<>>
    BY <1>1, <2>2, <2>6, <2>7
  <2>9. ASSUME Len(path) = 1, path[1].val = v
        PROVE  q[first].val = v /\ \A i \in DOMAIN q : q[i].num = u <=> i = first
    <3>1. after = first + 1
      <4>1. after - first = 1
        BY <2>8, <2>9
      <4>2. first \in Nat
        BY <1>1, <2>2
      <4> QED
        BY <2>6, <4>1, <4>2
    <3>2. ASSUME NEW i \in found, i # first PROVE FALSE
      <4>1. i \in 1 .. n /\ first <= i /\ i # after
        BY <1>4, <2>1, <2>5, <3>2
      <4>2. after <= i /\ after \in DOMAIN q /\ first <= after
        BY <1>1, <2>2, <3>1, <3>2, <4>1
      <4>3. q[first].num <= q[after].num /\ q[after].num <= q[i].num
        BY <1>1, <1>5, <2>2, <4>1, <4>2
      <4>4. q[first].num = u /\ q[i].num = u
        BY <1>1, <1>3, <2>1, <2>2, <3>2, <4>1
      <4>5. q[after].num = u
        BY <1>6, <1>7, <4>2, <4>3, <4>4
      <4> QED
        BY <1>3, <2>5, <4>2, <4>5
    <3> QED
      BY <1>1, <1>3, <2>1, <2>2, <2>8, <2>9, <3>2
  <2>10. ASSUME NEW k \in DOMAIN q, q[k].val = v, \A i \in DOMAIN q : q[i].num = u <=> i = k
         PROVE  Len(path) = 1 /\ path[1].val = v
    <3>1. first = k
      BY <1>1, <1>3, <2>1, <2>2, <2>10
    <3>2. first + 1 \notin found
      <4>1. first + 1 # k
        BY <2>2, <3>1
      <4> QED
        BY <1>1, <1>3, <1>4, <2>10, <4>1
    <3>3. first + 1 \in others
      BY <1>1, <2>2, <3>2 DEF others
    <3>4. after = first + 1
      BY <2>2, <2>4, <2>6, <3>3
    <3> QED
      BY <2>2, <2>8, <2>10, <3>1, <3>4
  <2>11. first \in DOMAIN q
    BY <1>1, <2>2
  <2>12. path \in Seq(Option)
    BY <1>1, <2>2, <2>6, <2>7
  <2> QED
    BY <2>8, <2>9, <2>10, <2>11, <2>12 DEF path, q, u, OnePath
<1> QED
  BY <1>8, <1>9

\* For options in order the one endpoint serves GET hello and nothing else.
LEMMA ServedIs ==
  ASSUME NEW p \in Packet, Increasing(p.opts)
  PROVE  served(p) <=> AsksForHello(p)
<1> DEFINE path == coap_findOptions(p, COAP_OPTION_URI_PATH)
<1>1. served(p) <=> matches(endpoints[1], p)
  BY DEF served, endpoints
<1>2. matches(endpoints[1], p) <=>
        /\ COAP_METHOD_GET = p.code
        /\ path # <<>>
        /\ Len(path) = 1
        /\ \A i \in DOMAIN path : path[i].val = <<PathHello>>[i]
  BY DEF matches, endpoints
<1>3. path \in Seq(Option)
  BY FindsOne
<1> HIDE DEF path
<1>4. Len(path) = 1 => ((\A i \in DOMAIN path : path[i].val = <<PathHello>>[i])
                            <=> path[1].val = PathHello)
  <2> SUFFICES ASSUME Len(path) = 1
               PROVE  (\A i \in DOMAIN path : path[i].val = <<PathHello>>[i])
                         <=> path[1].val = PathHello
    OBVIOUS
  <2>1. DOMAIN path = {1}
    BY <1>3
  <2>2. <<PathHello>>[1] = PathHello
    OBVIOUS
  <2> QED
    BY <2>1, <2>2
<1>5. (path # <<>> /\ Len(path) = 1 /\ path[1].val = PathHello) <=> OnePath(p, PathHello)
  BY FindsOne DEF path
<1>6. AsksForHello(p) <=> (p.code = COAP_METHOD_GET /\ OnePath(p, PathHello))
  BY DEF AsksForHello, OnePath
<1> QED
  BY <1>1, <1>2, <1>4, <1>5, <1>6

\* The option of a response: its content type.
ContentOption(ct) == [num |-> COAP_OPTION_CONTENT_FORMAT, val |-> <<ct \div 256, ct % 256>>]

\* It takes three bytes of the datagram.
LEMMA ContentOptionIs ==
  ASSUME NEW ct \in {COAP_CONTENTTYPE_NONE, COAP_CONTENTTYPE_TEXT_PLAIN}
  PROVE  /\ ContentOption(ct) \in Option /\ Len(ContentOption(ct).val) = 2
         /\ Len(optionBytes(ContentOption(ct), 0)) = 3
<1> DEFINE v == <<ct \div 256, ct % 256>>
           o == [num |-> COAP_OPTION_CONTENT_FORMAT, val |-> v]
<1>1. ct \in Nat /\ ct <= 65535
  BY DEF COAP_CONTENTTYPE_NONE, COAP_CONTENTTYPE_TEXT_PLAIN
<1>2. ct \div 256 \in Byte /\ ct % 256 \in Byte
  BY <1>1, ByteIs
<1>3. v \in Seq(Byte) /\ Len(v) = 2
  BY <1>2
<1> HIDE DEF v
<1>4. o.num = 12 /\ o.val = v /\ 12 \in Byte
  BY ByteIs DEF COAP_OPTION_CONTENT_FORMAT
<1>5. o \in Option
  <2>1. o = [num |-> 12, val |-> v]
    BY DEF COAP_OPTION_CONTENT_FORMAT
  <2> HIDE DEF o
  <2>2. o.val = v
    BY <1>4
  <2>4. Len(o.val) = 2
    BY <1>3, <2>2
  <2>5. Len(o.val) < 65536
    BY <2>4
  <2>3. o \in [num : Byte, val : Seq(Byte)]
    BY <1>3, <1>4, <2>1
  <2> QED
    BY <2>3, <2>5 DEF Option
<1> HIDE DEF o
<1>6. coap_option_nibble(12) = 12 /\ coap_option_nibble(2) = 2
  BY DEF coap_option_nibble
<1>7. deltaBytes(12) = <<>> /\ lenBytes(2) = <<>>
  BY <1>6 DEF deltaBytes, lenBytes
<1>8. o.num - 0 = 12 /\ Len(o.val) = 2
  BY <1>3, <1>4
<1>9. Len(optionBytes(o, 0)) = 3
  <2> DEFINE h == 16 * coap_option_nibble(12) + coap_option_nibble(2)
             d == o.num - 0
             l == Len(o.val)
  <2>1. optionBytes(o, 0) = <<16 * coap_option_nibble(d) + coap_option_nibble(l)>>
                               \o deltaBytes(d) \o lenBytes(l) \o o.val
    BY DEF optionBytes
  <2>2. d = 12 /\ l = 2
    BY <1>8
  <2> HIDE DEF d, l
  <2>3. optionBytes(o, 0) = <<h>> \o deltaBytes(12) \o lenBytes(2) \o v
    BY <1>4, <2>1, <2>2
  <2>4. h \in Byte
    BY <1>6, ByteIs
  <2> HIDE DEF h
  <2>5. optionBytes(o, 0) = ((<<h>> \o <<>>) \o <<>>) \o v
    BY <1>7, <2>3
  <2>6. (<<h>> \o <<>>) \o <<>> = <<h>>
    OBVIOUS
  <2>7. optionBytes(o, 0) = <<h>> \o v
    BY <2>5, <2>6
  <2>8. Len(<<h>> \o v) = Len(v) + 1
    BY <1>3, <2>4, OneInFront
  <2>9. Len(v) + 1 = 3
    BY <1>3
  <2> QED
    BY <2>7, <2>8, <2>9
<1> QED
  BY <1>5, <1>8, <1>9 DEF ContentOption, o, v

\* What is said of an answer r to q: it is a packet that coap_parse reads as it was
\* built, under the message id and the token of q, with one option of three bytes.
GoodResponse(r, q) ==
    /\ r \in Packet /\ Increasing(r.opts) /\ Short(r.opts)
    /\ r.t = COAP_TYPE_ACK /\ r.id = q.id /\ r.tok = q.tok
    /\ Len(r.opts) = 1 /\ Len(optionBytes(r.opts[1], 0)) = 3

\* coap_make_response makes such an answer, if the token is short enough.
LEMMA MakeResponseIs ==
  ASSUME NEW q, q.id \in Byte \X Byte, q.tok \in Seq(Byte), Len(q.tok) <= 8,
         NEW content \in Seq(Byte), NEW rsp \in Byte,
         NEW ct \in {COAP_CONTENTTYPE_NONE, COAP_CONTENTTYPE_TEXT_PLAIN},
         NEW r, r = coap_make_response(content, q.id, q.tok, rsp, ct)
  PROVE  GoodResponse(r, q) /\ r.code = rsp /\ r.payload = content
<1> DEFINE o == ContentOption(ct)
           k == Len(q.tok) % 2^8
           os == <<o>>
           i == q.id
           y == q.tok
<1>1. r = [ver |-> 1, t |-> COAP_TYPE_ACK, tkl |-> k, code |-> rsp, id |-> i,
           tok |-> y, opts |-> os, payload |-> content]
  BY DEF coap_make_response, ContentOption
<1>2. o \in Option /\ Len(o.val) = 2 /\ Len(optionBytes(o, 0)) = 3
  BY ContentOptionIs
<1>3. i \in Byte \X Byte /\ y \in Seq(Byte)
  OBVIOUS
<1>4. k = Len(y) /\ k \in 0 .. 8
  <2> DEFINE l == Len(q.tok)
  <2>1. l \in Nat /\ l <= 8
    OBVIOUS
  <2> HIDE DEF l
  <2>2. l % 2^8 = l /\ l \in 0 .. 8
    BY <2>1, SMTT(30)
  <2> QED
    BY <2>2 DEF l
<1> HIDE DEF o, k, i, y
<1>5. os \in Seq(Option) /\ Len(os) = 1 /\ os[1] = o
  BY <1>2
<1> HIDE DEF os
<1>6. Increasing(os)
  BY <1>5 DEF Increasing
<1>7. Short(os)
  <2>1. Len(o.val) < 269
    BY <1>2
  <2>2. ASSUME NEW j \in DOMAIN os PROVE Len(os[j].val) < 269
    <3>1. j = 1
      BY <1>5
    <3>2. os[j] = o
      BY <1>5, <3>1
    <3> QED
      BY <2>1, <3>2
  <2> QED
    BY <2>2 DEF Short
<1>8. COAP_TYPE_ACK \in 0 .. 3
  BY DEF COAP_TYPE_ACK
<1>9. /\ r.ver = 1 /\ r.t = COAP_TYPE_ACK /\ r.tkl = k /\ r.code = rsp /\ r.id = i
       /\ r.tok = y /\ r.opts = os /\ r.payload = content
  BY <1>1
<1>10. r \in [ver : {1}, t : 0 .. 3, tkl : 0 .. 8, code : Byte, id : Byte \X Byte,
              tok : Seq(Byte), opts : Seq(Option), payload : Seq(Byte)]
  <2> DEFINE R == [ver |-> 1, t |-> COAP_TYPE_ACK, tkl |-> k, code |-> rsp, id |-> i,
                   tok |-> y, opts |-> os, payload |-> content]
  <2>1. R \in [ver : {1}, t : 0 .. 3, tkl : 0 .. 8, code : Byte, id : Byte \X Byte,
               tok : Seq(Byte), opts : Seq(Option), payload : Seq(Byte)]
    BY <1>3, <1>4, <1>5, <1>8
  <2>2. r = R
    BY <1>1
  <2> HIDE DEF R
  <2> QED
    BY <2>1, <2>2
<1>11. r.tkl = Len(r.tok) /\ Len(r.opts) <= MAXOPT
  <2>1. 1 <= MAXOPT
    BY MAXOPTAssumption
  <2> QED
    BY <1>4, <1>5, <1>9, <2>1
<1>12. r \in Packet
  BY <1>10, <1>11 DEF Packet
<1> QED
  BY <1>2, <1>5, <1>6, <1>7, <1>9, <1>12 DEF GoodResponse, i, y

\* So does the server for every request, whether an endpoint serves it or not.
LEMMA ResponseIs ==
  ASSUME NEW q, q.id \in Byte \X Byte, q.tok \in Seq(Byte), Len(q.tok) <= 8,
         NEW r, r = coap_handle_req(q)
  PROVE  /\ GoodResponse(r, q)
         /\ r.code = IF served(q) THEN COAP_RSPCODE_CONTENT ELSE COAP_RSPCODE_NOT_FOUND
         /\ r.payload = IF served(q) THEN Hello ELSE <<>>
<1>1. COAP_RSPCODE_CONTENT \in Byte /\ COAP_RSPCODE_NOT_FOUND \in Byte
  BY ByteIs, SMTT(30) DEF COAP_RSPCODE_CONTENT, COAP_RSPCODE_NOT_FOUND
<1>2. Hello \in Seq(Byte) /\ <<>> \in Seq(Byte)
  BY HelloAssumption
<1>3. CASE served(q)
  <2>1. r = coap_make_response(Hello, q.id, q.tok, COAP_RSPCODE_CONTENT,
                               COAP_CONTENTTYPE_TEXT_PLAIN)
    BY <1>3 DEF coap_handle_req, handle_get_hello
  <2>2. GoodResponse(r, q) /\ r.code = COAP_RSPCODE_CONTENT /\ r.payload = Hello
    BY <1>1, <1>2, <2>1, MakeResponseIs
  <2> QED
    BY <1>3, <2>2
<1>4. CASE ~served(q)
  <2>1. r = coap_make_response(<<>>, q.id, q.tok, COAP_RSPCODE_NOT_FOUND,
                               COAP_CONTENTTYPE_NONE)
    BY <1>4 DEF coap_handle_req, notFound
  <2> DEFINE nothing == <<>>
  <2>2. /\ r = coap_make_response(nothing, q.id, q.tok, COAP_RSPCODE_NOT_FOUND,
                                  COAP_CONTENTTYPE_NONE)
        /\ nothing \in Seq(Byte)
    BY <1>2, <2>1
  <2> HIDE DEF nothing
  <2>3. GoodResponse(r, q) /\ r.code = COAP_RSPCODE_NOT_FOUND /\ r.payload = nothing
    BY <1>1, <2>2, MakeResponseIs
  <2> QED
    BY <1>4, <2>3 DEF nothing
<1> QED
  BY <1>3, <1>4

\* Such an answer fits packetbuf, if it is built at all.
LEMMA ResponseFits ==
  ASSUME NEW q, q.id \in Byte \X Byte, q.tok \in Seq(Byte), Len(q.tok) <= 8,
         coap_build(BufLen, coap_handle_req(q)).rc = "OK"
  PROVE  Len(coap_build(BufLen, coap_handle_req(q)).buf) <= BufLen
<1> DEFINE r == coap_handle_req(q)
           f == buildLoop(BufLen, r)
           x == f[1].buf
           z == PayloadBytes(r)
           w == coap_build(BufLen, r).buf
<1>1. /\ r \in Packet /\ Len(r.opts) = 1
      /\ Len(optionBytes(r.opts[1], 0)) = 3
  BY ResponseIs DEF GoodResponse
<1>2. coap_build(BufLen, r).rc = "OK"
  OBVIOUS
<1> HIDE DEF r
<1>3. /\ f[1].rc = "OK" /\ x \in Seq(Byte) /\ z \in Seq(Byte) /\ w = x \o z
      /\ Len(r.payload) > 0 => ~(BufLen < Len(x) + 1 + Len(r.payload))
  BY <1>1, <1>2, BuildIs
<1>4. r.payload \in Seq(Byte) /\ r.tkl \in 0 .. 8 /\ r.opts \in Seq(Option)
  BY <1>1, PacketIs
<1>5. x = headBytes(r) \o optionBytes(r.opts[1], 0)
  <2>1. f[0] = headOf(r) /\ f[0 + 1] = addOption(f[0], r.opts[0 + 1], BufLen)
    BY BuildLoopDef
  <2>2. f[0].rc = "OK" /\ f[0].buf = headBytes(r) /\ f[0].running = 0
    BY <2>1 DEF headOf
  <2> HIDE DEF f
  <2>3. f[1] = addOption(f[0], r.opts[1], BufLen)
    BY <2>1
  <2>4. ~(Len(f[0].buf) > BufLen)
    BY <1>3, <2>3 DEF addOption, Failure
  <2>5. f[1].buf = f[0].buf \o optionBytes(r.opts[1], f[0].running)
    BY <2>2, <2>3, <2>4 DEF addOption
  <2> QED
    BY <2>2, <2>5
<1> HIDE DEF f, x, z, w
<1>6. Len(x) = 4 + r.tkl + 3
  <2>1. headBytes(r) \in Seq(Byte) /\ Len(headBytes(r)) = 4 + r.tkl
    BY <1>1, HeadBytesAre
  <2>2. r.opts[1] \in Option /\ 0 \in Byte
    <3> DEFINE os == r.opts
    <3>1. os \in Seq(Option) /\ Len(os) = 1
      BY <1>1, <1>4
    <3> HIDE DEF os
    <3>2. os[1] \in Option
      BY <3>1
    <3> QED
      BY <3>2, ByteIs DEF os
  <2>3. optionBytes(r.opts[1], 0) \in Seq(Byte)
    BY <2>2, OptionBytesType
  <2> QED
    BY <1>1, <1>5, <2>1, <2>3, CutInTwo
<1>7. Len(w) = Len(x) + Len(z) /\ Len(x) \in Nat
  BY <1>3, CutInTwo
<1>8. BufLen \in Nat /\ BufLen >= 15
  BY BufLenAssumption, PacketbufAssumption
<1>9. CASE Len(r.payload) > 0
  <2> DEFINE y == r.payload
  <2>1. z = <<PayloadMarker>> \o y /\ y \in Seq(Byte)
    BY <1>4, <1>9 DEF z, PayloadBytes
  <2> HIDE DEF y
  <2>2. Len(z) = 1 + Len(y) /\ Len(y) \in Nat
    BY <2>1
  <2>3. ~(BufLen < Len(x) + 1 + Len(y))
    BY <1>3, <1>9 DEF y
  <2>4. Len(w) <= BufLen
    BY <1>7, <1>8, <2>2, <2>3
  <2> QED
    BY <2>4 DEF w, r
<1>10. CASE ~(Len(r.payload) > 0)
  <2>1. z = <<>>
    BY <1>10 DEF z, PayloadBytes
  <2>2. Len(z) = 0
    BY <2>1
  <2>3. Len(w) <= BufLen
    BY <1>4, <1>6, <1>7, <1>8, <2>2, SMTT(30)
  <2> QED
    BY <2>3 DEF w, r
<1> QED
  BY <1>9, <1>10

-----------------------------------------------------------------------------
(* The theorems about CoapServer.                                          *)

\* The token of a packet has at most eight bytes.
LEMMA ShortToken ==
  ASSUME NEW p \in Packet
  PROVE  Len(p.tok) <= 8
<1> DEFINE l == Len(p.tok)
<1>1. l \in 0 .. 8
  BY PacketIs
<1> HIDE DEF l
<1>2. l <= 8
  BY <1>1
<1> QED
  BY <1>2 DEF l

\* What the callback goes on with: a packet, or a leftover for a datagram that coap_parse
\* refuses or that is cut short; for any other datagram, what coap_parse makes of it.
LEMMA ParsedFromIs ==
  ASSUME NEW d \in Seq(Byte), NEW q \in parsedFrom(d)
  PROVE  /\ \/ q \in Packet
            \/ q \in Leftovers /\ (Len(d) > 255 \/ coap_parse(d).rc # "OK")
         /\ Len(d) <= 255 /\ coap_parse(d).rc = "OK" => q = coap_parse(d).pkt
<1> DEFINE c == SubSeq(d, 1, Len(d) % 2^8)
<1>1. PICK x \in arrivesAs(d) :
        q \in IF coap_parse(x).rc = "OK" THEN {coap_parse(x).pkt} ELSE Leftovers
  BY DEF parsedFrom
<1>2. x = d \/ x = c
  BY <1>1 DEF arrivesAs
<1>3. Len(d) <= 255 => c = d
  <2> SUFFICES ASSUME Len(d) <= 255 PROVE c = d
    OBVIOUS
  <2> DEFINE l == Len(d)
  <2>1. l \in Nat /\ l <= 255
    OBVIOUS
  <2> HIDE DEF l
  <2>2. l % 2^8 = l
    BY <2>1
  <2>3. c = SubSeq(d, 1, Len(d))
    BY <2>2 DEF l
  <2> QED
    BY <2>3
<1>4. c \in Seq(Byte)
  <2> DEFINE l == Len(d)
             m == l % 2^8
  <2>1. l \in Nat
    OBVIOUS
  <2> HIDE DEF l
  <2>2. m \in Nat /\ m <= l
    BY <2>1
  <2> HIDE DEF m
  <2>3. c = SubSeq(d, 1, m)
    BY DEF l, m
  <2> HIDE DEF c
  <2>4. m <= Len(d)
    BY <2>2 DEF l
  <2> QED
    BY <2>2, <2>3, <2>4
<1>5. Len(d) \in Nat
  OBVIOUS
<1> HIDE DEF c
<1>6. x \in Seq(Byte) /\ (Len(d) <= 255 => x = d) /\ (Len(d) <= 255 \/ Len(d) > 255)
  BY <1>2, <1>3, <1>4, <1>5
<1>7. CASE coap_parse(x).rc = "OK"
  <2>1. q = coap_parse(x).pkt
    BY <1>1, <1>7
  <2>2. q \in Packet
    BY <1>6, <1>7, <2>1, ParseType
  <2> QED
    BY <1>6, <2>1, <2>2
<1>8. CASE coap_parse(x).rc # "OK"
  <2>1. q \in Leftovers
    BY <1>1, <1>8
  <2> QED
    BY <1>6, <1>8, <2>1
<1> QED
  BY <1>7, <1>8

\* The answers on their way and the ones received.
Given == {<<r.client, r.data>> : r \in replies} \cup answers

\* An answer is what the callback built for a request of that client.
ComesFrom(g, q) ==
    /\ q[1] = g[1]
    /\ \E inpkt \in parsedFrom(q[2]) :
        LET b == coap_build(BufLen, coap_handle_req(inpkt))
        IN  b.rc = "OK" /\ g[2] = b.buf

\* Every answer was built for a request, and each took a socket.
ServerInv ==
    /\ sockets \in Nat /\ sockets <= MaxSockets
    /\ asked \subseteq Clients \X Requests
    /\ \A r \in requests : <<r.client, r.data>> \in asked
    /\ IsFiniteSet(Given) /\ Cardinality(Given) <= sockets
    /\ \A g \in Given : \E q \in asked : ComesFrom(g, q)

\* A step that asks for nothing more and answers nothing more keeps the invariant.
LEMMA NothingNew ==
  ASSUME ServerInv, UNCHANGED <<asked, sockets>>,
         requests' \subseteq requests, Given' \subseteq Given
  PROVE  ServerInv'
<1>1. IsFiniteSet(Given') /\ Cardinality(Given') <= Cardinality(Given)
  BY FS_Subset DEF ServerInv
<1>2. Cardinality(Given) \in Nat /\ Cardinality(Given') \in Nat
  BY <1>1, FS_CardinalityType DEF ServerInv
<1>3. Cardinality(Given') <= sockets'
  BY <1>1, <1>2 DEF ServerInv
<1>4. \A g \in Given' : \E q \in asked' : ComesFrom(g, q)'
  BY DEF ServerInv, ComesFrom
<1> QED
  BY <1>1, <1>3, <1>4 DEF ServerInv

\* Every answer was built for a request of its client, and there are no more of them
\* than sockets the callback opened.
THEOREM ServerInvariant == ServerSpec => []ServerInv
<1>1. ServerInit => ServerInv
  <2> SUFFICES ASSUME ServerInit PROVE ServerInv
    OBVIOUS
  <2>1. Given = {}
    BY DEF ServerInit, Given
  <2>2. IsFiniteSet({}) /\ Cardinality({}) = 0
    BY FS_EmptySet
  <2>3. MaxSockets \in Nat
    BY BoundsAssumption
  <2> QED
    BY <2>1, <2>2, <2>3 DEF ServerInit, ServerInv
<1>2. ServerInv /\ [ServerNext]_serverVars => ServerInv'
  <2> SUFFICES ASSUME ServerInv, [ServerNext]_serverVars PROVE ServerInv'
    OBVIOUS
  <2>1. ASSUME NEW c \in Clients, NEW d \in Requests, Request(c, d) PROVE ServerInv'
    <3>1. /\ asked' = asked \cup {<<c, d>>} /\ sockets' = sockets
          /\ requests' = requests \cup {[client |-> c, data |-> d]}
          /\ replies' = replies /\ answers' = answers
      BY <2>1 DEF Request
    <3>2. Given' = Given
      BY <3>1 DEF Given
    <3>3. \A r \in requests' : <<r.client, r.data>> \in asked'
      <4> SUFFICES ASSUME NEW r \in requests' PROVE <<r.client, r.data>> \in asked'
        OBVIOUS
      <4>1. CASE r \in requests
        BY <3>1, <4>1 DEF ServerInv
      <4>2. CASE r = [client |-> c, data |-> d]
        <5>1. r.client = c /\ r.data = d
          BY <4>2
        <5> QED
          BY <3>1, <5>1
      <4> QED
        BY <3>1, <4>1, <4>2
    <3>4. asked' \subseteq Clients \X Requests /\ asked \subseteq asked'
      BY <3>1 DEF ServerInv
    <3>5. \A g \in Given' : \E q \in asked' : ComesFrom(g, q)'
      BY <3>2, <3>4 DEF ServerInv, ComesFrom
    <3> QED
      BY <3>1, <3>2, <3>3, <3>4, <3>5 DEF ServerInv
  <2>2. ASSUME NEW r \in requests, coap_svc_callback(r) PROVE ServerInv'
    <3> DEFINE q == <<r.client, r.data>>
    <3>1. /\ sockets < MaxSockets /\ sockets' = sockets + 1
          /\ requests' \subseteq requests /\ asked' = asked /\ answers' = answers
      BY <2>2 DEF coap_svc_callback, udp_open_succeeds
    <3>2. PICK inpkt \in parsedFrom(r.data) :
            \/ /\ coap_build(BufLen, coap_handle_req(inpkt)).rc = "OK"
               /\ replies' = replies \cup replyTo(r, coap_build(BufLen, coap_handle_req(inpkt)).buf)
            \/ replies' = replies
      BY <2>2 DEF coap_svc_callback
    <3> DEFINE b == coap_build(BufLen, coap_handle_req(inpkt))
               g == <<r.client, b.buf>>
    <3>3. q \in asked
      BY DEF ServerInv
    <3>4. sockets \in Nat /\ sockets' \in Nat /\ sockets' <= MaxSockets
      BY <3>1, BoundsAssumption DEF ServerInv
    <3>5. IsFiniteSet(Given) /\ Cardinality(Given) \in Nat /\ Cardinality(Given) <= sockets
      BY FS_CardinalityType DEF ServerInv
    <3>6. \A h : ComesFrom(h, q)' <=> ComesFrom(h, q)
      BY DEF ComesFrom
    <3>7. /\ IsFiniteSet(Given') /\ Cardinality(Given') <= sockets'
          /\ \A h \in Given' : \E y \in asked : ComesFrom(h, y)
      <4>1. CASE b.rc = "OK" /\ replies' = replies \cup replyTo(r, b.buf)
        <5>1. Given' = Given \cup {g}
          <6> DEFINE y == [client |-> r.client, data |-> b.buf]
          <6>1. replies' = replies \cup {y} /\ answers' = answers
            BY <3>1, <4>1 DEF replyTo
          <6>2. <<y.client, y.data>> = g
            OBVIOUS
          <6> HIDE DEF y, g, b, q
          <6>3. Given' = {<<x.client, x.data>> : x \in replies \cup {y}} \cup answers
            BY <6>1 DEF Given
          <6>4. {<<x.client, x.data>> : x \in replies \cup {y}} =
                  {<<x.client, x.data>> : x \in replies} \cup {<<y.client, y.data>>}
            OBVIOUS
          <6> QED
            BY <6>2, <6>3, <6>4 DEF Given
        <5>2. ComesFrom(g, q)
          BY <4>1 DEF ComesFrom
        <5> HIDE DEF g, q
        <5>3. IsFiniteSet(Given') /\ Cardinality(Given') <= Cardinality(Given) + 1
          <6>1. /\ IsFiniteSet(Given \cup {g})
                /\ Cardinality(Given \cup {g}) =
                     IF g \in Given THEN Cardinality(Given) ELSE Cardinality(Given) + 1
            BY <3>5, FS_AddElement
          <6> QED
            BY <3>5, <5>1, <6>1
        <5>4. Cardinality(Given') \in Nat
          BY <5>3, FS_CardinalityType
        <5>5. Cardinality(Given') <= sockets'
          BY <3>1, <3>4, <3>5, <5>3, <5>4
        <5> QED
          BY <3>3, <5>1, <5>2, <5>3, <5>5 DEF ServerInv
      <4>2. CASE replies' = replies
        <5>1. Given' = Given
          BY <3>1, <4>2 DEF Given
        <5>2. Cardinality(Given') <= sockets'
          BY <3>1, <3>4, <3>5, <5>1
        <5> QED
          BY <3>5, <5>1, <5>2 DEF ServerInv
      <4> QED
        BY <3>2, <4>1, <4>2
    <3>8. \A h \in Given' : \E y \in asked' : ComesFrom(h, y)'
      BY <3>1, <3>7 DEF ComesFrom
    <3>9. \A x \in requests' : <<x.client, x.data>> \in asked'
      BY <3>1 DEF ServerInv
    <3> QED
      BY <3>1, <3>4, <3>7, <3>8, <3>9 DEF ServerInv
  <2>3. ASSUME NEW r \in requests, openFails(r) PROVE ServerInv'
    <3>1. UNCHANGED <<asked, sockets, replies, answers>> /\ requests' \subseteq requests
      BY <2>3 DEF openFails
    <3>2. Given' = Given
      BY <3>1 DEF Given
    <3> QED
      BY <3>1, <3>2, NothingNew
  <2>4. ASSUME NEW r \in replies, Receive(r) PROVE ServerInv'
    <3>1. /\ UNCHANGED <<asked, sockets, requests>> /\ replies' \subseteq replies
          /\ answers' = answers \cup {<<r.client, r.data>>}
      BY <2>4 DEF Receive
    <3>2. Given' \subseteq Given
      BY <3>1 DEF Given
    <3> QED
      BY <3>1, <3>2, NothingNew
  <2>5. CASE Lose
    <3>1. /\ UNCHANGED <<asked, sockets, answers>> /\ requests' \subseteq requests
          /\ replies' \subseteq replies
      BY <2>5 DEF Lose
    <3>2. Given' \subseteq Given
      BY <3>1 DEF Given
    <3> QED
      BY <3>1, <3>2, NothingNew
  <2>6. CASE UNCHANGED serverVars
    <3>1. UNCHANGED <<asked, sockets, replies, answers, requests>>
      BY <2>6 DEF serverVars
    <3>2. Given' = Given
      BY <3>1 DEF Given
    <3> QED
      BY <3>1, <3>2, NothingNew
  <2> QED
    BY <2>1, <2>2, <2>3, <2>4, <2>5, <2>6 DEF ServerNext
<1> QED
  BY <1>1, <1>2, PTL DEF ServerSpec

\* The server gives no more answers than the heap has room for sockets, and an answer
\* fits packetbuf unless it was made from a leftover with a token of more than 8 bytes.
THEOREM AnswersLimited == ServerSpec => []AnswersAreLimited
<1>1. ServerInv => AnswersAreLimited
  <2> SUFFICES ASSUME ServerInv PROVE AnswersAreLimited
    OBVIOUS
  <2>1. sockets \in Nat /\ sockets <= MaxSockets /\ answers \subseteq Given
    BY DEF ServerInv, Given
  <2>2. Cardinality(answers) <= sockets
    <3>1. IsFiniteSet(Given) /\ Cardinality(Given) <= sockets
      BY DEF ServerInv
    <3>2. IsFiniteSet(answers) /\ Cardinality(answers) <= Cardinality(Given)
      BY <2>1, <3>1, FS_Subset
    <3>3. Cardinality(Given) \in Nat /\ Cardinality(answers) \in Nat
      BY <3>1, <3>2, FS_CardinalityType
    <3> QED
      BY <2>1, <3>1, <3>2, <3>3
  <2>3. ASSUME NEW a \in answers
        PROVE  \/ Len(a[2]) <= BufLen
               \/ Careless(a[1]) /\ \E p \in Leftovers : Len(p.tok) > 8
    <3>1. PICK q \in asked : ComesFrom(a, q)
      BY <2>1 DEF ServerInv
    <3>2. q[1] = a[1] /\ q[2] \in Seq(Byte)
      BY <3>1, RequestsAssumption DEF ServerInv, ComesFrom
    <3>3. PICK inpkt \in parsedFrom(q[2]) :
            /\ coap_build(BufLen, coap_handle_req(inpkt)).rc = "OK"
            /\ a[2] = coap_build(BufLen, coap_handle_req(inpkt)).buf
      BY <3>1 DEF ComesFrom
    <3>4. \/ inpkt \in Packet
          \/ inpkt \in Leftovers /\ (Len(q[2]) > 255 \/ coap_parse(q[2]).rc # "OK")
      BY <3>2, ParsedFromIs
    <3>5. inpkt.id \in Byte \X Byte /\ inpkt.tok \in Seq(Byte)
      BY <3>4, PacketIs, LeftoversAssumption
    <3>6. CASE Len(inpkt.tok) <= 8
      BY <3>3, <3>5, <3>6, ResponseFits
    <3>7. CASE ~(Len(inpkt.tok) <= 8)
      <4>1. Len(inpkt.tok) > 8
        <5> DEFINE y == inpkt.tok
        <5>1. y \in Seq(Byte) /\ ~(Len(y) <= 8)
          BY <3>5, <3>7
        <5> HIDE DEF y
        <5>2. Len(y) > 8
          BY <5>1
        <5> QED
          BY <5>2 DEF y
      <4>2. inpkt \notin Packet
        BY <3>7, ShortToken
      <4>3. inpkt \in Leftovers /\ (Len(q[2]) > 255 \/ coap_parse(q[2]).rc # "OK")
        BY <3>4, <4>2
      <4>4. Careless(a[1])
        BY <3>2, <4>3 DEF Careless
      <4> QED
        BY <4>1, <4>3, <4>4
    <3> QED
      BY <3>6, <3>7
  <2> QED
    BY <2>1, <2>2, <2>3 DEF AnswersAreLimited
<1> QED
  BY <1>1, ServerInvariant, PTL

\* Every answer to a careful client parses and is the acknowledgement that RFC 7252 asks
\* for, under the message id and the token of a request of that client.
THEOREM AnswersMatch == ServerSpec => []AnswersMatchRequests
<1>1. ServerInv => AnswersMatchRequests
  <2> SUFFICES ASSUME ServerInv, NEW x \in answers, ~Careless(x[1])
               PROVE  LET a == coap_parse(x[2])
                      IN  /\ a.rc = "OK"
                          /\ a.pkt.t = COAP_TYPE_ACK
                          /\ \E q \in asked :
                               LET p == coap_parse(q[2]).pkt
                               IN  /\ q[1] = x[1]
                                   /\ a.pkt.id = p.id
                                   /\ a.pkt.tok = p.tok
                                   /\ Increasing(p.opts) =>
                                        [code |-> a.pkt.code,
                                         payload |-> a.pkt.payload] = Expected(p)
    BY DEF AnswersMatchRequests
  <2>1. PICK q \in asked : ComesFrom(x, q)
    BY DEF ServerInv, Given
  <2>2. q[1] = x[1] /\ q[2] \in Seq(Byte)
    BY <2>1, RequestsAssumption DEF ServerInv, ComesFrom
  <2>3. Len(q[2]) <= 255 /\ coap_parse(q[2]).rc = "OK"
    <3> DEFINE d == q[2]
    <3>1. d \in Seq(Byte) /\ ~(Len(d) > 255) /\ coap_parse(d).rc = "OK"
      BY <2>2 DEF Careless
    <3> HIDE DEF d
    <3>2. Len(d) <= 255
      BY <3>1
    <3> QED
      BY <3>1, <3>2 DEF d
  <2> DEFINE p == coap_parse(q[2]).pkt
             r == coap_handle_req(p)
  <2>4. /\ p \in Packet
        /\ coap_build(BufLen, r).rc = "OK" /\ x[2] = coap_build(BufLen, r).buf
    <3>1. PICK inpkt \in parsedFrom(q[2]) :
            /\ coap_build(BufLen, coap_handle_req(inpkt)).rc = "OK"
            /\ x[2] = coap_build(BufLen, coap_handle_req(inpkt)).buf
      BY <2>1 DEF ComesFrom
    <3>2. inpkt = p
      BY <2>2, <2>3, ParsedFromIs
    <3>3. p \in Packet
      BY <2>2, <2>3, ParseType
    <3> QED
      BY <3>1, <3>2, <3>3
  <2> HIDE DEF p
  <2>5. p.id \in Byte \X Byte /\ p.tok \in Seq(Byte) /\ Len(p.tok) <= 8
    BY <2>4, PacketIs, ShortToken
  <2>6. /\ GoodResponse(r, p)
        /\ r.code = IF served(p) THEN COAP_RSPCODE_CONTENT ELSE COAP_RSPCODE_NOT_FOUND
        /\ r.payload = IF served(p) THEN Hello ELSE <<>>
    BY <2>5, ResponseIs
  <2> HIDE DEF r
  <2>7. coap_parse(x[2]) = [rc |-> "OK", pkt |-> r]
    BY <2>4, <2>6, ReadBack DEF GoodResponse
  <2>8. Increasing(p.opts) => [code |-> r.code, payload |-> r.payload] = Expected(p)
    <3> SUFFICES ASSUME Increasing(p.opts)
                 PROVE  [code |-> r.code, payload |-> r.payload] = Expected(p)
      OBVIOUS
    <3>1. served(p) <=> AsksForHello(p)
      BY <2>4, ServedIs
    <3> QED
      BY <2>6, <3>1 DEF Expected
  <2>9. r.t = COAP_TYPE_ACK /\ r.id = p.id /\ r.tok = p.tok
    BY <2>6 DEF GoodResponse
  <2> DEFINE a == coap_parse(x[2])
  <2>10. a.rc = "OK" /\ a.pkt = r
    BY <2>7
  <2> HIDE DEF a
  <2>11. /\ q[1] = x[1] /\ a.pkt.id = p.id /\ a.pkt.tok = p.tok
         /\ Increasing(p.opts) =>
              [code |-> a.pkt.code, payload |-> a.pkt.payload] = Expected(p)
    BY <2>2, <2>8, <2>9, <2>10
  <2> QED
    BY <2>1, <2>9, <2>10, <2>11 DEF a, p
<1> QED
  BY <1>1, ServerInvariant, PTL
=============================================================================
