----------------------------- MODULE PusApiProofs -----------------------------
(***************************************************************************)
(* Proofs about PusApi, for any number of connections and requests and any *)
(* size of the heap.                                                       *)
(***************************************************************************)
EXTENDS PusApi, FiniteSetTheorems, TLAPS

\* The device is read once for each /data that is counted.
ReadOnce == readings = datas

\* Two that are in parse_request together both know.
RacedTogether ==
    \A v, w \in Workers :
        v # w /\ pc[v] \in Inside /\ pc[w] \in Inside => raced[v] = TRUE /\ raced[w] = TRUE

\* What one that has parse_request to itself has made of the shared variables.
MineAlone(w) ==
    /\ pc[w] \in {"head", "body"} => url[w] \in {"/data", "part"}
    /\ pc[w] = "body" => buffer.head = reading[w]
    /\ pc[w] \in {"url", "length", "write"} =>
         (reading[w] # 0 => buffer.head = reading[w] /\ buffer.body = reading[w])
    /\ pc[w] \in {"length", "write"} =>
         (url[w] \notin {"/info", "part"} => reply \in Expected(url[w]))
    /\ pc[w] = "write" => length[w] = reply

AloneInOrder == \A w \in Workers : raced[w] = FALSE => MineAlone(w)

\* reply is set before anything is sent, and never cleared.
ReplySet == reply = Null => sent = Null /\ \A w \in Workers : pc[w] # "write"

IndInv ==
    /\ TypeOK /\ HeapAccounted /\ ReadOnce /\ RacedTogether /\ AloneInOrder /\ ReplySet
    /\ AloneIsAnsweredRight /\ CrashHasCause

-----------------------------------------------------------------------------
(* Counting connections.                                                   *)

\* The open connections can be counted.
LEMMA Counted ==
  /\ IsFiniteSet(Open) /\ Cardinality(Open) \in Nat
  /\ Cardinality(Open) <= Cardinality(Workers)
  /\ Cardinality(Workers) \in Nat
<1>1. Open \in SUBSET Workers
  BY DEF Open
<1> QED
  BY <1>1, WorkersAssumption, FS_Subset, FS_CardinalityType

\* Sets that differ in one element at most.
LEMMA DifferInOne ==
  ASSUME NEW S, NEW T, NEW w, IsFiniteSet(S), T \ {w} = S \ {w}
  PROVE  /\ Cardinality(S) \in Nat /\ Cardinality(T) \in Nat
         /\ (w \in S <=> w \in T) => Cardinality(T) = Cardinality(S)
         /\ w \in S /\ w \notin T => Cardinality(T) = Cardinality(S) - 1
         /\ w \notin S /\ w \in T => Cardinality(T) = Cardinality(S) + 1
<1>1. Cardinality(S) \in Nat
  BY FS_CardinalityType
<1>2. CASE w \in S <=> w \in T
  <2>1. T = S
    BY <1>2
  <2> QED
    BY <1>1, <1>2, <2>1
<1>3. CASE w \in S /\ w \notin T
  <2>1. T = S \ {w}
    BY <1>3
  <2> QED
    BY <1>1, <1>3, <2>1, FS_RemoveElement, FS_CardinalityType
<1>4. CASE w \notin S /\ w \in T
  <2>1. T = S \cup {w}
    BY <1>4
  <2> QED
    BY <1>1, <1>4, <2>1, FS_AddElement
<1> QED
  BY <1>2, <1>3, <1>4

\* What a move of one connection does to their number.
LEMMA Moved ==
  ASSUME NEW w \in Workers, \A v \in Workers : v # w => pc'[v] = pc[v]
  PROVE  /\ Cardinality(Open') \in Nat
         /\ (pc'[w] \in {"closed", "orphan"} <=> pc[w] \in {"closed", "orphan"}) =>
              Cardinality(Open') = Cardinality(Open)
         /\ pc'[w] \in {"closed", "orphan"} /\ pc[w] \notin {"closed", "orphan"} =>
              Cardinality(Open') = Cardinality(Open) - 1
         /\ pc'[w] \notin {"closed", "orphan"} /\ pc[w] \in {"closed", "orphan"} =>
              Cardinality(Open') = Cardinality(Open) + 1
<1>1. Open' \ {w} = Open \ {w}
  BY DEF Open
<1>2. /\ w \in Open <=> pc[w] \notin {"closed", "orphan"}
      /\ w \in Open' <=> pc'[w] \notin {"closed", "orphan"}
  BY DEF Open
<1>3. IsFiniteSet(Open)
  BY Counted
<1>4. /\ Cardinality(Open') \in Nat
      /\ (w \in Open <=> w \in Open') => Cardinality(Open') = Cardinality(Open)
      /\ w \in Open /\ w \notin Open' => Cardinality(Open') = Cardinality(Open) - 1
      /\ w \notin Open /\ w \in Open' => Cardinality(Open') = Cardinality(Open) + 1
  BY <1>1, <1>3, DifferInOne
<1> QED
  BY <1>2, <1>4

-----------------------------------------------------------------------------
(* Every action keeps the invariant.                                       *)

\* A connection is accepted.
LEMMA AcceptKeeps ==
  ASSUME IndInv, NEW w \in Workers, ~crashed, Accept(w)
  PROVE  IndInv'
<1> USE DEF IndInv, TypeOK, Inside, Accept, Goto, room
<1>counts. /\ Cardinality(Open') \in Nat
           /\ \/ /\ Cardinality(Open') = Cardinality(Open) + 1
                 /\ blocks' = blocks + 1 /\ blocks + 1 <= HeapBlocks
                 /\ UNCHANGED <<infos, datas, readings>>
              \/ /\ Cardinality(Open') = Cardinality(Open)
                 /\ UNCHANGED <<blocks, infos, datas, readings>>
  <2>1. CASE room(1)
    BY <2>1, Moved, Counted
  <2>2. CASE ~(room(1))
    BY <2>2, Moved, Counted
  <2> QED
    BY <2>1, <2>2
<1>1. HeapAccounted'
  BY <1>counts, Counted DEF HeapAccounted
<1>2. ReadOnce'
  BY <1>counts, Counted DEF ReadOnce
<1>3. TypeOK'
  BY DEF Texts
<1>4. RacedTogether'
  BY DEF RacedTogether
<1>5. AloneInOrder'
  BY DEF AloneInOrder, MineAlone
<1>6. ReplySet'
  BY DEF ReplySet
<1>7. AloneIsAnsweredRight'
  BY DEF AloneIsAnsweredRight
<1>8. CrashHasCause'
  BY DEF CrashHasCause
<1> QED
  BY <1>1, <1>2, <1>3, <1>4, <1>5, <1>6, <1>7, <1>8

\* A connection is closed and its buffer freed.
LEMMA CloseKeeps ==
  ASSUME IndInv, NEW w \in Workers, ~crashed, Close(w)
  PROVE  IndInv'
<1>move. /\ pc[w] = "read" /\ pc'[w] = "closed"
         /\ \A v \in Workers : v # w => pc'[v] = pc[v]
  BY DEF IndInv, TypeOK, Goto, Close
<1>counts. /\ Cardinality(Open') = Cardinality(Open) - 1 /\ Cardinality(Open') \in Nat
  BY <1>move, Moved, Counted
<1> USE DEF IndInv, TypeOK, Inside, Close, Goto, blocksAfterClose
<1>1. HeapAccounted'
  BY <1>counts, Counted DEF HeapAccounted
<1>2. ReadOnce'
  BY <1>counts, Counted DEF ReadOnce
<1>3. TypeOK'
  BY <1>counts, <1>1, <1>2, Counted, BoundsAssumption DEF HeapAccounted, ReadOnce,
     Texts
<1>4. RacedTogether'
  BY DEF RacedTogether
<1>5. AloneInOrder'
  BY DEF AloneInOrder, MineAlone
<1>6. ReplySet'
  BY DEF ReplySet
<1>7. AloneIsAnsweredRight'
  BY DEF AloneIsAnsweredRight
<1>8. CrashHasCause'
  BY DEF CrashHasCause
<1> QED
  BY <1>1, <1>2, <1>3, <1>4, <1>5, <1>6, <1>7, <1>8

\* A request is read: whoever is in parse_request is raced from now on.
LEMMA ReadKeeps ==
  ASSUME IndInv, NEW w \in Workers, NEW u \in Urls \cup {"part"}, ~crashed, Read(w, u)
  PROVE  IndInv'
<1>move. /\ pc[w] = "read" /\ pc'[w] = "url"
         /\ \A v \in Workers : v # w => pc'[v] = pc[v]
  BY DEF IndInv, TypeOK, Goto, Read
<1>counts. /\ Cardinality(Open') = Cardinality(Open) /\ Cardinality(Open') \in Nat
  BY <1>move, Moved, Counted
<1> USE DEF IndInv, TypeOK, Inside, Read, Goto, Urls
<1>1. HeapAccounted'
  BY <1>counts, Counted DEF HeapAccounted
<1>2. ReadOnce'
  BY <1>counts, Counted DEF ReadOnce
<1>3. TypeOK'
  <2>1. /\ blocks' \in 0 .. HeapBlocks /\ requests' \in 0 .. MaxRequests
        /\ readings' \in Nat /\ infos' \in Nat /\ datas' \in Nat
    BY <1>counts, <1>1, <1>2, Counted, BoundsAssumption DEF HeapAccounted, ReadOnce
  <2>2. /\ pc' \in [Workers -> {"closed", "orphan", "read"} \cup Inside]
        /\ url' \in [Workers -> Urls \cup {"part"}] /\ raced' \in [Workers -> BOOLEAN]
    OBVIOUS
  <2>3. /\ reading' \in [Workers -> 0 .. readings']
        /\ buffer' \in [head : 0 .. readings', body : 0 .. readings']
    OBVIOUS
  <2>4. /\ length' \in [Workers -> Texts \cup {Null}] /\ reply' \in Texts \cup {Null}
        /\ crashed' \in BOOLEAN
    BY DEF Texts
  <2> QED
    BY <2>1, <2>2, <2>3, <2>4
<1>4. RacedTogether'
  <2>1. \A v \in Workers \ {w} : pc[v] \in Inside => raced'[v] = TRUE
    OBVIOUS
  <2>2. (\E v \in Workers \ {w} : pc[v] \in Inside) => raced'[w] = TRUE
    OBVIOUS
  <2>3. \A v \in Workers \ {w} : pc'[v] = pc[v]
    OBVIOUS
  <2> HIDE DEF Read
  <2> QED
    BY <2>1, <2>2, <2>3 DEF RacedTogether
<1>5. AloneInOrder'
  BY DEF AloneInOrder, MineAlone
<1>6. ReplySet'
  BY DEF ReplySet
<1>7. AloneIsAnsweredRight'
  BY DEF AloneIsAnsweredRight
<1>8. CrashHasCause'
  BY DEF CrashHasCause
<1> QED
  BY <1>1, <1>2, <1>3, <1>4, <1>5, <1>6, <1>7, <1>8

\* on_url chooses the text.
LEMMA OnUrlKeeps ==
  ASSUME IndInv, NEW w \in Workers, ~crashed, on_url(w)
  PROVE  IndInv'
<1>move. /\ pc[w] = "url" /\ pc'[w] \in Then(w)
         /\ \A v \in Workers : v # w => pc'[v] = pc[v]
  BY DEF IndInv, TypeOK, Goto, Then, on_url
<1>counts. /\ Cardinality(Open') = Cardinality(Open) /\ Cardinality(Open') \in Nat
  BY <1>move, Moved, Counted DEF Then
<1> USE DEF IndInv, TypeOK, Inside, on_url, Goto, route, Parsed, Then, Urls
<1>1. HeapAccounted'
  BY <1>counts, Counted DEF HeapAccounted
<1>2. ReadOnce'
  BY <1>counts, Counted DEF ReadOnce
<1>3. TypeOK'
  BY DEF Texts
<1>4. RacedTogether'
  BY DEF RacedTogether
<1>5. AloneInOrder'
  BY NullAssumption DEF AloneInOrder, MineAlone, RacedTogether, Expected, Texts
<1>6. ReplySet'
  BY NullAssumption DEF ReplySet, Texts
<1>7. AloneIsAnsweredRight'
  BY DEF AloneIsAnsweredRight
<1>8. CrashHasCause'
  BY DEF CrashHasCause
<1> QED
  BY <1>1, <1>2, <1>3, <1>4, <1>5, <1>6, <1>7, <1>8

\* /info takes its two blocks.
LEMMA OnUrlInfoKeeps ==
  ASSUME IndInv, NEW w \in Workers, ~crashed, on_url_info(w)
  PROVE  IndInv'
<1> USE DEF IndInv, TypeOK, Inside, on_url_info, Goto, room, Parsed, Then, Urls
<1>counts. /\ Cardinality(Open') \in Nat
           /\ \/ /\ Cardinality(Open') = Cardinality(Open)
                 /\ blocks' = blocks + 2 /\ blocks + 2 <= HeapBlocks /\ infos' = infos + 1
                 /\ UNCHANGED <<datas, readings>>
              \/ /\ Cardinality(Open') = Cardinality(Open)
                 /\ UNCHANGED <<blocks, infos, datas, readings>>
  <2>1. CASE room(2)
    BY <2>1, Moved, Counted
  <2>2. CASE ~(room(2))
    BY <2>2, Moved, Counted DEF Open
  <2> QED
    BY <2>1, <2>2
<1>1. HeapAccounted'
  BY <1>counts, Counted DEF HeapAccounted
<1>2. ReadOnce'
  BY <1>counts, Counted DEF ReadOnce
<1>3. TypeOK'
  <2>1. /\ blocks' \in 0 .. HeapBlocks /\ requests' \in 0 .. MaxRequests
        /\ readings' \in Nat /\ infos' \in Nat /\ datas' \in Nat
    BY <1>counts, <1>1, <1>2, Counted, BoundsAssumption DEF HeapAccounted, ReadOnce
  <2>2. /\ pc' \in [Workers -> {"closed", "orphan", "read"} \cup Inside]
        /\ url' \in [Workers -> Urls \cup {"part"}] /\ raced' \in [Workers -> BOOLEAN]
    OBVIOUS
  <2>3. /\ reading' \in [Workers -> 0 .. readings']
        /\ buffer' \in [head : 0 .. readings', body : 0 .. readings']
    OBVIOUS
  <2>4. /\ length' \in [Workers -> Texts \cup {Null}] /\ reply' \in Texts \cup {Null}
        /\ crashed' \in BOOLEAN
    BY DEF Texts
  <2> QED
    BY <2>1, <2>2, <2>3, <2>4
<1>4. RacedTogether'
  BY DEF RacedTogether
<1>5. AloneInOrder'
  BY DEF AloneInOrder, MineAlone
<1>6. ReplySet'
  BY DEF ReplySet
<1>7. AloneIsAnsweredRight'
  BY DEF AloneIsAnsweredRight
<1>8. CrashHasCause'
  <2>1. crashed' => ~(blocks + 2 <= HeapBlocks) /\ UNCHANGED <<infos, datas>>
    BY Zenon
  <2>2. blocks <= 2 * infos + datas + Cardinality(Workers)
    BY Counted DEF HeapAccounted
  <2>3. crashed' => 2 * infos' + datas' + Cardinality(Workers) + 1 >= HeapBlocks
    BY <2>1, <2>2, Counted, BoundsAssumption
  <2> QED
    BY <2>3 DEF CrashHasCause
<1> QED
  BY <1>1, <1>2, <1>3, <1>4, <1>5, <1>6, <1>7, <1>8

\* A raced parser loses its callback.
LEMMA OnUrlMissedKeeps ==
  ASSUME IndInv, NEW w \in Workers, ~crashed, on_url_missed(w)
  PROVE  IndInv'
<1>move. /\ pc[w] = "url" /\ pc'[w] = "length"
         /\ \A v \in Workers : v # w => pc'[v] = pc[v]
  BY DEF IndInv, TypeOK, Goto, on_url_missed
<1>counts. /\ Cardinality(Open') = Cardinality(Open) /\ Cardinality(Open') \in Nat
  BY <1>move, Moved, Counted
<1> USE DEF IndInv, TypeOK, Inside, on_url_missed, Goto
<1>1. HeapAccounted'
  BY <1>counts, Counted DEF HeapAccounted
<1>2. ReadOnce'
  BY <1>counts, Counted DEF ReadOnce
<1>3. TypeOK'
  BY DEF Texts
<1>4. RacedTogether'
  BY DEF RacedTogether
<1>5. AloneInOrder'
  BY DEF AloneInOrder, MineAlone
<1>6. ReplySet'
  BY DEF ReplySet
<1>7. AloneIsAnsweredRight'
  BY DEF AloneIsAnsweredRight
<1>8. CrashHasCause'
  BY DEF CrashHasCause
<1> QED
  BY <1>1, <1>2, <1>3, <1>4, <1>5, <1>6, <1>7, <1>8

\* /data without the device.
LEMMA BioOpenFailsKeeps ==
  ASSUME IndInv, NEW w \in Workers, ~crashed, bio_open_fails(w)
  PROVE  IndInv'
<1>move. /\ pc[w] = "url" /\ pc'[w] \in Then(w)
         /\ \A v \in Workers : v # w => pc'[v] = pc[v]
  BY DEF IndInv, TypeOK, Goto, Then, bio_open_fails
<1>counts. /\ Cardinality(Open') = Cardinality(Open) /\ Cardinality(Open') \in Nat
  BY <1>move, Moved, Counted DEF Then
<1> USE DEF IndInv, TypeOK, Inside, bio_open_fails, Goto, Parsed, Then, Urls
<1>1. HeapAccounted'
  BY <1>counts, Counted DEF HeapAccounted
<1>2. ReadOnce'
  BY <1>counts, Counted DEF ReadOnce
<1>3. TypeOK'
  BY DEF Texts
<1>4. RacedTogether'
  BY DEF RacedTogether
<1>5. AloneInOrder'
  BY NullAssumption DEF AloneInOrder, MineAlone, RacedTogether, Expected, Texts
<1>6. ReplySet'
  BY NullAssumption DEF ReplySet, Texts
<1>7. AloneIsAnsweredRight'
  BY DEF AloneIsAnsweredRight
<1>8. CrashHasCause'
  BY DEF CrashHasCause
<1> QED
  BY <1>1, <1>2, <1>3, <1>4, <1>5, <1>6, <1>7, <1>8

\* /data reads the device into a new block.
LEMMA BioReadKeeps ==
  ASSUME IndInv, NEW w \in Workers, ~crashed, bio_read(w)
  PROVE  IndInv'
<1> USE DEF IndInv, TypeOK, Inside, bio_read, Goto, room, Parsed, Then, Urls
<1>counts. /\ Cardinality(Open') \in Nat
           /\ \/ /\ Cardinality(Open') = Cardinality(Open)
                 /\ blocks' = blocks + 1 /\ blocks + 1 <= HeapBlocks /\ datas' = datas + 1
                 /\ readings' = readings + 1 /\ UNCHANGED infos
              \/ /\ Cardinality(Open') = Cardinality(Open)
                 /\ UNCHANGED <<blocks, infos, datas, readings>>
  <2>1. CASE room(1)
    BY <2>1, Moved, Counted
  <2>2. CASE ~(room(1))
    BY <2>2, Moved, Counted DEF Open
  <2> QED
    BY <2>1, <2>2
<1>1. HeapAccounted'
  BY <1>counts, Counted DEF HeapAccounted
<1>2. ReadOnce'
  BY <1>counts, Counted DEF ReadOnce
<1>3. TypeOK'
  <2>1. /\ blocks' \in 0 .. HeapBlocks /\ requests' \in 0 .. MaxRequests
        /\ readings' \in Nat /\ infos' \in Nat /\ datas' \in Nat
    BY <1>counts, <1>1, <1>2, Counted, BoundsAssumption DEF HeapAccounted, ReadOnce
  <2>2. /\ pc' \in [Workers -> {"closed", "orphan", "read"} \cup Inside]
        /\ url' \in [Workers -> Urls \cup {"part"}] /\ raced' \in [Workers -> BOOLEAN]
    OBVIOUS
  <2>3. /\ reading' \in [Workers -> 0 .. readings']
        /\ buffer' \in [head : 0 .. readings', body : 0 .. readings']
    OBVIOUS
  <2>4. /\ length' \in [Workers -> Texts \cup {Null}] /\ reply' \in Texts \cup {Null}
        /\ crashed' \in BOOLEAN
    BY DEF Texts
  <2> QED
    BY <2>1, <2>2, <2>3, <2>4
<1>4. RacedTogether'
  BY DEF RacedTogether
<1>5. AloneInOrder'
  BY DEF AloneInOrder, MineAlone
<1>6. ReplySet'
  BY DEF ReplySet
<1>7. AloneIsAnsweredRight'
  BY DEF AloneIsAnsweredRight
<1>8. CrashHasCause'
  <2>1. crashed' => ~(blocks + 1 <= HeapBlocks) /\ UNCHANGED <<infos, datas>>
    BY Zenon
  <2>2. blocks <= 2 * infos + datas + Cardinality(Workers)
    BY Counted DEF HeapAccounted
  <2>3. crashed' => 2 * infos' + datas' + Cardinality(Workers) + 1 >= HeapBlocks
    BY <2>1, <2>2, Counted, BoundsAssumption
  <2> QED
    BY <2>3 DEF CrashHasCause
<1> QED
  BY <1>1, <1>2, <1>3, <1>4, <1>5, <1>6, <1>7, <1>8

\* The head of the report.
LEMMA WriteHeadKeeps ==
  ASSUME IndInv, NEW w \in Workers, ~crashed, writeHead(w)
  PROVE  IndInv'
<1>move. /\ pc[w] = "head" /\ pc'[w] = "body"
         /\ \A v \in Workers : v # w => pc'[v] = pc[v]
  BY DEF IndInv, TypeOK, Goto, writeHead
<1>counts. /\ Cardinality(Open') = Cardinality(Open) /\ Cardinality(Open') \in Nat
  BY <1>move, Moved, Counted
<1> USE DEF IndInv, TypeOK, Inside, writeHead, Goto
<1>1. HeapAccounted'
  BY <1>counts, Counted DEF HeapAccounted
<1>2. ReadOnce'
  BY <1>counts, Counted DEF ReadOnce
<1>3. TypeOK'
  BY DEF Texts
<1>4. RacedTogether'
  BY DEF RacedTogether
<1>5. AloneInOrder'
  BY DEF AloneInOrder, MineAlone, RacedTogether
<1>6. ReplySet'
  BY DEF ReplySet
<1>7. AloneIsAnsweredRight'
  BY DEF AloneIsAnsweredRight
<1>8. CrashHasCause'
  BY DEF CrashHasCause
<1> QED
  BY <1>1, <1>2, <1>3, <1>4, <1>5, <1>6, <1>7, <1>8

\* The body of the report.
LEMMA WriteBodyKeeps ==
  ASSUME IndInv, NEW w \in Workers, ~crashed, writeBody(w)
  PROVE  IndInv'
<1>move. /\ pc[w] = "body" /\ pc'[w] \in Then(w)
         /\ \A v \in Workers : v # w => pc'[v] = pc[v]
  BY DEF IndInv, TypeOK, Goto, Then, writeBody
<1>counts. /\ Cardinality(Open') = Cardinality(Open) /\ Cardinality(Open') \in Nat
  BY <1>move, Moved, Counted DEF Then
<1> USE DEF IndInv, TypeOK, Inside, writeBody, Goto, Parsed, Then, Urls
<1>1. HeapAccounted'
  BY <1>counts, Counted DEF HeapAccounted
<1>2. ReadOnce'
  BY <1>counts, Counted DEF ReadOnce
<1>3. TypeOK'
  BY DEF Texts
<1>4. RacedTogether'
  BY DEF RacedTogether
<1>5. AloneInOrder'
  BY NullAssumption DEF AloneInOrder, MineAlone, RacedTogether, Expected, Texts
<1>6. ReplySet'
  BY NullAssumption DEF ReplySet, Texts
<1>7. AloneIsAnsweredRight'
  BY DEF AloneIsAnsweredRight
<1>8. CrashHasCause'
  BY DEF CrashHasCause
<1> QED
  BY <1>1, <1>2, <1>3, <1>4, <1>5, <1>6, <1>7, <1>8

\* strlen of the text, or of nothing.
LEMMA TakeLengthKeeps ==
  ASSUME IndInv, NEW w \in Workers, ~crashed, takeLength(w)
  PROVE  IndInv'
<1> USE DEF IndInv, TypeOK, Inside, takeLength, Goto
<1>counts. /\ Cardinality(Open') \in Nat
           /\ \/ /\ Cardinality(Open') = Cardinality(Open)
                 /\ UNCHANGED <<blocks, infos, datas, readings>>
              \/ /\ Cardinality(Open') = Cardinality(Open)
                 /\ UNCHANGED <<blocks, infos, datas, readings>>
  <2>1. CASE reply # Null
    BY <2>1, Moved, Counted
  <2>2. CASE ~(reply # Null)
    BY <2>2, Moved, Counted DEF Open
  <2> QED
    BY <2>1, <2>2
<1>1. HeapAccounted'
  BY <1>counts, Counted DEF HeapAccounted
<1>2. ReadOnce'
  BY <1>counts, Counted DEF ReadOnce
<1>3. TypeOK'
  BY DEF Texts
<1>4. RacedTogether'
  BY DEF RacedTogether
<1>5. AloneInOrder'
  BY DEF AloneInOrder, MineAlone
<1>6. ReplySet'
  BY DEF ReplySet
<1>7. AloneIsAnsweredRight'
  BY DEF AloneIsAnsweredRight
<1>8. CrashHasCause'
  BY Counted, BoundsAssumption, NullAssumption DEF CrashHasCause, HeapAccounted,
     AloneInOrder, MineAlone, Expected, Texts, ReplySet
<1> QED
  BY <1>1, <1>2, <1>3, <1>4, <1>5, <1>6, <1>7, <1>8

\* The answer is written.
LEMMA TcpWriteKeeps ==
  ASSUME IndInv, NEW w \in Workers, ~crashed, tcp_write(w)
  PROVE  IndInv'
<1>move. /\ pc[w] = "write" /\ pc'[w] = "read"
         /\ \A v \in Workers : v # w => pc'[v] = pc[v]
  BY DEF IndInv, TypeOK, Goto, tcp_write
<1>counts. /\ Cardinality(Open') = Cardinality(Open) /\ Cardinality(Open') \in Nat
  BY <1>move, Moved, Counted
<1> USE DEF IndInv, TypeOK, Inside, tcp_write, Goto, replyAfterWrite
<1>1. HeapAccounted'
  BY <1>counts, Counted DEF HeapAccounted
<1>2. ReadOnce'
  BY <1>counts, Counted DEF ReadOnce
<1>3. TypeOK'
  BY DEF Texts
<1>4. RacedTogether'
  BY DEF RacedTogether
<1>5. AloneInOrder'
  BY DEF AloneInOrder, MineAlone
<1>6. ReplySet'
  BY DEF ReplySet
<1>7. AloneIsAnsweredRight'
  <2> SUFFICES ASSUME ~sent'.raced
               PROVE  /\ sent'.text \in Expected(sent'.url)
                      /\ sent'.length = sent'.text
                      /\ sent'.reading # 0 =>
                           sent'.buffer = [head |-> sent'.reading, body |-> sent'.reading]
    BY DEF AloneIsAnsweredRight
  <2>1. raced[w] = FALSE
    OBVIOUS
  <2>2. MineAlone(w) /\ pc[w] = "write" /\ reply \in Texts
    BY <2>1 DEF AloneInOrder, ReplySet
  <2>3. reply \in Expected(url[w])
    BY <2>2 DEF MineAlone, Expected, Urls
  <2> QED
    BY <2>2, <2>3 DEF MineAlone
<1>8. CrashHasCause'
  BY DEF CrashHasCause
<1> QED
  BY <1>1, <1>2, <1>3, <1>4, <1>5, <1>6, <1>7, <1>8

\* The invariant holds before the first connection.
LEMMA InitInv == Init => IndInv
<1> SUFFICES ASSUME Init PROVE IndInv
  OBVIOUS
<1> USE DEF Init
<1>1. Open = {}
  BY DEF Open
<1>2. Cardinality(Open) = 0
  BY <1>1, FS_EmptySet
<1>3. TypeOK
  <2>1. /\ blocks \in 0 .. HeapBlocks /\ requests \in 0 .. MaxRequests
        /\ readings \in Nat /\ infos \in Nat /\ datas \in Nat
    BY BoundsAssumption
  <2>2. /\ pc \in [Workers -> {"closed", "orphan", "read"} \cup Inside]
        /\ url \in [Workers -> Urls \cup {"part"}] /\ raced \in [Workers -> BOOLEAN]
    BY DEF Urls
  <2>3. /\ reading \in [Workers -> 0 .. readings]
        /\ buffer \in [head : 0 .. readings, body : 0 .. readings]
    OBVIOUS
  <2>4. length \in [Workers -> Texts \cup {Null}] /\ reply \in Texts \cup {Null}
    OBVIOUS
  <2> QED
    BY <2>1, <2>2, <2>3, <2>4 DEF TypeOK
<1>4. HeapAccounted /\ ReadOnce
  BY <1>2 DEF HeapAccounted, ReadOnce
<1>5. RacedTogether /\ AloneInOrder /\ ReplySet
  BY DEF RacedTogether, AloneInOrder, MineAlone, ReplySet, Inside
<1>6. AloneIsAnsweredRight /\ CrashHasCause
  BY DEF AloneIsAnsweredRight, CrashHasCause
<1> QED
  BY <1>3, <1>4, <1>5, <1>6 DEF IndInv

\* Every step keeps it.
LEMMA StepInv == IndInv /\ [Next]_vars => IndInv'
<1> SUFFICES ASSUME IndInv, [Next]_vars PROVE IndInv'
  OBVIOUS
<1>1. CASE UNCHANGED vars
  <2>1. Open' = Open
    BY <1>1 DEF vars, Open
  <2> QED
    BY <1>1, <2>1 DEF vars, IndInv, TypeOK, HeapAccounted, ReadOnce, RacedTogether,
       AloneInOrder, MineAlone, ReplySet, AloneIsAnsweredRight, CrashHasCause
<1>2. CASE Next
  <2> PICK w \in Workers : ~crashed /\ Step(w)
    BY <1>2 DEF Next
  <2>1. CASE Accept(w) \/ Close(w)
    BY <2>1, AcceptKeeps, CloseKeeps
  <2>2. CASE \E u \in Urls \cup {"part"} : Read(w, u)
    BY <2>2, ReadKeeps
  <2>3. CASE on_url(w) \/ on_url_info(w) \/ on_url_missed(w)
    BY <2>3, OnUrlKeeps, OnUrlInfoKeeps, OnUrlMissedKeeps
  <2>4. CASE bio_open_fails(w) \/ bio_read(w) \/ writeHead(w) \/ writeBody(w)
    BY <2>4, BioOpenFailsKeeps, BioReadKeeps, WriteHeadKeeps, WriteBodyKeeps
  <2>5. CASE takeLength(w) \/ tcp_write(w)
    BY <2>5, TakeLengthKeeps, TcpWriteKeeps
  <2> QED
    BY <2>1, <2>2, <2>3, <2>4, <2>5 DEF Step
<1> QED
  BY <1>1, <1>2

-----------------------------------------------------------------------------

\* The inductive invariant holds throughout.
THEOREM Invariance == Spec => []IndInv
BY InitInv, StepInv, PTL DEF Spec

\* Every variable keeps its type: the heap is never overdrawn.
THEOREM TypeCorrect == Spec => []TypeOK
BY Invariance, PTL DEF IndInv

\* Every block in use is the read buffer of an open connection or one that /info
\* or /data has forgotten.
THEOREM HeapIsAccounted == Spec => []HeapAccounted
BY Invariance, PTL DEF IndInv

\* A request that was read whole and had parse_request to itself is answered with its
\* own text, at its own length and, for /data, with its own reading; /info with an old
\* text.
THEOREM AloneIsRight == Spec => []AloneIsAnsweredRight
BY Invariance, PTL DEF IndInv

\* pusapi stops the system only on a heap that /info and /data have filled, or for
\* a request without a text, before any was answered.
THEOREM CrashesHaveCause == Spec => []CrashHasCause
BY Invariance, PTL DEF IndInv
=============================================================================
