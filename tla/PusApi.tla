------------------------------- MODULE PusApi -------------------------------
(***************************************************************************)
(* The HTTP interface pus/app/pusapi/pusapi.c: one thread per connection,  *)
(* all of them parsing with one llhttp parser and answering through one    *)
(* pointer, reply, and one buffer, without a lock.                         *)
(*                                                                         *)
(* A text is known by where it comes from.  The buffer holds the head and  *)
(* the body of a report, each named by the reading of the device it shows. *)
(* The parser is run over what one read has left in the read buffer, from  *)
(* a fresh start and without a look at its result.  If that is exactly one *)
(* whole request, on_url is called once, with its URL.  Anything else (a   *)
(* piece of a request, a malformed one, one with leftovers of an earlier   *)
(* read behind it, which nothing terminates) is a "part": on_url is called *)
(* with whatever the parser takes for a URL, any number of times or never. *)
(*                                                                         *)
(* A thread inside parse_request may be interrupted anywhere; raced says   *)
(* of a thread that another one was in there with it, and then a callback  *)
(* of its parser may be missing, since the other thread resets the parser  *)
(* and the callbacks both use.                                             *)
(***************************************************************************)
EXTENDS Integers, FiniteSets

CONSTANTS
    Workers,        \* connections, each with its thread
    MaxRequests,    \* bound: requests read, over all connections
    HeapBlocks,     \* blocks the heap has room for
    Null

ASSUME BoundsAssumption == MaxRequests \in Nat /\ HeapBlocks \in Nat

Urls == {"/api", "/info", "/data", "other"}
Texts == {"reply1", "reply3", "buffer"}

ASSUME WorkersAssumption == IsFiniteSet(Workers)
ASSUME NullAssumption == Null \notin Texts

VARIABLES
    pc,         \* "closed", "orphan", "read", or where in parse_request (Inside)
    url,        \* the URL of the request the thread is answering, or "part"
    reading,    \* the device's contents the thread has read; 0: it could not open it
    length,     \* the text whose length tcp_write is given
    raced,      \* was another thread in parse_request with this one?
    reply,      \* the text answered with, or Null
    buffer,     \* the readings its head and body are from; 0: nothing yet
    readings,   \* how often the device has been read
    blocks,     \* heap blocks in use
    requests,   \* requests read so far
    infos,      \* history: requests for /info served
    datas,      \* history: requests for /data that read the device
    sent,       \* history: what the last request was answered with, or Null
    crashed     \* strlen(NULL), or the assertion that calloc succeeds

vars == <<pc, url, reading, length, raced, reply, buffer, readings, blocks, requests,
          infos, datas, sent, crashed>>

Inside == {"url", "head", "body", "length", "write"}

Init ==
    /\ pc = [w \in Workers |-> "closed"]
    /\ url = [w \in Workers |-> "other"]
    /\ reading = [w \in Workers |-> 0]
    /\ length = [w \in Workers |-> Null]
    /\ raced = [w \in Workers |-> FALSE]
    /\ reply = Null
    /\ buffer = [head |-> 0, body |-> 0]
    /\ readings = 0
    /\ blocks = 0
    /\ requests = 0
    /\ infos = 0
    /\ datas = 0
    /\ sent = Null
    /\ crashed = FALSE

Goto(w, l) == pc' = [pc EXCEPT ![w] = l]

\* Does malloc find n more blocks?
room(n) == blocks + n <= HeapBlocks

(***************************************************************************)
(* tcp_accept, a thread, and its read buffer.  Without the buffer the      *)
(* thread returns at once, and the socket stays open for ever.             *)
(***************************************************************************)
Accept(w) ==
    /\ pc[w] = "closed"
    /\ IF room(1)
       THEN Goto(w, "read") /\ blocks' = blocks + 1
       ELSE Goto(w, "orphan") /\ UNCHANGED blocks
    /\ UNCHANGED <<url, reading, length, raced, reply, buffer, readings, requests, infos, datas,
                   sent, crashed>>

\* Mistake: the read buffer is not freed.
blocksKept == blocks

blocksAfterClose == blocks - 1

\* tcp_read fails: the loop ends, the socket is closed, the buffer freed.
Close(w) ==
    /\ pc[w] = "read"
    /\ Goto(w, "closed")
    /\ blocks' = blocksAfterClose
    /\ UNCHANGED <<url, reading, length, raced, reply, buffer, readings, requests, infos, datas,
                   sent, crashed>>

\* tcp_read returns a whole request for u, or a part; parse_request sets the callbacks
\* and the parser up.
Read(w, u) ==
    /\ pc[w] = "read"
    /\ requests < MaxRequests
    /\ LET others == {v \in Workers \ {w} : pc[v] \in Inside}
       IN  raced' = [v \in Workers |-> IF v = w THEN others # {}
                                       ELSE raced[v] \/ v \in others]
    /\ requests' = requests + 1
    /\ url' = [url EXCEPT ![w] = u]
    /\ reading' = [reading EXCEPT ![w] = 0]
    /\ Goto(w, "url")
    /\ UNCHANGED <<length, reply, buffer, readings, blocks, infos, datas, sent, crashed>>

\* Mistake: an unknown URL leaves the answer alone.
routeWithoutDefault(u) == IF u = "/api" THEN "reply1" ELSE reply

\* What on_url sets reply to, for the URLs that need no device.
route(u) ==
    CASE u = "/api" -> "reply1"
      [] u = "other" -> "reply3"
      [] OTHER -> reply

\* The URLs on_url may be called with next, and where parse_request goes from there:
\* in a part, the parser may find another URL.
Parsed(w) == IF url[w] = "part" THEN Urls ELSE {url[w]}
Then(w) == IF url[w] = "part" THEN {"url", "length"} ELSE {"length"}

on_url(w) ==
    /\ pc[w] = "url"
    /\ \E u \in Parsed(w) \cap {"/api", "other"} : reply' = route(u)
    /\ \E l \in Then(w) : Goto(w, l)
    /\ UNCHANGED <<url, reading, length, raced, buffer, readings, blocks, requests, infos, datas,
                   sent, crashed>>

(***************************************************************************)
(* /info: a response of two blocks is put together and forgotten; reply    *)
(* stays what it was.  Without memory the assertion stops the system.      *)
(***************************************************************************)
on_url_info(w) ==
    /\ pc[w] = "url"
    /\ "/info" \in Parsed(w)
    /\ IF room(2)
       THEN /\ blocks' = blocks + 2
            /\ infos' = infos + 1
            /\ \E l \in Then(w) : Goto(w, l)
            /\ UNCHANGED crashed
       ELSE /\ crashed' = TRUE
            /\ UNCHANGED <<pc, blocks, infos>>
    /\ UNCHANGED <<url, reading, length, raced, reply, buffer, readings, requests, datas, sent>>

\* The parser ends without a URL: there is none in the part, or the callback is missing
\* from the parser another thread has just reset.
on_url_missed(w) ==
    /\ pc[w] = "url"
    /\ raced[w] \/ url[w] = "part"
    /\ Goto(w, "length")
    /\ UNCHANGED <<url, reading, length, raced, reply, buffer, readings, blocks, requests, infos,
                   datas, sent, crashed>>

(***************************************************************************)
(* /data: get_sensor_data opens the device, allocates a block it never     *)
(* frees, reads the device into it without asking whether it is there, and *)
(* writes head and body of the report into the buffer.  If the device      *)
(* cannot be opened the buffer keeps the report before.                    *)
(***************************************************************************)
bio_open_fails(w) ==
    /\ pc[w] = "url"
    /\ "/data" \in Parsed(w)
    /\ reply' = "buffer"
    /\ \E l \in Then(w) : Goto(w, l)
    /\ UNCHANGED <<url, reading, length, raced, buffer, readings, blocks, requests, infos, datas,
                   sent, crashed>>

bio_read(w) ==
    /\ pc[w] = "url"
    /\ "/data" \in Parsed(w)
    /\ IF room(1)
       THEN /\ blocks' = blocks + 1
            /\ datas' = datas + 1
            /\ readings' = readings + 1
            /\ reading' = [reading EXCEPT ![w] = readings + 1]
            /\ Goto(w, "head")
            /\ UNCHANGED crashed
       ELSE /\ crashed' = TRUE
            /\ UNCHANGED <<pc, reading, readings, blocks, datas>>
    /\ UNCHANGED <<url, length, raced, reply, buffer, requests, infos, sent>>

writeHead(w) ==
    /\ pc[w] = "head"
    /\ buffer' = [buffer EXCEPT !.head = reading[w]]
    /\ Goto(w, "body")
    /\ UNCHANGED <<url, reading, length, raced, reply, readings, blocks, requests, infos, datas,
                   sent, crashed>>

writeBody(w) ==
    /\ pc[w] = "body"
    /\ buffer' = [buffer EXCEPT !.body = reading[w]]
    /\ reply' = "buffer"
    /\ \E l \in Then(w) : Goto(w, l)
    /\ UNCHANGED <<url, reading, length, raced, readings, blocks, requests, infos, datas, sent,
                   crashed>>

\* strlen(reply)
takeLength(w) ==
    /\ pc[w] = "length"
    /\ IF reply = Null
       THEN crashed' = TRUE /\ UNCHANGED <<pc, length>>
       ELSE Goto(w, "write") /\ length' = [length EXCEPT ![w] = reply] /\ UNCHANGED crashed
    /\ UNCHANGED <<url, reading, raced, reply, buffer, readings, blocks, requests, infos, datas,
                   sent>>

\* Mistake: reply is cleared once it has been sent.
replyAfterClearing == Null

replyAfterWrite == reply

\* tcp_write(socket, reply, ...), whose error is only logged
tcp_write(w) ==
    /\ pc[w] = "write"
    /\ sent' = [url |-> url[w], raced |-> raced[w], text |-> reply, length |-> length[w],
                reading |-> reading[w], buffer |-> buffer]
    /\ reply' = replyAfterWrite
    /\ Goto(w, "read")
    /\ UNCHANGED <<url, reading, length, raced, buffer, readings, blocks, requests, infos, datas,
                   crashed>>

Step(w) ==
    \/ Accept(w) \/ Close(w)
    \/ \E u \in Urls \cup {"part"} : Read(w, u)
    \/ on_url(w) \/ on_url_info(w) \/ on_url_missed(w)
    \/ bio_open_fails(w) \/ bio_read(w) \/ writeHead(w) \/ writeBody(w)
    \/ takeLength(w) \/ tcp_write(w)

Next == ~crashed /\ \E w \in Workers : Step(w)

Spec == Init /\ [][Next]_vars

-----------------------------------------------------------------------------

Expected(u) ==
    CASE u = "/api" -> {"reply1"}
      [] u = "/data" -> {"buffer"}
      [] u = "other" -> {"reply3"}
      [] OTHER -> Texts

TypeOK ==
    /\ pc \in [Workers -> {"closed", "orphan", "read"} \cup Inside]
    /\ url \in [Workers -> Urls \cup {"part"}]
    /\ reading \in [Workers -> 0 .. readings]
    /\ length \in [Workers -> Texts \cup {Null}]
    /\ raced \in [Workers -> BOOLEAN]
    /\ reply \in Texts \cup {Null}
    /\ buffer \in [head : 0 .. readings, body : 0 .. readings]
    /\ readings \in Nat
    /\ blocks \in 0 .. HeapBlocks
    /\ requests \in 0 .. MaxRequests
    /\ infos \in Nat
    /\ datas \in Nat
    /\ crashed \in BOOLEAN

(***************************************************************************)
(* Sharing is the only thing wrong with the shared variables: a request    *)
(* that had parse_request to itself is answered with the text of its URL,  *)
(* at that text's length, and, if it could open the device, with a report  *)
(* that shows its own reading in head and body.  Two are the exception: a  *)
(* request for /info, and one that was not read whole, whose parse error   *)
(* nobody looks at, are answered with whatever the one before them was.    *)
(***************************************************************************)
AloneIsAnsweredRight ==
    (sent # Null /\ ~sent.raced) =>
        /\ sent.text \in Expected(sent.url)
        /\ sent.length = sent.text
        /\ sent.reading # 0 => sent.buffer = [head |-> sent.reading, body |-> sent.reading]

(***************************************************************************)
(* The system stops only for a reason: before any request was answered, one*)
(* for /info, one that was not read whole, or one that lost its callback to*)
(* a race; or a heap filled by the blocks /info and /data forget.          *)
(***************************************************************************)
CrashHasCause ==
    crashed => \/ 2 * infos + datas + Cardinality(Workers) + 1 >= HeapBlocks
               \/ \E w \in Workers : /\ pc[w] = "length"
                                     /\ url[w] \in {"/info", "part"} \/ raced[w]
                                     /\ sent = Null

\* The connections that have their read buffer.
Open == {w \in Workers : pc[w] \notin {"closed", "orphan"}}

(***************************************************************************)
(* The heap: two blocks for every /info and one for every /data ever       *)
(* served, one for every open connection, and nothing else; so no          *)
(* connection can be served once the forgotten blocks have filled it.      *)
(***************************************************************************)
HeapAccounted == blocks = 2 * infos + datas + Cardinality(Open)
=============================================================================
