----------------------------- MODULE CoapServer -----------------------------
(***************************************************************************)
(* The CoAP server pus/app/coapsrv/coapsrv.c behind a network that loses,  *)
(* duplicates and reorders datagrams, and clients that read the answers    *)
(* with coap_parse as the applications of this repository do.              *)
(*                                                                         *)
(* coap_svc_callback runs to completion on the network stack's thread, so  *)
(* it is one step.  The callback does not look at what coap_parse returns: *)
(* after a failed parse it goes on with a packet nobody filled in, which   *)
(* is any packet of Leftovers.  The table of endpoints has no end marker:  *)
(* a request no endpoint serves makes coap_handle_req read on behind it,   *)
(* where it finds a null pointer and answers, or does not come back.       *)
(***************************************************************************)
EXTENDS Coap

CONSTANTS
    Clients,
    Requests,       \* datagrams a client may send
    Leftovers,      \* what an unfilled coap_packet_t may hold
    PathHello,      \* the bytes of "hello"
    Hello,          \* the bytes of the greeting
    MaxSends,       \* bound: datagrams the clients send
    MaxSockets      \* sockets the heap has room for

ASSUME BoundsAssumption == {MaxSends, MaxSockets} \subseteq Nat

\* packetbuf has room for a response without a payload (its size is 64).
ASSUME PacketbufAssumption == BufLen >= 15

ASSUME RequestsAssumption == \A d \in Requests : d \in Seq(Byte)
ASSUME LeftoversAssumption == \A p \in Leftovers : p.id \in Byte \X Byte /\ p.tok \in Seq(Byte)
ASSUME HelloAssumption == Hello \in Seq(Byte)

VARIABLES
    requests,   \* datagrams [client, data] on their way to the server
    replies,    \* datagrams [client, data] on their way back
    asked,      \* history: the pairs <<client, data>> sent
    answers,    \* history: the pairs <<client, data>> received
    sends,      \* datagrams sent so far
    sockets,    \* sockets opened by the callback; none is ever closed
    alive       \* FALSE once coap_handle_req has run off the table

serverVars == <<requests, replies, asked, answers, sends, sockets, alive>>

ServerInit ==
    /\ requests = {}
    /\ replies = {}
    /\ asked = {}
    /\ answers = {}
    /\ sends = 0
    /\ sockets = 0
    /\ alive = TRUE

\* A client sends a request, or sends one again that it sent before.
Request(c, d) ==
    /\ sends < MaxSends
    /\ sends' = sends + 1
    /\ requests' = requests \cup {[client |-> c, data |-> d]}
    /\ asked' = asked \cup {<<c, d>>}
    /\ UNCHANGED <<replies, answers, sockets, alive>>

endpoints == <<[method |-> COAP_METHOD_GET, path |-> <<PathHello>>]>>

handle_get_hello(inpkt) ==
    coap_make_response(Hello, inpkt.id, inpkt.tok,
                       COAP_RSPCODE_CONTENT, COAP_CONTENTTYPE_TEXT_PLAIN)

\* Mistake: the response carries no token.
notFoundWithoutToken(inpkt) ==
    coap_make_response(<<>>, inpkt.id, <<>>,
                       COAP_RSPCODE_NOT_FOUND, COAP_CONTENTTYPE_NONE)

notFound(inpkt) ==
    coap_make_response(<<>>, inpkt.id, inpkt.tok,
                       COAP_RSPCODE_NOT_FOUND, COAP_CONTENTTYPE_NONE)

\* What the callback may take d for: it declares an eight bit length, and whether the
\* length the network stack hands over is cut to that depends on the compiler.
arrivesAs(d) == {d, SubSeq(d, 1, Len(d) % 2^8)}

\* The packets the callback may go on with after parsing d.
parsedFrom(d) ==
    UNION {LET r == coap_parse(x) IN IF r.rc = "OK" THEN {r.pkt} ELSE Leftovers :
             x \in arrivesAs(d)}

served(inpkt) == \E i \in DOMAIN endpoints : matches(endpoints[i], inpkt)

coap_handle_req(inpkt) ==
    IF served(inpkt) THEN handle_get_hello(inpkt) ELSE notFound(inpkt)

replyTo(r, data) == {[client |-> r.client, data |-> data]}

\* Mistake: a socket is opened although there is no room for one.
openAlways == sockets <= MaxSockets

udp_open_succeeds == sockets < MaxSockets

(***************************************************************************)
(* The callback for a delivered datagram r, which may be delivered again.  *)
(* A reply that cannot be built or sent is dropped.                        *)
(***************************************************************************)
coap_svc_callback(r) ==
    /\ alive
    /\ udp_open_succeeds
    /\ requests' \in {requests, requests \ {r}}
    /\ sockets' = sockets + 1
    /\ \E inpkt \in parsedFrom(r.data) :
        LET b == coap_build(BufLen, coap_handle_req(inpkt))
        IN  \/ /\ b.rc = "OK"
               /\ replies' = replies \cup replyTo(r, b.buf)
               /\ alive' = alive
            \/ /\ replies' = replies
               /\ alive' = alive
            \/ /\ ~served(inpkt)
               /\ replies' = replies
               /\ alive' = FALSE
    /\ UNCHANGED <<asked, answers, sends>>

\* udp_open fails: the callback returns.
openFails(r) ==
    /\ alive
    /\ ~udp_open_succeeds
    /\ requests' = requests \ {r}
    /\ UNCHANGED <<replies, asked, answers, sends, sockets, alive>>

\* A reply reaches its client, and may reach it again.
Receive(r) ==
    /\ answers' = answers \cup {<<r.client, r.data>>}
    /\ replies' \in {replies, replies \ {r}}
    /\ UNCHANGED <<requests, asked, sends, sockets, alive>>

Lose ==
    /\ \/ \E r \in requests : requests' = requests \ {r} /\ UNCHANGED replies
       \/ \E r \in replies : replies' = replies \ {r} /\ UNCHANGED requests
    /\ UNCHANGED <<asked, answers, sends, sockets, alive>>

ServerNext ==
    \/ \E c \in Clients, d \in Requests : Request(c, d)
    \/ \E r \in requests : coap_svc_callback(r) \/ openFails(r)
    \/ \E r \in replies : Receive(r)
    \/ Lose

ServerSpec == ServerInit /\ [][ServerNext]_serverVars

-----------------------------------------------------------------------------

\* GET hello: among the options, one element of the path and no other.
AsksForHello(p) ==
    /\ p.code = COAP_METHOD_GET
    /\ \E k \in DOMAIN p.opts :
        /\ p.opts[k].val = PathHello
        /\ \A i \in DOMAIN p.opts : p.opts[i].num = COAP_OPTION_URI_PATH <=> i = k

\* The response RFC 7252 asks for: the greeting for GET hello and nothing else.
Expected(p) ==
    IF AsksForHello(p)
    THEN [code |-> COAP_RSPCODE_CONTENT, payload |-> Hello]
    ELSE [code |-> COAP_RSPCODE_NOT_FOUND, payload |-> <<>>]

\* Has c sent a datagram that coap_parse refuses, or one that is cut short?
Careless(c) ==
    \E q \in asked : q[1] = c /\ (Len(q[2]) > 255 \/ coap_parse(q[2]).rc # "OK")

(***************************************************************************)
(* Every answer a client receives parses, is an acknowledgement, and is    *)
(* the right one, under its message id and token, for a request that this  *)
(* client sent, unless a number that lost its ninth bit has put the        *)
(* options of that request out of order; only a client that sent something *)
(* coap_parse refuses, or 256 bytes or more, may receive something else.   *)
(***************************************************************************)
AnswersMatchRequests ==
    \A answer \in answers :
        LET a == coap_parse(answer[2])
        IN  \/ Careless(answer[1])
            \/ /\ a.rc = "OK"
               /\ a.pkt.t = COAP_TYPE_ACK
               /\ \E q \in asked :
                    LET p == coap_parse(q[2]).pkt
                    IN  /\ q[1] = answer[1]
                        /\ a.pkt.id = p.id
                        /\ a.pkt.tok = p.tok
                        /\ Increasing(p.opts) =>
                            [code |-> a.pkt.code, payload |-> a.pkt.payload] = Expected(p)

(***************************************************************************)
(* The callback opens a socket for every datagram and closes none, so the  *)
(* server never gives more answers than the heap has room for sockets,     *)
(* duplicates of a request included; and an answer fits packetbuf, but for *)
(* one made from a leftover with a longer token than a request can have.   *)
(***************************************************************************)
AnswersAreLimited ==
    /\ sockets <= MaxSockets
    /\ Cardinality(answers) <= sockets
    /\ \A answer \in answers :
        \/ Len(answer[2]) <= BufLen
        \/ Careless(answer[1]) /\ \E p \in Leftovers : Len(p.tok) > 8
=============================================================================
