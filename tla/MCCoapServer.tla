---------------------------- MODULE MCCoapServer ----------------------------
EXTENDS CoapServer

MCPathHello == <<104, 255>>
MCHello == [i \in 1 .. 29 |-> 255]

Path(elems) == [i \in DOMAIN elems |-> [num |-> COAP_OPTION_URI_PATH, val |-> elems[i]]]

Message(code, id, tok, opts) ==
    [ver |-> 1, t |-> 0, tkl |-> Len(tok), code |-> code, id |-> <<0, id>>, tok |-> tok,
     opts |-> opts, payload |-> <<>>]

\* GET hello, GET hello/hello, POST hello, GET without a path, GET hello with another option.
MCPackets ==
    {Message(1, 1, <<>>, Path(<<MCPathHello>>)),
     Message(1, 2, <<5, 6>>, Path(<<MCPathHello, MCPathHello>>)),
     Message(2, 3, <<7>>, Path(<<MCPathHello>>)),
     Message(1, 4, [i \in 1 .. 8 |-> 8], <<>>),
     Message(1, 5, <<>>, Path(<<MCPathHello>>) \o <<[num |-> 60, val |-> <<1>>]>>)}

\* GET hello behind an option whose number, 256, becomes 0: what follows is out of order.
MCWrapped == <<64, 1, 0, 6, 178, 104, 255, 209, 232, 0, 178, 104, 255>>

\* A datagram of 260 bytes, of which the callback may see four.
MCLong == coap_build(64, Message(1, 7, <<>>, Path(<<MCPathHello>>))).buf
            \o [i \in 1 .. 253 |-> 255]

MCRequests == {coap_build(64, p).buf : p \in MCPackets} \cup {MCWrapped, MCLong, <<64, 1>>}

\* What the stack held before: the packet of an earlier callback, or something with a token
\* of 60 bytes, for which packetbuf is just large enough before the option is written.
MCLeftovers == {Message(1, 1, <<>>, Path(<<MCPathHello>>)), Message(0, 9, [i \in 1 .. 60 |-> 9], <<>>)}

MCSymmetry == Permutations(Clients)
=============================================================================
