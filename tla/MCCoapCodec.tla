---------------------------- MODULE MCCoapCodec ----------------------------
EXTENDS CoapCodec

Bytes(n, b) == [i \in 1 .. n |-> b]

\* Numbers and lengths on both sides of each change of encoding.
MCNums == {0, 11, 12, 24, 255}
MCLens == {0, 1, 12, 13, 268, 269}
MCOptions == [num : MCNums, val : {Bytes(l, 255) : l \in MCLens}]
MCOptionLists == BoundedSeq(MCOptions, 2)

MCPackets ==
    {[ver |-> 1, t |-> t, tkl |-> k, code |-> 69, id |-> <<7, 255>>, tok |-> Bytes(k, 9),
      opts |-> os, payload |-> Bytes(n, 255)] :
        t \in {0, 3}, k \in {0, 8}, os \in MCOptionLists, n \in {0, 1, 2}}

\* Bytes that select every branch of coap_parseOption, behind good and bad headers.
MCTails == BoundedSeq({0, 1, 13, 14, 15, 176, 208, 224, 240, 255}, 4)
MCHeads == {<<>>, <<64, 1, 0>>, <<64, 1, 0, 0>>, <<65, 1, 0, 0>>, <<73, 1, 0, 0>>, <<128, 1, 0, 0>>}
MCDatagrams == {h \o t : h \in MCHeads, t \in MCTails}
=============================================================================
