----------------------------- MODULE CoapCodec -----------------------------
(***************************************************************************)
(* coap_build and coap_parse against each other.  A behaviour starts from  *)
(* a packet, which is built and parsed again, or from the bytes of a       *)
(* datagram, which are parsed; what was parsed is then built and parsed    *)
(* once more, as an application does that answers with what it received.   *)
(***************************************************************************)
EXTENDS Coap

CONSTANTS
    Packets,    \* the packets to start from
    Datagrams,  \* the datagrams to start from
    None

ASSUME PacketsAssumption == \A p \in Packets : p \in Packet
ASSUME DatagramsAssumption == \A d \in Datagrams : d \in Seq(Byte)
ASSUME NoneAssumption == None \notin Datagrams

VARIABLES
    sent,       \* the packet the behaviour started from, or None
    wire,       \* the datagram, or None
    got,        \* what coap_parse made of it, or None
    again       \* what coap_parse makes of the rebuilt packet, or None

codecVars == <<sent, wire, got, again>>

CodecInit ==
    /\ \/ sent \in Packets /\ wire = None
       \/ sent = None /\ wire \in Datagrams
    /\ got = None
    /\ again = None

Build ==
    /\ wire = None
    /\ LET b == coap_build(BufLen, sent)
       IN  b.rc = "OK" /\ wire' = b.buf
    /\ UNCHANGED <<sent, got, again>>

Parse ==
    /\ wire # None
    /\ got = None
    /\ got' = coap_parse(wire)
    /\ UNCHANGED <<sent, wire, again>>

Rebuild ==
    /\ got # None
    /\ again = None
    /\ got.rc = "OK"
    /\ LET b == coap_build(BufLen, got.pkt)
       IN  b.rc = "OK" /\ again' = coap_parse(b.buf)
    /\ UNCHANGED <<sent, wire, got>>

CodecNext == Build \/ Parse \/ Rebuild

CodecSpec == CodecInit /\ [][CodecNext]_codecVars

-----------------------------------------------------------------------------

(***************************************************************************)
(* Whatever bytes arrive, a packet coap_parse accepts fits coap_packet_t:  *)
(* version 1, at most eight token bytes and as many as tkl says, at most   *)
(* MAXOPT options with eight bit numbers, and nothing but bytes.           *)
(***************************************************************************)
CodecTypeOK == (got # None /\ got.rc = "OK") => got.pkt \in Packet

(***************************************************************************)
(* Building and parsing are inverse: a packet whose options are in order   *)
(* arrives with every field as it was sent, exactly if none of them has    *)
(* 269 bytes or more.  From there on coap_build announces another length   *)
(* than it writes (see lenBytes), as the comment in coap_parseOption fears:*)
(* "These are untested and may be buggy".                                  *)
(***************************************************************************)
RoundTrip ==
    (sent # None /\ got # None /\ Increasing(sent.opts)) =>
        (got = [rc |-> "OK", pkt |-> sent] <=> Short(sent.opts))

(***************************************************************************)
(* What was parsed from any datagram survives being built and parsed       *)
(* again, unless its options are out of order, as they are once a number   *)
(* has lost its ninth bit: coap_build writes a negative distance as 0; or  *)
(* too long.                                                               *)
(***************************************************************************)
StableWhenSorted ==
    (again # None /\ Increasing(got.pkt.opts) /\ Short(got.pkt.opts)) => again = got
=============================================================================
