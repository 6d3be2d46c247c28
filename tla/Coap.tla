-------------------------------- MODULE Coap --------------------------------
(***************************************************************************)
(* The CoAP library pus/lib/coap/coap.c: parsing and building a packet,    *)
(* finding options, making a response and dispatching a request.           *)
(*                                                                         *)
(* A datagram is a sequence of bytes.  A packet is the record              *)
(*   [ver, t, tkl, code, id, tok, opts, payload]                           *)
(* with tok, payload and every option's val a sequence of bytes.  A result *)
(* carries rc, "OK" or the name of the COAP_ERR_ code.  Option numbers are *)
(* eight bits wide and running deltas sixteen, as declared in coap.h.      *)
(***************************************************************************)
EXTENDS Integers, Sequences, FiniteSets, SequencesExt

CONSTANTS
    MAXOPT,     \* options a coap_packet_t has room for (16)
    BufLen      \* the size of the buffer a packet is built in

ASSUME MAXOPTAssumption == MAXOPT \in Nat \ {0}
ASSUME BufLenAssumption == BufLen \in Nat

Byte == 0 .. 255

\* The library counts the bytes of an option in sixteen bits.
Option == {o \in [num : Byte, val : Seq(Byte)] : Len(o.val) < 65536}

\* What a coap_packet_t can hold that was filled in.
Packet ==
    {p \in [ver : {1}, t : 0 .. 3, tkl : 0 .. 8, code : Byte, id : Byte \X Byte,
            tok : Seq(Byte), opts : Seq(Option), payload : Seq(Byte)] :
        p.tkl = Len(p.tok) /\ Len(p.opts) <= MAXOPT}

PayloadMarker == 255
COAP_OPTION_URI_PATH == 11
COAP_OPTION_CONTENT_FORMAT == 12
COAP_METHOD_GET == 1
COAP_TYPE_ACK == 2
COAP_RSPCODE_CONTENT == 69
COAP_RSPCODE_NOT_FOUND == 132
COAP_CONTENTTYPE_NONE == 65535      \* -1 as uint16_t
COAP_CONTENTTYPE_TEXT_PLAIN == 0

Failure(rc) == [rc |-> rc]

-----------------------------------------------------------------------------
(* Parsing.                                                                *)

(***************************************************************************)
(* The value a nibble of the option header stands for, s being the bytes   *)
(* that follow: 13 and 14 announce one and two more bytes of it.           *)
(***************************************************************************)
Extended(nibble, s) ==
    CASE nibble < 13 -> [rc |-> "OK", v |-> nibble, rest |-> s]
      [] nibble = 13 /\ Len(s) >= 1 -> [rc |-> "OK", v |-> s[1] + 13, rest |-> Tail(s)]
      [] nibble = 14 /\ Len(s) >= 2 ->
            [rc |-> "OK", v |-> (256 * s[1] + s[2] + 269) % 2^16,
             rest |-> SubSeq(s, 3, Len(s))]
      [] nibble = 15 -> Failure("INVALID")
      [] OTHER -> Failure("OPTION_TOO_SHORT_FOR_HEADER")

\* The option at the head of the bytes s, running the number of the one before.
coap_parseOption(s, running) ==
    LET delta == Extended(Head(s) \div 16, Tail(s))
        len   == Extended(Head(s) % 16, delta.rest)
    IN  CASE delta.rc = "INVALID" -> Failure("OPTION_DELTA_INVALID")
          [] delta.rc \notin {"OK", "INVALID"} -> delta
          [] delta.rc = "OK" /\ len.rc = "INVALID" -> Failure("OPTION_LEN_INVALID")
          [] delta.rc = "OK" /\ len.rc \notin {"OK", "INVALID"} -> len
          [] delta.rc = "OK" /\ len.rc = "OK" /\ len.v > Len(len.rest) ->
                Failure("OPTION_TOO_BIG")
          [] OTHER ->
                [rc      |-> "OK",
                 opt     |-> [num |-> (delta.v + running) % 2^8,
                              val |-> SubSeq(len.rest, 1, len.v)],
                 rest    |-> SubSeq(len.rest, len.v + 1, Len(len.rest)),
                 running |-> (running + delta.v) % 2^16]

\* Before the loop over the options: none is read, s is what is left.
noOptions(s) == [rc |-> "OK", opts |-> <<>>, rest |-> s, running |-> 0]

\* One turn of it, unless the bytes or the options have come to their end, or one was bad.
nextOption(p) ==
    IF p.rc # "OK" \/ p.rest = <<>> \/ p.rest[1] = PayloadMarker
    THEN p
    ELSE LET o == coap_parseOption(p.rest, p.running)
         IN  IF o.rc = "OK"
             THEN [rc |-> "OK", opts |-> Append(p.opts, o.opt),
                   rest |-> o.rest, running |-> o.running]
             ELSE Failure(o.rc)

\* The loop after each number of turns.
optionLoop(s) ==
    LET loop[n \in Nat] == IF n = 0 THEN noOptions(s) ELSE nextOption(loop[n - 1])
    IN  loop

\* Mistake: room for one more option than there is.
tooManyTurns == MAXOPT + 1

\* The loop ends when the packet has no room for another option.
turns == MAXOPT

parseOptions(s) == optionLoop(s)[turns]

\* Mistake: the marker is taken for the first byte of the payload.
payloadWithMarker(s) ==
    IF Len(s) > 1 /\ s[1] = PayloadMarker THEN s ELSE <<>>

\* What follows the marker; a marker at the very end announces nothing.
payloadOf(s) ==
    IF Len(s) > 1 /\ s[1] = PayloadMarker THEN Tail(s) ELSE <<>>

coap_parseHeader(buf) ==
    CASE Len(buf) < 4 -> Failure("HEADER_TOO_SHORT")
      [] Len(buf) >= 4 /\ buf[1] \div 64 # 1 -> Failure("VERSION_NOT_1")
      [] OTHER -> [rc   |-> "OK",
                   ver  |-> 1,
                   t    |-> (buf[1] \div 16) % 4,
                   tkl  |-> buf[1] % 16,
                   code |-> buf[2],
                   id   |-> <<buf[3], buf[4]>>]

coap_parseToken(hdr, buf) ==
    IF hdr.tkl > 8 \/ 4 + hdr.tkl > Len(buf)
    THEN Failure("TOKEN_TOO_SHORT")
    ELSE [rc |-> "OK", tok |-> SubSeq(buf, 5, 4 + hdr.tkl)]

coap_parse(buf) ==
    LET hdr == coap_parseHeader(buf)
        tok == coap_parseToken(hdr, buf)
        os  == parseOptions(SubSeq(buf, 5 + hdr.tkl, Len(buf)))
    IN  IF hdr.rc # "OK" THEN hdr
        ELSE IF tok.rc # "OK" THEN tok
        ELSE IF os.rc # "OK" THEN os
        ELSE [rc  |-> "OK",
              pkt |-> [ver |-> hdr.ver, t |-> hdr.t, tkl |-> hdr.tkl, code |-> hdr.code,
                       id |-> hdr.id, tok |-> tok.tok, opts |-> os.opts,
                       payload |-> payloadOf(os.rest)]]

-----------------------------------------------------------------------------
(* Building.                                                               *)

(***************************************************************************)
(* A value larger than two bytes can say leaves the caller's nibble as it  *)
(* was, which is 0 for a delta.  A negative difference is such a value: it *)
(* is taken as uint32_t.                                                   *)
(***************************************************************************)
coap_option_nibble(value) ==
    CASE 0 <= value /\ value < 13 -> value
      [] 13 <= value /\ value <= 255 + 13 -> 13
      [] 255 + 13 < value /\ value <= 65535 + 269 -> 14
      [] OTHER -> 0

deltaBytes(d) ==
    CASE coap_option_nibble(d) = 13 -> <<d - 13>>
      [] coap_option_nibble(d) = 14 -> <<(d - 269) \div 256, (d - 269) % 256>>
      [] OTHER -> <<>>

\* The first byte of a 16 bit length is taken before 269 is subtracted.
lenBytes(l) ==
    CASE coap_option_nibble(l) = 13 -> <<l - 13>>
      [] coap_option_nibble(l) = 14 -> <<(l \div 256) % 256, (l - 269) % 256>>
      [] OTHER -> <<>>

\* Mistake: the number itself is written where its distance to the last one belongs.
optionBytesAbsolute(o, running) ==
    <<16 * coap_option_nibble(o.num) + coap_option_nibble(Len(o.val))>>
        \o deltaBytes(o.num) \o lenBytes(Len(o.val)) \o o.val

optionBytes(o, running) ==
    LET d == o.num - running
    IN  <<16 * coap_option_nibble(d) + coap_option_nibble(Len(o.val))>>
            \o deltaBytes(d) \o lenBytes(Len(o.val)) \o o.val

\* One turn of the loop over the options; the size is looked at before it.
addOption(b, o, buflen) ==
    IF b.rc # "OK" \/ Len(b.buf) > buflen
    THEN Failure("BUFFER_TOO_SMALL")
    ELSE [rc |-> "OK", buf |-> b.buf \o optionBytes(o, b.running), running |-> o.num]

\* The header and the token.
headBytes(pkt) ==
    <<64 * (pkt.ver % 4) + 16 * (pkt.t % 4) + (pkt.tkl % 16), pkt.code, pkt.id[1], pkt.id[2]>>
        \o SubSeq(pkt.tok, 1, pkt.tkl)

\* Before the loop over the options: the header and the token are written.
headOf(pkt) == [rc |-> "OK", buf |-> headBytes(pkt), running |-> 0]

\* The loop after i of the options.
buildLoop(buflen, pkt) ==
    LET loop[i \in Nat] ==
            IF i = 0 THEN headOf(pkt) ELSE addOption(loop[i - 1], pkt.opts[i], buflen)
    IN  loop

coap_build(buflen, pkt) ==
    LET b == buildLoop(buflen, pkt)[Len(pkt.opts)]
        n == Len(pkt.payload)
    IN  CASE buflen < 4 + pkt.tkl -> Failure("BUFFER_TOO_SMALL")
          [] buflen >= 4 + pkt.tkl /\ pkt.tkl > 0 /\ pkt.tkl # Len(pkt.tok) ->
                Failure("UNSUPPORTED")
          [] OTHER ->
                IF b.rc # "OK" \/ (n > 0 /\ buflen < Len(b.buf) + 1 + n)
                THEN Failure("BUFFER_TOO_SMALL")
                ELSE [rc  |-> "OK",
                      buf |-> IF n > 0 THEN Append(b.buf, PayloadMarker) \o pkt.payload
                                       ELSE b.buf]

-----------------------------------------------------------------------------
(* Dispatching.                                                            *)

\* The first block of consecutive options numbered num, at most up to the end.
coap_findOptions(pkt, num) ==
    LET found == {i \in DOMAIN pkt.opts : pkt.opts[i].num = num}
        first == Min(found)
        after == Min({i \in first .. Len(pkt.opts) + 1 : i \notin found})
    IN  IF found = {} THEN <<>> ELSE SubSeq(pkt.opts, first, after - 1)

\* The two bytes of the content type are an option even for the type NONE.
coap_make_response(content, id, tok, rspcode, content_type) ==
    [ver     |-> 1,
     t       |-> COAP_TYPE_ACK,
     tkl     |-> Len(tok) % 2^8,
     code    |-> rspcode,
     id      |-> id,
     tok     |-> tok,
     opts    |-> <<[num |-> COAP_OPTION_CONTENT_FORMAT,
                    val |-> <<content_type \div 256, content_type % 256>>]>>,
     payload |-> content]

\* Does the endpoint [method, path, ...] serve this request?
matches(ep, inpkt) ==
    LET path == coap_findOptions(inpkt, COAP_OPTION_URI_PATH)
    IN  /\ ep.method = inpkt.code
        /\ path # <<>>
        /\ Len(path) = Len(ep.path)
        /\ \A i \in DOMAIN path : path[i].val = ep.path[i]

-----------------------------------------------------------------------------
(* What the properties say of options.                                     *)

\* Options whose length takes no two bytes to announce.
Short(opts) == \A i \in DOMAIN opts : Len(opts[i].val) < 269

Increasing(opts) == \A i \in 1 .. Len(opts) - 1 : opts[i].num <= opts[i + 1].num
=============================================================================
