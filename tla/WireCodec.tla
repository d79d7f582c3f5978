------------------------------ MODULE WireCodec ------------------------------
(***************************************************************************)
(* The parser of inet_diag replies (src/inetdiag/inetdiag.go): Parse       *)
(* checks the netlink message type, splits off the aligned InetDiagMsg     *)
(* header, optionally drops local connections, walks the route attributes *)
(* (ParseRouteAttr) and files each value under its type in an array whose *)
(* length is the largest type seen, clamped to 2 * INET_DIAG_MAX.          *)
(*                                                                         *)
(* A frame's data is a sequence of bytes; the header is HdrSize bytes      *)
(* (the aligned size of InetDiagMsg) whose content the parser does not     *)
(* look at except for the socket's addresses, kept beside the bytes.     *)
(* Multi-byte fields of an rtattr are read in host (little-endian) order. *)
(* Each frame is checked against a reference decoder defined from the      *)
(* encoding, over every frame built from a bounded set of attribute lists. *)
(***************************************************************************)
EXTENDS Integers, Sequences, FiniteSets, Bitwise

CONSTANTS
    HdrSize,    \* rtaAlignOf(sizeof(InetDiagMsg)): 72 on Linux
    AttrTypes,  \* attribute types that occur in the frames
    Values,     \* attribute payloads that occur in the frames
    MaxAttrs,   \* bound on the number of attributes in a frame
    AlignedOnly,\* only frames whose length is a multiple of 4 (NLMSG_ALIGN)
    Addrs,      \* socket addresses: [family, bytes] with 16 bytes (IDiagSrc/Dst)
    NlMsgs,     \* saved netlink messages: [len, type, data]; len may be corrupt
    MaxNlMsgs   \* bound on the number of messages in a replay stream

ASSUME /\ HdrSize \in Nat /\ HdrSize % 4 = 0
       /\ AttrTypes \subseteq 0 .. 255
       /\ Values \subseteq Seq(0 .. 255)
       /\ MaxAttrs \in Nat
       /\ AlignedOnly \in BOOLEAN
       /\ \A a \in Addrs : a.family \in {"AF_INET", "AF_INET6"}
                           /\ a.bytes \in [1 .. 16 -> 0 .. 255]
       /\ \A m \in NlMsgs : m.len \in 0 .. 65535 /\ m.type \in 0 .. 65535
                           /\ m.data \in Seq(0 .. 255)
       /\ MaxNlMsgs \in Nat

SOCK_DIAG_BY_FAMILY == 20
INET_DIAG_INFO      == 2
INET_DIAG_MAX       == 19
SizeofRtAttr        == 4
RTA_ALIGNTO         == 4

Nil == <<"nil">>          \* a nil []byte in the Attributes array

(* Mutant: the alignment rounds down instead of up. *)
RtaAlignOfTruncating(attrlen) == attrlen - (attrlen & (RTA_ALIGNTO - 1))

(* rtaAlignOf: (attrlen + RTA_ALIGNTO - 1) & ^(RTA_ALIGNTO - 1); for a    *)
(* non-negative x, x & ^3 clears the two low bits, that is x - (x & 3).   *)
RtaAlignOf(attrlen) ==
    LET x == attrlen + RTA_ALIGNTO - 1
    IN x - (x & (RTA_ALIGNTO - 1))

(* A little-endian uint16 at position i of b. *)
U16(b, i) == b[i] + 256 * b[i + 1]

(* netlinkRouteAttrAndValue and one iteration of ParseRouteAttr: an       *)
(* rtattr whose Len is below the header size or beyond the remaining      *)
(* bytes is EINVAL; otherwise the value is the Len - 4 bytes after the    *)
(* header and the walk resumes rtaAlignOf(Len) bytes further on; slicing  *)
(* b[alen:] beyond len(b) is a run-time panic.                            *)
RECURSIVE ParseRouteAttr(_)
ParseRouteAttr(b) ==
    IF Len(b) < SizeofRtAttr
    THEN [kind |-> "ok", list |-> <<>>]
    ELSE LET alen == U16(b, 1)
             step == RtaAlignOf(alen)
         IN CASE alen < SizeofRtAttr \/ alen > Len(b) -> [kind |-> "EINVAL"]
              [] step > Len(b) -> [kind |-> "panic"]
              [] OTHER ->
                   LET rest == ParseRouteAttr(SubSeq(b, step + 1, Len(b)))
                       a    == [type |-> U16(b, 3), value |-> SubSeq(b, 5, alen)]
                   IN IF rest.kind = "ok"
                      THEN [kind |-> "ok", list |-> <<a>> \o rest.list]
                      ELSE rest

(* The Attributes array Parse builds from the parsed rtattrs: indexed     *)
(* 0 .. maxAttrType, maxAttrType clamped to 2 * INET_DIAG_MAX, a type     *)
(* above the clamp dropped, a later attribute of a type replacing an      *)
(* earlier one.                                                           *)
(* Mutant: maxAttrType is not clamped. *)
AttributeArrayNoClamp(list) ==
    LET types == {list[k].type : k \in DOMAIN list}
        top   == IF types = {} THEN 0 ELSE
                   CHOOSE t \in types : \A u \in types : t >= u
        last(t) == CHOOSE k \in DOMAIN list :
                     /\ list[k].type = t
                     /\ \A j \in DOMAIN list : list[j].type = t => j <= k
    IN [t \in 0 .. top |-> IF t \in types THEN list[last(t)].value ELSE Nil]

AttributeArray(list) ==
    LET types == {list[k].type : k \in DOMAIN list}
        top   == IF types = {} THEN 0 ELSE
                   CHOOSE t \in types : \A u \in types : t >= u
        maxT  == IF top > 2 * INET_DIAG_MAX THEN 2 * INET_DIAG_MAX ELSE top
        last(t) == CHOOSE k \in DOMAIN list :
                     /\ list[k].type = t
                     /\ \A j \in DOMAIN list : list[j].type = t => j <= k
    IN [t \in 0 .. maxT |-> IF t \in types THEN list[last(t)].value ELSE Nil]

(* splitInetDiagMsg: the bytes after the aligned header, or nothing when *)
(* the data is shorter than the header.                                  *)
SplitInetDiagMsg(data) ==
    IF Len(data) < HdrSize
    THEN [ok |-> FALSE]
    ELSE [ok |-> TRUE, attrBytes |-> SubSeq(data, HdrSize + 1, Len(data))]

(* isIpv6: any of bytes 4 .. 15 (0-based) is non-zero.  ip: the 16 bytes  *)
(* as an IPv6 address, or the first 4 as an IPv4 address (ipv4: To4).   *)
IsIpv6(b) == \E i \in 5 .. 16 : b[i] # 0

Ip(b) == IF IsIpv6(b) THEN b ELSE SubSeq(b, 1, 4)

(* net.IP.To4: a 4-byte address, or the IPv4 part of ::ffff:a.b.c.d.     *)
To4(ip) ==
    CASE Len(ip) = 4 -> ip
      [] /\ \A i \in 1 .. 10 : ip[i] = 0
         /\ ip[11] = 255 /\ ip[12] = 255 -> SubSeq(ip, 13, 16)
      [] OTHER -> <<>>

(* isLocal: IsLoopback, IsLinkLocalUnicast, IsMulticast or IsUnspecified  *)
(* of package net, on the IPv4 form when there is one.                    *)
IsLocal(ip) ==
    LET v4 == To4(ip)
    IN IF v4 # <<>>
       THEN \/ v4[1] = 127
            \/ v4[1] = 169 /\ v4[2] = 254
            \/ v4[1] & 240 = 224
            \/ v4 = <<0, 0, 0, 0>>
       ELSE \/ ip = [i \in 1 .. 16 |-> IF i = 16 THEN 1 ELSE 0]
            \/ ip[1] = 254 /\ ip[2] & 192 = 128
            \/ ip[1] = 255
            \/ \A i \in 1 .. 16 : ip[i] = 0

(* Parse(msg, skipLocal) with skipLocal set, as the collector calls it:  *)
(* a connection with a local source or destination address is skipped.   *)
Parse(fr) ==
    LET split == SplitInetDiagMsg(fr.data)
    IN CASE fr.type # SOCK_DIAG_BY_FAMILY -> [kind |-> "ErrNotType20"]
         [] ~split.ok                     -> [kind |-> "ErrParseFailed"]
         [] IsLocal(Ip(fr.saddr.bytes)) \/ IsLocal(Ip(fr.daddr.bytes)) -> [kind |-> "skipped"]
         [] OTHER ->
           LET r == ParseRouteAttr(split.attrBytes)
           IN IF r.kind = "ok"
              THEN [kind |-> "ok", attrs |-> AttributeArray(r.list)]
              ELSE r

-----------------------------------------------------------------------------
(* LoadNext: read the next netlink message of a replay stream.  The       *)
(* NlMsghdr is 16 bytes read little-endian (Len the first uint32, Type    *)
(* the uint16 after it), then make([]byte, header.Len - 16) is filled by  *)
(* binary.Read.  binary.Read reads with io.ReadFull: no byte left is       *)
(* io.EOF, some but too few is io.ErrUnexpectedEOF.                        *)

SizeofNlMsghdr == 16

U32(b, i) == U16(b, i) + 65536 * U16(b, i + 2)

(* header.Len - uint32(binary.Size(header)) is a uint32 subtraction: below *)
(* 16 it wraps to 2^32 - 16 + Len.  TLC's integers stop at 2^31 - 1, so a *)
(* length n < 0 stands for the wrapped uint32 2^32 + n, larger than any   *)
(* stream.                                                                *)
PayloadLen(len) == len - SizeofNlMsghdr

(* io.ReadFull(rdr, buf) with len(buf) = n, on the bytes s left. *)
ReadFull(s, n) ==
    CASE n = 0                -> [err |-> "nil", got |-> <<>>, rest |-> s]
      [] s = <<>>             -> [err |-> "EOF"]
      [] n < 0 \/ n > Len(s)  -> [err |-> "ErrUnexpectedEOF"]
      [] OTHER -> [err |-> "nil", got |-> SubSeq(s, 1, n), rest |-> SubSeq(s, n + 1, Len(s))]

(* A wrapped length asks for two buffers of about 4 GiB (make, and         *)
(* binary.Read's own); the runtime may die with "out of memory" or may     *)
(* allocate them and go on to read.                                       *)
AllocOutcomes(n) == IF n >= 0 THEN {"ok"} ELSE {"ok", "OutOfMemory"}

(* Mutant: the data length is header.Len, the header not subtracted. *)
LoadNextNoHeaderSub(s) ==
    LET h == ReadFull(s, SizeofNlMsghdr)
    IN IF h.err # "nil" THEN {[err |-> h.err]}
       ELSE LET n == U32(h.got, 1)
                d == ReadFull(h.rest, n)
            IN {IF d.err # "nil" THEN [err |-> d.err]
                ELSE [err |-> "nil", msg |-> [type |-> U16(h.got, 5), data |-> d.got],
                      rest |-> d.rest]}

(* The outcomes LoadNext(rdr) may have on the bytes s left in rdr. *)
LoadNext(s) ==
    LET h == ReadFull(s, SizeofNlMsghdr)
    IN IF h.err # "nil" THEN {[err |-> h.err]}
       ELSE LET n == PayloadLen(U32(h.got, 1))
                d == ReadFull(h.rest, n)
            IN {IF a = "OutOfMemory" THEN [err |-> a]
                ELSE IF d.err # "nil" THEN [err |-> d.err]
                ELSE [err |-> "nil", msg |-> [type |-> U16(h.got, 5), data |-> d.got],
                      rest |-> d.rest] : a \in AllocOutcomes(n)}

(* A replay: LoadNext called until it returns an error; the messages it  *)
(* returned, and that error.                                             *)
RECURSIVE Replay(_)
Replay(s) ==
    UNION {IF r.err # "nil" THEN {[msgs |-> <<>>, end |-> r.err]}
           ELSE {[msgs |-> <<r.msg>> \o t.msgs, end |-> t.end] : t \in Replay(r.rest)}
           : r \in LoadNext(s)}

-----------------------------------------------------------------------------
(* Reference: the encoder the kernel uses (nla_put: a 4-byte header of     *)
(* length and type, the value, zero padding to a multiple of 4), and the  *)
(* frames built from it, whole or cut short.                              *)

Attr == [type : AttrTypes, value : Values]

EncodeAttr(a) ==
    LET n == SizeofRtAttr + Len(a.value)
        pad == (RTA_ALIGNTO - (n % RTA_ALIGNTO)) % RTA_ALIGNTO
    IN <<n % 256, n \div 256, a.type % 256, a.type \div 256>>
       \o a.value \o [k \in 1 .. pad |-> 0]

RECURSIVE Encode(_)
Encode(l) == IF l = <<>> THEN <<>> ELSE EncodeAttr(Head(l)) \o Encode(Tail(l))

AttrLists == UNION {[1 .. n -> Attr] : n \in 0 .. MaxAttrs}

Header == [k \in 1 .. HdrSize |-> 0]

(* A frame of type SOCK_DIAG_BY_FAMILY built from l, keeping the first    *)
(* cut bytes of its attributes, for a socket from address s to d.        *)
Frame(l, cut, s, d) ==
    [type |-> SOCK_DIAG_BY_FAMILY, list |-> l, cut |-> cut, saddr |-> s, daddr |-> d,
     data |-> Header \o SubSeq(Encode(l), 1, cut)]

Cuts(l) == {c \in 0 .. Len(Encode(l)) : AlignedOnly => c % 4 = 0}

(* Whether an address is loopback, link-local unicast, multicast or      *)
(* unspecified, read as the address family of its socket says.           *)
V4Local(v) ==
    \/ v[1] = 127
    \/ v[1] = 169 /\ v[2] = 254
    \/ v[1] \in 224 .. 239
    \/ v = <<0, 0, 0, 0>>

LocalByFamily(a) ==
    LET b == a.bytes
        zero(i, j) == \A k \in i .. j : b[k] = 0
    IN IF a.family = "AF_INET" THEN V4Local(SubSeq(b, 1, 4))
       ELSE \/ zero(1, 15) /\ b[16] \in {0, 1}
            \/ b[1] = 254 /\ b[2] \in 128 .. 191
            \/ b[1] = 255
            \/ zero(1, 10) /\ b[11] = 255 /\ b[12] = 255 /\ V4Local(SubSeq(b, 13, 16))

(* A remote IPv4 endpoint for the frames that are not about addresses.   *)
Remote == CHOOSE a \in Addrs : a.family = "AF_INET" /\ ~LocalByFamily(a)

Frames ==
    UNION {{Frame(l, c, Remote, Remote) : c \in Cuts(l)} : l \in AttrLists}
    \cup {Frame(<<>>, 0, p[1], p[2]) :
            p \in {q \in Addrs \X Addrs : q[1].family = q[2].family}}
    \cup {[Frame(l, Len(Encode(l)), Remote, Remote) EXCEPT !.type = 3] : l \in AttrLists}
    \cup {[Frame(<<>>, 0, Remote, Remote) EXCEPT !.data = SubSeq(Header, 1, k)] :
            k \in 0 .. HdrSize - 1}

(* What Parse must return for a frame, defined from how it was built: a   *)
(* cut at a record boundary yields exactly the records before it, filed  *)
(* by type as AttributeArray files them; a cut inside a record is EINVAL. *)
Expected(fr) ==
    LET bounds == [k \in 0 .. Len(fr.list) |-> Len(Encode(SubSeq(fr.list, 1, k)))]
    IN CASE fr.type # SOCK_DIAG_BY_FAMILY -> [kind |-> "ErrNotType20"]
         [] Len(fr.data) < HdrSize       -> [kind |-> "ErrParseFailed"]
         [] LocalByFamily(fr.saddr) \/ LocalByFamily(fr.daddr) -> [kind |-> "skipped"]
         [] \E j \in DOMAIN bounds : bounds[j] = fr.cut ->
              LET k == CHOOSE j \in DOMAIN bounds : bounds[j] = fr.cut
                  kept == SubSeq(fr.list, 1, k)
                  types == {kept[j].type : j \in DOMAIN kept}
                  top == IF types = {} THEN 0 ELSE CHOOSE t \in types : \A u \in types : t >= u
              IN [kind |-> "ok",
                  attrs |-> [t \in 0 .. IF top > 2 * INET_DIAG_MAX THEN 2 * INET_DIAG_MAX ELSE top |->
                               IF \E j \in DOMAIN kept : kept[j].type = t
                               THEN kept[CHOOSE j \in DOMAIN kept :
                                           kept[j].type = t /\
                                           \A i \in DOMAIN kept : kept[i].type = t => i <= j].value
                               ELSE Nil]]
         [] OTHER -> [kind |-> "EINVAL"]

(* A replay stream as spec 6 describes it: saved messages back to back,  *)
(* each a little-endian NlMsghdr (Len, Type, then zero Flags, Seq, Pid)   *)
(* and Len - 16 bytes of data; the stream may end anywhere, as a file     *)
(* does when its writer stops, and a message may carry a corrupt Len.     *)
LE(x, w) == [k \in 1 .. w |-> (x \div (256 ^ (k - 1))) % 256]

EncodeNl(m) == LE(m.len, 4) \o LE(m.type, 2) \o [k \in 1 .. 10 |-> 0] \o m.data

RECURSIVE EncodeNls(_)
EncodeNls(ms) == IF ms = <<>> THEN <<>> ELSE EncodeNl(Head(ms)) \o EncodeNls(Tail(ms))

Wellformed(m) == m.len = SizeofNlMsghdr + Len(m.data)

NlMsgLists == UNION {[1 .. n -> NlMsgs] : n \in 0 .. MaxNlMsgs}

Streams ==
    UNION {{[written |-> ms, bytes |-> SubSeq(EncodeNls(ms), 1, c)] :
              c \in 0 .. Len(EncodeNls(ms))} : ms \in NlMsgLists}

(* What load_next (spec 4.A) gives, called until it stops: every message  *)
(* written whole before the end of the stream or the first corrupt one,  *)
(* then EOF if the stream ends where a message ends, an error otherwise. *)
ExpectedReplay(st) ==
    LET ms    == st.written
        ends  == [k \in 0 .. Len(ms) |-> Len(EncodeNls(SubSeq(ms, 1, k)))]
        whole == {k \in 0 .. Len(ms) : ends[k] <= Len(st.bytes)
                                        /\ \A j \in 1 .. k : Wellformed(ms[j])}
        k     == CHOOSE k \in whole : \A j \in whole : j <= k
    IN [msgs |-> [j \in 1 .. k |-> [type |-> ms[j].type, data |-> ms[j].data]],
        end  |-> IF ends[k] = Len(st.bytes) THEN "EOF" ELSE "error"]

-----------------------------------------------------------------------------

VARIABLES frame, result, stream, replay
vars == <<frame, result, stream, replay>>

(* The inputs: a frame for Parse, or a stream for a replay by LoadNext.  *)
(* Each initial state checks one of them; the other is the empty frame   *)
(* or the empty stream.                                                   *)
NoFrame  == Frame(<<>>, 0, Remote, Remote)
NoStream == [written |-> <<>>, bytes |-> <<>>]

Init ==
    /\ \/ /\ frame \in Frames
          /\ stream = NoStream
       \/ /\ frame = NoFrame
          /\ stream \in Streams
    /\ result = Parse(frame)
    /\ replay \in Replay(stream.bytes)

(* Parsing and replay are functions of their input: nothing changes. *)
Next == UNCHANGED vars

Spec == Init /\ [][Next]_vars

-----------------------------------------------------------------------------
(* Properties *)

TypeOK ==
    /\ frame.data \in Seq(0 .. 255)
    /\ result.kind \in {"ok", "EINVAL", "panic", "ErrNotType20", "ErrParseFailed", "skipped"}
    /\ result.kind = "ok" =>
         \E n \in 0 .. 2 * INET_DIAG_MAX : DOMAIN result.attrs = 0 .. n
    /\ replay.end \in {"EOF", "ErrUnexpectedEOF", "OutOfMemory"}
    /\ \A k \in DOMAIN replay.msgs : replay.msgs[k].data \in Seq(0 .. 255)

(* Parse agrees with the reference decoder on every frame: whole frames   *)
(* round-trip, frames cut at a record boundary yield the records before  *)
(* the cut, frames cut inside a record are rejected.                     *)
ParseMatchesReference == result = Expected(frame)

(* Parse never panics: a malformed attribute is reported as EINVAL and   *)
(* the frame skipped (spec 4.A and 7), whatever bytes the frame holds.   *)
ParseNeverPanics == result.kind # "panic"

(* A replay of a stream of well-formed messages, cut anywhere, returns    *)
(* exactly the messages written whole before the cut, in order, with      *)
(* their types and data: LoadNext's length arithmetic and its two         *)
(* binary.Read calls never split, merge, skip or invent a message, and a *)
(* stream that ends where a message ends replays to io.EOF.              *)
ReplayReturnsWrittenMessages ==
    (\A k \in DOMAIN stream.written : Wellformed(stream.written[k])) =>
        LET exp == ExpectedReplay(stream)
        IN /\ replay.msgs = exp.msgs
           /\ exp.end = "EOF" => replay.end = "EOF"

(* Spec 4.A and 6: load_next returns a frame, EOF or an error.  A replay  *)
(* ends in EOF only where the stream ends cleanly, and in an error, not a *)
(* crash, on a stream cut inside a message or holding a corrupt length.  *)
ReplayMatchesSpec ==
    LET exp == ExpectedReplay(stream)
    IN /\ replay.msgs = exp.msgs
       /\ (replay.end = "EOF") = (exp.end = "EOF")
       /\ replay.end # "OutOfMemory"

=============================================================================
