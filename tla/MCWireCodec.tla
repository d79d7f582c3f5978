---------------------------- MODULE MCWireCodec ----------------------------
(* Model-checking instance of WireCodec.  The header is shortened to 4    *)
(* bytes: Parse only compares its length with the frame's.  Types 1 and  *)
(* 2 (INET_DIAG_INFO) are kept, 39 lies above the 2 * INET_DIAG_MAX      *)
(* clamp; payloads of 0, 1 and 5 bytes give rtattr lengths of 4, 5 and 9, *)
(* that is no padding, three bytes and three bytes of padding.           *)
EXTENDS WireCodec

MCAttrTypes == {1, 2, 39}
MCValues == {<<>>, <<5>>, <<5, 6, 7, 8, 9>>}

\* A 16-byte IDiagSrc/IDiagDst: the given leading bytes, zeros, and the
\* given trailing bytes.
A16(head, tail) ==
    [i \in 1 .. 16 |-> CASE i <= Len(head) -> head[i]
                         [] i > 16 - Len(tail) -> tail[i - (16 - Len(tail))]
                         [] OTHER -> 0]

\* The kernel fills an AF_INET address into the first 4 bytes and zeroes
\* the rest.  The IPv6 addresses are unicast with a non-zero interface
\* identifier, or ::1, ::, or IPv4-mapped.
MCAddrs ==
    {[family |-> "AF_INET", bytes |-> A16(v, <<>>)] :
        v \in {<<10, 0, 0, 1>>, <<127, 0, 0, 1>>, <<169, 254, 1, 1>>,
              <<224, 0, 0, 1>>, <<0, 0, 0, 0>>}}
    \cup
    {[family |-> "AF_INET6", bytes |-> A16(h, t)] :
        <<h, t>> \in {<<<<32, 1, 13, 184>>, <<1>>>>,           \* 2001:db8::1
                      <<<<>>, <<1>>>>,                         \* ::1
                      <<<<254, 128>>, <<1>>>>,                 \* fe80::1
                      <<<<>>, <<>>>>,                          \* ::
                      <<<<>>, <<255, 255, 127, 0, 0, 1>>>>,    \* ::ffff:127.0.0.1
                      <<<<>>, <<255, 255, 10, 0, 0, 1>>>>}}    \* ::ffff:10.0.0.1

\* Saved messages: SOCK_DIAG_BY_FAMILY messages with no data and with 4
\* bytes of data, and a zeroed header (Len 0), as a file holds where its
\* writer reserved space it never filled.
MCNlMsgs ==
    {[len |-> 16, type |-> 20, data |-> <<>>],
     [len |-> 20, type |-> 20, data |-> <<1, 2, 3, 4>>],
     [len |-> 0, type |-> 0, data |-> <<>>]}
=============================================================================
