------------------------------- MODULE Compare -------------------------------
(***************************************************************************)
(* Change classification (src/inetdiag/inetdiag.go, ParsedMessage.Compare):*)
(* the pure function the saver uses to decide whether a snapshot differs   *)
(* enough from the one the cache retained to be written.                  *)
(*                                                                         *)
(* A parsed message is its raw InetDiagMsg header, abstracted to the TCP   *)
(* state it holds or to a header too short for RawInetDiagMsg.Parse, and   *)
(* its Attributes array: a function from 0 .. len-1 to a byte sequence or *)
(* Nil, as Parse builds it (an empty value is not nil).  INET_DIAG_INFO   *)
(* values are short byte sequences; the offsets of tcp_info's             *)
(* last_data_sent and pmtu fields (44 and 60 in syscall.TCPInfo) are the  *)
(* constants LastDataSentOffset and PmtuOffset.  Slicing or indexing out  *)
(* of range is a Go run-time panic, modelled as the result "panic".      *)
(***************************************************************************)
EXTENDS Naturals, Sequences, FiniteSets

CONSTANTS
    States,             \* TCP states the headers carry
    LastDataSentOffset, \* unsafe.Offsetof(syscall.TCPInfo{}.Last_data_sent)
    PmtuOffset,         \* unsafe.Offsetof(syscall.TCPInfo{}.Pmtu)
    InfoValues,         \* INET_DIAG_INFO payloads
    OtherValues,        \* payloads of the other attributes
    AttrLens            \* lengths of the Attributes arrays

ASSUME /\ LastDataSentOffset \in Nat /\ PmtuOffset \in Nat
       /\ LastDataSentOffset < PmtuOffset
       /\ AttrLens \subseteq Nat \ {0}

INET_DIAG_INFO == 2

(* An attribute slot is Nil or a record holding the value's bytes.     *)
Nil      == [nil |-> TRUE]          \* a nil RouteAttrValue
Val(bs)  == [val |-> bs]            \* a RouteAttrValue holding bytes bs
None     == [none |-> TRUE]         \* a nil *ParsedMessage (no previous snapshot)
ShortHdr == 0                       \* a RawIDM shorter than the aligned InetDiagMsg
                                    \* (0 is not a TCP state)

(* RawInetDiagMsg.Parse: fails on a header shorter than the aligned size. *)
RawIDMParse(raw) == IF raw = ShortHdr THEN [ok |-> FALSE]
                    ELSE [ok |-> TRUE, IDiagState |-> raw]

(* The ChangeType values, and the error Compare returns beside one. *)
ChangeTypes == {"NoMajorChange", "IDiagStateChange", "NoTCPInfo", "NewAttribute",
                "LostAttribute", "AttributeLength", "StateOrCounterChange",
                "PacketCountChange", "PreviousWasNil", "Other"}

ArrLen(attrs) == Cardinality(DOMAIN attrs)

(* bytes.Compare(a[pmtuOffset:], b[pmtuOffset:]) and, if those are equal, *)
(* bytes.Compare(a[:lastDataSentOffset], b[:lastDataSentOffset]); the    *)
(* caller has checked that both values are at least PmtuOffset long.     *)
(* Mutant: the tail is compared from last_data_sent instead of pmtu. *)
InfoChangedFromLastDataSent(a, b) ==
    \/ SubSeq(a, LastDataSentOffset + 1, Len(a)) # SubSeq(b, LastDataSentOffset + 1, Len(b))
    \/ SubSeq(a, 1, LastDataSentOffset) # SubSeq(b, 1, LastDataSentOffset)

InfoChanged(a, b) ==
    \/ SubSeq(a, PmtuOffset + 1, Len(a)) # SubSeq(b, PmtuOffset + 1, Len(b))
    \/ SubSeq(a, 1, LastDataSentOffset) # SubSeq(b, 1, LastDataSentOffset)

(* The loop over previous.Attributes from index tp on, in index order:   *)
(* INET_DIAG_INFO is skipped, pm.Attributes[tp] is indexed without a     *)
(* bounds check, and the first difference decides.                       *)
RECURSIVE CompareAttrs(_, _, _)
CompareAttrs(pm, previous, tp) ==
    IF tp >= ArrLen(previous.attrs) THEN "NoMajorChange"
    ELSE IF tp = INET_DIAG_INFO THEN CompareAttrs(pm, previous, tp + 1)
    ELSE IF tp >= ArrLen(pm.attrs) THEN "panic"
    ELSE LET a == previous.attrs[tp]
             b == pm.attrs[tp]
         IN CASE a = Nil /\ b # Nil   -> "NewAttribute"
              [] a # Nil /\ b = Nil   -> "LostAttribute"
              [] a = Nil /\ b = Nil   -> CompareAttrs(pm, previous, tp + 1)
              [] Len(a.val) # Len(b.val) -> "AttributeLength"
              [] a # b                -> "Other"
              [] OTHER                -> CompareAttrs(pm, previous, tp + 1)

(* pm.Compare(previous), in the order of its early returns. *)
Compare(pm, previous) ==
    IF previous = None THEN "PreviousWasNil"
    ELSE LET prevIDM == RawIDMParse(previous.raw)
             pmIDM   == RawIDMParse(pm.raw)
         IN CASE ~prevIDM.ok \/ ~pmIDM.ok -> "ErrParseFailed"
              [] prevIDM.IDiagState # pmIDM.IDiagState -> "IDiagStateChange"
              [] INET_DIAG_INFO >= ArrLen(previous.attrs)
                   \/ INET_DIAG_INFO >= ArrLen(pm.attrs) -> "panic"
              [] OTHER ->
                LET a == previous.attrs[INET_DIAG_INFO]
                    b == pm.attrs[INET_DIAG_INFO]
                IN CASE a = Nil \/ b = Nil -> "NoTCPInfo"
                     [] PmtuOffset > Len(a.val) \/ PmtuOffset > Len(b.val) -> "panic"
                     [] InfoChanged(a.val, b.val) -> "StateOrCounterChange"
                     [] OTHER -> CompareAttrs(pm, previous, 0)

-----------------------------------------------------------------------------
(* Reference: the classification rules of the specification (4.B), stated *)
(* over which attributes are present and which bytes differ, with no      *)
(* arrays or slices.  An attribute outside the array is absent.           *)

Present(m, t) == t \in DOMAIN m.attrs /\ m.attrs[t] # Nil

(* Byte i of an INFO value lies outside [last_data_sent, pmtu).          *)
Outside(i) == i <= LastDataSentOffset \/ i > PmtuOffset

ByteAt(v, i) == IF i <= Len(v) THEN v[i] ELSE 256   \* 256: no byte there

InfoDiffers(a, b) ==
    \E i \in 1 .. Len(a) + Len(b) : Outside(i) /\ ByteAt(a, i) # ByteAt(b, i)

AttrChange(p, c, t) ==
    CASE ~Present(p, t) /\ Present(c, t) -> "NewAttribute"
      [] Present(p, t) /\ ~Present(c, t) -> "LostAttribute"
      [] Present(p, t) /\ Len(p.attrs[t].val) # Len(c.attrs[t].val) -> "AttributeLength"
      [] Present(p, t) /\ p.attrs[t] # c.attrs[t] -> "Other"
      [] OTHER -> "NoMajorChange"

SpecClassify(cur, prev) ==
    LET tags    == (DOMAIN prev.attrs \cup DOMAIN cur.attrs) \ {INET_DIAG_INFO}
        changed == {t \in tags : AttrChange(prev, cur, t) # "NoMajorChange"}
    IN CASE prev = None -> "PreviousWasNil"
         [] prev.raw = ShortHdr \/ cur.raw = ShortHdr -> "ErrParseFailed"
         [] prev.raw # cur.raw -> "IDiagStateChange"
         [] ~Present(prev, INET_DIAG_INFO) \/ ~Present(cur, INET_DIAG_INFO) -> "NoTCPInfo"
         [] InfoDiffers(prev.attrs[INET_DIAG_INFO].val, cur.attrs[INET_DIAG_INFO].val)
              -> "StateOrCounterChange"
         [] changed # {} ->
              AttrChange(prev, cur, CHOOSE t \in changed : \A u \in changed : t <= u)
         [] OTHER -> "NoMajorChange"

-----------------------------------------------------------------------------
(* The inputs: every pair of messages built from the constants.  Type 0  *)
(* (INET_DIAG_NONE) is never sent by the kernel, so slot 0 is always nil. *)

SlotValues(t) ==
    CASE t = 0 -> {Nil}
      [] t = INET_DIAG_INFO -> {Val(v) : v \in InfoValues} \cup {Nil}
      [] OTHER -> {Val(v) : v \in OtherValues} \cup {Nil}

AttrArrays ==
    UNION {{f \in [0 .. n - 1 -> UNION {SlotValues(t) : t \in 0 .. n - 1}] :
              \A t \in 0 .. n - 1 : f[t] \in SlotValues(t)} : n \in AttrLens}

Messages == [raw : States \cup {ShortHdr}, attrs : AttrArrays]

VARIABLES pm, previous, result
vars == <<pm, previous, result>>

Init ==
    /\ pm \in Messages
    /\ previous \in Messages \cup {None}
    /\ result = Compare(pm, previous)

(* Compare is a function of its inputs: nothing changes after it. *)
Next == UNCHANGED vars

Spec == Init /\ [][Next]_vars

-----------------------------------------------------------------------------
(* Properties *)

(* Compare returns what the specification's rules (4.B) give for every   *)
(* pair of snapshots: the state check before the INFO check, INFO bytes  *)
(* in [last_data_sent, pmtu) ignored and any other INFO byte, including  *)
(* trailing bytes, significant, then the first attribute tag whose       *)
(* presence, length or bytes differ.                                      *)
CompareMatchesSpec == result = SpecClassify(pm, previous)

(* Compare never panics on messages Parse can produce.  Spec 4.B: a       *)
(* snapshot that lacks an INFO attribute classifies as NoInfo and other  *)
(* attributes are compared by presence; a panic in Compare ends the      *)
(* saver goroutine, which swapAndQueue calls it from.                    *)
CompareNeverPanics == result # "panic"

(* A snapshot Compare reports as NoMajorChange is one the specification  *)
(* also finds unchanged: swapAndQueue drops NoMajorChange snapshots, so  *)
(* a missed difference is a change never written to disk.                *)
NoSignificantChangeMissed ==
    result = "NoMajorChange" => SpecClassify(pm, previous) = "NoMajorChange"

=============================================================================
