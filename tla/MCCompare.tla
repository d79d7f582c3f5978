---------------------------- MODULE MCCompare ----------------------------
(* Model-checking instance of Compare.  The tcp_info layout is scaled     *)
(* down: one byte before last_data_sent (the state and counter fields),  *)
(* one ignored byte (the last_* elapsed times), and from byte 3 on the   *)
(* pmtu and packet/byte counters.  Bytes are 0 or 1.                      *)
EXTENDS Compare

MCStates == {1, 4}   \* ESTABLISHED, FIN_WAIT1

\* INFO values at least as long as the pmtu offset: the kernel always
\* sends a tcp_info that includes pmtu.
MCInfoFull == [1 .. 2 -> {0, 1}] \cup [1 .. 3 -> {0, 1}]

\* INFO values of any length up to 3, as Parse accepts them.
MCInfoAny == UNION {[1 .. n -> {0, 1}] : n \in 0 .. 3}

MCOtherValues == {<<>>, <<0>>, <<1>>}
=============================================================================
