------------------------------ MODULE MCSaver ------------------------------
(* Model-checking instance of Saver: three cookies (one of them the       *)
(* invalid cookie 0) over two marshallers, so that two cookies share a    *)
(* channel and one has its own; channels of one slot, so that the saver   *)
(* blocks on a full channel; a rotation period of one tick.               *)
EXTENDS Saver

MCCookies == {0, 1, 2}
=============================================================================
