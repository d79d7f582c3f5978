------------------------------ MODULE SaverSpec ------------------------------
(***************************************************************************)
(* What the saver promises, per connection, with no channels, marshallers, *)
(* writers or files: every snapshot it observes is absorbed by the         *)
(* significance cache, and a snapshot that is new or significantly        *)
(* different from the one retained, of a valid cookie, of a connection    *)
(* that is tracked or not yet closing, is appended to the connection's    *)
(* log.  Connections stop being tracked once the cache has dropped them   *)
(* or the saver is shutting down.  Nothing is ever removed from a log.    *)
(*                                                                         *)
(* Saver implements this specification: the log of a connection is the   *)
(* lines of its files followed by its queued writes (see ABS in Saver). *)
(***************************************************************************)
EXTENDS Naturals, Sequences, Functions, TLC

CONSTANTS
    Cookies,    \* connection cookies; 0 is invalid
    Snapshots,  \* the snapshots the saver may observe
    FinWait1    \* the first TCP state of a closing connection

VARIABLES
    retained,   \* cookie -> the snapshot the cache retains
    touched,    \* cookies observed in the current cycle
    tracked,    \* connections the saver keeps
    log,        \* cookie -> the snapshots recorded for it, oldest first
    closing     \* the saver is shutting down

avars == <<retained, touched, tracked, log, closing>>

NoneA == [none |-> TRUE]

(* Spec 4.B: a snapshot is worth recording if no snapshot is retained for *)
(* the cookie, or its TCP state or its significant INFO bytes differ.     *)
Worthwhile(m, prev) ==
    \/ prev = NoneA
    \/ prev.state # m.state
    \/ prev.info # m.info

Init ==
    /\ retained = <<>>
    /\ touched = {}
    /\ tracked = {}
    /\ log = [c \in Cookies |-> <<>>]
    /\ closing = FALSE

Observe(m) ==
    LET c    == m.cookie
        prev == IF c \in DOMAIN retained THEN retained[c] ELSE NoneA
        rec  == /\ Worthwhile(m, prev)
                /\ c # 0
                /\ c \in tracked \/ m.state < FinWait1
    IN /\ ~closing
       /\ retained' = c :> m @@ retained
       /\ touched' = touched \cup {c}
       /\ log' = IF rec THEN [log EXCEPT ![c] = Append(@, m)] ELSE log
       /\ tracked' = IF rec THEN tracked \cup {c} ELSE tracked
       /\ UNCHANGED closing

EndCycle ==
    /\ ~closing
    /\ retained' = Restrict(retained, touched)
    /\ touched' = {}
    /\ UNCHANGED <<tracked, log, closing>>

Untrack(c) ==
    /\ c \in tracked
    /\ c \notin DOMAIN retained \/ closing
    /\ tracked' = tracked \ {c}
    /\ UNCHANGED <<retained, touched, log, closing>>

Close ==
    /\ ~closing
    /\ closing' = TRUE
    /\ UNCHANGED <<retained, touched, tracked, log>>

Next ==
    \/ \E m \in Snapshots : Observe(m)
    \/ EndCycle
    \/ \E c \in Cookies : Untrack(c)
    \/ Close

Spec == Init /\ [][Next]_avars

=============================================================================
