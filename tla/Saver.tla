------------------------------- MODULE Saver -------------------------------
(***************************************************************************)
(* The saver of tcp-info (src/saver/saver.go): one saver goroutine that    *)
(* receives batches of parsed snapshots, consults the significance cache,  *)
(* owns the map of live Connections and rotates their files, and          *)
(* NumMarshaller marshaller goroutines, each draining its own bounded     *)
(* task channel and writing to, or closing, the writers named in the      *)
(* tasks.  A connection's tasks are pinned to channel cookie % N.         *)
(*                                                                         *)
(* The environment is the kernel (sockets that open, make progress and    *)
(* close), the collector that hands the saver one dump per cycle, and the *)
(* wall clock.  Data is abstracted: a snapshot is its cookie, TCP state,  *)
(* the significant part of its INET_DIAG_INFO (a small counter) and the   *)
(* cycle in which it was polled; a file is its list of snapshot lines.    *)
(***************************************************************************)
EXTENDS Naturals, Sequences, FiniteSets, SequencesExt, Functions

CONSTANTS
    Cookies,        \* kernel socket cookies (naturals; 0 is the invalid cookie)
    NumMarshaller,  \* number of marshaller goroutines / task channels
    QueueCap,       \* capacity of each task channel (100 in NewSaver)
    AgeLimit,       \* file rotation period in clock ticks (10 minutes in Rotate)
    MaxInfo,        \* bound on the abstract INET_DIAG_INFO counter
    MaxCycles,      \* bound on the number of polling cycles
    MaxTime,        \* bound on the wall clock
    RotateMayFail,  \* whether os.MkdirAll / zstd.NewWriter may return an error
    DumpMayMiss,    \* whether a dump may leave out a live socket
    WriteMayFail    \* whether a marshaller's Writer.Write may return an error

ASSUME /\ Cookies \subseteq Nat
       /\ NumMarshaller \in Nat \ {0}
       /\ QueueCap \in Nat \ {0}
       /\ AgeLimit \in Nat \ {0}
       /\ {MaxInfo, MaxCycles, MaxTime} \subseteq Nat
       /\ {RotateMayFail, DumpMayMiss, WriteMayFail} \subseteq BOOLEAN

(* TCP states as numbered in the kernel (tcp.TCPState). *)
ESTABLISHED == 1
FIN_WAIT1   == 4
TCPStates   == {ESTABLISHED, FIN_WAIT1}

Workers == 0 .. NumMarshaller - 1

(* The channel a cookie's tasks are pinned to: cookie % len(MarshalChans). *)
Pin(c) == c % NumMarshaller

Snapshot == [cookie : Cookies, state : TCPStates, info : 0 .. MaxInfo,
             cyc : 0 .. MaxCycles]
None     == [none |-> TRUE]
FileId   == Cookies \X Nat                 \* <<cookie, Sequence>>: the file name
NoWriter == <<"nil">>
Task     == [msg : Snapshot \cup {None}, w : FileId]   \* msg = None: close w

VARIABLES
    kern,       \* kernel: cookie -> [st, state, info]
    now,        \* wall clock
    chanClosed, \* the collector has closed the batch channel
    spc,        \* saver goroutine's position
    batch,      \* snapshots of the current batch not yet handled
    resid,      \* cookies still to pass to endConn (residual or shutdown)
    cache,      \* significance cache: cookie -> retained snapshot
    touched,    \* cookies updated in the current cycle
    cycles,     \* cache cycle counter
    conns,      \* svr.Connections: cookie -> [seq, exp, w]
    queues,     \* task channel of each marshaller
    qopen,      \* channels not yet closed
    wdone,      \* marshallers that have called wg.Done
    files,      \* FileId -> [open, opened, lines]
    lastDrop    \* history: cookies whose latest snapshot a failed Rotate dropped

kernVars  == <<kern, now>>
saverVars == <<chanClosed, spc, batch, resid, cache, touched, cycles, conns,
               lastDrop>>
vars      == <<kern, now, chanClosed, spc, batch, resid, cache, touched,
                cycles, conns, queues, qopen, wdone, files, lastDrop>>

-----------------------------------------------------------------------------
(* Significance as swapAndQueue decides it: a snapshot is queued when     *)
(* the cache had no previous for it, or when pbtools.Compare (a package   *)
(* not in this repository) returns more than NoMajorChange.  The model    *)
(* abstracts that comparison to the fields it keeps: a changed TCP state   *)
(* or a changed significant INFO counter.                                 *)
(* Mutant: only a state change or a new cookie counts as significant. *)
SignificantStateOnly(m, old) ==
    \/ old = None
    \/ old.state # m.state

Significant(m, old) ==
    \/ old = None
    \/ old.state # m.state
    \/ old.info # m.info

(* cache.Update: mark the cookie touched, retain m, return the previous. *)
Previous(m) == IF m.cookie \in DOMAIN cache THEN cache[m.cookie] ELSE None

CacheUpdate(m) ==
    /\ cache' = m.cookie :> m @@ cache
    /\ touched' = touched \cup {m.cookie}

(* Outcomes of opening a file: MkdirAll or zstd.NewWriter may fail. *)
RotateOutcomes == IF RotateMayFail THEN BOOLEAN ELSE {TRUE}

(* Connection.Rotate, when it succeeds: open <cookie>.<Sequence>, write   *)
(* the header, push Expiration by the age limit, increment Sequence.     *)
Rotated(c, conn) ==
    [conn EXCEPT !.w = <<c, conn.seq>>, !.exp = @ + AgeLimit, !.seq = @ + 1]

OpenFile(c, conn) ==
    files' = <<c, conn.seq>> :> [open |-> TRUE, opened |-> now, lines |-> <<>>]
             @@ files

(* The tail of queue(): rotate if there is no writer, then either go on  *)
(* to send the snapshot task or, if Rotate failed, drop the snapshot.    *)
RotateThenSend(c, conn) ==
    IF conn.w = NoWriter
    THEN \E ok \in RotateOutcomes :
           IF ok THEN /\ conns' = c :> Rotated(c, conn) @@ conns
                      /\ OpenFile(c, conn)
                      /\ spc' = "send"
                      /\ lastDrop' = lastDrop \ {c}
                      /\ UNCHANGED batch
                 ELSE /\ conns' = c :> conn @@ conns
                      /\ batch' = Tail(batch)
                      /\ spc' = "next"
                      /\ lastDrop' = lastDrop \cup {c}
                      /\ UNCHANGED files
    ELSE /\ conns' = c :> conn @@ conns
         /\ spc' = "send"
         /\ lastDrop' = lastDrop \ {c}
         /\ UNCHANGED <<batch, files>>

NewConnection(c) == [seq |-> 0, exp |-> now, w |-> NoWriter]

-----------------------------------------------------------------------------
(* Environment: the kernel's sockets and the clock.  The saver never     *)
(* reads them except through a dump, so between two dumps they take one  *)
(* combined step: a socket may open (already in any state, counters at   *)
(* zero), progress (its TCP state and counters only move forward) or      *)
(* close, and the clock may advance.                                      *)
SockNext(k) ==
    CASE k.st = "unborn" ->
            {k} \cup [st : {"live"}, state : TCPStates, info : {0}]
      [] k.st = "live" ->
            {[k EXCEPT !.st = "gone"]} \cup
            {[k EXCEPT !.state = s, !.info = i] :
                s \in {x \in TCPStates : x >= k.state}, i \in k.info .. MaxInfo}
      [] OTHER -> {k}

KernelStep ==
    /\ \E k \in [Cookies -> UNION {SockNext(kern[c]) : c \in Cookies}] :
          /\ \A c \in Cookies : k[c] \in SockNext(kern[c])
          /\ kern' = k
    /\ now' \in now .. MaxTime

-----------------------------------------------------------------------------
(* The saver goroutine: MessageSaverLoop, swapAndQueue, queue, endConn, Close. *)

(* The collector dumps the live sockets, in any order, and the saver     *)
(* receives the batch.  A netlink dump is not a snapshot of the socket   *)
(* table: with DumpMayMiss a live socket may be left out of a dump.      *)
Dumped(live) == IF DumpMayMiss THEN SUBSET live ELSE {live}

ReceiveBatch ==
    /\ spc = "recv"
    /\ ~chanClosed
    /\ cycles < MaxCycles
    /\ KernelStep
    /\ LET live == {c \in Cookies : kern'[c].st = "live"}
           Snap(c) == [cookie |-> c, state |-> kern'[c].state,
                       info |-> kern'[c].info, cyc |-> cycles]
       IN \E seen \in Dumped(live) : \E order \in SetToSeqs(seen) :
            batch' = [k \in DOMAIN order |-> Snap(order[k])]
    /\ spc' = "next"
    /\ UNCHANGED <<chanClosed, resid, cache, touched, cycles, conns,
                   queues, qopen, wdone, files, lastDrop>>

(* The collector closes the batch channel; the loop exits into Close,    *)
(* which passes every live Connection to endConn.                        *)
CloseChannel ==
    /\ spc = "recv"
    /\ ~chanClosed
    /\ chanClosed' = TRUE
    /\ spc' = "shut"
    /\ resid' = DOMAIN conns
    /\ UNCHANGED <<kernVars, batch, cache, touched, cycles, conns, queues,
                   qopen, wdone, files, lastDrop>>

(* The snapshot is done with: move on to the next one in the batch. *)
NextMessage ==
    /\ batch' = Tail(batch)
    /\ lastDrop' = lastDrop \ {Head(batch).cookie}
    /\ UNCHANGED <<spc, conns, files>>

(* queue(msg), up to its first channel send: reject cookie 0; for an     *)
(* unknown cookie, skip a connection already closing (FIN_WAIT1 or a     *)
(* later state) and otherwise create its Connection; then close the      *)
(* writer if it has expired, or rotate if there is none.  NumMarshaller  *)
(* is at least 1, so ErrNoMarshallers is never returned.                 *)
(* Mutant: a connection first seen already closing is not skipped. *)
QueueStartNoClosingSkip(m) ==
    LET c == m.cookie
        conn == IF c \in DOMAIN conns THEN conns[c] ELSE NewConnection(c)
    IN IF c = 0
       THEN NextMessage
       ELSE IF now > conn.exp /\ conn.w # NoWriter
            THEN /\ conns' = c :> conn @@ conns
                 /\ spc' = "close"
                 /\ UNCHANGED <<batch, files, lastDrop>>
            ELSE RotateThenSend(c, conn)

QueueStart(m) ==
    LET c == m.cookie
        conn == IF c \in DOMAIN conns THEN conns[c] ELSE NewConnection(c)
    IN IF \/ c = 0
          \/ c \notin DOMAIN conns /\ m.state >= FIN_WAIT1
       THEN NextMessage
       ELSE IF now > conn.exp /\ conn.w # NoWriter
            THEN /\ conns' = c :> conn @@ conns
                 /\ spc' = "close"
                 /\ UNCHANGED <<batch, files, lastDrop>>
            ELSE RotateThenSend(c, conn)

(* swapAndQueue for the head of the batch: update the cache, and queue   *)
(* the snapshot if it is new or significantly different.                 *)
SwapAndQueue ==
    /\ spc = "next"
    /\ batch # <<>>
    /\ CacheUpdate(Head(batch))
    /\ IF Significant(Head(batch), Previous(Head(batch)))
       THEN QueueStart(Head(batch))
       ELSE NextMessage
    /\ UNCHANGED <<kernVars, chanClosed, resid, cycles, queues, qopen, wdone>>

(* q <- Task{nil, conn.Writer}; conn.Writer = nil; then Rotate. *)
SendClose ==
    /\ spc = "close"
    /\ LET c == Head(batch).cookie
           q == Pin(c)
       IN /\ Len(queues[q]) < QueueCap
          /\ queues' = [queues EXCEPT ![q] = Append(@, [msg |-> None, w |-> conns[c].w])]
          /\ RotateThenSend(c, [conns[c] EXCEPT !.w = NoWriter])
    /\ UNCHANGED <<kernVars, chanClosed, resid, cache, touched, cycles, qopen,
                   wdone>>

(* Mutant: the send does not wait for room in the channel. *)
SendMsgIgnoresCapacity ==
    /\ spc = "send"
    /\ LET m == Head(batch)
           q == Pin(m.cookie)
       IN queues' = [queues EXCEPT ![q] = Append(@, [msg |-> m, w |-> conns[m.cookie].w])]
    /\ batch' = Tail(batch)
    /\ spc' = "next"
    /\ UNCHANGED <<kernVars, chanClosed, resid, cache, touched, cycles, conns,
                   qopen, wdone, files, lastDrop>>

(* q <- Task{msg, conn.Writer}. *)
SendMsg ==
    /\ spc = "send"
    /\ LET m == Head(batch)
           q == Pin(m.cookie)
       IN /\ Len(queues[q]) < QueueCap
          /\ queues' = [queues EXCEPT ![q] = Append(@, [msg |-> m, w |-> conns[m.cookie].w])]
    /\ batch' = Tail(batch)
    /\ spc' = "next"
    /\ UNCHANGED <<kernVars, chanClosed, resid, cache, touched, cycles, conns,
                   qopen, wdone, files, lastDrop>>

(* cache.EndCycle: the residual is every retained cookie not touched in  *)
(* this cycle; those are dropped from the cache.                         *)
EndCycle ==
    /\ spc = "next"
    /\ batch = <<>>
    /\ resid' = DOMAIN cache \ touched
    /\ cache' = Restrict(cache, touched)
    /\ touched' = {}
    /\ cycles' = cycles + 1
    /\ spc' = "resid"
    /\ UNCHANGED <<kernVars, chanClosed, batch, conns, queues, qopen, wdone,
                   files, lastDrop>>

(* endConn(cookie): if the Connection has a writer, send it a close task *)
(* and delete the Connection; otherwise do nothing.                      *)
(* Mutant: the close task goes to the neighbouring channel. *)
EndConnWrongChannel(c) ==
    IF c \in DOMAIN conns /\ conns[c].w # NoWriter
    THEN /\ Len(queues[Pin(c + 1)]) < QueueCap
         /\ queues' = [queues EXCEPT ![Pin(c + 1)] = Append(@, [msg |-> None, w |-> conns[c].w])]
         /\ conns' = Restrict(conns, DOMAIN conns \ {c})
    ELSE UNCHANGED <<queues, conns>>

(* Mutant: the close task is sent but the Connection is not deleted. *)
EndConnKeepsConnection(c) ==
    IF c \in DOMAIN conns /\ conns[c].w # NoWriter
    THEN /\ Len(queues[Pin(c)]) < QueueCap
         /\ queues' = [queues EXCEPT ![Pin(c)] = Append(@, [msg |-> None, w |-> conns[c].w])]
         /\ UNCHANGED conns
    ELSE UNCHANGED <<queues, conns>>

EndConn(c) ==
    IF c \in DOMAIN conns /\ conns[c].w # NoWriter
    THEN /\ Len(queues[Pin(c)]) < QueueCap
         /\ queues' = [queues EXCEPT ![Pin(c)] = Append(@, [msg |-> None, w |-> conns[c].w])]
         /\ conns' = Restrict(conns, DOMAIN conns \ {c})
    ELSE UNCHANGED <<queues, conns>>

EndConnStep ==
    /\ spc \in {"resid", "shut"}
    /\ \E c \in resid : /\ EndConn(c)
                        /\ resid' = resid \ {c}
    /\ UNCHANGED <<kernVars, chanClosed, spc, batch, cache, touched, cycles,
                   qopen, wdone, files, lastDrop>>

(* The residual loop is over: wait for the next batch.  In Close, every  *)
(* Connection has been passed to endConn: close the channels in order.   *)
EndConnsDone ==
    /\ spc \in {"resid", "shut"}
    /\ resid = {}
    /\ spc' = IF spc = "resid" THEN "recv" ELSE "closechans"
    /\ UNCHANGED <<kernVars, chanClosed, batch, resid, cache, touched, cycles,
                   conns, queues, qopen, wdone, files, lastDrop>>

CloseMarshalChan ==
    /\ spc = "closechans"
    /\ LET i == CHOOSE j \in qopen : \A k \in qopen : j <= k
       IN qopen' = qopen \ {i}
    /\ spc' = IF Cardinality(qopen) = 1 THEN "wait" ELSE "closechans"
    /\ UNCHANGED <<kernVars, chanClosed, batch, resid, cache, touched, cycles,
                   conns, queues, wdone, files, lastDrop>>

(* svr.Done.Wait() returns once every marshaller has called Done. *)
WaitMarshallers ==
    /\ spc = "wait"
    /\ wdone = Workers
    /\ spc' = "done"
    /\ UNCHANGED <<kernVars, chanClosed, batch, resid, cache, touched, cycles,
                   conns, queues, qopen, wdone, files, lastDrop>>

-----------------------------------------------------------------------------
(* A marshaller goroutine: runMarshaller. *)

(* Outcomes of task.Writer.Write: with WriteMayFail the write may fail.  *)
(* json.Marshal's error and Write's error are both discarded, so a       *)
(* failed write loses the line and nothing else changes: the writer      *)
(* stays open and the saver goes on sending it tasks.                    *)
WriteOutcomes == IF WriteMayFail THEN BOOLEAN ELSE {TRUE}

(* Write the snapshot of task t to its file; a closed writer drops it. *)
AppendLine(t) ==
    \E ok \in WriteOutcomes :
        files' = [files EXCEPT ![t.w].lines =
                     IF files[t.w].open /\ ok THEN Append(@, t.msg) ELSE @]

(* Mutant: a close task is consumed without closing the writer. *)
MarshalSkipsClose(i) ==
    /\ queues[i] # <<>>
    /\ LET t == Head(queues[i])
       IN IF t.msg = None
          THEN UNCHANGED files
          ELSE AppendLine(t)
    /\ queues' = [queues EXCEPT ![i] = Tail(@)]
    /\ UNCHANGED <<kernVars, saverVars, qopen, wdone>>

Marshal(i) ==
    /\ queues[i] # <<>>
    /\ LET t == Head(queues[i])
       IN IF t.msg = None
          THEN files' = [files EXCEPT ![t.w].open = FALSE]
          ELSE AppendLine(t)
    /\ queues' = [queues EXCEPT ![i] = Tail(@)]
    /\ UNCHANGED <<kernVars, saverVars, qopen, wdone>>

MarshallerExit(i) ==
    /\ i \notin qopen
    /\ queues[i] = <<>>
    /\ i \notin wdone
    /\ wdone' = wdone \cup {i}
    /\ UNCHANGED <<kernVars, saverVars, queues, qopen, files>>

-----------------------------------------------------------------------------

Init ==
    /\ kern = [c \in Cookies |-> [st |-> "unborn", state |-> ESTABLISHED, info |-> 0]]
    /\ now = 0
    /\ chanClosed = FALSE
    /\ spc = "recv"
    /\ batch = <<>>
    /\ resid = {}
    /\ cache = <<>>
    /\ touched = {}
    /\ cycles = 0
    /\ conns = <<>>
    /\ queues = [i \in Workers |-> <<>>]
    /\ qopen = Workers
    /\ wdone = {}
    /\ files = <<>>
    /\ lastDrop = {}

(* The process has returned from MessageSaverLoop. *)
Terminated ==
    /\ spc = "done"
    /\ UNCHANGED vars

SaverStep ==
    \/ SwapAndQueue \/ SendClose \/ SendMsg \/ EndCycle \/ EndConnStep
    \/ EndConnsDone \/ CloseMarshalChan \/ WaitMarshallers

Next ==
    \/ ReceiveBatch \/ CloseChannel
    \/ SaverStep
    \/ \E i \in Workers : Marshal(i) \/ MarshallerExit(i)
    \/ Terminated

(* The Go scheduler eventually runs every runnable goroutine: the saver  *)
(* and each marshaller are weakly fair.  The kernel, the clock and the   *)
(* collector are not: nothing forces a poll or a shutdown.              *)
Fairness ==
    /\ WF_vars(SaverStep)
    /\ \A i \in Workers : WF_vars(Marshal(i) \/ MarshallerExit(i))

Spec == Init /\ [][Next]_vars /\ Fairness

-----------------------------------------------------------------------------
(* Properties *)

TypeOK ==
    /\ kern \in [Cookies -> [st : {"unborn", "live", "gone"}, state : TCPStates,
                             info : 0 .. MaxInfo]]
    /\ now \in 0 .. MaxTime
    /\ chanClosed \in BOOLEAN
    /\ spc \in {"recv", "next", "close", "send", "resid", "shut", "closechans",
                "wait", "done"}
    /\ batch \in Seq(Snapshot)
    /\ resid \subseteq Cookies
    /\ DOMAIN cache \subseteq Cookies /\ \A c \in DOMAIN cache : cache[c] \in Snapshot
    /\ touched \subseteq DOMAIN cache
    /\ cycles \in 0 .. MaxCycles
    /\ DOMAIN conns \subseteq Cookies
    /\ \A c \in DOMAIN conns : conns[c] \in [seq : Nat, exp : Nat, w : FileId \cup {NoWriter}]
    /\ queues \in [Workers -> Seq(Task)]
    /\ \A i \in Workers : Len(queues[i]) <= QueueCap
    /\ qopen \subseteq Workers /\ wdone \subseteq Workers
    /\ DOMAIN files \subseteq FileId
    /\ \A f \in DOMAIN files :
          files[f] \in [open : BOOLEAN, opened : 0 .. MaxTime, lines : Seq(Snapshot)]
    /\ lastDrop \subseteq Cookies

(* The tasks still queued for file f in channel i, in channel order. *)
TasksFor(f, i) == SelectSeq(queues[i], LAMBDA t : t.w = f)

(* Writer discipline of queue/endConn/runMarshaller: all queued tasks of  *)
(* a file sit in one channel, a close task is the last of them, and the  *)
(* file is still open while any of them is queued.  Otherwise a          *)
(* marshaller can close a file before another one has written the        *)
(* snapshots queued for it, and those snapshots are lost.                 *)
TasksRespectFileLifecycle ==
    \A f \in DOMAIN files :
        /\ Cardinality({i \in Workers : TasksFor(f, i) # <<>>}) <= 1
        /\ \A i \in Workers :
              LET ts == TasksFor(f, i)
              IN /\ ts # <<>> => files[f].open
                 /\ \A k \in DOMAIN ts : ts[k].msg = None => k = Len(ts)

(* Between batches, every Connection the saver keeps is one the cache    *)
(* still retains: a connection reported in the residual of EndCycle has  *)
(* had its Connection removed by endConn.                                *)
ConnectionsFollowCache ==
    spc = "recv" => DOMAIN conns \subseteq DOMAIN cache

(* The snapshots recorded for cookie c, oldest first: the lines of its    *)
(* files in Sequence order, then the writes still queued in its channel.  *)
FilesOf(c) == {f \in DOMAIN files : f[1] = c}

Written(c) ==
    FlattenSeq([k \in 1 .. Cardinality(FilesOf(c)) |-> files[<<c, k - 1>>].lines])

Recorded(c) ==
    LET queued == SelectSeq(queues[Pin(c)],
                            LAMBDA t : t.msg # None /\ t.msg.cookie = c)
    IN Written(c) \o [k \in DOMAIN queued |-> queued[k].msg]

(* Between batches, for every live Connection the newest snapshot on its  *)
(* way to disk has the TCP state and INFO counters of the snapshot the    *)
(* cache retains: no significant change the cache has absorbed is missing *)
(* from the connection's files (swapAndQueue updates the cache before     *)
(* queue decides whether the snapshot is written).                        *)
CacheReflectedOnDisk ==
    spc = "recv" =>
        \A c \in DOMAIN conns :
            /\ c \in DOMAIN cache
            /\ Recorded(c) # <<>>
            /\ Last(Recorded(c)).state = cache[c].state
            /\ Last(Recorded(c)).info = cache[c].info

(* Spec 7: a snapshot that fails to rotate is dropped and the connection *)
(* retries on its next snapshot; spec 4.B: a snapshot is suppressed only  *)
(* when unchanged since the last retained one.  So when the snapshot      *)
(* after a dropped one differs from everything recorded for the           *)
(* connection, swapAndQueue must queue it (or Rotate fails again): it may *)
(* not be dismissed as unchanged because the cache already holds the      *)
(* dropped snapshot, which swapAndQueue stored before queue failed.       *)
ChangedSinceRecorded(m) ==
    \/ Recorded(m.cookie) = <<>>
    \/ Last(Recorded(m.cookie)).state # m.state
    \/ Last(Recorded(m.cookie)).info # m.info

RetryAfterFailedRotate ==
    [][\A c \in lastDrop :
          (SwapAndQueue /\ Head(batch).cookie = c /\ ChangedSinceRecorded(Head(batch)))
          => (spc' \in {"send", "close"} \/ c \in lastDrop')]_vars

(* Saver header comment and spec 4.D: a long-lived connection's file is  *)
(* rotated once it is FileAgeLimit old.  When queue() closes a            *)
(* Connection's writer to rotate, that writer has been open for at least  *)
(* the age limit.                                                          *)
RotationRespectsAge ==
    [][\A c \in DOMAIN conns :
          (/\ conns[c].w # NoWriter
           /\ c \in DOMAIN conns'
           /\ conns'[c].w # conns[c].w)
          => now - files[conns[c].w].opened >= AgeLimit]_vars

(* Once the batch channel is closed, MessageSaverLoop returns after every *)
(* marshaller has drained its channel, and every file it opened is closed. *)
ShutdownDrains ==
    chanClosed ~> (spc = "done" /\ \A f \in DOMAIN files : ~files[f].open)

(* Spec 3: a Connection Record's sequence is never reused after its file *)
(* is closed.  Rotate names the file after the cookie and Sequence, and  *)
(* zstd.NewWriter creates it afresh: no step of the saver or marshallers *)
(* ever takes away a line already written to a file.                     *)
FilesOnlyGrow ==
    [][\A f \in DOMAIN files :
          f \in DOMAIN files' /\ IsPrefix(files[f].lines, files'[f].lines)]_files

-----------------------------------------------------------------------------
(* Refinement: Saver implements SaverSpec.  The cache and the touched set *)
(* are the abstract ones, the tracked connections are svr.Connections,   *)
(* and a connection's log is what is recorded for it, followed by the     *)
(* snapshot queue() is in the middle of sending (swapAndQueue has already *)
(* absorbed it into the cache).                                          *)
InFlight(c) ==
    IF spc \in {"close", "send"} /\ Head(batch).cookie = c
    THEN <<Head(batch)>> ELSE <<>>

ABS == INSTANCE SaverSpec WITH
    Snapshots <- Snapshot,
    FinWait1  <- FIN_WAIT1,
    retained  <- cache,
    tracked   <- DOMAIN conns,
    log       <- [c \in Cookies |-> Recorded(c) \o InFlight(c)],
    closing   <- chanClosed

(* The saver, its channels and its marshallers together behave as the    *)
(* per-connection log of SaverSpec: every snapshot worth recording is     *)
(* appended, in the order the saver saw it, exactly once, to the files of *)
(* its connection, and nothing else is, whatever the marshallers'         *)
(* interleaving and however files are rotated and closed.                *)
SaverImplementsSpec == ABS!Spec

=============================================================================
