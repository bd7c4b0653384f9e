----------------------------- MODULE ExecEvents -----------------------------
(***************************************************************************)
(* How the output and the end of one remote process travel from the exec   *)
(* server to its two consumers (exec-server/src/local_process.rs, client.rs *)
(* and process.rs; rmcp-client/src/executor_process_transport.rs;          *)
(* core/src/unified_exec/process.rs).                                      *)
(*                                                                         *)
(* On the server three tasks per process, one per output stream and one    *)
(* that waits for the exit, number their events under the lock of the      *)
(* process map and send the notification after it, so notifications can be *)
(* sent out of order.  The client puts them back in order and publishes    *)
(* them to a bounded broadcast log; output is also retained on the server, *)
(* up to a bound, for process/read.  The MCP transport follows the log and *)
(* reads after it lagged; unified exec only reads, whenever it is woken.   *)
(*                                                                         *)
(* A process has one of the two consumers.                                 *)
(*                                                                         *)
(* An event is its sequence number; 0 stands for the Failed event, which   *)
(* has none.  A chunk counts as one unit of retained output.               *)
(***************************************************************************)
EXTENDS Integers, FiniteSets, Sequences, SequencesExt

CONSTANTS
    Streams,    \* the output streams of the process
    Exit,       \* the task that waits for the exit
    MaxChunks,  \* bound on the chunks of a stream
    RetainCap,  \* RETAINED_OUTPUT_BYTES_PER_PROCESS, in chunks
    EventCap,   \* PROCESS_EVENT_CHANNEL_CAPACITY
    ChanCap     \* capacity of the connection's outgoing channel

ASSUME EventsAssumption ==
    /\ IsFiniteSet(Streams) /\ Exit \notin Streams
    /\ MaxChunks \in Nat
    /\ RetainCap \in Nat \ {0} /\ EventCap \in Nat \ {0} /\ ChanCap \in Nat \ {0}

Tasks == Streams \cup {Exit}

VARIABLES
    present,   \* the process is in the server's map
    ev,        \* ev[k] is the event with sequence number k
    output,    \* RunningProcess.output: the retained chunks, oldest first
    open,      \* RunningProcess.open_streams
    exited,    \* RunningProcess.exit_code is set
    closed,    \* RunningProcess.closed
    task,      \* the server's tasks: program counter, event to send, chunks left
    up,        \* the connection is up
    chan,      \* notifications on their way, in order of sending
    routed,    \* the client routes notifications to this process
    lastPub,   \* OrderedSessionEvents.last_published_seq
    pending,   \* OrderedSessionEvents.pending
    failure,   \* SessionState.failure is set
    wake,      \* the wake channel has a change that unified exec has not seen
    hist,      \* ExecProcessEventHistory.events
    mcp,       \* the MCP transport
    uni        \* the output task of unified exec

server == <<present, ev, output, open, exited, closed, task>>
client == <<routed, lastPub, pending, failure, wake, hist>>
vars == <<server, up, chan, client, mcp, uni>>

Failed == 0
nextSeq == Len(ev) + 1
NoResponse == [chunks |-> <<>>, next |-> 0, closed |-> FALSE, gone |-> {}]

Outputs(n) == {k \in 1 .. n : k <= Len(ev) /\ ev[k] = "output"}
Evicted == Outputs(Len(ev)) \ Range(output)

Init ==
    /\ present = TRUE /\ ev = <<>> /\ output = <<>>
    /\ open = Cardinality(Streams)
    /\ exited = FALSE /\ closed = FALSE
    /\ task = [x \in Tasks |-> [pc |-> "wait", seq |-> 0, left |-> MaxChunks]]
    /\ up = TRUE /\ chan = <<>>
    /\ routed = TRUE /\ lastPub = 0 /\ pending = {}
    /\ failure = FALSE /\ wake = FALSE /\ hist = <<>>
    /\ \E c \in {"mcp", "uni"} :
         /\ mcp = [pc |-> IF c = "mcp" THEN "start" ELSE "done", replay |-> <<>>,
                   queue |-> <<>>, lagged |-> FALSE, missed |-> {}, last |-> 0,
                   got |-> <<>>, resp |-> NoResponse,
                   end |-> IF c = "mcp" THEN "none" ELSE "absent"]
         /\ uni = [pc |-> IF c = "uni" THEN "read" ELSE "done", cur |-> 0,
                   missed |-> {}, got |-> <<>>, resp |-> NoResponse,
                   end |-> IF c = "uni" THEN "none" ELSE "absent"]

-----------------------------------------------------------------------------
(* The server's tasks.                                                     *)
Goto(x, pc) == [task EXCEPT ![x].pc = pc]
(* Slip: one more than the bound is kept.                                  *)
BoundedOffByOne(s, cap) == IF Len(s) > cap + 1 THEN Tail(s) ELSE s
Bounded(s, cap) == IF Len(s) > cap THEN Tail(s) ELSE s

(* stream_output, under the lock: number the chunk and retain it.          *)
StreamOutput(s) ==
    /\ task[s].pc = "wait" /\ task[s].left > 0
    /\ IF present
       THEN /\ ev' = Append(ev, "output")
            /\ output' = Bounded(Append(output, nextSeq), RetainCap)
            /\ task' = [task EXCEPT ![s] = [pc |-> "notify", seq |-> nextSeq, left |-> @.left - 1]]
       ELSE task' = Goto(s, "done") /\ UNCHANGED <<ev, output>>
    /\ UNCHANGED <<present, open, exited, closed, up, chan, client, mcp, uni>>

(* watch_exit, under the lock.                                             *)
WatchExit ==
    /\ task[Exit].pc = "wait"
    /\ IF present
       THEN /\ exited' = TRUE
            /\ ev' = Append(ev, "exited")
            /\ task' = [task EXCEPT ![Exit].pc = "notify", ![Exit].seq = nextSeq]
       ELSE task' = Goto(Exit, "emit") /\ UNCHANGED <<exited, ev>>
    /\ UNCHANGED <<present, output, open, closed, up, chan, client, mcp, uni>>

(* After the lock: send what was numbered, unless the session has no       *)
(* connection.  The channel holds the sender back when it is full.         *)
Notify(x) ==
    /\ task[x].pc \in {"notify", "notifyClosed"}
    /\ up => Len(chan) < ChanCap
    /\ chan' = IF up THEN Append(chan, task[x].seq) ELSE chan
    /\ task' = [task EXCEPT ![x].seq = 0,
                            ![x].pc = IF task[x].pc = "notifyClosed" THEN "done"
                                      ELSE IF x = Exit THEN "emit" ELSE "wait"]
    /\ UNCHANGED <<present, ev, output, open, exited, closed, up, client, mcp, uni>>

(* Slip: every stream that ends is counted twice.                          *)
FinishOutputStreamTwice(s) ==
    /\ task[s].pc = "wait"
    /\ task' = [task EXCEPT ![s].pc = IF present THEN "emit" ELSE "done", ![s].left = 0]
    /\ open' = IF present THEN (IF open > 1 THEN open - 2 ELSE 0) ELSE open
    /\ UNCHANGED <<present, ev, output, exited, closed, up, chan, client, mcp, uni>>

(* The stream ends, at any chunk: finish_output_stream, under the lock.    *)
FinishOutputStream(s) ==
    /\ task[s].pc = "wait"
    /\ task' = [task EXCEPT ![s].pc = IF present THEN "emit" ELSE "done", ![s].left = 0]
    /\ open' = IF present /\ open > 0 THEN open - 1 ELSE open
    /\ UNCHANGED <<present, ev, output, exited, closed, up, chan, client, mcp, uni>>

(* maybe_emit_closed: the last of the three tasks closes the process.      *)
(* Slip: the streams that are still open are forgotten.                    *)
MaybeEmitClosedEarly(x) ==
    /\ task[x].pc = "emit"
    /\ IF present /\ ~closed /\ exited
       THEN /\ closed' = TRUE
            /\ ev' = Append(ev, "closed")
            /\ task' = [task EXCEPT ![x].pc = "notifyClosed", ![x].seq = nextSeq]
       ELSE task' = Goto(x, "done") /\ UNCHANGED <<closed, ev>>
    /\ UNCHANGED <<present, output, open, exited, up, chan, client, mcp, uni>>

MaybeEmitClosed(x) ==
    /\ task[x].pc = "emit"
    /\ IF present /\ ~closed /\ open = 0 /\ exited
       THEN /\ closed' = TRUE
            /\ ev' = Append(ev, "closed")
            /\ task' = [task EXCEPT ![x].pc = "notifyClosed", ![x].seq = nextSeq]
       ELSE task' = Goto(x, "done") /\ UNCHANGED <<closed, ev>>
    /\ UNCHANGED <<present, output, open, exited, up, chan, client, mcp, uni>>

(* The process leaves the map: EXITED_PROCESS_RETENTION has passed since   *)
(* it was closed, or the session expired without a connection and its      *)
(* processes are shut down.                                                *)
RemoveClosed ==
    /\ present /\ closed
    /\ present' = FALSE
    /\ UNCHANGED <<ev, output, open, exited, closed, task, up, chan, client, mcp, uni>>

ShutdownSession ==
    /\ present /\ ~up
    /\ present' = FALSE
    /\ UNCHANGED <<ev, output, open, exited, closed, task, up, chan, client, mcp, uni>>

-----------------------------------------------------------------------------
(* The connection is lost: what is still on its way may be lost with it.   *)
Disconnect ==
    /\ up
    /\ up' = FALSE
    /\ \E n \in 0 .. Len(chan) : chan' = SubSeq(chan, 1, n)
    /\ UNCHANGED <<server, client, mcp, uni>>

(* ExecProcessEventLog::publish, for events in a row: the history and the  *)
(* subscriber's queue keep the newest EventCap events.                     *)
Newest(s) == SubSeq(s, 1 + (IF Len(s) > EventCap THEN Len(s) - EventCap ELSE 0), Len(s))
Queued(es) ==
    IF mcp.pc \in {"start", "done"} THEN mcp
    ELSE [mcp EXCEPT !.queue = Newest(@ \o es),
                     !.lagged = @ \/ Len(mcp.queue \o es) > EventCap]
Publish(es) == hist' = Newest(hist \o es) /\ mcp' = Queued(es)

(* handle_server_notification and publish_ordered_event: wake the reader,  *)
(* keep the event until all lower numbers are published, publish what is   *)
(* ready, and stop routing when Closed is published.                       *)
Ready(P) == {k \in P : \A j \in lastPub + 1 .. k : j \in P}
(* Slip: an event is published as it arrives.                              *)
HandleNotificationUnordered ==
    /\ chan # <<>>
    /\ chan' = Tail(chan)
    /\ wake' = (routed \/ wake)
    /\ IF routed
       THEN /\ Publish(<<Head(chan)>>)
            /\ lastPub' = lastPub + 1
            /\ routed' = (ev[Head(chan)] # "closed")
       ELSE UNCHANGED <<routed, lastPub, hist, mcp>>
    /\ UNCHANGED <<server, up, pending, failure, uni>>

HandleNotification ==
    /\ chan # <<>>
    /\ chan' = Tail(chan)
    /\ wake' = (routed \/ wake)
    /\ IF routed /\ Head(chan) > lastPub
       THEN LET P == pending \cup {Head(chan)}
                R == Ready(P)
            IN /\ pending' = P \ R
               /\ lastPub' = lastPub + Cardinality(R)
               /\ Publish([i \in 1 .. Cardinality(R) |-> lastPub + i])
               /\ routed' = \A k \in R : ev[k] # "closed"
       ELSE UNCHANGED <<routed, lastPub, pending, hist, mcp>>
    /\ UNCHANGED <<server, up, failure, uni>>

(* set_failure: the first failure is published, each wakes the reader.     *)
SetFailure ==
    /\ failure' = TRUE
    /\ wake' = TRUE
    /\ hist' = IF failure THEN hist ELSE Newest(Append(hist, Failed))
    /\ UNCHANGED <<lastPub, pending>>

(* The reader task has drained the connection: every process that is still *)
(* routed fails.                                                           *)
FailSession ==
    /\ ~up /\ chan = <<>> /\ routed
    /\ routed' = FALSE
    /\ SetFailure
    /\ mcp' = IF failure THEN mcp ELSE Queued(<<Failed>>)
    /\ UNCHANGED <<server, up, chan, uni>>

-----------------------------------------------------------------------------
(* Of numbers in increasing order, those after k: the end of the sequence. *)
After(s, k) == SubSeq(s, 1 + Cardinality({i \in 1 .. Len(s) : s[i] <= k}), Len(s))

(* process/read without a byte limit: the retained chunks after a cursor,  *)
(* and the number to go on from.  `gone` is no part of the response: it    *)
(* notes which chunks after the cursor were no longer retained.            *)
exec_read(after) ==
    LET chunks == After(output, after)
    IN [chunks |-> chunks,
        next |-> IF chunks = <<>> THEN nextSeq ELSE Last(chunks) + 1,
        closed |-> closed,
        gone |-> {k \in Evicted : k > after}]
Max2(a, b) == IF a > b THEN a ELSE b

(* The MCP transport subscribes some time after the process started: first *)
(* the history, then what is published from now on.                        *)
Subscribe ==
    /\ mcp.pc = "start"
    /\ mcp' = [mcp EXCEPT !.pc = "recv", !.replay = hist,
                          !.missed = (1 .. lastPub) \ Range(hist)]
    /\ UNCHANGED <<server, up, chan, client, uni>>

(* A consumer is through: the process was closed, or its session failed.   *)
EndMcp(m, how) ==
    [m EXCEPT !.pc = "done", !.end = how, !.resp = NoResponse,
              !.replay = <<>>, !.queue = <<>>, !.lagged = FALSE]
EndUni(u, how) == [u EXCEPT !.pc = "done", !.end = how, !.resp = NoResponse]

(* receive_message: the next event, or the news that some were overwritten *)
Consume(k, m) ==
    CASE k = Failed -> EndMcp(m, "failed")
      [] k # Failed /\ ev[k] = "closed" -> EndMcp([m EXCEPT !.last = Max2(@, k)], "closed")
      [] k # Failed /\ ev[k] = "exited" -> [m EXCEPT !.last = Max2(@, k)]
      [] k # Failed /\ ev[k] = "output" ->
           IF k > m.last THEN [m EXCEPT !.last = k, !.got = Append(@, k)] ELSE m
Receive ==
    /\ mcp.pc = "recv"
    /\ \/ /\ mcp.replay # <<>>
          /\ mcp' = Consume(Head(mcp.replay), [mcp EXCEPT !.replay = Tail(@)])
       \/ /\ mcp.replay = <<>> /\ mcp.lagged
          /\ mcp' = [mcp EXCEPT !.pc = "recover", !.lagged = FALSE]
       \/ /\ mcp.replay = <<>> /\ ~mcp.lagged /\ mcp.queue # <<>>
          /\ mcp' = Consume(Head(mcp.queue), [mcp EXCEPT !.queue = Tail(@)])
    /\ UNCHANGED <<server, up, chan, client, uni>>

(* recover_lagged_events: read what was missed from the server.  It fails  *)
(* when the process is gone, or with the connection (Session::read).       *)
Recover ==
    /\ mcp.pc = "recover"
    /\ \/ /\ up /\ present
          /\ mcp' = [mcp EXCEPT !.pc = "apply", !.resp = exec_read(mcp.last)]
          /\ UNCHANGED client
       \/ /\ up /\ ~present
          /\ mcp' = EndMcp(mcp, "failed")
          /\ UNCHANGED client
       \/ /\ ~up
          /\ mcp' = EndMcp(mcp, "failed")
          /\ SetFailure /\ UNCHANGED routed
    /\ UNCHANGED <<server, up, chan, uni>>

Recovered(last) ==
    LET r == mcp.resp
        m == [mcp EXCEPT !.pc = "recv",
                         !.got = @ \o After(r.chunks, mcp.last),
                         !.missed = @ \cup r.gone,
                         !.last = last,
                         !.resp = NoResponse]
    IN IF r.closed THEN EndMcp(m, "closed") ELSE m

(* Slip: the cursor is set to the next number instead of the last one.     *)
ApplyRecoveryOffByOne ==
    /\ mcp.pc = "apply"
    /\ mcp' = Recovered(Max2(mcp.last, mcp.resp.next))
    /\ UNCHANGED <<server, up, chan, client, uni>>

ApplyRecovery ==
    /\ mcp.pc = "apply"
    /\ mcp' = Recovered(Max2(mcp.last, mcp.resp.next - 1))
    /\ UNCHANGED <<server, up, chan, client, uni>>

(* spawn_exec_server_output_task: read, apply, wait for the wake channel.  *)
Read ==
    /\ uni.pc = "read"
    /\ \/ /\ up /\ present
          /\ uni' = [uni EXCEPT !.pc = "apply", !.resp = exec_read(uni.cur)]
          /\ UNCHANGED client
       \/ /\ up /\ ~present
          /\ uni' = EndUni(uni, "failed")
          /\ UNCHANGED client
       \/ /\ ~up
          /\ uni' = EndUni(uni, "failed")
          /\ SetFailure /\ UNCHANGED routed
    /\ UNCHANGED <<server, up, chan, mcp>>

Applied ==
    LET r == uni.resp
        u == [uni EXCEPT !.pc = "wait", !.got = @ \o r.chunks,
                         !.missed = @ \cup r.gone, !.cur = r.next - 1,
                         !.resp = NoResponse]
    IN IF r.closed THEN EndUni(u, "closed") ELSE u

(* Slip: a change that came during the read counts as seen.                *)
ApplyReadMarksSeen ==
    /\ uni.pc = "apply"
    /\ uni' = Applied
    /\ wake' = FALSE
    /\ UNCHANGED <<server, up, chan, routed, lastPub, pending, failure, hist, mcp>>

ApplyRead ==
    /\ uni.pc = "apply"
    /\ uni' = Applied
    /\ UNCHANGED <<server, up, chan, client, mcp>>
Wait ==
    /\ uni.pc = "wait" /\ wake
    /\ wake' = FALSE
    /\ uni' = [uni EXCEPT !.pc = "read"]
    /\ UNCHANGED <<server, up, chan, routed, lastPub, pending, failure, hist, mcp>>

(* The connection is lost between the request and the response.            *)
ResponseLost ==
    /\ ~up
    /\ \/ mcp.pc = "apply" /\ mcp' = EndMcp(mcp, "failed") /\ UNCHANGED uni
       \/ uni.pc = "apply" /\ uni' = EndUni(uni, "failed") /\ UNCHANGED mcp
    /\ SetFailure /\ UNCHANGED <<server, up, chan, routed>>

-----------------------------------------------------------------------------
StreamStep(s) == StreamOutput(s) \/ FinishOutputStream(s)
SendStep(x) == Notify(x) \/ MaybeEmitClosed(x)
ClientStep == HandleNotification \/ FailSession
McpStep == Subscribe \/ Receive \/ Recover \/ ApplyRecovery
UniStep == Read \/ ApplyRead \/ Wait

Ended ==
    /\ mcp.pc = "done" /\ uni.pc = "done"
    /\ \A x \in Tasks : task[x].pc = "done"
    /\ UNCHANGED vars

Next ==
    \/ \E s \in Streams : StreamStep(s)
    \/ \E x \in Tasks : SendStep(x)
    \/ WatchExit \/ RemoveClosed \/ ShutdownSession \/ Disconnect \/ ClientStep
    \/ McpStep \/ UniStep \/ ResponseLost \/ Ended

Spec == Init /\ [][Next]_vars

(* The runtimes on both sides poll every task that can go on.  That the    *)
(* process ends or that the connection stays up is not assumed.            *)
Fairness ==
    /\ \A x \in Tasks : WF_vars(SendStep(x))
    /\ WF_vars(ClientStep) /\ WF_vars(McpStep) /\ WF_vars(UniStep)
FairSpec == Spec /\ Fairness

-----------------------------------------------------------------------------
Seqs == 1 .. (Cardinality(Streams) * MaxChunks + 2)
Response == [chunks : Seq(Seqs), next : Nat, closed : BOOLEAN, gone : SUBSET Seqs]
Pcs == {"wait", "notify", "emit", "notifyClosed", "done"}
Ends == {"absent", "none", "closed", "failed"}
TypeOK ==
    /\ present \in BOOLEAN /\ exited \in BOOLEAN /\ closed \in BOOLEAN
    /\ ev \in Seq({"output", "exited", "closed"}) /\ Len(ev) \in Seqs \cup {0}
    /\ output \in Seq(Seqs) /\ Len(output) <= RetainCap
    /\ open \in 0 .. Cardinality(Streams)
    /\ task \in [Tasks -> [pc : Pcs,
                           seq : Seqs \cup {0}, left : 0 .. MaxChunks]]
    /\ up \in BOOLEAN /\ chan \in Seq(Seqs) /\ Len(chan) <= ChanCap
    /\ routed \in BOOLEAN /\ lastPub \in Seqs \cup {0} /\ pending \subseteq Seqs
    /\ failure \in BOOLEAN /\ wake \in BOOLEAN
    /\ hist \in Seq(Seqs \cup {Failed}) /\ Len(hist) <= EventCap
    /\ mcp \in [pc : {"start", "recv", "recover", "apply", "done"},
                replay : Seq(Seqs \cup {Failed}), queue : Seq(Seqs \cup {Failed}),
                lagged : BOOLEAN, missed : SUBSET Seqs, last : Seqs \cup {0},
                got : Seq(Seqs), resp : Response, end : Ends]
    /\ uni \in [pc : {"read", "apply", "wait", "done"}, cur : Seqs \cup {0},
                missed : SUBSET Seqs, got : Seq(Seqs), resp : Response, end : Ends]

(* "Closed means all output streams have ended and no more output events   *)
(* will arrive": whichever of the three tasks comes last, no event is      *)
(* numbered after Closed, and the exit was numbered before it.             *)
ClosedIsLast ==
    \A k \in 1 .. Len(ev) : ev[k] = "closed" =>
        /\ k = Len(ev)
        /\ \E j \in 1 .. k : ev[j] = "exited"

(* Why ClosedIsLast holds, as an inductive invariant: while the process is *)
(* in the map, open_streams counts at least the streams that may still     *)
(* number a chunk, so 0 means there are none; the exit is numbered once,   *)
(* and Closed only after both.                                             *)
Live == {s \in Streams : task[s].pc \in {"wait", "notify"}}
ServerType ==
    /\ present \in BOOLEAN /\ exited \in BOOLEAN /\ closed \in BOOLEAN
    /\ ev \in Seq({"output", "exited", "closed"})
    /\ open \in Nat
    /\ task \in [Tasks -> [pc : Pcs, seq : Nat, left : Int]]
StreamsCounted == present => Cardinality(Live) <= open
ExitNumbered ==
    /\ exited => task[Exit].pc # "wait"
    /\ exited => \E j \in 1 .. Len(ev) : ev[j] = "exited"
ClosedNumbered ==
    /\ closed => exited
    /\ closed /\ present => Live = {}
    /\ ~closed => \A k \in 1 .. Len(ev) : ev[k] # "closed"
ClosingInv ==
    ServerType /\ StreamsCounted /\ ExitNumbered /\ ClosedNumbered /\ ClosedIsLast

Increasing(s) == \A i, j \in 1 .. Len(s) : i < j => s[i] < s[j]

(* A consumer that has moved past a chunk has had it, unless the server no *)
(* longer retained it when it read (or the history no longer did when it   *)
(* subscribed), and has had every chunk once and in order: across          *)
(* notifications sent out of order, a log that overflowed, and a read that *)
(* overlaps what was pushed.                                               *)
NothingSkipped ==
    /\ Increasing(mcp.got) /\ Increasing(uni.got)
    /\ Outputs(mcp.last) \subseteq Range(mcp.got) \cup mcp.missed
    /\ Outputs(uni.cur) \subseteq Range(uni.got) \cup uni.missed

(* A consumer that sees the process closed, and not failed, has had all of *)
(* its output: "Wait for `Closed` before ending the rmcp stream so any     *)
(* output flushed during process shutdown can still be decoded".           *)
ClosedIsComplete ==
    \A c \in {mcp, uni} : c.end = "closed" =>
        Outputs(Len(ev)) \subseteq Range(c.got) \cup c.missed

(* When the process is closed or the connection is lost, its consumer gets *)
(* to know: it does not wait for a wake-up or an event that never comes.   *)
ConsumersEnd ==
    (closed \/ ~up) ~> (mcp.end # "none" /\ uni.end # "none")
=============================================================================
