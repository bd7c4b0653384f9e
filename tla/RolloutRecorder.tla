--------------------------- MODULE RolloutRecorder --------------------------
(***************************************************************************)
(* The recorder of a session's history (rollout/src/recorder.rs): callers  *)
(* put commands on a bounded channel, one writer task takes them, keeps    *)
(* the items it has not written yet and appends them to a JSONL file.  A   *)
(* failed write drops the file handle and is tried once more; what is      *)
(* still unwritten stays buffered for the next command.                    *)
(*                                                                         *)
(* The file may fail at every operation and leave a line half written, the *)
(* process may crash at every step, and a thread may be resumed from what  *)
(* is on disk.  Commands are numbered in the order in which they enter the *)
(* channel; AddItems n brings one item, called n.  Item 0 is the session's *)
(* meta line.                                                              *)
(***************************************************************************)
EXTENDS Integers, Sequences, FiniteSets, Functions

CONSTANTS
    MaxCmds,     \* bound on the commands of a behaviour
    ChannelCap,  \* capacity of the channel (256 in the code)
    Leftovers,   \* what a failed write may leave: "none", "part", "bare"
    MaxFaults,   \* bound on failed file operations
    MaxCrashes   \* bound on crashes of the process

ASSUME RecorderAssumption ==
    /\ MaxCmds \in Nat /\ ChannelCap \in Nat \ {0}
    /\ Leftovers \subseteq {"none", "part", "bare"}
    /\ MaxFaults \in Nat /\ MaxCrashes \in Nat

VARIABLES
    queue,     \* commands in the channel
    next,      \* number of the next command
    reply,     \* what the caller of a command was told
    closed,    \* every RolloutRecorder was dropped
    pc,        \* where the writer task is
    cmd,       \* the command it works on
    attempt,   \* 1, or 2 after the first failure
    writer,    \* the file is open
    deferred,  \* deferred_log_file_info is there: nothing opened yet
    meta,      \* the meta line is still to be written
    pending,   \* pending_items
    written,   \* written_count of write_pending_items_once
    lines,     \* the file, see Put
    promised,  \* history: the entries that confirmed barriers cover
    faults, crashes

callVars == <<queue, next, reply, closed>>
taskVars == <<pc, cmd, attempt, written>>
stateVars == <<writer, deferred, meta, pending>>
vars == <<callVars, taskVars, stateVars, lines, promised, faults, crashes>>

Cmds == 1 .. MaxCmds
Ops == {"add", "persist", "flush", "shutdown"}
NoCmd == [op |-> "none", n |-> 0]

(* A line ends with its newline ("whole", or "bad" when it began with what *)
(* a failed write had left), or is the end of the file without one: "bare" *)
(* is complete JSON, "part" is not.  Only whole and bare lines parse.      *)
LineStates == {"whole", "bad", "bare", "part"}
Line(x, s) == [item |-> x, state |-> s]
Broken(ls) == ls # <<>> /\ ls[Len(ls)].state \in {"bare", "part"}

(* Slip: a file that is opened again is written from its start. *)
PutFromStart(ls, x, outcome) ==
    IF attempt = 2 /\ written < Len(ls) THEN [ls EXCEPT ![written + 1] = Line(x, "bad")]
    ELSE IF outcome = "none" THEN ls ELSE Append(ls, Line(x, outcome))

(* write_line: the JSON text and its newline, by one write_all that may    *)
(* stop anywhere.  The file is opened for appending, so a line goes behind *)
(* whatever is there.                                                      *)
Put(ls, x, outcome) ==
    IF outcome = "none" THEN ls
    ELSE IF Broken(ls)
    THEN Append(SubSeq(ls, 1, Len(ls) - 1), Line(x, IF outcome = "whole" THEN "bad" ELSE "part"))
    ELSE Append(ls, Line(x, outcome))

(* load_rollout_items skips lines that do not parse; a thread can be       *)
(* resumed when its id is found, which is in the meta line.                *)
Readable(ls) == {ls[i].item : i \in {j \in DOMAIN ls : ls[j].state \in {"whole", "bare"}}}
Resumable(ls) == 0 \in Readable(ls)

(* The items whose lines have their newline, in the order of the file:     *)
(* every line but a broken end.                                            *)
Ended(ls) == IF Broken(ls) THEN SubSeq(ls, 1, Len(ls) - 1) ELSE ls
ItemsOf(ls) == [i \in 1 .. Len(ls) |-> ls[i].item]
Stored == ItemsOf(Ended(lines))

IsAdd(c) == c.op = "add"
Queued == {queue[i].n : i \in {j \in 1 .. Len(queue) : IsAdd(queue[j])}}
Unwritten == (IF meta THEN {0} ELSE {}) \cup {pending[i] : i \in written + 1 .. Len(pending)}

(* Every item accepted so far that was not lost with an earlier recorder.  *)
Accepted == Range(Stored) \cup Unwritten \cup Queued

(* RolloutRecorder::new for a new session: nothing is opened yet.          *)
Init ==
    /\ queue = <<>> /\ next = 1
    /\ reply = [n \in Cmds |-> "none"]
    /\ closed = FALSE
    /\ pc = "recv" /\ cmd = NoCmd /\ attempt = 1 /\ written = 0
    /\ writer = FALSE /\ deferred = TRUE /\ meta = TRUE
    /\ pending = <<>>
    /\ lines = <<>>
    /\ promised = {}
    /\ faults = 0 /\ crashes = 0

-----------------------------------------------------------------------------
(* Slip: the channel has no bound. *)
SendUnbounded(op) ==
    /\ next \in Cmds /\ ~closed /\ pc # "stopped"
    /\ queue' = Append(queue, [op |-> op, n |-> next])
    /\ reply' = [reply EXCEPT ![next] = IF op = "add" THEN "ok" ELSE "wait"]
    /\ next' = next + 1
    /\ UNCHANGED <<closed, taskVars, stateVars, lines, promised, faults, crashes>>

(* record_canonical_items, persist, flush and shutdown: the command waits  *)
(* for room in the channel; once the writer is gone the call fails.        *)
Send(op) ==
    /\ next \in Cmds /\ ~closed
    /\ IF pc = "stopped"
       THEN /\ reply' = [reply EXCEPT ![next] = "err"]
            /\ UNCHANGED queue
       ELSE /\ Len(queue) < ChannelCap
            /\ queue' = Append(queue, [op |-> op, n |-> next])
            /\ reply' = [reply EXCEPT ![next] = IF op = "add" THEN "ok" ELSE "wait"]
    /\ next' = next + 1
    /\ UNCHANGED <<closed, taskVars, stateVars, lines, promised, faults, crashes>>

(* discard_thread drops the recorder without a shutdown.                   *)
Discard ==
    /\ ~closed /\ pc # "stopped"
    /\ closed' = TRUE
    /\ UNCHANGED <<queue, next, reply, taskVars, stateVars, lines, promised, faults, crashes>>

-----------------------------------------------------------------------------
IsDeferred == ~writer /\ deferred

(* Dropping the receiver drops the acks in it, which fails their callers.  *)
DropQueue(r) ==
    [n \in Cmds |-> IF r[n] = "wait" THEN "err" ELSE r[n]]

Answer(c, r) == IF c.op = "add" THEN reply ELSE [reply EXCEPT ![c.n] = r]

(* The entries that were accepted before barrier c.                        *)
Before(c) == {x \in Accepted : x < c.n}

(* The command is done: its caller is told, and a shutdown that succeeded  *)
(* ends the task.                                                          *)
Finish(c, r) ==
    /\ promised' = IF r = "ok" /\ c.op # "add" THEN promised \cup Before(c) ELSE promised
    /\ cmd' = NoCmd /\ attempt' = 1 /\ written' = 0
    /\ IF c.op = "shutdown" /\ r = "ok"
       THEN /\ pc' = "stopped"
            /\ reply' = DropQueue(Answer(c, r))
            /\ queue' = <<>>
       ELSE /\ pc' = "recv"
            /\ reply' = Answer(c, r)

(* One turn of the writer's loop takes a command.  AddItems is written at  *)
(* once when the file exists already; a flush or a shutdown has nothing to *)
(* do while nothing was recorded.                                          *)
RecvAdd ==
    /\ pc = "recv" /\ queue # <<>> /\ IsAdd(Head(queue))
    /\ queue' = Tail(queue)
    /\ pending' = Append(pending, Head(queue).n)
    /\ IF IsDeferred THEN UNCHANGED <<pc, cmd>>
       ELSE pc' = "open" /\ cmd' = Head(queue)
    /\ UNCHANGED <<next, reply, closed, attempt, written, writer, deferred, meta,
                   lines, promised, faults, crashes>>

RecvBarrier ==
    /\ pc = "recv" /\ queue # <<>> /\ ~IsAdd(Head(queue))
    /\ Head(queue).op = "persist" \/ ~IsDeferred \/ pending # <<>>
    /\ queue' = Tail(queue)
    /\ pc' = "open" /\ cmd' = Head(queue)
    /\ UNCHANGED <<next, reply, closed, attempt, written, stateVars, lines, promised, faults, crashes>>

(* Slip: a flush that has nothing to do is not acknowledged. *)
RecvNothingSilently ==
    /\ pc = "recv" /\ queue # <<>>
    /\ Head(queue).op \in {"flush", "shutdown"} /\ IsDeferred /\ pending = <<>>
    /\ queue' = Tail(queue)
    /\ UNCHANGED <<next, reply, closed, taskVars, stateVars, lines, promised, faults, crashes>>

RecvNothingToDo ==
    /\ pc = "recv" /\ queue # <<>>
    /\ Head(queue).op \in {"flush", "shutdown"} /\ IsDeferred /\ pending = <<>>
    /\ queue' = IF Head(queue).op = "shutdown" THEN <<>> ELSE Tail(queue)
    /\ LET c == Head(queue) IN
         /\ reply' = IF c.op = "shutdown" THEN DropQueue(Answer(c, "ok")) ELSE Answer(c, "ok")
         /\ pc' = IF c.op = "shutdown" THEN "stopped" ELSE "recv"
    /\ UNCHANGED <<next, closed, cmd, attempt, written, stateVars, lines, promised, faults, crashes>>

(* rx.recv() returns None: the writer ends with what it had buffered.      *)
WriterEnds ==
    /\ pc = "recv" /\ queue = <<>> /\ closed
    /\ pc' = "stopped"
    /\ UNCHANGED <<callVars, cmd, attempt, written, stateVars, lines, promised, faults, crashes>>

(* Slip: the whole buffer is dropped with the handle. *)
FailDropsBuffer ==
    /\ faults < MaxFaults /\ faults' = faults + 1
    /\ writer' = FALSE
    /\ pending' = <<>>
    /\ IF attempt = 1
       THEN /\ attempt' = 2 /\ pc' = "open" /\ written' = 0
            /\ UNCHANGED <<queue, reply, cmd, promised>>
       ELSE Finish(cmd, "err") /\ UNCHANGED queue
    /\ UNCHANGED <<next, closed, crashes>>

(* Slip: the items that were written stay in the buffer. *)
FailKeepsWritten ==
    /\ faults < MaxFaults /\ faults' = faults + 1
    /\ writer' = FALSE
    /\ IF attempt = 1
       THEN /\ attempt' = 2 /\ pc' = "open" /\ written' = 0
            /\ UNCHANGED <<queue, reply, cmd, promised>>
       ELSE Finish(cmd, "err") /\ UNCHANGED queue
    /\ UNCHANGED <<next, closed, pending, crashes>>

(* A failed attempt: the items written by it leave the buffer, the handle  *)
(* is dropped (enter_recovery_mode); the first failure is tried again.     *)
Fail ==
    /\ faults < MaxFaults /\ faults' = faults + 1
    /\ writer' = FALSE
    /\ pending' = SubSeq(pending, written + 1, Len(pending))
    /\ IF attempt = 1
       THEN /\ attempt' = 2 /\ pc' = "open" /\ written' = 0
            /\ UNCHANGED <<queue, reply, cmd, promised>>
       ELSE Finish(cmd, "err") /\ UNCHANGED queue
    /\ UNCHANGED <<next, closed, crashes>>

EnsureWriterOpen ==
    /\ pc = "open"
    /\ writer' = TRUE
    /\ deferred' = IF writer THEN deferred ELSE FALSE
    /\ pc' = "meta"
    /\ UNCHANGED <<callVars, cmd, attempt, written, meta, pending, lines, promised, faults, crashes>>

OpenFails ==
    /\ pc = "open" /\ ~writer
    /\ Fail
    /\ UNCHANGED <<deferred, meta, lines>>

WriteSessionMeta ==
    /\ pc = "meta"
    /\ lines' = IF meta THEN Put(lines, 0, "whole") ELSE lines
    /\ meta' = FALSE
    /\ pc' = "items"
    /\ UNCHANGED <<callVars, cmd, attempt, written, writer, deferred, pending, promised, faults, crashes>>

WriteSessionMetaFails ==
    /\ pc = "meta" /\ meta
    /\ \E o \in Leftovers : lines' = Put(lines, 0, o)
    /\ Fail
    /\ UNCHANGED <<deferred, meta>>

WriteRolloutItem ==
    /\ pc = "items" /\ written < Len(pending)
    /\ lines' = Put(lines, pending[written + 1], "whole")
    /\ written' = written + 1
    /\ UNCHANGED <<callVars, pc, cmd, attempt, stateVars, promised, faults, crashes>>

WriteRolloutItemFails ==
    /\ pc = "items" /\ written < Len(pending)
    /\ \E o \in Leftovers : lines' = Put(lines, pending[written + 1], o)
    /\ Fail
    /\ UNCHANGED <<deferred, meta>>

(* Everything is written: the buffer is emptied and the file flushed,      *)
(* which has nothing left to do after the flush of each line.              *)
WritePendingDone ==
    /\ pc = "items" /\ written = Len(pending)
    /\ pending' = <<>>
    /\ Finish(cmd, "ok")
    /\ (cmd.op # "shutdown") => UNCHANGED queue
    /\ UNCHANGED <<next, closed, writer, deferred, meta, lines, faults, crashes>>

-----------------------------------------------------------------------------
(* The process dies: the memory is gone, and of a write under way any part *)
(* may have reached the file.  Its callers are gone with it.               *)
UnderWay ==
    IF pc = "meta" /\ meta THEN {0}
    ELSE IF pc = "items" /\ written < Len(pending) THEN {pending[written + 1]} ELSE {}

Crash ==
    /\ pc # "stopped" /\ crashes < MaxCrashes
    /\ crashes' = crashes + 1
    /\ \/ UNCHANGED lines
       \/ \E x \in UnderWay : \E o \in (Leftovers \ {"none"}) \cup {"whole"} :
             lines' = Put(lines, x, o)
    /\ pc' = "stopped" /\ cmd' = NoCmd /\ attempt' = 1 /\ written' = 0
    /\ pending' = <<>> /\ meta' = FALSE
    /\ queue' = <<>> /\ closed' = TRUE
    /\ reply' = DropQueue(reply)
    /\ UNCHANGED <<next, writer, deferred, promised, faults>>

(* RolloutRecorder::new for a thread that is on disk: the file is read,    *)
(* then opened for appending.                                              *)
Resume ==
    /\ pc = "stopped"
    /\ Resumable(lines)
    /\ pc' = "recv" /\ closed' = FALSE
    /\ writer' = TRUE /\ deferred' = FALSE /\ meta' = FALSE /\ pending' = <<>>
    /\ UNCHANGED <<queue, next, reply, cmd, attempt, written, lines, promised, faults, crashes>>

Writer ==
    \/ RecvAdd \/ RecvBarrier \/ RecvNothingToDo \/ WriterEnds
    \/ EnsureWriterOpen \/ OpenFails
    \/ WriteSessionMeta \/ WriteSessionMetaFails
    \/ WriteRolloutItem \/ WriteRolloutItemFails \/ WritePendingDone

Next == (\E op \in Ops : Send(op)) \/ Discard \/ Writer \/ Crash \/ Resume

Spec == Init /\ [][Next]_vars

(* The runtime polls the writer task as long as it can go on.              *)
FairSpec == Spec /\ WF_vars(Writer)

-----------------------------------------------------------------------------
TypeOK ==
    /\ queue \in Seq([op : Ops, n : Cmds]) /\ Len(queue) <= ChannelCap
    /\ next \in 1 .. MaxCmds + 1
    /\ reply \in [Cmds -> {"none", "wait", "ok", "err"}]
    /\ closed \in BOOLEAN /\ writer \in BOOLEAN /\ deferred \in BOOLEAN /\ meta \in BOOLEAN
    /\ pc \in {"recv", "open", "meta", "items", "stopped"}
    /\ cmd \in [op : Ops, n : Cmds] \cup {NoCmd}
    /\ attempt \in {1, 2}
    /\ pending \in Seq(Cmds) /\ written \in 0 .. Len(pending)
    /\ lines \in Seq([item : 0 .. MaxCmds, state : LineStates])
    /\ promised \subseteq 0 .. MaxCmds
    /\ faults \in 0 .. MaxFaults /\ crashes \in 0 .. MaxCrashes

(* The recorder implements a durable log: whatever fails, is retried or    *)
(* crashes, an accepted item is never dropped while the recorder runs,     *)
(* never written twice or out of order, and flush, persist and shutdown    *)
(* succeed only when everything recorded before them is in the file.       *)
Log == INSTANCE DurableLog WITH
    First <- 0,
    Items <- Cmds,
    open <- pc # "stopped",
    accepted <- IF pc = "stopped" THEN Range(Stored) ELSE Accepted,
    stored <- Stored
ImplementsDurableLog == Log!Spec

(* The file holds the items in the order of their calls, each once, with   *)
(* the meta line before all of them, across failed writes, retries and     *)
(* resumes.                                                                *)
FileInOrder ==
    \A i, j \in 1 .. Len(Stored) : i < j => Stored[i] < Stored[j]

(* A failed write or a crash damages at most one line that is written      *)
(* after it; everything else that was confirmed can be read back.          *)
DamageBounded ==
    Cardinality({i \in 1 .. Len(lines) : lines[i].state = "bad"}) <= faults + crashes

(* "Flush all queued writes and wait until they are committed": what a     *)
(* successful barrier covers can be read back from the file.               *)
ConfirmedIsReadable ==
    promised \subseteq Readable(lines)

(* A caller of flush, persist or shutdown is always answered, also when    *)
(* the writer stops or fails while its command waits in the channel.       *)
BarriersAnswered ==
    \A n \in Cmds : reply[n] = "wait" ~> reply[n] # "wait"
=============================================================================
