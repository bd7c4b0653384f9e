------------------------- MODULE ExecEvents_proofs -------------------------
(***************************************************************************)
(* ExecEvents for any number of output streams and chunks: no event is     *)
(* numbered after Closed.                                                  *)
(***************************************************************************)
EXTENDS ExecEvents, SequenceTheorems, FiniteSetTheorems, TLAPS

LEMMA LiveFinite ==
    /\ IsFiniteSet(Live)
    /\ Cardinality(Live) \in Nat
    /\ Cardinality(Live) = 0 <=> Live = {}
<1>1. Live \subseteq Streams
  BY DEF Live
<1>2. IsFiniteSet(Live)
  BY <1>1, EventsAssumption, FS_Subset
<1>. QED
  BY <1>2, FS_CardinalityType, FS_EmptySet

LEMMA InitClosing == Init => ClosingInv
<1>. SUFFICES ASSUME Init PROVE ClosingInv
  OBVIOUS
<1>1. Cardinality(Streams) \in Nat
  BY EventsAssumption, FS_CardinalityType
<1>2. Live = Streams
  BY DEF Init, Live, Tasks
<1>3. ev = <<>> /\ ev \in Seq({"output", "exited", "closed"}) /\ Len(ev) = 0
  BY DEF Init
<1>4. ServerType
  <2>1. present = TRUE /\ exited = FALSE /\ closed = FALSE /\ open = Cardinality(Streams)
    BY DEF Init
  <2>2. task = [x \in Tasks |-> [pc |-> "wait", seq |-> 0, left |-> MaxChunks]]
    BY DEF Init
  <2>3. task \in [Tasks -> [pc : Pcs, seq : Nat, left : Int]]
    BY <2>2, EventsAssumption DEF Pcs
  <2>. QED
    BY <1>1, <1>3, <2>1, <2>3 DEF ServerType
<1>5. StreamsCounted
  BY <1>1, <1>2 DEF Init, StreamsCounted
<1>6. ExitNumbered /\ ClosedNumbered /\ ClosedIsLast
  BY <1>3 DEF Init, ExitNumbered, ClosedNumbered, ClosedIsLast
<1>. QED
  BY <1>4, <1>5, <1>6 DEF ClosingInv

-----------------------------------------------------------------------------
(* A step that numbers no event, reopens no stream and loses no count.     *)
LEMMA NothingNumbered ==
    ASSUME ClosingInv, UNCHANGED <<ev, exited, closed>>,
           present' \in BOOLEAN, present' => present,
           task' \in [Tasks -> [pc : Pcs, seq : Nat, left : Int]],
           task'[Exit].pc = "wait" => task[Exit].pc = "wait",
           Live' \subseteq Live,
           open' \in Nat, present' => Cardinality(Live') <= open'
    PROVE  ClosingInv'
<1>1. ServerType'
  BY DEF ClosingInv, ServerType
<1>2. StreamsCounted'
  BY DEF StreamsCounted
<1>3. ExitNumbered' /\ ClosedNumbered'
  BY DEF ClosingInv, ExitNumbered, ClosedNumbered
<1>4. ClosedIsLast'
  BY DEF ClosingInv, ClosedIsLast
<1>. QED
  BY <1>1, <1>2, <1>3, <1>4 DEF ClosingInv

(* Only the tasks of the server move: a task takes a new record.           *)
LEMMA TaskMoves ==
    ASSUME ClosingInv, NEW x \in Tasks, NEW r \in [pc : Pcs, seq : Nat, left : Int],
           task' = [task EXCEPT ![x] = r]
    PROVE  /\ task' \in [Tasks -> [pc : Pcs, seq : Nat, left : Int]]
           /\ task'[x] = r
           /\ \A y \in Tasks \ {x} : task'[y] = task[y]
  BY DEF ClosingInv, ServerType

LEMMA Appended ==
    ASSUME ClosingInv, NEW e \in {"output", "exited", "closed"}, ev' = Append(ev, e)
    PROVE  /\ ev' \in Seq({"output", "exited", "closed"})
           /\ Len(ev') = Len(ev) + 1 /\ Len(ev) \in Nat
           /\ ev'[Len(ev) + 1] = e
           /\ \A k \in 1 .. Len(ev) : ev'[k] = ev[k]
  BY DEF ClosingInv, ServerType

-----------------------------------------------------------------------------
LEMMA StreamOutputStep ==
    ASSUME ClosingInv, NEW s \in Streams, StreamOutput(s)
    PROVE  ClosingInv'
<1>0. s \in Tasks /\ Exit \in Tasks /\ s # Exit /\ s \in Live /\ Streams \subseteq Tasks
  BY EventsAssumption DEF Tasks, StreamOutput, Live
<1>1. CASE present
  <2> DEFINE r == [pc |-> "notify", seq |-> nextSeq, left |-> task[s].left - 1]
  <2>1. r \in [pc : Pcs, seq : Nat, left : Int] /\ task' = [task EXCEPT ![s] = r]
    BY <1>0, <1>1 DEF StreamOutput, ClosingInv, ServerType, nextSeq, Pcs
  <2>2. /\ task' \in [Tasks -> [pc : Pcs, seq : Nat, left : Int]]
        /\ task'[s].pc = "notify"
        /\ \A y \in Tasks \ {s} : task'[y] = task[y]
    BY <1>0, <2>1, TaskMoves
  <2>3. Live' = Live
    BY <1>0, <2>2 DEF Live
  <2>4. ev' = Append(ev, "output") /\ UNCHANGED <<present, open, exited, closed>>
    BY <1>1 DEF StreamOutput
  <2>5. /\ ev' \in Seq({"output", "exited", "closed"})
        /\ Len(ev') = Len(ev) + 1 /\ Len(ev) \in Nat
        /\ ev'[Len(ev) + 1] = "output"
        /\ \A k \in 1 .. Len(ev) : ev'[k] = ev[k]
    BY <2>4, Appended
  <2>6. ~closed
    BY <1>0, <1>1 DEF ClosingInv, ClosedNumbered
  <2>7. ServerType'
    BY <2>2, <2>4, <2>5 DEF ClosingInv, ServerType
  <2>8. StreamsCounted'
    BY <2>3, <2>4 DEF ClosingInv, StreamsCounted
  <2>9. ExitNumbered'
    BY <1>0, <2>2, <2>4, <2>5 DEF ClosingInv, ExitNumbered
  <2>10. \A k \in 1 .. Len(ev') : ev'[k] # "closed"
    BY <2>5, <2>6 DEF ClosingInv, ClosedNumbered
  <2>. QED
    BY <2>4, <2>6, <2>7, <2>8, <2>9, <2>10 DEF ClosingInv, ClosedNumbered, ClosedIsLast
<1>2. CASE ~present
  <2>1. /\ task' \in [Tasks -> [pc : Pcs, seq : Nat, left : Int]]
        /\ task'[Exit] = task[Exit]
        /\ Live' \subseteq Live
    BY <1>0, <1>2 DEF StreamOutput, Goto, ClosingInv, ServerType, Pcs, Live
  <2>2. UNCHANGED <<present, ev, open, exited, closed>>
    BY <1>2 DEF StreamOutput
  <2>. QED
    BY <1>2, <2>1, <2>2, NothingNumbered DEF ClosingInv, ServerType
<1>. QED
  BY <1>1, <1>2

LEMMA FinishStep ==
    ASSUME ClosingInv, NEW s \in Streams, FinishOutputStream(s)
    PROVE  ClosingInv'
<1>0. s \in Tasks /\ Exit \in Tasks /\ s # Exit /\ s \in Live /\ Streams \subseteq Tasks
  BY EventsAssumption DEF Tasks, FinishOutputStream, Live
<1>1. /\ task' \in [Tasks -> [pc : Pcs, seq : Nat, left : Int]]
      /\ task'[s].pc \in {"emit", "done"}
      /\ \A y \in Tasks \ {s} : task'[y] = task[y]
  <2>1. \/ task' = [task EXCEPT ![s].pc = "emit", ![s].left = 0]
        \/ task' = [task EXCEPT ![s].pc = "done", ![s].left = 0]
    BY DEF FinishOutputStream
  <2>2. task \in [Tasks -> [pc : Pcs, seq : Nat, left : Int]]
    BY DEF ClosingInv, ServerType
  <2>. QED
    BY <1>0, <2>1, <2>2 DEF Pcs
<1>2. Live' = Live \ {s}
  BY <1>0, <1>1 DEF Live
<1>3. Cardinality(Live') = Cardinality(Live) - 1 /\ Cardinality(Live) \in Nat
  BY <1>0, <1>2, LiveFinite, FS_RemoveElement
<1>3a. Cardinality(Live) # 0
  BY <1>0, LiveFinite
<1>4. UNCHANGED <<present, ev, exited, closed>>
  BY DEF FinishOutputStream
<1>5. open' \in Nat /\ (present => Cardinality(Live') <= open')
  BY <1>3, <1>3a DEF FinishOutputStream, ClosingInv, ServerType, StreamsCounted
<1>. QED
  BY <1>0, <1>1, <1>2, <1>4, <1>5, NothingNumbered DEF ClosingInv, ServerType

LEMMA WatchExitStep ==
    ASSUME ClosingInv, WatchExit
    PROVE  ClosingInv'
<1>0. Exit \in Tasks /\ Exit \notin Streams /\ Streams \subseteq Tasks
  BY EventsAssumption DEF Tasks
<1>1. /\ task' \in [Tasks -> [pc : Pcs, seq : Nat, left : Int]]
      /\ task'[Exit].pc \in {"notify", "emit"}
      /\ \A y \in Tasks \ {Exit} : task'[y] = task[y]
  <2>1. task \in [Tasks -> [pc : Pcs, seq : Nat, left : Int]] /\ nextSeq \in Nat
    BY DEF ClosingInv, ServerType, nextSeq
  <2>2. \/ task' = [task EXCEPT ![Exit].pc = "notify", ![Exit].seq = nextSeq]
        \/ task' = [task EXCEPT ![Exit].pc = "emit"]
    BY DEF WatchExit, Goto
  <2>. QED
    BY <1>0, <2>1, <2>2 DEF Pcs
<1>2. Live' = Live
  BY <1>0, <1>1 DEF Live
<1>3. UNCHANGED <<present, open, closed>>
  BY DEF WatchExit
<1>4. CASE present
  <2>1. ~exited /\ ~closed
    BY DEF WatchExit, ClosingInv, ExitNumbered, ClosedNumbered
  <2>2. ev' = Append(ev, "exited") /\ exited' = TRUE
    BY <1>4 DEF WatchExit
  <2>3. /\ ev' \in Seq({"output", "exited", "closed"})
        /\ Len(ev') = Len(ev) + 1 /\ Len(ev) \in Nat
        /\ ev'[Len(ev) + 1] = "exited"
        /\ \A k \in 1 .. Len(ev) : ev'[k] = ev[k]
    BY <2>2, Appended
  <2>4. ServerType'
    BY <1>1, <1>3, <2>2, <2>3 DEF ClosingInv, ServerType
  <2>5. StreamsCounted'
    BY <1>2, <1>3 DEF ClosingInv, StreamsCounted
  <2>6. ExitNumbered'
    BY <1>1, <2>3 DEF ExitNumbered
  <2>7. \A k \in 1 .. Len(ev') : ev'[k] # "closed"
    BY <2>1, <2>3 DEF ClosingInv, ClosedNumbered
  <2>. QED
    BY <1>3, <2>1, <2>4, <2>5, <2>6, <2>7 DEF ClosingInv, ClosedNumbered, ClosedIsLast
<1>5. CASE ~present
  <2>1. UNCHANGED <<ev, exited>>
    BY <1>5 DEF WatchExit
  <2>. QED
    BY <1>1, <1>2, <1>3, <1>5, <2>1, NothingNumbered DEF ClosingInv, ServerType
<1>. QED
  BY <1>4, <1>5

LEMMA NotifyStep ==
    ASSUME ClosingInv, NEW x \in Tasks, Notify(x)
    PROVE  ClosingInv'
<1>0. Exit \in Tasks /\ Exit \notin Streams /\ Streams \subseteq Tasks
  BY EventsAssumption DEF Tasks
<1>1. task' \in [Tasks -> [pc : Pcs, seq : Nat, left : Int]]
  BY DEF Notify, ClosingInv, ServerType, Pcs
<1>2. /\ \A y \in Tasks \ {x} : task'[y] = task[y]
      /\ task'[x].pc = IF task[x].pc = "notifyClosed" THEN "done"
                      ELSE IF x = Exit THEN "emit" ELSE "wait"
  BY DEF Notify, ClosingInv, ServerType
<1>2a. task[x].pc \in {"notify", "notifyClosed"}
  BY DEF Notify
<1>3. Live' = Live
  BY <1>0, <1>2, <1>2a DEF Live
<1>4. task'[Exit].pc = "wait" => task[Exit].pc = "wait"
  BY <1>0, <1>2
<1>5. UNCHANGED <<present, ev, open, exited, closed>>
  BY DEF Notify
<1>. QED
  BY <1>1, <1>3, <1>4, <1>5, NothingNumbered DEF ClosingInv, ServerType, StreamsCounted

LEMMA MaybeEmitClosedStep ==
    ASSUME ClosingInv, NEW x \in Tasks, MaybeEmitClosed(x)
    PROVE  ClosingInv'
<1>0. Exit \in Tasks /\ Exit \notin Streams /\ Streams \subseteq Tasks
  BY EventsAssumption DEF Tasks
<1>1. /\ task' \in [Tasks -> [pc : Pcs, seq : Nat, left : Int]]
      /\ task'[x].pc \in {"notifyClosed", "done"}
      /\ \A y \in Tasks \ {x} : task'[y] = task[y]
  <2>1. task \in [Tasks -> [pc : Pcs, seq : Nat, left : Int]] /\ nextSeq \in Nat
    BY DEF ClosingInv, ServerType, nextSeq
  <2>2. \/ task' = [task EXCEPT ![x].pc = "notifyClosed", ![x].seq = nextSeq]
        \/ task' = [task EXCEPT ![x].pc = "done"]
    BY DEF MaybeEmitClosed, Goto
  <2>. QED
    BY <2>1, <2>2 DEF Pcs
<1>1a. task[x].pc = "emit"
  BY DEF MaybeEmitClosed
<1>2. Live' = Live
  BY <1>0, <1>1, <1>1a DEF Live
<1>3. task'[Exit].pc = "wait" => task[Exit].pc = "wait"
  BY <1>0, <1>1
<1>4. UNCHANGED <<present, open, exited>>
  BY DEF MaybeEmitClosed
<1>5. CASE present /\ ~closed /\ open = 0 /\ exited
  <2>1. ev' = Append(ev, "closed") /\ closed' = TRUE
    BY <1>5 DEF MaybeEmitClosed
  <2>2. /\ ev' \in Seq({"output", "exited", "closed"})
        /\ Len(ev') = Len(ev) + 1 /\ Len(ev) \in Nat
        /\ ev'[Len(ev) + 1] = "closed"
        /\ \A k \in 1 .. Len(ev) : ev'[k] = ev[k]
    BY <2>1, Appended
  <2>3. Live = {}
    BY <1>5, LiveFinite DEF ClosingInv, StreamsCounted
  <2>4. ServerType'
    BY <1>1, <1>4, <2>1, <2>2 DEF ClosingInv, ServerType
  <2>5. StreamsCounted'
    BY <1>2, <1>4 DEF ClosingInv, StreamsCounted
  <2>6. ExitNumbered'
    BY <1>3, <1>4, <2>2 DEF ClosingInv, ExitNumbered
  <2>7. ClosedNumbered'
    BY <1>2, <1>4, <1>5, <2>1, <2>3 DEF ClosedNumbered
  <2>8. \A k \in 1 .. Len(ev) : ev'[k] # "closed"
    BY <1>5, <2>2 DEF ClosingInv, ClosedNumbered
  <2>9. PICK j \in 1 .. Len(ev) : ev[j] = "exited"
    BY <1>5 DEF ClosingInv, ExitNumbered
  <2>10. ClosedIsLast'
    <3>1. SUFFICES ASSUME NEW k \in 1 .. Len(ev'), ev'[k] = "closed"
                   PROVE  k = Len(ev') /\ \E i \in 1 .. k : ev'[i] = "exited"
      BY DEF ClosedIsLast
    <3>2. k = Len(ev) + 1
      BY <2>2, <2>8, <3>1
    <3>3. j \in 1 .. k /\ ev'[j] = "exited"
      BY <2>2, <2>9, <3>2
    <3>. QED
      BY <2>2, <3>2, <3>3
  <2>. QED
    BY <2>4, <2>5, <2>6, <2>7, <2>10 DEF ClosingInv
<1>6. CASE ~(present /\ ~closed /\ open = 0 /\ exited)
  <2>1. UNCHANGED <<ev, closed>>
    BY <1>6 DEF MaybeEmitClosed
  <2>. QED
    BY <1>1, <1>2, <1>3, <1>4, <2>1, NothingNumbered DEF ClosingInv, ServerType, StreamsCounted
<1>. QED
  BY <1>5, <1>6

(* The process leaves the map, and the steps that leave the server alone.  *)
LEMMA OtherSteps ==
    ASSUME ClosingInv,
           \/ UNCHANGED server
           \/ present' = FALSE /\ UNCHANGED <<ev, output, open, exited, closed, task>>
    PROVE  ClosingInv'
<1>1. UNCHANGED <<ev, open, exited, closed, task>> /\ present' \in BOOLEAN /\ (present' => present)
  <2>1. present \in BOOLEAN
    BY DEF ClosingInv, ServerType
  <2>2. CASE UNCHANGED server
    BY <2>1, <2>2 DEF server
  <2>3. CASE present' = FALSE /\ UNCHANGED <<ev, output, open, exited, closed, task>>
    BY <2>3
  <2>. QED
    BY <2>2, <2>3
<1>2. Live' = Live
  BY <1>1 DEF Live
<1>. QED
  BY <1>1, <1>2, NothingNumbered DEF ClosingInv, ServerType, StreamsCounted

LEMMA ClosingStep == ClosingInv /\ [Next]_vars => ClosingInv'
<1>. SUFFICES ASSUME ClosingInv, [Next]_vars PROVE ClosingInv'
  OBVIOUS
<1>1. CASE \E s \in Streams : StreamStep(s)
  BY <1>1, StreamOutputStep, FinishStep DEF StreamStep
<1>2. CASE \E x \in Tasks : SendStep(x)
  BY <1>2, NotifyStep, MaybeEmitClosedStep DEF SendStep
<1>3. CASE WatchExit
  BY <1>3, WatchExitStep
<1>4. CASE RemoveClosed \/ ShutdownSession
  BY <1>4, OtherSteps DEF RemoveClosed, ShutdownSession
<1>5. CASE Disconnect \/ ClientStep \/ ResponseLost
  BY <1>5, OtherSteps DEF Disconnect, ClientStep, HandleNotification, FailSession, ResponseLost
<1>6. CASE McpStep \/ UniStep
  BY <1>6, OtherSteps DEF McpStep, Subscribe, Receive, Recover, ApplyRecovery,
                          UniStep, Read, ApplyRead, Wait
<1>7. CASE Ended \/ UNCHANGED vars
  BY <1>7, OtherSteps DEF Ended, vars
<1>. QED
  BY <1>1, <1>2, <1>3, <1>4, <1>5, <1>6, <1>7 DEF Next

(* For any number of streams and chunks, any sizes of the logs and any     *)
(* interleaving: the tasks of a process (stream_output, watch_exit,        *)
(* maybe_emit_closed) keep the invariant under which Closed is numbered.   *)
THEOREM ClosingInvariant == Spec => []ClosingInv
  BY InitClosing, ClosingStep, PTL DEF Spec

(* No event of a process is numbered after its Closed event, and its exit  *)
(* is numbered before it, whichever task closes it.                        *)
THEOREM ClosedComesLast == Spec => []ClosedIsLast
<1>1. ClosingInv => ClosedIsLast
  BY DEF ClosingInv
<1>. QED
  BY <1>1, ClosingInvariant, PTL
-----------------------------------------------------------------------------
(* What the consumers have had.                                            *)
Nats == Seq(Nat)
ReadType == [chunks : Nats, next : Nat, closed : BOOLEAN, gone : SUBSET Nat]
McpType == [pc : {"start", "recv", "recover", "apply", "done"},
            replay : Nats, queue : Nats, lagged : BOOLEAN, missed : SUBSET Nat, last : Nat,
            got : Nats, resp : ReadType, end : Ends]
UniType == [pc : {"read", "apply", "wait", "done"}, cur : Nat,
            missed : SUBSET Nat, got : Nats, resp : ReadType, end : Ends]
DeliveryType ==
    /\ output \in Nats /\ chan \in Nats /\ hist \in Nats
    /\ up \in BOOLEAN /\ routed \in BOOLEAN /\ failure \in BOOLEAN /\ wake \in BOOLEAN
    /\ lastPub \in Nat /\ pending \subseteq Nat
    /\ mcp \in McpType /\ uni \in UniType

(* n events are numbered, O are those with output, cl: closed.             *)
(* A response covers all output up to its next number, from its cursor on  *)
(* by its own chunks, and all there is when the process was closed.        *)
ReadOK(r, cur, had, n, O, cl) ==
    /\ Increasing(r.chunks)
    /\ \A i \in 1 .. Len(r.chunks) : cur < r.chunks[i] /\ r.chunks[i] < r.next
    /\ cur < r.next /\ r.next <= n + 1
    /\ \A k \in O : k < r.next => k \in had \cup Range(r.chunks) \cup r.gone
    /\ r.closed => cl /\ O \subseteq had \cup Range(r.chunks) \cup r.gone

(* A consumer with cursor cur.                                             *)
ConsumerOK(c, cur, n, O, cl) ==
    /\ cur <= n
    /\ Increasing(c.got) /\ \A i \in 1 .. Len(c.got) : c.got[i] <= cur
    /\ \A k \in O : k <= cur => k \in Range(c.got) \cup c.missed
    /\ c.pc = "apply" => ReadOK(c.resp, cur, Range(c.got) \cup c.missed, n, O, cl)
    /\ c.end = "closed" => cl /\ O \subseteq Range(c.got) \cup c.missed

(* Published events: increasing numbers, Failed only at the end.           *)
Log(s, lp) ==
    \A i \in 1 .. Len(s) :
        /\ s[i] <= lp
        /\ \A j \in 1 .. Len(s) : i < j => s[i] # Failed /\ (s[j] = Failed \/ s[i] < s[j])

(* What the transport has had, or finds in a response it holds.            *)
Had(m) == Range(m.got) \cup m.missed \cup Range(m.resp.chunks) \cup m.resp.gone

(* While it has not lagged, every published output was had or is still to  *)
(* come; and nothing that a replayed event leaves behind is lost.          *)
FollowsLog(m, O, lp) ==
    /\ m.pc = "start" => m.missed = {}
    /\ m.pc # "apply" => m.resp = NoResponse
    /\ m.pc # "recv" => m.replay = <<>>
    /\ m.pc \in {"start", "done"} => m.queue = <<>>
    /\ Log(m.replay, lp) /\ Log(m.queue, lp)
    /\ \A i \in 1 .. Len(m.replay) : \A k \in O :
          k <= m.replay[i] => k \in Had(m) \cup Range(m.replay)
    /\ m.pc \in {"recv", "apply"} /\ ~m.lagged =>
          \A k \in O : k <= lp => k \in Had(m) \cup Range(m.replay) \cup Range(m.queue)

(* The numbers in the server's buffers and on their way.                   *)
Numbered ==
    /\ Increasing(output) /\ Range(output) \subseteq Outputs(Len(ev))
    /\ \A x \in Tasks : task[x].pc \in {"notify", "notifyClosed"} => task[x].seq \in 1 .. Len(ev)
    /\ Range(chan) \subseteq 1 .. Len(ev)
    /\ pending \subseteq lastPub + 1 .. Len(ev) /\ lastPub <= Len(ev)

(* A failure is the last thing that is published to the transport, and a   *)
(* process has one consumer.                                               *)
FailureLast ==
    /\ mcp.pc = "done" \/ uni.pc = "done"
    /\ mcp.pc # "done" => (failure => ~routed)
    /\ mcp.pc # "done" => (Failed \in Range(mcp.queue) => failure)
    /\ mcp.pc = "start" => Log(hist, lastPub) /\ (Failed \in Range(hist) => failure)

DeliveryInv ==
    /\ DeliveryType
    /\ Numbered
    /\ FailureLast
    /\ FollowsLog(mcp, Outputs(Len(ev)), lastPub)
    /\ ConsumerOK(mcp, mcp.last, Len(ev), Outputs(Len(ev)), closed)
    /\ ConsumerOK(uni, uni.cur, Len(ev), Outputs(Len(ev)), closed)

-----------------------------------------------------------------------------
(* Sequences of numbers.                                                   *)
LEMMA LeastNumber ==
    ASSUME NEW T \in SUBSET Nat, T # {}
    PROVE  \E x \in T : \A y \in T : x <= y
<1>. DEFINE R == {p \in Nat \X Nat : p[1] < p[2]}
<1>1. IsWellFoundedOn(R, Nat)
  BY NatLessThanWellFounded DEF OpToRel
<1>2. \A x, y \in Nat : x < y => <<x, y>> \in R
  OBVIOUS
<1>. HIDE DEF R
<1>3. PICK x \in T : \A y \in T : ~(<<y, x>> \in R)
  BY <1>1, WFMin
<1>4. x \in Nat /\ \A y \in T : y \in Nat
  BY <1>3
<1>5. \A y \in T : ~(y < x)
  BY <1>2, <1>3, <1>4, Zenon
<1>6. \A y \in T : x <= y
  BY <1>4, <1>5
<1>. QED
  BY <1>6

LEMMA NatSeq ==
    ASSUME NEW s \in Nats
    PROVE  /\ Len(s) \in Nat
           /\ \A i \in 1 .. Len(s) : s[i] \in Nat
           /\ \A x : x \in Range(s) <=> \E i \in 1 .. Len(s) : x = s[i]
           /\ Range(s) \subseteq Nat
<1>1. s \in Seq(Nat)
  BY DEF Nats
<1>2. Len(s) \in Nat /\ DOMAIN s = 1 .. Len(s) /\ \A i \in 1 .. Len(s) : s[i] \in Nat
  BY <1>1, LenProperties, ElementOfSeq
<1>. QED
  BY <1>2 DEF Range

LEMMA NatAppend ==
    ASSUME NEW s \in Nats, NEW x \in Nat
    PROVE  /\ Append(s, x) \in Nats /\ Len(Append(s, x)) = Len(s) + 1
           /\ \A i \in 1 .. Len(s) : Append(s, x)[i] = s[i]
           /\ Append(s, x)[Len(s) + 1] = x
           /\ \A y : y \in Range(Append(s, x)) <=> y \in Range(s) \/ y = x
<1>. DEFINE a == Append(s, x)
<1>1. /\ a \in Nats /\ Len(a) = Len(s) + 1 /\ Len(s) \in Nat
      /\ \A i \in 1 .. Len(s) : a[i] = s[i]
      /\ a[Len(s) + 1] = x
  BY AppendProperties, LenProperties DEF Nats
<1>. HIDE DEF a
<1>2. \A i \in 1 .. Len(a) : i \in 1 .. Len(s) \/ i = Len(s) + 1
  BY <1>1
<1>3. \A i \in 1 .. Len(s) : i \in 1 .. Len(a)
  BY <1>1
<1>4. Len(s) + 1 \in 1 .. Len(a)
  BY <1>1
<1>5. \A y : y \in Range(a) <=> y \in Range(s) \/ y = x
  BY <1>1, <1>2, <1>3, <1>4, NatSeq
<1>. QED
  BY <1>1, <1>5 DEF a

LEMMA NatTail ==
    ASSUME NEW s \in Nats, s # <<>>
    PROVE  /\ Tail(s) \in Nats /\ Len(s) \in Nat /\ Len(s) > 0 /\ Len(Tail(s)) = Len(s) - 1
           /\ \A i \in 1 .. Len(Tail(s)) : i + 1 \in 1 .. Len(s) /\ Tail(s)[i] = s[i + 1]
           /\ Head(s) = s[1] /\ Head(s) \in Nat
           /\ \A y : y \in Range(s) <=> y \in Range(Tail(s)) \/ y = Head(s)
<1>. DEFINE t == Tail(s)
<1>0. Len(s) \in Nat /\ Len(s) > 0
  BY LenProperties, EmptySeq DEF Nats
<1>1. /\ t \in Nats /\ Len(t) = Len(s) - 1
      /\ \A i \in 1 .. Len(t) : t[i] = s[i + 1]
      /\ Head(s) = s[1] /\ Head(s) \in Nat
  BY <1>0, HeadTailProperties DEF Nats
<1>. HIDE DEF t
<1>2. \A i \in 1 .. Len(t) : i + 1 \in 1 .. Len(s)
  BY <1>0, <1>1
<1>3. \A i \in 1 .. Len(s) : i = 1 \/ (i - 1 \in 1 .. Len(t) /\ (i - 1) + 1 = i)
  BY <1>0, <1>1
<1>4. \A i \in 1 .. Len(s) : i = 1 \/ (i - 1 \in 1 .. Len(t) /\ s[i] = t[i - 1])
  BY <1>1, <1>3
<1>5. 1 \in 1 .. Len(s)
  BY <1>0
<1>6. ASSUME NEW y PROVE y \in Range(s) <=> y \in Range(t) \/ y = Head(s)
  <2>1. y \in Range(s) => y \in Range(t) \/ y = Head(s)
    BY <1>1, <1>4, NatSeq
  <2>2. y \in Range(t) => y \in Range(s)
    BY <1>1, <1>2, NatSeq
  <2>3. Head(s) \in Range(s)
    BY <1>1, <1>5, NatSeq
  <2>. QED
    BY <2>1, <2>2, <2>3
<1>. QED
  BY <1>0, <1>1, <1>2, <1>6 DEF t

LEMMA NatConcat ==
    ASSUME NEW s \in Nats, NEW t \in Nats
    PROVE  /\ s \o t \in Nats /\ Len(s \o t) = Len(s) + Len(t)
           /\ \A i \in 1 .. Len(s) + Len(t) :
                 \/ i \in 1 .. Len(s) /\ (s \o t)[i] = s[i]
                 \/ i > Len(s) /\ i - Len(s) \in 1 .. Len(t) /\ (s \o t)[i] = t[i - Len(s)]
           /\ \A y : y \in Range(s \o t) <=> y \in Range(s) \/ y \in Range(t)
<1>. DEFINE c == s \o t
<1>0. Len(s) \in Nat /\ Len(t) \in Nat
  BY NatSeq
<1>1. /\ c \in Nats /\ Len(c) = Len(s) + Len(t)
      /\ \A i \in 1 .. Len(s) + Len(t) : c[i] = IF i <= Len(s) THEN s[i] ELSE t[i - Len(s)]
  BY ConcatProperties DEF Nats
<1>. HIDE DEF c
<1>2. \A i \in 1 .. Len(s) + Len(t) :
         \/ i \in 1 .. Len(s) /\ c[i] = s[i]
         \/ i > Len(s) /\ i - Len(s) \in 1 .. Len(t) /\ c[i] = t[i - Len(s)]
  BY <1>0, <1>1
<1>3. \A i \in 1 .. Len(s) : i \in 1 .. Len(c) /\ c[i] = s[i]
  BY <1>0, <1>1
<1>4. \A i \in 1 .. Len(t) : i + Len(s) \in 1 .. Len(c) /\ c[i + Len(s)] = t[i]
  <2>1. \A i \in 1 .. Len(t) : i + Len(s) \in 1 .. Len(c) /\ ~(i + Len(s) <= Len(s))
                              /\ (i + Len(s)) - Len(s) = i
    BY <1>0, <1>1
  <2>. QED
    BY <1>1, <2>1
<1>5. ASSUME NEW y PROVE y \in Range(c) <=> y \in Range(s) \/ y \in Range(t)
  <2>1. y \in Range(c) => y \in Range(s) \/ y \in Range(t)
    BY <1>1, <1>2, NatSeq
  <2>2. y \in Range(s) => y \in Range(c)
    BY <1>1, <1>3, NatSeq
  <2>3. ASSUME y \in Range(t) PROVE y \in Range(c)
    <3>1. PICK i \in 1 .. Len(t) : y = t[i]
      BY <2>3, NatSeq
    <3>2. i + Len(s) \in 1 .. Len(c) /\ c[i + Len(s)] = y
      BY <1>4, <3>1
    <3>. QED
      BY <1>1, <3>2, NatSeq
  <2>. QED
    BY <2>1, <2>2, <2>3
<1>. QED
  BY <1>1, <1>2, <1>5 DEF c

(* The end of a sequence, from element m + 1 on.                           *)
LEMMA NatSuffix ==
    ASSUME NEW s \in Nats, NEW m \in 0 .. Len(s)
    PROVE  LET d == SubSeq(s, 1 + m, Len(s))
           IN  /\ d \in Nats /\ Len(d) = Len(s) - m
               /\ \A i \in 1 .. Len(d) : i + m \in 1 .. Len(s) /\ d[i] = s[i + m]
               /\ \A y : y \in Range(d) <=> \E i \in m + 1 .. Len(s) : y = s[i]
<1>. DEFINE d == SubSeq(s, 1 + m, Len(s))
<1>0. Len(s) \in Nat /\ m \in Nat /\ m <= Len(s) /\ 1 + m \in Int /\ Len(s) \in Int
  BY NatSeq
<1>1. \A i \in 1 + m .. Len(s) : s[i] \in Nat
  <2>1. \A i \in 1 + m .. Len(s) : i \in 1 .. Len(s)
    BY <1>0
  <2>. QED
    BY <2>1, NatSeq
<1>2. /\ d \in Nats
      /\ Len(d) = IF 1 + m <= Len(s) THEN Len(s) - (1 + m) + 1 ELSE 0
      /\ \A i \in 1 .. Len(s) - (1 + m) + 1 : d[i] = s[1 + m + i - 1]
  BY <1>0, <1>1, SubSeqProperties DEF Nats
<1>. HIDE DEF d
<1>3. Len(d) = Len(s) - m
  BY <1>0, <1>2
<1>4. \A i \in 1 .. Len(d) : /\ i + m \in 1 .. Len(s) /\ i + m \in m + 1 .. Len(s)
                             /\ i \in 1 .. Len(s) - (1 + m) + 1 /\ 1 + m + i - 1 = i + m
  BY <1>0, <1>3
<1>5. \A i \in 1 .. Len(d) : d[i] = s[i + m]
  BY <1>2, <1>4
<1>6. \A i \in m + 1 .. Len(s) : i - m \in 1 .. Len(d) /\ (i - m) + m = i
  BY <1>0, <1>3
<1>7. \A i \in m + 1 .. Len(s) : i - m \in 1 .. Len(d) /\ d[i - m] = s[i]
  BY <1>5, <1>6
<1>8. ASSUME NEW y PROVE y \in Range(d) <=> \E i \in m + 1 .. Len(s) : y = s[i]
  <2>1. y \in Range(d) <=> \E i \in 1 .. Len(d) : y = d[i]
    BY <1>2, NatSeq
  <2>2. (\E i \in 1 .. Len(d) : y = d[i]) => \E i \in m + 1 .. Len(s) : y = s[i]
    BY <1>4, <1>5
  <2>3. (\E i \in m + 1 .. Len(s) : y = s[i]) => \E i \in 1 .. Len(d) : y = d[i]
    BY <1>7
  <2>. QED
    BY <2>1, <2>2, <2>3
<1>. QED
  BY <1>2, <1>3, <1>4, <1>5, <1>8 DEF d

(* After returns what its name says, of increasing numbers.                *)
LEMMA AfterCursor ==
    ASSUME NEW s \in Nats, Increasing(s), NEW k \in Nat
    PROVE  /\ After(s, k) \in Nats /\ Increasing(After(s, k))
           /\ \A x : x \in Range(After(s, k)) <=> x \in Range(s) /\ x > k
<1>. DEFINE T == {i \in 1 .. Len(s) + 1 : i = Len(s) + 1 \/ s[i] > k}
<1>0. Len(s) \in Nat /\ \A i \in 1 .. Len(s) : s[i] \in Nat
  BY NatSeq
<1>1. PICK m \in T : \A y \in T : m <= y
  <2>1. T \in SUBSET Nat /\ T # {}
    BY <1>0
  <2>. HIDE DEF T
  <2>. QED
    BY <2>1, LeastNumber
<1>2. m \in 1 .. Len(s) + 1 /\ m - 1 \in 0 .. Len(s) /\ 1 + (m - 1) = m
  BY <1>0, <1>1
<1>3. \A i \in 1 .. Len(s) : s[i] <= k <=> i < m
  <2>. SUFFICES ASSUME NEW i \in 1 .. Len(s) PROVE s[i] <= k <=> i < m
    OBVIOUS
  <2>1. i < m => s[i] <= k
    <3>1. i < m => i \notin T
      BY <1>0, <1>1
    <3>2. i \in 1 .. Len(s) + 1 /\ s[i] \in Nat
      BY <1>0
    <3>. QED
      BY <3>1, <3>2
  <2>2. i >= m => s[i] > k
    <3>. SUFFICES ASSUME i >= m PROVE s[i] > k
      OBVIOUS
    <3>1. m \in 1 .. Len(s) /\ s[m] > k /\ s[m] \in Nat
      BY <1>0, <1>1, <1>2
    <3>2. i = m \/ s[m] < s[i]
      BY <1>2, <3>1 DEF Increasing
    <3>. QED
      BY <1>0, <3>1, <3>2
  <2>. QED
    BY <1>0, <1>2, <2>1, <2>2
<1>4. {i \in 1 .. Len(s) : s[i] <= k} = 1 .. m - 1
  BY <1>0, <1>2, <1>3
<1>5. Cardinality(1 .. m - 1) = m - 1
  BY <1>2, FS_Interval
<1>6. After(s, k) = SubSeq(s, 1 + (m - 1), Len(s))
  BY <1>4, <1>5 DEF After
<1>. DEFINE p == m - 1
            d == SubSeq(s, 1 + p, Len(s))
<1>7. p \in 0 .. Len(s)
  BY <1>2
<1>. HIDE DEF p
<1>8. /\ d \in Nats /\ Len(d) = Len(s) - p
      /\ \A i \in 1 .. Len(d) : i + p \in 1 .. Len(s) /\ d[i] = s[i + p]
      /\ \A y : y \in Range(d) <=> \E i \in p + 1 .. Len(s) : y = s[i]
  BY <1>7, NatSuffix
<1>. HIDE DEF d
<1>9. Increasing(d)
  <2>. SUFFICES ASSUME NEW i \in 1 .. Len(d), NEW j \in 1 .. Len(d), i < j PROVE d[i] < d[j]
    BY DEF Increasing
  <2>1. i + p < j + p
    BY <1>0, <1>7, <1>8
  <2>. QED
    BY <1>8, <2>1 DEF Increasing
<1>10. ASSUME NEW x PROVE x \in Range(d) <=> x \in Range(s) /\ x > k
  <2>1. \A i \in p + 1 .. Len(s) : i \in 1 .. Len(s) /\ ~(i < m)
    BY <1>0, <1>2, <1>7 DEF p
  <2>2. \A i \in 1 .. Len(s) : ~(i < m) => i \in p + 1 .. Len(s)
    BY <1>0, <1>2 DEF p
  <2>3. \A i \in 1 .. Len(s) : s[i] > k <=> ~(i < m)
    BY <1>0, <1>3
  <2>4. x \in Range(s) <=> \E i \in 1 .. Len(s) : x = s[i]
    BY NatSeq
  <2>5. x \in Range(d) <=> \E i \in p + 1 .. Len(s) : x = s[i]
    BY <1>8
  <2>6. (\E i \in p + 1 .. Len(s) : x = s[i]) => (\E i \in 1 .. Len(s) : x = s[i]) /\ x > k
    BY <2>1, <2>3
  <2>7. (\E i \in 1 .. Len(s) : x = s[i]) /\ x > k => \E i \in p + 1 .. Len(s) : x = s[i]
    BY <2>2, <2>3
  <2>. QED
    BY <2>4, <2>5, <2>6, <2>7
<1>. QED
  BY <1>6, <1>8, <1>9, <1>10 DEF d, p

LEMMA IncreasingJoin ==
    ASSUME NEW a \in Nats, NEW b \in Nats, Increasing(a), Increasing(b), NEW c \in Nat,
           \A i \in 1 .. Len(a) : a[i] <= c, \A j \in 1 .. Len(b) : c < b[j]
    PROVE  Increasing(a \o b)
<1>. SUFFICES ASSUME NEW i \in 1 .. Len(a \o b), NEW j \in 1 .. Len(a \o b), i < j
              PROVE  (a \o b)[i] < (a \o b)[j]
  BY DEF Increasing
<1>0. /\ Len(a) \in Nat /\ Len(b) \in Nat /\ Len(a \o b) = Len(a) + Len(b)
      /\ \A k \in 1 .. Len(a) : a[k] \in Nat
      /\ \A k \in 1 .. Len(b) : b[k] \in Nat
  BY NatSeq, NatConcat
<1>1. /\ \/ i \in 1 .. Len(a) /\ (a \o b)[i] = a[i]
         \/ i > Len(a) /\ i - Len(a) \in 1 .. Len(b) /\ (a \o b)[i] = b[i - Len(a)]
      /\ \/ j \in 1 .. Len(a) /\ (a \o b)[j] = a[j]
         \/ j > Len(a) /\ j - Len(a) \in 1 .. Len(b) /\ (a \o b)[j] = b[j - Len(a)]
  BY <1>0, NatConcat
<1>2. CASE i \in 1 .. Len(a) /\ j \in 1 .. Len(a)
  BY <1>0, <1>1, <1>2 DEF Increasing
<1>3. CASE i \in 1 .. Len(a) /\ j > Len(a)
  <2>1. a[i] <= c /\ c < b[j - Len(a)] /\ a[i] \in Nat /\ b[j - Len(a)] \in Nat
    BY <1>0, <1>1, <1>3
  <2>2. (a \o b)[i] = a[i] /\ (a \o b)[j] = b[j - Len(a)]
    BY <1>0, <1>1, <1>3
  <2>. QED
    BY <2>1, <2>2
<1>4. CASE i > Len(a) /\ j > Len(a)
  <2>1. i - Len(a) < j - Len(a)
    BY <1>0
  <2>2. i - Len(a) \in 1 .. Len(b) /\ (a \o b)[i] = b[i - Len(a)]
    BY <1>0, <1>1, <1>4
  <2>3. j - Len(a) \in 1 .. Len(b) /\ (a \o b)[j] = b[j - Len(a)]
    BY <1>0, <1>1, <1>4
  <2>. QED
    BY <2>1, <2>2, <2>3 DEF Increasing
<1>. QED
  BY <1>0, <1>1, <1>2, <1>3, <1>4

LEMMA IncreasingAppend ==
    ASSUME NEW a \in Nats, Increasing(a), NEW c \in Nat, NEW x \in Nat, c < x,
           \A i \in 1 .. Len(a) : a[i] <= c
    PROVE  /\ Increasing(Append(a, x))
           /\ \A i \in 1 .. Len(Append(a, x)) : Append(a, x)[i] <= x
<1>. DEFINE b == Append(a, x)
<1>1. /\ b \in Nats /\ Len(b) = Len(a) + 1 /\ Len(a) \in Nat
      /\ \A i \in 1 .. Len(a) : b[i] = a[i] /\ a[i] \in Nat
      /\ b[Len(a) + 1] = x
  BY NatAppend, NatSeq
<1>. HIDE DEF b
<1>2. \A i \in 1 .. Len(b) : (i \in 1 .. Len(a) /\ b[i] = a[i] /\ b[i] < x) \/ (i = Len(a) + 1 /\ b[i] = x)
  BY <1>1
<1>3. \A i \in 1 .. Len(b) : b[i] <= x
  BY <1>1, <1>2
<1>4. Increasing(b)
  <2>. SUFFICES ASSUME NEW i \in 1 .. Len(b), NEW j \in 1 .. Len(b), i < j PROVE b[i] < b[j]
    BY DEF Increasing
  <2>1. i \in 1 .. Len(a) /\ b[i] = a[i] /\ b[i] < x
    BY <1>1, <1>2
  <2>. QED
    BY <1>2, <2>1 DEF Increasing
<1>. QED
  BY <1>3, <1>4 DEF b

-----------------------------------------------------------------------------
(* The log of published events.                                            *)
LEMMA LogTail ==
    ASSUME NEW s \in Nats, s # <<>>, NEW lp \in Nat, Log(s, lp)
    PROVE  /\ Log(Tail(s), lp) /\ Head(s) <= lp
           /\ \A y \in Range(Tail(s)) : Head(s) # Failed /\ (y = Failed \/ Head(s) < y)
<1>. DEFINE t == Tail(s)
<1>1. /\ t \in Nats /\ Len(s) \in Nat /\ Len(s) > 0 /\ Len(t) = Len(s) - 1
      /\ \A i \in 1 .. Len(t) : i + 1 \in 1 .. Len(s) /\ t[i] = s[i + 1]
      /\ Head(s) = s[1] /\ Head(s) \in Nat
  BY NatTail
<1>. HIDE DEF t
<1>2. 1 \in 1 .. Len(s) /\ \A i \in 1 .. Len(t) : 1 < i + 1
  BY <1>1
<1>3. /\ \A i \in 1 .. Len(s) : s[i] <= lp
      /\ \A i, j \in 1 .. Len(s) : i < j => s[i] # Failed /\ (s[j] = Failed \/ s[i] < s[j])
  BY DEF Log
<1>4. Log(t, lp)
  <2>1. \A i \in 1 .. Len(t) : t[i] <= lp
    BY <1>1, <1>3
  <2>2. ASSUME NEW i \in 1 .. Len(t), NEW j \in 1 .. Len(t), i < j
        PROVE  t[i] # Failed /\ (t[j] = Failed \/ t[i] < t[j])
    <3>1. i + 1 < j + 1
      BY <1>1, <2>2
    <3>. QED
      BY <1>1, <1>3, <3>1
  <2>. QED
    BY <2>1, <2>2 DEF Log
<1>5. \A i \in 1 .. Len(t) : s[1] # Failed /\ (t[i] = Failed \/ s[1] < t[i])
  BY <1>1, <1>2, <1>3
<1>6. \A y \in Range(t) : \E i \in 1 .. Len(t) : y = t[i]
  BY <1>1, NatSeq
<1>. QED
  BY <1>1, <1>2, <1>3, <1>4, <1>5, <1>6 DEF t

LEMMA LogHigher ==
    ASSUME NEW s \in Nats, NEW lp \in Nat, NEW lq \in Nat, lp <= lq, Log(s, lp)
    PROVE  Log(s, lq)
<1>1. \A i \in 1 .. Len(s) : s[i] <= lq
  BY NatSeq DEF Log
<1>. QED
  BY <1>1 DEF Log

LEMMA LogNewest ==
    ASSUME NEW s \in Nats
    PROVE  /\ Newest(s) \in Nats /\ Len(Newest(s)) <= EventCap
           /\ Range(Newest(s)) \subseteq Range(s)
           /\ Len(s) <= EventCap => Newest(s) = s
           /\ \A lp : Log(s, lp) => Log(Newest(s), lp)
<1>. DEFINE m == IF Len(s) > EventCap THEN Len(s) - EventCap ELSE 0
            d == SubSeq(s, 1 + m, Len(s))
<1>0. Len(s) \in Nat /\ EventCap \in Nat
  BY NatSeq, EventsAssumption
<1>1. m \in 0 .. Len(s) /\ Len(s) - m <= EventCap
  BY <1>0
<1>2. Newest(s) = d
  BY DEF Newest
<1>3. Len(s) <= EventCap => d = s
  <2>1. Len(s) <= EventCap => m = 0 /\ 1 + m = 1
    BY <1>0
  <2>2. SubSeq(s, 1, Len(s)) = s
    BY SubSeqFull DEF Nats
  <2>. QED
    BY <2>1, <2>2
<1>. HIDE DEF m
<1>4. /\ d \in Nats /\ Len(d) = Len(s) - m
      /\ \A i \in 1 .. Len(d) : i + m \in 1 .. Len(s) /\ d[i] = s[i + m]
      /\ \A y : y \in Range(d) <=> \E i \in m + 1 .. Len(s) : y = s[i]
  BY <1>1, NatSuffix
<1>. HIDE DEF d
<1>5. Range(d) \subseteq Range(s)
  <2>1. \A i \in m + 1 .. Len(s) : i \in 1 .. Len(s)
    BY <1>0, <1>1
  <2>. QED
    BY <1>4, <2>1, NatSeq
<1>6. ASSUME NEW lp, Log(s, lp) PROVE Log(d, lp)
  <2>1. \A i \in 1 .. Len(d) : d[i] <= lp
    BY <1>4, <1>6 DEF Log
  <2>2. ASSUME NEW i \in 1 .. Len(d), NEW j \in 1 .. Len(d), i < j
        PROVE  d[i] # Failed /\ (d[j] = Failed \/ d[i] < d[j])
    <3>1. i + m < j + m
      BY <1>0, <1>1, <1>4, <2>2
    <3>. QED
      BY <1>4, <1>6, <3>1 DEF Log
  <2>. QED
    BY <2>1, <2>2 DEF Log
<1>. QED
  BY <1>0, <1>1, <1>2, <1>3, <1>4, <1>5, <1>6

(* Numbers in a row, and the log when they, or a failure, are published.   *)
LEMMA NumberRun ==
    ASSUME NEW lp \in Nat, NEW n \in Nat
    PROVE  LET es == [i \in 1 .. n |-> lp + i]
           IN  /\ es \in Nats /\ Len(es) = n /\ \A i \in 1 .. n : es[i] = lp + i
               /\ \A y : y \in Range(es) <=> y \in lp + 1 .. lp + n
<1>. DEFINE es == [i \in 1 .. n |-> lp + i]
<1>1. /\ es \in Nats /\ Len(es) = n /\ \A i \in 1 .. n : es[i] = lp + i
  <2>1. \A i \in 1 .. n : lp + i \in Nat
    OBVIOUS
  <2>2. es \in Nats
    BY <2>1, IsASeq DEF Nats
  <2>3. Len(es) = n
    BY <2>2, LenProperties DEF Nats
  <2>. QED
    BY <2>2, <2>3
<1>. HIDE DEF es
<1>2. \A y : y \in Range(es) <=> y \in lp + 1 .. lp + n
  <2>1. \A i \in 1 .. n : lp + i \in lp + 1 .. lp + n
    OBVIOUS
  <2>2. \A y \in lp + 1 .. lp + n : y - lp \in 1 .. n /\ y = lp + (y - lp)
    OBVIOUS
  <2>3. \A y \in lp + 1 .. lp + n : y - lp \in 1 .. n /\ y = es[y - lp]
    BY <1>1, <2>2
  <2>4. \A y : y \in Range(es) <=> \E i \in 1 .. n : y = es[i]
    BY <1>1, NatSeq
  <2>. QED
    BY <1>1, <2>1, <2>3, <2>4
<1>. QED
  BY <1>1, <1>2 DEF es

LEMMA LogNumbers ==
    ASSUME NEW s \in Nats, NEW lp \in Nat, Log(s, lp), Failed \notin Range(s), NEW n \in Nat
    PROVE  LET es == [i \in 1 .. n |-> lp + i]
           IN  /\ es \in Nats /\ s \o es \in Nats /\ Log(s \o es, lp + n)
               /\ Failed \notin Range(s \o es)
               /\ \A y : y \in Range(s \o es) <=> y \in Range(s) \/ y \in lp + 1 .. lp + n
<1>. DEFINE es == [i \in 1 .. n |-> lp + i]
            c == s \o es
<1>1. /\ es \in Nats /\ Len(es) = n /\ \A i \in 1 .. n : es[i] = lp + i
      /\ \A y : y \in Range(es) <=> y \in lp + 1 .. lp + n
  BY NumberRun
<1>2. \A y : y \in Range(es) <=> y \in lp + 1 .. lp + n
  BY <1>1
<1>. HIDE DEF es
<1>3. /\ c \in Nats /\ Len(c) = Len(s) + n /\ Len(s) \in Nat
      /\ \A i \in 1 .. Len(c) :
            \/ i \in 1 .. Len(s) /\ c[i] = s[i]
            \/ i > Len(s) /\ i - Len(s) \in 1 .. n /\ c[i] = lp + (i - Len(s))
      /\ \A y : y \in Range(c) <=> y \in Range(s) \/ y \in lp + 1 .. lp + n
  <2>1. /\ c \in Nats /\ Len(c) = Len(s) + n /\ Len(s) \in Nat
        /\ \A i \in 1 .. Len(c) :
              \/ i \in 1 .. Len(s) /\ c[i] = s[i]
              \/ i > Len(s) /\ i - Len(s) \in 1 .. n /\ c[i] = es[i - Len(s)]
    <3>1. /\ c \in Nats /\ Len(c) = Len(s) + Len(es)
          /\ \A i \in 1 .. Len(s) + Len(es) :
                \/ i \in 1 .. Len(s) /\ c[i] = s[i]
                \/ i > Len(s) /\ i - Len(s) \in 1 .. Len(es) /\ c[i] = es[i - Len(s)]
      BY <1>1, NatConcat
    <3>2. Len(es) = n /\ Len(s) \in Nat
      BY <1>1, NatSeq
    <3>. HIDE DEF c
    <3>. QED
      BY <3>1, <3>2
  <2>2. \A y : y \in Range(c) <=> y \in Range(s) \/ y \in Range(es)
    BY <1>1, NatConcat
  <2>. QED
    BY <1>1, <1>2, <2>1, <2>2
<1>. HIDE DEF c
<1>4. \A i \in 1 .. Len(s) : s[i] \in Nat /\ s[i] # Failed /\ s[i] <= lp
  BY NatSeq DEF Log
<1>5. \A i \in 1 .. Len(c) : c[i] <= lp + n /\ c[i] # Failed
  BY <1>3, <1>4 DEF Failed
<1>6. ASSUME NEW i \in 1 .. Len(c), NEW j \in 1 .. Len(c), i < j PROVE c[i] < c[j]
  <2>1. CASE i \in 1 .. Len(s) /\ j \in 1 .. Len(s)
    <3>1. c[i] = s[i] /\ c[j] = s[j]
      BY <1>3, <2>1
    <3>2. s[j] # Failed /\ (s[j] = Failed \/ s[i] < s[j])
      BY <1>4, <1>6, <2>1 DEF Log
    <3>. QED
      BY <3>1, <3>2
  <2>2. CASE ~(i \in 1 .. Len(s) /\ j \in 1 .. Len(s))
    <3>1. j > Len(s) /\ c[j] = lp + (j - Len(s))
      BY <1>3, <1>6, <2>2
    <3>. QED
      BY <1>3, <1>4, <1>6, <3>1
  <2>. QED
    BY <2>1, <2>2
<1>7. Log(c, lp + n)
  BY <1>5, <1>6 DEF Log
<1>8. Failed \notin Range(c)
  BY <1>3 DEF Failed
<1>. QED
  BY <1>1, <1>3, <1>7, <1>8 DEF c, es

LEMMA LogFailed ==
    ASSUME NEW s \in Nats, NEW lp \in Nat, Log(s, lp), Failed \notin Range(s)
    PROVE  /\ Append(s, Failed) = s \o <<Failed>> /\ Append(s, Failed) \in Nats
           /\ Log(Append(s, Failed), lp)
           /\ \A y : y \in Range(Append(s, Failed)) <=> y \in Range(s) \/ y = Failed
<1>. DEFINE a == Append(s, Failed)
<1>0. Failed \in Nat /\ Failed = 0
  BY DEF Failed
<1>1. /\ a \in Nats /\ Len(a) = Len(s) + 1 /\ Len(s) \in Nat
      /\ \A i \in 1 .. Len(s) : a[i] = s[i] /\ s[i] # Failed
      /\ a[Len(s) + 1] = Failed
      /\ \A y : y \in Range(a) <=> y \in Range(s) \/ y = Failed
  <2>1. \A i \in 1 .. Len(s) : s[i] # Failed
    BY NatSeq
  <2>2. /\ a \in Nats /\ Len(a) = Len(s) + 1
        /\ \A i \in 1 .. Len(s) : a[i] = s[i]
        /\ a[Len(s) + 1] = Failed
        /\ \A y : y \in Range(a) <=> y \in Range(s) \/ y = Failed
    BY <1>0, NatAppend
  <2>3. Len(s) \in Nat
    BY NatSeq
  <2>. QED
    BY <2>1, <2>2, <2>3
<1>2. a = s \o <<Failed>>
  BY <1>0, AppendIsConcat DEF Nats
<1>. HIDE DEF a
<1>3. \A i \in 1 .. Len(a) : (i \in 1 .. Len(s) /\ a[i] = s[i]) \/ (i = Len(s) + 1 /\ a[i] = 0)
  BY <1>0, <1>1
<1>4. \A i \in 1 .. Len(a) : a[i] <= lp
  BY <1>3 DEF Log
<1>5. ASSUME NEW i \in 1 .. Len(a), NEW j \in 1 .. Len(a), i < j
      PROVE  a[i] # Failed /\ (a[j] = Failed \/ a[i] < a[j])
  <2>1. i \in 1 .. Len(s) /\ a[i] = s[i] /\ s[i] # Failed
    BY <1>1, <1>3, <1>5
  <2>2. CASE j \in 1 .. Len(s)
    BY <1>1, <1>5, <2>1, <2>2 DEF Log
  <2>3. CASE j = Len(s) + 1
    BY <1>1, <2>1, <2>3
  <2>. QED
    BY <1>3, <2>2, <2>3
<1>. QED
  BY <1>1, <1>2, <1>4, <1>5 DEF Log, a

(* What is ready to be published is a run of numbers.                      *)
LEMMA ReadyIsRun ==
    ASSUME NEW lp \in Nat, lp = lastPub, NEW n \in Nat, lp <= n, NEW P \in SUBSET (lp + 1 .. n)
    PROVE  \E m \in Nat :
              /\ Ready(P) = lp + 1 .. lp + m /\ Cardinality(Ready(P)) = m
              /\ lp + m <= n
              /\ P \ Ready(P) \subseteq lp + m + 1 .. n
<1>. DEFINE T == {k \in lp + 1 .. n + 1 : k \notin P}
<1>1. PICK t \in T : \A y \in T : t <= y
  <2>1. T \in SUBSET Nat /\ T # {}
    BY DEF T
  <2>. HIDE DEF T
  <2>. QED
    BY <2>1, LeastNumber
<1>2. t \in lp + 1 .. n + 1 /\ t \notin P /\ t \in Nat
  BY <1>1
<1>3. \A k \in lp + 1 .. n + 1 : k < t => k \in P
  <2>. SUFFICES ASSUME NEW k \in lp + 1 .. n + 1, k < t, k \notin P PROVE FALSE
    OBVIOUS
  <2>1. k \in T
    OBVIOUS
  <2>. HIDE DEF T
  <2>2. t <= k
    BY <1>1, <2>1
  <2>. QED
    BY <1>2, <2>2
<1>. HIDE DEF T
<1>4. Ready(P) = {k \in P : \A j \in lp + 1 .. k : j \in P}
  BY DEF Ready
<1>5. \A k \in P : (\A j \in lp + 1 .. k : j \in P) <=> k < t
  <2>. SUFFICES ASSUME NEW k \in P PROVE (\A j \in lp + 1 .. k : j \in P) <=> k < t
    OBVIOUS
  <2>1. k \in lp + 1 .. n
    OBVIOUS
  <2>2. k < t => \A j \in lp + 1 .. k : j \in lp + 1 .. n + 1 /\ j < t
    BY <1>2, <2>1
  <2>3. ~(k < t) => t \in lp + 1 .. k
    BY <1>2, <2>1
  <2>. QED
    BY <1>2, <1>3, <2>2, <2>3
<1>6. Ready(P) = lp + 1 .. t - 1
  <2>1. \A k \in lp + 1 .. t - 1 : k \in lp + 1 .. n + 1 /\ k < t
    BY <1>2
  <2>2. \A k \in P : k < t => k \in lp + 1 .. t - 1
    BY <1>2
  <2>. QED
    BY <1>3, <1>4, <1>5, <2>1, <2>2
<1>. DEFINE m == t - 1 - lp
<1>7. m \in Nat /\ t - 1 = lp + m /\ lp + m <= n /\ t = lp + m + 1
  BY <1>2
<1>. HIDE DEF m
<1>8. Cardinality(lp + 1 .. lp + m) = m
  BY <1>7, FS_Interval
<1>9. P \ Ready(P) \subseteq lp + m + 1 .. n
  <2>. SUFFICES ASSUME NEW k \in P, k \notin Ready(P) PROVE k \in lp + m + 1 .. n
    OBVIOUS
  <2>1. k \in lp + 1 .. n /\ ~(k < t)
    BY <1>4, <1>5
  <2>. QED
    BY <1>2, <1>7, <2>1
<1>. QED
  BY <1>6, <1>7, <1>8, <1>9

-----------------------------------------------------------------------------
(* Numbering more events disturbs no consumer: new output comes after all  *)
(* cursors, and a closed process has none.                                 *)
Grows(n, O, cl, n2, O2, cl2) ==
    /\ n \in Nat /\ n2 \in Nat /\ n <= n2
    /\ O \subseteq O2 /\ O2 \subseteq Nat
    /\ \A k \in O2 : k \in O \/ k > n
    /\ cl => cl2 /\ O2 = O

LEMMA ConsumerGrows ==
    ASSUME NEW n, NEW O, NEW cl, NEW n2, NEW O2, NEW cl2, Grows(n, O, cl, n2, O2, cl2),
           NEW c, NEW cur \in Nat, c.resp \in ReadType, ConsumerOK(c, cur, n, O, cl)
    PROVE  ConsumerOK(c, cur, n2, O2, cl2)
<1>0. n \in Nat /\ n2 \in Nat /\ n <= n2 /\ cur <= n /\ c.resp.next \in Nat
  BY DEF Grows, ConsumerOK, ReadType
<1>1. \A k \in O2 : k <= cur => k \in O
  <2>1. \A k \in O2 : k \in Nat /\ (k \in O \/ k > n)
    BY DEF Grows
  <2>. QED
    BY <1>0, <2>1
<1>2. ASSUME c.pc = "apply" PROVE ReadOK(c.resp, cur, Range(c.got) \cup c.missed, n2, O2, cl2)
  <2>1. ReadOK(c.resp, cur, Range(c.got) \cup c.missed, n, O, cl)
    BY <1>2 DEF ConsumerOK
  <2>2. c.resp.next <= n + 1
    BY <2>1 DEF ReadOK
  <2>3. c.resp.next <= n2 + 1 /\ \A k \in O2 : k < c.resp.next => k \in O
    BY <1>0, <2>2 DEF Grows
  <2>. QED
    BY <2>1, <2>3 DEF ReadOK, Grows
<1>. QED
  BY <1>0, <1>1, <1>2 DEF ConsumerOK, Grows

LEMMA FollowsGrows ==
    ASSUME NEW n, NEW O, NEW cl, NEW n2, NEW O2, NEW cl2, Grows(n, O, cl, n2, O2, cl2),
           NEW m \in McpType, NEW lp \in Nat, lp <= n, FollowsLog(m, O, lp)
    PROVE  FollowsLog(m, O2, lp)
<1>0. n \in Nat /\ \A k \in O2 : k \in Nat /\ (k <= lp => k \in O)
  BY DEF Grows
<1>1. m.replay \in Nats
  BY DEF McpType
<1>2. \A i \in 1 .. Len(m.replay) : m.replay[i] \in Nat /\ m.replay[i] <= lp
  BY <1>1, NatSeq DEF FollowsLog, Log
<1>3. \A i \in 1 .. Len(m.replay) : \A k \in O2 : k <= m.replay[i] => k \in Had(m) \cup Range(m.replay)
  <2>. SUFFICES ASSUME NEW i \in 1 .. Len(m.replay), NEW k \in O2, k <= m.replay[i]
                PROVE  k \in Had(m) \cup Range(m.replay)
    OBVIOUS
  <2>1. k \in O
    BY <1>0, <1>2
  <2>. QED
    BY <2>1 DEF FollowsLog
<1>. QED
  BY <1>0, <1>3 DEF FollowsLog

-----------------------------------------------------------------------------
(* process/read: what is retained, and what is known to be gone, is all    *)
(* the output there is.                                                    *)
LEMMA OutputNumbers ==
    ASSUME ClosingInv
    PROVE  /\ Len(ev) \in Nat
           /\ Outputs(Len(ev)) \subseteq 1 .. Len(ev)
           /\ \A k : k \in Outputs(Len(ev)) <=> k \in 1 .. Len(ev) /\ ev[k] = "output"
           /\ \A c \in Nat : c <= Len(ev) =>
                 \A k : k \in Outputs(c) <=> k \in Outputs(Len(ev)) /\ k <= c
<1>1. Len(ev) \in Nat
  BY DEF ClosingInv, ServerType
<1>. QED
  BY <1>1 DEF Outputs

LEMMA ReadMade ==
    ASSUME ClosingInv, DeliveryType, Numbered, NEW after \in Nat, after <= Len(ev), NEW had,
           \A k \in Outputs(Len(ev)) : k <= after => k \in had
    PROVE  /\ exec_read(after) \in ReadType
           /\ ReadOK(exec_read(after), after, had, Len(ev), Outputs(Len(ev)), closed)
           /\ Outputs(Len(ev)) \subseteq had \cup Range(exec_read(after).chunks) \cup exec_read(after).gone
<1>. DEFINE r == exec_read(after)
            ch == After(output, after)
            O == Outputs(Len(ev))
<1>0. /\ Len(ev) \in Nat /\ O \subseteq 1 .. Len(ev) /\ O \subseteq Nat
  BY OutputNumbers
<1>1. ch \in Nats /\ Increasing(ch) /\ \A x : x \in Range(ch) <=> x \in Range(output) /\ x > after
  BY AfterCursor DEF DeliveryType, Numbered
<1>2. /\ r.chunks = ch /\ r.closed = closed /\ r.gone = {k \in Evicted : k > after}
      /\ r.next = IF ch = <<>> THEN nextSeq ELSE Last(ch) + 1
      /\ r = [chunks |-> r.chunks, next |-> r.next, closed |-> r.closed, gone |-> r.gone]
  BY DEF exec_read
<1>3. Evicted = O \ Range(output) /\ Range(output) \subseteq O
  BY DEF Evicted, Numbered
<1>. HIDE DEF r, ch, O
<1>4. r.gone \subseteq Nat
  BY <1>0, <1>2, <1>3
<1>5. Len(ch) \in Nat /\ \A i \in 1 .. Len(ch) : ch[i] \in Range(ch)
  BY <1>1, NatSeq
<1>6. \A i \in 1 .. Len(ch) : ch[i] \in Nat /\ after < ch[i] /\ ch[i] <= Len(ev)
  <2>1. \A x \in Range(ch) : x \in O /\ x > after
    BY <1>1, <1>3
  <2>2. \A x \in O : x \in Nat /\ x <= Len(ev)
    BY <1>0
  <2>3. \A x \in Range(ch) : x \in Nat /\ after < x /\ x <= Len(ev)
    BY <2>1, <2>2
  <2>. QED
    BY <1>5, <2>3
<1>7. /\ r.next \in Nat /\ after < r.next /\ r.next <= Len(ev) + 1
      /\ \A i \in 1 .. Len(ch) : ch[i] < r.next
  <2>1. CASE ch = <<>>
    BY <1>0, <1>2, <1>6, <2>1 DEF nextSeq
  <2>2. CASE ch # <<>>
    <3>1. Len(ch) > 0 /\ Len(ch) \in 1 .. Len(ch)
      BY <1>1, <1>5, <2>2, EmptySeq DEF Nats
    <3>2. r.next = ch[Len(ch)] + 1
      BY <1>2, <2>2 DEF Last
    <3>3. \A i \in 1 .. Len(ch) : i = Len(ch) \/ ch[i] < ch[Len(ch)]
      BY <1>1, <1>5, <3>1 DEF Increasing
    <3>. QED
      BY <1>0, <1>6, <3>1, <3>2, <3>3
  <2>. QED
    BY <2>1, <2>2
<1>8. r \in ReadType
  <2>1. closed \in BOOLEAN
    BY DEF ClosingInv, ServerType
  <2>. QED
    BY <1>1, <1>2, <1>4, <1>7, <2>1 DEF ReadType
<1>9. O \subseteq had \cup Range(r.chunks) \cup r.gone
  <2>. SUFFICES ASSUME NEW k \in O, k \notin had PROVE k \in Range(ch) \cup r.gone
    BY <1>2
  <2>1. k > after
    BY <1>0 DEF O
  <2>. QED
    BY <1>1, <1>2, <1>3, <2>1
<1>10. ReadOK(r, after, had, Len(ev), O, closed)
  BY <1>1, <1>2, <1>6, <1>7, <1>9 DEF ReadOK
<1>. QED
  BY <1>8, <1>9, <1>10 DEF r, O

(* A consumer that takes over a response.                                  *)
LEMMA Takes ==
    ASSUME NEW c, NEW cur \in Nat, NEW n \in Nat, NEW O \in SUBSET Nat, NEW cl,
           c.got \in Nats, c.resp \in ReadType,
           ConsumerOK(c, cur, n, O, cl), c.pc = "apply"
    PROVE  LET g == c.got \o After(c.resp.chunks, cur)
               ms == c.missed \cup c.resp.gone
           IN  /\ c.resp.next - 1 \in Nat /\ cur <= c.resp.next - 1 /\ c.resp.next - 1 <= n
               /\ g \in Nats /\ Increasing(g)
               /\ g = c.got \o After(c.resp.chunks, cur)
               /\ \A i \in 1 .. Len(g) : g[i] <= c.resp.next - 1
               /\ \A x : x \in Range(g) <=> x \in Range(c.got) \/ x \in Range(c.resp.chunks)
               /\ \A k \in O : k <= c.resp.next - 1 => k \in Range(g) \cup ms
               /\ c.resp.closed => cl /\ O \subseteq Range(g) \cup ms
               /\ c.got \o c.resp.chunks \in Nats /\ Increasing(c.got \o c.resp.chunks)
               /\ \A i \in 1 .. Len(c.got \o c.resp.chunks) : (c.got \o c.resp.chunks)[i] <= c.resp.next - 1
               /\ Range(c.got \o c.resp.chunks) = Range(g)
<1>. DEFINE ch == c.resp.chunks
            nx == c.resp.next
            a == After(ch, cur)
            g == c.got \o a
            h == c.got \o ch
<1>1. /\ ch \in Nats /\ nx \in Nat /\ c.resp.gone \subseteq Nat
  BY DEF ReadType
<1>2. ReadOK(c.resp, cur, Range(c.got) \cup c.missed, n, O, cl)
  BY DEF ConsumerOK
<1>3. /\ Increasing(ch) /\ cur < nx /\ nx <= n + 1
      /\ \A i \in 1 .. Len(ch) : cur < ch[i] /\ ch[i] < nx
  BY <1>2 DEF ReadOK
<1>4. /\ Increasing(c.got) /\ \A i \in 1 .. Len(c.got) : c.got[i] <= cur
  BY DEF ConsumerOK
<1>5. /\ \A k \in O : k < nx => k \in Range(c.got) \cup c.missed \cup Range(ch) \cup c.resp.gone
      /\ c.resp.closed => cl /\ O \subseteq Range(c.got) \cup c.missed \cup Range(ch) \cup c.resp.gone
  BY <1>2 DEF ReadOK
<1>. HIDE DEF ch, nx
<1>6. /\ a \in Nats /\ Increasing(a) /\ \A x : x \in Range(a) <=> x \in Range(ch) /\ x > cur
  BY <1>1, <1>3, AfterCursor
<1>. HIDE DEF a
<1>7. /\ \A x \in Range(ch) : x \in Nat /\ x > cur /\ x < nx
  BY <1>1, <1>3, NatSeq
<1>8. \A x : x \in Range(a) <=> x \in Range(ch)
  BY <1>6, <1>7
<1>9. \A i \in 1 .. Len(a) : a[i] \in Nat /\ a[i] > cur /\ a[i] < nx
  BY <1>6, <1>7, <1>8, NatSeq
<1>10. /\ g \in Nats /\ Increasing(g) /\ h \in Nats /\ Increasing(h)
  BY <1>1, <1>3, <1>4, <1>6, <1>9, IncreasingJoin, NatConcat
<1>11. /\ \A x : x \in Range(g) <=> x \in Range(c.got) \/ x \in Range(ch)
       /\ \A x : x \in Range(h) <=> x \in Range(c.got) \/ x \in Range(ch)
  BY <1>1, <1>6, <1>8, NatConcat
<1>. HIDE DEF g, h
<1>12. nx - 1 \in Nat /\ cur <= nx - 1 /\ nx - 1 <= n
  BY <1>1, <1>3
<1>13. \A x \in Range(c.got) : x \in Nat /\ x <= cur
  BY <1>4, NatSeq
<1>14. \A x \in Range(g) : x <= nx - 1
  BY <1>1, <1>7, <1>11, <1>12, <1>13
<1>15. \A i \in 1 .. Len(g) : g[i] <= nx - 1
  BY <1>10, <1>14, NatSeq
<1>16. Range(h) = Range(g)
  BY <1>11
<1>17. \A i \in 1 .. Len(h) : h[i] <= nx - 1
  BY <1>10, <1>14, <1>16, NatSeq
<1>18. \A k \in O : k <= nx - 1 => k < nx
  BY <1>1
<1>19. \A k \in O : k <= nx - 1 => k \in Range(g) \cup (c.missed \cup c.resp.gone)
  BY <1>5, <1>11, <1>18
<1>20. c.resp.closed => cl /\ O \subseteq Range(g) \cup (c.missed \cup c.resp.gone)
  BY <1>5, <1>11
<1>21. \A x : x \in Range(g) <=> x \in Range(c.got) \/ x \in Range(ch)
  BY <1>11
<1>. QED
  BY <1>10, <1>12, <1>15, <1>16, <1>17, <1>19, <1>20, <1>21 DEF g, h, a, ch, nx

LEMMA EmptyRead ==
    /\ NoResponse \in ReadType /\ NoResponse.chunks = <<>> /\ NoResponse.gone = {}
    /\ Range(<<>>) = {} /\ <<>> \in Nats /\ Len(<<>>) = 0 /\ 1 .. Len(<<>>) = {}
<1>1. <<>> \in Nats
  BY DEF Nats
<1>2. Len(<<>>) = 0 /\ 1 .. Len(<<>>) = {}
  OBVIOUS
<1>3. \A x : x \notin Range(<<>>)
  BY <1>1, <1>2, NatSeq
<1>4. NoResponse \in ReadType
  BY <1>1 DEF NoResponse, ReadType
<1>. QED
  BY <1>1, <1>2, <1>3, <1>4 DEF NoResponse

-----------------------------------------------------------------------------
(* Unified exec.                                                           *)
LEMMA UniApplied ==
    ASSUME uni \in UniType, NEW n \in Nat, NEW O \in SUBSET Nat, NEW cl,
           ConsumerOK(uni, uni.cur, n, O, cl), uni.pc = "apply"
    PROVE  Applied \in UniType /\ ConsumerOK(Applied, Applied.cur, n, O, cl)
<1>. DEFINE r == uni.resp
            g == uni.got \o r.chunks
            ms == uni.missed \cup r.gone
            u == [uni EXCEPT !.pc = "wait", !.got = g, !.missed = ms, !.cur = r.next - 1,
                             !.resp = NoResponse]
<1>1. uni.cur \in Nat /\ uni.got \in Nats /\ r \in ReadType /\ uni.missed \subseteq Nat /\ r.gone \subseteq Nat
  BY DEF UniType, ReadType
<1>2. /\ r.next - 1 \in Nat /\ r.next - 1 <= n
      /\ g \in Nats /\ Increasing(g)
      /\ \A i \in 1 .. Len(g) : g[i] <= r.next - 1
      /\ \A k \in O : k <= r.next - 1 => k \in Range(g) \cup ms
      /\ r.closed => cl /\ O \subseteq Range(g) \cup ms
      /\ \A x \in Range(uni.got) : x \in Range(g)
  <2>1. /\ r.next - 1 \in Nat /\ r.next - 1 <= n
        /\ g \in Nats /\ Increasing(g)
        /\ \A i \in 1 .. Len(g) : g[i] <= r.next - 1
        /\ Range(g) = Range(uni.got \o After(r.chunks, uni.cur))
        /\ \A k \in O : k <= r.next - 1 => k \in Range(uni.got \o After(r.chunks, uni.cur)) \cup ms
        /\ r.closed => cl /\ O \subseteq Range(uni.got \o After(r.chunks, uni.cur)) \cup ms
    BY <1>1, Takes
  <2>2. \A x \in Range(uni.got) : x \in Range(uni.got \o After(r.chunks, uni.cur))
    BY <1>1, Takes
  <2>. HIDE DEF r, g, ms
  <2>. QED
    BY <2>1, <2>2
<1>3. Applied = IF r.closed THEN [u EXCEPT !.pc = "done", !.end = "closed", !.resp = NoResponse] ELSE u
  BY DEF Applied, EndUni
<1>4. uni.end = "closed" => cl /\ O \subseteq Range(uni.got) \cup uni.missed
  BY DEF ConsumerOK
<1>. HIDE DEF r, g
<1>5. u \in UniType /\ u.pc = "wait" /\ u.got = g /\ u.missed = ms /\ u.cur = r.next - 1 /\ u.end = uni.end
  BY <1>1, <1>2, EmptyRead DEF UniType
<1>6. uni.end = "closed" => cl /\ O \subseteq Range(g) \cup ms
  BY <1>2, <1>4
<1>. HIDE DEF u, ms
<1>7. ConsumerOK(u, u.cur, n, O, cl)
  BY <1>2, <1>5, <1>6 DEF ConsumerOK
<1>8. CASE r.closed
  <2>. DEFINE v == [u EXCEPT !.pc = "done", !.end = "closed", !.resp = NoResponse]
  <2>1. /\ v \in UniType /\ v.pc = "done" /\ v.got = g /\ v.missed = ms
        /\ v.cur = r.next - 1 /\ v.end = "closed"
    BY <1>5, EmptyRead DEF UniType, Ends
  <2>. HIDE DEF v
  <2>2. ConsumerOK(v, v.cur, n, O, cl)
    BY <1>2, <1>8, <2>1 DEF ConsumerOK
  <2>. QED
    BY <1>3, <1>8, <2>1, <2>2 DEF v
<1>. QED
  BY <1>3, <1>5, <1>7, <1>8

(* A consumer that fails or is through keeps what it had.                  *)
LEMMA UniEnds ==
    ASSUME uni \in UniType, NEW n, NEW O, NEW cl, ConsumerOK(uni, uni.cur, n, O, cl)
    PROVE  LET v == EndUni(uni, "failed")
           IN  v \in UniType /\ v.pc = "done" /\ ConsumerOK(v, v.cur, n, O, cl)
<1>. DEFINE v == EndUni(uni, "failed")
<1>1. /\ v \in UniType /\ v.pc = "done" /\ v.got = uni.got /\ v.missed = uni.missed
      /\ v.cur = uni.cur /\ v.end = "failed"
  BY EmptyRead DEF EndUni, UniType, Ends
<1>. HIDE DEF v
<1>2. ConsumerOK(v, v.cur, n, O, cl)
  BY <1>1 DEF ConsumerOK
<1>. QED
  BY <1>1, <1>2 DEF v

(* Another program counter, a response, or a new queue.                    *)
LEMMA UniMoves ==
    ASSUME uni \in UniType, NEW n, NEW O, NEW cl, ConsumerOK(uni, uni.cur, n, O, cl),
           NEW p \in {"read", "wait", "apply"}, NEW r \in ReadType,
           p = "apply" => ReadOK(r, uni.cur, Range(uni.got) \cup uni.missed, n, O, cl)
    PROVE  LET v == [uni EXCEPT !.pc = p, !.resp = r]
           IN  v \in UniType /\ v.pc = p /\ ConsumerOK(v, v.cur, n, O, cl)
<1>. DEFINE v == [uni EXCEPT !.pc = p, !.resp = r]
<1>1. /\ v \in UniType /\ v.pc = p /\ v.got = uni.got /\ v.missed = uni.missed
      /\ v.cur = uni.cur /\ v.end = uni.end /\ v.resp = r
  BY DEF UniType
<1>. HIDE DEF v
<1>2. ConsumerOK(v, v.cur, n, O, cl)
  BY <1>1 DEF ConsumerOK
<1>. QED
  BY <1>1, <1>2 DEF v

-----------------------------------------------------------------------------
(* The MCP transport.                                                      *)
LEMMA McpEnds ==
    ASSUME NEW m \in McpType, NEW how \in {"closed", "failed"}, NEW n, NEW O, NEW cl, NEW lp \in Nat,
           ConsumerOK(m, m.last, n, O, cl),
           how = "closed" => cl /\ O \subseteq Range(m.got) \cup m.missed
    PROVE  LET v == EndMcp(m, how)
           IN  /\ v \in McpType /\ v.pc = "done" /\ v.queue = <<>>
               /\ ConsumerOK(v, v.last, n, O, cl) /\ FollowsLog(v, O, lp)
<1>. DEFINE v == EndMcp(m, how)
<1>1. /\ v \in McpType /\ v.pc = "done" /\ v.got = m.got /\ v.missed = m.missed
      /\ v.last = m.last /\ v.end = how /\ v.resp = NoResponse
      /\ v.replay = <<>> /\ v.queue = <<>>
  BY EmptyRead DEF EndMcp, McpType, Ends
<1>. HIDE DEF v
<1>2. ConsumerOK(v, v.last, n, O, cl)
  BY <1>1 DEF ConsumerOK
<1>3. FollowsLog(v, O, lp)
  BY <1>1, EmptyRead DEF FollowsLog, Log
<1>. QED
  BY <1>1, <1>2, <1>3 DEF v

LEMMA McpRecovered ==
    ASSUME mcp \in McpType, NEW n \in Nat, NEW O \in SUBSET Nat, NEW cl, NEW lp \in Nat,
           ConsumerOK(mcp, mcp.last, n, O, cl), FollowsLog(mcp, O, lp), mcp.pc = "apply"
    PROVE  LET v == Recovered(Max2(mcp.last, mcp.resp.next - 1))
           IN  /\ v \in McpType /\ v.pc \in {"recv", "done"}
               /\ v.pc = "recv" => v.queue = mcp.queue
               /\ ConsumerOK(v, v.last, n, O, cl) /\ FollowsLog(v, O, lp)
<1>. DEFINE r == mcp.resp
            g == mcp.got \o After(r.chunks, mcp.last)
            ms == mcp.missed \cup r.gone
            m == [mcp EXCEPT !.pc = "recv", !.got = g, !.missed = ms, !.last = r.next - 1,
                             !.resp = NoResponse]
<1>1. /\ mcp.last \in Nat /\ mcp.got \in Nats /\ r \in ReadType
      /\ mcp.missed \subseteq Nat /\ r.gone \subseteq Nat
  BY DEF McpType, ReadType
<1>2. /\ r.next - 1 \in Nat /\ mcp.last <= r.next - 1 /\ r.next - 1 <= n
      /\ g \in Nats /\ Increasing(g)
      /\ \A i \in 1 .. Len(g) : g[i] <= r.next - 1
      /\ \A x : x \in Range(g) <=> x \in Range(mcp.got) \/ x \in Range(r.chunks)
      /\ \A k \in O : k <= r.next - 1 => k \in Range(g) \cup ms
      /\ r.closed => cl /\ O \subseteq Range(g) \cup ms
  BY <1>1, Takes
<1>3. Max2(mcp.last, r.next - 1) = r.next - 1
  BY <1>1, <1>2 DEF Max2
<1>4. Recovered(Max2(mcp.last, r.next - 1)) = IF r.closed THEN EndMcp(m, "closed") ELSE m
  BY <1>3 DEF Recovered
<1>5. mcp.end = "closed" => cl /\ O \subseteq Range(mcp.got) \cup mcp.missed
  BY DEF ConsumerOK
<1>6. mcp.replay = <<>> /\ Log(mcp.queue, lp) /\ mcp.queue \in Nats
      /\ (~mcp.lagged => \A k \in O : k <= lp => k \in Had(mcp) \cup Range(mcp.replay) \cup Range(mcp.queue))
  BY DEF FollowsLog, McpType
<1>7. Had(mcp) = Range(g) \cup ms
  BY <1>2 DEF Had
<1>. HIDE DEF g
<1>8. /\ m \in McpType /\ m.pc = "recv" /\ m.got = g /\ m.missed = ms /\ m.last = r.next - 1
      /\ m.end = mcp.end /\ m.resp = NoResponse /\ m.replay = mcp.replay /\ m.queue = mcp.queue
      /\ m.lagged = mcp.lagged
  BY <1>1, <1>2, EmptyRead DEF McpType
<1>9. mcp.end = "closed" => cl /\ O \subseteq Range(g) \cup ms
  BY <1>2, <1>5
<1>. HIDE DEF m, ms, r
<1>10. ConsumerOK(m, m.last, n, O, cl)
  BY <1>2, <1>8, <1>9 DEF ConsumerOK
<1>11. Had(m) = Had(mcp)
  BY <1>7, <1>8, EmptyRead DEF Had
<1>12. FollowsLog(m, O, lp)
  BY <1>6, <1>8, <1>11, EmptyRead DEF FollowsLog, Log
<1>13. CASE r.closed
  <2>1. cl /\ O \subseteq Range(m.got) \cup m.missed
    BY <1>2, <1>8, <1>13
  <2>2. LET v == EndMcp(m, "closed")
        IN  /\ v \in McpType /\ v.pc = "done"
            /\ ConsumerOK(v, v.last, n, O, cl) /\ FollowsLog(v, O, lp)
    BY <1>8, <1>10, <2>1, McpEnds
  <2>. QED
    BY <1>4, <1>13, <2>2 DEF r
<1>14. CASE ~r.closed
  BY <1>4, <1>8, <1>10, <1>12, <1>14 DEF r
<1>. QED
  BY <1>13, <1>14

(* The next event is taken: everything before it was had.                  *)
LEMMA Consumed ==
    ASSUME ClosingInv, NEW m \in McpType, m.pc = "recv", NEW lp \in Nat,
           m.resp = NoResponse, NEW k \in Nat, k <= Len(ev),
           ConsumerOK(m, m.last, Len(ev), Outputs(Len(ev)), closed),
           k # Failed => \A j \in Outputs(Len(ev)) : j <= k => j = k \/ j \in Range(m.got) \cup m.missed
    PROVE  LET v == Consume(k, m)
           IN  /\ v \in McpType /\ ConsumerOK(v, v.last, Len(ev), Outputs(Len(ev)), closed)
               /\ \/ v.pc = "done" /\ v.queue = <<>> /\ FollowsLog(v, Outputs(Len(ev)), lp)
                  \/ /\ k # Failed /\ v.pc = "recv" /\ v.resp = NoResponse
                     /\ v.replay = m.replay /\ v.queue = m.queue /\ v.lagged = m.lagged
                     /\ v.missed = m.missed /\ Range(m.got) \subseteq Range(v.got)
                     /\ k \in Outputs(Len(ev)) => k \in Range(v.got) \cup v.missed
<1>. DEFINE O == Outputs(Len(ev))
            n == Len(ev)
            hd == Range(m.got) \cup m.missed
<1>0. /\ n \in Nat /\ O \subseteq 1 .. n /\ O \subseteq Nat
      /\ \A j : j \in O <=> j \in 1 .. n /\ ev[j] = "output"
  BY OutputNumbers
<1>1. /\ m.last \in Nat /\ m.got \in Nats /\ m.missed \subseteq Nat /\ m.end \in Ends
  BY DEF McpType
<1>2. /\ m.last <= n /\ Increasing(m.got) /\ \A i \in 1 .. Len(m.got) : m.got[i] <= m.last
      /\ \A j \in O : j <= m.last => j \in hd
      /\ m.end = "closed" => closed /\ O \subseteq hd
  BY DEF ConsumerOK
<1>. HIDE DEF O, hd
<1>3. CASE k = Failed
  <2>1. Consume(k, m) = EndMcp(m, "failed")
    BY <1>3 DEF Consume
  <2>2. ConsumerOK(m, m.last, n, O, closed)
    BY DEF O
  <2>3. LET v == EndMcp(m, "failed")
        IN  /\ v \in McpType /\ v.pc = "done" /\ v.queue = <<>>
            /\ ConsumerOK(v, v.last, n, O, closed) /\ FollowsLog(v, O, lp)
    BY <2>2, McpEnds
  <2>. QED
    BY <2>1, <2>3 DEF O
<1>4. CASE k # Failed
  <2>1. k \in 1 .. n /\ ev[k] \in {"output", "exited", "closed"}
    BY <1>0, <1>4 DEF ClosingInv, ServerType, Failed
  <2>2. \A j \in O : j <= k => j = k \/ j \in hd
    BY <1>4 DEF O, hd
  <2>3. CASE ev[k] \in {"exited", "closed"}
    <3>. DEFINE l == Max2(m.last, k)
                w == [m EXCEPT !.last = l]
    <3>1. l \in Nat /\ l <= n /\ (l = k \/ l = m.last) /\ m.last <= l
      BY <1>0, <1>1, <1>2, <2>1 DEF Max2
    <3>2. k \notin O
      BY <1>0, <2>3
    <3>3. /\ w \in McpType /\ w.pc = "recv" /\ w.got = m.got /\ w.missed = m.missed /\ w.last = l
          /\ w.end = m.end /\ w.resp = NoResponse
          /\ w.replay = m.replay /\ w.queue = m.queue /\ w.lagged = m.lagged
      BY <3>1 DEF McpType
    <3>. HIDE DEF l, w
    <3>4. \A j \in O : j <= l => j \in hd
      BY <1>2, <2>2, <3>1, <3>2
    <3>5. \A i \in 1 .. Len(m.got) : m.got[i] <= l
      BY <1>1, <1>2, <3>1, NatSeq
    <3>6. ConsumerOK(w, w.last, n, O, closed)
      BY <1>2, <3>1, <3>3, <3>4, <3>5 DEF ConsumerOK, hd
    <3>7. CASE ev[k] = "exited"
      <4>1. Consume(k, m) = w
        BY <1>4, <3>7 DEF Consume, w, l
      <4>. QED
        BY <1>4, <3>2, <3>3, <3>6, <4>1 DEF O
    <3>8. CASE ev[k] = "closed"
      <4>1. Consume(k, m) = EndMcp(w, "closed")
        BY <1>4, <3>8 DEF Consume, w, l
      <4>2. k = n /\ closed
        BY <2>1, <3>8 DEF ClosingInv, ClosedIsLast, ClosedNumbered, ServerType
      <4>3. O \subseteq Range(w.got) \cup w.missed
        <5>1. \A j \in O : j <= k
          BY <1>0, <4>2
        <5>. QED
          BY <2>2, <3>2, <3>3, <5>1 DEF hd
      <4>4. LET v == EndMcp(w, "closed")
            IN  /\ v \in McpType /\ v.pc = "done" /\ v.queue = <<>>
                /\ ConsumerOK(v, v.last, n, O, closed) /\ FollowsLog(v, O, lp)
        BY <3>3, <3>6, <4>2, <4>3, McpEnds
      <4>. QED
        BY <4>1, <4>4 DEF O
    <3>. QED
      BY <2>3, <3>7, <3>8
  <2>4. CASE ev[k] = "output" /\ k > m.last
    <3>. DEFINE g == Append(m.got, k)
                w == [m EXCEPT !.last = k, !.got = g]
    <3>1. Consume(k, m) = w
      BY <1>4, <2>4 DEF Consume
    <3>2. g \in Nats /\ \A y : y \in Range(g) <=> y \in Range(m.got) \/ y = k
      BY <1>1, NatAppend
    <3>3. Increasing(g) /\ \A i \in 1 .. Len(g) : g[i] <= k
      BY <1>1, <1>2, <2>4, IncreasingAppend
    <3>. HIDE DEF g
    <3>4. /\ w \in McpType /\ w.pc = "recv" /\ w.got = g /\ w.missed = m.missed /\ w.last = k
          /\ w.end = m.end /\ w.resp = NoResponse
          /\ w.replay = m.replay /\ w.queue = m.queue /\ w.lagged = m.lagged
      BY <3>2 DEF McpType
    <3>. HIDE DEF w
    <3>5. \A j \in O : j <= k => j \in Range(g) \cup m.missed
      BY <2>2, <3>2 DEF hd
    <3>6. m.end = "closed" => closed /\ O \subseteq Range(g) \cup m.missed
      BY <1>2, <3>2 DEF hd
    <3>7. ConsumerOK(w, w.last, n, O, closed)
      BY <3>3, <3>4, <3>5, <3>6 DEF ConsumerOK
    <3>8. Range(m.got) \subseteq Range(w.got) /\ k \in Range(w.got)
      BY <3>2, <3>4
    <3>. QED
      BY <1>4, <3>1, <3>4, <3>7, <3>8 DEF O
  <2>5. CASE ev[k] = "output" /\ ~(k > m.last)
    <3>1. Consume(k, m) = m
      BY <1>4, <2>5 DEF Consume
    <3>2. k \in O => k \in Range(m.got) \cup m.missed
      BY <1>1, <1>2, <2>5 DEF hd
    <3>. QED
      BY <1>4, <3>1, <3>2 DEF O
  <2>. QED
    BY <2>1, <2>3, <2>4, <2>5
<1>. QED
  BY <1>3, <1>4

(* What is taken from the log stays covered.                               *)
LEMMA FollowsOn ==
    ASSUME mcp \in McpType, mcp.pc = "recv", NEW O, NEW lp \in Nat, FollowsLog(mcp, O, lp),
           NEW v \in McpType, v.pc = "recv", v.resp = NoResponse, v.lagged = mcp.lagged,
           Log(v.replay, lp), Log(v.queue, lp), Range(v.replay) \subseteq Range(mcp.replay),
           \A j \in O : j \in Had(mcp) \cup Range(mcp.replay) => j \in Had(v) \cup Range(v.replay),
           \A j \in O : j \in Range(mcp.queue) => j \in Had(v) \cup Range(v.queue)
    PROVE  FollowsLog(v, O, lp)
<1>0. v.replay \in Nats /\ mcp.replay \in Nats
  BY DEF McpType
<1>1. \A i \in 1 .. Len(v.replay) : \A k \in O :
         k <= v.replay[i] => k \in Had(v) \cup Range(v.replay)
  <2>. SUFFICES ASSUME NEW i \in 1 .. Len(v.replay), NEW k \in O, k <= v.replay[i]
                PROVE  k \in Had(v) \cup Range(v.replay)
    OBVIOUS
  <2>1. v.replay[i] \in Range(mcp.replay)
    BY <1>0, NatSeq
  <2>2. PICK h \in 1 .. Len(mcp.replay) : v.replay[i] = mcp.replay[h]
    BY <1>0, <2>1, NatSeq
  <2>3. k \in Had(mcp) \cup Range(mcp.replay)
    BY <2>2 DEF FollowsLog
  <2>. QED
    BY <2>3
<1>2. ~v.lagged => \A k \in O : k <= lp => k \in Had(v) \cup Range(v.replay) \cup Range(v.queue)
  <2>1. ~v.lagged => \A k \in O : k <= lp =>
           k \in Had(mcp) \cup Range(mcp.replay) \cup Range(mcp.queue)
    BY DEF FollowsLog
  <2>. QED
    BY <2>1
<1>. QED
  BY <1>1, <1>2 DEF FollowsLog

LEMMA ReplayConsumed ==
    ASSUME ClosingInv, DeliveryInv, mcp.pc = "recv", mcp.replay # <<>>
    PROVE  LET v == Consume(Head(mcp.replay), [mcp EXCEPT !.replay = Tail(@)])
           IN  /\ v \in McpType /\ v.pc \in {"recv", "done"}
               /\ v.pc = "recv" => Range(v.queue) \subseteq Range(mcp.queue)
               /\ ConsumerOK(v, v.last, Len(ev), Outputs(Len(ev)), closed)
               /\ FollowsLog(v, Outputs(Len(ev)), lastPub)
<1>. DEFINE O == Outputs(Len(ev))
            k == Head(mcp.replay)
            t == Tail(mcp.replay)
            m == [mcp EXCEPT !.replay = Tail(@)]
            v == Consume(k, m)
<1>0. /\ mcp \in McpType /\ mcp.replay \in Nats /\ mcp.queue \in Nats
      /\ FollowsLog(mcp, O, lastPub) /\ ConsumerOK(mcp, mcp.last, Len(ev), O, closed)
      /\ lastPub \in Nat /\ lastPub <= Len(ev) /\ Len(ev) \in Nat
  BY OutputNumbers DEF DeliveryInv, DeliveryType, Numbered, McpType
<1>1. O \subseteq 1 .. Len(ev)
  BY OutputNumbers
<1>2. /\ t \in Nats /\ Len(mcp.replay) \in Nat /\ Len(mcp.replay) > 0
      /\ k = mcp.replay[1] /\ k \in Nat
      /\ \A y : y \in Range(mcp.replay) <=> y \in Range(t) \/ y = k
  BY <1>0, NatTail
<1>3. /\ mcp.resp = NoResponse /\ Log(mcp.replay, lastPub) /\ Log(mcp.queue, lastPub)
      /\ \A i \in 1 .. Len(mcp.replay) : \A j \in O :
            j <= mcp.replay[i] => j \in Had(mcp) \cup Range(mcp.replay)
  BY <1>0 DEF FollowsLog
<1>4. /\ Log(t, lastPub) /\ k <= lastPub
      /\ \A y \in Range(t) : k # Failed /\ (y = Failed \/ k < y)
  BY <1>0, <1>3, LogTail
<1>5. Had(mcp) = Range(mcp.got) \cup mcp.missed
  BY <1>3, EmptyRead DEF Had
<1>. HIDE DEF O, t, k
<1>6. /\ m \in McpType /\ m.pc = "recv" /\ m.got = mcp.got /\ m.missed = mcp.missed
      /\ m.last = mcp.last /\ m.resp = NoResponse /\ m.replay = t /\ m.queue = mcp.queue
      /\ m.lagged = mcp.lagged /\ m.end = mcp.end
  BY <1>0, <1>2, <1>3 DEF McpType, t
<1>7. \A j \in O : j <= k => j = k \/ j \in Range(mcp.got) \cup mcp.missed
  <2>. SUFFICES ASSUME NEW j \in O, j <= k PROVE j = k \/ j \in Range(mcp.got) \cup mcp.missed
    OBVIOUS
  <2>1. j \in Had(mcp) \cup Range(mcp.replay)
    BY <1>2, <1>3
  <2>2. j \notin Range(t)
    BY <1>1, <1>2, <1>4 DEF Failed
  <2>. QED
    BY <1>2, <1>5, <2>1, <2>2
<1>. HIDE DEF m
<1>8. ConsumerOK(m, m.last, Len(ev), O, closed)
  BY <1>0, <1>6 DEF ConsumerOK
<1>9. k <= Len(ev)
  BY <1>0, <1>2, <1>4
<1>10. /\ v \in McpType /\ ConsumerOK(v, v.last, Len(ev), O, closed)
       /\ \/ v.pc = "done" /\ v.queue = <<>> /\ FollowsLog(v, O, lastPub)
          \/ /\ k # Failed /\ v.pc = "recv" /\ v.resp = NoResponse
             /\ v.replay = m.replay /\ v.queue = m.queue /\ v.lagged = m.lagged
             /\ v.missed = m.missed /\ Range(m.got) \subseteq Range(v.got)
             /\ k \in O => k \in Range(v.got) \cup v.missed
  <2>1. k # Failed => \A j \in O : j <= k => j = k \/ j \in Range(m.got) \cup m.missed
    BY <1>6, <1>7
  <2>2. k \in Nat /\ lastPub \in Nat /\ m \in McpType /\ m.pc = "recv" /\ m.resp = NoResponse
    BY <1>0, <1>2, <1>6
  <2>. QED
    BY <1>8, <1>9, <2>1, <2>2, Consumed DEF O
<1>. HIDE DEF v
<1>11. CASE v.pc = "done"
  BY <1>10, <1>11 DEF v, m, k, t, O
<1>12. CASE v.pc = "recv"
  <2>1. Had(mcp) \subseteq Had(v) /\ (k \in O => k \in Had(v))
    BY <1>5, <1>6, <1>10, <1>12 DEF Had
  <2>2. v.replay = t /\ v.queue = mcp.queue /\ v.lagged = mcp.lagged /\ v.resp = NoResponse
    BY <1>6, <1>10, <1>12
  <2>3. FollowsLog(v, O, lastPub)
    BY <1>0, <1>2, <1>3, <1>4, <1>10, <1>12, <2>1, <2>2, FollowsOn
  <2>. QED
    BY <1>10, <1>12, <2>2, <2>3 DEF v, m, k, t, O
<1>. QED
  BY <1>10, <1>11, <1>12

LEMMA QueueConsumed ==
    ASSUME ClosingInv, DeliveryInv, mcp.pc = "recv", mcp.replay = <<>>, ~mcp.lagged, mcp.queue # <<>>
    PROVE  LET v == Consume(Head(mcp.queue), [mcp EXCEPT !.queue = Tail(@)])
           IN  /\ v \in McpType /\ v.pc \in {"recv", "done"}
               /\ v.pc = "recv" => Range(v.queue) \subseteq Range(mcp.queue)
               /\ ConsumerOK(v, v.last, Len(ev), Outputs(Len(ev)), closed)
               /\ FollowsLog(v, Outputs(Len(ev)), lastPub)
<1>. DEFINE O == Outputs(Len(ev))
            k == Head(mcp.queue)
            t == Tail(mcp.queue)
            m == [mcp EXCEPT !.queue = Tail(@)]
            v == Consume(k, m)
<1>0. /\ mcp \in McpType /\ mcp.replay \in Nats /\ mcp.queue \in Nats
      /\ FollowsLog(mcp, O, lastPub) /\ ConsumerOK(mcp, mcp.last, Len(ev), O, closed)
      /\ lastPub \in Nat /\ lastPub <= Len(ev) /\ Len(ev) \in Nat
  BY OutputNumbers DEF DeliveryInv, DeliveryType, Numbered, McpType
<1>1. O \subseteq 1 .. Len(ev)
  BY OutputNumbers
<1>2. /\ t \in Nats /\ k \in Nat
      /\ \A y : y \in Range(mcp.queue) <=> y \in Range(t) \/ y = k
  BY <1>0, NatTail
<1>3. /\ mcp.resp = NoResponse /\ Log(mcp.replay, lastPub) /\ Log(mcp.queue, lastPub)
      /\ \A j \in O : j <= lastPub => j \in Had(mcp) \cup Range(mcp.replay) \cup Range(mcp.queue)
  BY <1>0 DEF FollowsLog
<1>4. /\ Log(t, lastPub) /\ k <= lastPub
      /\ \A y \in Range(t) : k # Failed /\ (y = Failed \/ k < y)
  BY <1>0, <1>3, LogTail
<1>5. Had(mcp) = Range(mcp.got) \cup mcp.missed /\ Range(mcp.replay) = {}
  BY <1>3, EmptyRead DEF Had
<1>. HIDE DEF O, t, k
<1>6. /\ m \in McpType /\ m.pc = "recv" /\ m.got = mcp.got /\ m.missed = mcp.missed
      /\ m.last = mcp.last /\ m.resp = NoResponse /\ m.replay = mcp.replay /\ m.queue = t
      /\ m.lagged = mcp.lagged /\ m.end = mcp.end
  BY <1>0, <1>2, <1>3 DEF McpType, t
<1>7. \A j \in O : j <= k => j = k \/ j \in Range(mcp.got) \cup mcp.missed
  <2>. SUFFICES ASSUME NEW j \in O, j <= k PROVE j = k \/ j \in Range(mcp.got) \cup mcp.missed
    OBVIOUS
  <2>0. j <= lastPub
    BY <1>0, <1>1, <1>2, <1>4
  <2>1. j \in Had(mcp) \cup Range(mcp.queue)
    BY <1>3, <1>5, <2>0
  <2>2. j \notin Range(t)
    BY <1>1, <1>2, <1>4 DEF Failed
  <2>. QED
    BY <1>2, <1>5, <2>1, <2>2
<1>. HIDE DEF m
<1>8. ConsumerOK(m, m.last, Len(ev), O, closed)
  BY <1>0, <1>6 DEF ConsumerOK
<1>9. k <= Len(ev)
  BY <1>0, <1>2, <1>4
<1>10. /\ v \in McpType /\ ConsumerOK(v, v.last, Len(ev), O, closed)
       /\ \/ v.pc = "done" /\ v.queue = <<>> /\ FollowsLog(v, O, lastPub)
          \/ /\ k # Failed /\ v.pc = "recv" /\ v.resp = NoResponse
             /\ v.replay = m.replay /\ v.queue = m.queue /\ v.lagged = m.lagged
             /\ v.missed = m.missed /\ Range(m.got) \subseteq Range(v.got)
             /\ k \in O => k \in Range(v.got) \cup v.missed
  <2>1. k # Failed => \A j \in O : j <= k => j = k \/ j \in Range(m.got) \cup m.missed
    BY <1>6, <1>7
  <2>2. k \in Nat /\ lastPub \in Nat /\ m \in McpType /\ m.pc = "recv" /\ m.resp = NoResponse
    BY <1>0, <1>2, <1>6
  <2>. QED
    BY <1>8, <1>9, <2>1, <2>2, Consumed DEF O
<1>. HIDE DEF v
<1>11. CASE v.pc = "done"
  BY <1>10, <1>11 DEF v, m, k, t, O
<1>12. CASE v.pc = "recv"
  <2>1. Had(mcp) \subseteq Had(v) /\ (k \in O => k \in Had(v))
    BY <1>5, <1>6, <1>10, <1>12 DEF Had
  <2>2. v.replay = mcp.replay /\ v.queue = t /\ v.lagged = mcp.lagged /\ v.resp = NoResponse
    BY <1>6, <1>10, <1>12
  <2>3. Range(t) \subseteq Range(mcp.queue)
    BY <1>2
  <2>4. FollowsLog(v, O, lastPub)
    BY <1>0, <1>2, <1>3, <1>4, <1>10, <1>12, <2>1, <2>2, FollowsOn
  <2>. QED
    BY <1>10, <1>12, <2>2, <2>3, <2>4 DEF v, m, k, t, O
<1>. QED
  BY <1>10, <1>11, <1>12

-----------------------------------------------------------------------------
(* The steps of the consumers.                                             *)
LEMMA SameOutputs ==
    ASSUME UNCHANGED ev
    PROVE  Outputs(Len(ev))' = Outputs(Len(ev)) /\ Len(ev)' = Len(ev)
  BY DEF Outputs

LEMMA TransportMoves ==
    ASSUME DeliveryInv, UNCHANGED <<server, up, chan, client, uni>>, mcp.pc # "done",
           mcp' \in McpType, mcp'.pc # "start",
           mcp'.pc # "done" => Range(mcp'.queue) \subseteq Range(mcp.queue),
           ConsumerOK(mcp', mcp'.last, Len(ev), Outputs(Len(ev)), closed),
           FollowsLog(mcp', Outputs(Len(ev)), lastPub)
    PROVE  DeliveryInv'
<1>0. UNCHANGED <<ev, output, closed, task, up, chan, routed, lastPub, pending, failure, wake, hist, uni>>
  BY DEF server, client
<1>1. Outputs(Len(ev))' = Outputs(Len(ev)) /\ Len(ev)' = Len(ev)
  BY <1>0, SameOutputs
<1>2. DeliveryType'
  BY <1>0 DEF DeliveryInv, DeliveryType
<1>3. Numbered'
  BY <1>0, <1>1 DEF DeliveryInv, Numbered
<1>4. FailureLast'
  BY <1>0 DEF DeliveryInv, FailureLast
<1>5. ConsumerOK(uni', uni'.cur, Len(ev)', Outputs(Len(ev))', closed')
  BY <1>0, <1>1 DEF DeliveryInv
<1>. QED
  BY <1>0, <1>1, <1>2, <1>3, <1>4, <1>5 DEF DeliveryInv

LEMMA OneConsumer ==
    ASSUME DeliveryInv, UNCHANGED <<server, up, chan, routed, lastPub, pending>>,
           failure' \in BOOLEAN, wake' \in BOOLEAN, hist' \in Nats,
           mcp' \in McpType, mcp'.pc = "done", uni' \in UniType,
           ConsumerOK(mcp', mcp'.last, Len(ev), Outputs(Len(ev)), closed),
           FollowsLog(mcp', Outputs(Len(ev)), lastPub),
           ConsumerOK(uni', uni'.cur, Len(ev), Outputs(Len(ev)), closed)
    PROVE  DeliveryInv'
<1>0. UNCHANGED <<ev, output, closed, task, up, chan, routed, lastPub, pending>>
  BY DEF server
<1>1. Outputs(Len(ev))' = Outputs(Len(ev)) /\ Len(ev)' = Len(ev)
  BY <1>0, SameOutputs
<1>2. DeliveryType'
  BY <1>0 DEF DeliveryInv, DeliveryType
<1>3. Numbered'
  BY <1>0, <1>1 DEF DeliveryInv, Numbered
<1>4. FailureLast'
  BY DEF FailureLast
<1>. QED
  BY <1>0, <1>1, <1>2, <1>3, <1>4 DEF DeliveryInv

LEMMA FailureSet ==
    ASSUME DeliveryType, SetFailure
    PROVE  /\ failure' \in BOOLEAN /\ wake' \in BOOLEAN /\ hist' \in Nats
           /\ UNCHANGED <<lastPub, pending>>
<1>1. hist \in Nats /\ Append(hist, Failed) \in Nats
  BY NatAppend DEF DeliveryType, Failed
<1>2. Newest(Append(hist, Failed)) \in Nats
  BY <1>1, LogNewest
<1>. QED
  BY <1>1, <1>2 DEF SetFailure

LEMMA SubscribeStep == ClosingInv /\ DeliveryInv /\ Subscribe => DeliveryInv'
<1>. SUFFICES ASSUME ClosingInv, DeliveryInv, Subscribe PROVE DeliveryInv'
  OBVIOUS
<1>. DEFINE O == Outputs(Len(ev))
            ms == (1 .. lastPub) \ Range(hist)
            v == [mcp EXCEPT !.pc = "recv", !.replay = hist, !.missed = ms]
<1>0. /\ mcp.pc = "start" /\ mcp' = v /\ UNCHANGED <<server, up, chan, client, uni>>
  BY DEF Subscribe
<1>1. /\ mcp \in McpType /\ hist \in Nats /\ lastPub \in Nat /\ Log(hist, lastPub)
      /\ FollowsLog(mcp, O, lastPub) /\ ConsumerOK(mcp, mcp.last, Len(ev), O, closed)
  BY <1>0 DEF DeliveryInv, DeliveryType, FailureLast
<1>2. /\ mcp.missed = {} /\ mcp.resp = NoResponse /\ mcp.queue = <<>>
  BY <1>0, <1>1 DEF FollowsLog
<1>3. O \subseteq 1 .. Len(ev) /\ Len(ev) \in Nat
  BY OutputNumbers
<1>4. ms \subseteq Nat
  BY <1>1
<1>5. \A k \in O : k <= lastPub => k \in ms \cup Range(hist)
  BY <1>1, <1>3
<1>. HIDE DEF ms, O
<1>6. /\ v \in McpType /\ v.pc = "recv" /\ v.got = mcp.got /\ v.missed = ms
      /\ v.last = mcp.last /\ v.resp = NoResponse /\ v.replay = hist /\ v.queue = <<>>
      /\ v.lagged = mcp.lagged /\ v.end = mcp.end
  BY <1>1, <1>2, <1>4 DEF McpType
<1>. HIDE DEF v
<1>7. ConsumerOK(v, v.last, Len(ev), O, closed)
  BY <1>1, <1>2, <1>6 DEF ConsumerOK
<1>8. FollowsLog(v, O, lastPub)
  <2>1. \A i \in 1 .. Len(hist) : hist[i] \in Nat /\ hist[i] <= lastPub
    BY <1>1, NatSeq DEF Log
  <2>2. \A k \in O : k \in Nat
    BY <1>3
  <2>3. \A k \in O : \A i \in 1 .. Len(hist) : k <= hist[i] => k <= lastPub
    BY <1>1, <2>1, <2>2
  <2>4. \A k \in O : k <= lastPub => k \in Had(v) \cup Range(hist)
    BY <1>5, <1>6 DEF Had
  <2>5. Log(<<>>, lastPub)
    BY EmptyRead DEF Log
  <2>. QED
    BY <1>1, <1>6, <2>3, <2>4, <2>5 DEF FollowsLog
<1>. QED
  BY <1>0, <1>6, <1>7, <1>8, EmptyRead, TransportMoves DEF O

LEMMA ReceiveStep == ClosingInv /\ DeliveryInv /\ Receive => DeliveryInv'
<1>. SUFFICES ASSUME ClosingInv, DeliveryInv, Receive PROVE DeliveryInv'
  OBVIOUS
<1>. DEFINE O == Outputs(Len(ev))
<1>0. mcp.pc = "recv" /\ UNCHANGED <<server, up, chan, client, uni>>
  BY DEF Receive
<1>1. /\ mcp \in McpType
      /\ FollowsLog(mcp, O, lastPub) /\ ConsumerOK(mcp, mcp.last, Len(ev), O, closed)
  BY DEF DeliveryInv, DeliveryType
<1>2. CASE mcp.replay # <<>> /\ mcp' = Consume(Head(mcp.replay), [mcp EXCEPT !.replay = Tail(@)])
  <2>1. /\ mcp' \in McpType /\ mcp'.pc \in {"recv", "done"}
        /\ mcp'.pc = "recv" => Range(mcp'.queue) \subseteq Range(mcp.queue)
        /\ ConsumerOK(mcp', mcp'.last, Len(ev), Outputs(Len(ev)), closed)
        /\ FollowsLog(mcp', Outputs(Len(ev)), lastPub)
    BY <1>0, <1>2, ReplayConsumed
  <2>. QED
    BY <1>0, <2>1, TransportMoves
<1>3. CASE /\ mcp.replay = <<>> /\ ~mcp.lagged /\ mcp.queue # <<>>
           /\ mcp' = Consume(Head(mcp.queue), [mcp EXCEPT !.queue = Tail(@)])
  <2>1. /\ mcp' \in McpType /\ mcp'.pc \in {"recv", "done"}
        /\ mcp'.pc = "recv" => Range(mcp'.queue) \subseteq Range(mcp.queue)
        /\ ConsumerOK(mcp', mcp'.last, Len(ev), Outputs(Len(ev)), closed)
        /\ FollowsLog(mcp', Outputs(Len(ev)), lastPub)
    BY <1>0, <1>3, QueueConsumed
  <2>. QED
    BY <1>0, <2>1, TransportMoves
<1>4. CASE mcp.replay = <<>> /\ mcp.lagged /\ mcp' = [mcp EXCEPT !.pc = "recover", !.lagged = FALSE]
  <2>. DEFINE v == [mcp EXCEPT !.pc = "recover", !.lagged = FALSE]
  <2>. HIDE DEF O
  <2>1. /\ v \in McpType /\ v.pc = "recover" /\ v.got = mcp.got /\ v.missed = mcp.missed
        /\ v.last = mcp.last /\ v.resp = mcp.resp /\ v.replay = mcp.replay /\ v.queue = mcp.queue
        /\ v.lagged = FALSE /\ v.end = mcp.end
    BY <1>1 DEF McpType
  <2>. HIDE DEF v
  <2>2. ConsumerOK(v, v.last, Len(ev), O, closed)
    BY <1>1, <2>1 DEF ConsumerOK
  <2>3. Had(v) = Had(mcp)
    BY <2>1 DEF Had
  <2>4. FollowsLog(v, O, lastPub)
    BY <1>0, <1>1, <1>4, <2>1, <2>3, EmptyRead DEF FollowsLog
  <2>5. mcp' = v
    BY <1>4 DEF v
  <2>. QED
    BY <1>0, <2>1, <2>2, <2>4, <2>5, TransportMoves DEF O
<1>. QED
  BY <1>2, <1>3, <1>4 DEF Receive

LEMMA RecoverStep == ClosingInv /\ DeliveryInv /\ Recover => DeliveryInv'
<1>. SUFFICES ASSUME ClosingInv, DeliveryInv, Recover PROVE DeliveryInv'
  OBVIOUS
<1>. DEFINE O == Outputs(Len(ev))
<1>0. mcp.pc = "recover" /\ UNCHANGED <<server, up, chan, uni>>
  BY DEF Recover
<1>1. /\ mcp \in McpType /\ uni \in UniType /\ lastPub \in Nat
      /\ FollowsLog(mcp, O, lastPub) /\ ConsumerOK(mcp, mcp.last, Len(ev), O, closed)
      /\ ConsumerOK(uni, uni.cur, Len(ev), O, closed)
      /\ mcp.last \in Nat /\ mcp.last <= Len(ev)
      /\ DeliveryType /\ Numbered /\ routed \in BOOLEAN
  BY DEF DeliveryInv, DeliveryType, McpType, ConsumerOK
<1>2. CASE up /\ present /\ mcp' = [mcp EXCEPT !.pc = "apply", !.resp = exec_read(mcp.last)] /\ UNCHANGED client
  <2>. DEFINE r == exec_read(mcp.last)
              hd == Range(mcp.got) \cup mcp.missed
              v == [mcp EXCEPT !.pc = "apply", !.resp = r]
  <2>1. /\ r \in ReadType /\ ReadOK(r, mcp.last, hd, Len(ev), O, closed)
        /\ O \subseteq hd \cup Range(r.chunks) \cup r.gone
    <3>1. \A k \in O : k <= mcp.last => k \in hd
      BY <1>1 DEF ConsumerOK
    <3>. QED
      BY <1>1, <3>1, ReadMade
  <2>. HIDE DEF r, O
  <2>2. /\ v \in McpType /\ v.pc = "apply" /\ v.got = mcp.got /\ v.missed = mcp.missed
        /\ v.last = mcp.last /\ v.resp = r /\ v.replay = mcp.replay /\ v.queue = mcp.queue
        /\ v.lagged = mcp.lagged /\ v.end = mcp.end
    BY <1>1, <2>1 DEF McpType
  <2>. HIDE DEF v
  <2>3. ConsumerOK(v, v.last, Len(ev), O, closed)
    BY <1>1, <2>1, <2>2 DEF ConsumerOK
  <2>4. O \subseteq Had(v)
    BY <2>1, <2>2 DEF Had
  <2>5. FollowsLog(v, O, lastPub)
    BY <1>0, <1>1, <2>2, <2>4, EmptyRead DEF FollowsLog
  <2>6. mcp' = v
    BY <1>2 DEF v, r
  <2>. QED
    BY <1>0, <1>2, <2>2, <2>3, <2>5, <2>6, TransportMoves DEF O
<1>3. /\ EndMcp(mcp, "failed") \in McpType /\ EndMcp(mcp, "failed").pc = "done"
      /\ ConsumerOK(EndMcp(mcp, "failed"), EndMcp(mcp, "failed").last, Len(ev), O, closed)
      /\ FollowsLog(EndMcp(mcp, "failed"), O, lastPub)
  <2>. HIDE DEF O
  <2>. QED
    BY <1>1, McpEnds
<1>4. CASE up /\ ~present /\ mcp' = EndMcp(mcp, "failed") /\ UNCHANGED client
  BY <1>0, <1>3, <1>4, TransportMoves
<1>5. CASE ~up /\ mcp' = EndMcp(mcp, "failed") /\ SetFailure /\ UNCHANGED routed
  <2>1. /\ failure' \in BOOLEAN /\ wake' \in BOOLEAN /\ hist' \in Nats
        /\ UNCHANGED <<lastPub, pending>>
    BY <1>1, <1>5, FailureSet
  <2>. QED
    BY <1>0, <1>1, <1>3, <1>5, <2>1, OneConsumer
<1>. QED
  BY <1>2, <1>4, <1>5 DEF Recover

LEMMA ApplyRecoveryStep == ClosingInv /\ DeliveryInv /\ ApplyRecovery => DeliveryInv'
<1>. SUFFICES ASSUME ClosingInv, DeliveryInv, ApplyRecovery PROVE DeliveryInv'
  OBVIOUS
<1>. DEFINE O == Outputs(Len(ev))
<1>0. /\ mcp.pc = "apply" /\ mcp' = Recovered(Max2(mcp.last, mcp.resp.next - 1))
      /\ UNCHANGED <<server, up, chan, client, uni>>
  BY DEF ApplyRecovery
<1>1. /\ mcp \in McpType /\ lastPub \in Nat
      /\ FollowsLog(mcp, O, lastPub) /\ ConsumerOK(mcp, mcp.last, Len(ev), O, closed)
  BY DEF DeliveryInv, DeliveryType
<1>2. Len(ev) \in Nat /\ O \in SUBSET Nat
  BY OutputNumbers
<1>3. /\ mcp' \in McpType /\ mcp'.pc \in {"recv", "done"}
      /\ mcp'.pc = "recv" => mcp'.queue = mcp.queue
      /\ ConsumerOK(mcp', mcp'.last, Len(ev), O, closed) /\ FollowsLog(mcp', O, lastPub)
  <2>. HIDE DEF O
  <2>. QED
    BY <1>0, <1>1, <1>2, McpRecovered
<1>. QED
  BY <1>0, <1>3, TransportMoves

LEMMA UniSteps == ClosingInv /\ DeliveryInv /\ UniStep => DeliveryInv'
<1>. SUFFICES ASSUME ClosingInv, DeliveryInv, UniStep PROVE DeliveryInv'
  OBVIOUS
<1>. DEFINE O == Outputs(Len(ev))
<1>0. uni.pc # "done" /\ UNCHANGED <<server, up, chan, mcp>>
  BY DEF UniStep, Read, ApplyRead, Wait
<1>1. /\ mcp \in McpType /\ uni \in UniType /\ lastPub \in Nat
      /\ FollowsLog(mcp, O, lastPub) /\ ConsumerOK(mcp, mcp.last, Len(ev), O, closed)
      /\ ConsumerOK(uni, uni.cur, Len(ev), O, closed)
      /\ uni.cur \in Nat /\ uni.cur <= Len(ev) /\ uni.resp \in ReadType
      /\ DeliveryType /\ Numbered
      /\ routed \in BOOLEAN /\ failure \in BOOLEAN /\ wake \in BOOLEAN /\ hist \in Nats
  BY DEF DeliveryInv, DeliveryType, UniType, ConsumerOK
<1>2. mcp.pc = "done"
  BY <1>0 DEF DeliveryInv, FailureLast
<1>3. Len(ev) \in Nat /\ O \in SUBSET Nat
  BY OutputNumbers
<1>4. /\ UNCHANGED <<routed, lastPub, pending>> /\ failure' \in BOOLEAN /\ wake' \in BOOLEAN /\ hist' \in Nats
  <2>1. CASE UNCHANGED client
    BY <1>1, <2>1 DEF client
  <2>2. CASE SetFailure /\ UNCHANGED routed
    BY <1>1, <2>2, FailureSet
  <2>3. CASE Wait
    BY <1>1, <2>3 DEF Wait
  <2>. QED
    BY <2>1, <2>2, <2>3 DEF UniStep, Read, ApplyRead
<1>5. uni' \in UniType /\ ConsumerOK(uni', uni'.cur, Len(ev), O, closed)
  <2>1. CASE uni' = EndUni(uni, "failed")
    <3>. HIDE DEF O
    <3>. QED
      BY <1>1, <2>1, UniEnds
  <2>2. CASE ApplyRead
    <3>. HIDE DEF O
    <3>. QED
      BY <1>1, <1>3, <2>2, UniApplied DEF ApplyRead
  <2>3. CASE Wait
    <3>1. uni' = [uni EXCEPT !.pc = "read", !.resp = uni.resp]
      BY <1>1, <2>3 DEF Wait, UniType
    <3>. HIDE DEF O
    <3>. QED
      BY <1>1, <3>1, UniMoves
  <2>4. CASE uni' = [uni EXCEPT !.pc = "apply", !.resp = exec_read(uni.cur)]
    <3>. DEFINE r == exec_read(uni.cur)
    <3>1. \A k \in O : k <= uni.cur => k \in Range(uni.got) \cup uni.missed
      BY <1>1 DEF ConsumerOK
    <3>2. r \in ReadType /\ ReadOK(r, uni.cur, Range(uni.got) \cup uni.missed, Len(ev), O, closed)
      BY <1>1, <3>1, ReadMade
    <3>3. uni' = [uni EXCEPT !.pc = "apply", !.resp = r]
      BY <2>4
    <3>. HIDE DEF r, O
    <3>. QED
      BY <1>1, <3>2, <3>3, UniMoves
  <2>. QED
    BY <2>1, <2>2, <2>3, <2>4 DEF UniStep, Read
<1>. QED
  BY <1>0, <1>1, <1>2, <1>4, <1>5, OneConsumer

LEMMA ResponseLostStep == ClosingInv /\ DeliveryInv /\ ResponseLost => DeliveryInv'
<1>. SUFFICES ASSUME ClosingInv, DeliveryInv, ResponseLost PROVE DeliveryInv'
  OBVIOUS
<1>. DEFINE O == Outputs(Len(ev))
<1>0. UNCHANGED <<server, up, chan, routed>> /\ SetFailure
  BY DEF ResponseLost
<1>1. /\ mcp \in McpType /\ uni \in UniType /\ lastPub \in Nat
      /\ FollowsLog(mcp, O, lastPub) /\ ConsumerOK(mcp, mcp.last, Len(ev), O, closed)
      /\ ConsumerOK(uni, uni.cur, Len(ev), O, closed) /\ DeliveryType
  BY DEF DeliveryInv, DeliveryType
<1>2. /\ failure' \in BOOLEAN /\ wake' \in BOOLEAN /\ hist' \in Nats
      /\ UNCHANGED <<lastPub, pending>>
  BY <1>0, <1>1, FailureSet
<1>3. CASE mcp.pc = "apply" /\ mcp' = EndMcp(mcp, "failed") /\ UNCHANGED uni
  <2>1. /\ mcp' \in McpType /\ mcp'.pc = "done"
        /\ ConsumerOK(mcp', mcp'.last, Len(ev), O, closed) /\ FollowsLog(mcp', O, lastPub)
    <3>. HIDE DEF O
    <3>. QED
      BY <1>1, <1>3, McpEnds
  <2>. QED
    BY <1>0, <1>1, <1>2, <1>3, <2>1, OneConsumer
<1>4. CASE uni.pc = "apply" /\ uni' = EndUni(uni, "failed") /\ UNCHANGED mcp
  <2>1. mcp.pc = "done"
    BY <1>4 DEF DeliveryInv, FailureLast
  <2>2. uni' \in UniType /\ ConsumerOK(uni', uni'.cur, Len(ev), O, closed)
    <3>. HIDE DEF O
    <3>. QED
      BY <1>1, <1>4, UniEnds
  <2>. QED
    BY <1>0, <1>1, <1>2, <1>4, <2>1, <2>2, OneConsumer
<1>. QED
  BY <1>3, <1>4 DEF ResponseLost

-----------------------------------------------------------------------------
(* The steps of the server.                                                *)
LEMMA BoundedNats ==
    ASSUME NEW s \in Nats, s # <<>>, NEW cap \in Nat
    PROVE  /\ Bounded(s, cap) \in Nats
           /\ Len(s) <= cap + 1 => Len(Bounded(s, cap)) <= cap
           /\ Range(Bounded(s, cap)) \subseteq Range(s)
           /\ Increasing(s) => Increasing(Bounded(s, cap))
<1>1. /\ Tail(s) \in Nats /\ Len(s) \in Nat /\ Len(s) > 0 /\ Len(Tail(s)) = Len(s) - 1
      /\ \A i \in 1 .. Len(Tail(s)) : i + 1 \in 1 .. Len(s) /\ Tail(s)[i] = s[i + 1]
      /\ Range(Tail(s)) \subseteq Range(s)
  BY NatTail
<1>2. ASSUME Increasing(s) PROVE Increasing(Tail(s))
  <2>. SUFFICES ASSUME NEW i \in 1 .. Len(Tail(s)), NEW j \in 1 .. Len(Tail(s)), i < j
                PROVE  Tail(s)[i] < Tail(s)[j]
    BY DEF Increasing
  <2>1. i + 1 \in 1 .. Len(s) /\ j + 1 \in 1 .. Len(s) /\ i + 1 < j + 1
    BY <1>1
  <2>. QED
    BY <1>1, <1>2, <2>1 DEF Increasing
<1>3. CASE Len(s) > cap
  BY <1>1, <1>2, <1>3 DEF Bounded
<1>4. CASE ~(Len(s) > cap)
  BY <1>1, <1>4 DEF Bounded
<1>. QED
  BY <1>3, <1>4

LEMMA EventGrows ==
    ASSUME ClosingInv, NEW e \in {"output", "exited", "closed"}, ev' = Append(ev, e),
           closed => closed', e = "output" => ~closed
    PROVE  /\ Grows(Len(ev), Outputs(Len(ev)), closed, Len(ev)', Outputs(Len(ev))', closed')
           /\ Len(ev)' = Len(ev) + 1
           /\ e = "output" => Len(ev) + 1 \in Outputs(Len(ev))'
<1>1. /\ Len(ev') = Len(ev) + 1 /\ Len(ev) \in Nat
      /\ ev'[Len(ev) + 1] = e
      /\ \A k \in 1 .. Len(ev) : ev'[k] = ev[k]
  BY Appended
<1>2. \A k : k \in Outputs(Len(ev)) <=> k \in 1 .. Len(ev) /\ ev[k] = "output"
  BY OutputNumbers
<1>3. \A k : k \in Outputs(Len(ev))' <=> k \in 1 .. Len(ev) + 1 /\ ev'[k] = "output"
  BY <1>1 DEF Outputs
<1>4. \A k : k \in Outputs(Len(ev))' <=>
              k \in Outputs(Len(ev)) \/ (k = Len(ev) + 1 /\ e = "output")
  <2>1. \A k : k \in 1 .. Len(ev) + 1 <=> k \in 1 .. Len(ev) \/ k = Len(ev) + 1
    BY <1>1
  <2>2. Len(ev) + 1 \notin 1 .. Len(ev)
    BY <1>1
  <2>. QED
    BY <1>1, <1>2, <1>3, <2>1, <2>2
<1>5. Outputs(Len(ev)) \subseteq Nat
  BY OutputNumbers
<1>. QED
  BY <1>1, <1>4, <1>5 DEF Grows

LEMMA SameGrows ==
    ASSUME ClosingInv, UNCHANGED <<ev, closed>>
    PROVE  /\ Grows(Len(ev), Outputs(Len(ev)), closed, Len(ev)', Outputs(Len(ev))', closed')
           /\ Len(ev)' = Len(ev) /\ Outputs(Len(ev))' = Outputs(Len(ev))
<1>1. Outputs(Len(ev))' = Outputs(Len(ev)) /\ Len(ev)' = Len(ev)
  BY SameOutputs
<1>2. Len(ev) \in Nat /\ Outputs(Len(ev)) \subseteq Nat
  BY OutputNumbers
<1>. QED
  BY <1>1, <1>2 DEF Grows

LEMMA ServerMoves ==
    ASSUME DeliveryInv, UNCHANGED <<client, mcp, uni>>, up' \in BOOLEAN,
           Grows(Len(ev), Outputs(Len(ev)), closed, Len(ev)', Outputs(Len(ev))', closed'),
           output' \in Nats, Increasing(output'), Range(output') \subseteq Outputs(Len(ev))',
           chan' \in Nats, Range(chan') \subseteq 1 .. Len(ev)',
           \A x \in Tasks : task'[x].pc \in {"notify", "notifyClosed"} =>
               task'[x] = task[x] \/ task'[x].seq \in 1 .. Len(ev)'
    PROVE  DeliveryInv'
<1>0. UNCHANGED <<routed, lastPub, pending, failure, wake, hist, mcp, uni>>
  BY DEF client
<1>1. /\ mcp \in McpType /\ uni \in UniType /\ lastPub \in Nat /\ lastPub <= Len(ev)
      /\ pending \subseteq lastPub + 1 .. Len(ev)
      /\ mcp.last \in Nat /\ uni.cur \in Nat /\ mcp.resp \in ReadType /\ uni.resp \in ReadType
  BY DEF DeliveryInv, DeliveryType, Numbered, McpType, UniType
<1>2. DeliveryType'
  BY <1>0 DEF DeliveryInv, DeliveryType
<1>3. Len(ev) \in Nat /\ Len(ev)' \in Nat /\ Len(ev) <= Len(ev)'
  BY DEF Grows
<1>4. Numbered'
  <2>1. \A x \in Tasks : task[x].pc \in {"notify", "notifyClosed"} => task[x].seq \in 1 .. Len(ev)
    BY DEF DeliveryInv, Numbered
  <2>2. 1 .. Len(ev) \subseteq 1 .. Len(ev)'
    BY <1>3
  <2>3. \A x \in Tasks : task'[x].pc \in {"notify", "notifyClosed"} => task'[x].seq \in 1 .. Len(ev)'
    BY <2>1, <2>2
  <2>4. pending' \subseteq lastPub' + 1 .. Len(ev)' /\ lastPub' <= Len(ev)'
    BY <1>0, <1>1, <1>3
  <2>. QED
    BY <2>3, <2>4 DEF Numbered
<1>5. FailureLast'
  BY <1>0 DEF DeliveryInv, FailureLast
<1>6. FollowsLog(mcp, Outputs(Len(ev))', lastPub)
  BY <1>1, FollowsGrows DEF DeliveryInv
<1>7. ConsumerOK(mcp, mcp.last, Len(ev)', Outputs(Len(ev))', closed')
  BY <1>1, ConsumerGrows DEF DeliveryInv
<1>8. ConsumerOK(uni, uni.cur, Len(ev)', Outputs(Len(ev))', closed')
  BY <1>1, ConsumerGrows DEF DeliveryInv
<1>. QED
  BY <1>0, <1>2, <1>4, <1>5, <1>6, <1>7, <1>8 DEF DeliveryInv

(* What the server holds, with the numbers it has given out.               *)
LEMMA ServerHolds ==
    ASSUME ClosingInv, DeliveryInv
    PROVE  /\ output \in Nats /\ chan \in Nats /\ up \in BOOLEAN
           /\ Increasing(output) /\ Range(output) \subseteq Outputs(Len(ev))
           /\ Range(chan) \subseteq 1 .. Len(ev)
           /\ \A x \in Tasks : task[x] \in [pc : Pcs, seq : Nat, left : Int]
           /\ task \in [Tasks -> [pc : Pcs, seq : Nat, left : Int]]
  BY DEF DeliveryInv, DeliveryType, Numbered, ClosingInv, ServerType

LEMMA StreamOutputDelivers ==
    ASSUME ClosingInv, DeliveryInv, NEW s \in Streams, StreamOutput(s)
    PROVE  DeliveryInv'
<1>0. s \in Tasks /\ UNCHANGED <<present, open, exited, closed, up, chan, client, mcp, uni>>
  BY DEF StreamOutput, Tasks
<1>1. Len(ev) \in Nat /\ Outputs(Len(ev)) \subseteq 1 .. Len(ev)
  BY OutputNumbers
<1>2. CASE present
  <2>. DEFINE r == [pc |-> "notify", seq |-> nextSeq, left |-> task[s].left - 1]
              a == Append(output, nextSeq)
  <2>1. /\ ev' = Append(ev, "output") /\ output' = Bounded(a, RetainCap)
        /\ task' = [task EXCEPT ![s] = r] /\ s \in Live
    BY <1>0, <1>2, ServerHolds DEF StreamOutput, Live
  <2>2. ~closed
    BY <1>2, <2>1 DEF ClosingInv, ClosedNumbered
  <2>3. /\ Grows(Len(ev), Outputs(Len(ev)), closed, Len(ev)', Outputs(Len(ev))', closed')
        /\ Len(ev)' = Len(ev) + 1 /\ Len(ev) + 1 \in Outputs(Len(ev))'
    BY <1>0, <2>1, <2>2, EventGrows
  <2>4. r \in [pc : Pcs, seq : Nat, left : Int]
    BY <1>0, <1>1, ServerHolds DEF nextSeq, Pcs
  <2>5. task'[s] = r /\ \A y \in Tasks \ {s} : task'[y] = task[y]
    BY <1>0, <2>1, <2>4, TaskMoves
  <2>6. nextSeq \in Nat /\ nextSeq = Len(ev) + 1
    BY <1>1 DEF nextSeq
  <2>7. \A i \in 1 .. Len(output) : output[i] <= Len(ev)
    <3>1. \A y \in Range(output) : y <= Len(ev)
      BY <1>1, ServerHolds
    <3>. QED
      BY <3>1, ServerHolds, NatSeq
  <2>8. a \in Nats /\ Len(a) = Len(output) + 1 /\ \A y : y \in Range(a) <=> y \in Range(output) \/ y = nextSeq
    BY <2>6, ServerHolds, NatAppend
  <2>9. Increasing(a)
    BY <1>1, <2>6, <2>7, ServerHolds, IncreasingAppend
  <2>10. Len(output) \in Nat
    BY ServerHolds, NatSeq
  <2>11. a # <<>> /\ RetainCap \in Nat
    BY <2>8, <2>10, EmptyRead, EventsAssumption
  <2>. HIDE DEF a
  <2>12. output' \in Nats /\ Increasing(output') /\ Range(output') \subseteq Range(a)
    BY <2>1, <2>8, <2>9, <2>11, BoundedNats
  <2>13. Range(a) \subseteq Outputs(Len(ev))'
    BY <2>3, <2>6, <2>8, ServerHolds DEF Grows
  <2>14. \A x \in Tasks : task'[x].pc \in {"notify", "notifyClosed"} =>
               task'[x] = task[x] \/ task'[x].seq \in 1 .. Len(ev)'
    <3>1. task'[s].seq \in 1 .. Len(ev)'
      BY <1>1, <2>3, <2>5, <2>6
    <3>. QED
      BY <2>5, <3>1
  <2>15. Range(chan') \subseteq 1 .. Len(ev)' /\ chan' \in Nats /\ up' \in BOOLEAN
    BY <1>0, <1>1, <2>3, ServerHolds
  <2>. QED
    BY <1>0, <2>3, <2>12, <2>13, <2>14, <2>15, ServerMoves
<1>3. CASE ~present
  <2>1. task' = Goto(s, "done") /\ UNCHANGED <<ev, output>>
    BY <1>3 DEF StreamOutput
  <2>2. /\ Grows(Len(ev), Outputs(Len(ev)), closed, Len(ev)', Outputs(Len(ev))', closed')
        /\ Len(ev)' = Len(ev) /\ Outputs(Len(ev))' = Outputs(Len(ev))
    BY <1>0, <2>1, SameGrows
  <2>3. \A x \in Tasks : task'[x].pc \in {"notify", "notifyClosed"} => task'[x] = task[x]
    BY <1>0, <2>1, ServerHolds DEF Goto
  <2>. QED
    BY <1>0, <2>1, <2>2, <2>3, ServerHolds, ServerMoves
<1>. QED
  BY <1>2, <1>3

(* A task that numbers an event which is no output, or none.               *)
LEMMA TaskDelivers ==
    ASSUME ClosingInv, DeliveryInv, NEW x \in Tasks, UNCHANGED <<output, client, mcp, uni>>,
           up' \in BOOLEAN, chan' \in Nats, Range(chan') \subseteq 1 .. Len(ev),
           \/ UNCHANGED <<ev, closed>>
           \/ ev' = Append(ev, "exited") /\ UNCHANGED closed
           \/ ev' = Append(ev, "closed") /\ closed' = TRUE,
           \A y \in Tasks \ {x} : task'[y] = task[y],
           task'[x].pc \in {"notify", "notifyClosed"} => task'[x].seq = Len(ev) + 1 /\ ~UNCHANGED ev
    PROVE  DeliveryInv'
<1>0. Len(ev) \in Nat
  BY OutputNumbers
<1>1. CASE UNCHANGED <<ev, closed>>
  <2>1. /\ Grows(Len(ev), Outputs(Len(ev)), closed, Len(ev)', Outputs(Len(ev))', closed')
        /\ Len(ev)' = Len(ev) /\ Outputs(Len(ev))' = Outputs(Len(ev))
    BY <1>1, SameGrows
  <2>2. \A y \in Tasks : task'[y].pc \in {"notify", "notifyClosed"} => task'[y] = task[y]
    BY <1>1
  <2>. QED
    BY <2>1, <2>2, ServerHolds, ServerMoves
<1>2. CASE \E e \in {"exited", "closed"} : ev' = Append(ev, e) /\ (closed => closed')
  <2>1. /\ Grows(Len(ev), Outputs(Len(ev)), closed, Len(ev)', Outputs(Len(ev))', closed')
        /\ Len(ev)' = Len(ev) + 1
    BY <1>2, EventGrows
  <2>2. Outputs(Len(ev)) \subseteq Outputs(Len(ev))'
    BY <2>1 DEF Grows
  <2>3. Len(ev) + 1 \in 1 .. Len(ev)' /\ 1 .. Len(ev) \subseteq 1 .. Len(ev)'
    BY <1>0, <2>1
  <2>4. \A y \in Tasks : task'[y].pc \in {"notify", "notifyClosed"} =>
            task'[y] = task[y] \/ task'[y].seq \in 1 .. Len(ev)'
    BY <2>3
  <2>. QED
    BY <2>1, <2>2, <2>3, <2>4, ServerHolds, ServerMoves
<1>. QED
  BY <1>1, <1>2

LEMMA WatchExitDelivers ==
    ASSUME ClosingInv, DeliveryInv, WatchExit
    PROVE  DeliveryInv'
<1>0. Exit \in Tasks /\ UNCHANGED <<output, closed, up, chan, client, mcp, uni>> /\ Len(ev) \in Nat
  BY OutputNumbers DEF WatchExit, Tasks
<1>1. \A y \in Tasks \ {Exit} : task'[y] = task[y]
  BY <1>0, ServerHolds DEF WatchExit, Goto
<1>2. CASE present
  <2>1. ev' = Append(ev, "exited") /\ task'[Exit].seq = Len(ev) + 1
    BY <1>0, <1>2, ServerHolds DEF WatchExit, nextSeq
  <2>2. Len(ev') = Len(ev) + 1
    BY <2>1, Appended
  <2>3. ev' # ev
    BY <1>0, <2>2
  <2>. QED
    BY <1>0, <1>1, <2>1, <2>3, ServerHolds, TaskDelivers
<1>3. CASE ~present
  <2>1. UNCHANGED ev /\ task'[Exit].pc = "emit"
    BY <1>0, <1>3, ServerHolds DEF WatchExit, Goto
  <2>. QED
    BY <1>0, <1>1, <2>1, ServerHolds, TaskDelivers
<1>. QED
  BY <1>2, <1>3

LEMMA MaybeEmitClosedDelivers ==
    ASSUME ClosingInv, DeliveryInv, NEW x \in Tasks, MaybeEmitClosed(x)
    PROVE  DeliveryInv'
<1>0. UNCHANGED <<output, up, chan, client, mcp, uni>> /\ Len(ev) \in Nat
  BY OutputNumbers DEF MaybeEmitClosed
<1>1. \A y \in Tasks \ {x} : task'[y] = task[y]
  BY <1>0, ServerHolds DEF MaybeEmitClosed, Goto
<1>2. CASE present /\ ~closed /\ open = 0 /\ exited
  <2>1. ev' = Append(ev, "closed") /\ closed' = TRUE /\ task'[x].seq = Len(ev) + 1
    BY <1>0, <1>2, ServerHolds DEF MaybeEmitClosed, nextSeq
  <2>2. Len(ev') = Len(ev) + 1
    BY <2>1, Appended
  <2>3. ev' # ev
    BY <1>0, <2>2
  <2>. QED
    BY <1>0, <1>1, <2>1, <2>3, ServerHolds, TaskDelivers
<1>3. CASE ~(present /\ ~closed /\ open = 0 /\ exited)
  <2>1. UNCHANGED <<ev, closed>> /\ task'[x].pc = "done"
    BY <1>0, <1>3, ServerHolds DEF MaybeEmitClosed, Goto
  <2>. QED
    BY <1>0, <1>1, <2>1, ServerHolds, TaskDelivers
<1>. QED
  BY <1>2, <1>3

LEMMA NotifyDelivers ==
    ASSUME ClosingInv, DeliveryInv, NEW x \in Tasks, Notify(x)
    PROVE  DeliveryInv'
<1>0. UNCHANGED <<ev, closed, output, up, client, mcp, uni>> /\ Len(ev) \in Nat
  BY OutputNumbers DEF Notify
<1>1. /\ \A y \in Tasks \ {x} : task'[y] = task[y]
      /\ task'[x].pc \in {"done", "emit", "wait"}
  BY <1>0, ServerHolds DEF Notify
<1>2. task[x].seq \in 1 .. Len(ev) /\ task[x].seq \in Nat
  BY ServerHolds DEF Notify, DeliveryInv, Numbered
<1>3. chan' = chan \/ chan' = Append(chan, task[x].seq)
  BY DEF Notify
<1>4. chan' \in Nats /\ Range(chan') \subseteq 1 .. Len(ev)
  BY <1>2, <1>3, ServerHolds, NatAppend
<1>. QED
  BY <1>0, <1>1, <1>4, ServerHolds, TaskDelivers

LEMMA FinishDelivers ==
    ASSUME ClosingInv, DeliveryInv, NEW s \in Streams, FinishOutputStream(s)
    PROVE  DeliveryInv'
<1>0. s \in Tasks /\ UNCHANGED <<ev, closed, output, up, chan, client, mcp, uni>>
  BY DEF FinishOutputStream, Tasks
<1>1. /\ \A y \in Tasks \ {s} : task'[y] = task[y]
      /\ task'[s].pc \in {"done", "emit"}
  BY <1>0, ServerHolds DEF FinishOutputStream
<1>. QED
  BY <1>0, <1>1, ServerHolds, TaskDelivers

-----------------------------------------------------------------------------
(* The connection and the client.                                          *)
LEMMA ServerStays ==
    ASSUME ClosingInv, DeliveryInv, UNCHANGED <<ev, output, closed, task, client, mcp, uni>>,
           up' \in BOOLEAN, chan' \in Nats, Range(chan') \subseteq 1 .. Len(ev)
    PROVE  DeliveryInv'
<1>1. /\ Grows(Len(ev), Outputs(Len(ev)), closed, Len(ev)', Outputs(Len(ev))', closed')
      /\ Len(ev)' = Len(ev) /\ Outputs(Len(ev))' = Outputs(Len(ev))
  BY SameGrows
<1>. QED
  BY <1>1, ServerHolds, ServerMoves

LEMMA DisconnectDelivers ==
    ASSUME ClosingInv, DeliveryInv, Disconnect
    PROVE  DeliveryInv'
<1>0. up' = FALSE /\ UNCHANGED <<ev, output, closed, task, client, mcp, uni>>
  BY DEF Disconnect, server
<1>1. PICK n \in 0 .. Len(chan) : chan' = SubSeq(chan, 1, n)
  BY DEF Disconnect
<1>2. chan \in Nats /\ Len(chan) \in Nat
  BY ServerHolds, NatSeq
<1>3. /\ chan' \in Nats /\ Len(chan') = n
      /\ \A i \in 1 .. n : i \in 1 .. Len(chan) /\ chan'[i] = chan[i]
  BY <1>1, <1>2 DEF Nats
<1>4. Range(chan') \subseteq Range(chan)
  BY <1>2, <1>3, NatSeq
<1>. QED
  BY <1>0, <1>3, <1>4, ServerHolds, ServerStays

LEMMA QueuedOn ==
    ASSUME mcp \in McpType, mcp.pc \in {"recv", "recover", "apply"},
           NEW n, NEW O \in SUBSET Nat, NEW cl, NEW lp \in Nat, NEW lq \in Nat, lp <= lq,
           FollowsLog(mcp, O, lp), ConsumerOK(mcp, mcp.last, n, O, cl),
           NEW es \in Nats, Log(mcp.queue \o es, lq),
           \A k \in O : k <= lq => k <= lp \/ k \in Range(es)
    PROVE  /\ Queued(es) \in McpType /\ Queued(es).pc = mcp.pc
           /\ ConsumerOK(Queued(es), Queued(es).last, n, O, cl)
           /\ FollowsLog(Queued(es), O, lq)
           /\ Range(Queued(es).queue) \subseteq Range(mcp.queue \o es)
<1>. DEFINE q == mcp.queue \o es
            v == Queued(es)
<1>1. mcp.queue \in Nats /\ mcp.replay \in Nats
  BY DEF McpType
<1>2. /\ q \in Nats /\ Len(q) \in Nat /\ EventCap \in Nat
      /\ \A y : y \in Range(q) <=> y \in Range(mcp.queue) \/ y \in Range(es)
  BY <1>1, NatConcat, NatSeq, EventsAssumption
<1>3. /\ Newest(q) \in Nats /\ Range(Newest(q)) \subseteq Range(q)
      /\ Len(q) <= EventCap => Newest(q) = q
      /\ Log(Newest(q), lq)
  BY <1>2, LogNewest
<1>4. v = [mcp EXCEPT !.queue = Newest(q), !.lagged = mcp.lagged \/ Len(q) > EventCap]
  BY DEF Queued
<1>. HIDE DEF q, v
<1>5. /\ v \in McpType /\ v.pc = mcp.pc /\ v.got = mcp.got /\ v.missed = mcp.missed
      /\ v.last = mcp.last /\ v.resp = mcp.resp /\ v.replay = mcp.replay /\ v.queue = Newest(q)
      /\ v.lagged = (mcp.lagged \/ Len(q) > EventCap) /\ v.end = mcp.end
  <2>1. (mcp.lagged \/ Len(q) > EventCap) \in BOOLEAN
    BY Zenon
  <2>. QED
    BY <1>3, <1>4, <2>1 DEF McpType
<1>6. ConsumerOK(v, v.last, n, O, cl)
  BY <1>5 DEF ConsumerOK
<1>7. Had(v) = Had(mcp)
  BY <1>5 DEF Had
<1>8. Log(v.replay, lq)
  BY <1>1, <1>5, LogHigher DEF FollowsLog
<1>9. ASSUME mcp.pc \in {"recv", "apply"}, ~v.lagged, NEW k \in O, k <= lq
      PROVE  k \in Had(v) \cup Range(v.replay) \cup Range(v.queue)
  <2>0. ~mcp.lagged /\ ~(Len(q) > EventCap)
    BY <1>5, <1>9, Zenon
  <2>1. ~mcp.lagged /\ Newest(q) = q
    BY <1>2, <1>3, <2>0
  <2>2. k <= lp \/ k \in Range(es)
    BY <1>9
  <2>3. k <= lp => k \in Had(mcp) \cup Range(mcp.replay) \cup Range(mcp.queue)
    BY <1>9, <2>1 DEF FollowsLog
  <2>. QED
    BY <1>2, <1>5, <1>7, <2>1, <2>2, <2>3
<1>10. FollowsLog(v, O, lq)
  BY <1>3, <1>5, <1>7, <1>8, <1>9 DEF FollowsLog
<1>. QED
  BY <1>3, <1>5, <1>6, <1>10 DEF q, v

(* A transport that does not follow the log yet, or no longer.             *)
LEMMA NotFollowing ==
    ASSUME mcp \in McpType, mcp.pc \in {"start", "done"}, NEW O, NEW lp, FollowsLog(mcp, O, lp),
           NEW lq
    PROVE  FollowsLog(mcp, O, lq)
<1>1. mcp.replay = <<>> /\ mcp.queue = <<>>
  BY DEF FollowsLog
<1>. QED
  BY <1>1, EmptyRead DEF FollowsLog, Log

LEMMA ClientMoves ==
    ASSUME ClosingInv, DeliveryInv, UNCHANGED <<server, up, uni>>,
           chan' \in Nats, Range(chan') \subseteq 1 .. Len(ev),
           routed' \in BOOLEAN, failure' \in BOOLEAN, wake' \in BOOLEAN, hist' \in Nats,
           lastPub' \in Nat, lastPub' <= Len(ev), pending' \subseteq lastPub' + 1 .. Len(ev),
           mcp' \in McpType, FailureLast',
           FollowsLog(mcp', Outputs(Len(ev)), lastPub'),
           ConsumerOK(mcp', mcp'.last, Len(ev), Outputs(Len(ev)), closed)
    PROVE  DeliveryInv'
<1>0. UNCHANGED <<ev, output, closed, task, up, uni>>
  BY DEF server
<1>1. Outputs(Len(ev))' = Outputs(Len(ev)) /\ Len(ev)' = Len(ev)
  BY <1>0, SameOutputs
<1>2. pending' \subseteq Nat
  <2>1. Len(ev) \in Nat
    BY OutputNumbers
  <2>2. lastPub' + 1 .. Len(ev) \subseteq Nat
    BY <2>1
  <2>. QED
    BY <2>2
<1>3. DeliveryType'
  BY <1>0, <1>2 DEF DeliveryInv, DeliveryType
<1>4. Numbered'
  BY <1>0, <1>1 DEF DeliveryInv, Numbered
<1>5. ConsumerOK(uni', uni'.cur, Len(ev)', Outputs(Len(ev))', closed')
  BY <1>0, <1>1 DEF DeliveryInv
<1>. QED
  BY <1>0, <1>1, <1>3, <1>4, <1>5 DEF DeliveryInv

(* Publishing the next m numbers.                                          *)
LEMMA Published ==
    ASSUME ClosingInv, DeliveryInv, routed, NEW m \in Nat, lastPub + m <= Len(ev)
    PROVE  LET es == [i \in 1 .. m |-> lastPub + i]
           IN  /\ Newest(hist \o es) \in Nats
               /\ mcp.pc = "start" =>
                     Log(Newest(hist \o es), lastPub + m) /\ Failed \notin Range(Newest(hist \o es))
               /\ Queued(es) \in McpType /\ Queued(es).pc = mcp.pc
               /\ ConsumerOK(Queued(es), Queued(es).last, Len(ev), Outputs(Len(ev)), closed)
               /\ FollowsLog(Queued(es), Outputs(Len(ev)), lastPub + m)
               /\ mcp.pc # "done" => Failed \notin Range(Queued(es).queue)
<1>. DEFINE es == [i \in 1 .. m |-> lastPub + i]
            O == Outputs(Len(ev))
            lq == lastPub + m
<1>0. /\ mcp \in McpType /\ hist \in Nats /\ lastPub \in Nat /\ mcp.queue \in Nats
      /\ FollowsLog(mcp, O, lastPub) /\ ConsumerOK(mcp, mcp.last, Len(ev), O, closed)
  BY DEF DeliveryInv, DeliveryType, McpType
<1>1. Len(ev) \in Nat /\ O \in SUBSET Nat
  BY OutputNumbers
<1>2. lq \in Nat /\ lastPub <= lq
  BY <1>0
<1>3. /\ es \in Nats /\ \A y : y \in Range(es) <=> y \in lastPub + 1 .. lq
  BY <1>0, NumberRun
<1>4. mcp.pc # "done" => Failed \notin Range(mcp.queue)
  BY DEF DeliveryInv, FailureLast
<1>5. mcp.pc = "start" => Log(hist, lastPub) /\ Failed \notin Range(hist)
  BY DEF DeliveryInv, FailureLast
<1>6. hist \o es \in Nats
  <2>. HIDE DEF es
  <2>. QED
    BY <1>0, <1>3, NatConcat
<1>7. Newest(hist \o es) \in Nats
  <2>. HIDE DEF es
  <2>. QED
    BY <1>6, LogNewest
<1>8. ASSUME mcp.pc = "start"
      PROVE  Log(Newest(hist \o es), lq) /\ Failed \notin Range(Newest(hist \o es))
  <2>1. Log(hist \o es, lq) /\ Failed \notin Range(hist \o es)
    BY <1>0, <1>5, <1>8, LogNumbers
  <2>. HIDE DEF es, lq
  <2>. QED
    BY <1>6, <2>1, LogNewest
<1>9. CASE mcp.pc \in {"start", "done"}
  <2>1. Queued(es) = mcp
    BY <1>9 DEF Queued
  <2>. HIDE DEF es, lq, O
  <2>2. FollowsLog(mcp, O, lq)
    BY <1>0, <1>9, NotFollowing
  <2>. QED
    BY <1>0, <1>4, <1>7, <1>8, <2>1, <2>2 DEF es, lq, O
<1>10. CASE mcp.pc \in {"recv", "recover", "apply"}
  <2>1. Log(mcp.queue, lastPub)
    BY <1>0 DEF FollowsLog
  <2>2. Failed \notin Range(mcp.queue)
    BY <1>4, <1>10
  <2>3. Log(mcp.queue \o es, lq) /\ Failed \notin Range(mcp.queue \o es)
    BY <1>0, <2>1, <2>2, LogNumbers
  <2>4. \A k \in O : k <= lq => k <= lastPub \/ k \in Range(es)
    <3>1. \A k \in Nat : k <= lq => k <= lastPub \/ k \in lastPub + 1 .. lq
      BY <1>0
    <3>. HIDE DEF es, lq, O
    <3>. QED
      BY <1>1, <1>3, <3>1
  <2>. HIDE DEF es, lq, O
  <2>5. /\ Queued(es) \in McpType /\ Queued(es).pc = mcp.pc
        /\ ConsumerOK(Queued(es), Queued(es).last, Len(ev), O, closed)
        /\ FollowsLog(Queued(es), O, lq)
        /\ Range(Queued(es).queue) \subseteq Range(mcp.queue \o es)
    BY <1>0, <1>1, <1>2, <1>3, <1>10, <2>3, <2>4, QueuedOn
  <2>6. Failed \notin Range(Queued(es).queue)
    BY <2>3, <2>5
  <2>. QED
    BY <1>7, <1>8, <2>5, <2>6 DEF es, lq, O
<1>. QED
  BY <1>0, <1>9, <1>10 DEF McpType

LEMMA HandleNotificationDelivers ==
    ASSUME ClosingInv, DeliveryInv, HandleNotification
    PROVE  DeliveryInv'
<1>. DEFINE O == Outputs(Len(ev))
            n == Len(ev)
            h == Head(chan)
<1>0. /\ chan # <<>> /\ chan' = Tail(chan) /\ wake' = (routed \/ wake)
      /\ UNCHANGED <<server, up, failure, uni>>
  BY DEF HandleNotification
<1>1. /\ mcp \in McpType /\ hist \in Nats /\ lastPub \in Nat /\ lastPub <= n /\ n \in Nat
      /\ pending \subseteq lastPub + 1 .. n /\ routed \in BOOLEAN /\ failure \in BOOLEAN /\ wake \in BOOLEAN
      /\ FollowsLog(mcp, O, lastPub) /\ ConsumerOK(mcp, mcp.last, n, O, closed)
  BY OutputNumbers DEF DeliveryInv, DeliveryType, Numbered
<1>2. /\ chan' \in Nats /\ Range(chan') \subseteq 1 .. n /\ h \in 1 .. n
  <2>1. chan \in Nats /\ Range(chan) \subseteq 1 .. n
    BY ServerHolds
  <2>2. /\ Tail(chan) \in Nats /\ \A y : y \in Range(chan) <=> y \in Range(Tail(chan)) \/ y = Head(chan)
    BY <1>0, <2>1, NatTail
  <2>. QED
    BY <1>0, <2>1, <2>2
<1>3. wake' \in BOOLEAN
  BY <1>0, Zenon
<1>4. CASE routed /\ h > lastPub
  <2>. DEFINE P == pending \cup {h}
              R == Ready(P)
  <2>1. /\ pending' = P \ R /\ lastPub' = lastPub + Cardinality(R)
        /\ Publish([i \in 1 .. Cardinality(R) |-> lastPub + i])
        /\ routed' = \A k \in R : ev[k] # "closed"
    BY <1>4 DEF HandleNotification
  <2>2. P \in SUBSET (lastPub + 1 .. n)
    <3>. HIDE DEF h, n
    <3>1. h \in lastPub + 1 .. n
      BY <1>1, <1>2, <1>4
    <3>. QED
      BY <1>1, <3>1
  <2>. HIDE DEF P
  <2>3. PICK m \in Nat : /\ R = lastPub + 1 .. lastPub + m /\ Cardinality(R) = m
                         /\ lastPub + m <= n /\ P \ R \subseteq lastPub + m + 1 .. n
    BY <1>1, <2>2, ReadyIsRun
  <2>4. routed' \in BOOLEAN
    BY <2>1, Zenon
  <2>. HIDE DEF R
  <2>. DEFINE es == [i \in 1 .. m |-> lastPub + i]
  <2>5. hist' = Newest(hist \o es) /\ mcp' = Queued(es)
    BY <2>1, <2>3 DEF Publish
  <2>6. /\ Newest(hist \o es) \in Nats
        /\ mcp.pc = "start" =>
              Log(Newest(hist \o es), lastPub + m) /\ Failed \notin Range(Newest(hist \o es))
        /\ Queued(es) \in McpType /\ Queued(es).pc = mcp.pc
        /\ ConsumerOK(Queued(es), Queued(es).last, n, O, closed)
        /\ FollowsLog(Queued(es), O, lastPub + m)
        /\ mcp.pc # "done" => Failed \notin Range(Queued(es).queue)
    BY <1>4, <2>3, Published
  <2>. HIDE DEF es
  <2>7. lastPub' = lastPub + m /\ lastPub' \in Nat /\ lastPub' <= n
    BY <1>1, <2>1, <2>3
  <2>8. pending' \subseteq lastPub' + 1 .. n
    BY <1>1, <2>1, <2>3, <2>7
  <2>9. FailureLast'
    <3>1. (mcp.pc = "done" \/ uni.pc = "done") /\ (mcp.pc # "done" => ~failure)
      BY <1>4 DEF DeliveryInv, FailureLast
    <3>. QED
      BY <1>0, <2>5, <2>6, <2>7, <3>1 DEF FailureLast
  <2>. QED
    BY <1>0, <1>1, <1>2, <1>3, <2>4, <2>5, <2>6, <2>7, <2>8, <2>9, ClientMoves
<1>5. CASE ~(routed /\ h > lastPub)
  <2>1. UNCHANGED <<routed, lastPub, pending, hist, mcp>>
    BY <1>5 DEF HandleNotification
  <2>2. FailureLast'
    BY <1>0, <2>1 DEF DeliveryInv, FailureLast
  <2>. QED
    BY <1>0, <1>1, <1>2, <1>3, <2>1, <2>2, ClientMoves
<1>. QED
  BY <1>4, <1>5

LEMMA FailSessionDelivers ==
    ASSUME ClosingInv, DeliveryInv, FailSession
    PROVE  DeliveryInv'
<1>. DEFINE O == Outputs(Len(ev))
            n == Len(ev)
            es == <<Failed>>
<1>0. /\ routed /\ routed' = FALSE /\ SetFailure
      /\ mcp' = IF failure THEN mcp ELSE Queued(es)
      /\ UNCHANGED <<server, up, chan, uni>>
  BY DEF FailSession
<1>1. /\ mcp \in McpType /\ hist \in Nats /\ lastPub \in Nat /\ lastPub <= n /\ n \in Nat
      /\ pending \subseteq lastPub + 1 .. n /\ failure \in BOOLEAN /\ mcp.queue \in Nats
      /\ FollowsLog(mcp, O, lastPub) /\ ConsumerOK(mcp, mcp.last, n, O, closed)
      /\ (mcp.pc = "done" \/ uni.pc = "done")
  BY OutputNumbers DEF DeliveryInv, DeliveryType, Numbered, FailureLast, McpType
<1>2. O \in SUBSET Nat
  BY OutputNumbers
<1>3. /\ failure' \in BOOLEAN /\ wake' \in BOOLEAN /\ hist' \in Nats
      /\ UNCHANGED <<lastPub, pending>>
  BY <1>0, FailureSet DEF DeliveryInv
<1>4. failure' = TRUE /\ hist' = IF failure THEN hist ELSE Newest(Append(hist, Failed))
  BY <1>0 DEF SetFailure
<1>5. mcp.pc # "done" => ~failure /\ Failed \notin Range(mcp.queue)
  BY <1>0 DEF DeliveryInv, FailureLast
<1>6. mcp.pc = "start" => Log(hist, lastPub) /\ Failed \notin Range(hist)
  BY <1>5 DEF DeliveryInv, FailureLast
<1>7. mcp.pc = "start" => Log(hist', lastPub)
  <2>. SUFFICES ASSUME mcp.pc = "start" PROVE Log(hist', lastPub)
    OBVIOUS
  <2>1. Append(hist, Failed) \in Nats /\ Log(Append(hist, Failed), lastPub)
    BY <1>1, <1>6, LogFailed
  <2>2. Log(Newest(Append(hist, Failed)), lastPub)
    BY <2>1, LogNewest
  <2>. QED
    BY <1>4, <1>5, <2>2
<1>8. /\ mcp' \in McpType /\ mcp'.pc = mcp.pc
      /\ ConsumerOK(mcp', mcp'.last, n, O, closed) /\ FollowsLog(mcp', O, lastPub)
  <2>. HIDE DEF O
  <2>1. CASE mcp.pc \in {"start", "done"}
    BY <1>0, <1>1, <2>1 DEF Queued
  <2>2. CASE mcp.pc \in {"recv", "recover", "apply"}
    <3>1. mcp' = Queued(es) /\ Failed \notin Range(mcp.queue)
      BY <1>0, <1>5, <2>2
    <3>2. Log(mcp.queue, lastPub)
      BY <1>1 DEF FollowsLog
    <3>. DEFINE lq == lastPub
    <3>3. Log(mcp.queue \o es, lq)
      BY <1>1, <3>1, <3>2, LogFailed
    <3>4. es \in Nats
      BY DEF Nats, Failed
    <3>5. \A k \in O : k <= lq => k <= lastPub \/ k \in Range(es)
      OBVIOUS
    <3>6. lastPub <= lq /\ lq \in Nat
      BY <1>1
    <3>. HIDE DEF es, lq
    <3>7. /\ Queued(es) \in McpType /\ Queued(es).pc = mcp.pc
          /\ ConsumerOK(Queued(es), Queued(es).last, n, O, closed)
          /\ FollowsLog(Queued(es), O, lq)
      <4>1. /\ mcp \in McpType /\ lastPub \in Nat /\ FollowsLog(mcp, O, lastPub)
            /\ ConsumerOK(mcp, mcp.last, n, O, closed)
        BY <1>1
      <4>. HIDE DEF n
      <4>. QED
        BY <1>2, <2>2, <3>3, <3>4, <3>5, <3>6, <4>1, QueuedOn
    <3>. QED
      BY <3>1, <3>7 DEF lq
  <2>. QED
    BY <1>1, <2>1, <2>2 DEF McpType
<1>9. FailureLast'
  BY <1>0, <1>1, <1>3, <1>4, <1>7, <1>8 DEF FailureLast
<1>. QED
  BY <1>0, <1>1, <1>3, <1>8, <1>9, ServerHolds, ClientMoves

-----------------------------------------------------------------------------
LEMMA FreshConsumer ==
    ASSUME NEW c, c.got = <<>>, c.pc # "apply", c.end # "closed"
    PROVE  ConsumerOK(c, 0, 0, {}, FALSE)
<1>1. Increasing(c.got) /\ \A i \in 1 .. Len(c.got) : c.got[i] <= 0
  BY EmptyRead DEF Increasing
<1>2. 0 <= 0
  OBVIOUS
<1>. QED
  BY <1>1, <1>2 DEF ConsumerOK

LEMMA InitDelivery == Init => DeliveryInv
<1>. SUFFICES ASSUME Init PROVE DeliveryInv
  OBVIOUS
<1>1. /\ ev = <<>> /\ output = <<>> /\ chan = <<>> /\ hist = <<>> /\ closed = FALSE
      /\ up = TRUE /\ routed = TRUE /\ failure = FALSE /\ wake = FALSE
      /\ lastPub = 0 /\ pending = {}
      /\ task = [x \in Tasks |-> [pc |-> "wait", seq |-> 0, left |-> MaxChunks]]
  BY DEF Init
<1>2. PICK c \in {"mcp", "uni"} :
         /\ mcp = [pc |-> IF c = "mcp" THEN "start" ELSE "done", replay |-> <<>>,
                   queue |-> <<>>, lagged |-> FALSE, missed |-> {}, last |-> 0,
                   got |-> <<>>, resp |-> NoResponse,
                   end |-> IF c = "mcp" THEN "none" ELSE "absent"]
         /\ uni = [pc |-> IF c = "uni" THEN "read" ELSE "done", cur |-> 0,
                   missed |-> {}, got |-> <<>>, resp |-> NoResponse,
                   end |-> IF c = "uni" THEN "none" ELSE "absent"]
  BY DEF Init
<1>3. /\ Len(ev) = 0 /\ Outputs(Len(ev)) = {} /\ Range(<<>>) = {}
      /\ NoResponse \in ReadType /\ <<>> \in Nats /\ Len(<<>>) = 0
      /\ Log(<<>>, 0) /\ Increasing(<<>>)
  BY <1>1, EmptyRead DEF Outputs, Log, Increasing
<1>4. /\ mcp \in McpType /\ mcp.pc \in {"start", "done"} /\ mcp.replay = <<>> /\ mcp.queue = <<>>
      /\ mcp.missed = {} /\ mcp.last = 0 /\ mcp.got = <<>> /\ mcp.resp = NoResponse
      /\ mcp.end # "closed"
  BY <1>2, <1>3 DEF McpType, Ends
<1>5. /\ uni \in UniType /\ uni.pc \in {"read", "done"} /\ uni.cur = 0 /\ uni.got = <<>>
      /\ uni.missed = {} /\ uni.end # "closed"
  BY <1>2, <1>3 DEF UniType, Ends
<1>6. mcp.pc = "done" \/ uni.pc = "done"
  BY <1>2
<1>7. DeliveryType
  BY <1>1, <1>3, <1>4, <1>5 DEF DeliveryType
<1>8. Numbered
  BY <1>1, <1>3 DEF Numbered
<1>9. FailureLast
  BY <1>1, <1>3, <1>4, <1>6 DEF FailureLast
<1>10. FollowsLog(mcp, {}, 0)
  BY <1>3, <1>4 DEF FollowsLog
<1>11. ConsumerOK(mcp, 0, 0, {}, FALSE)
  BY <1>4, FreshConsumer
<1>12. ConsumerOK(uni, 0, 0, {}, FALSE)
  BY <1>5, FreshConsumer
<1>. QED
  BY <1>1, <1>3, <1>4, <1>5, <1>7, <1>8, <1>9, <1>10, <1>11, <1>12 DEF DeliveryInv

LEMMA DeliveryStep == ClosingInv /\ DeliveryInv /\ [Next]_vars => DeliveryInv'
<1>. SUFFICES ASSUME ClosingInv, DeliveryInv, [Next]_vars PROVE DeliveryInv'
  OBVIOUS
<1>1. CASE \E s \in Streams : StreamStep(s)
  BY <1>1, StreamOutputDelivers, FinishDelivers DEF StreamStep
<1>2. CASE \E x \in Tasks : SendStep(x)
  BY <1>2, NotifyDelivers, MaybeEmitClosedDelivers DEF SendStep
<1>3. CASE WatchExit
  BY <1>3, WatchExitDelivers
<1>4. CASE RemoveClosed \/ ShutdownSession \/ Ended \/ UNCHANGED vars
  <2>1. UNCHANGED <<ev, output, closed, task, up, chan, client, mcp, uni>>
    BY <1>4 DEF RemoveClosed, ShutdownSession, Ended, vars, server
  <2>. QED
    BY <2>1, ServerHolds, ServerStays
<1>5. CASE Disconnect
  BY <1>5, DisconnectDelivers
<1>6. CASE ClientStep
  BY <1>6, HandleNotificationDelivers, FailSessionDelivers DEF ClientStep
<1>7. CASE McpStep
  BY <1>7, SubscribeStep, ReceiveStep, RecoverStep, ApplyRecoveryStep DEF McpStep
<1>8. CASE UniStep
  BY <1>8, UniSteps
<1>9. CASE ResponseLost
  BY <1>9, ResponseLostStep
<1>. QED
  BY <1>1, <1>2, <1>3, <1>4, <1>5, <1>6, <1>7, <1>8, <1>9 DEF Next

(* For every number of streams and chunks and every capacity: the client's *)
(* log, its lagging subscriber and the reads of both consumers keep the    *)
(* invariant under which each published or retained chunk is accounted for.*)
THEOREM DeliveryInvariant == Spec => [](ClosingInv /\ DeliveryInv)
<1>1. Init => ClosingInv /\ DeliveryInv
  BY InitClosing, InitDelivery
<1>2. (ClosingInv /\ DeliveryInv) /\ [Next]_vars => (ClosingInv /\ DeliveryInv)'
  BY ClosingStep, DeliveryStep
<1>. QED
  BY <1>1, <1>2, PTL DEF Spec

(* No consumer moves past a chunk it has not had, and each has its chunks  *)
(* once and in order, however notifications are reordered, however often   *)
(* the log overflows, and wherever a read overlaps what was pushed.        *)
THEOREM NothingIsSkipped == Spec => []NothingSkipped
<1>1. ClosingInv /\ DeliveryInv => NothingSkipped
  <2>. SUFFICES ASSUME ClosingInv, DeliveryInv PROVE NothingSkipped
    OBVIOUS
  <2>1. mcp.last \in Nat /\ uni.cur \in Nat
    BY DEF DeliveryInv, DeliveryType, McpType, UniType
  <2>2. /\ ConsumerOK(mcp, mcp.last, Len(ev), Outputs(Len(ev)), closed)
        /\ ConsumerOK(uni, uni.cur, Len(ev), Outputs(Len(ev)), closed)
    BY DEF DeliveryInv
  <2>3. mcp.last <= Len(ev) /\ uni.cur <= Len(ev)
    BY <2>2 DEF ConsumerOK
  <2>4. /\ \A k \in Outputs(mcp.last) : k \in Outputs(Len(ev)) /\ k <= mcp.last
        /\ \A k \in Outputs(uni.cur) : k \in Outputs(Len(ev)) /\ k <= uni.cur
    BY <2>1, <2>3, OutputNumbers
  <2>. QED
    BY <2>2, <2>4 DEF NothingSkipped, ConsumerOK
<1>. QED
  BY <1>1, DeliveryInvariant, PTL

(* A consumer that ends because the process was closed has had all of its  *)
(* output, up to what the server or the history no longer retained.        *)
THEOREM ClosedMeansComplete == Spec => []ClosedIsComplete
<1>1. ClosingInv /\ DeliveryInv => ClosedIsComplete
  BY DEF ClosedIsComplete, DeliveryInv, ConsumerOK
<1>. QED
  BY <1>1, DeliveryInvariant, PTL

-----------------------------------------------------------------------------
(* How much there is at most: a stream uses up one of its chunks for each  *)
(* output it numbers, and exit and Closed are numbered once.               *)
Used == {p \in Streams \X (1 .. MaxChunks) : p[2] > task[p[1]].left}
Once(b) == IF b THEN 1 ELSE 0
ServerBound ==
    /\ Len(output) <= RetainCap /\ Len(chan) <= ChanCap /\ open <= Cardinality(Streams)
    /\ \A x \in Tasks : task[x].left \in 0 .. MaxChunks /\ task[x].seq <= Len(ev)
    /\ Len(ev) <= Cardinality(Used) + Once(exited) + Once(closed)
ClientBound ==
    /\ Len(hist) <= EventCap /\ Range(hist) \subseteq 0 .. Len(ev)
    /\ Had(mcp) \subseteq 1 .. Len(ev) /\ Had(uni) \subseteq 1 .. Len(ev)
BoundInv == ServerBound /\ ClientBound

LEMMA UsedFinite ==
    /\ IsFiniteSet(Used) /\ Cardinality(Used) \in Nat
    /\ Cardinality(Used) <= Cardinality(Streams) * MaxChunks
    /\ Cardinality(Streams) \in Nat
<1>. DEFINE C == 1 .. MaxChunks
<1>0. IsFiniteSet(Streams) /\ MaxChunks \in Nat
  BY EventsAssumption
<1>1. IsFiniteSet(C) /\ Cardinality(C) = MaxChunks
  <2>1. /\ IsFiniteSet(1 .. MaxChunks)
        /\ Cardinality(1 .. MaxChunks) = IF 1 > MaxChunks THEN 0 ELSE MaxChunks - 1 + 1
    BY <1>0, FS_Interval
  <2>. QED
    BY <1>0, <2>1
<1>2. Used \in SUBSET (Streams \X C)
  BY DEF Used
<1>. HIDE DEF C
<1>3. IsFiniteSet(Streams \X C) /\ Cardinality(Streams \X C) = Cardinality(Streams) * MaxChunks
  BY <1>0, <1>1, FS_Product
<1>. DEFINE Q == Streams \X C
<1>4. IsFiniteSet(Used) /\ Cardinality(Used) <= Cardinality(Q)
  <2>1. Used \in SUBSET Q /\ IsFiniteSet(Q)
    BY <1>2, <1>3
  <2>. HIDE DEF Q
  <2>. QED
    BY <2>1, FS_Subset
<1>5. Cardinality(Used) \in Nat /\ Cardinality(Streams) \in Nat
  BY <1>0, <1>4, FS_CardinalityType
<1>. QED
  BY <1>3, <1>4, <1>5

LEMMA EventsBounded ==
    ASSUME ClosingInv, ServerBound
    PROVE  /\ Len(ev) \in Nat /\ Cardinality(Streams) * MaxChunks + 2 \in Nat
           /\ Len(ev) <= Cardinality(Streams) * MaxChunks + 2
<1>. DEFINE M == Cardinality(Streams) * MaxChunks
            U == Cardinality(Used)
<1>1. U \in Nat /\ U <= M /\ Cardinality(Streams) \in Nat /\ MaxChunks \in Nat
  BY UsedFinite, EventsAssumption
<1>2. M \in Nat
  BY <1>1
<1>3. Len(ev) \in Nat
  BY OutputNumbers
<1>4. Len(ev) <= U + Once(exited) + Once(closed)
  BY DEF ServerBound
<1>. HIDE DEF M, U
<1>5. Len(ev) <= M + 2
  BY <1>1, <1>2, <1>3, <1>4 DEF Once
<1>. QED
  BY <1>2, <1>3, <1>5 DEF M

(* The server's side.                                                      *)
LEMMA MoreUsed ==
    ASSUME \A t \in Streams : task[t].left \in Nat /\ task'[t].left \in Nat /\ task'[t].left <= task[t].left
    PROVE  Cardinality(Used) \in Nat /\ Cardinality(Used') \in Nat /\ Cardinality(Used) <= Cardinality(Used')
<1>0. IsFiniteSet(Used') /\ Cardinality(Used') \in Nat
  <2>. DEFINE C == 1 .. MaxChunks
  <2>1. IsFiniteSet(Streams) /\ IsFiniteSet(C)
    BY EventsAssumption, FS_Interval
  <2>2. Used' \in SUBSET (Streams \X C)
    BY DEF Used
  <2>. HIDE DEF C
  <2>3. IsFiniteSet(Streams \X C)
    BY <2>1, FS_Product
  <2>. DEFINE Q == Streams \X C
  <2>4. Used' \in SUBSET Q /\ IsFiniteSet(Q)
    BY <2>2, <2>3
  <2>. HIDE DEF Q
  <2>5. IsFiniteSet(Used')
    BY <2>4, FS_Subset
  <2>. QED
    BY <2>5, FS_CardinalityType
<1>1. Used \subseteq Used'
  <2>. SUFFICES ASSUME NEW t \in Streams, NEW i \in 1 .. MaxChunks, i > task[t].left
                PROVE  i > task'[t].left
    BY DEF Used
  <2>. QED
    BY EventsAssumption
<1>. QED
  BY <1>0, <1>1, UsedFinite, FS_Subset

LEMMA OneMoreUsed ==
    ASSUME NEW s \in Streams, NEW l \in 1 .. MaxChunks, task[s].left = l, task'[s].left = l - 1,
           \A t \in Streams \ {s} : task'[t].left = task[t].left
    PROVE  Cardinality(Used') = Cardinality(Used) + 1
<1>0. MaxChunks \in Nat
  BY EventsAssumption
<1>1. <<s, l>> \notin Used
  BY <1>0 DEF Used
<1>2. Used' = Used \cup {<<s, l>>}
  <2>1. ASSUME NEW t \in Streams, NEW i \in 1 .. MaxChunks
        PROVE  i > task'[t].left <=> i > task[t].left \/ (t = s /\ i = l)
    <3>1. CASE t = s
      BY <1>0, <3>1
    <3>2. CASE t # s
      BY <3>2
    <3>. QED
      BY <3>1, <3>2
  <2>. DEFINE Q == Streams \X (1 .. MaxChunks)
  <2>2. \A q \in Q : q[1] \in Streams /\ q[2] \in 1 .. MaxChunks /\ q = <<q[1], q[2]>>
    OBVIOUS
  <2>3. <<s, l>> \in Q
    OBVIOUS
  <2>4. Used = {q \in Q : q[2] > task[q[1]].left} /\ Used' = {q \in Q : q[2] > task'[q[1]].left}
    BY DEF Used
  <2>. HIDE DEF Q
  <2>5. \A q \in Q : q[2] > task'[q[1]].left <=> q[2] > task[q[1]].left \/ q = <<s, l>>
    BY <2>1, <2>2
  <2>. QED
    BY <2>3, <2>4, <2>5
<1>. QED
  BY <1>1, <1>2, UsedFinite, FS_AddElement

(* Tasks that number no output: at most the exit or Closed, for the first  *)
(* time.                                                                   *)
LEMMA TaskBound ==
    ASSUME ClosingInv, ServerBound, UNCHANGED output,
           open' \in Nat, open' <= open, Len(chan') <= ChanCap,
           \/ UNCHANGED <<ev, exited, closed>>
           \/ ~exited /\ exited' = TRUE /\ UNCHANGED closed /\ ev' = Append(ev, "exited")
           \/ ~closed /\ closed' = TRUE /\ UNCHANGED exited /\ ev' = Append(ev, "closed"),
           \A x \in Tasks : /\ task'[x].left \in 0 .. MaxChunks /\ task'[x].left <= task[x].left
                            /\ task'[x].seq \in Nat
                            /\ task'[x].seq <= task[x].seq \/ task'[x].seq = Len(ev') \/ task'[x].seq = 0
    PROVE  ServerBound'
<1>0. /\ Len(ev) \in Nat /\ MaxChunks \in Nat /\ Streams \subseteq Tasks /\ open \in Nat
      /\ \A x \in Tasks : task[x].seq \in Nat
  BY OutputNumbers, EventsAssumption DEF Tasks, ClosingInv, ServerType
<1>1. \A t \in Streams : task[t].left \in Nat /\ task'[t].left \in Nat /\ task'[t].left <= task[t].left
  BY <1>0 DEF ServerBound
<1>2. Cardinality(Used) \in Nat /\ Cardinality(Used') \in Nat /\ Cardinality(Used) <= Cardinality(Used')
  BY <1>1, MoreUsed
<1>3. /\ Len(ev') \in Nat /\ Len(ev) <= Len(ev')
      /\ Len(ev') <= Cardinality(Used') + Once(exited') + Once(closed')
  <2>1. Len(ev) <= Cardinality(Used) + Once(exited) + Once(closed)
    BY DEF ServerBound
  <2>2. CASE UNCHANGED <<ev, exited, closed>>
    BY <1>0, <1>2, <2>1, <2>2 DEF Once
  <2>3. CASE ~exited /\ exited' = TRUE /\ UNCHANGED closed /\ ev' = Append(ev, "exited")
    <3>1. Len(ev') = Len(ev) + 1
      BY <2>3, Appended
    <3>. QED
      BY <1>0, <1>2, <2>1, <2>3, <3>1 DEF Once
  <2>4. CASE ~closed /\ closed' = TRUE /\ UNCHANGED exited /\ ev' = Append(ev, "closed")
    <3>1. Len(ev') = Len(ev) + 1
      BY <2>4, Appended
    <3>. QED
      BY <1>0, <1>2, <2>1, <2>4, <3>1 DEF Once
  <2>. QED
    BY <2>2, <2>3, <2>4
<1>4. \A x \in Tasks : task'[x].seq <= Len(ev')
  <2>. SUFFICES ASSUME NEW x \in Tasks PROVE task'[x].seq <= Len(ev')
    OBVIOUS
  <2>1. task[x].seq <= Len(ev)
    BY DEF ServerBound
  <2>. QED
    BY <1>0, <1>3, <2>1
<1>5. open' <= Cardinality(Streams)
  BY <1>0, UsedFinite DEF ServerBound
<1>6. Len(output') <= RetainCap
  BY DEF ServerBound
<1>. QED
  BY <1>3, <1>4, <1>5, <1>6 DEF ServerBound

LEMMA StreamOutputBound ==
    ASSUME ClosingInv, DeliveryInv, ServerBound, NEW s \in Streams, StreamOutput(s)
    PROVE  ServerBound' /\ Len(ev) <= Len(ev')
<1>0. /\ s \in Tasks /\ Streams \subseteq Tasks /\ UNCHANGED <<present, open, exited, closed, up, chan>>
      /\ open \in Nat /\ task[s].left > 0 /\ Len(ev) \in Nat /\ MaxChunks \in Nat
  BY OutputNumbers, EventsAssumption DEF StreamOutput, Tasks, ClosingInv, ServerType
<1>1. \A x \in Tasks : /\ task[x].left \in 0 .. MaxChunks /\ task[x].seq <= Len(ev)
                       /\ task[x].seq \in Nat
  BY ServerHolds DEF ServerBound
<1>2. CASE present
  <2>. DEFINE r == [pc |-> "notify", seq |-> nextSeq, left |-> task[s].left - 1]
              a == Append(output, nextSeq)
  <2>1. /\ ev' = Append(ev, "output") /\ output' = Bounded(a, RetainCap)
        /\ task' = [task EXCEPT ![s] = r]
    BY <1>0, <1>2, ServerHolds DEF StreamOutput
  <2>2. Len(ev') = Len(ev) + 1
    BY <2>1, Appended
  <2>3. r \in [pc : Pcs, seq : Nat, left : Int]
    BY <1>0, ServerHolds DEF nextSeq, Pcs
  <2>4. task'[s] = r /\ \A y \in Tasks \ {s} : task'[y] = task[y]
    BY <1>0, <2>1, <2>3, TaskMoves
  <2>5. task[s].left \in 1 .. MaxChunks
    BY <1>0, <1>1
  <2>6. Cardinality(Used') = Cardinality(Used) + 1
    BY <1>0, <2>4, <2>5, OneMoreUsed
  <2>7. \A x \in Tasks : task'[x].left \in 0 .. MaxChunks /\ task'[x].seq <= Len(ev')
    <3>1. task'[s].left \in 0 .. MaxChunks /\ task'[s].seq <= Len(ev')
      BY <1>0, <2>2, <2>4, <2>5 DEF nextSeq
    <3>2. \A y \in Tasks \ {s} : task'[y].left \in 0 .. MaxChunks /\ task'[y].seq <= Len(ev')
      BY <1>0, <1>1, <2>2, <2>4
    <3>. QED
      BY <3>1, <3>2
  <2>8. Len(output') <= RetainCap
    <3>1. output \in Nats /\ Len(output) \in Nat /\ nextSeq \in Nat /\ RetainCap \in Nat
      BY <1>0, ServerHolds, NatSeq, EventsAssumption DEF nextSeq
    <3>2. a \in Nats /\ Len(a) = Len(output) + 1
      BY <3>1, NatAppend
    <3>. HIDE DEF a
    <3>3. Len(a) <= RetainCap + 1
      BY <3>1, <3>2 DEF ServerBound
    <3>4. a # <<>>
      BY <3>1, <3>2, EmptyRead
    <3>. QED
      BY <2>1, <3>1, <3>2, <3>3, <3>4, BoundedNats
  <2>9. Len(ev') <= Cardinality(Used') + Once(exited') + Once(closed')
    <3>1. Len(ev) <= Cardinality(Used) + Once(exited) + Once(closed)
      BY DEF ServerBound
    <3>. QED
      BY <1>0, <2>2, <2>6, <3>1, UsedFinite DEF Once
  <2>10. Len(chan') <= ChanCap /\ open' <= Cardinality(Streams)
    BY <1>0 DEF ServerBound
  <2>. QED
    BY <1>0, <2>2, <2>7, <2>8, <2>9, <2>10 DEF ServerBound
<1>3. CASE ~present
  <2>1. task' = Goto(s, "done") /\ UNCHANGED <<ev, output>>
    BY <1>3 DEF StreamOutput
  <2>2. \A x \in Tasks : task'[x].left = task[x].left /\ task'[x].seq = task[x].seq
    BY <1>0, <2>1, ServerHolds DEF Goto
  <2>3. \A x \in Tasks : /\ task'[x].left \in 0 .. MaxChunks /\ task'[x].left <= task[x].left
                         /\ task'[x].seq \in Nat /\ task'[x].seq <= task[x].seq
    BY <1>0, <1>1, <2>2
  <2>4. Len(chan') <= ChanCap /\ open' <= open
    BY <1>0 DEF ServerBound
  <2>. QED
    BY <1>0, <2>1, <2>3, <2>4, TaskBound
<1>. QED
  BY <1>2, <1>3

LEMMA ServerStepBound ==
    ASSUME ClosingInv, DeliveryInv, ServerBound,
           \/ \E s \in Streams : FinishOutputStream(s)
           \/ \E x \in Tasks : SendStep(x)
           \/ WatchExit
    PROVE  ServerBound' /\ Len(ev) <= Len(ev')
<1>0. /\ Streams \subseteq Tasks /\ Exit \in Tasks /\ open \in Nat /\ Len(ev) \in Nat /\ MaxChunks \in Nat
      /\ ChanCap \in Nat /\ Len(chan) <= ChanCap
      /\ task \in [Tasks -> [pc : Pcs, seq : Nat, left : Int]]
  BY OutputNumbers, EventsAssumption DEF Tasks, ClosingInv, ServerType, ServerBound
<1>1. \A x \in Tasks : task[x].left \in 0 .. MaxChunks /\ task[x].seq <= Len(ev) /\ task[x].seq \in Nat
  BY <1>0 DEF ServerBound
<1>2. ASSUME NEW s \in Streams, FinishOutputStream(s) PROVE ServerBound' /\ Len(ev) <= Len(ev')
  <2>1. UNCHANGED <<output, ev, exited, closed, chan>>
    BY <1>2 DEF FinishOutputStream
  <2>2. \A x \in Tasks : (task'[x].left = task[x].left \/ task'[x].left = 0) /\ task'[x].seq = task[x].seq
    BY <1>0, <1>2 DEF FinishOutputStream
  <2>3. \A x \in Tasks : /\ task'[x].left \in 0 .. MaxChunks /\ task'[x].left <= task[x].left
                         /\ task'[x].seq \in Nat /\ task'[x].seq <= task[x].seq
    <3>. SUFFICES ASSUME NEW x \in Tasks
                  PROVE  /\ task'[x].left \in 0 .. MaxChunks /\ task'[x].left <= task[x].left
                         /\ task'[x].seq \in Nat /\ task'[x].seq <= task[x].seq
      OBVIOUS
    <3>1. task[x].left \in 0 .. MaxChunks /\ task[x].seq \in Nat
      BY <1>1
    <3>2. (task'[x].left = task[x].left \/ task'[x].left = 0) /\ task'[x].seq = task[x].seq
      BY <2>2
    <3>. QED
      BY <1>0, <3>1, <3>2
  <2>4. open' \in Nat /\ open' <= open
    BY <1>0, <1>2 DEF FinishOutputStream
  <2>. QED
    BY <1>0, <2>1, <2>3, <2>4, TaskBound
<1>3. ASSUME NEW x \in Tasks, Notify(x) PROVE ServerBound' /\ Len(ev) <= Len(ev')
  <2>1. UNCHANGED <<output, ev, exited, closed, open>>
    BY <1>3 DEF Notify
  <2>2. \A y \in Tasks : task'[y].left = task[y].left /\ (task'[y].seq = task[y].seq \/ task'[y].seq = 0)
    BY <1>0, <1>3 DEF Notify
  <2>3. \A y \in Tasks : /\ task'[y].left \in 0 .. MaxChunks /\ task'[y].left <= task[y].left
                         /\ task'[y].seq \in Nat /\ task'[y].seq <= task[y].seq
    BY <1>0, <1>1, <2>2
  <2>4. Len(chan') <= ChanCap
    <3>1. chan \in Nats /\ Len(chan) \in Nat /\ task[x].seq \in Nat
      BY <1>1, ServerHolds, NatSeq
    <3>2. Len(Append(chan, task[x].seq)) = Len(chan) + 1
      BY <3>1, NatAppend
    <3>. QED
      BY <1>0, <1>3, <3>1, <3>2 DEF Notify
  <2>5. open' \in Nat /\ open' <= open
    BY <1>0, <2>1
  <2>. QED
    BY <1>0, <2>1, <2>3, <2>4, <2>5, TaskBound
<1>4. ASSUME NEW x \in Tasks, MaybeEmitClosed(x) PROVE ServerBound' /\ Len(ev) <= Len(ev')
  <2>1. UNCHANGED <<output, exited, open, chan>>
    BY <1>4 DEF MaybeEmitClosed
  <2>2. \/ UNCHANGED <<ev, closed>> /\ task' = Goto(x, "done")
        \/ /\ ~closed /\ closed' = TRUE /\ ev' = Append(ev, "closed")
           /\ task' = [task EXCEPT ![x].pc = "notifyClosed", ![x].seq = nextSeq]
    BY <1>4 DEF MaybeEmitClosed
  <2>3. ev' = Append(ev, "closed") => Len(ev') = Len(ev) + 1
    BY Appended
  <2>4. \A y \in Tasks : /\ task'[y].left = task[y].left
                         /\ task'[y].seq = task[y].seq \/ task'[y].seq = Len(ev')
    <3>1. ASSUME NEW y \in Tasks, UNCHANGED ev PROVE task'[y].left = task[y].left /\ task'[y].seq = task[y].seq
      <4>1. task' = Goto(x, "done")
        <5>1. Len(ev') # Len(ev) + 1
          BY <1>0, <3>1
        <5>. QED
          BY <2>2, <2>3, <5>1
      <4>. QED
        BY <1>0, <4>1 DEF Goto
    <3>2. ASSUME NEW y \in Tasks, Len(ev') = Len(ev) + 1
          PROVE  task'[y].left = task[y].left /\ (task'[y].seq = task[y].seq \/ task'[y].seq = Len(ev'))
      <4>1. task' = [task EXCEPT ![x].pc = "notifyClosed", ![x].seq = Len(ev')]
        <5>1. ev' # ev
          BY <1>0, <3>2
        <5>2. nextSeq = Len(ev')
          BY <3>2 DEF nextSeq
        <5>. QED
          BY <2>2, <5>1, <5>2
      <4>2. CASE y = x
        BY <1>0, <4>1, <4>2
      <4>3. CASE y # x
        BY <1>0, <4>1, <4>3
      <4>. QED
        BY <4>2, <4>3
    <3>. QED
      BY <2>2, <2>3, <3>1, <3>2
  <2>5. Len(ev') \in Nat /\ Len(ev) <= Len(ev')
    BY <1>0, <2>2, <2>3
  <2>6. \A y \in Tasks : /\ task'[y].left \in 0 .. MaxChunks /\ task'[y].left <= task[y].left
                         /\ task'[y].seq \in Nat
                         /\ task'[y].seq <= task[y].seq \/ task'[y].seq = Len(ev')
    <3>. SUFFICES ASSUME NEW y \in Tasks
                  PROVE  /\ task'[y].left \in 0 .. MaxChunks /\ task'[y].left <= task[y].left
                         /\ task'[y].seq \in Nat
                         /\ task'[y].seq <= task[y].seq \/ task'[y].seq = Len(ev')
      OBVIOUS
    <3>1. task[y].left \in 0 .. MaxChunks /\ task[y].seq \in Nat
      BY <1>1
    <3>2. task'[y].left = task[y].left /\ (task'[y].seq = task[y].seq \/ task'[y].seq = Len(ev'))
      BY <2>4
    <3>. QED
      BY <1>0, <2>5, <3>1, <3>2
  <2>7. open' \in Nat /\ open' <= open
    BY <1>0, <2>1
  <2>. QED
    BY <1>0, <2>1, <2>2, <2>5, <2>6, <2>7, TaskBound
<1>5. ASSUME WatchExit PROVE ServerBound' /\ Len(ev) <= Len(ev')
  <2>1. UNCHANGED <<output, closed, open, chan>> /\ ~exited
    BY <1>5 DEF WatchExit, ClosingInv, ExitNumbered, ServerType
  <2>2. \/ UNCHANGED <<ev, exited>> /\ task' = Goto(Exit, "emit")
        \/ /\ exited' = TRUE /\ ev' = Append(ev, "exited")
           /\ task' = [task EXCEPT ![Exit].pc = "notify", ![Exit].seq = nextSeq]
    BY <1>5 DEF WatchExit
  <2>3. ev' = Append(ev, "exited") => Len(ev') = Len(ev) + 1
    BY Appended
  <2>4. \A y \in Tasks : /\ task'[y].left = task[y].left
                         /\ task'[y].seq = task[y].seq \/ task'[y].seq = Len(ev')
    <3>1. ASSUME NEW y \in Tasks, UNCHANGED ev PROVE task'[y].left = task[y].left /\ task'[y].seq = task[y].seq
      <4>1. task' = Goto(Exit, "emit")
        <5>1. Len(ev') # Len(ev) + 1
          BY <1>0, <3>1
        <5>. QED
          BY <2>2, <2>3, <5>1
      <4>. QED
        BY <1>0, <4>1 DEF Goto
    <3>2. ASSUME NEW y \in Tasks, Len(ev') = Len(ev) + 1
          PROVE  task'[y].left = task[y].left /\ (task'[y].seq = task[y].seq \/ task'[y].seq = Len(ev'))
      <4>1. task' = [task EXCEPT ![Exit].pc = "notify", ![Exit].seq = Len(ev')]
        <5>1. ev' # ev
          BY <1>0, <3>2
        <5>2. nextSeq = Len(ev')
          BY <3>2 DEF nextSeq
        <5>. QED
          BY <2>2, <5>1, <5>2
      <4>2. CASE y = Exit
        BY <1>0, <4>1, <4>2
      <4>3. CASE y # Exit
        BY <1>0, <4>1, <4>3
      <4>. QED
        BY <4>2, <4>3
    <3>. QED
      BY <2>2, <2>3, <3>1, <3>2
  <2>5. Len(ev') \in Nat /\ Len(ev) <= Len(ev')
    BY <1>0, <2>2, <2>3
  <2>6. \A y \in Tasks : /\ task'[y].left \in 0 .. MaxChunks /\ task'[y].left <= task[y].left
                         /\ task'[y].seq \in Nat
                         /\ task'[y].seq <= task[y].seq \/ task'[y].seq = Len(ev')
    <3>. SUFFICES ASSUME NEW y \in Tasks
                  PROVE  /\ task'[y].left \in 0 .. MaxChunks /\ task'[y].left <= task[y].left
                         /\ task'[y].seq \in Nat
                         /\ task'[y].seq <= task[y].seq \/ task'[y].seq = Len(ev')
      OBVIOUS
    <3>1. task[y].left \in 0 .. MaxChunks /\ task[y].seq \in Nat
      BY <1>1
    <3>2. task'[y].left = task[y].left /\ (task'[y].seq = task[y].seq \/ task'[y].seq = Len(ev'))
      BY <2>4
    <3>. QED
      BY <1>0, <2>5, <3>1, <3>2
  <2>7. open' \in Nat /\ open' <= open
    BY <1>0, <2>1
  <2>. QED
    BY <1>0, <2>1, <2>2, <2>5, <2>6, <2>7, TaskBound
<1>. QED
  BY <1>2, <1>3, <1>4, <1>5 DEF SendStep

(* Every other step leaves the tasks alone and sends nothing.              *)
LEMMA RestBound ==
    ASSUME ClosingInv, DeliveryInv, ServerBound,
           UNCHANGED <<ev, output, open, exited, closed, task>>,
           \/ UNCHANGED chan
           \/ chan # <<>> /\ chan' = Tail(chan)
           \/ \E n \in 0 .. Len(chan) : chan' = SubSeq(chan, 1, n)
    PROVE  ServerBound' /\ Len(ev) <= Len(ev')
<1>0. chan \in Nats /\ Len(chan) \in Nat /\ Len(ev) \in Nat /\ ChanCap \in Nat /\ Len(chan) <= ChanCap
  BY ServerHolds, NatSeq, OutputNumbers, EventsAssumption DEF ServerBound
<1>1. Len(chan') <= ChanCap
  <2>1. CASE UNCHANGED chan
    BY <1>0, <2>1
  <2>2. CASE chan # <<>> /\ chan' = Tail(chan)
    BY <1>0, <2>2, NatTail
  <2>3. ASSUME NEW n \in 0 .. Len(chan), chan' = SubSeq(chan, 1, n) PROVE Len(chan') <= ChanCap
    BY <1>0, <2>3 DEF Nats
  <2>. QED
    BY <2>1, <2>2, <2>3
<1>2. Used' = Used
  BY DEF Used
<1>. QED
  BY <1>0, <1>1, <1>2 DEF ServerBound

(* The consumers' side.                                                    *)
LEMMA ReadHad ==
    ASSUME ClosingInv, DeliveryInv, NEW after \in Nat
    PROVE  Range(exec_read(after).chunks) \cup exec_read(after).gone \subseteq 1 .. Len(ev)
<1>1. \A x : x \in Range(After(output, after)) => x \in Range(output)
  BY ServerHolds, AfterCursor
<1>2. Range(exec_read(after).chunks) = Range(After(output, after)) /\ exec_read(after).gone \subseteq Evicted
  BY DEF exec_read
<1>3. Evicted \subseteq Outputs(Len(ev)) /\ Range(output) \subseteq Outputs(Len(ev))
  BY ServerHolds DEF Evicted
<1>. QED
  BY <1>1, <1>2, <1>3, OutputNumbers

LEMMA EndHad ==
    ASSUME NEW m \in McpType, NEW how, NEW S, Had(m) \subseteq S
    PROVE  Had(EndMcp(m, how)) \subseteq S
<1>1. /\ EndMcp(m, how).got = m.got /\ EndMcp(m, how).missed = m.missed
      /\ EndMcp(m, how).resp = NoResponse
  BY DEF EndMcp, McpType
<1>. QED
  BY <1>1, EmptyRead DEF Had

LEMMA ConsumeHad ==
    ASSUME ClosingInv, NEW m \in McpType, NEW k \in Nat, k <= Len(ev), Had(m) \subseteq 1 .. Len(ev)
    PROVE  Had(Consume(k, m)) \subseteq 1 .. Len(ev)
<1>0. /\ Len(ev) \in Nat /\ m.got \in Nats /\ m.last \in Nat
      /\ k # Failed => k \in 1 .. Len(ev) /\ ev[k] \in {"output", "exited", "closed"}
  BY OutputNumbers DEF McpType, Failed, ClosingInv, ServerType
<1>1. CASE k = Failed
  <2>1. Consume(k, m) = EndMcp(m, "failed")
    BY <1>1 DEF Consume
  <2>. QED
    BY <2>1, EndHad
<1>2. CASE k # Failed /\ ev[k] \in {"exited", "closed"}
  <2>. DEFINE w == [m EXCEPT !.last = Max2(@, k)]
  <2>1. Max2(m.last, k) \in Nat
    BY <1>0 DEF Max2
  <2>2. w \in McpType /\ w.got = m.got /\ w.missed = m.missed /\ w.resp = m.resp
    BY <2>1 DEF McpType
  <2>3. Consume(k, m) = w \/ Consume(k, m) = EndMcp(w, "closed")
    BY <1>2 DEF Consume
  <2>. HIDE DEF w
  <2>4. Had(w) \subseteq 1 .. Len(ev)
    BY <2>2 DEF Had
  <2>. QED
    BY <2>2, <2>3, <2>4, EndHad
<1>3. CASE k # Failed /\ ev[k] = "output"
  <2>. DEFINE g == Append(m.got, k)
              w == [m EXCEPT !.last = k, !.got = g]
  <2>1. \A y : y \in Range(g) <=> y \in Range(m.got) \/ y = k
    BY <1>0, NatAppend
  <2>2. Consume(k, m) = w \/ Consume(k, m) = m
    BY <1>3 DEF Consume
  <2>. HIDE DEF g
  <2>3. w.got = g /\ w.missed = m.missed /\ w.resp = m.resp
    BY DEF McpType
  <2>. HIDE DEF w
  <2>4. Had(w) \subseteq 1 .. Len(ev)
    BY <1>0, <1>3, <2>1, <2>3 DEF Had
  <2>. QED
    BY <2>2, <2>4
<1>. QED
  BY <1>0, <1>1, <1>2, <1>3

LEMMA McpHad ==
    ASSUME ClosingInv, DeliveryInv, Had(mcp) \subseteq 1 .. Len(ev), McpStep
    PROVE  Had(mcp') \subseteq 1 .. Len(ev)
<1>0. /\ mcp \in McpType /\ lastPub \in Nat /\ lastPub <= Len(ev) /\ Len(ev) \in Nat
      /\ mcp.replay \in Nats /\ mcp.queue \in Nats /\ mcp.last \in Nat /\ mcp.got \in Nats
      /\ mcp.resp \in ReadType
      /\ FollowsLog(mcp, Outputs(Len(ev)), lastPub)
  BY OutputNumbers DEF DeliveryInv, DeliveryType, Numbered, McpType
<1>1. CASE Subscribe
  <2>1. /\ mcp'.got = mcp.got /\ mcp'.resp = mcp.resp
        /\ mcp'.missed = (1 .. lastPub) \ Range(hist)
    BY <1>0, <1>1 DEF Subscribe, McpType
  <2>2. 1 .. lastPub \subseteq 1 .. Len(ev)
    BY <1>0
  <2>. QED
    BY <2>1, <2>2 DEF Had
<1>2. CASE Receive
  <2>1. CASE mcp.replay # <<>> /\ mcp' = Consume(Head(mcp.replay), [mcp EXCEPT !.replay = Tail(@)])
    <3>. DEFINE m == [mcp EXCEPT !.replay = Tail(@)]
                k == Head(mcp.replay)
    <3>1. Log(mcp.replay, lastPub)
      BY <1>0 DEF FollowsLog
    <3>2. k \in Nat /\ k <= lastPub /\ Tail(mcp.replay) \in Nats
      BY <1>0, <2>1, <3>1, NatTail, LogTail
    <3>3. m \in McpType /\ m.got = mcp.got /\ m.missed = mcp.missed /\ m.resp = mcp.resp
      BY <1>0, <3>2 DEF McpType
    <3>4. k <= Len(ev)
      BY <1>0, <3>2
    <3>. HIDE DEF m, k
    <3>5. Had(m) \subseteq 1 .. Len(ev)
      BY <3>3 DEF Had
    <3>. QED
      BY <2>1, <3>2, <3>3, <3>4, <3>5, ConsumeHad DEF m, k
  <2>2. CASE mcp.queue # <<>> /\ mcp' = Consume(Head(mcp.queue), [mcp EXCEPT !.queue = Tail(@)])
    <3>. DEFINE m == [mcp EXCEPT !.queue = Tail(@)]
                k == Head(mcp.queue)
    <3>1. Log(mcp.queue, lastPub)
      BY <1>0 DEF FollowsLog
    <3>2. k \in Nat /\ k <= lastPub /\ Tail(mcp.queue) \in Nats
      BY <1>0, <2>2, <3>1, NatTail, LogTail
    <3>3. m \in McpType /\ m.got = mcp.got /\ m.missed = mcp.missed /\ m.resp = mcp.resp
      BY <1>0, <3>2 DEF McpType
    <3>4. k <= Len(ev)
      BY <1>0, <3>2
    <3>. HIDE DEF m, k
    <3>5. Had(m) \subseteq 1 .. Len(ev)
      BY <3>3 DEF Had
    <3>. QED
      BY <2>2, <3>2, <3>3, <3>4, <3>5, ConsumeHad DEF m, k
  <2>3. CASE mcp' = [mcp EXCEPT !.pc = "recover", !.lagged = FALSE]
    <3>1. mcp'.got = mcp.got /\ mcp'.missed = mcp.missed /\ mcp'.resp = mcp.resp
      BY <1>0, <2>3 DEF McpType
    <3>. QED
      BY <3>1 DEF Had
  <2>. QED
    BY <1>2, <2>1, <2>2, <2>3 DEF Receive
<1>3. CASE Recover
  <2>1. CASE mcp' = EndMcp(mcp, "failed")
    BY <1>0, <2>1, EndHad
  <2>2. CASE mcp' = [mcp EXCEPT !.pc = "apply", !.resp = exec_read(mcp.last)]
    <3>1. mcp'.got = mcp.got /\ mcp'.missed = mcp.missed /\ mcp'.resp = exec_read(mcp.last)
      BY <1>0, <2>2 DEF McpType
    <3>2. Range(exec_read(mcp.last).chunks) \cup exec_read(mcp.last).gone \subseteq 1 .. Len(ev)
      BY <1>0, ReadHad
    <3>. QED
      BY <3>1, <3>2 DEF Had
  <2>. QED
    BY <1>3, <2>1, <2>2 DEF Recover
<1>4. CASE ApplyRecovery
  <2>. DEFINE r == mcp.resp
              l == Max2(mcp.last, r.next - 1)
              g == mcp.got \o After(r.chunks, mcp.last)
              m == [mcp EXCEPT !.pc = "recv", !.got = g, !.missed = @ \cup r.gone, !.last = l,
                               !.resp = NoResponse]
  <2>1. mcp' = m \/ mcp' = EndMcp(m, "closed")
    BY <1>4 DEF ApplyRecovery, Recovered
  <2>2. ConsumerOK(mcp, mcp.last, Len(ev), Outputs(Len(ev)), closed) /\ mcp.pc = "apply"
    BY <1>4 DEF DeliveryInv, ApplyRecovery
  <2>3. /\ g \in Nats /\ r.next - 1 \in Nat
        /\ \A x : x \in Range(g) <=> x \in Range(mcp.got) \/ x \in Range(r.chunks)
    <3>1. Outputs(Len(ev)) \in SUBSET Nat
      BY OutputNumbers
    <3>. QED
      BY <1>0, <2>2, <3>1, Takes
  <2>4. l \in Nat
    BY <1>0, <2>3 DEF Max2
  <2>5. mcp.missed \cup r.gone \subseteq Nat
    BY <1>0 DEF McpType, ReadType
  <2>. HIDE DEF g, l
  <2>6. m \in McpType /\ m.got = g /\ m.missed = mcp.missed \cup r.gone /\ m.resp = NoResponse
    BY <1>0, <2>3, <2>4, <2>5, EmptyRead DEF McpType
  <2>. HIDE DEF m
  <2>7. Had(m) \subseteq 1 .. Len(ev)
    BY <2>3, <2>6, EmptyRead DEF Had
  <2>. QED
    BY <2>1, <2>6, <2>7, EndHad
<1>. QED
  BY <1>1, <1>2, <1>3, <1>4 DEF McpStep

LEMMA UniHad ==
    ASSUME ClosingInv, DeliveryInv, Had(uni) \subseteq 1 .. Len(ev),
           UniStep \/ uni' = EndUni(uni, "failed")
    PROVE  Had(uni') \subseteq 1 .. Len(ev)
<1>0. uni \in UniType /\ uni.cur \in Nat /\ uni.got \in Nats /\ uni.resp \in ReadType
  BY DEF DeliveryInv, DeliveryType, UniType
<1>1. CASE uni' = EndUni(uni, "failed")
  <2>1. uni'.got = uni.got /\ uni'.missed = uni.missed /\ uni'.resp = NoResponse
    BY <1>0, <1>1 DEF EndUni, UniType
  <2>. QED
    BY <2>1, EmptyRead DEF Had
<1>2. CASE Wait
  <2>1. uni'.got = uni.got /\ uni'.missed = uni.missed /\ uni'.resp = uni.resp
    BY <1>0, <1>2 DEF Wait, UniType
  <2>. QED
    BY <2>1 DEF Had
<1>3. CASE uni' = [uni EXCEPT !.pc = "apply", !.resp = exec_read(uni.cur)]
  <2>1. uni'.got = uni.got /\ uni'.missed = uni.missed /\ uni'.resp = exec_read(uni.cur)
    BY <1>0, <1>3 DEF UniType
  <2>2. Range(exec_read(uni.cur).chunks) \cup exec_read(uni.cur).gone \subseteq 1 .. Len(ev)
    BY <1>0, ReadHad
  <2>. QED
    BY <2>1, <2>2 DEF Had
<1>4. CASE ApplyRead
  <2>1. /\ uni'.got = uni.got \o uni.resp.chunks /\ uni'.missed = uni.missed \cup uni.resp.gone
        /\ uni'.resp = NoResponse
    BY <1>0, <1>4 DEF ApplyRead, Applied, EndUni, UniType
  <2>2. uni.resp.chunks \in Nats
    BY <1>0 DEF ReadType
  <2>3. \A x : x \in Range(uni'.got) <=> x \in Range(uni.got) \/ x \in Range(uni.resp.chunks)
    BY <1>0, <2>1, <2>2, NatConcat
  <2>. QED
    BY <2>1, <2>3, EmptyRead DEF Had
<1>. QED
  BY <1>1, <1>2, <1>3, <1>4 DEF UniStep, Read

LEMMA QueuedHad ==
    ASSUME mcp \in McpType, NEW es
    PROVE  Had(Queued(es)) = Had(mcp)
<1>1. Queued(es).got = mcp.got /\ Queued(es).missed = mcp.missed /\ Queued(es).resp = mcp.resp
  BY DEF Queued, McpType
<1>. QED
  BY <1>1 DEF Had

LEMMA FailureBound ==
    ASSUME ClosingInv, DeliveryInv, ClientBound, SetFailure
    PROVE  Len(hist') <= EventCap /\ Range(hist') \subseteq 0 .. Len(ev)
<1>0. hist \in Nats /\ Len(ev) \in Nat /\ Failed \in Nat /\ Failed \in 0 .. Len(ev)
  BY OutputNumbers DEF DeliveryInv, DeliveryType, Failed
<1>1. /\ Append(hist, Failed) \in Nats
      /\ \A y : y \in Range(Append(hist, Failed)) <=> y \in Range(hist) \/ y = Failed
  BY <1>0, NatAppend
<1>2. /\ Len(Newest(Append(hist, Failed))) <= EventCap
      /\ Range(Newest(Append(hist, Failed))) \subseteq Range(Append(hist, Failed))
  BY <1>1, LogNewest
<1>3. Range(Newest(Append(hist, Failed))) \subseteq 0 .. Len(ev)
  BY <1>0, <1>1, <1>2 DEF ClientBound
<1>. QED
  BY <1>2, <1>3 DEF SetFailure, ClientBound

LEMMA ClientStepBound ==
    ASSUME ClosingInv, DeliveryInv, ClientBound, ClientStep
    PROVE  /\ Len(hist') <= EventCap /\ Range(hist') \subseteq 0 .. Len(ev)
           /\ Had(mcp') \subseteq 1 .. Len(ev)
<1>0. /\ mcp \in McpType /\ hist \in Nats /\ lastPub \in Nat /\ lastPub <= Len(ev) /\ Len(ev) \in Nat
      /\ pending \subseteq lastPub + 1 .. Len(ev)
      /\ Len(hist) <= EventCap /\ Range(hist) \subseteq 0 .. Len(ev) /\ Had(mcp) \subseteq 1 .. Len(ev)
  BY OutputNumbers DEF DeliveryInv, DeliveryType, Numbered, ClientBound
<1>1. CASE FailSession
  <2>1. SetFailure /\ (mcp' = mcp \/ mcp' = Queued(<<Failed>>))
    BY <1>1 DEF FailSession
  <2>2. Had(mcp') = Had(mcp)
    BY <1>0, <2>1, QueuedHad
  <2>. QED
    BY <1>0, <2>1, <2>2, FailureBound
<1>2. CASE HandleNotification /\ UNCHANGED <<hist, mcp>>
  BY <1>0, <1>2
<1>3. CASE HandleNotification /\ routed /\ Head(chan) > lastPub
  <2>. DEFINE h == Head(chan)
              P == pending \cup {h}
              R == Ready(P)
              n == Len(ev)
  <2>1. h \in 1 .. n
    <3>1. chan \in Nats /\ Range(chan) \subseteq 1 .. n /\ chan # <<>>
      BY <1>3, ServerHolds DEF HandleNotification
    <3>2. Head(chan) \in Range(chan)
      BY <3>1, NatTail
    <3>. QED
      BY <3>1, <3>2
  <2>2. Publish([i \in 1 .. Cardinality(R) |-> lastPub + i])
    BY <1>3 DEF HandleNotification
  <2>3. P \in SUBSET (lastPub + 1 .. n)
    <3>. HIDE DEF h, n
    <3>1. h \in lastPub + 1 .. n
      BY <1>0, <1>3, <2>1 DEF h, n
    <3>. QED
      BY <1>0, <3>1 DEF n
  <2>. HIDE DEF P
  <2>4. PICK m \in Nat : Cardinality(R) = m /\ lastPub + m <= n
    BY <1>0, <2>3, ReadyIsRun
  <2>. HIDE DEF R
  <2>. DEFINE es == [i \in 1 .. m |-> lastPub + i]
  <2>5. hist' = Newest(hist \o es) /\ mcp' = Queued(es)
    BY <2>2, <2>4 DEF Publish
  <2>6. es \in Nats /\ Range(es) \subseteq 0 .. n
    <3>1. es \in Nats /\ Len(es) = m
      BY <1>0, NumberRun
    <3>2. \A i \in 1 .. m : es[i] \in 0 .. n
      BY <1>0, <2>4
    <3>. HIDE DEF es
    <3>. QED
      BY <3>1, <3>2, NatSeq
  <2>. HIDE DEF es
  <2>7. hist \o es \in Nats /\ \A y : y \in Range(hist \o es) <=> y \in Range(hist) \/ y \in Range(es)
    BY <1>0, <2>6, NatConcat
  <2>8. Len(hist') <= EventCap /\ Range(hist') \subseteq Range(hist \o es)
    BY <2>5, <2>7, LogNewest
  <2>9. Had(mcp') = Had(mcp)
    BY <1>0, <2>5, QueuedHad
  <2>. QED
    BY <1>0, <2>6, <2>7, <2>8, <2>9
<1>. QED
  BY <1>1, <1>2, <1>3 DEF ClientStep, HandleNotification

LEMMA BoundStep == ClosingInv /\ DeliveryInv /\ BoundInv /\ [Next]_vars => BoundInv'
<1>. SUFFICES ASSUME ClosingInv, DeliveryInv, BoundInv, [Next]_vars PROVE BoundInv'
  OBVIOUS
<1>0. /\ ServerBound /\ ClientBound /\ Len(ev) \in Nat
      /\ Len(hist) <= EventCap /\ Range(hist) \subseteq 0 .. Len(ev)
      /\ Had(mcp) \subseteq 1 .. Len(ev) /\ Had(uni) \subseteq 1 .. Len(ev)
      /\ mcp \in McpType
  BY OutputNumbers DEF BoundInv, ClientBound, DeliveryInv, DeliveryType
<1>1. ServerBound' /\ Len(ev) <= Len(ev')
  <2>1. CASE \E s \in Streams : StreamOutput(s)
    BY <1>0, <2>1, StreamOutputBound
  <2>2. CASE \/ \E s \in Streams : FinishOutputStream(s)
             \/ \E x \in Tasks : SendStep(x)
             \/ WatchExit
    BY <1>0, <2>2, ServerStepBound
  <2>3. CASE \/ RemoveClosed \/ ShutdownSession \/ Disconnect \/ ClientStep
             \/ McpStep \/ UniStep \/ ResponseLost \/ Ended \/ UNCHANGED vars
    <3>1. UNCHANGED <<ev, output, open, exited, closed, task>>
      BY <2>3 DEF RemoveClosed, ShutdownSession, Disconnect, ClientStep, HandleNotification,
                  FailSession, McpStep, Subscribe, Receive, Recover, ApplyRecovery, UniStep,
                  Read, ApplyRead, Wait, ResponseLost, Ended, vars, server
    <3>2. \/ UNCHANGED chan
          \/ chan # <<>> /\ chan' = Tail(chan)
          \/ \E n \in 0 .. Len(chan) : chan' = SubSeq(chan, 1, n)
      BY <2>3 DEF RemoveClosed, ShutdownSession, Disconnect, ClientStep, HandleNotification,
                  FailSession, McpStep, Subscribe, Receive, Recover, ApplyRecovery, UniStep,
                  Read, ApplyRead, Wait, ResponseLost, Ended, vars
    <3>. QED
      BY <1>0, <3>1, <3>2, RestBound
  <2>. QED
    BY <2>1, <2>2, <2>3 DEF Next, StreamStep
<1>2. /\ Len(hist') <= EventCap /\ Range(hist') \subseteq 0 .. Len(ev)
      /\ Had(mcp') \subseteq 1 .. Len(ev) /\ Had(uni') \subseteq 1 .. Len(ev)
  <2>1. CASE \/ \E s \in Streams : StreamStep(s)
             \/ \E x \in Tasks : SendStep(x)
             \/ WatchExit \/ RemoveClosed \/ ShutdownSession \/ Disconnect \/ Ended \/ UNCHANGED vars
    <3>1. UNCHANGED <<client, mcp, uni>>
      BY <2>1 DEF StreamStep, StreamOutput, FinishOutputStream, SendStep, Notify, MaybeEmitClosed,
                  WatchExit, RemoveClosed, ShutdownSession, Disconnect, Ended, vars
    <3>. QED
      BY <1>0, <3>1 DEF client
  <2>2. CASE ClientStep
    <3>1. UNCHANGED uni
      BY <2>2 DEF ClientStep, HandleNotification, FailSession
    <3>. QED
      BY <1>0, <2>2, <3>1, ClientStepBound
  <2>3. CASE McpStep
    <3>1. UNCHANGED uni /\ (UNCHANGED hist \/ SetFailure)
      BY <2>3 DEF McpStep, Subscribe, Receive, Recover, ApplyRecovery, client
    <3>. QED
      BY <1>0, <2>3, <3>1, McpHad, FailureBound
  <2>4. CASE UniStep
    <3>1. UNCHANGED mcp /\ (UNCHANGED hist \/ SetFailure)
      BY <2>4 DEF UniStep, Read, ApplyRead, Wait, client
    <3>. QED
      BY <1>0, <2>4, <3>1, UniHad, FailureBound
  <2>5. CASE ResponseLost
    <3>1. SetFailure /\ (\/ mcp' = EndMcp(mcp, "failed") /\ UNCHANGED uni
                         \/ uni' = EndUni(uni, "failed") /\ UNCHANGED mcp)
      BY <2>5 DEF ResponseLost
    <3>. QED
      BY <1>0, <3>1, EndHad, UniHad, FailureBound
  <2>. QED
    BY <2>1, <2>2, <2>3, <2>4, <2>5 DEF Next
<1>3. Len(ev') \in Nat
  BY ClosingStep DEF ClosingInv, ServerType
<1>4. 0 .. Len(ev) \subseteq 0 .. Len(ev') /\ 1 .. Len(ev) \subseteq 1 .. Len(ev')
  BY <1>0, <1>1, <1>3
<1>. QED
  BY <1>1, <1>2, <1>4 DEF BoundInv, ClientBound

LEMMA InitBound == Init => BoundInv
<1>. SUFFICES ASSUME Init PROVE BoundInv
  OBVIOUS
<1>0. /\ ev = <<>> /\ output = <<>> /\ chan = <<>> /\ hist = <<>>
      /\ open = Cardinality(Streams) /\ exited = FALSE /\ closed = FALSE
      /\ \A x \in Tasks : task[x].left = MaxChunks /\ task[x].seq = 0
      /\ mcp.got = <<>> /\ mcp.missed = {} /\ mcp.resp = NoResponse
      /\ uni.got = <<>> /\ uni.missed = {} /\ uni.resp = NoResponse
  BY DEF Init
<1>1. /\ RetainCap \in Nat /\ ChanCap \in Nat /\ EventCap \in Nat /\ MaxChunks \in Nat
      /\ Cardinality(Streams) \in Nat /\ Cardinality(Used) \in Nat
  BY EventsAssumption, UsedFinite
<1>2. Had(mcp) = {} /\ Had(uni) = {} /\ Range(hist) = {}
  BY <1>0, EmptyRead DEF Had
<1>3. Len(ev) = 0 /\ Len(output) = 0 /\ Len(chan) = 0 /\ Len(hist) = 0
  BY <1>0, EmptyRead
<1>4. \A x \in Tasks : task[x].left \in 0 .. MaxChunks /\ task[x].seq <= Len(ev)
  BY <1>0, <1>1, <1>3
<1>5. Len(ev) <= Cardinality(Used) + Once(exited) + Once(closed)
  BY <1>0, <1>1, <1>3 DEF Once
<1>6. open <= Cardinality(Streams)
  BY <1>0, <1>1
<1>7. ServerBound
  BY <1>1, <1>3, <1>4, <1>5, <1>6 DEF ServerBound
<1>8. ClientBound
  BY <1>1, <1>2, <1>3 DEF ClientBound
<1>. QED
  BY <1>7, <1>8 DEF BoundInv

LEMMA SeqWithin ==
    ASSUME NEW s \in Nats, NEW S, Range(s) \subseteq S
    PROVE  s \in Seq(S)
<1>1. Len(s) \in Nat /\ \A i \in 1 .. Len(s) : s[i] \in S
  BY NatSeq
<1>2. s = [i \in 1 .. Len(s) |-> s[i]]
  BY DEF Nats
<1>. QED
  BY <1>1, <1>2

LEMMA Typed == ClosingInv /\ DeliveryInv /\ BoundInv => TypeOK
<1>. SUFFICES ASSUME ClosingInv, DeliveryInv, BoundInv PROVE TypeOK
  OBVIOUS
<1>. DEFINE N == Cardinality(Streams) * MaxChunks + 2
            n == Len(ev)
<1>0. /\ n \in Nat /\ N \in Nat /\ n <= N /\ Seqs = 1 .. N
  BY EventsBounded DEF BoundInv, Seqs
<1>. HIDE DEF N
<1>1. /\ 1 .. n \subseteq Seqs /\ 0 .. n \subseteq Seqs \cup {Failed} /\ 0 .. n \subseteq Seqs \cup {0}
  BY <1>0 DEF Failed
<1>2. /\ output \in Seq(Seqs) /\ chan \in Seq(Seqs) /\ hist \in Seq(Seqs \cup {Failed})
  <2>1. /\ output \in Nats /\ chan \in Nats /\ hist \in Nats
        /\ Range(output) \subseteq 1 .. n /\ Range(chan) \subseteq 1 .. n /\ Range(hist) \subseteq 0 .. n
    BY ServerHolds, OutputNumbers DEF DeliveryInv, DeliveryType, BoundInv, ClientBound
  <2>2. Range(output) \subseteq Seqs /\ Range(chan) \subseteq Seqs /\ Range(hist) \subseteq Seqs \cup {Failed}
    BY <1>1, <2>1
  <2>. QED
    BY <2>1, <2>2, SeqWithin
<1>3. task \in [Tasks -> [pc : Pcs, seq : Seqs \cup {0}, left : 0 .. MaxChunks]]
  <2>1. \A x \in Tasks : /\ task[x] \in [pc : Pcs, seq : Nat, left : Int]
                         /\ task[x].left \in 0 .. MaxChunks /\ task[x].seq <= n /\ task[x].seq \in Nat
    BY ServerHolds DEF BoundInv, ServerBound
  <2>2. \A x \in Tasks : task[x].seq \in Seqs \cup {0}
    BY <1>0, <2>1
  <2>3. \A x \in Tasks : task[x] \in [pc : Pcs, seq : Seqs \cup {0}, left : 0 .. MaxChunks]
    BY <2>1, <2>2
  <2>. QED
    BY <2>3, ServerHolds
<1>4. /\ lastPub \in Seqs \cup {0} /\ pending \subseteq Seqs
  <2>1. lastPub \in Nat /\ lastPub <= n /\ pending \subseteq lastPub + 1 .. n
    BY DEF DeliveryInv, DeliveryType, Numbered
  <2>. QED
    BY <1>0, <2>1
<1>5. ASSUME NEW r \in ReadType, Range(r.chunks) \subseteq 1 .. n, r.gone \subseteq 1 .. n
      PROVE  r \in Response
  <2>1. Range(r.chunks) \subseteq Seqs /\ r.gone \subseteq Seqs /\ r.chunks \in Nats
    BY <1>1, <1>5 DEF ReadType
  <2>2. r.chunks \in Seq(Seqs)
    BY <2>1, SeqWithin
  <2>. QED
    BY <2>1, <2>2 DEF Response, ReadType
<1>6. mcp \in [pc : {"start", "recv", "recover", "apply", "done"},
               replay : Seq(Seqs \cup {Failed}), queue : Seq(Seqs \cup {Failed}),
               lagged : BOOLEAN, missed : SUBSET Seqs, last : Seqs \cup {0},
               got : Seq(Seqs), resp : Response, end : Ends]
  <2>1. /\ mcp \in McpType /\ lastPub \in Nat /\ lastPub <= n
        /\ FollowsLog(mcp, Outputs(n), lastPub) /\ mcp.last <= n /\ Had(mcp) \subseteq 1 .. n
    BY DEF DeliveryInv, DeliveryType, Numbered, ConsumerOK, BoundInv, ClientBound
  <2>2. /\ mcp.replay \in Nats /\ mcp.queue \in Nats /\ mcp.got \in Nats /\ mcp.last \in Nat
        /\ mcp.resp \in ReadType
    BY <2>1 DEF McpType
  <2>3. Log(mcp.replay, lastPub) /\ Log(mcp.queue, lastPub)
    BY <2>1 DEF FollowsLog
  <2>4. Range(mcp.replay) \subseteq 0 .. n /\ Range(mcp.queue) \subseteq 0 .. n
    <3>1. \A i \in 1 .. Len(mcp.replay) : mcp.replay[i] \in Nat /\ mcp.replay[i] <= lastPub
      BY <2>2, <2>3, NatSeq DEF Log
    <3>2. \A i \in 1 .. Len(mcp.queue) : mcp.queue[i] \in Nat /\ mcp.queue[i] <= lastPub
      BY <2>2, <2>3, NatSeq DEF Log
    <3>3. \A k \in Nat : k <= lastPub => k \in 0 .. n
      BY <1>0, <2>1
    <3>4. ASSUME NEW q \in Nats, \A i \in 1 .. Len(q) : q[i] \in Nat /\ q[i] <= lastPub
          PROVE  Range(q) \subseteq 0 .. n
      <4>. HIDE DEF n
      <4>1. \A x \in Range(q) : x \in Nat /\ x <= lastPub
        BY <3>4, NatSeq
      <4>. QED
        BY <3>3, <4>1
    <3>. QED
      BY <2>2, <3>1, <3>2, <3>4
  <2>5. mcp.replay \in Seq(Seqs \cup {Failed}) /\ mcp.queue \in Seq(Seqs \cup {Failed})
    BY <1>1, <2>2, <2>4, SeqWithin
  <2>6. /\ Range(mcp.got) \subseteq Seqs /\ mcp.missed \subseteq Seqs
        /\ Range(mcp.resp.chunks) \subseteq 1 .. n /\ mcp.resp.gone \subseteq 1 .. n
    BY <1>1, <2>1 DEF Had
  <2>7. mcp.got \in Seq(Seqs) /\ mcp.resp \in Response
    BY <1>5, <2>2, <2>6, SeqWithin
  <2>8. mcp.last \in Seqs \cup {0}
    BY <1>0, <2>1, <2>2
  <2>. QED
    BY <2>1, <2>5, <2>6, <2>7, <2>8 DEF McpType
<1>7. uni \in [pc : {"read", "apply", "wait", "done"}, cur : Seqs \cup {0},
               missed : SUBSET Seqs, got : Seq(Seqs), resp : Response, end : Ends]
  <2>1. uni \in UniType /\ uni.cur <= n /\ Had(uni) \subseteq 1 .. n
    BY DEF DeliveryInv, DeliveryType, ConsumerOK, BoundInv, ClientBound
  <2>2. uni.got \in Nats /\ uni.cur \in Nat /\ uni.resp \in ReadType
    BY <2>1 DEF UniType
  <2>3. /\ Range(uni.got) \subseteq Seqs /\ uni.missed \subseteq Seqs
        /\ Range(uni.resp.chunks) \subseteq 1 .. n /\ uni.resp.gone \subseteq 1 .. n
    BY <1>1, <2>1 DEF Had
  <2>4. uni.got \in Seq(Seqs) /\ uni.resp \in Response
    BY <1>5, <2>2, <2>3, SeqWithin
  <2>5. uni.cur \in Seqs \cup {0}
    BY <1>0, <2>1, <2>2
  <2>. QED
    BY <2>1, <2>3, <2>4, <2>5 DEF UniType
<1>8. open \in 0 .. Cardinality(Streams)
  <2>1. open \in Nat /\ open <= Cardinality(Streams) /\ Cardinality(Streams) \in Nat
    BY UsedFinite DEF ClosingInv, ServerType, BoundInv, ServerBound
  <2>. QED
    BY <2>1
<1>9. /\ present \in BOOLEAN /\ exited \in BOOLEAN /\ closed \in BOOLEAN
      /\ ev \in Seq({"output", "exited", "closed"}) /\ Len(ev) \in Seqs \cup {0}
      /\ up \in BOOLEAN /\ routed \in BOOLEAN /\ failure \in BOOLEAN /\ wake \in BOOLEAN
  BY <1>0 DEF ClosingInv, ServerType, DeliveryInv, DeliveryType
<1>10. Len(output) <= RetainCap /\ Len(chan) <= ChanCap /\ Len(hist) <= EventCap
  BY DEF BoundInv, ServerBound, ClientBound
<1>. QED
  BY <1>2, <1>3, <1>4, <1>6, <1>7, <1>8, <1>9, <1>10 DEF TypeOK

(* Types and capacities: the process numbers at most one event per chunk,  *)
(* one exit and one Closed; the server's retained output, the connection's *)
(* channel and the client's history keep within their capacities; and no   *)
(* consumer holds a number that was not given out.                         *)
THEOREM EventsTyped == Spec => []TypeOK
<1>1. Init => ClosingInv /\ DeliveryInv /\ BoundInv
  BY InitClosing, InitDelivery, InitBound
<1>2. (ClosingInv /\ DeliveryInv /\ BoundInv) /\ [Next]_vars => (ClosingInv /\ DeliveryInv /\ BoundInv)'
  BY ClosingStep, DeliveryStep, BoundStep
<1>3. ClosingInv /\ DeliveryInv /\ BoundInv => TypeOK
  BY Typed
<1>. QED
  BY <1>1, <1>2, <1>3, PTL DEF Spec
=============================================================================
