-------------------------- MODULE TurnInput_proofs --------------------------
(***************************************************************************)
(* That no pending input is left behind in the state of a turn that is     *)
(* over, for any number of operations and any length of a turn, when the   *)
(* submission loop alone starts and stops turns and nothing is injected    *)
(* from outside (which may strand an item: run turn_inject_lost).          *)
(***************************************************************************)
EXTENDS TurnEvents_proofs

Pending(ts) == At(PendingIn(ts))
Aborting == {"kill", "emit", "unqueue"}

ItemsPlaced == where = [i \in Items |-> where[i]]
(* A place that is not the pending input of a turn state.                  *)
Outside(p) == \A ts \in Nat : p # PendingIn(ts)

(* Turn states are numbered as they are created.                           *)
StatesNumbered ==
    /\ active.ts <= nstates
    /\ \A t \in Turns : turn[t].ts <= nstates
(* While the loop stops a turn there is no active turn, and when it hands  *)
(* on the input it took, the active turn is the one it inserted.           *)
LoopHolds ==
    /\ call["loop"].pc \in Aborting => active.ts = 0
    /\ call["loop"].pc = "extend" => active.ts # 0 /\ call["loop"].ts = active.ts
(* The state of a turn that finishes gets no task and no input any more.   *)
FinishedStates ==
    active.ts # 0 => \A t \in Turns : ClearedBy(t) =>
        /\ active.task = 0 /\ call["loop"].pc \notin Starting
        /\ turn[t].pc # "settle" => Pending(active.ts) = {}
(* The turn state has an owner that will still take its input, as in       *)
(* NoStrandedInput, for any number of turn states.                         *)
OwnerLeft ==
    \A ts \in Nat \ {0} : Pending(ts) # {} =>
        \/ active.ts = ts
        \/ \E t \in Turns : turn[t].pc = "settle" /\ turn[t].ts = ts
        \/ call["loop"].ts = ts /\ call["loop"].pc \in Aborting
InputInv ==
    /\ ItemsPlaced /\ StatesNumbered /\ LoopHolds /\ FinishedStates /\ OwnerLeft

LEMMA InputInit == Init => InputInv
  <1> SUFFICES ASSUME Init PROVE InputInv
    OBVIOUS
  <1>1. \A ts : Pending(ts) = {}
    BY DEF Init, Pending, At, PendingIn, Nowhere
  <1>2. ItemsPlaced
    BY DEF Init, ItemsPlaced
  <1>3. StatesNumbered
    BY DEF Init, StatesNumbered, NoTurn, Task
  <1>4. LoopHolds /\ FinishedStates
    BY DEF Init, LoopHolds, FinishedStates, NoTurn, Call, Aborting, Callers
  <1>5. OwnerLeft
    BY <1>1 DEF OwnerLeft
  <1> QED
    BY <1>2, <1>3, <1>4, <1>5 DEF InputInv

-----------------------------------------------------------------------------
(* In a step: no turn state gets input; no task begins or ends to settle   *)
(* its input; and the loop neither takes up nor lays down a turn state.    *)
NoMoreInput == \A ts \in Nat : Pending(ts)' \subseteq Pending(ts)
TasksKeep ==
    \A t \in Turns : /\ turn'[t].ts = turn[t].ts
                     /\ turn'[t].pc \in Finishing => turn'[t].pc = turn[t].pc
                     /\ turn[t].pc = "settle" => turn'[t].pc = "settle"
LoopKeeps ==
    LET p == call["loop"].pc
        q == call'["loop"].pc
    IN /\ p \in Aborting => q \in Aborting /\ call'["loop"].ts = call["loop"].ts
       /\ q \in Aborting => p \in Aborting
       /\ q \in Starting => p \in Starting
       /\ q = "extend" => p = "extend" /\ call'["loop"].ts = call["loop"].ts

LEMMA InputKept ==
  ASSUME InputInv, active' = active, nstates' = nstates, active.ts \in Nat,
         ItemsPlaced', NoMoreInput, TasksKeep, LoopKeeps
  PROVE  InputInv'
  <1>1. StatesNumbered'
    BY DEF InputInv, StatesNumbered, TasksKeep
  <1>2. LoopHolds'
    BY DEF InputInv, LoopHolds, LoopKeeps
  <1>3. FinishedStates'
    <2>1. ASSUME active.ts # 0, NEW t \in Turns, ClearedBy(t)'
          PROVE  /\ active.task = 0 /\ call'["loop"].pc \notin Starting
                 /\ turn'[t].pc # "settle" => Pending(active.ts)' = {}
      <3>1. turn[t].pc = turn'[t].pc /\ ClearedBy(t)
        BY <2>1 DEF TasksKeep, ClearedBy
      <3>2. /\ active.task = 0 /\ call["loop"].pc \notin Starting
            /\ turn'[t].pc # "settle" => Pending(active.ts) = {}
        BY <2>1, <3>1 DEF InputInv, FinishedStates
      <3>3. Pending(active.ts)' \subseteq Pending(active.ts)
        BY DEF NoMoreInput
      <3> QED
        BY <3>2, <3>3 DEF LoopKeeps
    <2> QED
      BY <2>1 DEF FinishedStates
  <1>4. OwnerLeft'
    <2>1. ASSUME NEW ts \in Nat \ {0}, Pending(ts)' # {}
          PROVE  \/ active'.ts = ts
                 \/ \E t \in Turns : turn'[t].pc = "settle" /\ turn'[t].ts = ts
                 \/ call'["loop"].ts = ts /\ call'["loop"].pc \in Aborting
      <3>1. Pending(ts) # {}
        BY <2>1 DEF NoMoreInput
      <3> QED
        BY <3>1 DEF InputInv, OwnerLeft, TasksKeep, LoopKeeps
    <2> QED
      BY <2>1 DEF OwnerLeft
  <1> QED
    BY <1>1, <1>2, <1>3, <1>4 DEF InputInv

(* Items that go anywhere but into a turn state leave the others alone.    *)
LEMMA InputTaken ==
  ASSUME NEW S, NEW p, Outside(p), where' = Moved(S, p)
  PROVE  NoMoreInput /\ ItemsPlaced'
  BY DEF NoMoreInput, Moved, Pending, At, Outside, ItemsPlaced

LEMMA InputRecorded ==
  ASSUME NEW S, NEW B, Record(S, B)
  PROVE  NoMoreInput /\ ItemsPlaced'
  BY DEF NoMoreInput, Record, Pending, At, PendingIn, Recorded, Dropped, ItemsPlaced

LEMMA InputBrought ==
  ASSUME InputInv, NEW p, Outside(p),
         where' = [where EXCEPT ![Item] = p]
  PROVE  NoMoreInput /\ ItemsPlaced'
  <1>1. where = [i \in Items |-> where[i]]
    BY DEF InputInv, ItemsPlaced
  <1> DEFINE f == [i \in Items |-> IF i = Item THEN p ELSE where[i]]
  <1>2. where' = f
    BY <1>1
  <1> QED
    BY <1>2 DEF NoMoreInput, Pending, At, Outside, ItemsPlaced

LEMMA InputAlone ==
  ASSUME InputInv, where' = where
  PROVE  NoMoreInput /\ ItemsPlaced'
  BY DEF InputInv, NoMoreInput, Pending, At, ItemsPlaced

(* The places that are not in a turn state.                                *)
LEMMA Elsewhere ==
  ASSUME NEW x
  PROVE  /\ Outside(Mailbox) /\ Outside(Recorded) /\ Outside(Refused) /\ Outside(Dropped)
         /\ Outside(Argument(x)) /\ Outside(Taken(x))
         /\ Outside(InputOf(x)) /\ Outside(LocalOf(x))
  BY DEF Outside, Mailbox, Recorded, Refused, Dropped, Argument, Taken, InputOf, LocalOf,
         PendingIn

-----------------------------------------------------------------------------
(* What the steps of a task do to the input: none gives any to a turn      *)
(* state.                                                                  *)
LEMMA TaskInput ==
  ASSUME InputInv, NEW t \in Turns, TaskStep(t)
  PROVE  NoMoreInput /\ ItemsPlaced'
  <1>1. CASE where' = where
    BY <1>1, InputAlone
  <1>2. CASE \E S : where' = Moved(S, Dropped)
    BY <1>2, InputTaken, Elsewhere
  <1>3. CASE \E S : where' = Moved(S, LocalOf(t))
    BY <1>3, InputTaken, Elsewhere
  <1>4. CASE \E S, B : Record(S, B)
    BY <1>4, InputRecorded
  <1>5. \/ where' = where \/ \E S : where' = Moved(S, Dropped)
        \/ \E S : where' = Moved(S, LocalOf(t)) \/ \E R, B : Record(R, B)
    BY DEF TaskStep, BeginTask, StandaloneWork, RunTurn, DrainPendingInput, RecordInputs,
           FinalAnswer, ToolCall, RetryWithoutImages, SamplingFails, AfterSampling,
           RunAgain, FlushRollout, TakeTask, SettleInput, SendTurnComplete, ClearActiveTurn
  <1> QED
    BY <1>1, <1>2, <1>3, <1>4, <1>5

LEMMA TaskKeepsInput ==
  ASSUME LoopInv, InputInv, NEW t \in Turns, TaskStep(t)
  PROVE  InputInv'
  <1>0. /\ turn \in [Turns -> TurnRecord] /\ turn[t] \in TurnRecord /\ nstates \in Nat
        /\ active \in [task : Turns \cup {0}, ts : Nat] /\ active.ts \in Nat
    BY DEF LoopInv, LoopTypes
  <1>1. PICK r \in TurnRecord : turn' = [turn EXCEPT ![t] = r]
    BY <1>0, TaskRecords
  <1>2. \A u \in Turns : u # t => turn'[u] = turn[u]
    BY <1>0, <1>1
  <1>3. call' = call /\ nstates' = nstates
    BY DEF TaskStep, BeginTask, StandaloneWork, RunTurn, DrainPendingInput, RecordInputs,
           FinalAnswer, ToolCall, RetryWithoutImages, SamplingFails, AfterSampling,
           RunAgain, FlushRollout, TakeTask, SettleInput, SendTurnComplete,
           ClearActiveTurn, TaskUnchanged
  <1>4. NoMoreInput /\ ItemsPlaced'
    BY TaskInput
  <1>5. CASE TakeTask(t) /\ HasTask
    <2>1. /\ active' = [active EXCEPT !.task = 0]
          /\ turn' = [turn EXCEPT ![t].ts = active.ts, ![t].pc = "settle"]
      BY <1>5 DEF TakeTask
    <2>2. active'.ts = active.ts /\ active'.task = 0
      BY <1>0, <2>1
    <2>3. turn'[t].ts = active.ts /\ turn'[t].pc = "settle"
      BY <1>0, <2>1 DEF TurnRecord
    <2>4. turn[t].pc = "finish"
      BY <1>5 DEF TakeTask
    <2>5. StatesNumbered'
      BY <1>2, <1>3, <2>2, <2>3 DEF InputInv, StatesNumbered
    <2>6. LoopHolds'
      BY <1>3, <2>2 DEF InputInv, LoopHolds
    <2>7. FinishedStates'
      <3>1. call["loop"].pc \notin Starting
        BY <1>5 DEF LoopInv, Stopped, Starting
      <3>2. ASSUME active.ts # 0, NEW u \in Turns, ClearedBy(u)', turn'[u].pc # "settle"
            PROVE  FALSE
        <4>1. u # t
          BY <2>3, <3>2
        <4>2. ClearedBy(u)
          BY <1>2, <2>2, <3>2, <4>1 DEF ClearedBy
        <4> QED
          BY <1>5, <3>2, <4>2 DEF InputInv, FinishedStates, HasTask
      <3> QED
        BY <1>3, <2>2, <3>1, <3>2 DEF FinishedStates
    <2>8. OwnerLeft'
      <3>1. ASSUME NEW ts \in Nat \ {0}, Pending(ts)' # {}
            PROVE  \/ active'.ts = ts
                   \/ \E u \in Turns : turn'[u].pc = "settle" /\ turn'[u].ts = ts
                   \/ call'["loop"].ts = ts /\ call'["loop"].pc \in Aborting
        <4>1. Pending(ts) # {}
          BY <1>4, <3>1 DEF NoMoreInput
        <4> QED
          BY <1>2, <1>3, <2>2, <2>4, <4>1 DEF InputInv, OwnerLeft
      <3> QED
        BY <3>1 DEF OwnerLeft
    <2> QED
      BY <1>4, <2>5, <2>6, <2>7, <2>8 DEF InputInv
  <1>6. CASE SettleInput(t)
    <2>0. PICK w \in Nat : w = turn[t].ts
      BY <1>0 DEF TurnRecord
    <2>1. /\ turn[t].pc = "settle" /\ turn' = Step(t, "complete") /\ active' = active
          /\ \E B : Record(Pending(w), B)
      BY <1>6, <2>0 DEF SettleInput, Pending
    <2>2. turn'[t].pc = "complete" /\ turn'[t].ts = turn[t].ts
      BY <1>0, <2>1 DEF Step, TurnRecord
    <2>3. Pending(w)' = {}
      BY <2>1 DEF Record, Pending, At, PendingIn, Recorded, Dropped
    <2>5. StatesNumbered'
      BY <1>2, <1>3, <2>1, <2>2 DEF InputInv, StatesNumbered
    <2>6. LoopHolds'
      BY <1>3, <2>1 DEF InputInv, LoopHolds
    <2>7. FinishedStates'
      <3>1. ASSUME active.ts # 0, NEW u \in Turns, ClearedBy(u)'
            PROVE  /\ active.task = 0 /\ call["loop"].pc \notin Starting
                   /\ turn'[u].pc # "settle" => Pending(active.ts)' = {}
        <4>1. ClearedBy(u)
          BY <1>2, <2>1, <2>2, <3>1 DEF ClearedBy, Finishing
        <4>2. CASE u = t
          BY <2>0, <2>1, <2>3, <3>1, <4>1, <4>2 DEF InputInv, FinishedStates, ClearedBy
        <4>3. CASE u # t
          <5>1. Pending(active.ts)' \subseteq Pending(active.ts)
            BY <1>0, <1>4, <2>1 DEF NoMoreInput
          <5> QED
            BY <1>2, <3>1, <4>1, <4>3, <5>1 DEF InputInv, FinishedStates
        <4> QED
          BY <4>2, <4>3
      <3> QED
        BY <1>3, <2>1, <3>1 DEF FinishedStates
    <2>8. OwnerLeft'
      <3>1. ASSUME NEW ts \in Nat \ {0}, Pending(ts)' # {}
            PROVE  \/ active'.ts = ts
                   \/ \E u \in Turns : turn'[u].pc = "settle" /\ turn'[u].ts = ts
                   \/ call'["loop"].ts = ts /\ call'["loop"].pc \in Aborting
        <4>1. Pending(ts) # {} /\ ts # turn[t].ts
          BY <1>4, <2>0, <2>3, <3>1 DEF NoMoreInput
        <4> QED
          BY <1>2, <1>3, <2>1, <4>1 DEF InputInv, OwnerLeft
      <3> QED
        BY <3>1 DEF OwnerLeft
    <2> QED
      BY <1>4, <2>5, <2>6, <2>7, <2>8 DEF InputInv
  <1>7. CASE ClearActiveTurn(t)
    <2>1. /\ turn[t].pc = "clear" /\ turn' = Step(t, "done")
          /\ \/ active' = active
             \/ active' = NoTurn /\ active.ts = turn[t].ts
      BY <1>7 DEF ClearActiveTurn
    <2>2. turn'[t].pc = "done" /\ turn'[t].ts = turn[t].ts
      BY <1>0, <2>1 DEF Step, TurnRecord
    <2>3. CASE active' = active
      <3>1. TasksKeep
        BY <1>2, <2>1, <2>2 DEF TasksKeep, Finishing
      <3>2. LoopKeeps
        BY <1>3 DEF LoopKeeps
      <3> QED
        BY <1>0, <1>3, <1>4, <2>3, <3>1, <3>2, InputKept
    <2>4. CASE active' = NoTurn /\ active.ts = turn[t].ts
      <3>1. active'.ts = 0
        BY <2>4 DEF NoTurn
      <3>2. active.ts # 0 => Pending(active.ts) = {} /\ call["loop"].pc \notin Starting
        BY <2>1, <2>4 DEF InputInv, FinishedStates, ClearedBy, Finishing
      <3>3. StatesNumbered'
        BY <1>0, <1>2, <1>3, <2>2, <3>1 DEF InputInv, StatesNumbered
      <3>4. LoopHolds'
        BY <1>3, <3>1, <3>2 DEF InputInv, LoopHolds, Starting
      <3>5. FinishedStates'
        BY <3>1 DEF FinishedStates
      <3>6. OwnerLeft'
        <4>1. ASSUME NEW ts \in Nat \ {0}, Pending(ts)' # {}
              PROVE  \/ \E u \in Turns : turn'[u].pc = "settle" /\ turn'[u].ts = ts
                     \/ call'["loop"].ts = ts /\ call'["loop"].pc \in Aborting
          <5>1. Pending(ts) # {}
            BY <1>4, <4>1 DEF NoMoreInput
          <5>2. active.ts # ts
            BY <3>2, <5>1
          <5> QED
            BY <1>2, <1>3, <2>1, <5>1, <5>2 DEF InputInv, OwnerLeft
        <4> QED
          BY <4>1 DEF OwnerLeft
      <3> QED
        BY <1>4, <3>3, <3>4, <3>5, <3>6 DEF InputInv
    <2> QED
      BY <2>1, <2>3, <2>4
  <1>8. CASE SendTurnComplete(t)
    <2>1. /\ turn[t].pc = "complete" /\ turn' = Step(t, "clear") /\ active' = active
      BY <1>8 DEF SendTurnComplete
    <2>2. turn'[t].pc = "clear" /\ turn'[t].ts = turn[t].ts
      BY <1>0, <2>1 DEF Step, TurnRecord
    <2>3. StatesNumbered'
      BY <1>2, <1>3, <2>1, <2>2 DEF InputInv, StatesNumbered
    <2>4. LoopHolds'
      BY <1>3, <2>1 DEF InputInv, LoopHolds
    <2>5. FinishedStates'
      <3>1. ASSUME active.ts # 0, NEW u \in Turns, ClearedBy(u)'
            PROVE  /\ active.task = 0 /\ call["loop"].pc \notin Starting
                   /\ turn'[u].pc # "settle" => Pending(active.ts)' = {}
        <4>1. ClearedBy(u) /\ (turn'[u].pc # "settle" => turn[u].pc # "settle")
          BY <1>2, <2>1, <2>2, <3>1 DEF ClearedBy, Finishing
        <4>2. Pending(active.ts)' \subseteq Pending(active.ts)
          BY <1>0, <1>4, <2>1 DEF NoMoreInput
        <4> QED
          BY <3>1, <4>1, <4>2 DEF InputInv, FinishedStates
      <3> QED
        BY <1>3, <2>1, <3>1 DEF FinishedStates
    <2>6. OwnerLeft'
      <3>1. ASSUME NEW ts \in Nat \ {0}, Pending(ts)' # {}
            PROVE  \/ active'.ts = ts
                   \/ \E u \in Turns : turn'[u].pc = "settle" /\ turn'[u].ts = ts
                   \/ call'["loop"].ts = ts /\ call'["loop"].pc \in Aborting
        <4>1. Pending(ts) # {}
          BY <1>4, <3>1 DEF NoMoreInput
        <4> QED
          BY <1>2, <1>3, <2>1, <4>1 DEF InputInv, OwnerLeft
      <3> QED
        BY <3>1 DEF OwnerLeft
    <2> QED
      BY <1>4, <2>3, <2>4, <2>5, <2>6 DEF InputInv
  <1>9. CASE /\ ~(TakeTask(t) /\ HasTask) /\ ~SettleInput(t) /\ ~SendTurnComplete(t)
             /\ ~ClearActiveTurn(t)
    <2>1. active' = active
      BY <1>9 DEF TaskStep, BeginTask, StandaloneWork, RunTurn, DrainPendingInput,
         RecordInputs, FinalAnswer, ToolCall, RetryWithoutImages, SamplingFails,
         AfterSampling, RunAgain, FlushRollout, TakeTask
    <2>2. /\ turn'[t].ts = turn[t].ts /\ turn'[t].pc \notin Finishing
          /\ turn[t].pc # "settle"
      BY <1>0, <1>9 DEF TaskStep, BeginTask, StandaloneWork, RunTurn,
         DrainPendingInput, RecordInputs, FinalAnswer, ToolCall, RetryWithoutImages,
         SamplingFails, AfterSampling, RunAgain, FlushRollout, TakeTask, Finishing, Step,
         TurnRecord
    <2>3. TasksKeep
      BY <1>2, <2>2 DEF TasksKeep
    <2>4. LoopKeeps
      BY <1>3 DEF LoopKeeps
    <2> QED
      BY <1>0, <1>3, <1>4, <2>1, <2>3, <2>4, InputKept
  <1> QED
    BY <1>5, <1>6, <1>7, <1>8, <1>9

-----------------------------------------------------------------------------
(* The loop takes the active turn to stop it: the state goes to the loop,  *)
(* or the task that finished in it still has it, or it has no input left.  *)
LEMMA AbortKeepsInput ==
  ASSUME LoopInv, GivenUp, InputInv, AbortAllTasks("loop")
  PROVE  InputInv'
  <1> USE TurnAssumption
  <1>0. /\ call["loop"] \in CallRecord /\ call \in [Callers -> CallRecord]
        /\ "loop" \in Callers /\ turn \in [Turns -> TurnRecord] /\ nstates \in Nat
    BY DEF LoopInv, LoopTypes, Callers
  <1>1. /\ call["loop"].pc = "abort" /\ active'.ts = 0 /\ nstates' = nstates
        /\ where' = where
    BY DEF AbortAllTasks, NoTurn
  <1>2. NoMoreInput /\ ItemsPlaced'
    BY <1>1, InputAlone
  <1>3. \A t \in Turns : turn'[t].pc = turn[t].pc /\ turn'[t].ts = turn[t].ts
    BY <1>0 DEF AbortAllTasks, CancelTask, LoopInv, LoopTypes, TurnRecord
  <1>4. StatesNumbered'
    BY <1>0, <1>1, <1>3 DEF InputInv, StatesNumbered
  <1>5. IF HasTask THEN call'["loop"].pc = "kill" /\ call'["loop"].ts = active.ts
        ELSE call'["loop"].pc \in {"pending", "idle", "closed"}
    <2>1. CASE HasTask
      <3>1. call' = [call EXCEPT !["loop"].turn = active.task, !["loop"].ts = active.ts,
                                 !["loop"].pc = "kill"]
        BY <2>1 DEF AbortAllTasks, CancelTask, LoopInv
      <3> QED
        BY <1>0, <2>1, <3>1 DEF CallRecord
    <2>2. CASE ~HasTask
      <3>1. \E p \in {"pending", "idle", "closed"} : call' = Goto("loop", p)
        BY <2>2, RestPcs DEF AbortAllTasks, Callers
      <3> QED
        BY <1>0, <2>2, <3>1 DEF Goto, CallRecord
    <2> QED
      BY <2>1, <2>2
  <1>6. LoopHolds'
    BY <1>1, <1>5 DEF LoopHolds, Aborting
  <1>7. FinishedStates'
    BY <1>1 DEF FinishedStates
  <1>8. OwnerLeft'
    <2>1. ASSUME NEW ts \in Nat \ {0}, Pending(ts)' # {}
          PROVE  \/ \E u \in Turns : turn'[u].pc = "settle" /\ turn'[u].ts = ts
                 \/ call'["loop"].ts = ts /\ call'["loop"].pc \in Aborting
      <3>1. Pending(ts) # {}
        BY <1>2, <2>1 DEF NoMoreInput
      <3>2. \/ active.ts = ts \/ \E u \in Turns : turn[u].pc = "settle" /\ turn[u].ts = ts
        BY <1>1, <3>1 DEF InputInv, OwnerLeft, Aborting
      <3>3. CASE active.ts = ts /\ HasTask
        BY <1>5, <3>3 DEF Aborting
      <3>4. CASE active.ts = ts /\ ~HasTask
        <4>1. PICK u \in Turns : ClearedBy(u)
          BY <1>1, <3>4 DEF GivenUp, HasTask, Starting
        <4>2. turn[u].pc = "settle"
          BY <3>1, <3>4, <4>1 DEF InputInv, FinishedStates
        <4> QED
          BY <1>3, <3>4, <4>1, <4>2 DEF ClearedBy
      <3> QED
        BY <1>3, <3>2, <3>3, <3>4
    <2> QED
      BY <2>1 DEF OwnerLeft
  <1> QED
    BY <1>2, <1>4, <1>6, <1>7, <1>8 DEF InputInv

LEMMA ClearKeepsInput ==
  ASSUME LoopInv, InputInv, ClearPending("loop")
  PROVE  InputInv'
  <1>0. /\ call["loop"] \in CallRecord /\ call \in [Callers -> CallRecord]
        /\ "loop" \in Callers /\ turn \in [Turns -> TurnRecord] /\ nstates \in Nat
    BY DEF LoopInv, LoopTypes, Callers
  <1>w. PICK w \in Nat : w = call["loop"].ts
    BY <1>0 DEF CallRecord
  <1>1. /\ call["loop"].pc = "unqueue" /\ UNCHANGED <<active, nstates, turn>>
        /\ where' = Moved(Pending(w), Dropped)
    BY <1>w DEF ClearPending, Pending
  <1>2. NoMoreInput /\ ItemsPlaced'
    BY <1>1, InputTaken, Elsewhere
  <1>3. Pending(w)' = {}
    BY <1>1 DEF Moved, Pending, At, PendingIn, Dropped
  <1>4. active.ts = 0
    BY <1>1 DEF InputInv, LoopHolds, Aborting
  <1>5. call'["loop"].pc \in {"pending", "maybe"}
    BY <1>0 DEF ClearPending, Goto, AfterAbort, CallRecord
  <1>6. StatesNumbered' /\ LoopHolds' /\ FinishedStates'
    BY <1>1, <1>4, <1>5 DEF InputInv, StatesNumbered, LoopHolds, FinishedStates, Aborting
  <1>7. OwnerLeft'
    <2>1. ASSUME NEW ts \in Nat \ {0}, Pending(ts)' # {}
          PROVE  \E u \in Turns : turn'[u].pc = "settle" /\ turn'[u].ts = ts
      <3>1. Pending(ts) # {} /\ ts # w
        BY <1>2, <1>3, <2>1 DEF NoMoreInput
      <3> QED
        BY <1>1, <1>4, <1>w, <3>1 DEF InputInv, OwnerLeft
    <2> QED
      BY <2>1 DEF OwnerLeft
  <1> QED
    BY <1>2, <1>6, <1>7 DEF InputInv

(* The loop goes on with the turn state that is active, or with a new one, *)
(* which no task that finishes can have; a task may be added.              *)
TasksAdded ==
    \A t \in Turns : \/ turn'[t] = turn[t]
                     \/ /\ turn[t].pc = "none" /\ turn'[t].pc \notin Finishing
                        /\ turn'[t].ts = 0
LEMMA NewStateKeepsInput ==
  ASSUME LoopInv, InputInv, call["loop"].pc \in {"reserve", "insert", "install"},
         \/ active'.ts = active.ts /\ call["loop"].pc \in Starting /\ nstates' = nstates
         \/ active.ts = 0 /\ active'.ts = nstates + 1 /\ nstates' = nstates + 1,
         TasksAdded, NoMoreInput, ItemsPlaced', call'["loop"].pc \notin Aborting,
         call'["loop"].pc = "extend" => active'.ts # 0 /\ call'["loop"].ts = active'.ts
  PROVE  InputInv'
  <1>0. /\ turn \in [Turns -> TurnRecord] /\ nstates \in Nat /\ active.ts \in Nat
        /\ \A t \in Turns : turn[t].ts \in Nat
    BY DEF LoopInv, LoopTypes, TurnRecord
  <1>1. StatesNumbered'
    BY <1>0 DEF InputInv, StatesNumbered, TasksAdded
  <1>2. LoopHolds'
    BY DEF LoopHolds
  <1>3. FinishedStates'
    <2>1. ASSUME active'.ts # 0, NEW t \in Turns, ClearedBy(t)' PROVE FALSE
      <3>1. turn'[t] = turn[t] /\ turn[t].ts <= nstates
        BY <2>1 DEF ClearedBy, InputInv, StatesNumbered, TasksAdded
      <3>2. active'.ts = active.ts /\ call["loop"].pc \in Starting
        BY <1>0, <2>1, <3>1 DEF ClearedBy
      <3> QED
        BY <2>1, <3>1, <3>2 DEF InputInv, FinishedStates, ClearedBy
    <2> QED
      BY <2>1 DEF FinishedStates
  <1>4. OwnerLeft'
    <2>1. ASSUME NEW ts \in Nat \ {0}, Pending(ts)' # {}
          PROVE  \/ active'.ts = ts
                 \/ \E u \in Turns : turn'[u].pc = "settle" /\ turn'[u].ts = ts
      <3>1. Pending(ts) # {}
        BY <2>1 DEF NoMoreInput
      <3>2. \/ active.ts = ts \/ \E u \in Turns : turn[u].pc = "settle" /\ turn[u].ts = ts
        BY <3>1 DEF InputInv, OwnerLeft, Aborting
      <3>3. CASE active.ts = ts
        BY <3>3
      <3>4. ASSUME NEW u \in Turns, turn[u].pc = "settle", turn[u].ts = ts
            PROVE  turn'[u].pc = "settle" /\ turn'[u].ts = ts
        BY <3>4 DEF TasksAdded
      <3> QED
        BY <3>2, <3>3, <3>4
    <2> QED
      BY <2>1 DEF OwnerLeft
  <1> QED
    BY <1>1, <1>2, <1>3, <1>4 DEF InputInv

LEMMA ReserveKeepsInput ==
  ASSUME LoopInv, InputInv, ReserveTurn("loop")
  PROVE  InputInv'
  <1>0. /\ call["loop"] \in CallRecord /\ call \in [Callers -> CallRecord]
        /\ "loop" \in Callers /\ active.ts \in Nat
    BY DEF LoopInv, LoopTypes, Callers
  <1>1. call["loop"].pc = "reserve" /\ where' = where /\ turn' = turn
    BY DEF ReserveTurn
  <1>2. NoMoreInput /\ ItemsPlaced'
    BY <1>1, InputAlone
  <1>3. CASE active.ts # 0
    <2>1. active' = active /\ nstates' = nstates /\ call'["loop"].pc \in {"idle", "closed"}
      BY <1>0, <1>3, RestPcs DEF ReserveTurn, Goto, CallRecord
    <2>2. TasksKeep /\ LoopKeeps
      BY <1>1, <2>1 DEF TasksKeep, LoopKeeps, Aborting, Starting
    <2> QED
      BY <1>0, <1>2, <2>1, <2>2, InputKept
  <1>4. CASE active.ts = 0
    <2>1. /\ active'.ts = nstates + 1 /\ nstates' = nstates + 1
          /\ call'["loop"].pc = "pending"
      BY <1>0, <1>4 DEF ReserveTurn, NewState, CallRecord
    <2>2. TasksAdded
      BY <1>1 DEF TasksAdded
    <2> QED
      BY <1>1, <1>2, <1>4, <2>1, <2>2, NewStateKeepsInput DEF Aborting
  <1> QED
    BY <1>3, <1>4

LEMMA InsertKeepsInput ==
  ASSUME LoopInv, InputInv, InsertTurn("loop")
  PROVE  InputInv'
  <1>0. /\ call["loop"] \in CallRecord /\ call \in [Callers -> CallRecord]
        /\ "loop" \in Callers /\ active.ts \in Nat /\ nstates \in Nat
    BY DEF LoopInv, LoopTypes, Callers
  <1>1. call["loop"].pc = "insert" /\ where' = where /\ turn' = turn
    BY DEF InsertTurn
  <1>2. NoMoreInput /\ ItemsPlaced'
    BY <1>1, InputAlone
  <1>3. TasksAdded
    BY <1>1 DEF TasksAdded
  <1>4. call'["loop"].pc = "extend" /\ call'["loop"].ts = active'.ts
    BY <1>0 DEF InsertTurn, CallRecord
  <1>5. \/ active'.ts = active.ts /\ active.ts # 0 /\ nstates' = nstates
        \/ active.ts = 0 /\ active'.ts = nstates + 1 /\ nstates' = nstates + 1
    BY DEF InsertTurn, get_or_insert, NewState
  <1>6. active'.ts # 0
    BY <1>0, <1>5
  <1> QED
    BY <1>1, <1>2, <1>3, <1>4, <1>5, <1>6, NewStateKeepsInput DEF Aborting, Starting

LEMMA InstallKeepsInput ==
  ASSUME LoopInv, AbortInv, InputInv, InstallTask("loop")
  PROVE  InputInv'
  <1> DEFINE n == nturns + 1
             new == Task("begin", call["loop"].kind)
  <1>0. /\ call["loop"] \in CallRecord /\ call \in [Callers -> CallRecord]
        /\ "loop" \in Callers /\ active \in [task : Turns \cup {0}, ts : Nat]
        /\ nstates \in Nat /\ turn \in [Turns -> TurnRecord]
    BY DEF LoopInv, LoopTypes, Callers
  <1>1. ~HasTask /\ call["loop"].pc = "install"
    BY DEF LoopInv, InstallTask, Stopped
  <1>2. /\ turn' = [turn EXCEPT ![n] = new] /\ call' = Goto("loop", Rest("loop"))
        /\ active' = [get_or_insert EXCEPT !.task = n]
        /\ nstates' = IF active.ts # 0 THEN nstates ELSE nstates + 1
        /\ where' = Moved(At(Argument("loop")), InputOf(n))
    <2>1. where' = [i \in Items |-> IF i \in {} THEN Dropped
                                     ELSE IF i \in At(Argument("loop")) THEN InputOf(n)
                                     ELSE where[i]]
      BY <1>1 DEF InstallTask, HasTask
    <2>2. where' = Moved(At(Argument("loop")), InputOf(n))
      BY <2>1 DEF Moved
    <2> QED
      BY <1>1, <2>2 DEF InstallTask, HasTask, NewState
  <1>3. n \in Turns => turn[n].pc = "none"
    BY DEF AbortInv, AbortTypes, NoneToCome
  <1>4. new.pc = "begin" /\ new.ts = 0
    BY DEF Task
  <1> HIDE DEF n, new
  <1>5. TasksAdded
    BY <1>0, <1>2, <1>3, <1>4 DEF TasksAdded, Finishing
  <1>6. NoMoreInput /\ ItemsPlaced'
    BY <1>2, InputTaken, Elsewhere
  <1>7. \/ active'.ts = active.ts /\ nstates' = nstates
        \/ active.ts = 0 /\ active'.ts = nstates + 1 /\ nstates' = nstates + 1
    BY <1>0, <1>2 DEF get_or_insert, NewState
  <1>8. call'["loop"].pc \in {"idle", "closed"}
    BY <1>0, <1>2, RestPcs DEF Goto, CallRecord
  <1> QED
    BY <1>1, <1>5, <1>6, <1>7, <1>8, NewStateKeepsInput DEF Aborting, Starting

(* The loop hands the input it took to the turn state it inserted.         *)
LEMMA ExtendKeepsInput ==
  ASSUME LoopInv, InputInv, ExtendPendingInput("loop")
  PROVE  InputInv'
  <1>0. /\ call["loop"] \in CallRecord /\ call \in [Callers -> CallRecord]
        /\ "loop" \in Callers /\ active.ts \in Nat
    BY DEF LoopInv, LoopTypes, Callers
  <1>w. PICK w \in Nat : w = active.ts
    BY <1>0
  <1>1. /\ call["loop"].pc = "extend" /\ UNCHANGED <<active, nstates, turn>>
        /\ w # 0 /\ where' = Moved(At(Taken("loop")), PendingIn(w))
    BY <1>w DEF ExtendPendingInput, InputInv, LoopHolds
  <1>2. call'["loop"].pc = "install"
    BY <1>0 DEF ExtendPendingInput, Goto, CallRecord
  <1>3. ItemsPlaced' /\ \A ts \in Nat \ {w} : Pending(ts)' \subseteq Pending(ts)
    BY <1>1 DEF ItemsPlaced, Moved, Pending, At, PendingIn
  <1>4. \A t \in Turns : ~ClearedBy(t)
    BY <1>w, <1>1 DEF InputInv, FinishedStates, Starting
  <1>5. StatesNumbered' /\ LoopHolds'
    BY <1>1, <1>2 DEF InputInv, StatesNumbered, LoopHolds, Aborting
  <1>6. FinishedStates'
    BY <1>1, <1>4 DEF FinishedStates, ClearedBy
  <1>7. OwnerLeft'
    <2>1. ASSUME NEW ts \in Nat \ {0}, Pending(ts)' # {}, active'.ts # ts
          PROVE  \E u \in Turns : turn'[u].pc = "settle" /\ turn'[u].ts = ts
      <3>1. Pending(ts) # {}
        BY <1>w, <1>1, <1>3, <2>1
      <3> QED
        BY <1>1, <2>1, <3>1 DEF InputInv, OwnerLeft, Aborting
    <2> QED
      BY <2>1 DEF OwnerLeft
  <1> QED
    BY <1>3, <1>5, <1>6, <1>7 DEF InputInv

LEMMA KillKeepsInput ==
  ASSUME LoopInv, EventsInv, InputInv, KillTask("loop")
  PROVE  InputInv'
  <1> DEFINE k == call["loop"].turn
  <1>0. /\ call["loop"] \in CallRecord /\ call \in [Callers -> CallRecord]
        /\ "loop" \in Callers /\ active.ts \in Nat /\ turn \in [Turns -> TurnRecord]
    BY DEF LoopInv, LoopTypes, Callers
  <1>1. /\ call["loop"].pc = "kill" /\ k \in Turns
        /\ active' = active /\ nstates' = nstates /\ call' = Goto("loop", "emit")
    BY DEF KillTask, LoopInv
  <1>p. PICK p \in AbortedPcs(k) : turn' = Step(k, p) /\ where' = Moved(LostWith(k, p), Dropped)
    BY DEF KillTask
  <1>2. turn[k].pc \notin Finishing
    BY <1>1 DEF EventsInv, EndsOnce
  <1>3. NoMoreInput /\ ItemsPlaced'
    BY <1>p, InputTaken, Elsewhere
  <1>q. p \in {"done", "late", "dead"}
    BY AbortedOver
  <1> HIDE DEF k
  <1>4. TasksKeep
    BY <1>0, <1>1, <1>p, <1>q, <1>2 DEF TasksKeep, Step, TurnRecord, Finishing
  <1>5. call'["loop"].pc = "emit" /\ call'["loop"].ts = call["loop"].ts
    BY <1>0, <1>1 DEF Goto, CallRecord
  <1>6. LoopKeeps
    BY <1>1, <1>5 DEF LoopKeeps, Aborting, Starting
  <1> QED
    BY <1>0, <1>1, <1>3, <1>4, <1>6, InputKept

LEMMA CallerKeepsInput ==
  ASSUME LoopInv, AbortInv, EventsInv, GivenUp, InputInv, NEW a \in Callers, CallerStep(a)
  PROVE  InputInv'
  <1>0. /\ a = "loop" /\ call["loop"] \in CallRecord /\ call \in [Callers -> CallRecord]
        /\ "loop" \in Callers /\ active.ts \in Nat
    BY DEF CallerStep, AbortAllTasks, AbortTurnIfActive, KillTask, EmitTurnAborted,
           ClearPending, MaybeStartTurn, ReserveTurn, GetPendingInput, InsertTurn,
           ExtendPendingInput, InstallTask, LoopInv, LoopTypes, Callers
  <1>1. CASE AbortAllTasks(a)
    BY <1>0, <1>1, AbortKeepsInput
  <1>2. CASE AbortTurnIfActive(a)
    BY <1>0, <1>2 DEF AbortTurnIfActive, LoopInv
  <1>3. CASE KillTask(a)
    BY <1>0, <1>3, KillKeepsInput
  <1>4. CASE ClearPending(a)
    BY <1>0, <1>4, ClearKeepsInput
  <1>5. CASE ReserveTurn(a)
    BY <1>0, <1>5, ReserveKeepsInput
  <1>6. CASE InsertTurn(a)
    BY <1>0, <1>6, InsertKeepsInput
  <1>7. CASE ExtendPendingInput(a)
    BY <1>0, <1>7, ExtendKeepsInput
  <1>8. CASE InstallTask(a)
    BY <1>0, <1>8, InstallKeepsInput
  <1>9. CASE EmitTurnAborted(a) \/ MaybeStartTurn(a)
    <2>1. UNCHANGED <<active, nstates, turn, where>>
      BY <1>9 DEF EmitTurnAborted, MaybeStartTurn
    <2>2. \/ /\ call["loop"].pc = "emit" /\ call'["loop"].pc = "unqueue"
             /\ call'["loop"].ts = call["loop"].ts
          \/ /\ call["loop"].pc = "maybe"
             /\ call'["loop"].pc \in {"reserve", "idle", "closed"}
      BY <1>0, <1>9, RestPcs DEF EmitTurnAborted, MaybeStartTurn, Goto, CallRecord
    <2>3. TasksKeep /\ LoopKeeps
      BY <2>1, <2>2 DEF TasksKeep, LoopKeeps, Aborting, Starting
    <2>4. NoMoreInput /\ ItemsPlaced'
      BY <2>1, InputAlone
    <2> QED
      BY <1>0, <2>1, <2>3, <2>4, InputKept
  <1>10. CASE GetPendingInput(a)
    <2>1. /\ UNCHANGED <<active, nstates, turn>> /\ call["loop"].pc = "pending"
          /\ call'["loop"].pc = "insert" /\ where' = Moved(get_pending_input, Taken("loop"))
      BY <1>0, <1>10 DEF GetPendingInput, Goto, CallRecord
    <2>2. TasksKeep /\ LoopKeeps
      BY <2>1 DEF TasksKeep, LoopKeeps, Aborting, Starting
    <2>3. NoMoreInput /\ ItemsPlaced'
      BY <2>1, InputTaken, Elsewhere
    <2> QED
      BY <1>0, <2>1, <2>2, <2>3, InputKept
  <1> QED
    BY <1>1, <1>2, <1>3, <1>4, <1>5, <1>6, <1>7, <1>8, <1>9, <1>10 DEF CallerStep

(* A late task takes input, and gives none to a turn state.                *)
LEMMA LateKeepsInput ==
  ASSUME LoopInv, InputInv, NEW t \in Turns, LateStep(t)
  PROVE  InputInv'
  <1>0. turn \in [Turns -> TurnRecord] /\ active.ts \in Nat
    BY DEF LoopInv, LoopTypes
  <1>1. /\ turn[t].pc = "late" /\ UNCHANGED <<active, nstates, call>>
        /\ \/ turn' = turn \/ turn' = Step(t, "dead")
    BY DEF LateStep, LateStart, LateDrain, LateRecord, PollEnds, TaskUnchanged
  <1>2. TasksKeep /\ LoopKeeps
    BY <1>0, <1>1 DEF TasksKeep, LoopKeeps, Step, TurnRecord, Finishing
  <1>3. CASE LateStart(t)
    BY <1>0, <1>1, <1>2, <1>3, InputAlone, InputKept DEF LateStart
  <1>4. CASE LateDrain(t) \/ PollEnds(t)
    <2>1. NoMoreInput /\ ItemsPlaced'
      BY <1>4, InputTaken, Elsewhere DEF LateDrain, PollEnds
    <2> QED
      BY <1>0, <1>1, <1>2, <2>1, InputKept
  <1>5. CASE LateRecord(t)
    <2>1. NoMoreInput /\ ItemsPlaced'
      BY <1>5, InputRecorded DEF LateRecord
    <2> QED
      BY <1>0, <1>1, <1>2, <2>1, InputKept
  <1> QED
    BY <1>3, <1>4, <1>5 DEF LateStep

-----------------------------------------------------------------------------
(* A steered prompt goes into the state of the installed task, which no    *)
(* task that finishes has.                                                 *)
LEMMA SteerKeepsInput ==
  ASSUME LoopInv, InputInv, steer_input, UNCHANGED <<active, nstates, turn, call>>
  PROVE  InputInv'
  <1>w. PICK w \in Nat : w = active.ts
    BY DEF LoopInv, LoopTypes
  <1>1. HasTask /\ w # 0
    BY <1>w DEF steer_input, CanSteer, LoopInv, HasTask
  <1>2. where' = [where EXCEPT ![Item] = PendingIn(w)]
    BY <1>w DEF steer_input
  <1>3. where = [i \in Items |-> where[i]]
    BY DEF InputInv, ItemsPlaced
  <1> DEFINE f == [i \in Items |-> IF i = Item THEN PendingIn(w) ELSE where[i]]
  <1>4. where' = f
    BY <1>2, <1>3
  <1>5. ItemsPlaced' /\ \A ts \in Nat \ {w} : Pending(ts)' \subseteq Pending(ts)
    BY <1>4 DEF ItemsPlaced, Pending, At, PendingIn
  <1>6. \A t \in Turns : ~ClearedBy(t)
    BY <1>w, <1>1 DEF InputInv, FinishedStates, HasTask
  <1>7. StatesNumbered' /\ LoopHolds'
    BY DEF InputInv, StatesNumbered, LoopHolds
  <1>8. FinishedStates'
    BY <1>6 DEF FinishedStates, ClearedBy
  <1>9. OwnerLeft'
    <2>1. ASSUME NEW ts \in Nat \ {0}, Pending(ts)' # {}, active'.ts # ts
          PROVE  \/ \E u \in Turns : turn'[u].pc = "settle" /\ turn'[u].ts = ts
                 \/ call'["loop"].ts = ts /\ call'["loop"].pc \in Aborting
      <3>1. Pending(ts) # {}
        BY <1>w, <1>5, <2>1
      <3> QED
        BY <2>1, <3>1 DEF InputInv, OwnerLeft
    <2> QED
      BY <2>1 DEF OwnerLeft
  <1> QED
    BY <1>5, <1>7, <1>8, <1>9 DEF InputInv

NothingInjected == "inject" \notin Ops

LEMMA OperationKeepsInput ==
  ASSUME LoopOnly, NothingInjected, LoopInv, InputInv, Operation
  PROVE  InputInv'
  <1>0. /\ call["loop"] \in CallRecord /\ call \in [Callers -> CallRecord]
        /\ "loop" \in Callers /\ active.ts \in Nat
    BY DEF LoopInv, LoopTypes, Callers
  <1>1. UNCHANGED <<active, nstates, turn>>
    BY DEF Operation, UserInput, SteerRequest, StandaloneTask, Interrupt,
           InterAgentCommunication, Inject, TryStartTurnIfIdle
  <1>2. ~TryStartTurnIfIdle /\ ~Inject
    BY DEF TryStartTurnIfIdle, Inject, NewOp, LoopOnly, NothingInjected
  <1>3. CASE steer_input /\ call' = call
    BY <1>1, <1>3, SteerKeepsInput
  <1>4. CASE ~(steer_input /\ call' = call)
    <2>1. \/ where' = where
          \/ \E p \in {Argument("loop"), Refused, Mailbox} :
                where' = [where EXCEPT ![Item] = p]
      BY <1>2, <1>4 DEF Operation, UserInput, SteerRequest, StandaloneTask, Interrupt,
         InterAgentCommunication
    <2>2. NoMoreInput /\ ItemsPlaced'
      <3>1. CASE where' = where
        BY <3>1, InputAlone
      <3>2. ASSUME NEW p \in {Argument("loop"), Refused, Mailbox},
                   where' = [where EXCEPT ![Item] = p]
            PROVE  NoMoreInput /\ ItemsPlaced'
        <4>1. Outside(p)
          BY Elsewhere
        <4> QED
          BY <3>2, <4>1, InputBrought
      <3> QED
        BY <2>1, <3>1, <3>2
    <2>3. \/ call' = call
          \/ /\ call["loop"].pc = "idle"
             /\ \E p \in {"abort", "maybe"} : \E k, r :
                   call' = [call EXCEPT !["loop"] = Call(p, 0, k, r)]
      BY <1>2 DEF Operation, UserInput, SteerRequest, StandaloneTask, Interrupt,
         InterAgentCommunication, LoopFree
    <2>4. \/ call' = call
          \/ call["loop"].pc = "idle" /\ call'["loop"].pc \in {"abort", "maybe"}
      BY <1>0, <2>3 DEF Call
    <2>5. TasksKeep /\ LoopKeeps
      BY <1>1, <2>4 DEF TasksKeep, LoopKeeps, Aborting, Starting
    <2> QED
      BY <1>0, <1>1, <2>2, <2>5, InputKept
  <1> QED
    BY <1>3, <1>4

(* When the submission loop alone starts and stops turns and nothing is    *)
(* injected, no pending input is left in the state of a turn that is over: *)
(* a prompt steered in while its turn ends, or while it is stopped, is     *)
(* settled by the turn or dropped by the abort, never forgotten.           *)
THEOREM LoopStrandsNothing ==
  LoopOnly /\ NothingInjected => (Spec => []NoStrandedInput)
  <1> SUFFICES ASSUME LoopOnly, NothingInjected PROVE Spec => []NoStrandedInput
    OBVIOUS
  <1>1. LoopInv /\ AbortInv /\ EventsInv /\ GivenUp /\ InputInv /\ [Next]_vars => InputInv'
    <2> SUFFICES ASSUME LoopInv, AbortInv, EventsInv, GivenUp, InputInv, [Next]_vars
                 PROVE  InputInv'
      OBVIOUS
    <2>1. CASE Operation
      BY <2>1, OperationKeepsInput
    <2>2. CASE ExtStep
      BY <2>2 DEF ExtStep, TryReserve, Recheck, Confirm, Unreserve, Give, LoopInv
    <2>3. ASSUME NEW a \in Callers, CallerStep(a) PROVE InputInv'
      BY <2>3, CallerKeepsInput
    <2>4. ASSUME NEW t \in Turns, TaskStep(t) PROVE InputInv'
      BY <2>4, TaskKeepsInput
    <2>5. ASSUME NEW t \in Turns, GuardianDenial(t) PROVE InputInv'
      BY <2>5 DEF GuardianDenial, NewOp, LoopOnly
    <2>6. CASE UNCHANGED vars
      BY <2>6 DEF vars, InputInv, ItemsPlaced, StatesNumbered, LoopHolds, FinishedStates,
         OwnerLeft, ClearedBy, Pending, At
    <2>7. ASSUME NEW t \in Turns, LateStep(t) PROVE InputInv'
      BY <2>7, LateKeepsInput
    <2> QED
      BY <2>1, <2>2, <2>3, <2>4, <2>5, <2>6, <2>7 DEF Next, Waiting
  <1>2. InputInv => NoStrandedInput
    <2> SUFFICES ASSUME InputInv, NEW ts \in States, At(PendingIn(ts)) # {}
                 PROVE  Attended(ts)
      BY DEF NoStrandedInput
    <2>1. ts \in Nat \ {0}
      BY TurnAssumption DEF States
    <2> QED
      BY <2>1 DEF InputInv, OwnerLeft, Pending, Attended, Aborting, Callers
  <1> QED
    BY <1>1, <1>2, InputInit, LoopInvariant, AbortInvariant, LoopEvents, LoopGivesUp, PTL
       DEF Spec
=============================================================================
