------------------------ MODULE TurnLifecycle_proofs ------------------------
(***************************************************************************)
(* That the submission loop alone never runs two tasks at once, never      *)
(* starts one over another and never leaves a finished one installed, for  *)
(* any number of operations and any length of a turn.  And, with every     *)
(* actor: an operation starts one turn at most and the types are kept.     *)
(***************************************************************************)
EXTENDS TurnLifecycle, TLAPS

LEMMA LoopInit == Init => LoopInv
  <1> SUFFICES ASSUME Init PROVE LoopInv
    OBVIOUS
  <1> USE TurnAssumption
  <1>1. LoopTypes
    BY DEF Init, LoopTypes, NoTurn, Task, Call, TurnRecord, CallRecord,
           TurnPcs, TurnKinds, CallPcs, Reasons, Turns, Callers
  <1>2. Running = {}
    BY DEF Init, Running, Task, Over
  <1> QED
    BY <1>1, <1>2 DEF Init, LoopInv, NoTurn, Call, HasTask, Stopped, Callers

-----------------------------------------------------------------------------
(* Every conjunct of LoopInv but the types, for the steps that touch       *)
(* neither the active turn, nor the loop, nor any task.                    *)
LEMMA LoopUnmoved ==
  ASSUME LoopInv, UNCHANGED <<active, turn, nturns, nstates>>, call' = call,
         nops' \in 0 .. MaxOps, nops <= nops'
  PROVE  LoopInv'
  BY TurnAssumption DEF LoopInv, LoopTypes, Running, HasTask, Stopped

(* The same for an operation that the loop takes up.                       *)
LEMMA LoopBegins ==
  ASSUME LoopInv, LoopFree, NEW r \in CallRecord, r.pc \in {"abort", "maybe"},
         call' = [call EXCEPT !["loop"] = r],
         UNCHANGED <<active, turn, nturns, nstates>>,
         nops < MaxOps, nops' = nops + 1
  PROVE  LoopInv'
  <1> USE TurnAssumption
  <1>1. /\ call' \in [Callers -> CallRecord]
        /\ call'["loop"] = r
        /\ call'["guard"].pc = "idle" /\ call'["ext"].pc = "idle"
    BY DEF LoopInv, LoopTypes, Callers
  <1>2. call["loop"].pc = "idle"
    BY DEF LoopFree
  <1>3. LoopTypes'
    BY <1>1 DEF LoopInv, LoopTypes
  <1>4. Running' = Running /\ HasTask' = HasTask
    BY DEF Running, HasTask
  <1> QED
    BY <1>1, <1>2, <1>3, <1>4 DEF LoopInv, LoopTypes, Stopped

(* The operations.                                                         *)
LEMMA OperationKeepsLoopInv ==
  ASSUME LoopOnly, LoopInv, Operation
  PROVE  LoopInv'
  <1> USE TurnAssumption
  <1>0. ASSUME NEW p \in CallPcs, NEW k \in TurnKinds, NEW r \in Reasons
        PROVE  Call(p, 0, k, r) \in CallRecord /\ Call(p, 0, k, r).pc = p
    BY <1>0 DEF Call, CallRecord
  <1>a. ASSUME LoopFree, NEW k \in TurnKinds, NEW r \in Reasons, NEW p \in {"abort", "maybe"},
               call' = [call EXCEPT !["loop"] = Call(p, 0, k, r)],
               UNCHANGED <<active, turn, nturns, nstates>>,
               nops < MaxOps, nops' = nops + 1
        PROVE  LoopInv'
    <2>1. p \in CallPcs
      BY DEF CallPcs
    <2>2. Call(p, 0, k, r) \in CallRecord /\ Call(p, 0, k, r).pc \in {"abort", "maybe"}
      BY <1>0, <2>1
    <2> HIDE DEF Call
    <2> QED
      BY <1>a, <2>2, LoopBegins
  <1>1. CASE UserInput
    <2>1. CASE call' = call
      BY <1>1, <2>1, LoopUnmoved DEF UserInput, NewOp, LoopInv, LoopTypes
    <2>2. CASE call' = [call EXCEPT !["loop"] = Call("abort", 0, "Regular", "Replaced")]
      BY <1>a, <1>1, <2>2 DEF UserInput, NewOp, TurnKinds, Reasons
    <2> QED
      BY <1>1, <2>1, <2>2 DEF UserInput
  <1>2. CASE SteerRequest
    BY <1>2, LoopUnmoved DEF SteerRequest, NewOp, LoopInv, LoopTypes
  <1>3. CASE StandaloneTask
    <2>0. /\ LoopFree /\ nops < MaxOps /\ nops' = nops + 1
          /\ UNCHANGED <<active, turn, nturns, nstates>>
      BY <1>3 DEF StandaloneTask, NewOp
    <2>1. CASE call' = call
      BY <2>0, <2>1, LoopUnmoved DEF LoopInv, LoopTypes
    <2>2. ASSUME NEW k \in {"compact", "review", "shell"},
                 call' = [call EXCEPT !["loop"] = Call("abort", 0, KindOf(k), "Replaced")]
          PROVE  LoopInv'
      <3>1. KindOf(k) \in TurnKinds
        BY DEF KindOf, TurnKinds
      <3> QED
        BY <1>a, <2>0, <2>2, <3>1 DEF Reasons
    <2> QED
      BY <1>3, <2>1, <2>2 DEF StandaloneTask
  <1>4. CASE Interrupt
    <2>1. PICK k \in {"interrupt", "shutdown"} :
             call' = [call EXCEPT !["loop"] = Call("abort", 0, "Regular",
                        IF k = "shutdown" THEN "Shutdown" ELSE "Interrupted")]
      BY <1>4 DEF Interrupt
    <2> QED
      BY <1>a, <1>4, <2>1 DEF Interrupt, NewOp, TurnKinds, Reasons
  <1>5. CASE InterAgentCommunication
    <2>1. CASE call' = call
      BY <1>5, <2>1, LoopUnmoved DEF InterAgentCommunication, NewOp, LoopInv, LoopTypes
    <2>2. CASE call' = [call EXCEPT !["loop"] = Call("maybe", 0, "Regular", "Work")]
      BY <1>a, <1>5, <2>2 DEF InterAgentCommunication, NewOp, TurnKinds, Reasons
    <2> QED
      BY <1>5, <2>1, <2>2 DEF InterAgentCommunication
  <1>6. CASE Inject
    BY <1>6, LoopUnmoved DEF Inject, NewOp, LoopInv, LoopTypes
  <1>7. CASE TryStartTurnIfIdle
    BY <1>7 DEF TryStartTurnIfIdle, NewOp, LoopOnly
  <1> QED
    BY <1>1, <1>2, <1>3, <1>4, <1>5, <1>6, <1>7 DEF Operation

-----------------------------------------------------------------------------
(* The loop's own steps.                                                   *)
LEMMA LoopGoto ==
  ASSUME LoopInv, NEW p \in CallPcs, call' = Goto("loop", p)
  PROVE  /\ call' \in [Callers -> CallRecord]
         /\ call'["loop"].pc = p
         /\ call'["loop"].turn = call["loop"].turn
         /\ call'["guard"].pc = "idle" /\ call'["ext"].pc = "idle"
  BY DEF LoopInv, LoopTypes, Goto, Callers, CallRecord

(* The pcs at which the loop rests.                                        *)
LEMMA RestPcs ==
  ASSUME NEW a \in Callers
  PROVE  Rest(a) \in {"idle", "closed"} /\ Rest(a) \in CallPcs
  BY DEF Rest, CallPcs

(* When the loop moves on and no task is touched, it is enough that it     *)
(* does not leave a task behind and that none is installed if it starts.   *)
LEMMA LoopMoves ==
  ASSUME LoopInv, NEW p \in CallPcs, call' = Goto("loop", p),
         UNCHANGED <<active, turn, nturns, nstates, nops>>,
         call["loop"].pc \notin {"idle", "closed", "kill"}, p \notin {"kill", "drop", "abortIf"},
         p \in Stopped => call["loop"].pc \in Stopped
  PROVE  LoopInv'
  <1>1. /\ call' \in [Callers -> CallRecord]
        /\ call'["loop"].pc = p
        /\ call'["guard"].pc = "idle" /\ call'["ext"].pc = "idle"
    BY LoopGoto
  <1>2. LoopTypes'
    BY <1>1 DEF LoopInv, LoopTypes
  <1>3. Running' = Running /\ HasTask' = HasTask
    BY DEF Running, HasTask
  <1> QED
    BY <1>1, <1>2, <1>3 DEF LoopInv, LoopTypes

LEMMA AbortKeepsLoopInv ==
  ASSUME LoopInv, AbortAllTasks("loop")
  PROVE  LoopInv'
  <1> USE TurnAssumption
  <1>1. active' = [task |-> 0, ts |-> 0] /\ UNCHANGED <<nturns, nstates, nops>>
    BY DEF AbortAllTasks, NoTurn
  <1>2. \A t \in Running : active.task = t
    BY DEF AbortAllTasks, LoopInv
  <1>3. ~HasTask'
    BY <1>1 DEF HasTask
  <1>4. CASE HasTask
    <2> DEFINE t == active.task
    <2>1. t \in Turns /\ ~turn[t].cancelled
      BY <1>4 DEF LoopInv, LoopTypes, HasTask
    <2>2. /\ turn' = [turn EXCEPT ![t].cancelled = TRUE]
          /\ call' = [call EXCEPT !["loop"].turn = t, !["loop"].ts = active.ts,
                                  !["loop"].pc = "kill"]
      BY <1>4, <2>1 DEF AbortAllTasks, CancelTask
    <2>a. /\ turn[t] \in TurnRecord /\ call["loop"] \in CallRecord
          /\ turn \in [Turns -> TurnRecord] /\ call \in [Callers -> CallRecord]
          /\ active.ts \in Nat /\ t \in Nat
      BY <2>1 DEF LoopInv, LoopTypes, Callers, Turns
    <2> HIDE DEF t
    <2>b. /\ turn'[t] = [turn[t] EXCEPT !.cancelled = TRUE]
          /\ \A u \in Turns : u # t => turn'[u] = turn[u]
          /\ turn' = [u \in Turns |-> turn'[u]]
      BY <2>1, <2>2, <2>a
    <2>c. turn'[t] \in TurnRecord /\ turn'[t].pc = turn[t].pc
      BY <2>b, <2>a DEF TurnRecord
    <2>3. turn' \in [Turns -> TurnRecord] /\ Running' = Running
      BY <2>a, <2>b, <2>c DEF Running
    <2>d. call' = [call EXCEPT !["loop"] = [[[call["loop"] EXCEPT !.turn = t]
                      EXCEPT !.ts = active.ts] EXCEPT !.pc = "kill"]]
      BY <2>2, <2>a DEF Callers
    <2>e. call'["loop"] \in CallRecord /\ call'["loop"].pc = "kill" /\ call'["loop"].turn = t
      BY <2>d, <2>a DEF CallRecord, CallPcs, Callers
    <2>4. /\ call' \in [Callers -> CallRecord]
          /\ call'["loop"].pc = "kill" /\ call'["loop"].turn = t
          /\ call'["guard"].pc = "idle" /\ call'["ext"].pc = "idle"
      BY <2>d, <2>e, <2>a DEF LoopInv, Callers
    <2>5. LoopTypes'
      BY <1>1, <2>3, <2>4 DEF LoopInv, LoopTypes
    <2>6. nturns < nops
      BY DEF LoopInv, AbortAllTasks
    <2> QED
      BY <1>1, <1>2, <1>3, <2>1, <2>3, <2>4, <2>5, <2>6 DEF LoopInv, t
  <1>5. CASE ~HasTask
    <2>1. PICK p \in {"pending", "idle", "closed"} : call' = Goto("loop", p)
      BY <1>5, RestPcs DEF AbortAllTasks, Callers
    <2>2. p \in CallPcs
      BY DEF CallPcs
    <2>3. /\ call' \in [Callers -> CallRecord] /\ call'["loop"].pc = p
          /\ call'["guard"].pc = "idle" /\ call'["ext"].pc = "idle"
      BY <2>1, <2>2, LoopGoto
    <2>4. turn' = turn /\ Running' = Running /\ Running = {}
      BY <1>2, <1>5 DEF AbortAllTasks, Running, HasTask, Turns
    <2>5. LoopTypes'
      BY <1>1, <2>3, <2>4 DEF LoopInv, LoopTypes
    <2>6. nturns < nops /\ nturns <= nops
      BY DEF LoopInv, AbortAllTasks
    <2> QED
      BY <1>1, <1>3, <2>3, <2>4, <2>5, <2>6 DEF LoopInv
  <1> QED
    BY <1>4, <1>5

(* Where an aborted task ends up.                                          *)
LEMMA AbortedOver ==
  ASSUME NEW t, NEW p \in AbortedPcs(t)
  PROVE  p \in {"done", "late", "dead"} /\ p \in Over /\ p \in TurnPcs
  BY DEF AbortedPcs, Over, TurnPcs

LEMMA KillKeepsLoopInv ==
  ASSUME LoopInv, KillTask("loop")
  PROVE  LoopInv'
  <1> DEFINE k == call["loop"].turn
  <1>0. PICK p \in AbortedPcs(k) : turn' = Step(k, p)
    BY DEF KillTask
  <1>p. p \in Over /\ p \in TurnPcs
    BY AbortedOver
  <1>1. /\ call["loop"].pc = "kill" /\ k \in Turns
        /\ turn' = [turn EXCEPT ![k].pc = p]
        /\ call' = Goto("loop", "emit")
        /\ UNCHANGED <<active, nstates, nturns, nops>>
    BY <1>0 DEF KillTask, LoopInv, Step
  <1>2. /\ call' \in [Callers -> CallRecord] /\ call'["loop"].pc = "emit"
        /\ call'["guard"].pc = "idle" /\ call'["ext"].pc = "idle"
    BY <1>1, LoopGoto DEF CallPcs
  <1>3. turn' \in [Turns -> TurnRecord]
    BY <1>1, <1>p DEF LoopInv, LoopTypes, TurnRecord
  <1>4. ~HasTask /\ ~HasTask'
    BY <1>1 DEF LoopInv, Stopped, HasTask
  <1>5. Running' = {}
    <2>1. \A t \in Running : t = k
      BY <1>1, <1>4 DEF LoopInv, HasTask, Running, Turns
    <2>2. \A t \in Turns : t # k => turn'[t] = turn[t]
      BY <1>1 DEF LoopInv, LoopTypes
    <2>3. turn'[k].pc \in Over
      BY <1>1, <1>p DEF LoopInv, LoopTypes, TurnRecord
    <2> QED
      BY <2>1, <2>2, <2>3 DEF Running
  <1>6. LoopTypes'
    BY <1>1, <1>2, <1>3 DEF LoopInv, LoopTypes
  <1>7. nturns < nops /\ nturns <= nops
    BY <1>1 DEF LoopInv
  <1> QED
    BY <1>1, <1>2, <1>4, <1>5, <1>6, <1>7 DEF LoopInv

(* When the loop moves on and the active turn changes, but still without   *)
(* a task.                                                                 *)
LEMMA LoopReserves ==
  ASSUME LoopInv, NEW ts \in Nat \ {0}, active' = [task |-> 0, ts |-> ts],
         call["loop"].pc \notin {"idle", "closed", "kill"}, ~HasTask,
         call' \in [Callers -> CallRecord],
         call'["loop"].pc \notin {"kill", "drop", "abortIf"},
         call'["guard"].pc = "idle", call'["ext"].pc = "idle",
         nstates' \in Nat, UNCHANGED <<turn, nturns, nops>>
  PROVE  LoopInv'
  <1>1. LoopTypes'
    BY DEF LoopInv, LoopTypes
  <1>2. Running' = Running /\ ~HasTask' /\ Running = {}
    BY DEF LoopInv, Running, HasTask, Turns
  <1> QED
    BY <1>1, <1>2 DEF LoopInv

LEMMA ReserveKeepsLoopInv ==
  ASSUME LoopInv, ReserveTurn("loop")
  PROVE  LoopInv'
  <1>1. CASE active.ts # 0
    BY <1>1, LoopMoves, RestPcs DEF ReserveTurn, Stopped, Callers
  <1>2. CASE active.ts = 0
    <2>1. /\ active' = [task |-> 0, ts |-> nstates + 1]
          /\ nstates' = nstates + 1
          /\ call' = [call EXCEPT !["loop"].pc = "pending", !["loop"].kind = "Regular"]
          /\ UNCHANGED <<turn, nturns, nops>>
          /\ call["loop"].pc = "reserve"
      BY <1>2 DEF ReserveTurn, NewState
    <2>2. ~HasTask /\ nstates + 1 \in Nat \ {0}
      BY <1>2 DEF LoopInv, LoopTypes, HasTask
    <2>3. call \in [Callers -> CallRecord] /\ call["loop"] \in CallRecord
      BY DEF LoopInv, LoopTypes, Callers
    <2>4. call' = [call EXCEPT !["loop"] = [[call["loop"] EXCEPT !.pc = "pending"]
                                              EXCEPT !.kind = "Regular"]]
      BY <2>1, <2>3 DEF Callers
    <2>5. call'["loop"] \in CallRecord /\ call'["loop"].pc = "pending"
      BY <2>3, <2>4 DEF CallRecord, CallPcs, TurnKinds, Callers
    <2>6. /\ call' \in [Callers -> CallRecord]
          /\ call'["guard"].pc = "idle" /\ call'["ext"].pc = "idle"
      BY <2>3, <2>4, <2>5 DEF LoopInv, Callers
    <2> QED
      BY <2>1, <2>2, <2>5, <2>6, LoopReserves
  <1> QED
    BY <1>1, <1>2

(* What get_or_insert leaves, when no task is installed.                   *)
LEMMA GetOrInsert ==
  ASSUME LoopInv, ~HasTask
  PROVE  /\ get_or_insert = [task |-> 0, ts |-> get_or_insert.ts]
         /\ get_or_insert.ts \in Nat \ {0}
         /\ (IF active.ts # 0 THEN nstates ELSE NewState) \in Nat
  BY DEF LoopInv, LoopTypes, HasTask, get_or_insert, NewState

LEMMA InsertKeepsLoopInv ==
  ASSUME LoopInv, InsertTurn("loop")
  PROVE  LoopInv'
  <1> DEFINE ts == get_or_insert.ts
  <1>1. ~HasTask /\ call["loop"].pc = "insert"
    BY DEF LoopInv, InsertTurn, Stopped
  <1>2. /\ active' = [task |-> 0, ts |-> ts] /\ ts \in Nat \ {0} /\ nstates' \in Nat
        /\ UNCHANGED <<turn, nturns, nops>>
        /\ call' = [call EXCEPT !["loop"].ts = ts, !["loop"].pc = "extend"]
    BY <1>1, GetOrInsert DEF InsertTurn
  <1> HIDE DEF ts
  <1>3. call \in [Callers -> CallRecord] /\ call["loop"] \in CallRecord
    BY DEF LoopInv, LoopTypes, Callers
  <1>4. call' = [call EXCEPT !["loop"] = [[call["loop"] EXCEPT !.ts = ts]
                                            EXCEPT !.pc = "extend"]]
    BY <1>2, <1>3 DEF Callers
  <1>5. call'["loop"] \in CallRecord /\ call'["loop"].pc = "extend"
    BY <1>2, <1>3, <1>4 DEF CallRecord, CallPcs, Callers
  <1>6. /\ call' \in [Callers -> CallRecord]
        /\ call'["guard"].pc = "idle" /\ call'["ext"].pc = "idle"
    BY <1>3, <1>4, <1>5 DEF LoopInv, Callers
  <1> QED
    BY <1>1, <1>2, <1>5, <1>6, LoopReserves

LEMMA InstallKeepsLoopInv ==
  ASSUME LoopInv, InstallTask("loop")
  PROVE  LoopInv'
  <1> USE TurnAssumption
  <1> DEFINE n == nturns + 1
  <1>1. ~HasTask /\ call["loop"].pc = "install" /\ nturns < nops /\ Running = {}
    BY DEF LoopInv, InstallTask, Stopped, Running, HasTask, Turns
  <1>2. n \in Turns
    BY <1>1 DEF LoopInv, LoopTypes, Turns
  <1>3. /\ nturns' = n /\ UNCHANGED nops
        /\ active' = [get_or_insert EXCEPT !.task = n]
        /\ turn' = [turn EXCEPT ![n] = Task("begin", call["loop"].kind)]
        /\ nstates' = IF active.ts # 0 THEN nstates ELSE NewState
        /\ call' = Goto("loop", Rest("loop"))
    BY <1>1 DEF InstallTask, HasTask
  <1>4. /\ call' \in [Callers -> CallRecord]
        /\ call'["loop"].pc \in {"idle", "closed"}
        /\ call'["guard"].pc = "idle" /\ call'["ext"].pc = "idle"
    BY <1>3, LoopGoto, RestPcs DEF Callers
  <1>5. /\ Task("begin", call["loop"].kind) \in TurnRecord
        /\ Task("begin", call["loop"].kind).pc = "begin"
        /\ Task("begin", call["loop"].kind).cancelled = FALSE
    BY DEF Task, TurnRecord, LoopInv, LoopTypes, CallRecord, Callers, TurnPcs
  <1>6. turn' \in [Turns -> TurnRecord] /\ turn'[n].pc = "begin" /\ ~turn'[n].cancelled
    BY <1>2, <1>3, <1>5 DEF LoopInv, LoopTypes
  <1>7. Running' = {n}
    BY <1>1, <1>2, <1>3, <1>6 DEF Running, Finishing, Over, LoopInv, LoopTypes
  <1>a. PICK ts \in Nat \ {0} : get_or_insert = [task |-> 0, ts |-> ts]
    BY <1>1, GetOrInsert
  <1>8. active' = [task |-> n, ts |-> ts] /\ nstates' \in Nat
    <2>1. active' = [[task |-> 0, ts |-> ts] EXCEPT !.task = n]
      BY <1>3, <1>a
    <2> HIDE DEF n
    <2>2. active' = [task |-> n, ts |-> ts]
      BY <2>1
    <2> QED
      BY <2>2, <1>1, <1>3, GetOrInsert
  <1>b. n \in Nat \ {0} /\ nops >= n /\ nops' = nops
    BY <1>1, <1>2, <1>3 DEF LoopInv, LoopTypes, Turns
  <1>c. nturns' = n /\ nops' \in 0 .. MaxOps
    BY <1>3 DEF LoopInv, LoopTypes
  <1> HIDE DEF n
  <1>d. active' \in [task : Turns \cup {0}, ts : Nat]
    BY <1>2, <1>8
  <1>9. LoopTypes'
    BY <1>4, <1>6, <1>8, <1>b, <1>c, <1>d DEF LoopTypes
  <1> QED
    BY <1>2, <1>4, <1>6, <1>7, <1>8, <1>9, <1>b, <1>c DEF LoopInv, HasTask, Stopped

(* All the steps of a caller; the guardian and the extension stay idle.    *)
LEMMA CallerKeepsLoopInv ==
  ASSUME LoopInv, NEW a \in Callers, CallerStep(a)
  PROVE  LoopInv'
  <1>1. a = "loop"
    BY DEF CallerStep, AbortAllTasks, AbortTurnIfActive, KillTask, EmitTurnAborted,
           ClearPending, MaybeStartTurn, ReserveTurn, GetPendingInput, InsertTurn,
           ExtendPendingInput, InstallTask, LoopInv, Callers
  <1>2. CASE AbortAllTasks(a)
    BY <1>1, <1>2, AbortKeepsLoopInv
  <1>3. CASE AbortTurnIfActive(a)
    BY <1>1, <1>3 DEF AbortTurnIfActive, LoopInv
  <1>4. CASE KillTask(a)
    BY <1>1, <1>4, KillKeepsLoopInv
  <1>5. CASE EmitTurnAborted(a)
    BY <1>1, <1>5, LoopMoves DEF EmitTurnAborted, Stopped, CallPcs
  <1>6. CASE ClearPending(a)
    BY <1>1, <1>6, LoopMoves DEF ClearPending, AfterAbort, Stopped, CallPcs
  <1>7. CASE MaybeStartTurn(a)
    <2>1. PICK p \in {"reserve", "idle", "closed"} : call' = Goto("loop", p)
      BY <1>1, <1>7, RestPcs DEF MaybeStartTurn
    <2> QED
      BY <1>1, <1>7, <2>1, LoopMoves DEF MaybeStartTurn, Stopped, CallPcs
  <1>8. CASE ReserveTurn(a)
    BY <1>1, <1>8, ReserveKeepsLoopInv
  <1>9. CASE GetPendingInput(a)
    BY <1>1, <1>9, LoopMoves DEF GetPendingInput, Stopped, CallPcs
  <1>10. CASE InsertTurn(a)
    BY <1>1, <1>10, InsertKeepsLoopInv
  <1>11. CASE ExtendPendingInput(a)
    BY <1>1, <1>11, LoopMoves DEF ExtendPendingInput, Stopped, CallPcs
  <1>12. CASE InstallTask(a)
    BY <1>1, <1>12, InstallKeepsLoopInv
  <1> QED
    BY <1>2, <1>3, <1>4, <1>5, <1>6, <1>7, <1>8, <1>9, <1>10, <1>11, <1>12 DEF CallerStep

-----------------------------------------------------------------------------
(* The tasks' steps.  A task that replaces its record by r.                *)
LEMMA TaskReplaced ==
  ASSUME LoopInv, NEW t \in Turns, NEW r \in TurnRecord,
         turn' = [turn EXCEPT ![t] = r]
  PROVE  /\ turn' \in [Turns -> TurnRecord]
         /\ turn'[t] = r
         /\ \A u \in Turns : u # t => turn'[u] = turn[u]
  BY DEF LoopInv, LoopTypes

(* A task that goes on running, or goes on finishing.                      *)
LEMMA TaskMoves ==
  ASSUME LoopInv, NEW t \in Turns, NEW r \in TurnRecord,
         turn' = [turn EXCEPT ![t] = r],
         r.cancelled = turn[t].cancelled,
         (t \in Running) <=> (r.pc \notin Finishing \cup Over),
         UNCHANGED <<active, nturns, nstates, nops, call>>
  PROVE  LoopInv'
  <1>1. /\ turn' \in [Turns -> TurnRecord] /\ turn'[t] = r
        /\ \A u \in Turns : u # t => turn'[u] = turn[u]
    BY TaskReplaced
  <1>2. Running' = Running
    BY <1>1 DEF Running
  <1>3. LoopTypes'
    BY <1>1 DEF LoopInv, LoopTypes
  <1>4. HasTask => ~turn'[active.task].cancelled
    BY <1>1 DEF LoopInv, LoopTypes, HasTask
  <1>5. HasTask' = HasTask
    BY DEF HasTask
  <1> QED
    BY <1>2, <1>3, <1>4, <1>5 DEF LoopInv

(* A task that stops running, uninstalled or never installed.              *)
LEMMA TaskStops ==
  ASSUME LoopInv, NEW t \in Turns, NEW r \in TurnRecord,
         turn' = [turn EXCEPT ![t] = r],
         r.pc \in Finishing \cup Over,
         active' \in [task : Turns \cup {0}, ts : Nat],
         active'.ts = 0 => active'.task = 0,
         active'.task = (IF active.task = t THEN 0 ELSE active.task),
         UNCHANGED <<nturns, nstates, nops, call>>
  PROVE  LoopInv'
  <1>1. /\ turn' \in [Turns -> TurnRecord] /\ turn'[t] = r
        /\ \A u \in Turns : u # t => turn'[u] = turn[u]
    BY TaskReplaced
  <1>2. Running' = Running \ {t}
    BY <1>1 DEF Running
  <1>3. LoopTypes'
    BY <1>1 DEF LoopInv, LoopTypes
  <1>4. HasTask' => HasTask /\ active'.task = active.task /\ active.task # t
    BY DEF HasTask, Turns
  <1>5. HasTask' => active'.task \in Running' /\ ~turn'[active'.task].cancelled
    BY <1>1, <1>2, <1>4 DEF LoopInv, LoopTypes, HasTask
  <1>6. \A u \in Running' :
          active'.task = u \/ (call["loop"].pc = "kill" /\ call["loop"].turn = u)
    BY <1>2 DEF LoopInv
  <1>7. call["loop"].pc \in Stopped => ~HasTask'
    BY <1>4 DEF LoopInv
  <1> QED
    BY <1>3, <1>5, <1>6, <1>7 DEF LoopInv

LEMMA TaskKeepsLoopInv ==
  ASSUME LoopInv, NEW t \in Turns, TaskStep(t)
  PROVE  LoopInv'
  <1>0. turn \in [Turns -> TurnRecord] /\ turn[t] \in TurnRecord
    BY DEF LoopInv, LoopTypes
  <1>s. ASSUME NEW p \in TurnPcs, turn' = Step(t, p),
               (t \in Running) <=> (p \notin Finishing \cup Over),
               UNCHANGED <<active, nturns, nstates, nops, call>>
        PROVE  LoopInv'
    <2> DEFINE r == [turn[t] EXCEPT !.pc = p]
    <2>1. r \in TurnRecord /\ r.pc = p /\ r.cancelled = turn[t].cancelled
      BY <1>0 DEF TurnRecord
    <2>2. turn' = [turn EXCEPT ![t] = r]
      BY <1>s DEF Step
    <2> HIDE DEF r
    <2> QED
      BY <1>s, <2>1, <2>2, TaskMoves
  <1>1. CASE BeginTask(t)
    <2>1. t \in Running /\ UNCHANGED <<active, nturns, nstates, nops, call>>
      BY <1>1 DEF BeginTask, Running, Finishing, Over, TaskUnchanged
    <2>2. \E p \in {"run", "work", "flush"} : turn' = Step(t, p)
      BY <1>1 DEF BeginTask
    <2> QED
      BY <1>s, <2>1, <2>2 DEF TurnPcs, Finishing, Over
  <1>2. CASE StandaloneWork(t)
    BY <1>s, <1>2 DEF StandaloneWork, Running, Finishing, Over, TaskUnchanged, TurnPcs
  <1>3. CASE RunTurn(t)
    <2>1. t \in Running /\ UNCHANGED <<active, nturns, nstates, nops, call>>
      BY <1>3 DEF RunTurn, Running, Finishing, Over, TaskUnchanged
    <2>2. ASSUME NEW b \in BOOLEAN, NEW p \in {"outer", "drain"},
                 turn' = [turn EXCEPT ![t].canDrain = b, ![t].pc = p]
          PROVE  LoopInv'
      <3> DEFINE r == [[turn[t] EXCEPT !.canDrain = b] EXCEPT !.pc = p]
      <3>1. r \in TurnRecord /\ r.pc = p /\ r.cancelled = turn[t].cancelled
        BY <1>0 DEF TurnRecord, TurnPcs
      <3>2. turn' = [turn EXCEPT ![t] = r]
        BY <1>0, <2>2
      <3> HIDE DEF r
      <3> QED
        BY <2>1, <3>1, <3>2, TaskMoves DEF Finishing, Over
    <2>3. CASE turn' = Step(t, "outer")
      BY <1>s, <2>1, <2>3 DEF TurnPcs, Finishing, Over
    <2> QED
      BY <1>3, <2>2, <2>3 DEF RunTurn
  <1>4. CASE DrainPendingInput(t)
    BY <1>s, <1>4 DEF DrainPendingInput, Running, Finishing, Over, TaskUnchanged, TurnPcs
  <1>5. CASE RecordInputs(t)
    <2>1. t \in Running /\ UNCHANGED <<active, nturns, nstates, nops, call>>
      BY <1>5 DEF RecordInputs, Running, Finishing, Over, TaskUnchanged
    <2>2. \E p \in {"outer", "sample"} : turn' = Step(t, p)
      BY <1>5 DEF RecordInputs
    <2> QED
      BY <1>s, <2>1, <2>2 DEF TurnPcs, Finishing, Over
  <1>6. CASE FinalAnswer(t)
    <2>1. /\ t \in Running /\ UNCHANGED <<active, nturns, nstates, nops, call>>
          /\ turn' = [turn EXCEPT ![t].pc = "sampled", ![t].followUp = FALSE]
      BY <1>6 DEF FinalAnswer, Running, Finishing, Over, TaskUnchanged
    <2> DEFINE r == [[turn[t] EXCEPT !.pc = "sampled"] EXCEPT !.followUp = FALSE]
    <2>2. r \in TurnRecord /\ r.pc = "sampled" /\ r.cancelled = turn[t].cancelled
      BY <1>0 DEF TurnRecord, TurnPcs
    <2>3. turn' = [turn EXCEPT ![t] = r]
      BY <1>0, <2>1
    <2> HIDE DEF r
    <2> QED
      BY <2>1, <2>2, <2>3, TaskMoves DEF Finishing, Over
  <1>7. CASE ToolCall(t)
    <2>1. /\ t \in Running /\ UNCHANGED <<active, nturns, nstates, nops, call>>
          /\ turn[t].fuel > 0
          /\ turn' = [turn EXCEPT ![t].pc = "sampled", ![t].followUp = TRUE,
                                  ![t].fuel = turn[t].fuel - 1]
      BY <1>0, <1>7 DEF ToolCall, Running, Finishing, Over, TaskUnchanged
    <2>2. PICK n \in Nat : n = turn[t].fuel - 1
      BY <1>0, <2>1 DEF TurnRecord
    <2> DEFINE r == [[[turn[t] EXCEPT !.pc = "sampled"] EXCEPT !.followUp = TRUE]
                        EXCEPT !.fuel = n]
    <2>3. r \in TurnRecord /\ r.pc = "sampled" /\ r.cancelled = turn[t].cancelled
      BY <1>0 DEF TurnRecord, TurnPcs
    <2>4. turn' = [turn EXCEPT ![t] = r]
      BY <1>0, <2>1, <2>2
    <2> HIDE DEF r
    <2> QED
      BY <2>1, <2>3, <2>4, TaskMoves DEF Finishing, Over
  <1>8. CASE SamplingFails(t)
    BY <1>s, <1>8 DEF SamplingFails, Running, Finishing, Over, TaskUnchanged, TurnPcs
  <1>16. CASE RetryWithoutImages(t)
    <2>1. /\ t \in Running /\ UNCHANGED <<active, nturns, nstates, nops, call>>
          /\ turn[t].fuel > 0
          /\ turn' = [turn EXCEPT ![t].pc = "drain", ![t].fuel = turn[t].fuel - 1]
      BY <1>0, <1>16 DEF RetryWithoutImages, Running, Finishing, Over, TaskUnchanged
    <2>2. PICK n \in Nat : n = turn[t].fuel - 1
      BY <1>0, <2>1 DEF TurnRecord
    <2> DEFINE r == [[turn[t] EXCEPT !.pc = "drain"] EXCEPT !.fuel = n]
    <2>3. r \in TurnRecord /\ r.pc = "drain" /\ r.cancelled = turn[t].cancelled
      BY <1>0 DEF TurnRecord, TurnPcs
    <2>4. turn' = [turn EXCEPT ![t] = r]
      BY <1>0, <2>1, <2>2
    <2> HIDE DEF r
    <2> QED
      BY <2>1, <2>3, <2>4, TaskMoves DEF Finishing, Over
  <1>9. CASE AfterSampling(t)
    <2>1. t \in Running /\ UNCHANGED <<active, nturns, nstates, nops, call>>
      BY <1>9 DEF AfterSampling, Running, Finishing, Over, TaskUnchanged
    <2>2. ASSUME NEW p \in {"outer", "drain"}, NEW b \in BOOLEAN,
                 turn' = [turn EXCEPT ![t].pc = p, ![t].canDrain = b]
          PROVE  LoopInv'
      <3> DEFINE r == [[turn[t] EXCEPT !.pc = p] EXCEPT !.canDrain = b]
      <3>1. r \in TurnRecord /\ r.pc = p /\ r.cancelled = turn[t].cancelled
        BY <1>0 DEF TurnRecord, TurnPcs
      <3>2. turn' = [turn EXCEPT ![t] = r]
        BY <1>0, <2>2
      <3> HIDE DEF r
      <3> QED
        BY <2>1, <3>1, <3>2, TaskMoves DEF Finishing, Over
    <2>3. ASSUME turn[t].fuel > 0,
                 turn' = [turn EXCEPT ![t].pc = "drain", ![t].canDrain = TRUE,
                                      ![t].fuel = turn[t].fuel - 1]
          PROVE  LoopInv'
      <3>1. PICK n \in Nat : n = turn[t].fuel - 1
        BY <1>0, <2>3 DEF TurnRecord
      <3> DEFINE r == [[[turn[t] EXCEPT !.pc = "drain"] EXCEPT !.canDrain = TRUE]
                          EXCEPT !.fuel = n]
      <3>2. r \in TurnRecord /\ r.pc = "drain" /\ r.cancelled = turn[t].cancelled
        BY <1>0 DEF TurnRecord, TurnPcs
      <3>3. turn' = [turn EXCEPT ![t] = r]
        BY <1>0, <2>3, <3>1
      <3> HIDE DEF r
      <3> QED
        BY <2>1, <3>2, <3>3, TaskMoves DEF Finishing, Over
    <2>4. \/ \E p \in {"outer", "drain"}, b \in BOOLEAN :
               turn' = [turn EXCEPT ![t].pc = p, ![t].canDrain = b]
          \/ /\ turn[t].fuel > 0
             /\ turn' = [turn EXCEPT ![t].pc = "drain", ![t].canDrain = TRUE,
                                     ![t].fuel = turn[t].fuel - 1]
      <3>1. (~turn[t].followUp) \in BOOLEAN /\ TRUE \in BOOLEAN
        OBVIOUS
      <3> QED
        BY <1>0, <1>9, <3>1 DEF AfterSampling
    <2> QED
      BY <2>2, <2>3, <2>4
  <1>10. CASE RunAgain(t)
    <2>1. t \in Running /\ UNCHANGED <<active, nturns, nstates, nops, call>>
      BY <1>10 DEF RunAgain, Running, Finishing, Over, TaskUnchanged
    <2>2. \E p \in {"run", "flush"} : turn' = Step(t, p)
      BY <1>10 DEF RunAgain
    <2> QED
      BY <1>s, <2>1, <2>2 DEF TurnPcs, Finishing, Over
  <1>11. CASE FlushRollout(t)
    <2>1. /\ t \in Running /\ UNCHANGED <<active, nturns, nstates, nops, call>>
          /\ turn' = Step(t, IF turn[t].cancelled THEN "done" ELSE "finish")
      BY <1>11 DEF FlushRollout, Running, Finishing, Over, TaskUnchanged
    <2>2. CASE ~turn[t].cancelled
      BY <1>s, <2>1, <2>2 DEF TurnPcs, Finishing, Over
    <2>3. CASE turn[t].cancelled
      <3>1. active.task # t
        BY <2>3 DEF LoopInv, HasTask, Turns
      <3> DEFINE r == [turn[t] EXCEPT !.pc = "done"]
      <3>2. r \in TurnRecord /\ r.pc = "done"
        BY <1>0 DEF TurnRecord, TurnPcs
      <3>3. turn' = [turn EXCEPT ![t] = r]
        BY <2>1, <2>3 DEF Step
      <3> HIDE DEF r
      <3> QED
        BY <2>1, <3>1, <3>2, <3>3, TaskStops DEF LoopInv, LoopTypes, Over
    <2> QED
      BY <2>2, <2>3
  <1>12. CASE TakeTask(t)
    <2>1. t \in Running /\ UNCHANGED <<nturns, nstates, nops, call>>
      BY <1>12 DEF TakeTask, Running, Finishing, Over, TaskUnchanged
    <2>2. CASE HasTask
      <3>1. active.task = t /\ active.ts \in Nat
        BY <2>1, <2>2 DEF LoopInv, LoopTypes, Stopped
      <3>2. /\ active' = [active EXCEPT !.task = 0]
            /\ turn' = [turn EXCEPT ![t].ts = active.ts, ![t].pc = "settle"]
        BY <1>12, <2>2 DEF TakeTask
      <3> DEFINE r == [[turn[t] EXCEPT !.ts = active.ts] EXCEPT !.pc = "settle"]
      <3>3. r \in TurnRecord /\ r.pc = "settle"
        BY <1>0, <3>1 DEF TurnRecord, TurnPcs
      <3>4. turn' = [turn EXCEPT ![t] = r]
        BY <1>0, <3>2
      <3> HIDE DEF r
      <3>5. active' \in [task : Turns \cup {0}, ts : Nat] /\ active'.task = 0
        BY <3>2 DEF LoopInv, LoopTypes
      <3> QED
        BY <2>1, <3>1, <3>3, <3>4, <3>5, TaskStops DEF Finishing
    <2>3. CASE ~HasTask
      <3> DEFINE r == [turn[t] EXCEPT !.pc = "done"]
      <3>1. r \in TurnRecord /\ r.pc = "done"
        BY <1>0 DEF TurnRecord, TurnPcs
      <3>2. turn' = [turn EXCEPT ![t] = r] /\ active' = active
        BY <1>12, <2>3 DEF TakeTask, Step
      <3> HIDE DEF r
      <3>3. active.task = 0 /\ active.task # t
        BY <2>3 DEF HasTask, Turns
      <3> QED
        BY <2>1, <3>1, <3>2, <3>3, TaskStops DEF LoopInv, LoopTypes, Over
    <2> QED
      BY <2>2, <2>3
  <1>13. CASE SettleInput(t)
    BY <1>s, <1>13 DEF SettleInput, Running, Finishing, Over, TaskUnchanged, TurnPcs
  <1>14. CASE SendTurnComplete(t)
    BY <1>s, <1>14 DEF SendTurnComplete, Running, Finishing, Over, TaskUnchanged, TurnPcs
  <1>15. CASE ClearActiveTurn(t)
    <2>1. /\ turn[t].pc = "clear" /\ UNCHANGED <<nturns, nstates, nops, call>>
          /\ turn' = Step(t, "done")
          /\ active' = IF active = [task |-> 0, ts |-> turn[t].ts] THEN NoTurn ELSE active
      BY <1>15 DEF ClearActiveTurn, TaskUnchanged
    <2>2. active.task # t
      BY <2>1 DEF LoopInv, HasTask, Running, Finishing, Turns
    <2>3. /\ active' \in [task : Turns \cup {0}, ts : Nat]
          /\ active'.task = active.task /\ (active'.ts = 0 => active'.task = 0)
      BY <2>1 DEF LoopInv, LoopTypes, NoTurn
    <2> DEFINE r == [turn[t] EXCEPT !.pc = "done"]
    <2>4. r \in TurnRecord /\ r.pc = "done"
      BY <1>0 DEF TurnRecord, TurnPcs
    <2>5. turn' = [turn EXCEPT ![t] = r]
      BY <2>1 DEF Step
    <2> HIDE DEF r
    <2> QED
      BY <2>1, <2>2, <2>3, <2>4, <2>5, TaskStops DEF Over
  <1> QED
    BY <1>1, <1>2, <1>3, <1>4, <1>5, <1>6, <1>7, <1>8, <1>9, <1>10, <1>11, <1>12,
       <1>13, <1>14, <1>15, <1>16 DEF TaskStep

(* A late task does not run, and changes nothing that the loop relies on.  *)
LEMMA LateKeepsLoopInv ==
  ASSUME LoopInv, NEW t \in Turns, LateStep(t)
  PROVE  LoopInv'
  <1>1. /\ turn[t].pc = "late"
        /\ turn' = turn \/ turn' = Step(t, "dead")
        /\ UNCHANGED <<active, nturns, nstates, nops, call>>
    BY DEF LateStep, LateStart, LateDrain, LateRecord, PollEnds, TaskUnchanged
  <1>2. CASE turn' = turn
    BY <1>1, <1>2, LoopUnmoved DEF LoopInv, LoopTypes
  <1>3. CASE turn[t].pc = "late" /\ turn' = Step(t, "dead")
    <2> DEFINE r == [turn[t] EXCEPT !.pc = "dead"]
    <2>1. r \in TurnRecord /\ r.pc = "dead" /\ r.cancelled = turn[t].cancelled
      BY DEF LoopInv, LoopTypes, TurnRecord, TurnPcs
    <2>2. turn' = [turn EXCEPT ![t] = r] /\ t \notin Running
      BY <1>3 DEF Step, Running, Over
    <2> HIDE DEF r
    <2> QED
      BY <1>1, <2>1, <2>2, TaskMoves DEF Over
  <1> QED
    BY <1>1, <1>2, <1>3

-----------------------------------------------------------------------------
(* LoopInv is inductive when neither the guardian nor an extension acts.   *)
LEMMA NextKeepsLoopInv ==
  ASSUME LoopOnly, LoopInv, [Next]_vars
  PROVE  LoopInv'
  <1>1. CASE Operation
    BY <1>1, OperationKeepsLoopInv
  <1>2. CASE ExtStep
    BY <1>2 DEF ExtStep, TryReserve, Recheck, Confirm, Unreserve, Give, LoopInv
  <1>3. CASE \E a \in Callers : CallerStep(a)
    BY <1>3, CallerKeepsLoopInv
  <1>4. ASSUME NEW t \in Turns, TaskStep(t) PROVE LoopInv'
    BY <1>4, TaskKeepsLoopInv
  <1>5. ASSUME NEW t \in Turns, GuardianDenial(t) PROVE LoopInv'
    BY <1>5 DEF GuardianDenial, NewOp, LoopOnly
  <1>6. CASE UNCHANGED vars
    BY <1>6, LoopUnmoved DEF vars, LoopInv, LoopTypes
  <1>7. ASSUME NEW t \in Turns, LateStep(t) PROVE LoopInv'
    BY <1>7, LateKeepsLoopInv
  <1> QED
    BY <1>1, <1>2, <1>3, <1>4, <1>5, <1>6, <1>7 DEF Next, Waiting

(* The strengthened invariant holds of every behaviour in which turns are  *)
(* started and stopped by the submission loop alone, whatever the bounds.  *)
THEOREM LoopInvariant == LoopOnly => (Spec => []LoopInv)
  <1> SUFFICES ASSUME LoopOnly PROVE Spec => []LoopInv
    OBVIOUS
  <1>1. Init => LoopInv
    BY LoopInit
  <1>2. LoopInv /\ [Next]_vars => LoopInv'
    BY NextKeepsLoopInv
  <1> QED
    BY <1>1, <1>2, PTL DEF Spec

(* The submission loop alone never runs two tasks of a session at once:    *)
(* start_task is reached only after abort_all_tasks has seen the last task *)
(* stop, or when none was installed.                                       *)
THEOREM LoopRunsOneTask == LoopOnly => (Spec => []OneTaskRunning)
  <1> SUFFICES ASSUME LoopOnly PROVE Spec => []OneTaskRunning
    OBVIOUS
  <1>1. LoopInv => OneTaskRunning
    BY DEF LoopInv, OneTaskRunning, Stopped, HasTask, Running, Turns
  <1> QED
    BY <1>1, LoopInvariant, PTL

(* The submission loop alone never trips                                   *)
(* debug_assert!(turn.task.is_none()) of start_task.                       *)
THEOREM LoopStartAsserts == LoopOnly => (Spec => []StartAsserts)
  <1> SUFFICES ASSUME LoopOnly PROVE Spec => []StartAsserts
    OBVIOUS
  <1>1. LoopInv => StartAsserts
    BY DEF LoopInv, StartAsserts, Callers, Stopped
  <1> QED
    BY <1>1, LoopInvariant, PTL

-----------------------------------------------------------------------------
(* Types, with every actor: the loop, the guardian's abort and the idle    *)
(* start of an extension.  The numbers of turns and turn states stay in    *)
(* range because of what a call can still do: every operation puts at most *)
(* one caller to work, which installs one task and creates four states at  *)
(* most, and each step of a caller leaves it with less to do.              *)
TaskRecord ==
    [pc : TurnPcs, kind : TurnKinds, ts : States \cup {0}, canDrain : BOOLEAN,
     followUp : BOOLEAN, cancelled : BOOLEAN, fuel : 0 .. MaxFuel]
CallerRecord ==
    [pc : CallPcs, turn : Turns \cup {0}, ts : States \cup {0}, kind : TurnKinds,
     reason : Reasons]
ActiveRecord == [task : Turns \cup {0}, ts : States \cup {0}]
LogEvents == {"started", "complete", "aborted"}
Phases == {"CurrentTurn", "NextTurn"}

Resting == {"idle", "closed", "unreserve"}
TurnsLeft(p) == IF p \in Resting THEN 0 ELSE 1
StatesLeft(p) ==
    IF p \in Resting THEN 0
    ELSE IF p \in {"extend", "install"} THEN 1
    ELSE IF p \in {"pending", "insert", "confirm", "give"} THEN 2
    ELSE IF p = "tryReserve" THEN 4 ELSE 3
TurnsOwed ==
    TurnsLeft(call["loop"].pc) + TurnsLeft(call["guard"].pc) + TurnsLeft(call["ext"].pc)
StatesOwed ==
    StatesLeft(call["loop"].pc) + StatesLeft(call["guard"].pc) + StatesLeft(call["ext"].pc)

(* A caller that is about to write to a turn state has one.                *)
WithState == {"extend", "recheck", "confirm", "give"}
StateInHand == \A a \in Callers : call[a].pc \in WithState => call[a].ts # 0

TypeInv ==
    /\ TypeOK
    /\ nturns + TurnsOwed <= nops
    /\ nstates + StatesOwed <= 4 * nops
    /\ StateInHand

LEMMA WorkLeft ==
  ASSUME NEW p
  PROVE  TurnsLeft(p) \in 0 .. 1 /\ StatesLeft(p) \in 0 .. 4
  BY DEF TurnsLeft, StatesLeft

LEMMA TypesInit == Init => TypeInv
  <1> SUFFICES ASSUME Init PROVE TypeInv
    OBVIOUS
  <1> USE TurnAssumption
  <1>1. Task("none", "Regular") \in TaskRecord
    BY DEF Task, TaskRecord, TurnPcs, TurnKinds
  <1>2. /\ Call("idle", 0, "Regular", "Work") \in CallerRecord
        /\ Call("idle", 0, "Regular", "Work").pc = "idle"
    BY DEF Call, CallerRecord, CallPcs, TurnKinds, Reasons
  <1>3. turn \in [Turns -> TaskRecord] /\ call \in [Callers -> CallerRecord]
    BY <1>1, <1>2 DEF Init
  <1>4. \A a \in Callers : call[a].pc = "idle"
    BY <1>2 DEF Init
  <1>5. TurnsOwed = 0 /\ StatesOwed = 0 /\ StateInHand
    BY <1>4 DEF TurnsOwed, StatesOwed, TurnsLeft, StatesLeft, Resting, StateInHand,
                WithState, Callers
  <1>6. active \in ActiveRecord /\ active.task = 0
    BY DEF Init, NoTurn, ActiveRecord
  <1>7. where \in [Items -> Places]
    BY DEF Init, Places
  <1>8. /\ op \in [Items -> Ops \cup {"none"}] /\ phase \in [States -> Phases]
        /\ log \in [Turns -> Seq(LogEvents)]
    BY DEF Init, Phases
  <1>9. TypeOK
    BY <1>3, <1>6, <1>7, <1>8
    DEF Init, TypeOK, TaskRecord, CallerRecord, ActiveRecord, Phases, LogEvents
  <1> QED
    BY <1>5, <1>9 DEF Init, TypeInv

(* The conjuncts of the type invariant by the names of their sets.         *)
LEMMA Types ==
  ASSUME TypeInv
  PROVE  /\ active \in ActiveRecord /\ (active.ts = 0 => active.task = 0)
         /\ nstates \in Nat /\ nturns \in Nat /\ nops \in 0 .. MaxOps
         /\ op \in [Items -> Ops \cup {"none"}] /\ where \in [Items -> Places]
         /\ phase \in [States -> Phases] /\ turn \in [Turns -> TaskRecord]
         /\ call \in [Callers -> CallerRecord] /\ log \in [Turns -> Seq(LogEvents)]
  BY TurnAssumption
  DEF TypeInv, TypeOK, TaskRecord, CallerRecord, ActiveRecord, Phases, LogEvents

(* The places that the steps put items in.                                 *)
LEMMA PlacesNamed ==
  /\ Nowhere \in Places /\ Mailbox \in Places /\ Recorded \in Places
  /\ Refused \in Places /\ Dropped \in Places
  /\ \A ts \in States : PendingIn(ts) \in Places
  /\ \A a \in Callers : Argument(a) \in Places /\ Taken(a) \in Places
  /\ \A t \in Turns : InputOf(t) \in Places /\ LocalOf(t) \in Places
  BY DEF Places

LEMMA MovedTyped ==
  ASSUME TypeInv, NEW S, NEW place \in Places
  PROVE  Moved(S, place) \in [Items -> Places]
  BY Types DEF Moved

LEMMA RecordTyped ==
  ASSUME TypeInv, NEW S, NEW B, Record(S, B)
  PROVE  where' \in [Items -> Places]
  BY Types, PlacesNamed DEF Record

LEMMA LogTyped ==
  ASSUME TypeInv, NEW t, NEW e \in LogEvents
  PROVE  [log EXCEPT ![t] = Append(@, e)] \in [Turns -> Seq(LogEvents)]
  <1>1. log \in [Turns -> Seq(LogEvents)]
    BY Types
  <1>2. t \in Turns => Append(log[t], e) \in Seq(LogEvents)
    BY <1>1
  <1> QED
    BY <1>1, <1>2

(* A caller with a turn or a state left finds room for it.                 *)
LEMMA RoomLeft ==
  ASSUME TypeInv, NEW a \in Callers
  PROVE  /\ TurnsLeft(call[a].pc) > 0 => nturns + 1 \in Turns
         /\ StatesLeft(call[a].pc) > 0 => NewState \in States
  <1>1. \A b \in Callers : TurnsLeft(call[b].pc) \in Nat /\ StatesLeft(call[b].pc) \in Nat
    BY WorkLeft
  <1>2. TurnsLeft(call[a].pc) <= TurnsOwed /\ StatesLeft(call[a].pc) <= StatesOwed
        /\ TurnsOwed \in Nat /\ StatesOwed \in Nat
    BY <1>1 DEF TurnsOwed, StatesOwed, Callers
  <1>3. nturns + TurnsOwed <= nops /\ nstates + StatesOwed <= 4 * nops
    BY DEF TypeInv
  <1>4. nturns \in Nat /\ nstates \in Nat /\ nops \in Nat /\ nops <= MaxOps
    BY Types, TurnAssumption
  <1> QED
    BY <1>1, <1>2, <1>3, <1>4, TurnAssumption DEF Turns, States, NewState

-----------------------------------------------------------------------------
LEMMA Balance ==
  ASSUME NEW n \in Nat, NEW n1 \in Nat, NEW w \in Nat, NEW w1 \in Nat,
         NEW x \in Nat, NEW y \in Nat, NEW k \in Nat, NEW e \in Nat,
         n + w <= k, w1 + x = w + y, n1 + y <= n + x + e
  PROVE  n1 + w1 <= k + e
  OBVIOUS

LEMMA Within ==
  ASSUME NEW n \in Nat, NEW w \in Nat, NEW k \in Nat, NEW max \in Nat, n + w <= k, k <= max
  PROVE  n <= max
  OBVIOUS

(* A caller whose record becomes r: its step uses up what it had left.     *)
LEMMA CallerCounts ==
  ASSUME TypeInv, NEW a \in Callers, NEW r \in CallerRecord,
         call' = [call EXCEPT ![a] = r], r.pc \in WithState => r.ts # 0,
         NEW d \in {0, 1}, nops' = nops + d, nops' <= MaxOps,
         nturns' \in Nat, nturns' + TurnsLeft(r.pc) <= nturns + TurnsLeft(call[a].pc) + d,
         nstates' \in Nat,
         nstates' + StatesLeft(r.pc) <= nstates + StatesLeft(call[a].pc) + 4 * d
  PROVE  /\ call' \in [Callers -> CallerRecord] /\ StateInHand'
         /\ nturns' + TurnsOwed' <= nops' /\ nstates' + StatesOwed' <= 4 * nops'
         /\ nops' \in 0 .. MaxOps /\ nturns' \in 0 .. MaxOps /\ nstates' \in 0 .. 4 * MaxOps
  <1>1. /\ call' \in [Callers -> CallerRecord] /\ call'[a] = r
        /\ \A b \in Callers : b # a => call'[b] = call[b]
    BY Types
  <1>2. StateInHand'
    BY <1>1 DEF TypeInv, StateInHand
  <1>3. /\ \A b \in Callers : /\ TurnsLeft(call[b].pc) \in Nat /\ TurnsLeft(call'[b].pc) \in Nat
                              /\ StatesLeft(call[b].pc) \in Nat /\ StatesLeft(call'[b].pc) \in Nat
        /\ TurnsLeft(r.pc) \in Nat /\ StatesLeft(r.pc) \in Nat
    BY WorkLeft
  <1>4. nturns \in Nat /\ nstates \in Nat /\ nops \in Nat /\ MaxOps \in Nat
    BY Types, TurnAssumption
  <1>5. nturns + TurnsOwed <= nops /\ nstates + StatesOwed <= 4 * nops
    BY DEF TypeInv
  <1>6. /\ TurnsOwed' + TurnsLeft(call[a].pc) = TurnsOwed + TurnsLeft(r.pc)
        /\ TurnsOwed \in Nat /\ TurnsOwed' \in Nat
    BY <1>1, <1>3 DEF TurnsOwed, Callers
  <1>7. /\ StatesOwed' + StatesLeft(call[a].pc) = StatesOwed + StatesLeft(r.pc)
        /\ StatesOwed \in Nat /\ StatesOwed' \in Nat
    BY <1>1, <1>3 DEF StatesOwed, Callers
  <1>8. nturns' + TurnsOwed' <= nops + d
    <2> DEFINE x == TurnsLeft(call[a].pc)
               y == TurnsLeft(r.pc)
               w == TurnsOwed
               w1 == TurnsOwed'
               n1 == nturns'
    <2>1. /\ x \in Nat /\ y \in Nat /\ w \in Nat /\ w1 \in Nat /\ n1 \in Nat /\ d \in Nat
          /\ nturns + w <= nops /\ w1 + x = w + y /\ n1 + y <= nturns + x + d
      BY <1>3, <1>5, <1>6
    <2> HIDE DEF x, y, w, w1, n1
    <2>2. n1 + w1 <= nops + d
      BY <1>4, <2>1, Balance
    <2> QED
      BY <2>2 DEF n1, w1
  <1>9. nstates' + StatesOwed' <= 4 * nops + 4 * d
    <2> DEFINE x == StatesLeft(call[a].pc)
               y == StatesLeft(r.pc)
               w == StatesOwed
               w1 == StatesOwed'
               n1 == nstates'
               k == 4 * nops
               e == 4 * d
    <2>1. /\ x \in Nat /\ y \in Nat /\ w \in Nat /\ w1 \in Nat /\ n1 \in Nat
          /\ nstates + w <= k /\ w1 + x = w + y /\ n1 + y <= nstates + x + e
      BY <1>3, <1>5, <1>7
    <2>2. k \in Nat /\ e \in Nat
      BY <1>4
    <2> HIDE DEF x, y, w, w1, n1, k, e
    <2>3. n1 + w1 <= k + e
      BY <1>4, <2>1, <2>2, Balance
    <2> QED
      BY <2>3 DEF n1, w1, k, e
  <1>10. 4 * nops + 4 * d = 4 * nops' /\ nops + d <= MaxOps /\ 4 * nops' <= 4 * MaxOps
    BY <1>4
  <1>11. nturns' <= MaxOps
    <2>1. nops + d \in Nat /\ TurnsOwed' \in Nat
      BY <1>4, <1>6
    <2> QED
      BY <1>4, <1>8, <1>10, <2>1, Within
  <1>12. nstates' <= 4 * MaxOps
    <2> DEFINE k == 4 * nops'
               max == 4 * MaxOps
    <2>1. k \in Nat /\ max \in Nat /\ k <= max /\ nstates' + StatesOwed' <= k
      BY <1>4, <1>9, <1>10
    <2> HIDE DEF k, max
    <2>2. nstates' <= max
      BY <1>7, <2>1, Within
    <2> QED
      BY <2>2 DEF max
  <1> QED
    BY <1>1, <1>2, <1>4, <1>8, <1>9, <1>10, <1>11, <1>12

(* A caller's step.                                                        *)
LEMMA CallerMoves ==
  ASSUME TypeInv, NEW a \in Callers, NEW r \in CallerRecord,
         call' = [call EXCEPT ![a] = r], r.pc \in WithState => r.ts # 0,
         nturns' \in Nat, nturns' + TurnsLeft(r.pc) <= nturns + TurnsLeft(call[a].pc),
         nstates' \in Nat, nstates' + StatesLeft(r.pc) <= nstates + StatesLeft(call[a].pc),
         active' \in ActiveRecord, active'.ts = 0 => active'.task = 0,
         where' \in [Items -> Places], turn' \in [Turns -> TaskRecord],
         log' \in [Turns -> Seq(LogEvents)], UNCHANGED <<nops, op, phase>>
  PROVE  TypeInv'
  <1>1. nops' = nops + 0 /\ nops' <= MaxOps /\ nturns \in Nat /\ nstates \in Nat
    BY Types, TurnAssumption
  <1>2. TurnsLeft(call[a].pc) \in Nat /\ StatesLeft(call[a].pc) \in Nat
    BY WorkLeft
  <1>3. /\ nturns' + TurnsLeft(r.pc) <= nturns + TurnsLeft(call[a].pc) + 0
        /\ nstates' + StatesLeft(r.pc) <= nstates + StatesLeft(call[a].pc) + 4 * 0
    BY <1>1, <1>2
  <1>4. /\ call' \in [Callers -> CallerRecord] /\ StateInHand'
        /\ nturns' + TurnsOwed' <= nops' /\ nstates' + StatesOwed' <= 4 * nops'
        /\ nops' \in 0 .. MaxOps /\ nturns' \in 0 .. MaxOps /\ nstates' \in 0 .. 4 * MaxOps
    BY <1>1, <1>3, CallerCounts
  <1>5. op' \in [Items -> Ops \cup {"none"}] /\ phase' \in [States -> Phases]
    BY Types
  <1>6. TypeOK'
    BY <1>4, <1>5 DEF TypeOK, TaskRecord, CallerRecord, ActiveRecord, Phases, LogEvents
  <1> QED
    BY <1>4, <1>6 DEF TypeInv

LEMMA GotoTyped ==
  ASSUME TypeInv, NEW a \in Callers, NEW p \in CallPcs
  PROVE  \E r \in CallerRecord : /\ Goto(a, p) = [call EXCEPT ![a] = r]
                                 /\ r.pc = p /\ r.ts = call[a].ts
  <1> DEFINE r == [call[a] EXCEPT !.pc = p]
  <1>1. call[a] \in CallerRecord
    BY Types
  <1>2. r \in CallerRecord /\ r.pc = p /\ r.ts = call[a].ts
    BY <1>1 DEF CallerRecord
  <1>3. Goto(a, p) = [call EXCEPT ![a] = r]
    BY DEF Goto
  <1> HIDE DEF r
  <1> QED
    BY <1>2, <1>3

(* A step that moves the program counter of a caller and counts nothing.   *)
LEMMA CallerGoes ==
  ASSUME TypeInv, NEW a \in Callers, NEW p \in CallPcs, call' = Goto(a, p),
         p \in WithState => call[a].pc \in WithState,
         TurnsLeft(p) <= TurnsLeft(call[a].pc), StatesLeft(p) <= StatesLeft(call[a].pc),
         active' \in ActiveRecord, active'.ts = 0 => active'.task = 0,
         where' \in [Items -> Places], turn' \in [Turns -> TaskRecord],
         log' \in [Turns -> Seq(LogEvents)], UNCHANGED <<nturns, nstates, nops, op, phase>>
  PROVE  TypeInv'
  <1>1. PICK r \in CallerRecord : call' = [call EXCEPT ![a] = r] /\ r.pc = p /\ r.ts = call[a].ts
    BY GotoTyped
  <1>2. r.pc \in WithState => r.ts # 0
    BY <1>1 DEF TypeInv, StateInHand
  <1>3. /\ nturns \in Nat /\ nstates \in Nat
        /\ TurnsLeft(p) \in Nat /\ StatesLeft(p) \in Nat
        /\ TurnsLeft(call[a].pc) \in Nat /\ StatesLeft(call[a].pc) \in Nat
    <2>1. nturns \in Nat /\ nstates \in Nat
      BY Types
    <2> QED
      BY <2>1, WorkLeft
  <1>4. /\ nturns' \in Nat /\ nturns' + TurnsLeft(r.pc) <= nturns + TurnsLeft(call[a].pc)
        /\ nstates' \in Nat /\ nstates' + StatesLeft(r.pc) <= nstates + StatesLeft(call[a].pc)
    BY <1>1, <1>3
  <1> QED
    BY <1>1, <1>2, <1>4, CallerMoves

(* An operation puts a caller that rests to work, or nobody.               *)
LEMMA OperationBegins ==
  ASSUME TypeInv, NEW k, NewOp(k), NEW a \in Callers, call[a].pc = "idle",
         NEW p \in CallPcs \ WithState, NEW t \in Turns \cup {0}, NEW kind \in TurnKinds,
         NEW reason \in Reasons, call' = [call EXCEPT ![a] = Call(p, t, kind, reason)],
         where' \in [Items -> Places], phase' \in [States -> Phases],
         UNCHANGED <<active, nstates, nturns, turn, log>>
  PROVE  TypeInv'
  <1> DEFINE r == Call(p, t, kind, reason)
  <1>1. r \in CallerRecord /\ r.pc = p
    BY DEF Call, CallerRecord
  <1>2. nops' = nops + 1 /\ nops' <= MaxOps /\ nturns' \in Nat /\ nstates' \in Nat
    BY Types, TurnAssumption DEF NewOp
  <1>3. TurnsLeft(call[a].pc) = 0 /\ StatesLeft(call[a].pc) = 0
    BY DEF TurnsLeft, StatesLeft, Resting
  <1>4. TurnsLeft(r.pc) \in 0 .. 1 /\ StatesLeft(r.pc) \in 0 .. 4
    BY WorkLeft
  <1>5. call' = [call EXCEPT ![a] = r] /\ (r.pc \in WithState => r.ts # 0)
    BY <1>1
  <1> HIDE DEF r
  <1>6. /\ nturns' + TurnsLeft(r.pc) <= nturns + TurnsLeft(call[a].pc) + 1
        /\ nstates' + StatesLeft(r.pc) <= nstates + StatesLeft(call[a].pc) + 4 * 1
    BY <1>2, <1>3, <1>4
  <1>7. /\ call' \in [Callers -> CallerRecord] /\ StateInHand'
        /\ nturns' + TurnsOwed' <= nops' /\ nstates' + StatesOwed' <= 4 * nops'
        /\ nops' \in 0 .. MaxOps /\ nturns' \in 0 .. MaxOps /\ nstates' \in 0 .. 4 * MaxOps
    BY <1>1, <1>2, <1>5, <1>6, CallerCounts
  <1>8. op' \in [Items -> Ops \cup {"none"}]
    BY Types DEF NewOp
  <1>9. /\ active' \in ActiveRecord /\ (active'.ts = 0 => active'.task = 0)
        /\ turn' \in [Turns -> TaskRecord] /\ log' \in [Turns -> Seq(LogEvents)]
    BY Types
  <1>10. TypeOK'
    BY <1>7, <1>8, <1>9
    DEF TypeOK, TaskRecord, CallerRecord, ActiveRecord, Phases, LogEvents
  <1> QED
    BY <1>7, <1>10 DEF TypeInv

LEMMA OperationAlone ==
  ASSUME TypeInv, NEW k, NewOp(k), where' \in [Items -> Places],
         phase' \in [States -> Phases],
         UNCHANGED <<active, nstates, nturns, turn, log, call>>
  PROVE  TypeInv'
  <1>1. /\ nops' = nops + 1 /\ nops' \in 0 .. MaxOps /\ nops \in Nat
        /\ nturns \in Nat /\ nstates \in Nat
    BY Types, TurnAssumption DEF NewOp
  <1>2. TurnsOwed' = TurnsOwed /\ StatesOwed' = StatesOwed /\ (StateInHand' <=> StateInHand)
    BY DEF TurnsOwed, StatesOwed, StateInHand
  <1>3. TurnsOwed \in Nat /\ StatesOwed \in Nat
    BY WorkLeft DEF TurnsOwed, StatesOwed
  <1>4. nturns + TurnsOwed <= nops /\ nstates + StatesOwed <= 4 * nops /\ StateInHand
    BY DEF TypeInv
  <1>5. nturns' + TurnsOwed' <= nops' /\ nstates' + StatesOwed' <= 4 * nops'
    BY <1>1, <1>2, <1>3, <1>4
  <1>6. op' \in [Items -> Ops \cup {"none"}]
    BY Types DEF NewOp
  <1>7. TypeOK'
    BY <1>1, <1>6 DEF TypeInv, TypeOK, Phases
  <1> QED
    BY <1>2, <1>4, <1>5, <1>7 DEF TypeInv

LEMMA OperationKeepsTypes ==
  ASSUME TypeInv, Operation
  PROVE  TypeInv'
  <1>0. /\ "loop" \in Callers /\ "ext" \in Callers
        /\ {"abort", "maybe", "tryReserve"} \subseteq CallPcs \ WithState
        /\ "Regular" \in TurnKinds
        /\ {"Replaced", "Interrupted", "Shutdown", "Work"} \subseteq Reasons
        /\ 0 \in Turns \cup {0}
    BY DEF Callers, CallPcs, WithState, TurnKinds, Reasons
  <1>1. /\ active \in ActiveRecord /\ (active.ts = 0 => active.task = 0)
        /\ where \in [Items -> Places] /\ phase \in [States -> Phases]
    BY Types
  <1>2. ASSUME NEW place \in Places
        PROVE  [where EXCEPT ![Item] = place] \in [Items -> Places]
    BY <1>1
  <1>3. ASSUME active.ts # 0
        PROVE  PendingIn(active.ts) \in Places
    BY <1>1, <1>3, PlacesNamed DEF ActiveRecord
  <1>4. ASSUME steer_input
        PROVE  where' \in [Items -> Places] /\ phase' \in [States -> Phases]
    <2>1. active.ts # 0
      BY <1>1, <1>4 DEF steer_input, CanSteer, HasTask
    <2> QED
      BY <1>1, <1>2, <1>3, <1>4, <2>1 DEF steer_input, Phases
  <1>5. /\ [where EXCEPT ![Item] = Refused] \in [Items -> Places]
        /\ [where EXCEPT ![Item] = Recorded] \in [Items -> Places]
        /\ [where EXCEPT ![Item] = Mailbox] \in [Items -> Places]
        /\ [where EXCEPT ![Item] = Argument("loop")] \in [Items -> Places]
        /\ [where EXCEPT ![Item] = Argument("ext")] \in [Items -> Places]
    BY <1>0, <1>2, PlacesNamed
  <1>6. CASE UserInput
    <2>1. /\ NewOp("user") /\ call["loop"].pc = "idle"
          /\ UNCHANGED <<active, nstates, nturns, turn, log>>
      BY <1>6 DEF UserInput, LoopFree
    <2>2. where' \in [Items -> Places] /\ phase' \in [States -> Phases]
      BY <1>1, <1>4, <1>5, <1>6 DEF UserInput
    <2>3. CASE call' = call
      BY <2>1, <2>2, <2>3, OperationAlone
    <2>4. CASE call' = [call EXCEPT !["loop"] = Call("abort", 0, "Regular", "Replaced")]
      BY <1>0, <2>1, <2>2, <2>4, OperationBegins
    <2> QED
      BY <1>6, <2>3, <2>4 DEF UserInput
  <1>7. CASE SteerRequest
    <2>1. where' \in [Items -> Places] /\ phase' \in [States -> Phases]
      BY <1>1, <1>4, <1>5, <1>7 DEF SteerRequest
    <2> QED
      BY <1>7, <2>1, OperationAlone DEF SteerRequest
  <1>8. CASE StandaloneTask
    <2>1. PICK k \in {"compact", "review", "shell"} :
             /\ NewOp(k)
             /\ \/ call' = [call EXCEPT !["loop"] = Call("abort", 0, KindOf(k), "Replaced")]
                \/ call' = call
      BY <1>8 DEF StandaloneTask
    <2>2. /\ call["loop"].pc = "idle" /\ where' = where /\ phase' = phase
          /\ UNCHANGED <<active, nstates, nturns, turn, log>>
      BY <1>8 DEF StandaloneTask, LoopFree
    <2>3. KindOf(k) \in TurnKinds
      BY DEF KindOf, TurnKinds
    <2>4. CASE call' = call
      BY <1>1, <2>1, <2>2, <2>4, OperationAlone
    <2>5. CASE call' = [call EXCEPT !["loop"] = Call("abort", 0, KindOf(k), "Replaced")]
      BY <1>0, <1>1, <2>1, <2>2, <2>3, <2>5, OperationBegins
    <2> QED
      BY <2>1, <2>4, <2>5
  <1>9. CASE Interrupt
    <2>1. PICK k \in {"interrupt", "shutdown"} :
             /\ NewOp(k)
             /\ call' = [call EXCEPT !["loop"] = Call("abort", 0, "Regular",
                           IF k = "shutdown" THEN "Shutdown" ELSE "Interrupted")]
      BY <1>9 DEF Interrupt
    <2>2. /\ call["loop"].pc = "idle" /\ where' = where /\ phase' = phase
          /\ UNCHANGED <<active, nstates, nturns, turn, log>>
      BY <1>9 DEF Interrupt, LoopFree
    <2>3. PICK reason \in Reasons :
             call' = [call EXCEPT !["loop"] = Call("abort", 0, "Regular", reason)]
      BY <1>0, <2>1
    <2>4. "abort" \in CallPcs \ WithState /\ where' \in [Items -> Places] /\ phase' \in [States -> Phases]
      BY <1>0, <1>1, <2>2
    <2>5. NewOp(k)
      BY <2>1
    <2> QED
      BY <1>0, <2>2, <2>3, <2>4, <2>5, OperationBegins
  <1>10. CASE InterAgentCommunication
    <2>1. PICK k \in {"mail", "trigger"} :
             /\ NewOp(k)
             /\ call' = IF k = "mail" THEN call
                        ELSE [call EXCEPT !["loop"] = Call("maybe", 0, "Regular", "Work")]
      BY <1>10 DEF InterAgentCommunication
    <2>2. /\ call["loop"].pc = "idle" /\ where' = [where EXCEPT ![Item] = Mailbox]
          /\ phase' = phase /\ UNCHANGED <<active, nstates, nturns, turn, log>>
      BY <1>10 DEF InterAgentCommunication, LoopFree
    <2>3. CASE call' = call
      BY <1>1, <1>5, <2>1, <2>2, <2>3, OperationAlone
    <2>4. CASE call' = [call EXCEPT !["loop"] = Call("maybe", 0, "Regular", "Work")]
      <3>1. /\ "maybe" \in CallPcs \ WithState /\ "Work" \in Reasons
            /\ where' \in [Items -> Places] /\ phase' \in [States -> Phases]
        BY <1>0, <1>1, <1>5, <2>2
      <3>2. NewOp(k)
        BY <2>1
      <3> QED
        BY <1>0, <2>2, <2>4, <3>1, <3>2, OperationBegins
    <2> QED
      BY <2>1, <2>3, <2>4
  <1>11. CASE Inject
    <2>1. where' \in [Items -> Places]
      BY <1>2, <1>3, <1>5, <1>11 DEF Inject
    <2> QED
      BY <1>1, <1>11, <2>1, OperationAlone DEF Inject
  <1>12. CASE TryStartTurnIfIdle
    <2>1. /\ NewOp("idle") /\ call["ext"].pc = "idle" /\ phase' = phase
          /\ UNCHANGED <<active, nstates, nturns, turn, log>>
      BY <1>12 DEF TryStartTurnIfIdle
    <2>2. where' \in [Items -> Places]
      BY <1>5, <1>12 DEF TryStartTurnIfIdle
    <2>3. CASE call' = call
      BY <1>1, <2>1, <2>2, <2>3, OperationAlone
    <2>4. CASE call' = [call EXCEPT !["ext"] = Call("tryReserve", 0, "Regular", "Work")]
      BY <1>0, <1>1, <2>1, <2>2, <2>4, OperationBegins
    <2> QED
      BY <1>12, <2>3, <2>4 DEF TryStartTurnIfIdle
  <1> QED
    BY <1>6, <1>7, <1>8, <1>9, <1>10, <1>11, <1>12 DEF Operation

-----------------------------------------------------------------------------
(* handle_task_abort, from a caller that may still start a turn.           *)
LEMMA CancelKeepsTypes ==
  ASSUME TypeInv, NEW a \in Callers, call[a].pc \in {"abort", "abortIf"},
         CancelTask(a, active.task), active' = NoTurn,
         UNCHANGED <<nstates, nturns, nops, op, where, phase, log>>
  PROVE  TypeInv'
  <1> DEFINE t == active.task
             ts == active.ts
  <1>1. /\ turn \in [Turns -> TaskRecord] /\ call[a] \in CallerRecord
        /\ call \in [Callers -> CallerRecord] /\ nturns \in Nat /\ nstates \in Nat
        /\ where \in [Items -> Places] /\ log \in [Turns -> Seq(LogEvents)]
    BY Types
  <1>2. t \in Turns \cup {0} /\ ts \in States \cup {0}
    BY Types DEF ActiveRecord
  <1>3. PICK p \in {"drop", "kill"} :
           call' = [call EXCEPT ![a].turn = t, ![a].ts = ts, ![a].pc = p]
    BY DEF CancelTask
  <1>4. turn' = [turn EXCEPT ![t].cancelled = TRUE]
    BY DEF CancelTask
  <1> HIDE DEF t, ts
  <1>5. turn' \in [Turns -> TaskRecord]
    <2>1. t \in Turns => [turn[t] EXCEPT !.cancelled = TRUE] \in TaskRecord
      BY <1>1 DEF TaskRecord
    <2>2. turn' = [turn EXCEPT ![t] = [turn[t] EXCEPT !.cancelled = TRUE]]
      BY <1>4
    <2> QED
      BY <1>1, <2>1, <2>2
  <1> DEFINE r == [[[call[a] EXCEPT !.turn = t] EXCEPT !.ts = ts] EXCEPT !.pc = p]
  <1>6. r \in CallerRecord /\ r.pc = p
    BY <1>1, <1>2 DEF CallerRecord, CallPcs
  <1>7. call' = [call EXCEPT ![a] = r]
    BY <1>1, <1>3
  <1> HIDE DEF r
  <1>8. r.pc \notin WithState
    BY <1>6 DEF WithState
  <1>9. /\ TurnsLeft(r.pc) = TurnsLeft(call[a].pc) /\ StatesLeft(r.pc) = StatesLeft(call[a].pc)
        /\ TurnsLeft(r.pc) \in Nat /\ StatesLeft(r.pc) \in Nat
    BY <1>6 DEF TurnsLeft, StatesLeft, Resting
  <1>10. /\ nturns' \in Nat /\ nturns' + TurnsLeft(r.pc) <= nturns + TurnsLeft(call[a].pc)
         /\ nstates' \in Nat /\ nstates' + StatesLeft(r.pc) <= nstates + StatesLeft(call[a].pc)
    BY <1>1, <1>9
  <1>11. active' \in ActiveRecord /\ (active'.ts = 0 => active'.task = 0)
    BY DEF NoTurn, ActiveRecord
  <1> QED
    BY <1>1, <1>5, <1>6, <1>7, <1>8, <1>10, <1>11, CallerMoves

LEMMA StepTyped ==
  ASSUME TypeInv, NEW t, NEW p \in TurnPcs
  PROVE  Step(t, p) \in [Turns -> TaskRecord]
  <1>1. turn \in [Turns -> TaskRecord]
    BY Types
  <1> DEFINE r == [turn[t] EXCEPT !.pc = p]
  <1>2. t \in Turns => r \in TaskRecord
    BY <1>1 DEF TaskRecord
  <1>3. Step(t, p) = [turn EXCEPT ![t] = r]
    BY DEF Step
  <1> HIDE DEF r
  <1> QED
    BY <1>1, <1>2, <1>3

(* A caller that takes or creates the state of the active turn.            *)
LEMMA ReserveTyped ==
  ASSUME TypeInv, NEW a \in Callers, StatesLeft(call[a].pc) > 0
  PROVE  /\ [task |-> 0, ts |-> NewState] \in ActiveRecord
         /\ get_or_insert \in ActiveRecord
         /\ get_or_insert.ts \in States
         /\ NewState = nstates + 1 /\ NewState \in States
  <1>1. NewState \in States
    BY RoomLeft
  <1>2. active \in ActiveRecord
    BY Types
  <1>3. [task |-> 0, ts |-> NewState] \in ActiveRecord
    BY <1>1 DEF ActiveRecord
  <1>4. get_or_insert \in ActiveRecord /\ get_or_insert.ts \in States
    BY <1>1, <1>2, <1>3 DEF get_or_insert, ActiveRecord
  <1> QED
    BY <1>1, <1>3, <1>4 DEF NewState

LEMMA ReserveKeepsTypes ==
  ASSUME TypeInv, NEW a \in Callers, ReserveTurn(a)
  PROVE  TypeInv'
  <1>1. /\ active \in ActiveRecord /\ (active.ts = 0 => active.task = 0)
        /\ where \in [Items -> Places] /\ turn \in [Turns -> TaskRecord]
        /\ log \in [Turns -> Seq(LogEvents)] /\ call \in [Callers -> CallerRecord]
        /\ nturns \in Nat /\ nstates \in Nat
    BY Types
  <1>2. /\ call[a].pc = "reserve" /\ UNCHANGED <<nturns, nops, op, where, phase, turn, log>>
        /\ TurnsLeft("reserve") = 1 /\ StatesLeft("reserve") = 3
        /\ TurnsLeft("pending") = 1 /\ StatesLeft("pending") = 2
    BY DEF ReserveTurn, TurnsLeft, StatesLeft, Resting
  <1>3. CASE active.ts # 0
    <2>1. call' = Goto(a, Rest(a)) /\ UNCHANGED <<active, nstates>>
      BY <1>3 DEF ReserveTurn
    <2>2. /\ TurnsLeft(Rest(a)) = 0 /\ StatesLeft(Rest(a)) = 0
          /\ Rest(a) \notin WithState /\ Rest(a) \in CallPcs
      BY RestPcs DEF TurnsLeft, StatesLeft, Resting, WithState
    <2>3. /\ TurnsLeft(Rest(a)) <= TurnsLeft(call[a].pc)
          /\ StatesLeft(Rest(a)) <= StatesLeft(call[a].pc)
      BY <1>2, <2>2
    <2> QED
      BY <1>1, <1>2, <2>1, <2>2, <2>3, CallerGoes
  <1>4. CASE active.ts = 0
    <2>1. /\ active' = [task |-> 0, ts |-> NewState] /\ nstates' = NewState
          /\ call' = [call EXCEPT ![a].pc = "pending", ![a].kind = "Regular"]
      BY <1>4 DEF ReserveTurn
    <2>2. active' \in ActiveRecord /\ active'.task = 0 /\ nstates' = nstates + 1
      BY <1>2, <2>1, ReserveTyped
    <2> DEFINE r == [[call[a] EXCEPT !.pc = "pending"] EXCEPT !.kind = "Regular"]
    <2>3. r \in CallerRecord /\ r.pc = "pending"
      BY <1>1 DEF CallerRecord, CallPcs, TurnKinds
    <2>4. call' = [call EXCEPT ![a] = r]
      BY <1>1, <2>1
    <2> HIDE DEF r
    <2>5. /\ nturns' \in Nat /\ nturns' + TurnsLeft(r.pc) <= nturns + TurnsLeft(call[a].pc)
          /\ nstates' \in Nat /\ nstates' + StatesLeft(r.pc) <= nstates + StatesLeft(call[a].pc)
          /\ r.pc \notin WithState
      BY <1>1, <1>2, <2>2, <2>3 DEF WithState
    <2> QED
      BY <1>1, <1>2, <2>2, <2>3, <2>4, <2>5, CallerMoves
  <1> QED
    BY <1>3, <1>4

LEMMA InsertKeepsTypes ==
  ASSUME TypeInv, NEW a \in Callers, InsertTurn(a)
  PROVE  TypeInv'
  <1>1. /\ active \in ActiveRecord /\ (active.ts = 0 => active.task = 0)
        /\ where \in [Items -> Places] /\ turn \in [Turns -> TaskRecord]
        /\ log \in [Turns -> Seq(LogEvents)] /\ call \in [Callers -> CallerRecord]
        /\ nturns \in Nat /\ nstates \in Nat
    BY Types
  <1>2. /\ call[a].pc = "insert" /\ UNCHANGED <<nturns, nops, op, where, phase, turn, log>>
        /\ active' = get_or_insert
        /\ nstates' = (IF active.ts # 0 THEN nstates ELSE NewState)
        /\ call' = [call EXCEPT ![a].ts = get_or_insert.ts, ![a].pc = "extend"]
        /\ TurnsLeft("insert") = 1 /\ StatesLeft("insert") = 2
        /\ TurnsLeft("extend") = 1 /\ StatesLeft("extend") = 1
    BY DEF InsertTurn, TurnsLeft, StatesLeft, Resting
  <1> DEFINE ts == get_or_insert.ts
  <1>3. active' \in ActiveRecord /\ ts \in States /\ NewState = nstates + 1
    BY <1>2, ReserveTyped
  <1>4. active'.ts # 0
    BY <1>2, <1>3 DEF States
  <1>5. call' = [call EXCEPT ![a].ts = ts, ![a].pc = "extend"]
    BY <1>2
  <1> HIDE DEF ts
  <1> DEFINE r == [[call[a] EXCEPT !.ts = ts] EXCEPT !.pc = "extend"]
  <1>6. r \in CallerRecord /\ r.pc = "extend" /\ r.ts = ts
    BY <1>1, <1>3 DEF CallerRecord, CallPcs
  <1>7. call' = [call EXCEPT ![a] = r]
    BY <1>1, <1>5
  <1> HIDE DEF r
  <1>8. nstates' \in Nat /\ nstates' <= nstates + 1
    BY <1>1, <1>2, <1>3
  <1>9. /\ nturns' \in Nat /\ nturns' + TurnsLeft(r.pc) <= nturns + TurnsLeft(call[a].pc)
        /\ nstates' \in Nat /\ nstates' + StatesLeft(r.pc) <= nstates + StatesLeft(call[a].pc)
        /\ r.ts # 0
    BY <1>1, <1>2, <1>3, <1>6, <1>8 DEF States
  <1> QED
    BY <1>1, <1>2, <1>3, <1>4, <1>6, <1>7, <1>9, CallerMoves

(* The step that numbers a turn, and a state if there is none.             *)
LEMMA InstallKeepsTypes ==
  ASSUME TypeInv, NEW a \in Callers, InstallTask(a)
  PROVE  TypeInv'
  <1> USE TurnAssumption
  <1>1. /\ active \in ActiveRecord /\ where \in [Items -> Places]
        /\ turn \in [Turns -> TaskRecord] /\ log \in [Turns -> Seq(LogEvents)]
        /\ call \in [Callers -> CallerRecord] /\ call[a] \in CallerRecord
        /\ nturns \in Nat /\ nstates \in Nat
    BY Types
  <1> DEFINE n == nturns + 1
             old == active.task
  <1>0. PICK p \in IF old = 0 THEN {"none"} ELSE AbortedPcs(old) :
          LET rest == IF old = 0 THEN turn ELSE Step(old, p)
              lost == IF old = 0 THEN {} ELSE LostWith(old, p)
          IN /\ nturns' = n
             /\ active' = [get_or_insert EXCEPT !.task = n]
             /\ turn' = [rest EXCEPT ![n] = Task("begin", call[a].kind)]
             /\ where' = [i \in Items |-> IF i \in lost THEN Dropped
                                          ELSE IF i \in At(Argument(a)) THEN InputOf(n)
                                          ELSE where[i]]
    BY DEF InstallTask
  <1> DEFINE rest == IF old = 0 THEN turn ELSE Step(old, p)
             lost == IF old = 0 THEN {} ELSE LostWith(old, p)
             new == Task("begin", call[a].kind)
             g == get_or_insert
  <1>2. /\ call[a].pc = "install" /\ UNCHANGED <<nops, op, phase, log>>
        /\ nturns' = n /\ active' = [g EXCEPT !.task = n]
        /\ turn' = [rest EXCEPT ![n] = new]
        /\ where' = [i \in Items |-> IF i \in lost THEN Dropped
                                     ELSE IF i \in At(Argument(a)) THEN InputOf(n)
                                     ELSE where[i]]
        /\ nstates' = (IF active.ts # 0 THEN nstates ELSE NewState)
        /\ call' = Goto(a, Rest(a))
    BY <1>0 DEF InstallTask
  <1>3. /\ TurnsLeft("install") = 1 /\ StatesLeft("install") = 1
        /\ TurnsLeft(Rest(a)) = 0 /\ StatesLeft(Rest(a)) = 0
        /\ Rest(a) \notin WithState /\ Rest(a) \in CallPcs
    BY RestPcs DEF TurnsLeft, StatesLeft, Resting, WithState
  <1>4. n \in Turns
    BY <1>2, <1>3, RoomLeft
  <1>5. g \in ActiveRecord /\ g.ts \in States /\ NewState = nstates + 1
    BY <1>2, <1>3, ReserveTyped
  <1>6. new \in TaskRecord
    BY <1>1 DEF Task, TaskRecord, CallerRecord, TurnPcs
  <1>7. rest \in [Turns -> TaskRecord]
    BY <1>1, AbortedOver, StepTyped
  <1>8. nturns' = nturns + 1
    BY <1>2
  <1>9. where' \in [Items -> Places]
    BY <1>1, <1>2, <1>4, PlacesNamed
  <1> HIDE DEF n, old, rest, lost, new, g
  <1>10. turn' \in [Turns -> TaskRecord]
    BY <1>2, <1>6, <1>7
  <1>11. active' \in ActiveRecord /\ active'.ts # 0
    BY <1>2, <1>4, <1>5 DEF ActiveRecord, States
  <1>12. PICK r \in CallerRecord : call' = [call EXCEPT ![a] = r] /\ r.pc = Rest(a)
    BY <1>2, <1>3, GotoTyped
  <1>13. nstates' \in Nat /\ nstates' <= nstates + 1
    BY <1>1, <1>2, <1>5
  <1>14. /\ nturns' \in Nat /\ nturns' + TurnsLeft(r.pc) <= nturns + TurnsLeft(call[a].pc)
         /\ nstates' \in Nat /\ nstates' + StatesLeft(r.pc) <= nstates + StatesLeft(call[a].pc)
         /\ r.pc \notin WithState
    BY <1>1, <1>2, <1>3, <1>8, <1>12, <1>13
  <1> QED
    BY <1>1, <1>2, <1>9, <1>10, <1>11, <1>12, <1>14, CallerMoves

LEMMA CallerKeepsTypes ==
  ASSUME TypeInv, NEW a \in Callers, CallerStep(a)
  PROVE  TypeInv'
  <1>1. /\ active \in ActiveRecord /\ (active.ts = 0 => active.task = 0)
        /\ where \in [Items -> Places] /\ turn \in [Turns -> TaskRecord]
        /\ log \in [Turns -> Seq(LogEvents)] /\ call[a] \in CallerRecord
    BY Types
  <1>2. NoTurn \in ActiveRecord /\ NoTurn.task = 0
    BY DEF NoTurn, ActiveRecord
  <1>3. /\ Rest(a) \in CallPcs /\ Rest(a) \notin WithState
        /\ TurnsLeft(Rest(a)) = 0 /\ StatesLeft(Rest(a)) = 0
    BY RestPcs DEF TurnsLeft, StatesLeft, Resting, WithState
  <1>4. \A p \in {"abort", "abortIf", "kill", "drop", "emit", "unqueue", "maybe", "reserve"} :
           /\ p \in CallPcs /\ p \notin WithState
           /\ TurnsLeft(p) = 1 /\ StatesLeft(p) = 3
    BY DEF CallPcs, WithState, TurnsLeft, StatesLeft, Resting
  <1>5. \A p \in {"pending", "insert"} :
           /\ p \in CallPcs /\ p \notin WithState
           /\ TurnsLeft(p) = 1 /\ StatesLeft(p) = 2
    BY DEF CallPcs, WithState, TurnsLeft, StatesLeft, Resting
  <1>6. ASSUME NEW p \in CallPcs, p \notin WithState, call' = Goto(a, p),
               TurnsLeft(p) <= TurnsLeft(call[a].pc), StatesLeft(p) <= StatesLeft(call[a].pc),
               where' \in [Items -> Places], turn' \in [Turns -> TaskRecord],
               log' \in [Turns -> Seq(LogEvents)],
               UNCHANGED <<active, nturns, nstates, nops, op, phase>>
        PROVE  TypeInv'
    BY <1>1, <1>6, CallerGoes
  <1>7. CASE AbortAllTasks(a)
    <2>1. CASE HasTask
      BY <1>7, <2>1, CancelKeepsTypes DEF AbortAllTasks
    <2>2. CASE ~HasTask
      <3>1. PICK p \in {"pending", Rest(a)} : call' = Goto(a, p)
        BY <1>7, <2>2 DEF AbortAllTasks
      <3>2. /\ call[a].pc = "abort" /\ active' = NoTurn
            /\ UNCHANGED <<turn, nstates, nturns, nops, op, where, phase, log>>
        BY <1>7, <2>2 DEF AbortAllTasks
      <3>3. /\ p \in CallPcs /\ p \notin WithState
            /\ TurnsLeft(p) <= TurnsLeft(call[a].pc) /\ StatesLeft(p) <= StatesLeft(call[a].pc)
        BY <1>3, <1>4, <1>5, <3>2
      <3> QED
        BY <1>1, <1>2, <3>1, <3>2, <3>3, CallerGoes
    <2> QED
      BY <2>1, <2>2
  <1>8. CASE AbortTurnIfActive(a)
    <2>1. CASE active.task = call[a].turn
      BY <1>8, <2>1, CancelKeepsTypes DEF AbortTurnIfActive
    <2>2. CASE active.task # call[a].turn
      <3>1. /\ call[a].pc = "abortIf" /\ call' = Goto(a, "idle")
            /\ UNCHANGED <<active, turn, nstates, nturns, nops, op, where, phase, log>>
        BY <1>8, <2>2 DEF AbortTurnIfActive
      <3>2. /\ "idle" \in CallPcs /\ "idle" \notin WithState
            /\ TurnsLeft("idle") = 0 /\ StatesLeft("idle") = 0
        BY DEF CallPcs, WithState, TurnsLeft, StatesLeft, Resting
      <3>3. /\ TurnsLeft("idle") <= TurnsLeft(call[a].pc)
            /\ StatesLeft("idle") <= StatesLeft(call[a].pc)
        BY <1>4, <3>1, <3>2
      <3> QED
        BY <1>1, <1>6, <3>1, <3>2, <3>3
    <2> QED
      BY <2>1, <2>2
  <1>9. CASE KillTask(a)
    <2>1. PICK p \in {"emit", "unqueue"} : call' = Goto(a, p)
      BY <1>9 DEF KillTask
    <2>2. /\ call[a].pc \in {"kill", "drop"}
          /\ UNCHANGED <<active, nstates, nturns, nops, op, phase, log>>
      BY <1>9 DEF KillTask
    <2>3. turn' \in [Turns -> TaskRecord] /\ where' \in [Items -> Places]
      <3>1. PICK q \in AbortedPcs(call[a].turn) :
              /\ turn' = Step(call[a].turn, q)
              /\ where' = Moved(LostWith(call[a].turn, q), Dropped)
        BY <1>9 DEF KillTask
      <3> QED
        BY <3>1, AbortedOver, StepTyped, MovedTyped, PlacesNamed
    <2>4. /\ p \in CallPcs /\ p \notin WithState
          /\ TurnsLeft(p) <= TurnsLeft(call[a].pc) /\ StatesLeft(p) <= StatesLeft(call[a].pc)
      BY <1>4, <2>2
    <2> QED
      BY <1>1, <1>6, <2>1, <2>2, <2>3, <2>4
  <1>10. CASE EmitTurnAborted(a)
    <2>1. /\ call[a].pc = "emit" /\ call' = Goto(a, "unqueue")
          /\ log' = [log EXCEPT ![call[a].turn] = Append(@, "aborted")]
          /\ UNCHANGED <<active, nstates, nturns, nops, op, where, phase, turn>>
      BY <1>10 DEF EmitTurnAborted
    <2>2. log' \in [Turns -> Seq(LogEvents)]
      BY <2>1, LogTyped DEF LogEvents
    <2>3. /\ TurnsLeft("unqueue") <= TurnsLeft(call[a].pc)
          /\ StatesLeft("unqueue") <= StatesLeft(call[a].pc)
      BY <1>4, <2>1
    <2> QED
      BY <1>1, <1>4, <1>6, <2>1, <2>2, <2>3
  <1>11. CASE ClearPending(a)
    <2>1. PICK p \in {"pending", "maybe"} : call' = Goto(a, p)
      BY <1>11 DEF ClearPending, AfterAbort
    <2>2. /\ call[a].pc = "unqueue" /\ where' = Moved(At(PendingIn(call[a].ts)), Dropped)
          /\ UNCHANGED <<active, nstates, nturns, nops, op, phase, turn, log>>
      BY <1>11 DEF ClearPending
    <2>3. where' \in [Items -> Places]
      BY <2>2, MovedTyped, PlacesNamed
    <2>4. /\ p \in CallPcs /\ p \notin WithState
          /\ TurnsLeft(p) <= TurnsLeft(call[a].pc) /\ StatesLeft(p) <= StatesLeft(call[a].pc)
      BY <1>4, <1>5, <2>2
    <2> QED
      BY <1>1, <1>6, <2>1, <2>2, <2>3, <2>4
  <1>12. CASE MaybeStartTurn(a)
    <2>1. PICK p \in {"reserve", Rest(a)} : call' = Goto(a, p)
      BY <1>12 DEF MaybeStartTurn
    <2>2. /\ call[a].pc = "maybe"
          /\ UNCHANGED <<active, nstates, nturns, nops, op, where, phase, turn, log>>
      BY <1>12 DEF MaybeStartTurn
    <2>3. /\ p \in CallPcs /\ p \notin WithState
          /\ TurnsLeft(p) <= TurnsLeft(call[a].pc) /\ StatesLeft(p) <= StatesLeft(call[a].pc)
      BY <1>3, <1>4, <2>2
    <2> QED
      BY <1>1, <1>6, <2>1, <2>2, <2>3
  <1>13. CASE ReserveTurn(a)
    BY <1>13, ReserveKeepsTypes
  <1>14. CASE GetPendingInput(a)
    <2>1. /\ call[a].pc = "pending" /\ call' = Goto(a, "insert")
          /\ where' = Moved(get_pending_input, Taken(a))
          /\ UNCHANGED <<active, nstates, nturns, nops, op, phase, turn, log>>
      BY <1>14 DEF GetPendingInput
    <2>2. where' \in [Items -> Places]
      BY <2>1, MovedTyped, PlacesNamed
    <2>3. /\ TurnsLeft("insert") <= TurnsLeft(call[a].pc)
          /\ StatesLeft("insert") <= StatesLeft(call[a].pc)
      BY <1>5, <2>1
    <2> QED
      BY <1>1, <1>5, <1>6, <2>1, <2>2, <2>3
  <1>15. CASE InsertTurn(a)
    BY <1>15, InsertKeepsTypes
  <1>16. CASE ExtendPendingInput(a)
    <2>1. /\ call[a].pc = "extend" /\ call' = Goto(a, "install")
          /\ where' = Moved(At(Taken(a)), PendingIn(call[a].ts))
          /\ UNCHANGED <<active, nstates, nturns, nops, op, phase, turn, log>>
      BY <1>16 DEF ExtendPendingInput
    <2>2. call[a].ts \in States
      BY <1>1, <2>1 DEF TypeInv, StateInHand, WithState, CallerRecord
    <2>3. where' \in [Items -> Places]
      BY <2>1, <2>2, MovedTyped, PlacesNamed
    <2>4. /\ "install" \in CallPcs /\ "install" \notin WithState
          /\ TurnsLeft("install") <= TurnsLeft(call[a].pc)
          /\ StatesLeft("install") <= StatesLeft(call[a].pc)
      BY <2>1 DEF CallPcs, WithState, TurnsLeft, StatesLeft, Resting
    <2> QED
      BY <1>1, <1>6, <2>1, <2>3, <2>4
  <1>17. CASE InstallTask(a)
    BY <1>17, InstallKeepsTypes
  <1> QED
    BY <1>7, <1>8, <1>9, <1>10, <1>11, <1>12, <1>13, <1>14, <1>15, <1>16, <1>17 DEF CallerStep

(* The idle start of an extension.                                         *)
LEMMA ExtKeepsTypes ==
  ASSUME TypeInv, ExtStep
  PROVE  TypeInv'
  <1>0. "ext" \in Callers
    BY DEF Callers
  <1>1. /\ active \in ActiveRecord /\ (active.ts = 0 => active.task = 0)
        /\ where \in [Items -> Places] /\ turn \in [Turns -> TaskRecord]
        /\ log \in [Turns -> Seq(LogEvents)] /\ call \in [Callers -> CallerRecord]
        /\ call["ext"] \in CallerRecord /\ nturns \in Nat /\ nstates \in Nat
    BY <1>0, Types
  <1>2. NoTurn \in ActiveRecord /\ NoTurn.task = 0
    BY DEF NoTurn, ActiveRecord
  <1>3. /\ Moved(At(Argument("ext")), Refused) \in [Items -> Places]
        /\ {"idle", "maybe", "recheck", "confirm", "unreserve", "give", "pending"} \subseteq CallPcs
    BY MovedTyped, PlacesNamed DEF CallPcs
  <1>4. /\ TurnsLeft("idle") = 0 /\ StatesLeft("idle") = 0
        /\ TurnsLeft("unreserve") = 0 /\ StatesLeft("unreserve") = 0
        /\ TurnsLeft("tryReserve") = 1 /\ StatesLeft("tryReserve") = 4
        /\ TurnsLeft("recheck") = 1 /\ StatesLeft("recheck") = 3
        /\ TurnsLeft("maybe") = 1 /\ StatesLeft("maybe") = 3
        /\ TurnsLeft("confirm") = 1 /\ StatesLeft("confirm") = 2
        /\ TurnsLeft("give") = 1 /\ StatesLeft("give") = 2
        /\ TurnsLeft("pending") = 1 /\ StatesLeft("pending") = 2
    BY DEF TurnsLeft, StatesLeft, Resting
  <1>5. /\ {"recheck", "confirm", "give"} \subseteq WithState
        /\ "idle" \notin WithState /\ "unreserve" \notin WithState
        /\ "maybe" \notin WithState /\ "pending" \notin WithState
    BY DEF WithState
  <1>6. ASSUME NEW p \in CallPcs, call' = Goto("ext", p),
               p \in WithState => call["ext"].pc \in WithState,
               TurnsLeft(p) <= TurnsLeft(call["ext"].pc),
               StatesLeft(p) <= StatesLeft(call["ext"].pc),
               active' \in {active, NoTurn}, where' \in [Items -> Places],
               UNCHANGED <<turn, log, nturns, nstates, nops, op, phase>>
        PROVE  TypeInv'
    <2>1. active' \in ActiveRecord /\ (active'.ts = 0 => active'.task = 0)
      BY <1>1, <1>2, <1>6
    <2> QED
      BY <1>0, <1>1, <1>6, <2>1, CallerGoes
  <1>7. CASE TryReserve
    <2>1. CASE active.ts # 0
      BY <1>3, <1>4, <1>5, <1>6, <1>7, <2>1 DEF TryReserve, RefuseIdle
    <2>2. CASE active.ts = 0
      <3> DEFINE ts == NewState
      <3>1. /\ active' = [task |-> 0, ts |-> NewState] /\ nstates' = NewState
            /\ call' = [call EXCEPT !["ext"].ts = ts, !["ext"].pc = "recheck"]
            /\ call["ext"].pc = "tryReserve"
            /\ UNCHANGED <<where, nturns, nops, op, phase, turn, log>>
        BY <1>7, <2>2 DEF TryReserve
      <3>2. /\ active' \in ActiveRecord /\ active'.task = 0 /\ nstates' = nstates + 1
            /\ ts \in States
        BY <1>0, <1>4, <3>1, ReserveTyped
      <3> HIDE DEF ts
      <3> DEFINE r == [[call["ext"] EXCEPT !.ts = ts] EXCEPT !.pc = "recheck"]
      <3>3. r \in CallerRecord /\ r.pc = "recheck" /\ r.ts = ts
        BY <1>1, <3>2 DEF CallerRecord, CallPcs
      <3>4. call' = [call EXCEPT !["ext"] = r]
        BY <1>0, <1>1, <3>1
      <3> HIDE DEF r
      <3>5. /\ nturns' \in Nat
            /\ nturns' + TurnsLeft(r.pc) <= nturns + TurnsLeft(call["ext"].pc)
            /\ nstates' \in Nat
            /\ nstates' + StatesLeft(r.pc) <= nstates + StatesLeft(call["ext"].pc)
            /\ r.ts # 0
        BY <1>1, <1>4, <3>1, <3>2, <3>3 DEF States
      <3> QED
        BY <1>0, <1>1, <3>1, <3>2, <3>3, <3>4, <3>5, CallerMoves
    <2> QED
      BY <2>1, <2>2
  <1>8. CASE Recheck
    <2>1. CASE RefuseIdle("maybe") /\ active' = IF StillReserved THEN NoTurn ELSE active
      BY <1>3, <1>4, <1>5, <1>6, <1>8, <2>1 DEF Recheck, RefuseIdle
    <2>2. CASE call' = Goto("ext", "confirm") /\ UNCHANGED <<active, where>>
      BY <1>1, <1>3, <1>4, <1>5, <1>6, <1>8, <2>2 DEF Recheck
    <2> QED
      BY <1>8, <2>1, <2>2 DEF Recheck
  <1>9. CASE Confirm
    <2>1. PICK p \in {"give", "unreserve"} : call' = Goto("ext", p)
      BY <1>9 DEF Confirm
    <2>2. call["ext"].pc = "confirm" /\ active' \in {active, NoTurn}
          /\ UNCHANGED <<nstates, nturns, nops, op, where, phase, turn, log>>
      BY <1>9 DEF Confirm
    <2>3. /\ p \in CallPcs /\ (p \in WithState => call["ext"].pc \in WithState)
          /\ TurnsLeft(p) <= TurnsLeft(call["ext"].pc)
          /\ StatesLeft(p) <= StatesLeft(call["ext"].pc)
      BY <1>3, <1>4, <1>5, <2>2
    <2> QED
      BY <1>1, <1>6, <2>1, <2>2, <2>3
  <1>10. CASE Unreserve
    BY <1>3, <1>4, <1>5, <1>6, <1>10 DEF Unreserve, RefuseIdle
  <1>11. CASE Give
    <2>1. call["ext"].pc = "give" /\ call["ext"].ts \in States
      BY <1>0, <1>1, <1>5, <1>11 DEF Give, TypeInv, StateInHand, CallerRecord
    <2>2. where' \in [Items -> Places]
      BY <1>11, <2>1, MovedTyped, PlacesNamed DEF Give
    <2> QED
      BY <1>3, <1>4, <1>5, <1>6, <1>11, <2>1, <2>2 DEF Give
  <1> QED
    BY <1>7, <1>8, <1>9, <1>10, <1>11 DEF ExtStep

-----------------------------------------------------------------------------
(* A step of a task.                                                       *)
LEMMA TaskMovesTyped ==
  ASSUME TypeInv, NEW t \in Turns, NEW r \in TaskRecord, turn' = [turn EXCEPT ![t] = r],
         active' \in ActiveRecord, active'.ts = 0 => active'.task = 0,
         where' \in [Items -> Places], phase' \in [States -> Phases],
         log' \in [Turns -> Seq(LogEvents)], TaskUnchanged
  PROVE  TypeInv'
  <1>1. UNCHANGED <<nstates, nturns, nops, op, call>>
    BY DEF TaskUnchanged
  <1>2. turn' \in [Turns -> TaskRecord]
    BY Types
  <1>3. /\ nstates' \in 0 .. 4 * MaxOps /\ nturns' \in 0 .. MaxOps /\ nops' \in 0 .. MaxOps
        /\ op' \in [Items -> Ops \cup {"none"}] /\ call' \in [Callers -> CallerRecord]
    BY <1>1 DEF TypeInv, TypeOK, CallerRecord
  <1>4. TypeOK'
    BY <1>2, <1>3 DEF TypeOK, TaskRecord, CallerRecord, ActiveRecord, Phases, LogEvents
  <1>5. TurnsOwed' = TurnsOwed /\ StatesOwed' = StatesOwed /\ (StateInHand' <=> StateInHand)
    BY <1>1 DEF TurnsOwed, StatesOwed, StateInHand
  <1> QED
    BY <1>1, <1>4, <1>5 DEF TypeInv

(* The records that the steps of a task leave behind.                      *)
LEMMA TaskRecordsTyped ==
  ASSUME TypeInv, NEW t \in Turns
  PROVE  /\ \A p \in TurnPcs : [turn[t] EXCEPT !.pc = p] \in TaskRecord
         /\ \A p \in TurnPcs, b \in BOOLEAN :
              /\ [[turn[t] EXCEPT !.canDrain = b] EXCEPT !.pc = p] \in TaskRecord
              /\ [[turn[t] EXCEPT !.pc = p] EXCEPT !.canDrain = b] \in TaskRecord
              /\ [[turn[t] EXCEPT !.pc = p] EXCEPT !.followUp = b] \in TaskRecord
         /\ \A p \in TurnPcs, f \in 0 .. MaxFuel :
              [[turn[t] EXCEPT !.pc = p] EXCEPT !.fuel = f] \in TaskRecord
         /\ \A p \in TurnPcs, b \in BOOLEAN, f \in 0 .. MaxFuel :
              /\ [[[turn[t] EXCEPT !.pc = p] EXCEPT !.followUp = b] EXCEPT !.fuel = f] \in TaskRecord
              /\ [[[turn[t] EXCEPT !.pc = p] EXCEPT !.canDrain = b] EXCEPT !.fuel = f] \in TaskRecord
         /\ \A p \in TurnPcs, ts \in States \cup {0} :
              [[turn[t] EXCEPT !.ts = ts] EXCEPT !.pc = p] \in TaskRecord
  <1>1. turn[t] \in TaskRecord
    BY Types
  <1> QED
    BY <1>1 DEF TaskRecord

LEMMA TaskGoesTyped ==
  ASSUME TypeInv, NEW t \in Turns, NEW p \in TurnPcs, turn' = Step(t, p),
         active' \in ActiveRecord, active'.ts = 0 => active'.task = 0,
         where' \in [Items -> Places], phase' \in [States -> Phases],
         log' \in [Turns -> Seq(LogEvents)], TaskUnchanged
  PROVE  TypeInv'
  <1> DEFINE r == [turn[t] EXCEPT !.pc = p]
  <1>1. r \in TaskRecord /\ turn' = [turn EXCEPT ![t] = r]
    BY TaskRecordsTyped DEF Step
  <1> HIDE DEF r
  <1> QED
    BY <1>1, TaskMovesTyped

LEMMA TaskKeepsTypes ==
  ASSUME TypeInv, NEW t \in Turns, TaskStep(t)
  PROVE  TypeInv'
  <1>1. /\ active \in ActiveRecord /\ (active.ts = 0 => active.task = 0)
        /\ where \in [Items -> Places] /\ phase \in [States -> Phases]
        /\ log \in [Turns -> Seq(LogEvents)] /\ turn \in [Turns -> TaskRecord]
    BY Types
  <1>f. turn[t].fuel \in 0 .. MaxFuel /\ MaxFuel \in Nat
    BY <1>1, TurnAssumption DEF TaskRecord
  <1>2. /\ \A S : Moved(S, Dropped) \in [Items -> Places]
        /\ \A S : Moved(S, LocalOf(t)) \in [Items -> Places]
    BY MovedTyped, PlacesNamed
  <1>3. \A S, B : Record(S, B) => where' \in [Items -> Places]
    BY RecordTyped
  <1>4. ASSUME NEW r \in TaskRecord, turn' = [turn EXCEPT ![t] = r],
               where' \in [Items -> Places], phase' \in [States -> Phases],
               log' = log, active' = active, TaskUnchanged
        PROVE  TypeInv'
    BY <1>1, <1>4, TaskMovesTyped
  <1>5. ASSUME NEW p \in TurnPcs, turn' = Step(t, p), where' \in [Items -> Places],
               log' \in [Turns -> Seq(LogEvents)], phase' = phase, active' = active, TaskUnchanged
        PROVE  TypeInv'
    BY <1>1, <1>5, TaskGoesTyped
  <1>6. CASE BeginTask(t)
    <2>1. PICK p \in {"run", "work", "flush"} : turn' = Step(t, p)
      BY <1>6 DEF BeginTask
    <2>2. where' \in [Items -> Places] /\ phase' = phase /\ active' = active /\ TaskUnchanged
      BY <1>1, <1>2, <1>6 DEF BeginTask
    <2>3. log' \in [Turns -> Seq(LogEvents)]
      BY <1>1, <1>6, LogTyped DEF BeginTask, LogEvents
    <2>4. p \in TurnPcs
      BY DEF TurnPcs
    <2> QED
      BY <1>5, <2>1, <2>2, <2>3, <2>4
  <1>7. CASE StandaloneWork(t)
    BY <1>1, <1>5, <1>7 DEF StandaloneWork, TurnPcs
  <1>8. CASE RunTurn(t)
    <2>0. phase' = phase /\ log' = log /\ active' = active /\ TaskUnchanged
      BY <1>8 DEF RunTurn
    <2>1. ASSUME NEW B, Record(At(InputOf(t)), B), NEW b \in BOOLEAN, NEW p \in TurnPcs,
                 turn' = [turn EXCEPT ![t].canDrain = b, ![t].pc = p]
          PROVE  TypeInv'
      <3> DEFINE r == [[turn[t] EXCEPT !.canDrain = b] EXCEPT !.pc = p]
      <3>1. r \in TaskRecord /\ turn' = [turn EXCEPT ![t] = r]
        BY <1>1, <2>1, TaskRecordsTyped
      <3> HIDE DEF r
      <3> QED
        BY <1>1, <1>3, <1>4, <2>0, <2>1, <3>1
    <2>2. ASSUME where' = Moved(At(InputOf(t)), Dropped), turn' = Step(t, "outer")
          PROVE  TypeInv'
      BY <1>1, <1>2, <1>5, <2>0, <2>2 DEF TurnPcs
    <2> DEFINE S == At(InputOf(t))
    <2>3. CASE \E B \in SUBSET Prompts(S) :
                 /\ Record(S, B)
                 /\ turn' = [turn EXCEPT ![t].canDrain = (S = {}),
                                ![t].pc = IF Stops(S, B) THEN "outer" ELSE "drain"]
      <3>1. PICK B \in SUBSET Prompts(S) :
                 /\ Record(S, B)
                 /\ turn' = [turn EXCEPT ![t].canDrain = (S = {}),
                                ![t].pc = IF Stops(S, B) THEN "outer" ELSE "drain"]
        BY <2>3
      <3> DEFINE b == (S = {})
                 p == IF Stops(S, B) THEN "outer" ELSE "drain"
      <3>2. b \in BOOLEAN /\ p \in TurnPcs /\ turn' = [turn EXCEPT ![t].canDrain = b, ![t].pc = p]
        BY <3>1 DEF TurnPcs
      <3> HIDE DEF b, p
      <3> QED
        BY <2>1, <3>1, <3>2
    <2> QED
      BY <1>8, <2>2, <2>3 DEF RunTurn
  <1>9. CASE DrainPendingInput(t)
    <2>1. where' \in [Items -> Places]
      BY <1>1, <1>2, <1>9 DEF DrainPendingInput
    <2> QED
      BY <1>1, <1>5, <1>9, <2>1 DEF DrainPendingInput, TurnPcs
  <1>10. CASE RecordInputs(t)
    <2>1. PICK p \in {"outer", "sample"} : turn' = Step(t, p)
      BY <1>10 DEF RecordInputs
    <2>2. where' \in [Items -> Places]
      BY <1>3, <1>10 DEF RecordInputs
    <2>3. p \in TurnPcs /\ phase' = phase /\ log' = log /\ active' = active /\ TaskUnchanged
      BY <1>10 DEF RecordInputs, TurnPcs
    <2> QED
      BY <1>1, <1>5, <2>1, <2>2, <2>3
  <1>11. /\ Accepted(t) \in [States -> Phases]
         /\ \A ph \in [States -> Phases] : Deferred(ph, t) \in [States -> Phases]
    BY <1>1 DEF Accepted, Deferred, Phases
  <1>12. CASE FinalAnswer(t)
    <2> DEFINE r == [[turn[t] EXCEPT !.pc = "sampled"] EXCEPT !.followUp = FALSE]
    <2>1. r \in TaskRecord
      BY TaskRecordsTyped DEF TurnPcs
    <2>2. turn' = [turn EXCEPT ![t] = r]
      BY <1>1, <1>12 DEF FinalAnswer
    <2>3. phase' \in [States -> Phases]
      BY <1>1, <1>11, <1>12 DEF FinalAnswer
    <2> HIDE DEF r
    <2> QED
      BY <1>1, <1>4, <1>12, <2>1, <2>2, <2>3 DEF FinalAnswer
  <1>13. CASE ToolCall(t)
    <2> DEFINE f == turn[t].fuel - 1
               r == [[[turn[t] EXCEPT !.pc = "sampled"] EXCEPT !.followUp = TRUE] EXCEPT !.fuel = f]
    <2>1. f \in 0 .. MaxFuel
      BY <1>13, <1>f DEF ToolCall
    <2>2. turn' = [turn EXCEPT ![t] = r]
      BY <1>1, <1>13 DEF ToolCall
    <2> HIDE DEF f
    <2>3. r \in TaskRecord
      BY <2>1, TaskRecordsTyped DEF TurnPcs
    <2>4. phase' \in [States -> Phases]
      BY <1>1, <1>11, <1>13 DEF ToolCall
    <2> HIDE DEF r
    <2> QED
      BY <1>1, <1>4, <1>13, <2>2, <2>3, <2>4 DEF ToolCall
  <1>14. CASE RetryWithoutImages(t)
    <2> DEFINE f == turn[t].fuel - 1
               r == [[turn[t] EXCEPT !.pc = "drain"] EXCEPT !.fuel = f]
    <2>1. f \in 0 .. MaxFuel
      BY <1>14, <1>f DEF RetryWithoutImages
    <2>2. turn' = [turn EXCEPT ![t] = r]
      BY <1>1, <1>14 DEF RetryWithoutImages
    <2> HIDE DEF f
    <2>3. r \in TaskRecord
      BY <2>1, TaskRecordsTyped DEF TurnPcs
    <2> HIDE DEF r
    <2> QED
      BY <1>1, <1>4, <1>14, <2>2, <2>3 DEF RetryWithoutImages
  <1>15. CASE SamplingFails(t)
    BY <1>1, <1>5, <1>15 DEF SamplingFails, TurnPcs
  <1>16. CASE AfterSampling(t)
    <2>0. /\ where' = where /\ phase' = phase /\ log' = log /\ active' = active
          /\ TaskUnchanged
      BY <1>16 DEF AfterSampling
    <2>1. ASSUME NEW p \in {"drain", "outer"}, NEW b \in BOOLEAN,
                 turn' = [turn EXCEPT ![t].pc = p, ![t].canDrain = b]
          PROVE  TypeInv'
      <3> DEFINE r == [[turn[t] EXCEPT !.pc = p] EXCEPT !.canDrain = b]
      <3>1. r \in TaskRecord /\ turn' = [turn EXCEPT ![t] = r]
        BY <1>1, <2>1, TaskRecordsTyped DEF TurnPcs
      <3> HIDE DEF r
      <3> QED
        BY <1>1, <1>4, <2>0, <3>1
    <2>2. ASSUME turn[t].fuel > 0,
                 turn' = [turn EXCEPT ![t].pc = "drain", ![t].canDrain = TRUE, ![t].fuel = @ - 1]
          PROVE  TypeInv'
      <3> DEFINE f == turn[t].fuel - 1
                 r == [[[turn[t] EXCEPT !.pc = "drain"] EXCEPT !.canDrain = TRUE] EXCEPT !.fuel = f]
      <3>1. f \in 0 .. MaxFuel
        BY <2>2, <1>f
      <3>2. turn' = [turn EXCEPT ![t] = r]
        BY <1>1, <2>2
      <3> HIDE DEF f
      <3>3. r \in TaskRecord
        BY <3>1, TaskRecordsTyped DEF TurnPcs
      <3> HIDE DEF r
      <3> QED
        BY <1>1, <1>4, <2>0, <3>2, <3>3
    <2>3. (~turn[t].followUp) \in BOOLEAN
      OBVIOUS
    <2> QED
      BY <1>16, <2>1, <2>2, <2>3 DEF AfterSampling
  <1>17. CASE RunAgain(t)
    <2>1. PICK p \in {"run", "flush"} : turn' = Step(t, p)
      BY <1>17 DEF RunAgain
    <2> QED
      BY <1>1, <1>5, <1>17, <2>1 DEF RunAgain, TurnPcs
  <1>18. CASE FlushRollout(t)
    <2>1. PICK p \in {"done", "finish"} : turn' = Step(t, p)
      BY <1>18 DEF FlushRollout
    <2> QED
      BY <1>1, <1>5, <1>18, <2>1 DEF FlushRollout, TurnPcs
  <1>19. CASE TakeTask(t)
    <2>1. CASE HasTask
      <3> DEFINE ts == active.ts
                 r == [[turn[t] EXCEPT !.ts = ts] EXCEPT !.pc = "settle"]
      <3>1. turn' = [turn EXCEPT ![t] = r]
        BY <1>1, <1>19, <2>1 DEF TakeTask
      <3>2. ts \in States \cup {0}
        BY <1>1 DEF ActiveRecord
      <3> HIDE DEF ts
      <3>3. r \in TaskRecord
        BY <3>2, TaskRecordsTyped DEF TurnPcs
      <3> HIDE DEF r
      <3>4. active' = [active EXCEPT !.task = 0]
        BY <1>19, <2>1 DEF TakeTask
      <3>5. active' \in ActiveRecord /\ active'.task = 0
        BY <1>1, <3>4 DEF ActiveRecord
      <3>6. where' = where /\ phase' = phase /\ log' = log /\ TaskUnchanged
        BY <1>19 DEF TakeTask
      <3> QED
        BY <1>1, <3>1, <3>3, <3>5, <3>6, TaskMovesTyped
    <2>2. CASE ~HasTask
      BY <1>1, <1>5, <1>19, <2>2 DEF TakeTask, TurnPcs
    <2> QED
      BY <2>1, <2>2
  <1>20. CASE SettleInput(t)
    <2>1. where' \in [Items -> Places]
      BY <1>3, <1>20 DEF SettleInput
    <2> QED
      BY <1>1, <1>5, <1>20, <2>1 DEF SettleInput, TurnPcs
  <1>21. CASE SendTurnComplete(t)
    <2>1. log' \in [Turns -> Seq(LogEvents)]
      BY <1>21, LogTyped DEF SendTurnComplete, LogEvents
    <2> QED
      BY <1>1, <1>5, <1>21, <2>1 DEF SendTurnComplete, TurnPcs
  <1>22. CASE ClearActiveTurn(t)
    <2>1. active' \in ActiveRecord /\ (active'.ts = 0 => active'.task = 0)
      BY <1>1, <1>22 DEF ClearActiveTurn, NoTurn, ActiveRecord
    <2> QED
      BY <1>1, <1>22, <2>1, TaskGoesTyped DEF ClearActiveTurn, TurnPcs
  <1> QED
    BY <1>6, <1>7, <1>8, <1>9, <1>10, <1>12, <1>13, <1>14, <1>15, <1>16, <1>17, <1>18, <1>19,
       <1>20, <1>21, <1>22 DEF TaskStep

LEMMA LateKeepsTypes ==
  ASSUME TypeInv, NEW t \in Turns, LateStep(t)
  PROVE  TypeInv'
  <1>1. /\ active \in ActiveRecord /\ (active.ts = 0 => active.task = 0)
        /\ where \in [Items -> Places] /\ phase \in [States -> Phases]
        /\ turn \in [Turns -> TaskRecord] /\ log \in [Turns -> Seq(LogEvents)]
    BY Types
  <1>2. /\ turn' = Step(t, "late") \/ turn' = Step(t, "dead")
        /\ active' = active /\ phase' = phase /\ TaskUnchanged
    <2>1. turn[t].pc = "late" => turn = Step(t, "late")
      BY <1>1 DEF Step, TaskRecord
    <2> QED
      BY <2>1 DEF LateStep, LateStart, LateDrain, LateRecord, PollEnds
  <1>3. where' \in [Items -> Places]
    BY <1>1, MovedTyped, RecordTyped, PlacesNamed
    DEF LateStep, LateStart, LateDrain, LateRecord, PollEnds
  <1>4. log' \in [Turns -> Seq(LogEvents)]
    <2>1. CASE LateStart(t)
      BY <1>1, <2>1, LogTyped DEF LateStart, LogEvents
    <2>2. CASE ~LateStart(t)
      BY <1>1, <2>2 DEF LateStep, LateDrain, LateRecord, PollEnds
    <2> QED
      BY <2>1, <2>2
  <1>5. "late" \in TurnPcs /\ "dead" \in TurnPcs
    BY DEF TurnPcs
  <1> QED
    BY <1>1, <1>2, <1>3, <1>4, <1>5, TaskGoesTyped

LEMMA NextKeepsTypes == TypeInv /\ [Next]_vars => TypeInv'
  <1> SUFFICES ASSUME TypeInv, [Next]_vars PROVE TypeInv'
    OBVIOUS
  <1>1. CASE Operation
    BY <1>1, OperationKeepsTypes
  <1>2. CASE ExtStep
    BY <1>2, ExtKeepsTypes
  <1>3. CASE \E a \in Callers : CallerStep(a)
    BY <1>3, CallerKeepsTypes
  <1>4. CASE \E t \in Turns : TaskStep(t)
    BY <1>4, TaskKeepsTypes
  <1>5. ASSUME NEW t \in Turns, GuardianDenial(t)
        PROVE  TypeInv'
    <2>1. /\ NewOp("guard") /\ call["guard"].pc = "idle"
          /\ call' = [call EXCEPT !["guard"] = Call("abortIf", t, "Regular", "Interrupted")]
          /\ UNCHANGED <<active, nstates, nturns, where, phase, turn, log>>
      BY <1>5 DEF GuardianDenial
    <2>2. /\ "guard" \in Callers /\ "abortIf" \in CallPcs \ WithState
          /\ "Regular" \in TurnKinds /\ "Interrupted" \in Reasons /\ t \in Turns \cup {0}
      BY DEF Callers, CallPcs, WithState, TurnKinds, Reasons
    <2>3. where' \in [Items -> Places] /\ phase' \in [States -> Phases]
      BY <2>1, Types
    <2> QED
      BY <2>1, <2>2, <2>3, OperationBegins
  <1>6. CASE UNCHANGED vars
    BY <1>6 DEF vars, TypeInv, TypeOK, TurnsOwed, StatesOwed, StateInHand
  <1>7. CASE \E t \in Turns : LateStep(t)
    BY <1>7, LateKeepsTypes
  <1> QED
    BY <1>1, <1>2, <1>3, <1>4, <1>5, <1>6, <1>7 DEF Next, Waiting

(* With every actor, and for any number of operations: an operation never  *)
(* starts more than one turn nor creates more than four turn states,       *)
(* however reservations, aborts and starts by the loop, the guardian and   *)
(* extensions cross; an active task has a turn state; and every item of    *)
(* input is in one of the places that the code knows.                      *)
THEOREM TurnTypes == Spec => []TypeOK
  <1>1. TypeInv => TypeOK
    BY DEF TypeInv
  <1> QED
    BY <1>1, TypesInit, NextKeepsTypes, PTL DEF Spec

=============================================================================
