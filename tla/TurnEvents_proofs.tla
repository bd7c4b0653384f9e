-------------------------- MODULE TurnEvents_proofs --------------------------
(***************************************************************************)
(* What the session and a client may rely on in the life of a turn, for    *)
(* any number of operations and any length of a turn.  Whoever starts and  *)
(* stops turns, the submission loop, the guardian's circuit breaker        *)
(* outside the loop or an extension when the thread is idle, the installed *)
(* task is one that runs.  And when the submission loop alone does, each   *)
(* turn has at most one start and one end, and no turn stays active for    *)
(* ever.  A task that an abort found in the middle of a poll may be late.  *)
(***************************************************************************)
EXTENDS TurnLifecycle_proofs

Events == {"started", "complete", "aborted"}

(* Turns are numbered as they are installed, so nobody names a turn that   *)
(* is still to come; and a caller that is about to report an abort has     *)
(* aborted the task: it is over, or late.                                  *)
AbortTypes ==
    /\ nturns \in Nat /\ nstates \in Nat
    /\ active \in [task : Nat, ts : Nat]
    /\ turn \in [Turns -> TurnRecord]
    /\ call \in [Callers -> CallRecord]
    /\ log \in [Turns -> Seq(Events)]
NoneToCome ==
    /\ active.task <= nturns
    /\ \A a \in Callers : call[a].turn <= nturns
    /\ \A t \in Turns : t > nturns => turn[t].pc = "none" /\ log[t] = <<>>
SeenToStop ==
    \A a \in Callers : \A t \in Turns :
        call[a].pc = "emit" /\ call[a].turn = t => turn[t].pc \in Over
AbortInv == AbortTypes /\ NoneToCome /\ SeenToStop

LEMMA AbortInit == Init => AbortInv
  <1> SUFFICES ASSUME Init PROVE AbortInv
    OBVIOUS
  <1> USE TurnAssumption
  <1>1. AbortTypes
    BY DEF Init, AbortTypes, NoTurn, Task, Call, TurnRecord, CallRecord, TurnPcs,
           TurnKinds, CallPcs, Reasons, Turns, Callers
  <1>2. NoneToCome
    BY DEF Init, NoneToCome, NoTurn, Task, Call
  <1>3. SeenToStop
    BY DEF Init, SeenToStop, Call
  <1> QED
    BY <1>1, <1>2, <1>3 DEF AbortInv

-----------------------------------------------------------------------------
(* In a step: every turn keeps its place or stops, and a caller whose      *)
(* record becomes r reports only a turn that stopped.                      *)
StaysOrStops ==
    \A t \in Turns : \/ turn'[t].pc = turn[t].pc
                     \/ turn'[t].pc \in Over /\ t <= nturns
MayReport(r) ==
    \A t \in Turns : r.pc = "emit" /\ r.turn = t => turn'[t].pc \in Over

(* A caller changes its own record only, and gets to its report only with  *)
(* the task stopped; turns keep their places or stop; the active turn      *)
(* keeps its task or loses it.                                             *)
LEMMA CallMoves ==
  ASSUME AbortInv, NEW a \in Callers, NEW r \in CallRecord,
         call' = [call EXCEPT ![a] = r], r.turn <= nturns,
         turn' \in [Turns -> TurnRecord], StaysOrStops, MayReport(r),
         active' \in [task : Nat, ts : Nat], active'.task \in {active.task, 0},
         nstates' \in Nat, UNCHANGED <<log, nturns>>
  PROVE  AbortInv'
  <1>1. /\ call' \in [Callers -> CallRecord] /\ call'[a] = r
        /\ \A b \in Callers : b # a => call'[b] = call[b]
    BY DEF AbortInv, AbortTypes
  <1>2. AbortTypes'
    BY <1>1 DEF AbortInv, AbortTypes
  <1>3. NoneToCome'
    <2>1. ASSUME NEW t \in Turns, t > nturns
          PROVE  turn'[t].pc = "none" /\ log[t] = <<>>
      <3>1. ~(t <= nturns)
        BY <2>1, TurnAssumption DEF AbortInv, AbortTypes, Turns
      <3> QED
        BY <2>1, <3>1 DEF AbortInv, NoneToCome, StaysOrStops
    <2>2. active'.task <= nturns /\ \A b \in Callers : call'[b].turn <= nturns
      BY <1>1 DEF AbortInv, AbortTypes, NoneToCome
    <2> QED
      BY <2>1, <2>2 DEF NoneToCome
  <1>4. SeenToStop'
    <2>1. ASSUME NEW b \in Callers, NEW t \in Turns, call'[b].pc = "emit", call'[b].turn = t
          PROVE  turn'[t].pc \in Over
      <3>1. CASE b = a
        BY <1>1, <2>1, <3>1 DEF MayReport
      <3>2. CASE b # a
        BY <1>1, <2>1, <3>2 DEF AbortInv, SeenToStop, StaysOrStops
      <3> QED
        BY <3>1, <3>2
    <2> QED
      BY <2>1 DEF SeenToStop
  <1> QED
    BY <1>2, <1>3, <1>4 DEF AbortInv

(* The same when only the program counter moves.                           *)
LEMMA GotoRecord ==
  ASSUME AbortInv, NEW a \in Callers, NEW p \in CallPcs, call' = Goto(a, p)
  PROVE  \E r \in CallRecord : /\ call' = [call EXCEPT ![a] = r]
                               /\ r.pc = p /\ r.turn = call[a].turn
  <1> DEFINE r == [call[a] EXCEPT !.pc = p]
  <1>1. call[a] \in CallRecord
    BY DEF AbortInv, AbortTypes
  <1>2. r \in CallRecord /\ r.pc = p /\ r.turn = call[a].turn
    BY <1>1 DEF CallRecord
  <1>3. call' = [call EXCEPT ![a] = r]
    BY DEF Goto
  <1> HIDE DEF r
  <1> QED
    BY <1>2, <1>3

LEMMA CallGoes ==
  ASSUME AbortInv, NEW a \in Callers, NEW p \in CallPcs, call' = Goto(a, p), p # "emit",
         active' \in [task : Nat, ts : Nat], active'.task \in {active.task, 0},
         nstates' \in Nat, UNCHANGED <<turn, log, nturns>>
  PROVE  AbortInv'
  <1>1. PICK r \in CallRecord : /\ call' = [call EXCEPT ![a] = r]
                                /\ r.pc = p /\ r.turn = call[a].turn
    BY GotoRecord
  <1>2. r.turn <= nturns /\ turn' \in [Turns -> TurnRecord]
    BY <1>1 DEF AbortInv, AbortTypes, NoneToCome
  <1>3. StaysOrStops /\ MayReport(r)
    BY <1>1 DEF StaysOrStops, MayReport
  <1> QED
    BY <1>1, <1>2, <1>3, CallMoves

(* Nothing the invariant is about changes.                                 *)
LEMMA AbortUnmoved ==
  ASSUME AbortInv, UNCHANGED <<active, turn, nturns, nstates, log, call>>
  PROVE  AbortInv'
  BY DEF AbortInv, AbortTypes, NoneToCome, SeenToStop

(* A caller takes up an operation, or the guardian an abort of turn t.     *)
LEMMA CallBegins ==
  ASSUME AbortInv, NEW a \in Callers, NEW p \in CallPcs, NEW t \in Nat,
         NEW k \in TurnKinds, NEW r \in Reasons, p # "emit", t <= nturns,
         call' = [call EXCEPT ![a] = Call(p, t, k, r)],
         UNCHANGED <<active, turn, nturns, nstates, log>>
  PROVE  AbortInv'
  <1>1. /\ Call(p, t, k, r) \in CallRecord
        /\ Call(p, t, k, r).pc = p /\ Call(p, t, k, r).turn = t
    BY DEF Call, CallRecord
  <1>2. /\ active \in [task : Nat, ts : Nat] /\ nstates \in Nat
        /\ turn \in [Turns -> TurnRecord]
    BY DEF AbortInv, AbortTypes
  <1> DEFINE c == Call(p, t, k, r)
  <1>3. StaysOrStops /\ MayReport(c)
    BY <1>1 DEF StaysOrStops, MayReport
  <1> HIDE DEF c
  <1>4. c \in CallRecord /\ c.turn <= nturns /\ call' = [call EXCEPT ![a] = c]
    BY <1>1 DEF c
  <1> QED
    BY <1>2, <1>3, <1>4, CallMoves

LEMMA OperationKeepsAborts ==
  ASSUME AbortInv, Operation
  PROVE  AbortInv'
  <1>a. ASSUME NEW a \in Callers, NEW p \in {"abort", "maybe", "tryReserve"},
               NEW k \in TurnKinds, NEW r \in Reasons,
               call' = [call EXCEPT ![a] = Call(p, 0, k, r)],
               UNCHANGED <<active, turn, nturns, nstates, log>>
        PROVE  AbortInv'
    <2>1. p \in CallPcs /\ p # "emit" /\ 0 <= nturns /\ 0 \in Nat
      BY DEF CallPcs, AbortInv, AbortTypes
    <2> QED
      BY <1>a, <2>1, CallBegins
  <1>1. UNCHANGED <<active, turn, nturns, nstates, log>>
    BY DEF Operation, UserInput, SteerRequest, StandaloneTask, Interrupt,
           InterAgentCommunication, Inject, TryStartTurnIfIdle
  <1>2. \/ call' = call
        \/ \E a \in Callers, p \in {"abort", "maybe", "tryReserve"}, k \in TurnKinds,
              r \in Reasons : call' = [call EXCEPT ![a] = Call(p, 0, k, r)]
    <2>0. "loop" \in Callers /\ "ext" \in Callers
      BY DEF Callers
    <2>1. CASE UserInput
      BY <2>0, <2>1 DEF UserInput, TurnKinds, Reasons
    <2>2. CASE SteerRequest
      BY <2>2 DEF SteerRequest
    <2>3. CASE StandaloneTask
      <3>1. \A k \in {"compact", "review", "shell"} : KindOf(k) \in TurnKinds
        BY DEF KindOf, TurnKinds
      <3> QED
        BY <2>0, <2>3, <3>1 DEF StandaloneTask, Reasons
    <2>4. CASE Interrupt
      BY <2>0, <2>4 DEF Interrupt, TurnKinds, Reasons
    <2>5. CASE InterAgentCommunication
      BY <2>0, <2>5 DEF InterAgentCommunication, TurnKinds, Reasons
    <2>6. CASE Inject
      BY <2>6 DEF Inject
    <2>7. CASE TryStartTurnIfIdle
      BY <2>0, <2>7 DEF TryStartTurnIfIdle, TurnKinds, Reasons
    <2> QED
      BY <2>1, <2>2, <2>3, <2>4, <2>5, <2>6, <2>7 DEF Operation
  <1> QED
    BY <1>1, <1>2, <1>a, AbortUnmoved

-----------------------------------------------------------------------------
(* handle_task_abort cancels a task and waits: no task changes its place.  *)
LEMMA CancelKeepsAborts ==
  ASSUME AbortInv, NEW a \in Callers, CancelTask(a, active.task), active' = NoTurn,
         UNCHANGED <<nturns, nstates, log>>
  PROVE  AbortInv'
  <1> DEFINE t == active.task
  <1>1. /\ turn \in [Turns -> TurnRecord] /\ call[a] \in CallRecord
        /\ call \in [Callers -> CallRecord]
        /\ t \in Nat /\ active.ts \in Nat /\ t <= nturns /\ nstates \in Nat
    BY DEF AbortInv, AbortTypes, NoneToCome
  <1>2. PICK p \in {"drop", "kill"} :
           call' = [call EXCEPT ![a].turn = t, ![a].ts = active.ts, ![a].pc = p]
    BY DEF CancelTask
  <1>3. turn' = [turn EXCEPT ![t].cancelled = TRUE]
    BY DEF CancelTask
  <1> HIDE DEF t
  <1>4. turn' \in [Turns -> TurnRecord] /\ \A u \in Turns : turn'[u].pc = turn[u].pc
    <2>1. CASE t \in Turns
      <3> DEFINE r == [turn[t] EXCEPT !.cancelled = TRUE]
      <3>1. r \in TurnRecord /\ r.pc = turn[t].pc
        BY <1>1, <2>1 DEF TurnRecord
      <3>2. turn' = [turn EXCEPT ![t] = r]
        BY <1>3
      <3> HIDE DEF r
      <3> QED
        BY <1>1, <2>1, <3>1, <3>2
    <2>2. CASE t \notin Turns
      BY <1>1, <1>3, <2>2
    <2> QED
      BY <2>1, <2>2
  <1> DEFINE r == [[[call[a] EXCEPT !.turn = t] EXCEPT !.ts = active.ts] EXCEPT !.pc = p]
  <1>5. r \in CallRecord /\ r.pc = p /\ r.turn = t
    BY <1>1 DEF CallRecord, CallPcs
  <1>6. call' = [call EXCEPT ![a] = r]
    BY <1>1, <1>2
  <1>7. active' \in [task : Nat, ts : Nat] /\ active'.task = 0
    BY DEF NoTurn
  <1> HIDE DEF r
  <1>8. StaysOrStops /\ MayReport(r)
    BY <1>4, <1>5 DEF StaysOrStops, MayReport
  <1>9. r.turn <= nturns /\ active'.task \in {active.task, 0} /\ nstates' \in Nat
    BY <1>1, <1>5, <1>7
  <1> QED
    BY <1>4, <1>5, <1>6, <1>7, <1>8, <1>9, CallMoves

(* A turn that is aborted keeps its record but for its place.              *)
LEMMA AbortedTurn ==
  ASSUME turn \in [Turns -> TurnRecord], NEW t, NEW p \in AbortedPcs(t)
  PROVE  /\ Step(t, p) \in [Turns -> TurnRecord]
         /\ t \in Turns => Step(t, p)[t].pc = p /\ p \in Over
         /\ \A u \in Turns : u # t => Step(t, p)[u] = turn[u]
  <1>0. p \in Over /\ p \in TurnPcs
    BY AbortedOver
  <1>1. CASE t \in Turns
    <2> DEFINE r == [turn[t] EXCEPT !.pc = p]
    <2>1. r \in TurnRecord /\ r.pc = p
      BY <1>0, <1>1 DEF TurnRecord
    <2>2. Step(t, p) = [turn EXCEPT ![t] = r]
      BY DEF Step
    <2> HIDE DEF r
    <2> QED
      BY <1>0, <1>1, <2>1, <2>2
  <1>2. CASE t \notin Turns
    BY <1>2 DEF Step
  <1> QED
    BY <1>1, <1>2

LEMMA KillKeepsAborts ==
  ASSUME AbortInv, NEW a \in Callers, KillTask(a)
  PROVE  AbortInv'
  <1> DEFINE k == call[a].turn
  <1>0. PICK q \in AbortedPcs(k) : turn' = Step(k, q)
    BY DEF KillTask
  <1>1. /\ UNCHANGED <<active, nstates, nturns, log>>
        /\ \E p \in {"emit", "unqueue"} : call' = Goto(a, p)
    BY DEF KillTask
  <1>2. PICK r \in CallRecord : call' = [call EXCEPT ![a] = r] /\ r.turn = k
    BY <1>1, GotoRecord DEF CallPcs
  <1>3. turn \in [Turns -> TurnRecord] /\ k <= nturns /\ k \in Nat
    BY DEF AbortInv, AbortTypes, NoneToCome, CallRecord
  <1>4. active \in [task : Nat, ts : Nat] /\ nstates \in Nat
    BY DEF AbortInv, AbortTypes
  <1>5. /\ turn' \in [Turns -> TurnRecord]
        /\ k \in Turns => turn'[k].pc \in Over
        /\ \A u \in Turns : u # k => turn'[u] = turn[u]
    BY <1>0, <1>3, AbortedTurn
  <1> HIDE DEF k
  <1>6. StaysOrStops /\ MayReport(r)
    BY <1>2, <1>3, <1>5 DEF StaysOrStops, MayReport
  <1>7. /\ r.turn <= nturns /\ active'.task \in {active.task, 0} /\ nstates' \in Nat
        /\ active' \in [task : Nat, ts : Nat]
    BY <1>1, <1>2, <1>3, <1>4
  <1> QED
    BY <1>1, <1>2, <1>5, <1>6, <1>7, CallMoves

(* What a caller appends to the log of a turn leaves the others alone.     *)
LEMMA LogAppended ==
  ASSUME log \in [Turns -> Seq(Events)], NEW t, NEW e \in Events,
         log' = [log EXCEPT ![t] = Append(@, e)]
  PROVE  /\ log' \in [Turns -> Seq(Events)]
         /\ \A u \in Turns : u # t => log'[u] = log[u]
  <1>1. CASE t \in Turns
    <2>1. log[t] \in Seq(Events) /\ log'[t] = Append(log[t], e)
      BY <1>1
    <2>2. log'[t] \in Seq(Events) /\ Len(log'[t]) = Len(log[t]) + 1
          /\ log'[t][Len(log[t]) + 1] = e
          /\ \A k \in 1 .. Len(log[t]) : log'[t][k] = log[t][k]
      BY <2>1
    <2> QED
      BY <1>1, <2>2
  <1>2. CASE t \notin Turns
    BY <1>2
  <1> QED
    BY <1>1, <1>2

LEMMA EmitKeepsAborts ==
  ASSUME AbortInv, NEW a \in Callers, EmitTurnAborted(a)
  PROVE  AbortInv'
  <1> DEFINE k == call[a].turn
  <1>1. /\ call[a].pc = "emit" /\ log' = [log EXCEPT ![k] = Append(@, "aborted")]
        /\ call' = Goto(a, "unqueue") /\ UNCHANGED <<active, nstates, nturns, turn>>
    BY DEF EmitTurnAborted
  <1>2. PICK r \in CallRecord : call' = [call EXCEPT ![a] = r] /\ r.turn = k /\ r.pc = "unqueue"
    BY <1>1, GotoRecord DEF CallPcs
  <1>3. /\ call' \in [Callers -> CallRecord] /\ call'[a] = r
        /\ \A b \in Callers : b # a => call'[b] = call[b]
    BY <1>2 DEF AbortInv, AbortTypes
  <1>4. /\ log' \in [Turns -> Seq(Events)]
        /\ \A u \in Turns : u # k => log'[u] = log[u]
    BY <1>1, LogAppended DEF AbortInv, AbortTypes, Events
  <1>6. k <= nturns /\ k \in Nat /\ nturns \in Nat
    BY DEF AbortInv, AbortTypes, NoneToCome, CallRecord
  <1> HIDE DEF k
  <1>7. AbortTypes'
    BY <1>1, <1>3, <1>4 DEF AbortInv, AbortTypes
  <1>8. NoneToCome'
    <2>1. \A t \in Turns : t > nturns => turn[t].pc = "none" /\ log'[t] = <<>>
      <3> SUFFICES ASSUME NEW t \in Turns, t > nturns PROVE turn[t].pc = "none" /\ log'[t] = <<>>
        OBVIOUS
      <3>1. t # k
        BY <1>6, TurnAssumption DEF Turns
      <3> QED
        BY <1>4, <3>1 DEF AbortInv, NoneToCome
    <2>2. \A b \in Callers : call'[b].turn <= nturns
      BY <1>2, <1>3, <1>6 DEF AbortInv, NoneToCome
    <2>3. active.task <= nturns
      BY DEF AbortInv, NoneToCome
    <2> QED
      BY <1>1, <2>1, <2>2, <2>3 DEF NoneToCome
  <1>9. SeenToStop'
    BY <1>1, <1>2, <1>3 DEF AbortInv, SeenToStop
  <1> QED
    BY <1>7, <1>8, <1>9 DEF AbortInv

(* The step that numbers a turn: its number is new, so nobody names it.    *)
LEMMA InstallKeepsAborts ==
  ASSUME AbortInv, NEW a \in Callers, InstallTask(a)
  PROVE  AbortInv'
  <1> USE TurnAssumption
  <1> DEFINE n == nturns + 1
             old == active.task
  <1>0. PICK p \in IF old = 0 THEN {"none"} ELSE AbortedPcs(old) :
          turn' = [IF old = 0 THEN turn ELSE Step(old, p)
                     EXCEPT ![n] = Task("begin", call[a].kind)]
    BY DEF InstallTask
  <1> DEFINE rest == IF old = 0 THEN turn ELSE Step(old, p)
             new == Task("begin", call[a].kind)
  <1>1. /\ nturns' = n /\ active' = [get_or_insert EXCEPT !.task = n]
        /\ turn' = [rest EXCEPT ![n] = new]
        /\ nstates' = (IF active.ts # 0 THEN nstates ELSE NewState)
        /\ call' = Goto(a, Rest(a)) /\ log' = log
    BY <1>0 DEF InstallTask
  <1>2. /\ nturns \in Nat /\ old \in Nat /\ old <= nturns /\ nstates \in Nat
        /\ active \in [task : Nat, ts : Nat] /\ n \in Nat
        /\ turn \in [Turns -> TurnRecord] /\ call[a] \in CallRecord
    BY DEF AbortInv, AbortTypes, NoneToCome
  <1>3. PICK ts \in Nat, k \in Nat : get_or_insert = [task |-> k, ts |-> ts]
    BY <1>2 DEF get_or_insert, NewState
  <1>4. new \in TurnRecord
    BY <1>2 DEF Task, TurnRecord, CallRecord, TurnPcs
  <1>5. /\ rest \in [Turns -> TurnRecord]
        /\ \A u \in Turns : rest[u] = turn[u] \/ (rest[u].pc \in Over /\ u = old)
    BY <1>2, AbortedTurn
  <1>6. PICK r \in CallRecord : /\ call' = [call EXCEPT ![a] = r]
                                /\ r.pc \in {"idle", "closed"} /\ r.turn = call[a].turn
    BY <1>1, GotoRecord, RestPcs
  <1>7. /\ call' \in [Callers -> CallRecord] /\ call'[a] = r
        /\ \A b \in Callers : b # a => call'[b] = call[b]
    BY <1>6 DEF AbortInv, AbortTypes
  <1>8. nstates' \in Nat
    BY <1>1, <1>2 DEF NewState
  <1> HIDE DEF rest, new, old
  <1>9. /\ turn' \in [Turns -> TurnRecord]
        /\ \A u \in Turns : u # n => turn'[u] = turn[u] \/ (turn'[u].pc \in Over /\ u = old)
    BY <1>1, <1>4, <1>5
  <1>10. active' = [task |-> n, ts |-> ts]
    <2>1. active' = [[task |-> k, ts |-> ts] EXCEPT !.task = n]
      BY <1>1, <1>3
    <2> HIDE DEF n
    <2> QED
      BY <2>1
  <1>11. AbortTypes'
    <2>1. active' \in [task : Nat, ts : Nat]
      BY <1>2, <1>10
    <2> QED
      BY <2>1, <1>1, <1>2, <1>7, <1>8, <1>9 DEF AbortInv, AbortTypes
  <1>12. NoneToCome'
    <2>1. active'.task <= n
      BY <1>2, <1>10
    <2>2. \A b \in Callers : call'[b].turn <= n
      <3>1. \A b \in Callers : call[b].turn <= nturns /\ call[b].turn \in Nat
        BY DEF AbortInv, AbortTypes, NoneToCome, CallRecord
      <3> QED
        BY <1>2, <1>6, <1>7, <3>1
    <2>3. ASSUME NEW t \in Turns, t > n
          PROVE  turn'[t].pc = "none" /\ log[t] = <<>>
      <3>1. t # n /\ t # old /\ t > nturns
        BY <1>2, <2>3 DEF Turns
      <3> QED
        BY <1>9, <3>1 DEF AbortInv, NoneToCome
    <2> QED
      BY <1>1, <2>1, <2>2, <2>3 DEF NoneToCome
  <1>13. SeenToStop'
    <2>1. ASSUME NEW b \in Callers, NEW t \in Turns, call'[b].pc = "emit", call'[b].turn = t
          PROVE  turn'[t].pc \in Over
      <3>1. b # a
        BY <1>6, <1>7, <2>1
      <3>2. call[b].pc = "emit" /\ call[b].turn = t /\ t <= nturns
        BY <1>7, <2>1, <3>1 DEF AbortInv, NoneToCome
      <3>3. turn[t].pc \in Over /\ t # n
        BY <1>2, <3>2 DEF AbortInv, SeenToStop, Turns
      <3> QED
        BY <1>9, <3>3
    <2> QED
      BY <2>1 DEF SeenToStop
  <1> QED
    BY <1>11, <1>12, <1>13 DEF AbortInv

LEMMA ReserveKeepsAborts ==
  ASSUME AbortInv, NEW a \in Callers, ReserveTurn(a)
  PROVE  AbortInv'
  <1>1. /\ active \in [task : Nat, ts : Nat] /\ nstates \in Nat
        /\ turn \in [Turns -> TurnRecord] /\ call[a] \in CallRecord
        /\ call \in [Callers -> CallRecord] /\ call[a].turn <= nturns
    BY DEF AbortInv, AbortTypes, NoneToCome
  <1>2. CASE active.ts # 0
    <2>1. call' = Goto(a, Rest(a)) /\ UNCHANGED <<active, nstates, turn, log, nturns>>
      BY <1>2 DEF ReserveTurn
    <2> QED
      BY <1>1, <2>1, CallGoes, RestPcs
  <1>3. CASE active.ts = 0
    <2>1. /\ active' = [task |-> 0, ts |-> nstates + 1] /\ nstates' = nstates + 1
          /\ call' = [call EXCEPT ![a].pc = "pending", ![a].kind = "Regular"]
          /\ UNCHANGED <<turn, log, nturns>>
      BY <1>3 DEF ReserveTurn, NewState
    <2> DEFINE r == [[call[a] EXCEPT !.pc = "pending"] EXCEPT !.kind = "Regular"]
    <2>2. r \in CallRecord /\ r.pc = "pending" /\ r.turn = call[a].turn
      BY <1>1 DEF CallRecord, CallPcs, TurnKinds
    <2>3. call' = [call EXCEPT ![a] = r]
      BY <1>1, <2>1
    <2> HIDE DEF r
    <2>4. StaysOrStops /\ MayReport(r)
      BY <2>1, <2>2 DEF StaysOrStops, MayReport
    <2>5. /\ active' \in [task : Nat, ts : Nat] /\ active'.task \in {active.task, 0}
          /\ nstates' \in Nat /\ turn' \in [Turns -> TurnRecord] /\ r.turn <= nturns
      BY <1>1, <2>1, <2>2
    <2> QED
      BY <2>1, <2>2, <2>3, <2>4, <2>5, CallMoves
  <1> QED
    BY <1>2, <1>3

LEMMA InsertKeepsAborts ==
  ASSUME AbortInv, NEW a \in Callers, InsertTurn(a)
  PROVE  AbortInv'
  <1>1. /\ active \in [task : Nat, ts : Nat] /\ nstates \in Nat
        /\ turn \in [Turns -> TurnRecord] /\ call[a] \in CallRecord
        /\ call \in [Callers -> CallRecord] /\ call[a].turn <= nturns
    BY DEF AbortInv, AbortTypes, NoneToCome
  <1> DEFINE ts == get_or_insert.ts
             r == [[call[a] EXCEPT !.ts = ts] EXCEPT !.pc = "extend"]
  <1>2. /\ get_or_insert \in [task : Nat, ts : Nat]
        /\ get_or_insert.task \in {active.task, 0} /\ ts \in Nat
    BY <1>1 DEF get_or_insert, NewState
  <1>3. /\ active' = get_or_insert /\ nstates' \in Nat
        /\ call' = [call EXCEPT ![a].ts = ts, ![a].pc = "extend"]
        /\ UNCHANGED <<turn, log, nturns>>
    BY <1>1 DEF InsertTurn, NewState
  <1> HIDE DEF ts
  <1>4. r \in CallRecord /\ r.pc = "extend" /\ r.turn = call[a].turn
    BY <1>1, <1>2 DEF CallRecord, CallPcs
  <1>5. call' = [call EXCEPT ![a] = r]
    BY <1>1, <1>3
  <1> HIDE DEF r
  <1>6. StaysOrStops /\ MayReport(r)
    BY <1>3, <1>4 DEF StaysOrStops, MayReport
  <1>7. /\ active' \in [task : Nat, ts : Nat] /\ active'.task \in {active.task, 0}
        /\ turn' \in [Turns -> TurnRecord] /\ r.turn <= nturns
    BY <1>1, <1>2, <1>3, <1>4
  <1> QED
    BY <1>3, <1>4, <1>5, <1>6, <1>7, CallMoves

(* All the steps of a caller.                                              *)
LEMMA CallerKeepsAborts ==
  ASSUME AbortInv, NEW a \in Callers, CallerStep(a)
  PROVE  AbortInv'
  <1>0. active \in [task : Nat, ts : Nat] /\ nstates \in Nat
    BY DEF AbortInv, AbortTypes
  <1>g. ASSUME NEW p \in CallPcs \ {"emit"}, call' = Goto(a, p),
               UNCHANGED <<active, nstates, turn, log, nturns>>
        PROVE  AbortInv'
    BY <1>0, <1>g, CallGoes
  <1>1. CASE AbortAllTasks(a)
    <2>0. active' = NoTurn /\ UNCHANGED <<nstates, nturns, log>>
      BY <1>1 DEF AbortAllTasks
    <2>1. CASE HasTask
      BY <1>1, <2>0, <2>1, CancelKeepsAborts DEF AbortAllTasks
    <2>2. CASE ~HasTask
      <3>1. turn' = turn /\ \E p \in {"pending", "idle", "closed"} : call' = Goto(a, p)
        BY <1>1, <2>2, RestPcs DEF AbortAllTasks
      <3>2. active' \in [task : Nat, ts : Nat] /\ active'.task \in {active.task, 0}
        BY <2>0 DEF NoTurn
      <3> QED
        BY <1>0, <2>0, <3>1, <3>2, CallGoes DEF CallPcs
    <2> QED
      BY <2>1, <2>2
  <1>2. CASE AbortTurnIfActive(a)
    <2>0. UNCHANGED <<nstates, nturns, log>>
      BY <1>2 DEF AbortTurnIfActive
    <2>1. CASE active.task = call[a].turn
      BY <1>2, <2>0, <2>1, CancelKeepsAborts DEF AbortTurnIfActive
    <2>2. CASE active.task # call[a].turn
      BY <1>2, <2>0, <2>2, <1>g DEF AbortTurnIfActive, CallPcs
    <2> QED
      BY <2>1, <2>2
  <1>3. CASE KillTask(a)
    BY <1>3, KillKeepsAborts
  <1>4. CASE EmitTurnAborted(a)
    BY <1>4, EmitKeepsAborts
  <1>5. CASE ClearPending(a)
    BY <1>5, <1>g DEF ClearPending, AfterAbort, CallPcs
  <1>6. CASE MaybeStartTurn(a)
    <2>1. \E p \in {"reserve", "idle", "closed"} : call' = Goto(a, p)
      BY <1>6, RestPcs DEF MaybeStartTurn
    <2> QED
      BY <1>6, <2>1, <1>g DEF MaybeStartTurn, CallPcs
  <1>7. CASE ReserveTurn(a)
    BY <1>7, ReserveKeepsAborts
  <1>8. CASE GetPendingInput(a)
    BY <1>8, <1>g DEF GetPendingInput, CallPcs
  <1>9. CASE InsertTurn(a)
    BY <1>9, InsertKeepsAborts
  <1>10. CASE ExtendPendingInput(a)
    BY <1>10, <1>g DEF ExtendPendingInput, CallPcs
  <1>11. CASE InstallTask(a)
    BY <1>11, InstallKeepsAborts
  <1> QED
    BY <1>1, <1>2, <1>3, <1>4, <1>5, <1>6, <1>7, <1>8, <1>9, <1>10, <1>11 DEF CallerStep

(* The steps of an extension that asks for an idle turn.                   *)
LEMMA ExtKeepsAborts ==
  ASSUME AbortInv, ExtStep
  PROVE  AbortInv'
  <1>0. /\ active \in [task : Nat, ts : Nat] /\ nstates \in Nat /\ "ext" \in Callers
        /\ turn \in [Turns -> TurnRecord] /\ call["ext"] \in CallRecord
        /\ call \in [Callers -> CallRecord] /\ call["ext"].turn <= nturns
    BY DEF AbortInv, AbortTypes, NoneToCome, Callers
  <1>g. ASSUME NEW p \in CallPcs \ {"emit"}, call' = Goto("ext", p),
               active' \in {active, NoTurn}, UNCHANGED <<nstates, turn, log, nturns>>
        PROVE  AbortInv'
    <2>1. active' \in [task : Nat, ts : Nat] /\ active'.task \in {active.task, 0}
      BY <1>0, <1>g DEF NoTurn
    <2> QED
      BY <1>0, <1>g, <2>1, CallGoes
  <1>1. CASE TryReserve
    <2>0. UNCHANGED <<turn, log, nturns>>
      BY <1>1 DEF TryReserve
    <2>1. CASE active.ts # 0
      BY <1>1, <1>g, <2>0, <2>1 DEF TryReserve, RefuseIdle, CallPcs
    <2>2. CASE active.ts = 0
      <3>1. /\ active' = [task |-> 0, ts |-> nstates + 1] /\ nstates' = nstates + 1
            /\ call' = [call EXCEPT !["ext"].ts = nstates + 1, !["ext"].pc = "recheck"]
        BY <1>1, <2>2 DEF TryReserve, NewState
      <3>a. PICK n \in Nat : n = nstates + 1
        BY <1>0
      <3> DEFINE r == [[call["ext"] EXCEPT !.ts = n] EXCEPT !.pc = "recheck"]
      <3>2. r \in CallRecord /\ r.pc = "recheck" /\ r.turn = call["ext"].turn
        BY <1>0 DEF CallRecord, CallPcs
      <3>3. call' = [call EXCEPT !["ext"] = r]
        BY <1>0, <3>1, <3>a
      <3> HIDE DEF r
      <3>4. StaysOrStops /\ MayReport(r)
        BY <2>0, <3>2 DEF StaysOrStops, MayReport
      <3>5. /\ active' \in [task : Nat, ts : Nat] /\ active'.task \in {active.task, 0}
            /\ nstates' \in Nat /\ turn' \in [Turns -> TurnRecord] /\ r.turn <= nturns
        BY <1>0, <2>0, <3>1, <3>2
      <3> QED
        BY <1>0, <2>0, <3>2, <3>3, <3>4, <3>5, CallMoves
    <2> QED
      BY <2>1, <2>2
  <1>2. CASE Recheck
    <2>1. /\ \E p \in {"maybe", "confirm"} : call' = Goto("ext", p)
          /\ active' \in {active, NoTurn} /\ UNCHANGED <<nstates, turn, log, nturns>>
      BY <1>2 DEF Recheck, RefuseIdle
    <2> QED
      BY <1>g, <2>1 DEF CallPcs
  <1>3. CASE Confirm
    <2>1. /\ \E p \in {"give", "unreserve"} : call' = Goto("ext", p)
          /\ UNCHANGED <<active, nstates, turn, log, nturns>>
      BY <1>3 DEF Confirm
    <2> QED
      BY <1>g, <2>1 DEF CallPcs
  <1>4. CASE Unreserve
    BY <1>4, <1>g DEF Unreserve, RefuseIdle, CallPcs
  <1>5. CASE Give
    BY <1>5, <1>g DEF Give, CallPcs
  <1> QED
    BY <1>1, <1>2, <1>3, <1>4, <1>5 DEF ExtStep

-----------------------------------------------------------------------------
(* A task that is not over changes its own record, and reports a start or  *)
(* an end.                                                                 *)
LEMMA TaskAdvances ==
  ASSUME AbortInv, NEW t \in Turns, turn[t].pc \notin Over,
         NEW r \in TurnRecord, turn' = [turn EXCEPT ![t] = r],
         active' \in [task : Nat, ts : Nat], active'.task \in {active.task, 0},
         UNCHANGED <<nturns, nstates, call>>,
         log' = log \/ \E e \in {"started", "complete"} :
                         log' = [log EXCEPT ![t] = Append(@, e)]
  PROVE  AbortInv'
  <1> USE TurnAssumption
  <1>1. /\ turn' \in [Turns -> TurnRecord]
        /\ \A u \in Turns : u # t => turn'[u] = turn[u]
    BY DEF AbortInv, AbortTypes
  <1>2. /\ log' \in [Turns -> Seq(Events)]
        /\ \A u \in Turns : u # t => log'[u] = log[u]
    <2>0. log \in [Turns -> Seq(Events)]
      BY DEF AbortInv, AbortTypes
    <2>1. CASE log' = log
      BY <2>0, <2>1
    <2>2. ASSUME NEW e \in {"started", "complete"}, log' = [log EXCEPT ![t] = Append(@, e)]
          PROVE  /\ log' \in [Turns -> Seq(Events)]
                 /\ \A u \in Turns : u # t => log'[u] = log[u]
      <3>1. e \in Events
        BY DEF Events
      <3> QED
        BY <2>0, <2>2, <3>1, LogAppended
    <2> QED
      BY <2>1, <2>2
  <1>3. ~(t > nturns)
    BY DEF AbortInv, NoneToCome, Over
  <1>4. AbortTypes'
    BY <1>1, <1>2 DEF AbortInv, AbortTypes
  <1>5. NoneToCome'
    <2>1. active'.task <= nturns
      BY DEF AbortInv, AbortTypes, NoneToCome
    <2>2. \A u \in Turns : u > nturns => turn'[u].pc = "none" /\ log'[u] = <<>>
      BY <1>1, <1>2, <1>3 DEF AbortInv, NoneToCome
    <2> QED
      BY <2>1, <2>2 DEF AbortInv, NoneToCome
  <1>6. SeenToStop'
    BY <1>1 DEF AbortInv, SeenToStop
  <1> QED
    BY <1>4, <1>5, <1>6 DEF AbortInv

(* What a task's step does to its own record.                              *)
LEMMA TaskRecords ==
  ASSUME turn \in [Turns -> TurnRecord], active.ts \in Nat, NEW t \in Turns, TaskStep(t)
  PROVE  \E r \in TurnRecord : turn' = [turn EXCEPT ![t] = r]
  <1>0. turn[t] \in TurnRecord
    OBVIOUS
  <1>p. ASSUME NEW p \in TurnPcs, turn' = Step(t, p)
        PROVE  \E r \in TurnRecord : turn' = [turn EXCEPT ![t] = r]
    <2>1. [turn[t] EXCEPT !.pc = p] \in TurnRecord
      BY <1>0 DEF TurnRecord
    <2> QED
      BY <1>p, <2>1 DEF Step
  <1>b. ASSUME NEW p \in TurnPcs, NEW b \in BOOLEAN,
               \/ turn' = [turn EXCEPT ![t].canDrain = b, ![t].pc = p]
               \/ turn' = [turn EXCEPT ![t].pc = p, ![t].canDrain = b]
        PROVE  \E r \in TurnRecord : turn' = [turn EXCEPT ![t] = r]
    <2> DEFINE r == [[turn[t] EXCEPT !.canDrain = b] EXCEPT !.pc = p]
               q == [[turn[t] EXCEPT !.pc = p] EXCEPT !.canDrain = b]
    <2>1. r \in TurnRecord /\ q \in TurnRecord
      BY <1>0 DEF TurnRecord
    <2>2. turn' = [turn EXCEPT ![t] = r] \/ turn' = [turn EXCEPT ![t] = q]
      BY <1>0, <1>b
    <2> HIDE DEF r, q
    <2> QED
      BY <2>1, <2>2
  <1>f. ASSUME NEW p \in TurnPcs, NEW n \in Nat,
               turn' = [turn EXCEPT ![t].pc = p, ![t].fuel = n]
        PROVE  \E r \in TurnRecord : turn' = [turn EXCEPT ![t] = r]
    <2> DEFINE r == [[turn[t] EXCEPT !.pc = p] EXCEPT !.fuel = n]
    <2>1. r \in TurnRecord
      BY <1>0 DEF TurnRecord
    <2>2. turn' = [turn EXCEPT ![t] = r]
      BY <1>0, <1>f
    <2> HIDE DEF r
    <2> QED
      BY <2>1, <2>2
  <1>1. CASE BeginTask(t)
    <2>1. \E p \in {"run", "work", "flush"} : turn' = Step(t, p)
      BY <1>1 DEF BeginTask
    <2> QED
      BY <1>p, <2>1 DEF TurnPcs
  <1>2. CASE StandaloneWork(t)
    BY <1>2, <1>p DEF StandaloneWork, TurnPcs
  <1>3. CASE RunTurn(t)
    <2>1. \/ \E b \in BOOLEAN, p \in {"outer", "drain"} :
                turn' = [turn EXCEPT ![t].canDrain = b, ![t].pc = p]
          \/ turn' = Step(t, "outer")
      BY <1>3 DEF RunTurn
    <2> QED
      BY <1>p, <1>b, <2>1 DEF TurnPcs
  <1>4. CASE DrainPendingInput(t)
    BY <1>4, <1>p DEF DrainPendingInput, TurnPcs
  <1>5. CASE RecordInputs(t)
    <2>1. \E p \in {"outer", "sample"} : turn' = Step(t, p)
      BY <1>5 DEF RecordInputs
    <2> QED
      BY <1>p, <2>1 DEF TurnPcs
  <1>6. CASE FinalAnswer(t)
    <2>1. turn' = [turn EXCEPT ![t].pc = "sampled", ![t].followUp = FALSE]
      BY <1>6 DEF FinalAnswer
    <2> DEFINE r == [[turn[t] EXCEPT !.pc = "sampled"] EXCEPT !.followUp = FALSE]
    <2>2. r \in TurnRecord
      BY <1>0 DEF TurnRecord, TurnPcs
    <2>3. turn' = [turn EXCEPT ![t] = r]
      BY <1>0, <2>1
    <2> HIDE DEF r
    <2> QED
      BY <2>2, <2>3
  <1>7. CASE ToolCall(t)
    <2>1. PICK n \in Nat : n = turn[t].fuel - 1
      BY <1>0, <1>7 DEF TurnRecord, ToolCall
    <2>2. turn' = [turn EXCEPT ![t].pc = "sampled", ![t].followUp = TRUE,
                               ![t].fuel = turn[t].fuel - 1]
      BY <1>0, <1>7 DEF ToolCall
    <2> DEFINE r == [[[turn[t] EXCEPT !.pc = "sampled"] EXCEPT !.followUp = TRUE]
                        EXCEPT !.fuel = n]
    <2>3. r \in TurnRecord
      BY <1>0 DEF TurnRecord, TurnPcs
    <2>4. turn' = [turn EXCEPT ![t] = r]
      BY <1>0, <2>1, <2>2
    <2> HIDE DEF r
    <2> QED
      BY <2>3, <2>4
  <1>8. CASE RetryWithoutImages(t)
    <2>1. /\ turn[t].fuel - 1 \in Nat
          /\ turn' = [turn EXCEPT ![t].pc = "drain", ![t].fuel = turn[t].fuel - 1]
      BY <1>0, <1>8 DEF RetryWithoutImages, TurnRecord
    <2> QED
      BY <1>f, <2>1 DEF TurnPcs
  <1>9. CASE SamplingFails(t)
    BY <1>9, <1>p DEF SamplingFails, TurnPcs
  <1>10. CASE AfterSampling(t)
    <2>1. (~turn[t].followUp) \in BOOLEAN /\ TRUE \in BOOLEAN
      OBVIOUS
    <2>2. \/ \E p \in {"outer", "drain"}, b \in BOOLEAN :
               turn' = [turn EXCEPT ![t].pc = p, ![t].canDrain = b]
          \/ /\ turn[t].fuel > 0
             /\ turn' = [turn EXCEPT ![t].pc = "drain", ![t].canDrain = TRUE,
                                     ![t].fuel = turn[t].fuel - 1]
      BY <1>0, <1>10, <2>1 DEF AfterSampling
    <2>3. CASE \E p \in {"outer", "drain"}, b \in BOOLEAN :
               turn' = [turn EXCEPT ![t].pc = p, ![t].canDrain = b]
      BY <1>b, <2>3 DEF TurnPcs
    <2>4. CASE /\ turn[t].fuel > 0
               /\ turn' = [turn EXCEPT ![t].pc = "drain", ![t].canDrain = TRUE,
                                       ![t].fuel = turn[t].fuel - 1]
      <3>1. PICK n \in Nat : n = turn[t].fuel - 1
        BY <1>0, <2>4 DEF TurnRecord
      <3> DEFINE r == [[[turn[t] EXCEPT !.pc = "drain"] EXCEPT !.canDrain = TRUE]
                          EXCEPT !.fuel = n]
      <3>2. r \in TurnRecord
        BY <1>0 DEF TurnRecord, TurnPcs
      <3>3. turn' = [turn EXCEPT ![t] = r]
        BY <1>0, <2>4, <3>1
      <3> HIDE DEF r
      <3> QED
        BY <3>2, <3>3
    <2> QED
      BY <2>2, <2>3, <2>4
  <1>11. CASE RunAgain(t)
    <2>1. \E p \in {"run", "flush"} : turn' = Step(t, p)
      BY <1>11 DEF RunAgain
    <2> QED
      BY <1>p, <2>1 DEF TurnPcs
  <1>12. CASE FlushRollout(t)
    <2>1. \E p \in {"done", "finish"} : turn' = Step(t, p)
      BY <1>12 DEF FlushRollout
    <2> QED
      BY <1>p, <2>1 DEF TurnPcs
  <1>13. CASE TakeTask(t)
    <2>1. CASE HasTask
      <3>1. turn' = [turn EXCEPT ![t].ts = active.ts, ![t].pc = "settle"]
        BY <1>13, <2>1 DEF TakeTask
      <3> DEFINE r == [[turn[t] EXCEPT !.ts = active.ts] EXCEPT !.pc = "settle"]
      <3>2. r \in TurnRecord
        BY <1>0 DEF TurnRecord, TurnPcs
      <3>3. turn' = [turn EXCEPT ![t] = r]
        BY <1>0, <3>1
      <3> HIDE DEF r
      <3> QED
        BY <3>2, <3>3
    <2>2. CASE ~HasTask
      BY <1>13, <1>p, <2>2 DEF TakeTask, TurnPcs
    <2> QED
      BY <2>1, <2>2
  <1>14. CASE SettleInput(t)
    BY <1>14, <1>p DEF SettleInput, TurnPcs
  <1>15. CASE SendTurnComplete(t)
    BY <1>15, <1>p DEF SendTurnComplete, TurnPcs
  <1>16. CASE ClearActiveTurn(t)
    BY <1>16, <1>p DEF ClearActiveTurn, TurnPcs
  <1> QED
    BY <1>1, <1>2, <1>3, <1>4, <1>5, <1>6, <1>7, <1>8, <1>9, <1>10, <1>11, <1>12,
       <1>13, <1>14, <1>15, <1>16 DEF TaskStep

LEMMA TaskKeepsAborts ==
  ASSUME AbortInv, NEW t \in Turns, TaskStep(t)
  PROVE  AbortInv'
  <1>0. active \in [task : Nat, ts : Nat] /\ turn \in [Turns -> TurnRecord]
    BY DEF AbortInv, AbortTypes
  <1>1. PICK r \in TurnRecord : turn' = [turn EXCEPT ![t] = r]
    BY <1>0, TaskRecords
  <1>2. turn[t].pc \notin Over /\ UNCHANGED <<nturns, nstates, call>>
    BY DEF TaskStep, BeginTask, StandaloneWork, RunTurn, DrainPendingInput, RecordInputs,
           FinalAnswer, ToolCall, RetryWithoutImages, SamplingFails, AfterSampling,
           RunAgain, FlushRollout, TakeTask, SettleInput, SendTurnComplete,
           ClearActiveTurn, TaskUnchanged, Over
  <1>3. active' \in {active, NoTurn, [active EXCEPT !.task = 0]}
    BY DEF TaskStep, BeginTask, StandaloneWork, RunTurn, DrainPendingInput, RecordInputs,
           FinalAnswer, ToolCall, RetryWithoutImages, SamplingFails, AfterSampling,
           RunAgain, FlushRollout, TakeTask, SettleInput, SendTurnComplete, ClearActiveTurn
  <1>4. active' \in [task : Nat, ts : Nat] /\ active'.task \in {active.task, 0}
    BY <1>0, <1>3 DEF NoTurn
  <1>5. log' = log \/ \E e \in {"started", "complete"} :
                        log' = [log EXCEPT ![t] = Append(@, e)]
    BY DEF TaskStep, BeginTask, StandaloneWork, RunTurn, DrainPendingInput, RecordInputs,
           FinalAnswer, ToolCall, RetryWithoutImages, SamplingFails, AfterSampling,
           RunAgain, FlushRollout, TakeTask, SettleInput, SendTurnComplete, ClearActiveTurn
  <1> QED
    BY <1>1, <1>2, <1>4, <1>5, TaskAdvances

(* What a late task does: it stops at the end of its poll, or reports its  *)
(* start.                                                                  *)
LEMMA LateSteps ==
  ASSUME turn \in [Turns -> TurnRecord], NEW t \in Turns, LateStep(t)
  PROVE  /\ turn[t].pc = "late" /\ UNCHANGED <<active, nturns, nstates, call>>
         /\ \E r \in TurnRecord : /\ turn' = [turn EXCEPT ![t] = r]
                                  /\ r.pc \in {"late", "dead"} /\ r.ts = turn[t].ts
         /\ \/ log' = log
            \/ /\ log[t] \in {<<>>, <<"aborted">>} /\ turn' = turn
               /\ log' = [log EXCEPT ![t] = Append(@, "started")]
  <1> DEFINE d == [turn[t] EXCEPT !.pc = "dead"]
  <1>1. d \in TurnRecord /\ d.pc = "dead" /\ d.ts = turn[t].ts
    BY DEF TurnRecord, TurnPcs
  <1>2. turn' = turn \/ turn' = [turn EXCEPT ![t] = d]
    BY DEF LateStep, LateStart, LateDrain, LateRecord, PollEnds, Step
  <1>3. turn[t].pc = "late" /\ turn[t] \in TurnRecord /\ turn = [turn EXCEPT ![t] = turn[t]]
    BY DEF LateStep, LateStart, LateDrain, LateRecord, PollEnds
  <1> HIDE DEF d
  <1>4. \E r \in TurnRecord : /\ turn' = [turn EXCEPT ![t] = r]
                              /\ r.pc \in {"late", "dead"} /\ r.ts = turn[t].ts
    BY <1>1, <1>2, <1>3
  <1> QED
    BY <1>3, <1>4 DEF LateStep, LateStart, LateDrain, LateRecord, PollEnds, TaskUnchanged

LEMMA LateKeepsAborts ==
  ASSUME AbortInv, NEW t \in Turns, LateStep(t)
  PROVE  AbortInv'
  <1>0. turn \in [Turns -> TurnRecord] /\ log \in [Turns -> Seq(Events)]
    BY DEF AbortInv, AbortTypes
  <1>1. /\ turn[t].pc = "late" /\ UNCHANGED <<active, nturns, nstates, call>>
        /\ log' = log \/ log' = [log EXCEPT ![t] = Append(@, "started")]
    BY <1>0, LateSteps
  <1>2. PICK r \in TurnRecord : turn' = [turn EXCEPT ![t] = r] /\ r.pc \in {"late", "dead"}
    BY <1>0, LateSteps
  <1>3. /\ turn' \in [Turns -> TurnRecord] /\ turn'[t].pc \in Over
        /\ \A u \in Turns : u # t => turn'[u] = turn[u]
    BY <1>0, <1>2 DEF Over
  <1>4. /\ log' \in [Turns -> Seq(Events)]
        /\ \A u \in Turns : u # t => log'[u] = log[u]
    BY <1>0, <1>1, LogAppended DEF Events
  <1>5. ~(t > nturns)
    BY <1>1 DEF AbortInv, NoneToCome
  <1>6. AbortTypes'
    BY <1>1, <1>3, <1>4 DEF AbortInv, AbortTypes
  <1>7. NoneToCome'
    BY <1>1, <1>3, <1>4, <1>5 DEF AbortInv, NoneToCome
  <1>8. SeenToStop'
    BY <1>1, <1>3 DEF AbortInv, SeenToStop
  <1> QED
    BY <1>6, <1>7, <1>8 DEF AbortInv

LEMMA NextKeepsAborts ==
  ASSUME AbortInv, [Next]_vars
  PROVE  AbortInv'
  <1>1. CASE Operation
    BY <1>1, OperationKeepsAborts
  <1>2. CASE ExtStep
    BY <1>2, ExtKeepsAborts
  <1>3. ASSUME NEW a \in Callers, CallerStep(a) PROVE AbortInv'
    BY <1>3, CallerKeepsAborts
  <1>4. ASSUME NEW t \in Turns, TaskStep(t) PROVE AbortInv'
    BY <1>4, TaskKeepsAborts
  <1>5. ASSUME NEW t \in Turns, GuardianDenial(t) PROVE AbortInv'
    <2>1. /\ turn[t].pc = "sampled" /\ UNCHANGED <<active, turn, nturns, nstates, log>>
          /\ call' = [call EXCEPT !["guard"] = Call("abortIf", t, "Regular", "Interrupted")]
      BY <1>5 DEF GuardianDenial
    <2>2. ~(t > nturns) /\ t \in Nat /\ nturns \in Nat
      BY <2>1, TurnAssumption DEF AbortInv, AbortTypes, NoneToCome, Turns
    <2>3. t <= nturns
      BY <2>2
    <2> QED
      BY <2>1, <2>2, <2>3, CallBegins DEF Callers, CallPcs, TurnKinds, Reasons
  <1>6. CASE UNCHANGED vars
    BY <1>6, AbortUnmoved DEF vars
  <1>7. ASSUME NEW t \in Turns, LateStep(t) PROVE AbortInv'
    BY <1>7, LateKeepsAborts
  <1> QED
    BY <1>1, <1>2, <1>3, <1>4, <1>5, <1>6, <1>7 DEF Next, Waiting

(* This much holds of every behaviour, with the guardian and with idle     *)
(* starts: nobody names a turn to come, and handle_task_abort has aborted  *)
(* the task before it sends TurnAborted.                                   *)
THEOREM AbortInvariant == Spec => []AbortInv
  <1>1. Init => AbortInv
    BY AbortInit
  <1>2. AbortInv /\ [Next]_vars => AbortInv'
    BY NextKeepsAborts
  <1> QED
    BY <1>1, <1>2, PTL DEF Spec

-----------------------------------------------------------------------------
(* Why the installed task runs, whoever starts and stops turns: the one    *)
(* who cancels a task has taken it out of active_turn first, a task that   *)
(* is not cancelled leaves active_turn before it stops, and so a caller    *)
(* that is about to abort a task never names the installed one.            *)
ToAbort == {"kill", "drop"}
Naming == ToAbort \cup {"abortIf"}
InstalledInv ==
    /\ HasTask => active.task \in Running /\ ~turn[active.task].cancelled
    /\ \A a \in Callers : call[a].pc \in Naming => call[a].turn \in Turns
    /\ \A a \in Callers : call[a].pc \in ToAbort => turn[call[a].turn].cancelled

(* The installed task goes on or is taken out, a cancelled one stays so,   *)
(* and no caller begins to abort another turn.                             *)
LEMMA InstalledKept ==
  ASSUME InstalledInv,
         \/ active'.task = 0
         \/ /\ active'.task = active.task
            /\ turn'[active.task].pc \notin Finishing \cup Over \/ active.task \notin Running
            /\ ~turn'[active.task].cancelled \/ turn[active.task].cancelled,
         \A t \in Turns : turn[t].cancelled => turn'[t].cancelled,
         \A a \in Callers : call'[a].pc \in Naming =>
             call'[a].pc = call[a].pc /\ call'[a].turn = call[a].turn
  PROVE  InstalledInv'
  BY DEF InstalledInv, HasTask, Running, Naming

(* A task that is installed stops only after it has left active_turn.      *)
LEMMA TaskLeaves ==
  ASSUME turn \in [Turns -> TaskRecord], NEW t \in Turns, TaskStep(t)
  PROVE  /\ turn'[t].cancelled = turn[t].cancelled
         /\ \A u \in Turns : u # t => turn'[u] = turn[u]
         /\ \/ turn'[t].pc \notin Finishing \cup Over
            \/ turn[t].pc \in Finishing \/ turn[t].cancelled
            \/ active'.task = 0 \/ ~HasTask
  <1>0. turn[t] \in TaskRecord
    OBVIOUS
  <1> USE <1>0 DEF TaskRecord, Over, Finishing, Step
  <1>1. CASE BeginTask(t) \/ StandaloneWork(t) \/ RunTurn(t) \/ DrainPendingInput(t)
             \/ RecordInputs(t)
    BY <1>1 DEF BeginTask, StandaloneWork, RunTurn, DrainPendingInput, RecordInputs
  <1>2. CASE FinalAnswer(t) \/ ToolCall(t) \/ RetryWithoutImages(t) \/ SamplingFails(t)
    BY <1>2 DEF FinalAnswer, ToolCall, RetryWithoutImages, SamplingFails
  <1>3. CASE AfterSampling(t) \/ RunAgain(t) \/ FlushRollout(t)
    BY <1>3 DEF AfterSampling, RunAgain, FlushRollout
  <1>4. CASE SettleInput(t) \/ SendTurnComplete(t) \/ ClearActiveTurn(t)
    BY <1>4 DEF SettleInput, SendTurnComplete, ClearActiveTurn
  <1>5. CASE TakeTask(t) /\ ~HasTask
    BY <1>5 DEF TakeTask
  <1>6. CASE TakeTask(t) /\ HasTask
    <2>1. active' = [active EXCEPT !.task = 0]
      BY <1>6 DEF TakeTask
    <2>2. turn' = [turn EXCEPT ![t].ts = active.ts, ![t].pc = "settle"]
      BY <1>6 DEF TakeTask
    <2>3. \/ turn[t].pc \in Finishing \/ turn[t].cancelled \/ active'.task = 0
      BY <2>1
    <2> QED
      BY <2>2, <2>3
  <1> QED
    BY <1>1, <1>2, <1>3, <1>4, <1>5, <1>6 DEF TaskStep

(* A caller that goes on without a turn to abort.                          *)
LEMMA InstalledGoes ==
  ASSUME TypeInv, InstalledInv, NEW a \in Callers, NEW r \in CallerRecord,
         call' = [call EXCEPT ![a] = r], r.pc \notin Naming,
         active'.task \in {active.task, 0}, turn' = turn
  PROVE  InstalledInv'
  <1>1. /\ call \in [Callers -> CallerRecord] /\ call'[a] = r
        /\ \A b \in Callers : b # a => call'[b] = call[b]
    BY Types
  <1>2. \A b \in Callers : call'[b].pc \in Naming =>
           call'[b].pc = call[b].pc /\ call'[b].turn = call[b].turn
    BY <1>1
  <1>3. active.task \in Running => turn'[active.task].pc \notin Finishing \cup Over
    BY DEF Running
  <1> QED
    BY <1>2, <1>3, InstalledKept

LEMMA InstalledGoto ==
  ASSUME TypeInv, InstalledInv, NEW a \in Callers, NEW p \in CallPcs \ Naming,
         call' = Goto(a, p), active'.task \in {active.task, 0}, turn' = turn
  PROVE  InstalledInv'
  <1>1. PICK r \in CallerRecord : call' = [call EXCEPT ![a] = r] /\ r.pc = p
    BY GotoTyped
  <1> QED
    BY <1>1, InstalledGoes

(* The caller that cancels a task has taken it out of active_turn.         *)
LEMMA CancelKeepsInstalled ==
  ASSUME TypeInv, InstalledInv, NEW a \in Callers, HasTask,
         CancelTask(a, active.task), active' = NoTurn
  PROVE  InstalledInv'
  <1> DEFINE t == active.task
  <1>1. /\ t \in Turns /\ turn \in [Turns -> TaskRecord] /\ call \in [Callers -> CallerRecord]
    BY Types DEF ActiveRecord, HasTask
  <1>2. /\ turn' = [turn EXCEPT ![t].cancelled = TRUE]
        /\ \E p \in ToAbort :
             call' = [call EXCEPT ![a].turn = t, ![a].ts = active.ts, ![a].pc = p]
    BY DEF CancelTask, ToAbort
  <1> HIDE DEF t
  <1>3. turn'[t].cancelled /\ \A u \in Turns : turn[u].cancelled => turn'[u].cancelled
    BY <1>1, <1>2 DEF TaskRecord
  <1>4. call'[a].turn = t /\ \A b \in Callers : b # a => call'[b] = call[b]
    BY <1>1, <1>2 DEF CallerRecord
  <1>5. ~HasTask'
    BY DEF NoTurn, HasTask
  <1> QED
    BY <1>1, <1>3, <1>4, <1>5 DEF InstalledInv, Naming

(* A task that is aborted was cancelled, so it is not the installed one.   *)
LEMMA KillKeepsInstalled ==
  ASSUME TypeInv, InstalledInv, NEW a \in Callers, KillTask(a)
  PROVE  InstalledInv'
  <1> DEFINE k == call[a].turn
  <1>1. PICK p \in AbortedPcs(k) : turn' = Step(k, p)
    BY DEF KillTask
  <1>2. /\ active' = active /\ call[a].pc \in ToAbort
        /\ \E q \in {"emit", "unqueue"} : call' = Goto(a, q)
    BY DEF KillTask, ToAbort
  <1>3. /\ turn \in [Turns -> TaskRecord] /\ call \in [Callers -> CallerRecord]
        /\ k \in Turns /\ turn[k].cancelled
    BY <1>2, Types DEF InstalledInv, Naming
  <1>4. /\ \A u \in Turns : turn'[u].cancelled = turn[u].cancelled
        /\ \A u \in Turns : u # k => turn'[u] = turn[u]
    BY <1>1, <1>3 DEF Step, TaskRecord
  <1>5. HasTask => active.task # k
    BY <1>3 DEF InstalledInv
  <1>6. \A b \in Callers : call'[b].pc \in Naming =>
          call'[b].pc = call[b].pc /\ call'[b].turn = call[b].turn
    BY <1>2, <1>3 DEF Goto, Naming, ToAbort, CallerRecord
  <1> HIDE DEF k
  <1>7. HasTask => active.task \in Turns /\ turn'[active.task] = turn[active.task]
    BY <1>4, <1>5, Types DEF HasTask, ActiveRecord
  <1>8. \/ active'.task = 0
        \/ /\ active'.task = active.task
           /\ turn'[active.task].pc \notin Finishing \cup Over \/ active.task \notin Running
           /\ ~turn'[active.task].cancelled \/ turn[active.task].cancelled
    BY <1>2, <1>7 DEF HasTask, Running
  <1> QED
    BY <1>4, <1>6, <1>8, InstalledKept

(* A task is installed with a new number, which no caller names.           *)
LEMMA InstallKeepsInstalled ==
  ASSUME TypeInv, TypeInv', AbortInv, InstalledInv, NEW a \in Callers, InstallTask(a)
  PROVE  InstalledInv'
  <1> USE TurnAssumption
  <1> DEFINE n == nturns + 1
             old == active.task
             new == Task("begin", call[a].kind)
  <1>1. PICK p \in IF old = 0 THEN {"none"} ELSE AbortedPcs(old) :
          turn' = [IF old = 0 THEN turn ELSE Step(old, p) EXCEPT ![n] = new]
    BY DEF InstallTask
  <1> DEFINE rest == IF old = 0 THEN turn ELSE Step(old, p)
  <1>2. /\ active' = [get_or_insert EXCEPT !.task = n] /\ call' = Goto(a, Rest(a))
        /\ call[a].pc = "install"
    BY DEF InstallTask
  <1>3. /\ turn \in [Turns -> TaskRecord] /\ call \in [Callers -> CallerRecord]
        /\ nturns \in Nat /\ active \in ActiveRecord
    BY Types
  <1>4. active'.task = n
    <2>1. "task" \in DOMAIN get_or_insert
      BY <1>3 DEF get_or_insert, ActiveRecord
    <2> QED
      BY <1>2, <2>1
  <1>5. n \in Turns
    <2>1. active'.task \in Turns \cup {0}
      BY DEF TypeInv, TypeOK
    <2> QED
      BY <1>3, <1>4, <2>1
  <1>6. /\ rest \in [Turns -> TaskRecord]
        /\ \A u \in Turns : rest[u].cancelled = turn[u].cancelled
    <2>1. CASE old = 0
      BY <1>3, <2>1
    <2>2. CASE old # 0
      <3>1. p \in TurnPcs
        BY <2>2, AbortedOver
      <3>2. rest = Step(old, p)
        BY <2>2
      <3>3. Step(old, p) \in [Turns -> TaskRecord]
        BY <3>1, StepTyped
      <3>4. \A u \in Turns : Step(old, p)[u].cancelled = turn[u].cancelled
        BY <1>3 DEF Step, TaskRecord
      <3> QED
        BY <3>2, <3>3, <3>4
    <2> QED
      BY <2>1, <2>2
  <1>7. new.pc = "begin" /\ new.cancelled = FALSE
    BY DEF Task
  <1> HIDE DEF rest, new
  <1>8. /\ turn'[n] = new
        /\ \A u \in Turns : u # n => turn'[u].cancelled = turn[u].cancelled
    BY <1>1, <1>5, <1>6 DEF rest
  <1>9. n \in Running' /\ ~turn'[n].cancelled
    BY <1>5, <1>7, <1>8 DEF Running, Finishing, Over
  <1>10. ASSUME NEW b \in Callers, call'[b].pc \in Naming
         PROVE  /\ call'[b].turn \in Turns
                /\ call'[b].pc \in ToAbort => turn'[call'[b].turn].cancelled
    <2>1. call'[b] = call[b]
      BY <1>2, <1>3, <1>10, RestPcs DEF Goto, Naming, ToAbort, CallerRecord
    <2>2. /\ call[b].turn \in Turns
          /\ call[b].pc \in ToAbort => turn[call[b].turn].cancelled
      BY <1>10, <2>1 DEF InstalledInv
    <2>3. call[b].turn <= nturns
      BY DEF AbortInv, NoneToCome
    <2>4. call[b].turn # n
      BY <1>3, <2>2, <2>3 DEF Turns
    <2> QED
      BY <1>8, <2>1, <2>2, <2>4
  <1> QED
    BY <1>4, <1>9, <1>10 DEF InstalledInv, HasTask, Naming

LEMMA CallerKeepsInstalled ==
  ASSUME TypeInv, TypeInv', AbortInv, InstalledInv, NEW a \in Callers, CallerStep(a)
  PROVE  InstalledInv'
  <1>r. Rest(a) \in CallPcs \ Naming
    BY RestPcs DEF Naming, ToAbort
  <1>1. CASE AbortAllTasks(a)
    <2>1. CASE HasTask
      BY <1>1, <2>1, CancelKeepsInstalled DEF AbortAllTasks
    <2>2. CASE ~HasTask
      <3>1. /\ turn' = turn /\ active' = NoTurn
            /\ \E p \in CallPcs \ Naming : call' = Goto(a, p)
        BY <1>1, <1>r, <2>2 DEF AbortAllTasks, CallPcs, Naming, ToAbort
      <3> QED
        BY <3>1, InstalledGoto DEF NoTurn
    <2> QED
      BY <2>1, <2>2
  <1>2. CASE AbortTurnIfActive(a)
    <2>1. CASE active.task = call[a].turn /\ HasTask
      BY <1>2, <2>1, CancelKeepsInstalled DEF AbortTurnIfActive
    <2>2. active.task = call[a].turn => HasTask
      <3>1. call[a].turn \in Turns
        BY <1>2 DEF AbortTurnIfActive, InstalledInv, Naming
      <3> QED
        BY <3>1 DEF HasTask, Turns
    <2>3. CASE active.task # call[a].turn
      BY <1>2, <2>3, InstalledGoto DEF AbortTurnIfActive, CallPcs, Naming, ToAbort
    <2> QED
      BY <2>1, <2>2, <2>3
  <1>3. CASE KillTask(a)
    BY <1>3, KillKeepsInstalled
  <1>4. CASE \/ EmitTurnAborted(a) \/ ClearPending(a) \/ MaybeStartTurn(a)
             \/ GetPendingInput(a) \/ ExtendPendingInput(a)
    <2>1. /\ turn' = turn /\ active' = active
          /\ \E p \in CallPcs \ Naming : call' = Goto(a, p)
      BY <1>4, <1>r DEF EmitTurnAborted, ClearPending, MaybeStartTurn, GetPendingInput,
         ExtendPendingInput, AfterAbort, CallPcs, Naming, ToAbort
    <2> QED
      BY <2>1, InstalledGoto
  <1>5. CASE ReserveTurn(a)
    <2>0. call[a] \in CallerRecord /\ call \in [Callers -> CallerRecord] /\ active \in ActiveRecord
      BY Types
    <2>1. CASE active.ts # 0
      BY <1>5, <1>r, <2>1, InstalledGoto DEF ReserveTurn
    <2>2. CASE active.ts = 0
      <3> DEFINE r == [[call[a] EXCEPT !.pc = "pending"] EXCEPT !.kind = "Regular"]
      <3>1. r \in CallerRecord /\ r.pc = "pending"
        BY <2>0 DEF CallerRecord, CallPcs, TurnKinds
      <3>2. /\ call' = [call EXCEPT ![a].pc = "pending", ![a].kind = "Regular"]
            /\ turn' = turn /\ active' = [task |-> 0, ts |-> NewState]
        BY <1>5, <2>2 DEF ReserveTurn
      <3>3. call' = [call EXCEPT ![a] = r]
        BY <2>0, <3>2
      <3>4. active'.task \in {active.task, 0}
        BY <3>2
      <3> HIDE DEF r
      <3> QED
        BY <3>1, <3>2, <3>3, <3>4, InstalledGoes DEF Naming, ToAbort
    <2> QED
      BY <2>1, <2>2
  <1>6. CASE InsertTurn(a)
    <2>0. call[a] \in CallerRecord /\ call \in [Callers -> CallerRecord] /\ active \in ActiveRecord
      BY Types
    <2>1. get_or_insert.ts \in States
      <3>1. StatesLeft(call[a].pc) > 0
        BY <1>6 DEF InsertTurn, StatesLeft, Resting
      <3> QED
        BY <3>1, ReserveTyped
    <2> DEFINE r == [[call[a] EXCEPT !.ts = get_or_insert.ts] EXCEPT !.pc = "extend"]
    <2>2. r \in CallerRecord /\ r.pc = "extend"
      BY <2>0, <2>1 DEF CallerRecord, CallPcs
    <2>3. call' = [call EXCEPT ![a] = r] /\ turn' = turn
      BY <1>6, <2>0 DEF InsertTurn
    <2>4. active'.task \in {active.task, 0}
      BY <1>6, <2>0 DEF InsertTurn, get_or_insert
    <2> HIDE DEF r
    <2> QED
      BY <2>2, <2>3, <2>4, InstalledGoes DEF Naming, ToAbort
  <1>7. CASE InstallTask(a)
    BY <1>7, InstallKeepsInstalled
  <1> QED
    BY <1>1, <1>2, <1>3, <1>4, <1>5, <1>6, <1>7 DEF CallerStep

LEMMA OperationKeepsInstalled ==
  ASSUME TypeInv, InstalledInv, Operation
  PROVE  InstalledInv'
  <1>0. call \in [Callers -> CallerRecord]
    BY Types
  <1>1. UNCHANGED <<active, turn>>
    BY DEF Operation, UserInput, SteerRequest, StandaloneTask, Interrupt,
           InterAgentCommunication, Inject, TryStartTurnIfIdle
  <1>2. \/ call' = call
        \/ \E a \in Callers, p \in {"abort", "maybe", "tryReserve"} : \E k, r :
              call' = [call EXCEPT ![a] = Call(p, 0, k, r)]
    BY DEF Operation, UserInput, SteerRequest, StandaloneTask, Interrupt,
           InterAgentCommunication, Inject, TryStartTurnIfIdle, Callers
  <1>3. \A b \in Callers : call'[b].pc \in Naming =>
          call'[b].pc = call[b].pc /\ call'[b].turn = call[b].turn
    BY <1>0, <1>2 DEF Call, Naming, ToAbort
  <1> QED
    BY <1>1, <1>3, InstalledKept DEF InstalledInv, HasTask, Running

LEMMA ExtKeepsInstalled ==
  ASSUME TypeInv, InstalledInv, ExtStep
  PROVE  InstalledInv'
  <1>0. call \in [Callers -> CallerRecord] /\ active \in ActiveRecord /\ "ext" \in Callers
    BY Types DEF Callers
  <1>1. turn' = turn
    BY DEF ExtStep, TryReserve, Recheck, Confirm, Unreserve, Give
  <1>2. active'.task \in {active.task, 0}
    BY DEF ExtStep, TryReserve, Recheck, Confirm, Unreserve, Give, NoTurn
  <1>3. \/ \E p \in {"idle", "recheck", "maybe", "confirm", "give", "unreserve", "pending"} :
              call' = Goto("ext", p)
        \/ call' = [call EXCEPT !["ext"].ts = NewState, !["ext"].pc = "recheck"]
    BY DEF ExtStep, TryReserve, Recheck, Confirm, Unreserve, Give, RefuseIdle
  <1>4. \A b \in Callers : call'[b].pc \in Naming =>
          call'[b].pc = call[b].pc /\ call'[b].turn = call[b].turn
    BY <1>0, <1>3 DEF Goto, CallerRecord, Naming, ToAbort
  <1> QED
    BY <1>1, <1>2, <1>4, InstalledKept DEF InstalledInv, HasTask, Running

LEMMA TaskKeepsInstalled ==
  ASSUME TypeInv, InstalledInv, NEW t \in Turns, TaskStep(t)
  PROVE  InstalledInv'
  <1>0. turn \in [Turns -> TaskRecord] /\ active \in ActiveRecord
    BY Types
  <1>1. /\ turn'[t].cancelled = turn[t].cancelled
        /\ \A u \in Turns : u # t => turn'[u] = turn[u]
        /\ \/ turn'[t].pc \notin Finishing \cup Over
           \/ turn[t].pc \in Finishing \/ turn[t].cancelled
           \/ active'.task = 0 \/ ~HasTask
    BY <1>0, TaskLeaves
  <1>2. call' = call
    BY DEF TaskStep, BeginTask, StandaloneWork, RunTurn, DrainPendingInput, RecordInputs,
           FinalAnswer, ToolCall, RetryWithoutImages, SamplingFails, AfterSampling,
           RunAgain, FlushRollout, TakeTask, SettleInput, SendTurnComplete,
           ClearActiveTurn, TaskUnchanged
  <1>3. active' = active \/ active'.task = 0
    BY <1>0 DEF TaskStep, BeginTask, StandaloneWork, RunTurn, DrainPendingInput, RecordInputs,
           FinalAnswer, ToolCall, RetryWithoutImages, SamplingFails, AfterSampling,
           RunAgain, FlushRollout, TakeTask, SettleInput, SendTurnComplete,
           ClearActiveTurn, NoTurn, ActiveRecord
  <1>4. CASE active'.task = 0
    BY <1>1, <1>2, <1>4, InstalledKept
  <1>5. CASE active' = active /\ HasTask /\ active'.task # 0
    <2>1. /\ active.task \in Turns /\ turn[active.task].pc \notin Finishing \cup Over
          /\ ~turn[active.task].cancelled
      BY <1>5 DEF InstalledInv, Running
    <2>2. turn'[active.task].pc \notin Finishing \cup Over /\ ~turn'[active.task].cancelled
      BY <1>1, <1>5, <2>1
    <2> QED
      BY <1>1, <1>2, <1>5, <2>2, InstalledKept
  <1> QED
    BY <1>3, <1>4, <1>5 DEF HasTask

LEMMA InstalledStep == TypeInv /\ TypeInv' /\ AbortInv /\ InstalledInv /\ [Next]_vars => InstalledInv'
  <1> SUFFICES ASSUME TypeInv, TypeInv', AbortInv, InstalledInv, [Next]_vars
               PROVE  InstalledInv'
    OBVIOUS
  <1>0. turn \in [Turns -> TaskRecord] /\ call \in [Callers -> CallerRecord]
        /\ "guard" \in Callers
    BY Types DEF Callers
  <1>1. CASE Operation
    BY <1>1, OperationKeepsInstalled
  <1>2. CASE ExtStep
    BY <1>2, ExtKeepsInstalled
  <1>3. ASSUME NEW a \in Callers, CallerStep(a) PROVE InstalledInv'
    BY <1>3, CallerKeepsInstalled
  <1>4. ASSUME NEW t \in Turns, TaskStep(t) PROVE InstalledInv'
    BY <1>4, TaskKeepsInstalled
  <1>5. ASSUME NEW t \in Turns, LateStep(t) PROVE InstalledInv'
    <2>1. /\ turn[t].pc = "late" /\ active' = active /\ call' = call
          /\ \/ turn' = turn \/ turn' = Step(t, "dead")
      BY <1>5 DEF LateStep, LateStart, LateDrain, LateRecord, PollEnds, TaskUnchanged
    <2>2. /\ \A u \in Turns : u # t => turn'[u] = turn[u]
          /\ turn'[t].cancelled = turn[t].cancelled
      BY <1>0, <2>1 DEF Step, TaskRecord
    <2>3. HasTask => active.task \in Turns /\ active.task # t
      BY <2>1 DEF InstalledInv, Running, Over
    <2> QED
      BY <2>1, <2>2, <2>3, InstalledKept DEF InstalledInv, HasTask, Running
  <1>6. ASSUME NEW t \in Turns, GuardianDenial(t) PROVE InstalledInv'
    <2>1. /\ active' = active /\ turn' = turn
          /\ call' = [call EXCEPT !["guard"] = Call("abortIf", t, "Regular", "Interrupted")]
      BY <1>6 DEF GuardianDenial
    <2>2. /\ call'["guard"].pc = "abortIf" /\ call'["guard"].turn = t
          /\ \A b \in Callers : b # "guard" => call'[b] = call[b]
      BY <1>0, <2>1 DEF Call
    <2>3. /\ \A b \in Callers : call'[b].pc \in Naming => call'[b].turn \in Turns
          /\ \A b \in Callers : call'[b].pc \in ToAbort => turn'[call'[b].turn].cancelled
      BY <2>1, <2>2 DEF InstalledInv, Naming, ToAbort
    <2> QED
      BY <2>1, <2>3 DEF InstalledInv, HasTask, Running
  <1>7. CASE UNCHANGED vars
    BY <1>7 DEF vars, InstalledInv, HasTask, Running
  <1> QED
    BY <1>1, <1>2, <1>3, <1>4, <1>5, <1>6, <1>7 DEF Next, Waiting

(* Whoever starts and stops turns, the task in active_turn is one that     *)
(* runs and is not cancelled: nobody aborts a task that is still installed *)
(* there, and a task takes itself out before it stops.  So input steered   *)
(* into the active turn is looked at.                                      *)
THEOREM InstalledTaskRuns == Spec => []ActiveTaskRuns
  <1>1. Init => TypeInv /\ InstalledInv
    <2>1. Init => InstalledInv
      BY DEF Init, InstalledInv, HasTask, NoTurn, Call, Naming, ToAbort
    <2> QED
      BY <2>1, TypesInit
  <1>2. TypeInv /\ [Next]_vars => TypeInv'
    BY NextKeepsTypes
  <1>3. TypeInv /\ TypeInv' /\ AbortInv /\ InstalledInv /\ [Next]_vars => InstalledInv'
    BY InstalledStep
  <1>4. InstalledInv => ActiveTaskRuns
    BY DEF InstalledInv, ActiveTaskRuns
  <1> QED
    BY <1>1, <1>2, <1>3, <1>4, AbortInvariant, PTL DEF Spec

-----------------------------------------------------------------------------
(* The order of a turn's events, with the submission loop alone.  Until a  *)
(* turn sends its end, and until the loop reports the one it stops, the    *)
(* log holds a start at most; and the turn the loop stops is not one that  *)
(* is sending its own end.                                                 *)
Begun == {<<>>, <<"started">>}
EndsOnce ==
    \A t \in Turns :
        /\ turn[t].pc \in {"none", "begin"} => log[t] = <<>>
        /\ turn[t].pc \notin {"clear", "done", "late", "dead"} => log[t] \in Begun
        /\ call["loop"].pc \in {"kill", "emit"} /\ call["loop"].turn = t =>
              log[t] \in Begun /\ turn[t].pc \notin Finishing \cup {"none"}
EventsInv == EndsOnce /\ TurnEventsWellFormed

(* A step of the loop, or of nobody, that reports nothing and touches no   *)
(* task, and after which the loop stops the same turn or none.             *)
LEMMA EventsUnmoved ==
  ASSUME EventsInv, UNCHANGED <<turn, log>>,
         \/ call'["loop"].pc \notin {"kill", "emit"}
         \/ call'["loop"] = call["loop"]
  PROVE  EventsInv'
  BY DEF EventsInv, EndsOnce, TurnEventsWellFormed

(* What the steps of a task do to its place.                               *)
LEMMA TaskPcs ==
  ASSUME turn \in [Turns -> TurnRecord], NEW t \in Turns, TaskStep(t)
  PROVE  /\ turn'[t].pc \notin {"none", "begin", "dead"}
         /\ turn[t].pc \notin Over
         /\ turn[t].pc = "clear" => turn'[t].pc = "done"
         /\ turn[t].pc # "complete" => turn'[t].pc # "clear"
         /\ turn'[t].pc \in Finishing => turn[t].pc \in Finishing \/ (turn[t].pc = "finish" /\ HasTask)
  <1>0. turn[t] \in TurnRecord
    OBVIOUS
  <1> USE <1>0 DEF TurnRecord, Over, Finishing, Step
  <1>1. CASE BeginTask(t) \/ StandaloneWork(t) \/ RunTurn(t) \/ DrainPendingInput(t)
             \/ RecordInputs(t)
    BY <1>1 DEF BeginTask, StandaloneWork, RunTurn, DrainPendingInput, RecordInputs
  <1>2. CASE FinalAnswer(t) \/ ToolCall(t) \/ RetryWithoutImages(t) \/ SamplingFails(t)
    BY <1>2 DEF FinalAnswer, ToolCall, RetryWithoutImages, SamplingFails
  <1>3. CASE AfterSampling(t) \/ RunAgain(t) \/ FlushRollout(t)
    BY <1>3 DEF AfterSampling, RunAgain, FlushRollout
  <1>4. CASE TakeTask(t) \/ SettleInput(t) \/ SendTurnComplete(t) \/ ClearActiveTurn(t)
    BY <1>4 DEF TakeTask, SettleInput, SendTurnComplete, ClearActiveTurn
  <1> QED
    BY <1>1, <1>2, <1>3, <1>4 DEF TaskStep

(* An end appended to a log that has not ended.                            *)
LEMMA EndAppended ==
  ASSUME NEW e
  PROVE  Append(<<>>, e) = <<e>> /\ Append(<<"started">>, e) = <<"started", e>>
  <1>1. Append(<<>>, e) = <<e>>
    OBVIOUS
  <1> DEFINE q == <<"started">>
             s == Append(q, e)
             z == <<"started", e>>
  <1>2. q \in Seq({"started", e}) /\ Len(q) = 1 /\ q[1] = "started"
    OBVIOUS
  <1>3. s \in Seq({"started", e}) /\ Len(s) = 2 /\ s[1] = "started" /\ s[2] = e
    BY <1>2
  <1>4. z \in Seq({"started", e}) /\ Len(z) = 2 /\ z[1] = "started" /\ z[2] = e
    OBVIOUS
  <1> HIDE DEF s, z
  <1>5. s = z
    <2>1. DOMAIN s = 1 .. 2 /\ DOMAIN z = 1 .. 2
      BY <1>3, <1>4
    <2> QED
      BY <1>3, <1>4, <2>1
  <1> QED
    BY <1>1, <1>5 DEF s, z

LEMMA StartAppended ==
  /\ Append(<<>>, "started") = <<"started">>
  /\ Append(<<"aborted">>, "started") = <<"aborted", "started">>
  <1> DEFINE q == <<"aborted">>
             s == Append(q, "started")
             z == <<"aborted", "started">>
  <1>1. q \in Seq({"aborted", "started"}) /\ Len(q) = 1 /\ q[1] = "aborted"
    OBVIOUS
  <1>2. /\ s \in Seq({"aborted", "started"}) /\ Len(s) = 2
        /\ s[1] = "aborted" /\ s[2] = "started"
    BY <1>1
  <1>3. /\ z \in Seq({"aborted", "started"}) /\ Len(z) = 2
        /\ z[1] = "aborted" /\ z[2] = "started"
    OBVIOUS
  <1> HIDE DEF s, z
  <1>4. DOMAIN s = 1 .. 2 /\ DOMAIN z = 1 .. 2
    BY <1>2, <1>3
  <1>5. s = z
    BY <1>2, <1>3, <1>4
  <1>6. Append(<<>>, "started") = <<"started">>
    OBVIOUS
  <1> QED
    BY <1>5, <1>6 DEF s, z

LEMMA TaskKeepsEvents ==
  ASSUME LoopInv, AbortInv, EventsInv, NEW t \in Turns, TaskStep(t)
  PROVE  EventsInv'
  <1>0. turn \in [Turns -> TurnRecord] /\ active.ts \in Nat /\ log \in [Turns -> Seq(Events)]
    BY DEF AbortInv, AbortTypes
  <1>1. PICK r \in TurnRecord : turn' = [turn EXCEPT ![t] = r]
    BY <1>0, TaskRecords
  <1>2. \A u \in Turns : u # t => turn'[u] = turn[u]
    BY <1>0, <1>1
  <1>3. /\ turn'[t].pc \notin {"none", "begin", "dead"} /\ turn[t].pc \notin Over
        /\ turn[t].pc = "clear" => turn'[t].pc = "done"
        /\ turn[t].pc # "complete" => turn'[t].pc # "clear"
        /\ turn'[t].pc \in Finishing =>
             turn[t].pc \in Finishing \/ (turn[t].pc = "finish" /\ HasTask)
    BY <1>0, TaskPcs
  <1>4. call' = call
    BY DEF TaskStep, BeginTask, StandaloneWork, RunTurn, DrainPendingInput, RecordInputs,
           FinalAnswer, ToolCall, RetryWithoutImages, SamplingFails, AfterSampling,
           RunAgain, FlushRollout, TakeTask, SettleInput, SendTurnComplete,
           ClearActiveTurn, TaskUnchanged
  <1>5. ASSUME call["loop"].pc \in {"kill", "emit"}, call["loop"].turn = t
        PROVE  /\ turn[t].pc \notin Finishing /\ turn'[t].pc \notin Finishing \cup {"none"}
               /\ log[t] \in Begun
    <2>1. ~HasTask
      BY <1>5 DEF LoopInv, Stopped
    <2>2. turn[t].pc \notin Finishing /\ log[t] \in Begun
      BY <1>5 DEF EventsInv, EndsOnce
    <2> QED
      BY <1>3, <2>1, <2>2
  <1>6. ASSUME \A u \in Turns : u # t => log'[u] = log[u],
               \/ log'[t] \in Begun
               \/ /\ turn'[t].pc \in {"clear", "done"} /\ turn[t].pc \in Finishing
                  /\ log'[t] \in {<<>>, <<"started">>, <<"started", "complete">>,
                                 <<"started", "aborted">>, <<"aborted">>, <<"complete">>,
                                 <<"aborted", "started">>}
        PROVE  EventsInv'
    <2>1. TurnEventsWellFormed'
      BY <1>6 DEF EventsInv, TurnEventsWellFormed, Begun
    <2>2. EndsOnce'
      <3> SUFFICES ASSUME NEW u \in Turns
                   PROVE  /\ turn'[u].pc \in {"none", "begin"} => log'[u] = <<>>
                          /\ turn'[u].pc \notin {"clear", "done", "late", "dead"} =>
                               log'[u] \in Begun
                          /\ call'["loop"].pc \in {"kill", "emit"} /\ call'["loop"].turn = u =>
                               log'[u] \in Begun /\ turn'[u].pc \notin Finishing \cup {"none"}
        BY DEF EndsOnce
      <3>1. CASE u # t
        BY <1>2, <1>4, <1>6, <3>1 DEF EventsInv, EndsOnce
      <3>2. CASE u = t
        BY <1>3, <1>4, <1>5, <1>6, <3>2
      <3> QED
        BY <3>1, <3>2
    <2> QED
      BY <2>1, <2>2 DEF EventsInv
  <1>7. CASE BeginTask(t)
    <2>1. turn[t].pc = "begin" /\ log[t] = <<>>
      BY <1>7 DEF BeginTask, EventsInv, EndsOnce
    <2>2. log' = log \/ log' = [log EXCEPT ![t] = Append(log[t], "started")]
      BY <1>0, <1>7 DEF BeginTask
    <2>3. log'[t] \in Begun /\ \A u \in Turns : u # t => log'[u] = log[u]
      BY <1>0, <2>1, <2>2 DEF Begun
    <2> QED
      BY <1>6, <2>3
  <1>8. CASE SendTurnComplete(t)
    <2>1. /\ turn[t].pc = "complete" /\ log' = [log EXCEPT ![t] = Append(log[t], "complete")]
          /\ turn' = Step(t, "clear")
      BY <1>0, <1>8 DEF SendTurnComplete
    <2>2. log[t] \in Begun
      BY <2>1 DEF EventsInv, EndsOnce
    <2>3. log'[t] \in {<<"started", "complete">>, <<"complete">>}
      BY <1>0, <2>1, <2>2, EndAppended DEF Begun
    <2>4. turn'[t].pc = "clear" /\ \A u \in Turns : u # t => log'[u] = log[u]
      BY <1>0, <2>1 DEF Step, TurnRecord
    <2> QED
      BY <1>6, <2>1, <2>3, <2>4 DEF Finishing
  <1>9. CASE ~BeginTask(t) /\ ~SendTurnComplete(t)
    <2>1. log' = log
      BY <1>9 DEF TaskStep, StandaloneWork, RunTurn, DrainPendingInput, RecordInputs,
           FinalAnswer, ToolCall, RetryWithoutImages, SamplingFails, AfterSampling,
           RunAgain, FlushRollout, TakeTask, SettleInput, ClearActiveTurn
    <2>2. CASE turn[t].pc = "clear"
      BY <1>3, <1>6, <2>1, <2>2 DEF EventsInv, TurnEventsWellFormed, Finishing
    <2>3. CASE turn[t].pc # "clear"
      <3>1. log[t] \in Begun
        BY <1>3, <2>3 DEF EventsInv, EndsOnce, Over
      <3> QED
        BY <1>6, <2>1, <3>1
    <2> QED
      BY <2>2, <2>3
  <1> QED
    BY <1>7, <1>8, <1>9

(* The steps of the loop that stop a turn, report it or install one.       *)
LEMMA CancelKeepsEvents ==
  ASSUME LoopInv, AbortInv, EventsInv, AbortAllTasks("loop")
  PROVE  EventsInv'
  <1>1. CASE ~HasTask
    <2>1. turn' = turn /\ log' = log /\ \E p \in {"pending", "idle", "closed"} : call' = Goto("loop", p)
      BY <1>1, RestPcs DEF AbortAllTasks, Callers
    <2>2. call'["loop"].pc \notin {"kill", "emit"}
      BY <2>1 DEF Goto, AbortInv, AbortTypes, Callers, CallRecord
    <2> QED
      BY <2>1, <2>2, EventsUnmoved
  <1>2. CASE HasTask
    <2> DEFINE t == active.task
    <2>1. t \in Turns /\ t \in Running
      BY <1>2 DEF LoopInv, Running
    <2>2. /\ turn' = [turn EXCEPT ![t].cancelled = TRUE] /\ log' = log
          /\ call'["loop"].turn = t
      BY <1>2 DEF AbortAllTasks, CancelTask, AbortInv, AbortTypes, Callers, CallRecord
    <2> HIDE DEF t
    <2>3. \A u \in Turns : turn'[u].pc = turn[u].pc
      BY <2>1, <2>2 DEF AbortInv, AbortTypes, TurnRecord
    <2>4. log[t] \in Begun /\ turn[t].pc \notin Finishing \cup {"none"}
      BY <2>1 DEF EventsInv, EndsOnce, Running, Over, Finishing
    <2>5. EndsOnce'
      BY <2>2, <2>3, <2>4 DEF EventsInv, EndsOnce
    <2> QED
      BY <2>2, <2>5 DEF EventsInv, TurnEventsWellFormed
  <1> QED
    BY <1>1, <1>2

LEMMA KillKeepsEvents ==
  ASSUME LoopInv, AbortInv, EventsInv, KillTask("loop")
  PROVE  EventsInv'
  <1> DEFINE k == call["loop"].turn
  <1>0. PICK p \in AbortedPcs(k) : turn' = Step(k, p)
    BY DEF KillTask
  <1>1. /\ call["loop"].pc = "kill" /\ k \in Turns
        /\ log' = log /\ call' = Goto("loop", "emit")
    BY DEF KillTask, LoopInv
  <1>2. call'["loop"].pc = "emit" /\ call'["loop"].turn = k
    BY <1>1 DEF Goto, AbortInv, AbortTypes, Callers, CallRecord
  <1>3. /\ turn'[k].pc \in {"done", "late", "dead"}
        /\ \A u \in Turns : u # k => turn'[u] = turn[u]
    BY <1>0, <1>1, AbortedOver, AbortedTurn DEF AbortInv, AbortTypes
  <1>4. log[k] \in Begun
    BY <1>1 DEF EventsInv, EndsOnce
  <1> HIDE DEF k
  <1>5. EndsOnce'
    BY <1>1, <1>2, <1>3, <1>4 DEF EventsInv, EndsOnce, Finishing
  <1> QED
    BY <1>1, <1>5 DEF EventsInv, TurnEventsWellFormed

LEMMA EmitKeepsEvents ==
  ASSUME LoopInv, AbortInv, EventsInv, EmitTurnAborted("loop")
  PROVE  EventsInv'
  <1> DEFINE k == call["loop"].turn
  <1>0. log \in [Turns -> Seq(Events)]
    BY DEF AbortInv, AbortTypes
  <1>1. /\ call["loop"].pc = "emit" /\ log' = [log EXCEPT ![k] = Append(@, "aborted")]
        /\ turn' = turn /\ call' = Goto("loop", "unqueue")
    BY DEF EmitTurnAborted
  <1>2. call'["loop"].pc = "unqueue"
    BY <1>1 DEF Goto, AbortInv, AbortTypes, Callers, CallRecord
  <1>3. k \in Turns => /\ log[k] \in Begun
                       /\ turn[k].pc \in {"done", "late", "dead"}
    BY <1>1 DEF EventsInv, EndsOnce, AbortInv, SeenToStop, Over, Callers
  <1> HIDE DEF k
  <1>4. \A u \in Turns : u # k => log'[u] = log[u]
    BY <1>0, <1>1
  <1>5. k \in Turns => log'[k] \in {<<"aborted">>, <<"started", "aborted">>}
    <2> SUFFICES ASSUME k \in Turns PROVE log'[k] \in {<<"aborted">>, <<"started", "aborted">>}
      OBVIOUS
    <2>1. log'[k] = Append(log[k], "aborted")
      BY <1>0, <1>1
    <2> QED
      BY <1>3, <2>1, EndAppended DEF Begun
  <1>6. EndsOnce'
    BY <1>1, <1>2, <1>3, <1>4 DEF EventsInv, EndsOnce
  <1>7. TurnEventsWellFormed'
    BY <1>4, <1>5 DEF EventsInv, TurnEventsWellFormed
  <1> QED
    BY <1>6, <1>7 DEF EventsInv

LEMMA InstallKeepsEvents ==
  ASSUME LoopInv, AbortInv, EventsInv, InstallTask("loop")
  PROVE  EventsInv'
  <1> DEFINE n == nturns + 1
             new == Task("begin", call["loop"].kind)
  <1>1. ~HasTask
    BY DEF LoopInv, InstallTask, Stopped
  <1>2. /\ turn' = [turn EXCEPT ![n] = new] /\ log' = log
        /\ call' = Goto("loop", Rest("loop"))
    BY <1>1 DEF InstallTask, HasTask
  <1>3. call'["loop"].pc \notin {"kill", "emit"}
    BY <1>2, RestPcs DEF Goto, AbortInv, AbortTypes, Callers, CallRecord
  <1>4. n \in Turns => log[n] = <<>>
    BY DEF AbortInv, AbortTypes, NoneToCome
  <1>5. new.pc = "begin"
    BY DEF Task
  <1> HIDE DEF n, new
  <1>6. \A u \in Turns : IF u = n THEN turn'[u].pc = "begin" ELSE turn'[u] = turn[u]
    BY <1>2, <1>5 DEF AbortInv, AbortTypes
  <1>7. EndsOnce'
    BY <1>2, <1>3, <1>4, <1>6 DEF EventsInv, EndsOnce, Begun
  <1> QED
    BY <1>2, <1>7 DEF EventsInv, TurnEventsWellFormed

LEMMA CallerKeepsEvents ==
  ASSUME LoopInv, AbortInv, EventsInv, NEW a \in Callers, CallerStep(a)
  PROVE  EventsInv'
  <1>0. a = "loop" /\ call["loop"] \in CallRecord /\ call \in [Callers -> CallRecord]
        /\ "loop" \in Callers
    BY DEF CallerStep, AbortAllTasks, AbortTurnIfActive, KillTask, EmitTurnAborted,
           ClearPending, MaybeStartTurn, ReserveTurn, GetPendingInput, InsertTurn,
           ExtendPendingInput, InstallTask, LoopInv, LoopTypes, Callers
  <1>1. CASE AbortAllTasks(a)
    BY <1>0, <1>1, CancelKeepsEvents
  <1>2. CASE AbortTurnIfActive(a)
    BY <1>0, <1>2 DEF AbortTurnIfActive, LoopInv
  <1>3. CASE KillTask(a)
    BY <1>0, <1>3, KillKeepsEvents
  <1>4. CASE EmitTurnAborted(a)
    BY <1>0, <1>4, EmitKeepsEvents
  <1>5. CASE InstallTask(a)
    BY <1>0, <1>5, InstallKeepsEvents
  <1>6. CASE \/ ClearPending(a) \/ MaybeStartTurn(a) \/ ReserveTurn(a)
             \/ GetPendingInput(a) \/ InsertTurn(a) \/ ExtendPendingInput(a)
    <2>1. UNCHANGED <<turn, log>>
      BY <1>6 DEF ClearPending, MaybeStartTurn, ReserveTurn, GetPendingInput, InsertTurn,
         ExtendPendingInput
    <2>2. call'["loop"].pc \notin {"kill", "emit"}
      BY <1>0, <1>6, RestPcs DEF ClearPending, MaybeStartTurn, ReserveTurn, GetPendingInput,
         InsertTurn, ExtendPendingInput, Goto, AfterAbort, CallRecord
    <2> QED
      BY <2>1, <2>2, EventsUnmoved
  <1> QED
    BY <1>1, <1>2, <1>3, <1>4, <1>5, <1>6 DEF CallerStep

(* A late task may report its start, even after its abort is reported.     *)
LEMMA LateKeepsEvents ==
  ASSUME AbortInv, EventsInv, NEW t \in Turns, LateStep(t)
  PROVE  EventsInv'
  <1>0. turn \in [Turns -> TurnRecord] /\ log \in [Turns -> Seq(Events)]
    BY DEF AbortInv, AbortTypes
  <1>1. /\ turn[t].pc = "late" /\ call' = call
        /\ log' = log \/ (/\ log[t] \in {<<>>, <<"aborted">>}
                         /\ log' = [log EXCEPT ![t] = Append(@, "started")])
    BY <1>0, LateSteps
  <1>2. PICK r \in TurnRecord : turn' = [turn EXCEPT ![t] = r] /\ r.pc \in {"late", "dead"}
    BY <1>0, LateSteps
  <1>3. turn'[t].pc \in {"late", "dead"} /\ \A u \in Turns : u # t => turn'[u] = turn[u]
    BY <1>0, <1>2
  <1>4. /\ \A u \in Turns : u # t => log'[u] = log[u]
        /\ \/ log'[t] = log[t]
           \/ log[t] = <<>> /\ log'[t] = <<"started">>
           \/ log[t] = <<"aborted">> /\ log'[t] = <<"aborted", "started">>
    <2>1. CASE log' = log
      BY <2>1
    <2>2. CASE /\ log[t] \in {<<>>, <<"aborted">>}
               /\ log' = [log EXCEPT ![t] = Append(@, "started")]
      <3>1. log'[t] = Append(log[t], "started") /\ \A u \in Turns : u # t => log'[u] = log[u]
        BY <1>0, <2>2
      <3> QED
        BY <2>2, <3>1, StartAppended
    <2> QED
      BY <1>1, <2>1, <2>2
  <1>5. EndsOnce'
    <2> SUFFICES ASSUME NEW u \in Turns
                 PROVE  /\ turn'[u].pc \in {"none", "begin"} => log'[u] = <<>>
                        /\ turn'[u].pc \notin {"clear", "done", "late", "dead"} =>
                             log'[u] \in Begun
                        /\ call'["loop"].pc \in {"kill", "emit"} /\ call'["loop"].turn = u =>
                             log'[u] \in Begun /\ turn'[u].pc \notin Finishing \cup {"none"}
      BY DEF EndsOnce
    <2>1. CASE u # t
      BY <1>1, <1>3, <1>4, <2>1 DEF EventsInv, EndsOnce
    <2>2. CASE u = t
      <3>1. ASSUME call["loop"].pc \in {"kill", "emit"}, call["loop"].turn = t
            PROVE  log'[t] \in Begun
        <4>1. log[t] \in Begun
          BY <3>1 DEF EventsInv, EndsOnce
        <4>2. <<"aborted">> \notin Begun
          BY DEF Begun
        <4> QED
          BY <1>4, <4>1, <4>2 DEF Begun
      <3> QED
        BY <1>1, <1>3, <2>2, <3>1 DEF Finishing
    <2> QED
      BY <2>1, <2>2
  <1>6. TurnEventsWellFormed'
    BY <1>4 DEF EventsInv, TurnEventsWellFormed
  <1> QED
    BY <1>5, <1>6 DEF EventsInv

LEMMA OperationKeepsEvents ==
  ASSUME LoopOnly, LoopInv, EventsInv, Operation
  PROVE  EventsInv'
  <1>0. call["loop"] \in CallRecord /\ call \in [Callers -> CallRecord] /\ "loop" \in Callers
    BY DEF LoopInv, LoopTypes, Callers
  <1>1. UNCHANGED <<turn, log>>
    BY DEF Operation, UserInput, SteerRequest, StandaloneTask, Interrupt,
           InterAgentCommunication, Inject, TryStartTurnIfIdle
  <1>2. \/ call' = call
        \/ \E p \in {"abort", "maybe"} : \E k, r : call' = [call EXCEPT !["loop"] = Call(p, 0, k, r)]
    <2>1. CASE TryStartTurnIfIdle
      BY <2>1 DEF TryStartTurnIfIdle, NewOp, LoopOnly
    <2> QED
      BY <2>1 DEF Operation, UserInput, SteerRequest, StandaloneTask, Interrupt,
         InterAgentCommunication, Inject
  <1>3. call'["loop"] = call["loop"] \/ call'["loop"].pc \in {"abort", "maybe"}
    BY <1>0, <1>2 DEF Call
  <1> QED
    BY <1>1, <1>3, EventsUnmoved

(* The order of events holds throughout when the submission loop alone     *)
(* starts and stops turns.                                                 *)
LEMMA LoopEvents == LoopOnly => (Spec => []EventsInv)
  <1> SUFFICES ASSUME LoopOnly PROVE Spec => []EventsInv
    OBVIOUS
  <1>1. Init => EventsInv
    BY DEF Init, EventsInv, EndsOnce, TurnEventsWellFormed, Begun, Task, Call, Callers
  <1>2. LoopInv /\ AbortInv /\ EventsInv /\ [Next]_vars => EventsInv'
    <2> SUFFICES ASSUME LoopInv, AbortInv, EventsInv, [Next]_vars PROVE EventsInv'
      OBVIOUS
    <2>1. CASE Operation
      BY <2>1, OperationKeepsEvents
    <2>2. CASE ExtStep
      BY <2>2 DEF ExtStep, TryReserve, Recheck, Confirm, Unreserve, Give, LoopInv
    <2>3. ASSUME NEW a \in Callers, CallerStep(a) PROVE EventsInv'
      BY <2>3, CallerKeepsEvents
    <2>4. ASSUME NEW t \in Turns, TaskStep(t) PROVE EventsInv'
      BY <2>4, TaskKeepsEvents
    <2>5. ASSUME NEW t \in Turns, GuardianDenial(t) PROVE EventsInv'
      BY <2>5 DEF GuardianDenial, NewOp, LoopOnly
    <2>6. CASE UNCHANGED vars
      BY <2>6, EventsUnmoved DEF vars
    <2>7. ASSUME NEW t \in Turns, LateStep(t) PROVE EventsInv'
      BY <2>7, LateKeepsEvents
    <2> QED
      BY <2>1, <2>2, <2>3, <2>4, <2>5, <2>6, <2>7 DEF Next, Waiting
  <1> QED
    BY <1>1, <1>2, LoopInvariant, AbortInvariant, PTL DEF Spec

(* When the submission loop alone starts and stops turns, a client sees of *)
(* each turn at most one TurnStarted and then at most one of TurnComplete  *)
(* and TurnAborted, although an abort races the task's own end throughout. *)
THEOREM LoopEventsWellFormed == LoopOnly => (Spec => []TurnEventsWellFormed)
  <1> SUFFICES ASSUME LoopOnly PROVE Spec => []TurnEventsWellFormed
    OBVIOUS
  <1>1. EventsInv => TurnEventsWellFormed
    BY DEF EventsInv
  <1> QED
    BY <1>1, LoopEvents, PTL

-----------------------------------------------------------------------------
(* Who will give up or use an active turn that has no task: the loop that  *)
(* is starting one, or the task that finished in it and is to clear it.    *)
Starting == {"pending", "insert", "extend", "install"}
ClearedBy(t) == turn[t].pc \in Finishing /\ turn[t].ts = active.ts
GivenUp ==
    active.ts # 0 /\ active.task = 0 =>
        call["loop"].pc \in Starting \/ \E t \in Turns : ClearedBy(t)

(* Steps that leave the active turn and the finishing tasks alone.         *)
LEMMA GivenUpKept ==
  ASSUME GivenUp, active' = active \/ active'.ts = 0 \/ active'.task # 0,
         call["loop"].pc \in Starting => call'["loop"].pc \in Starting \/ active'.task # 0
                                            \/ active'.ts = 0,
         \A t \in Turns : turn[t].pc \in Finishing =>
             turn'[t].pc \in Finishing /\ turn'[t].ts = turn[t].ts
  PROVE  GivenUp'
  BY DEF GivenUp, ClearedBy

LEMMA TaskGivesUp ==
  ASSUME LoopInv, GivenUp, NEW t \in Turns, TaskStep(t)
  PROVE  GivenUp'
  <1>0. /\ turn \in [Turns -> TurnRecord] /\ turn[t] \in TurnRecord
        /\ active \in [task : Turns \cup {0}, ts : Nat]
    BY DEF LoopInv, LoopTypes
  <1>1. PICK r \in TurnRecord : turn' = [turn EXCEPT ![t] = r]
    BY <1>0, TaskRecords
  <1>2. \A u \in Turns : u # t => turn'[u] = turn[u]
    BY <1>0, <1>1
  <1>3. call' = call
    BY DEF TaskStep, BeginTask, StandaloneWork, RunTurn, DrainPendingInput, RecordInputs,
           FinalAnswer, ToolCall, RetryWithoutImages, SamplingFails, AfterSampling,
           RunAgain, FlushRollout, TakeTask, SettleInput, SendTurnComplete,
           ClearActiveTurn, TaskUnchanged
  <1>4. CASE TakeTask(t) /\ HasTask
    <2>1. /\ active' = [active EXCEPT !.task = 0]
          /\ turn' = [turn EXCEPT ![t].ts = active.ts, ![t].pc = "settle"]
      BY <1>4 DEF TakeTask
    <2>2. active'.ts = active.ts
      BY <1>0, <2>1
    <2>3. turn'[t].ts = active.ts /\ turn'[t].pc = "settle"
      BY <1>0, <2>1 DEF TurnRecord
    <2> QED
      BY <2>2, <2>3 DEF GivenUp, ClearedBy, Finishing
  <1>5. CASE ClearActiveTurn(t)
    <2>1. /\ turn[t].pc = "clear"
          /\ active' = IF active = [task |-> 0, ts |-> turn[t].ts] THEN NoTurn ELSE active
      BY <1>5 DEF ClearActiveTurn
    <2>2. CASE active' = NoTurn
      BY <2>2 DEF NoTurn, GivenUp
    <2>3. CASE active' = active /\ active # [task |-> 0, ts |-> turn[t].ts]
      <3>1. active.task = 0 => active.ts # turn[t].ts
        BY <1>0, <2>3
      <3>2. ASSUME active.ts # 0, active.task = 0, call["loop"].pc \notin Starting
            PROVE  \E u \in Turns : ClearedBy(u)'
        <4>1. PICK u \in Turns : ClearedBy(u)
          BY <3>2 DEF GivenUp
        <4>2. u # t
          BY <3>1, <3>2, <4>1 DEF ClearedBy
        <4> QED
          BY <1>2, <2>3, <4>1, <4>2 DEF ClearedBy
      <3> QED
        BY <1>3, <2>3, <3>2 DEF GivenUp
    <2> QED
      BY <2>1, <2>2, <2>3
  <1>6. CASE ~(TakeTask(t) /\ HasTask) /\ ~ClearActiveTurn(t)
    <2>1. active' = active
      BY <1>6 DEF TaskStep, BeginTask, StandaloneWork, RunTurn, DrainPendingInput,
           RecordInputs, FinalAnswer, ToolCall, RetryWithoutImages, SamplingFails,
           AfterSampling, RunAgain, FlushRollout, TakeTask, SettleInput, SendTurnComplete
    <2>2. ASSUME turn[t].pc \in Finishing
          PROVE  turn'[t].pc \in Finishing /\ turn'[t].ts = turn[t].ts
      BY <1>0, <1>6, <2>2 DEF TaskStep, BeginTask, StandaloneWork, RunTurn,
           DrainPendingInput, RecordInputs, FinalAnswer, ToolCall, RetryWithoutImages,
           SamplingFails, AfterSampling, RunAgain, FlushRollout, TakeTask, SettleInput,
           SendTurnComplete, Finishing, Step, TurnRecord
    <2> QED
      BY <1>2, <1>3, <2>1, <2>2, GivenUpKept
  <1> QED
    BY <1>4, <1>5, <1>6

LEMMA CallerGivesUp ==
  ASSUME LoopInv, AbortInv, EventsInv, GivenUp, NEW a \in Callers, CallerStep(a)
  PROVE  GivenUp'
  <1> USE TurnAssumption
  <1>0. /\ a = "loop" /\ call["loop"] \in CallRecord /\ call \in [Callers -> CallRecord]
        /\ "loop" \in Callers /\ turn \in [Turns -> TurnRecord] /\ nturns \in Nat
        /\ active \in [task : Turns \cup {0}, ts : Nat] /\ nstates \in Nat
    BY DEF CallerStep, AbortAllTasks, AbortTurnIfActive, KillTask, EmitTurnAborted,
           ClearPending, MaybeStartTurn, ReserveTurn, GetPendingInput, InsertTurn,
           ExtendPendingInput, InstallTask, LoopInv, LoopTypes, Callers
  <1>1. CASE AbortAllTasks(a)
    BY <1>1 DEF AbortAllTasks, NoTurn, GivenUp
  <1>2. CASE AbortTurnIfActive(a)
    BY <1>0, <1>2 DEF AbortTurnIfActive, LoopInv
  <1>3. CASE KillTask(a)
    <2> DEFINE k == call["loop"].turn
    <2>0. PICK p \in AbortedPcs(k) : turn' = Step(k, p)
      BY <1>0, <1>3 DEF KillTask
    <2>1. /\ call["loop"].pc = "kill" /\ k \in Turns /\ active' = active
      BY <1>0, <1>3 DEF KillTask, LoopInv
    <2>2. turn[k].pc \notin Finishing
      BY <2>1 DEF EventsInv, EndsOnce
    <2> HIDE DEF k
    <2>3. \A u \in Turns : u # k => turn'[u] = turn[u]
      BY <1>0, <2>0, AbortedTurn
    <2> QED
      BY <2>1, <2>2, <2>3, GivenUpKept DEF Starting
  <1>4. CASE \/ EmitTurnAborted(a) \/ ClearPending(a) \/ MaybeStartTurn(a)
    <2>1. active' = active /\ turn' = turn /\ call["loop"].pc \notin Starting
      BY <1>0, <1>4 DEF EmitTurnAborted, ClearPending, MaybeStartTurn, Starting
    <2> QED
      BY <2>1, GivenUpKept
  <1>5. CASE GetPendingInput(a) \/ ExtendPendingInput(a)
    <2>1. active' = active /\ turn' = turn /\ call'["loop"].pc \in Starting
      BY <1>0, <1>5 DEF GetPendingInput, ExtendPendingInput, Goto, Starting, CallRecord
    <2> QED
      BY <2>1, GivenUpKept
  <1>6. CASE ReserveTurn(a)
    <2>1. CASE active.ts # 0
      <3>1. active' = active /\ turn' = turn /\ call["loop"].pc \notin Starting
        BY <1>0, <1>6, <2>1 DEF ReserveTurn, Starting
      <3> QED
        BY <3>1, GivenUpKept
    <2>2. CASE active.ts = 0
      <3>1. call'["loop"].pc = "pending"
        BY <1>0, <1>6, <2>2 DEF ReserveTurn, CallRecord
      <3> QED
        BY <3>1 DEF GivenUp, Starting
    <2> QED
      BY <2>1, <2>2
  <1>7. CASE InsertTurn(a)
    <2>1. call'["loop"].pc = "extend"
      BY <1>0, <1>7 DEF InsertTurn, CallRecord
    <2> QED
      BY <2>1 DEF GivenUp, Starting
  <1>8. CASE InstallTask(a)
    <2>1. active' = [get_or_insert EXCEPT !.task = nturns + 1]
      BY <1>8 DEF InstallTask
    <2>2. "task" \in DOMAIN get_or_insert
      BY <1>0 DEF get_or_insert
    <2>3. active'.task = nturns + 1
      BY <2>1, <2>2
    <2> QED
      BY <1>0, <2>3 DEF GivenUp
  <1> QED
    BY <1>1, <1>2, <1>3, <1>4, <1>5, <1>6, <1>7, <1>8 DEF CallerStep

(* An active turn without a task always has somebody who ends it.          *)
LEMMA LoopGivesUp == LoopOnly => (Spec => []GivenUp)
  <1> SUFFICES ASSUME LoopOnly PROVE Spec => []GivenUp
    OBVIOUS
  <1>1. Init => GivenUp
    BY DEF Init, GivenUp, NoTurn
  <1>2. LoopInv /\ AbortInv /\ EventsInv /\ GivenUp /\ [Next]_vars => GivenUp'
    <2> SUFFICES ASSUME LoopInv, AbortInv, EventsInv, GivenUp, [Next]_vars PROVE GivenUp'
      OBVIOUS
    <2>1. CASE Operation
      <3>1. UNCHANGED <<active, turn>>
        BY <2>1 DEF Operation, UserInput, SteerRequest, StandaloneTask, Interrupt,
           InterAgentCommunication, Inject, TryStartTurnIfIdle
      <3>2. CASE TryStartTurnIfIdle
        BY <3>2 DEF TryStartTurnIfIdle, NewOp, LoopOnly
      <3>3. CASE ~TryStartTurnIfIdle
        <4>1. call' = call \/ call["loop"].pc = "idle"
          BY <2>1, <3>3 DEF Operation, UserInput, SteerRequest, StandaloneTask, Interrupt,
             InterAgentCommunication, Inject, LoopFree
        <4> QED
          BY <3>1, <4>1, GivenUpKept DEF Starting
      <3> QED
        BY <3>2, <3>3
    <2>2. CASE ExtStep
      BY <2>2 DEF ExtStep, TryReserve, Recheck, Confirm, Unreserve, Give, LoopInv
    <2>3. ASSUME NEW a \in Callers, CallerStep(a) PROVE GivenUp'
      BY <2>3, CallerGivesUp
    <2>4. ASSUME NEW t \in Turns, TaskStep(t) PROVE GivenUp'
      BY <2>4, TaskGivesUp
    <2>5. ASSUME NEW t \in Turns, GuardianDenial(t) PROVE GivenUp'
      BY <2>5 DEF GuardianDenial, NewOp, LoopOnly
    <2>6. CASE UNCHANGED vars
      BY <2>6, GivenUpKept DEF vars
    <2>7. ASSUME NEW t \in Turns, LateStep(t) PROVE GivenUp'
      <3>0. turn \in [Turns -> TurnRecord]
        BY DEF AbortInv, AbortTypes
      <3>1. turn[t].pc = "late" /\ active' = active /\ call' = call
        BY <2>7, <3>0, LateSteps
      <3>2. PICK r \in TurnRecord : turn' = [turn EXCEPT ![t] = r]
        BY <2>7, <3>0, LateSteps
      <3>3. \A u \in Turns : u # t => turn'[u] = turn[u]
        BY <3>0, <3>2
      <3> QED
        BY <3>1, <3>3, GivenUpKept DEF Finishing
    <2> QED
      BY <2>1, <2>2, <2>3, <2>4, <2>5, <2>6, <2>7 DEF Next, Waiting
  <1> QED
    BY <1>1, <1>2, LoopInvariant, AbortInvariant, LoopEvents, PTL DEF Spec

(* When the submission loop alone starts and stops turns, a session in     *)
(* which nothing is under way has no active turn: no reserved or finished  *)
(* turn stays behind and makes every later wake-up believe it is busy.     *)
THEOREM LoopNotWedged == LoopOnly => (Spec => []NotWedged)
  <1> SUFFICES ASSUME LoopOnly PROVE Spec => []NotWedged
    OBVIOUS
  <1>1. LoopInv /\ GivenUp => NotWedged
    <2> SUFFICES ASSUME LoopInv, GivenUp, \A a \in Callers : call[a].pc \in {"idle", "closed"},
                        \A t \in Turns : turn[t].pc \in Over
                 PROVE  active = NoTurn
      BY DEF NotWedged
    <2>1. active.task = 0
      BY DEF LoopInv, HasTask, Running
    <2>2. active.ts = 0
      BY <2>1 DEF GivenUp, ClearedBy, Starting, Over, Finishing, Callers
    <2> QED
      BY <2>1, <2>2 DEF LoopInv, LoopTypes, NoTurn
  <1> QED
    BY <1>1, LoopInvariant, LoopGivesUp, PTL
=============================================================================
