--------------------------- MODULE TurnLifecycle ---------------------------
(***************************************************************************)
(* How one session runs turns (core/src/tasks/mod.rs, tasks/regular.rs,    *)
(* session/turn.rs, session/input_queue.rs, session/inject.rs and the      *)
(* handlers of session/handlers.rs that start, steer or stop a turn).      *)
(*                                                                         *)
(* Session.active_turn is a mutex around Option<ActiveTurn>: a running     *)
(* task, if one is installed, and an Arc of the turn's TurnState.  Several *)
(* asynchronous actors take that lock for a moment, let it go, await, and  *)
(* go on with what they saw: the submission loop ("loop"), the abort that  *)
(* the guardian's circuit breaker spawns ("guard"), an extension that asks *)
(* for a turn when the thread is idle ("ext"), and the tasks themselves.   *)
(* A step here is one locked section, or one effect between two awaits.    *)
(*                                                                         *)
(* An item of input is the number of the operation that brought it, and    *)
(* `where` says in which queue or local variable it is.                    *)
(***************************************************************************)
EXTENDS Integers, FiniteSets, Sequences

CONSTANTS
    Ops,       \* which operations occur, a subset of AllOps
    MaxOps,    \* bound on the operations of a behaviour
    MaxFuel,   \* bound on a turn's tool calls, repeated requests and hook rounds
    MidPoll    \* where an abort may find its task in the middle of a poll

AllOps == {"user", "steer", "mail", "trigger", "inject", "idle", "guard",
           "compact", "review", "shell", "interrupt", "shutdown"}

(* The places of a task before its last look at the cancellation token.    *)
BeforeFlush == {"begin", "run", "drain", "record", "sample", "sampled", "outer",
                "work", "flush"}

ASSUME TurnAssumption ==
    /\ Ops \subseteq AllOps /\ MaxOps \in Nat /\ MaxFuel \in Nat
    /\ MidPoll \subseteq BeforeFlush

Items == 1 .. MaxOps
Turns == 1 .. MaxOps             \* an operation starts at most one turn
States == 1 .. (4 * MaxOps)      \* and creates at most four turn states
Callers == {"loop", "guard", "ext"}

VARIABLES
    active,    \* Session.active_turn: [task, ts], 0 for an absent part
    nstates,   \* turn states created so far
    nturns,    \* tasks installed so far
    nops,      \* operations so far
    op,        \* op[i] is what the i-th operation was
    where,     \* where[i] is the place of the i-th operation's input
    phase,     \* TurnState.mailbox_delivery_phase
    turn,      \* the tasks
    log,       \* log[t] is the sequence of lifecycle events of turn t
    call       \* the callers' program counters and locals

vars == <<active, nstates, nturns, nops, op, where, phase, turn, log, call>>

NoTurn == [task |-> 0, ts |-> 0]
HasTask == active.task # 0

(* The places of an item: not an item, the mailbox, the pending input of a *)
(* turn state, a caller's argument, the items start_task took, a task's    *)
(* initial input, a task's drained input, the history, refused to the      *)
(* sender, or dropped.                                                     *)
Nowhere == <<"none", 0>>
Mailbox == <<"mailbox", 0>>
PendingIn(ts) == <<"pending", ts>>
Argument(a) == <<"argument", a>>
Taken(a) == <<"taken", a>>
InputOf(t) == <<"input", t>>
LocalOf(t) == <<"local", t>>
Recorded == <<"recorded", 0>>
Refused == <<"refused", 0>>
Dropped == <<"dropped", 0>>
Places ==
    {Nowhere, Mailbox, Recorded, Refused, Dropped}
      \cup {PendingIn(ts) : ts \in States}
      \cup {Argument(a) : a \in Callers} \cup {Taken(a) : a \in Callers}
      \cup {InputOf(t) : t \in Turns} \cup {LocalOf(t) : t \in Turns}

At(place) == {i \in Items : where[i] = place}
Moved(S, place) == [i \in Items |-> IF i \in S THEN place ELSE where[i]]
TriggerMail == {i \in At(Mailbox) : op[i] = "trigger"}
IsUserInput(i) == op[i] \in {"user", "steer"}

(* What get_pending_input hands out: the pending input of the turn that is *)
(* active, whoever asks, and the mailbox unless that turn defers it.       *)
AcceptsMailbox == active.ts = 0 \/ phase[active.ts] = "CurrentTurn"
get_pending_input ==
    (IF active.ts = 0 THEN {} ELSE At(PendingIn(active.ts)))
      \cup (IF AcceptsMailbox THEN At(Mailbox) ELSE {})
has_pending_input == get_pending_input # {}

TurnPcs == {"none", "begin", "run", "drain", "record", "sample", "sampled",
            "outer", "work", "flush", "finish", "settle", "complete", "clear",
            "done", "late", "dead"}
TurnKinds == {"Regular", "Shell", "Compact", "Review"}
CallPcs == {"idle", "closed", "abort", "abortIf", "kill", "drop", "emit",
            "unqueue", "maybe", "reserve", "pending", "insert", "extend",
            "install", "tryReserve", "recheck", "confirm", "unreserve", "give"}
Reasons == {"Replaced", "Interrupted", "Shutdown", "Work"}

(* TaskKind of the task: a user shell command counts as Regular.           *)
Steerable(t) == turn[t].kind \in {"Regular", "Shell"}

Task(pc, k) == [pc |-> pc, kind |-> k, ts |-> 0, canDrain |-> FALSE,
                followUp |-> FALSE, cancelled |-> FALSE, fuel |-> MaxFuel]
Call(pc, t, k, r) == [pc |-> pc, turn |-> t, ts |-> 0, kind |-> k, reason |-> r]

Init ==
    /\ active = NoTurn
    /\ nstates = 0 /\ nturns = 0 /\ nops = 0
    /\ op = [i \in Items |-> "none"]
    /\ where = [i \in Items |-> Nowhere]
    /\ phase = [ts \in States |-> "CurrentTurn"]
    /\ turn = [t \in Turns |-> Task("none", "Regular")]
    /\ log = [t \in Turns |-> <<>>]
    /\ call = [a \in Callers |-> Call("idle", 0, "Regular", "Work")]

-----------------------------------------------------------------------------
(* Operations.  Each consumes a number; Item is the input it brings.       *)
Item == nops + 1
NewOp(k) ==
    /\ k \in Ops
    /\ nops < MaxOps
    /\ nops' = nops + 1
    /\ op' = [op EXCEPT ![nops + 1] = k]
LoopFree == call["loop"].pc = "idle"

(* steer_input, under the lock: a steered prompt joins the pending input   *)
(* and reopens the turn to mail.                                           *)
CanSteer == HasTask /\ Steerable(active.task)
steer_input ==
    /\ CanSteer
    /\ where' = [where EXCEPT ![Item] = PendingIn(active.ts)]
    /\ phase' = [phase EXCEPT ![active.ts] = "CurrentTurn"]

(* user_input_or_turn_inner: steer, or start a turn when no task is        *)
(* installed.  A refusal tells the client why (bad settings, or a turn     *)
(* that cannot be steered).                                                *)
UserInput ==
    /\ LoopFree /\ NewOp("user")
    /\ \/ steer_input /\ UNCHANGED call
       \/ /\ ~HasTask
          /\ where' = [where EXCEPT ![Item] = Argument("loop")]
          /\ call' = [call EXCEPT !["loop"] = Call("abort", 0, "Regular", "Replaced")]
          /\ UNCHANGED phase
       \/ /\ where' = [where EXCEPT ![Item] = Refused]
          /\ UNCHANGED <<call, phase>>
    /\ UNCHANGED <<active, nstates, nturns, turn, log>>

(* turn/steer of the app server reaches steer_input without the loop.      *)
SteerRequest ==
    /\ NewOp("steer")
    /\ \/ steer_input
       \/ ~CanSteer /\ where' = [where EXCEPT ![Item] = Refused] /\ UNCHANGED phase
    /\ UNCHANGED <<active, nstates, nturns, turn, log, call>>

KindOf(k) ==
    CASE k = "compact" -> "Compact" [] k = "review" -> "Review" [] k = "shell" -> "Shell"

(* compact and review replace the running task, unless the review request  *)
(* is refused; a shell command runs beside it instead, and reports through *)
(* inject_no_new_turn.                                                     *)
StandaloneTask ==
    /\ LoopFree
    /\ \E k \in {"compact", "review", "shell"} :
         /\ NewOp(k)
         /\ \/ /\ k = "shell" => ~HasTask
               /\ call' = [call EXCEPT !["loop"] = Call("abort", 0, KindOf(k), "Replaced")]
            \/ /\ k = "review" \/ (k = "shell" /\ HasTask)
               /\ UNCHANGED call
    /\ UNCHANGED <<active, nstates, nturns, where, phase, turn, log>>

(* Op::Interrupt, and Op::Shutdown, which ends the loop afterwards.        *)
Interrupt ==
    /\ LoopFree
    /\ \E k \in {"interrupt", "shutdown"} :
         /\ NewOp(k)
         /\ call' = [call EXCEPT !["loop"] =
              Call("abort", 0, "Regular",
                   IF k = "shutdown" THEN "Shutdown" ELSE "Interrupted")]
    /\ UNCHANGED <<active, nstates, nturns, where, phase, turn, log>>

(* inter_agent_communication: mail is queued, and mail marked trigger_turn *)
(* wakes an idle session.                                                  *)
InterAgentCommunication ==
    /\ LoopFree
    /\ \E k \in {"mail", "trigger"} :
         /\ NewOp(k)
         /\ call' = IF k = "mail" THEN call
                    ELSE [call EXCEPT !["loop"] = Call("maybe", 0, "Regular", "Work")]
    /\ where' = [where EXCEPT ![Item] = Mailbox]
    /\ UNCHANGED <<active, nstates, nturns, phase, turn, log>>

(* inject_no_new_turn: into the pending input of whatever is active, else  *)
(* straight into the history.                                              *)
Inject ==
    /\ NewOp("inject")
    /\ where' = [where EXCEPT ![Item] =
                   IF active.ts # 0 THEN PendingIn(active.ts) ELSE Recorded]
    /\ UNCHANGED <<active, nstates, nturns, phase, turn, log, call>>

-----------------------------------------------------------------------------
(* Stopping a turn.  A caller that has nothing left to do rests; the loop  *)
(* rests for good after a shutdown.                                        *)
Goto(a, pc) == [call EXCEPT ![a].pc = pc]
Rest(a) == IF call[a].reason = "Shutdown" THEN "closed" ELSE "idle"
AfterAbort(a) == IF call[a].reason = "Replaced" THEN "pending" ELSE "maybe"

(* handle_task_abort up to its wait: the token is cancelled.  If it was    *)
(* already, the task is dropped at once, which aborts it without an event. *)
(* Slip: the caller goes on without waiting for the task or aborting it.   *)
CancelTaskOnly(a, t) ==
    /\ turn' = [turn EXCEPT ![t].cancelled = TRUE]
    /\ call' = [call EXCEPT ![a].turn = t, ![a].ts = active.ts, ![a].pc = "unqueue"]

CancelTask(a, t) ==
    /\ turn' = [turn EXCEPT ![t].cancelled = TRUE]
    /\ call' = [call EXCEPT ![a].turn = t, ![a].ts = active.ts,
                            ![a].pc = IF turn[t].cancelled THEN "drop" ELSE "kill"]

(* abort_all_tasks takes the active turn.  A turn without a task is just   *)
(* dropped: it was reserved, or its task is finishing.                     *)
AbortAllTasks(a) ==
    /\ call[a].pc = "abort"
    /\ IF HasTask THEN CancelTask(a, active.task)
       ELSE /\ call' = Goto(a, IF call[a].reason = "Replaced" THEN "pending" ELSE Rest(a))
            /\ UNCHANGED turn
    /\ active' = NoTurn
    /\ UNCHANGED <<nstates, nturns, nops, op, where, phase, log>>

(* abort_turn_if_active takes the active turn only if it is the one named. *)
(* Slip: it aborts the task but leaves it installed.                       *)
AbortTurnLeftActive(a) ==
    /\ call[a].pc = "abortIf"
    /\ IF active.task = call[a].turn
       THEN CancelTask(a, active.task) ELSE call' = Goto(a, "idle") /\ UNCHANGED turn
    /\ UNCHANGED <<active, nstates, nturns, nops, op, where, phase, log>>

AbortTurnIfActive(a) ==
    /\ call[a].pc = "abortIf"
    /\ IF active.task = call[a].turn
       THEN CancelTask(a, active.task) /\ active' = NoTurn
       ELSE call' = Goto(a, "idle") /\ UNCHANGED <<active, turn>>
    /\ UNCHANGED <<nstates, nturns, nops, op, where, phase, log>>

Step(t, pc) == [turn EXCEPT ![t].pc = pc]
HeldBy(t) == At(InputOf(t)) \cup At(LocalOf(t))

(* JoinHandle::abort, which nobody waits for: a task that awaits something *)
(* stops where it stands, with the input it holds; one in the middle of a  *)
(* poll is late, and stops when that poll ends (LateStep).                 *)
AbortedPcs(t) ==
    {IF turn[t].pc = "done" THEN "done" ELSE "dead"}
      \cup (IF turn[t].pc \in MidPoll THEN {"late"} ELSE {})
LostWith(t, p) == IF p = "late" THEN {} ELSE HeldBy(t)

(* The task is done, or the grace period is over: it is aborted.           *)
KillTask(a) ==
    /\ call[a].pc \in {"kill", "drop"}
    /\ \E p \in AbortedPcs(call[a].turn) :
          /\ turn' = Step(call[a].turn, p)
          /\ where' = Moved(LostWith(call[a].turn, p), Dropped)
    /\ call' = Goto(a, IF call[a].pc = "kill" THEN "emit" ELSE "unqueue")
    /\ UNCHANGED <<active, nstates, nturns, nops, op, phase, log>>


EmitTurnAborted(a) ==
    /\ call[a].pc = "emit"
    /\ log' = [log EXCEPT ![call[a].turn] = Append(@, "aborted")]
    /\ call' = Goto(a, "unqueue")
    /\ UNCHANGED <<active, nstates, nturns, nops, op, where, phase, turn>>

ClearPending(a) ==
    /\ call[a].pc = "unqueue"
    /\ where' = Moved(At(PendingIn(call[a].ts)), Dropped)
    /\ call' = Goto(a, AfterAbort(a))
    /\ UNCHANGED <<active, nstates, nturns, nops, op, phase, turn, log>>

-----------------------------------------------------------------------------
(* Starting a turn.  maybe_start_turn_for_pending_work looks for mail that *)
(* triggers, then reserves the active turn if there is none.               *)
MaybeStartTurn(a) ==
    /\ call[a].pc = "maybe"
    /\ call' = Goto(a, IF TriggerMail # {} THEN "reserve" ELSE Rest(a))
    /\ UNCHANGED <<active, nstates, nturns, nops, op, where, phase, turn, log>>

NewState == nstates + 1
(* Slip: the turn is reserved although one is active.                      *)
ReserveTurnUnchecked(a) ==
    /\ call[a].pc = "reserve"
    /\ active' = IF active.ts # 0 THEN active ELSE [task |-> 0, ts |-> NewState]
    /\ nstates' = IF active.ts # 0 THEN nstates ELSE NewState
    /\ call' = [call EXCEPT ![a].pc = "pending", ![a].kind = "Regular"]
    /\ UNCHANGED <<nturns, nops, op, where, phase, turn, log>>

ReserveTurn(a) ==
    /\ call[a].pc = "reserve"
    /\ IF active.ts # 0
       THEN call' = Goto(a, Rest(a)) /\ UNCHANGED <<active, nstates>>
       ELSE /\ active' = [task |-> 0, ts |-> NewState]
            /\ nstates' = NewState
            /\ call' = [call EXCEPT ![a].pc = "pending", ![a].kind = "Regular"]
    /\ UNCHANGED <<nturns, nops, op, where, phase, turn, log>>

(* start_task: the input that waits, then get_or_insert the active turn,   *)
(* then give it that input, then get_or_insert again and install the task. *)
GetPendingInput(a) ==
    /\ call[a].pc = "pending"
    /\ where' = Moved(get_pending_input, Taken(a))
    /\ call' = Goto(a, "insert")
    /\ UNCHANGED <<active, nstates, nturns, nops, op, phase, turn, log>>

get_or_insert == IF active.ts # 0 THEN active ELSE [task |-> 0, ts |-> NewState]
(* Slip: the active turn is read but not inserted.                         *)
InsertTurnMissing(a) ==
    /\ call[a].pc = "insert"
    /\ call' = [call EXCEPT ![a].ts = active.ts, ![a].pc = "extend"]
    /\ UNCHANGED <<active, nstates, nturns, nops, op, where, phase, turn, log>>

InsertTurn(a) ==
    /\ call[a].pc = "insert"
    /\ active' = get_or_insert
    /\ nstates' = IF active.ts # 0 THEN nstates ELSE NewState
    /\ call' = [call EXCEPT ![a].ts = get_or_insert.ts, ![a].pc = "extend"]
    /\ UNCHANGED <<nturns, nops, op, where, phase, turn, log>>

ExtendPendingInput(a) ==
    /\ call[a].pc = "extend"
    /\ where' = Moved(At(Taken(a)), PendingIn(call[a].ts))
    /\ call' = Goto(a, "install")
    /\ UNCHANGED <<active, nstates, nturns, nops, op, phase, turn, log>>

(* A task that is still installed is replaced; dropping its handle aborts  *)
(* it without a word.                                                      *)
InstallTask(a) ==
    /\ call[a].pc = "install"
    /\ LET n == nturns + 1
           old == active.task
       IN \E p \in IF old = 0 THEN {"none"} ELSE AbortedPcs(old) :
          LET rest == IF old = 0 THEN turn ELSE Step(old, p)
              lost == IF old = 0 THEN {} ELSE LostWith(old, p)
          IN /\ nturns' = n
             /\ active' = [get_or_insert EXCEPT !.task = n]
             /\ turn' = [rest EXCEPT ![n] = Task("begin", call[a].kind)]
             /\ where' = [i \in Items |-> IF i \in lost THEN Dropped
                                          ELSE IF i \in At(Argument(a)) THEN InputOf(n)
                                          ELSE where[i]]
    /\ nstates' = IF active.ts # 0 THEN nstates ELSE NewState
    /\ call' = Goto(a, Rest(a))
    /\ UNCHANGED <<nops, op, phase, log>>

-----------------------------------------------------------------------------
(* try_start_turn_if_idle, called by the goal extension.  Plan mode is a   *)
(* choice of the user, so that refusal may come at either check.           *)
TryStartTurnIfIdle ==
    /\ call["ext"].pc = "idle" /\ NewOp("idle")
    /\ \/ /\ where' = [where EXCEPT ![Item] = Refused]
          /\ UNCHANGED call
       \/ /\ TriggerMail = {}
          /\ where' = [where EXCEPT ![Item] = Argument("ext")]
          /\ call' = [call EXCEPT !["ext"] = Call("tryReserve", 0, "Regular", "Work")]
    /\ UNCHANGED <<active, nstates, nturns, phase, turn, log>>

RefuseIdle(next) ==
    /\ where' = Moved(At(Argument("ext")), Refused)
    /\ call' = Goto("ext", next)

TryReserve ==
    /\ call["ext"].pc = "tryReserve"
    /\ IF active.ts # 0
       THEN RefuseIdle("idle") /\ UNCHANGED <<active, nstates>>
       ELSE /\ active' = [task |-> 0, ts |-> NewState]
            /\ nstates' = NewState
            /\ call' = [call EXCEPT !["ext"].ts = NewState, !["ext"].pc = "recheck"]
            /\ UNCHANGED where
    /\ UNCHANGED <<nturns, nops, op, phase, turn, log>>

StillReserved == active.task = 0 /\ active.ts = call["ext"].ts

Recheck ==
    /\ call["ext"].pc = "recheck"
    /\ \/ /\ RefuseIdle("maybe")
          /\ active' = IF StillReserved THEN NoTurn ELSE active
       \/ /\ TriggerMail = {}
          /\ call' = Goto("ext", "confirm")
          /\ UNCHANGED <<active, where>>
    /\ UNCHANGED <<nstates, nturns, nops, op, phase, turn, log>>

Confirm ==
    /\ call["ext"].pc = "confirm"
    /\ call' = Goto("ext", IF StillReserved THEN "give" ELSE "unreserve")
    /\ UNCHANGED <<active, nstates, nturns, nops, op, where, phase, turn, log>>

Unreserve ==
    /\ call["ext"].pc = "unreserve"
    /\ active' = IF StillReserved THEN NoTurn ELSE active
    /\ RefuseIdle("idle")
    /\ UNCHANGED <<nstates, nturns, nops, op, phase, turn, log>>

Give ==
    /\ call["ext"].pc = "give"
    /\ where' = Moved(At(Argument("ext")), PendingIn(call["ext"].ts))
    /\ call' = Goto("ext", "pending")
    /\ UNCHANGED <<active, nstates, nturns, nops, op, phase, turn, log>>

-----------------------------------------------------------------------------
(* The tasks.                                                              *)
TaskUnchanged == UNCHANGED <<nstates, nturns, nops, op, call>>

(* TurnStarted is the first thing a task sends; a review sends none.  A    *)
(* regular turn may find itself cancelled while it waits for the prewarm.  *)
BeginTask(t) ==
    /\ turn[t].pc = "begin"
    /\ log' = IF turn[t].kind = "Review" THEN log
              ELSE [log EXCEPT ![t] = Append(@, "started")]
    /\ \/ /\ turn' = Step(t, IF turn[t].kind = "Regular" THEN "run" ELSE "work")
          /\ UNCHANGED where
       \/ /\ turn[t].kind = "Regular" /\ turn[t].cancelled
          /\ turn' = Step(t, "flush")
          /\ where' = Moved(HeldBy(t), Dropped)
    /\ UNCHANGED <<active, phase>> /\ TaskUnchanged

(* CompactTask, ReviewTask and UserShellCommandTask take no pending input. *)
StandaloneWork(t) ==
    /\ turn[t].pc = "work"
    /\ turn' = Step(t, "flush")
    /\ UNCHANGED <<active, where, phase, log>> /\ TaskUnchanged

(* run_hooks_and_record_inputs: a hook may block a prompt, never mail.     *)
(* Stops says that some prompt was blocked and none was let through.       *)
Record(S, B) ==
    where' = [i \in Items |-> IF i \in B THEN Dropped
                              ELSE IF i \in S THEN Recorded ELSE where[i]]
Prompts(S) == {i \in S : IsUserInput(i)}
Stops(S, B) == B # {} /\ Prompts(S) \subseteq B

(* run_turn before its loop.  Pre-sampling compaction or a session start   *)
(* hook may end it before its input is recorded, at every attempt.         *)
RunTurn(t) ==
    /\ turn[t].pc = "run"
    /\ LET S == At(InputOf(t)) IN
       \/ \E B \in SUBSET Prompts(S) :
            /\ Record(S, B)
            /\ turn' = [turn EXCEPT ![t].canDrain = (S = {}),
                           ![t].pc = IF Stops(S, B) THEN "outer" ELSE "drain"]
       \/ where' = Moved(S, Dropped) /\ turn' = Step(t, "outer")
    /\ UNCHANGED <<active, phase, log>> /\ TaskUnchanged

DrainPendingInput(t) ==
    /\ turn[t].pc = "drain"
    /\ where' = IF turn[t].canDrain THEN Moved(get_pending_input, LocalOf(t)) ELSE where
    /\ turn' = Step(t, "record")
    /\ UNCHANGED <<active, phase, log>> /\ TaskUnchanged

RecordInputs(t) ==
    /\ turn[t].pc = "record"
    /\ LET S == At(LocalOf(t)) IN
       \E B \in SUBSET Prompts(S) :
          /\ Record(S, B)
          /\ turn' = Step(t, IF Stops(S, B) THEN "outer" ELSE "sample")
    /\ UNCHANGED <<active, phase, log>> /\ TaskUnchanged

(* The model answers with messages, tool calls or both.  A message that is *)
(* no commentary defers mail to the next turn, unless the turn has pending *)
(* input by now; a tool call takes mail again.  Both only while the turn   *)
(* is the installed one.                                                   *)
Deferred(ph, t) ==
    IF active.task = t /\ At(PendingIn(active.ts)) = {}
    THEN [ph EXCEPT ![active.ts] = "NextTurn"] ELSE ph
Accepted(t) ==
    IF active.task = t THEN [phase EXCEPT ![active.ts] = "CurrentTurn"] ELSE phase

FinalAnswer(t) ==
    /\ turn[t].pc = "sample"
    /\ phase' \in {phase, Deferred(phase, t)}
    /\ turn' = [turn EXCEPT ![t].pc = "sampled", ![t].followUp = FALSE]
    /\ UNCHANGED <<active, where, log>> /\ TaskUnchanged

ToolCall(t) ==
    /\ turn[t].pc = "sample"
    /\ turn[t].fuel > 0
    /\ phase' \in {Accepted(t), Deferred(Accepted(t), t)}
    /\ turn' = [turn EXCEPT ![t].pc = "sampled", ![t].followUp = TRUE, ![t].fuel = @ - 1]
    /\ UNCHANGED <<active, where, log>> /\ TaskUnchanged

(* The tool call's approval was denied once too often: record_guardian_    *)
(* denial spawns an abort of this turn.                                    *)
GuardianDenial(t) ==
    /\ turn[t].pc = "sampled" /\ turn[t].followUp
    /\ active.task = t
    /\ call["guard"].pc = "idle" /\ NewOp("guard")
    /\ call' = [call EXCEPT !["guard"] =
                  Call("abortIf", t, "Regular", "Interrupted")]
    /\ UNCHANGED <<active, nstates, nturns, where, phase, turn, log>>

(* A request refused for its images is sent again without them.            *)
RetryWithoutImages(t) ==
    /\ turn[t].pc = "sample"
    /\ turn[t].fuel > 0
    /\ turn' = [turn EXCEPT ![t].pc = "drain", ![t].fuel = @ - 1]
    /\ UNCHANGED <<active, where, phase, log>> /\ TaskUnchanged

(* An error, or TurnAborted when the token is cancelled, ends run_turn.    *)
SamplingFails(t) ==
    /\ turn[t].pc \in {"sample", "sampled"}
    /\ turn' = Step(t, "outer")
    /\ UNCHANGED <<active, where, phase, log>> /\ TaskUnchanged

(* After a sampling request.  With more to do: compact and go on, go on,   *)
(* or stop (compaction failed, or auto mode made no progress).  Otherwise: *)
(* a stop hook may ask for another round.                                  *)
AfterSampling(t) ==
    /\ turn[t].pc = "sampled"
    /\ \/ /\ turn[t].followUp \/ has_pending_input
          /\ \/ turn' = [turn EXCEPT ![t].pc = "drain", ![t].canDrain = ~turn[t].followUp]
             \/ turn' = [turn EXCEPT ![t].pc = "drain", ![t].canDrain = TRUE]
             \/ turn' = [turn EXCEPT ![t].pc = "outer", ![t].canDrain = TRUE]
       \/ /\ ~turn[t].followUp /\ ~has_pending_input
          /\ \/ /\ turn[t].fuel > 0
                /\ turn' = [turn EXCEPT ![t].pc = "drain", ![t].canDrain = TRUE,
                                        ![t].fuel = @ - 1]
             \/ turn' = [turn EXCEPT ![t].pc = "outer", ![t].canDrain = TRUE]
    /\ UNCHANGED <<active, where, phase, log>> /\ TaskUnchanged

(* RegularTask::run starts over while there is pending input.              *)
RunAgain(t) ==
    /\ turn[t].pc = "outer"
    /\ turn' = Step(t, IF has_pending_input THEN "run" ELSE "flush")
    /\ UNCHANGED <<active, where, phase, log>> /\ TaskUnchanged

(* The task flushes the rollout and ends, silently if it was cancelled.    *)
(* Slip: the task ends without on_task_finished.                           *)
FlushRolloutOnly(t) ==
    /\ turn[t].pc = "flush"
    /\ turn' = Step(t, "done")
    /\ UNCHANGED <<active, where, phase, log>> /\ TaskUnchanged

FlushRollout(t) ==
    /\ turn[t].pc = "flush"
    /\ turn' = Step(t, IF turn[t].cancelled THEN "done" ELSE "finish")
    /\ UNCHANGED <<active, where, phase, log>> /\ TaskUnchanged

(* on_task_finished: take whatever task is installed and detach it, settle *)
(* the input that is left, send TurnComplete, clear the active turn if it  *)
(* still is the same one without a task.                                   *)
(* Slip: on_task_finished goes on when no task is installed.               *)
TakeTaskAlways(t) ==
    /\ turn[t].pc = "finish"
    /\ active' = [active EXCEPT !.task = 0]
    /\ turn' = [turn EXCEPT ![t].ts = active.ts, ![t].pc = "settle"]
    /\ UNCHANGED <<where, phase, log>> /\ TaskUnchanged

TakeTask(t) ==
    /\ turn[t].pc = "finish"
    /\ IF HasTask
       THEN /\ active' = [active EXCEPT !.task = 0]
            /\ turn' = [turn EXCEPT ![t].ts = active.ts, ![t].pc = "settle"]
       ELSE turn' = Step(t, "done") /\ UNCHANGED active
    /\ UNCHANGED <<where, phase, log>> /\ TaskUnchanged


SettleInput(t) ==
    /\ turn[t].pc = "settle"
    /\ LET S == At(PendingIn(turn[t].ts)) IN
       \E B \in SUBSET Prompts(S) : Record(S, B)
    /\ turn' = Step(t, "complete")
    /\ UNCHANGED <<active, phase, log>> /\ TaskUnchanged

SendTurnComplete(t) ==
    /\ turn[t].pc = "complete"
    /\ log' = [log EXCEPT ![t] = Append(@, "complete")]
    /\ turn' = Step(t, "clear")
    /\ UNCHANGED <<active, where, phase>> /\ TaskUnchanged

(* Slip: any turn without a task is cleared, or none is.                   *)
ClearActiveTurnAny(t) ==
    /\ turn[t].pc = "clear"
    /\ active' = IF HasTask THEN active ELSE NoTurn
    /\ turn' = Step(t, "done")
    /\ UNCHANGED <<where, phase, log>> /\ TaskUnchanged
ClearActiveTurnMissing(t) ==
    /\ turn[t].pc = "clear"
    /\ turn' = Step(t, "done")
    /\ UNCHANGED <<active, where, phase, log>> /\ TaskUnchanged

ClearActiveTurn(t) ==
    /\ turn[t].pc = "clear"
    /\ active' = IF active = [task |-> 0, ts |-> turn[t].ts] THEN NoTurn ELSE active
    /\ turn' = Step(t, "done")
    /\ UNCHANGED <<where, phase, log>> /\ TaskUnchanged

(* What a late task may still do of its turn until its poll ends: send     *)
(* TurnStarted, take the pending input of whatever turn is active by now,  *)
(* record what it holds.  Its token is cancelled, so it finishes no turn.  *)
LateStart(t) ==
    /\ turn[t].pc = "late" /\ turn[t].kind # "Review"
    /\ log[t] \in {<<>>, <<"aborted">>}
    /\ log' = [log EXCEPT ![t] = Append(@, "started")]
    /\ UNCHANGED <<active, where, phase, turn>> /\ TaskUnchanged
LateDrain(t) ==
    /\ turn[t].pc = "late" /\ turn[t].kind = "Regular"
    /\ where' = Moved(get_pending_input, LocalOf(t))
    /\ UNCHANGED <<active, phase, turn, log>> /\ TaskUnchanged
LateRecord(t) ==
    /\ turn[t].pc = "late"
    /\ \E B \in SUBSET Prompts(HeldBy(t)) : Record(HeldBy(t), B)
    /\ UNCHANGED <<active, phase, turn, log>> /\ TaskUnchanged
PollEnds(t) ==
    /\ turn[t].pc = "late"
    /\ turn' = Step(t, "dead")
    /\ where' = Moved(HeldBy(t), Dropped)
    /\ UNCHANGED <<active, phase, log>> /\ TaskUnchanged

-----------------------------------------------------------------------------
Operation ==
    \/ UserInput \/ SteerRequest \/ StandaloneTask \/ Interrupt
    \/ InterAgentCommunication \/ Inject \/ TryStartTurnIfIdle
CallerStep(a) ==
    \/ AbortAllTasks(a) \/ AbortTurnIfActive(a) \/ KillTask(a) \/ EmitTurnAborted(a)
    \/ ClearPending(a) \/ MaybeStartTurn(a) \/ ReserveTurn(a) \/ GetPendingInput(a)
    \/ InsertTurn(a) \/ ExtendPendingInput(a) \/ InstallTask(a)
ExtStep == TryReserve \/ Recheck \/ Confirm \/ Unreserve \/ Give
TaskStep(t) ==
    \/ BeginTask(t) \/ StandaloneWork(t) \/ RunTurn(t) \/ DrainPendingInput(t)
    \/ RecordInputs(t) \/ FinalAnswer(t) \/ ToolCall(t) \/ RetryWithoutImages(t)
    \/ SamplingFails(t) \/ AfterSampling(t) \/ RunAgain(t) \/ FlushRollout(t) \/ TakeTask(t)
    \/ SettleInput(t) \/ SendTurnComplete(t) \/ ClearActiveTurn(t)

LateStep(t) == LateStart(t) \/ LateDrain(t) \/ LateRecord(t) \/ PollEnds(t)

(* Nothing is under way: the session waits for an operation, or is closed. *)
Waiting ==
    /\ \A a \in Callers : call[a].pc \in {"idle", "closed"}
    /\ \A t \in Turns : turn[t].pc \in {"none", "done", "dead"}
    /\ UNCHANGED vars

Next ==
    \/ Operation \/ ExtStep
    \/ \E a \in Callers : CallerStep(a)
    \/ \E t \in Turns : TaskStep(t) \/ LateStep(t) \/ GuardianDenial(t)
    \/ Waiting

Spec == Init /\ [][Next]_vars

(* The runtime polls every task that can go on, a poll ends, the model's   *)
(* stream and the hooks end or time out, and the grace period is a timer.  *)
Fairness ==
    /\ \A a \in Callers : WF_vars(CallerStep(a))
    /\ \A t \in Turns : WF_vars(TaskStep(t)) /\ WF_vars(PollEnds(t))
    /\ WF_vars(ExtStep)
FairSpec == Spec /\ Fairness

-----------------------------------------------------------------------------
TypeOK ==
    /\ active \in [task : Turns \cup {0}, ts : States \cup {0}]
    /\ active.ts = 0 => active.task = 0
    /\ nstates \in 0 .. 4 * MaxOps /\ nturns \in 0 .. MaxOps /\ nops \in 0 .. MaxOps
    /\ op \in [Items -> Ops \cup {"none"}]
    /\ where \in [Items -> Places]
    /\ phase \in [States -> {"CurrentTurn", "NextTurn"}]
    /\ turn \in [Turns -> [pc : TurnPcs, kind : TurnKinds, ts : States \cup {0},
                           canDrain : BOOLEAN, followUp : BOOLEAN,
                           cancelled : BOOLEAN, fuel : 0 .. MaxFuel]]
    /\ call \in [Callers -> [pc : CallPcs, turn : Turns \cup {0},
                             ts : States \cup {0}, kind : TurnKinds,
                             reason : Reasons]]
    /\ log \in [Turns -> Seq({"started", "complete", "aborted"})]

Finishing == {"settle", "complete", "clear"}
Over == {"none", "done", "late", "dead"}
Running == {t \in Turns : turn[t].pc \notin Finishing \cup Over}

(* "Session has at most one Task running at a time": no interleaving of    *)
(* starts, steers, aborts with their grace period and finishes leaves two  *)
(* tasks working on the history at once, but for the rest of the poll in   *)
(* which an abort found its task.                                          *)
OneTaskRunning == \A t, u \in Running : t = u

(* The installed task is one that still runs, so that input steered into   *)
(* it will be looked at: a task uninstalls itself before it stops.         *)
ActiveTaskRuns == HasTask => active.task \in Running

(* The two debug_assert!(turn.task.is_none()) of start_task: nobody starts *)
(* a task over an installed one, which would abort it without an event.    *)
StartAsserts ==
    \A a \in Callers : call[a].pc \in {"insert", "install"} => ~HasTask

(* A client sees TurnStarted, then exactly one TurnComplete or TurnAborted *)
(* of a turn.  A turn aborted early, and a review, has no TurnStarted, or  *)
(* has it last if the abort found the task about to send it.               *)
TurnEventsWellFormed ==
    \A t \in Turns : log[t] \in
        {<<>>, <<"started">>, <<"started", "complete">>, <<"started", "aborted">>,
         <<"aborted">>, <<"complete">>, <<"aborted", "started">>}

(* Somebody will still take the pending input of turn state ts: the active *)
(* turn, a task that finishes, or an abort that clears it.                 *)
Attended(ts) ==
    \/ active.ts = ts
    \/ \E t \in Turns : turn[t].pc = "settle" /\ turn[t].ts = ts
    \/ \E a \in Callers : call[a].ts = ts /\ call[a].pc \in {"kill", "drop", "emit", "unqueue"}

(* No pending input is left behind in the state of a turn that is over:    *)
(* "Injects items into active work, or records them".                      *)
NoStrandedInput == \A ts \in States : At(PendingIn(ts)) # {} => Attended(ts)

(* When nothing is under way the session is idle: no reserved or finished  *)
(* turn stays active and makes every later wake-up believe it is busy.     *)
NotWedged ==
    /\ \A a \in Callers : call[a].pc \in {"idle", "closed"}
    /\ \A t \in Turns : turn[t].pc \in Over
    => active = NoTurn

(* What makes the three invariants above inductive when only the           *)
(* submission loop starts and stops turns: a task that runs is installed,  *)
(* or the loop is about to kill it; the installed task is not cancelled;   *)
(* from the moment the loop has taken the active turn until it installs a  *)
(* task, none is installed; and each operation installs one task at most.  *)
LoopOnly == Ops \cap {"guard", "idle"} = {}
TurnRecord ==
    [pc : TurnPcs, kind : TurnKinds, ts : Nat, canDrain : BOOLEAN,
     followUp : BOOLEAN, cancelled : BOOLEAN, fuel : Nat]
CallRecord ==
    [pc : CallPcs, turn : Nat, ts : Nat, kind : TurnKinds, reason : Reasons]
LoopTypes ==
    /\ active \in [task : Turns \cup {0}, ts : Nat]
    /\ nstates \in Nat /\ nturns \in Nat /\ nops \in 0 .. MaxOps
    /\ turn \in [Turns -> TurnRecord]
    /\ call \in [Callers -> CallRecord]
Stopped == {"kill", "emit", "unqueue", "pending", "insert", "extend", "install"}
LoopInv ==
    /\ LoopTypes
    /\ call["guard"].pc = "idle" /\ call["ext"].pc = "idle"
    /\ call["loop"].pc \notin {"abortIf", "drop"}
    /\ active.ts = 0 => active.task = 0
    /\ \A t \in Running :
          active.task = t \/ (call["loop"].pc = "kill" /\ call["loop"].turn = t)
    /\ HasTask => active.task \in Running /\ ~turn[active.task].cancelled
    /\ call["loop"].pc \in Stopped => ~HasTask
    /\ call["loop"].pc = "kill" => call["loop"].turn \in Turns
    /\ nturns <= nops
    /\ call["loop"].pc \notin {"idle", "closed"} => nturns < nops

(* RegularTask::run starts over although the turn has got nowhere: every   *)
(* attempt fails before it takes the pending input, and that input is what *)
(* makes it try again.                                                     *)
StartsOverForEver(t) == []<>(turn[t].pc = "run" /\ has_pending_input)

(* Every turn that was installed ends with an event that says so, or every *)
(* one of its attempts from some time on fails before sampling.  Only a    *)
(* start over an installed task, which debug builds assert against, may    *)
(* end a turn without one.                                                 *)
Ended(t) ==
    \E k \in 1 .. Len(log[t]) : log[t][k] \in {"complete", "aborted"}

=============================================================================
