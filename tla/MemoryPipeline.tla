--------------------------- MODULE MemoryPipeline ---------------------------
(***************************************************************************)
(* The memory pipeline that every root session starts in the background    *)
(* (memories/write), over the job rows of the state database               *)
(* (state/src/runtime/memories.rs).  Phase 1 leases one job per thread,    *)
(* extracts a memory and stores it; phase 2 leases one global job, copies  *)
(* the stored memories into a shared workspace and lets an agent           *)
(* consolidate them there.                                                 *)
(*                                                                         *)
(* Workers are sessions of one or several processes.  Each transaction is  *)
(* one step.  Time is abstract: a lease, a backoff and a cooldown may run  *)
(* out at any step (a machine may be suspended between any two), so a row  *)
(* says only whether they still hold.  A worker's name stands for the      *)
(* fresh ownership token of its claim: it claims a row at most once in a   *)
(* life, and what it claimed in an earlier life is gone with that life.    *)
(***************************************************************************)
EXTENDS Naturals, FiniteSets

CONSTANTS
    Threads,       \* threads with a rollout
    Workers,       \* sessions that run the pipeline
    MaxRunning,    \* max_rollouts_per_startup of each worker's own config, which
                   \* is also the cap on leased jobs that it claims with
    DefaultRetry,  \* DEFAULT_RETRY_REMAINING
    MaxSource,     \* bound on the updates of a thread
    Budgets        \* bounds on a behaviour: how many claims of stage-1 jobs,
                   \* runs of phase 2 and changes from outside it may have

Budget == [claims : Nat, runs : Nat, changes : Nat]

ASSUME PipelineConstants ==
    /\ IsFiniteSet(Threads) /\ IsFiniteSet(Workers)
    /\ MaxRunning \in [Workers -> Nat] /\ DefaultRetry \in Nat \ {0}
    /\ MaxSource \in Nat \ {0}
    /\ Budgets \subseteq Budget

VARIABLES
    updated,    \* threads: updated_at of the row, 0 when it is deleted
    polluted,   \* threads whose memory_mode is polluted
    forgetting, \* deleted threads whose memory is still to be deleted
    notifying,  \* polluted threads whose enqueue is still to come
    clearing,   \* a reset that has still to empty the workspace
    job,        \* jobs: the stage-1 row of each thread
    out,        \* stage1_outputs: source_updated_at, 0 without a row
    sel,        \* stage1_outputs: the snapshot of the last selection, or 0
    glob,       \* jobs: the row of the global consolidation
    files,      \* workspace: the memory synced for each thread
    doc,        \* workspace: what the agent's documents were made from
    base,       \* workspace: the files of the git baseline
    state,      \* workspace: "clean", "edited" since the baseline, "nogit"
    pc, items, claims, inputs,   \* the workers
    left,       \* what is left of the budget
    late,       \* history: workers whose lease ran out or was taken away
    disturbed   \* history: two parties were in the workspace at a time, or a
                \* reset emptied only a part of it

threadVars == <<updated, polluted, forgetting, notifying, clearing>>
stage1Vars == <<job, out>>
wsVars == <<files, doc, base, state>>
vars == <<threadVars, stage1Vars, sel, glob, wsVars, pc, items, claims, inputs,
          left, late, disturbed>>

Sources == 1 .. MaxSource
Snapshots == [Threads -> 0 .. MaxSource]
Nothing == [t \in Threads |-> 0]
NoOne == "no one"

NoRow == [status |-> "none", token |-> NoOne, lease |-> FALSE, backoff |-> FALSE,
          retries |-> 0, input |-> 0, success |-> 0]
NoGlobal == [status |-> "none", token |-> NoOne, lease |-> FALSE, backoff |-> FALSE,
             cooldown |-> FALSE]

Init ==
    /\ updated = [t \in Threads |-> 1] /\ polluted = {}
    /\ forgetting = {} /\ notifying = {} /\ clearing = FALSE
    /\ job = [t \in Threads |-> NoRow] /\ out = Nothing /\ sel = Nothing
    /\ glob = NoGlobal
    /\ files = Nothing /\ doc = Nothing /\ base = Nothing /\ state = "nogit"
    /\ pc = [w \in Workers |-> "idle"]
    /\ items = [w \in Workers |-> Nothing] /\ claims = [w \in Workers |-> Nothing]
    /\ inputs = [w \in Workers |-> Nothing]
    /\ left \in Budgets /\ late = {} /\ disturbed = FALSE

Spend(what) == left[what] > 0 /\ left' = [left EXCEPT ![what] = @ - 1]
Goto(w, s) == pc' = [pc EXCEPT ![w] = s]

-----------------------------------------------------------------------------
(* Phase 1.  A pipeline prunes stored memories that are old and were not   *)
(* selected, then scans the threads that are enabled and neither too old   *)
(* nor too fresh; ages and scan limits are abstracted to any choice.  When *)
(* rate limits forbid to go on it ends, which is a case of Crash.          *)
Start(w) ==
    /\ pc[w] = "idle"
    /\ \E S \in SUBSET {t \in Threads : sel[t] = 0} :
          out' = [t \in Threads |-> IF t \in S THEN 0 ELSE out[t]]
    /\ Goto(w, "scan")
    /\ UNCHANGED <<threadVars, job, sel, glob, wsVars, items, claims, inputs, left, late, disturbed>>

Scan(w) ==
    /\ pc[w] = "scan"
    /\ \E S \in SUBSET {t \in Threads : updated[t] > 0 /\ t \notin polluted} :
          items' = [items EXCEPT ![w] = [t \in Threads |-> IF t \in S THEN updated[t] ELSE 0]]
    /\ Goto(w, "claim")
    /\ UNCHANGED <<threadVars, stage1Vars, sel, glob, wsVars, claims, inputs, left, late, disturbed>>

Leased(r) == r.status = "running" /\ r.lease
Running == {t \in Threads : Leased(job[t])}
Claimed(w) == {t \in Threads : claims[w][t] > 0}

(* Slip: a job whose output was pruned counts as never done. *)
StaleByOutput(t, src) == out[t] < src

Stale(t, src) == out[t] < src /\ job[t].success < src

(* Slip: the cap is off by one. *)
ClaimableOverCap(w, t, src) ==
    /\ Stale(t, src)
    /\ Cardinality(Running) <= MaxRunning[w]
    /\ \/ job[t].status = "none"
       \/ /\ ~Leased(job[t])
          /\ ~job[t].backoff \/ src > job[t].input
          /\ job[t].retries > 0 \/ src > job[t].input

(* Slip: a job is claimed again when its retries are used up. *)
ClaimableExhausted(w, t, src) ==
    /\ Stale(t, src)
    /\ Cardinality(Running) < MaxRunning[w]
    /\ \/ job[t].status = "none"
       \/ /\ ~Leased(job[t])
          /\ ~job[t].backoff \/ src > job[t].input

(* try_claim_stage1_job: one statement inserts the row or takes it over.   *)
Claimable(w, t, src) ==
    /\ Stale(t, src)
    /\ Cardinality(Running) < MaxRunning[w]
    /\ \/ job[t].status = "none"
       \/ /\ ~Leased(job[t])
          /\ ~job[t].backoff \/ src > job[t].input
          /\ job[t].retries > 0 \/ src > job[t].input

ClaimRow(w, t, src) ==
    [job EXCEPT ![t] =
        [status |-> "running", token |-> w, lease |-> TRUE, backoff |-> FALSE,
         retries |-> IF src > @.input THEN DefaultRetry ELSE @.retries,
         input |-> src, success |-> @.success]]

(* The loop over the scanned threads, up to max_claimed claims.  The check *)
(* before a claim that reads without a transaction gives up no thread that *)
(* a claim at the same moment would not have given up.                     *)
TryClaim(w, t) ==
    /\ pc[w] = "claim" /\ items[w][t] > 0 /\ Cardinality(Claimed(w)) < MaxRunning[w]
    /\ items' = [items EXCEPT ![w][t] = 0]
    /\ IF Claimable(w, t, items[w][t])
       THEN /\ job' = ClaimRow(w, t, items[w][t])
            /\ claims' = [claims EXCEPT ![w][t] = items[w][t]]
            /\ Spend("claims")
       ELSE UNCHANGED <<job, claims, left>>
    /\ UNCHANGED <<threadVars, out, sel, glob, wsVars, pc, inputs, late, disturbed>>

ClaimsDone(w) ==
    /\ pc[w] = "claim"
    /\ items[w] = Nothing \/ Cardinality(Claimed(w)) >= MaxRunning[w]
    /\ items' = [items EXCEPT ![w] = Nothing]
    /\ Goto(w, "jobs")
    /\ UNCHANGED <<threadVars, stage1Vars, sel, glob, wsVars, claims, inputs, left, late, disturbed>>

(* Every update of a job requires the row to be running with the token of  *)
(* the claim.                                                              *)
Owned(w, t) == job[t].status = "running" /\ job[t].token = w

Done(r) == [r EXCEPT !.status = "done", !.lease = FALSE, !.success = r.input]
Failed(r) == [r EXCEPT !.status = "error", !.lease = FALSE, !.backoff = TRUE, !.retries = r.retries - 1]

(* Slip: new input makes a running consolidation pending. *)
EnqueueRunning(g) == [g EXCEPT !.status = "pending", !.backoff = FALSE]

(* enqueue_global_consolidation: a running row stays as it is.  The        *)
(* watermarks and retries of the global row are bookkeeping that no code   *)
(* decides on, and are left out.                                           *)
Enqueue(g) ==
    IF g.status = "running" THEN g ELSE [g EXCEPT !.status = "pending", !.backoff = FALSE]

Report(w, t) ==
    /\ pc[w] = "jobs" /\ claims[w][t] > 0
    /\ claims' = [claims EXCEPT ![w][t] = 0]
    /\ UNCHANGED <<threadVars, wsVars, pc, items, inputs, left, late, disturbed>>

(* Slip: the result of a lost claim is stored. *)
MarkSucceededUnfenced(w, t) ==
    /\ Report(w, t)
    /\ job' = [job EXCEPT ![t] = Done(@)]
    /\ out' = [out EXCEPT ![t] = IF claims[w][t] >= @ THEN claims[w][t] ELSE @]
    /\ glob' = Enqueue(glob)
    /\ UNCHANGED sel

MarkSucceeded(w, t) ==
    /\ Report(w, t)
    /\ IF Owned(w, t)
       THEN /\ job' = [job EXCEPT ![t] = Done(@)]
            /\ out' = [out EXCEPT ![t] = IF claims[w][t] >= @ THEN claims[w][t] ELSE @]
            /\ glob' = Enqueue(glob)
       ELSE UNCHANGED <<job, out, glob>>
    /\ UNCHANGED sel

MarkSucceededNoOutput(w, t) ==
    /\ Report(w, t)
    /\ IF Owned(w, t)
       THEN /\ job' = [job EXCEPT ![t] = Done(@)]
            /\ out' = [out EXCEPT ![t] = 0] /\ sel' = [sel EXCEPT ![t] = 0]
            /\ glob' = IF out[t] > 0 THEN Enqueue(glob) ELSE glob
       ELSE UNCHANGED <<job, out, sel, glob>>

MarkFailed(w, t) ==
    /\ Report(w, t)
    /\ job' = IF Owned(w, t) THEN [job EXCEPT ![t] = Failed(@)] ELSE job
    /\ UNCHANGED <<out, sel, glob>>

(* The database refuses the update: the error is dropped, the row stays    *)
(* running until its lease ends.                                           *)
ReportLost(w, t) ==
    /\ Report(w, t)
    /\ UNCHANGED <<stage1Vars, sel, glob>>

JobsDone(w) ==
    /\ pc[w] = "jobs" /\ claims[w] = Nothing
    /\ Goto(w, "phase2")
    /\ UNCHANGED <<threadVars, stage1Vars, sel, glob, wsVars, items, claims, inputs, left, late, disturbed>>

-----------------------------------------------------------------------------
(* Phase 2.  The claim of the global row is the lock on the workspace.  A  *)
(* worker is in it itself, or through the agent it started.                *)
InWorkspace(w) ==
    pc[w] \in {"prepare", "load", "read", "sync", "diff", "spawn", "agent", "confirm",
               "reset", "giveup", "closing"}

GlobalClaimable == ~glob.backoff /\ ~Leased(glob) /\ ~glob.cooldown

ClaimGlobal(w) ==
    /\ pc[w] = "phase2"
    /\ IF GlobalClaimable
       THEN /\ glob' = [status |-> "running", token |-> w, lease |-> TRUE,
                        backoff |-> FALSE, cooldown |-> FALSE]
            /\ Goto(w, "prepare")
            /\ late' = late \ {w}
            /\ disturbed' = (disturbed \/ clearing \/ \E v \in Workers : InWorkspace(v))
            /\ Spend("runs")
       ELSE Goto(w, "idle") /\ UNCHANGED <<glob, late, disturbed, left>>
    /\ UNCHANGED <<threadVars, stage1Vars, sel, wsVars, items, claims, inputs>>

(* A step of run() that only moves on or, when it fails, reports failure.  *)
Proceed(w, from, to) ==
    /\ pc[w] = from
    /\ Goto(w, to)
    /\ UNCHANGED <<threadVars, stage1Vars, sel, items, claims, left, late, disturbed>>

(* A workspace without a usable repository is given a baseline of the      *)
(* files that are there.                                                   *)
NewBaseline == base' = files /\ state' = "clean"

PrepareWorkspace(w) ==
    /\ Proceed(w, "prepare", "load")
    /\ IF state = "nogit" THEN NewBaseline ELSE UNCHANGED <<base, state>>
    /\ UNCHANGED <<files, doc, glob, inputs>>

(* get_phase2_input_selection ranks the enabled threads' memories and      *)
(* lists the first ones, any subset of them; then it reads each again and  *)
(* leaves out those that have changed or whose thread is not enabled now.  *)
Enabled(t) == updated[t] > 0 /\ t \notin polluted

ListInputs(w) ==
    /\ Proceed(w, "load", "read")
    /\ \E S \in SUBSET {t \in Threads : out[t] > 0 /\ Enabled(t)} :
          inputs' = [inputs EXCEPT ![w] = [t \in Threads |-> IF t \in S THEN out[t] ELSE 0]]
    /\ UNCHANGED <<wsVars, glob>>

ReadInputs(w) ==
    /\ Proceed(w, "read", "sync")
    /\ inputs' = [inputs EXCEPT ![w] =
         [t \in Threads |-> IF out[t] = inputs[w][t] /\ Enabled(t) THEN out[t] ELSE 0]]
    /\ UNCHANGED <<wsVars, glob>>

SyncInputs(w) ==
    /\ Proceed(w, "sync", "diff")
    /\ files' = inputs[w]
    /\ UNCHANGED <<doc, base, state, glob, inputs>>

Synced(w, S) == [t \in Threads |-> IF t \in S THEN inputs[w][t] ELSE files[t]]

SyncInputsFails(w) ==
    /\ Proceed(w, "sync", "fail")
    /\ \E S \in SUBSET Threads : files' = Synced(w, S)
    /\ UNCHANGED <<doc, base, state, glob, inputs>>

HasChanges == files # base \/ state = "edited"

WorkspaceDiff(w) ==
    /\ state # "nogit"
    /\ Proceed(w, "diff", IF HasChanges THEN "spawn" ELSE "succeed")
    /\ UNCHANGED <<wsVars, glob, inputs>>

(* Preparing, loading, diffing, writing the diff file and starting the     *)
(* agent may fail; without a repository the diff does, and a new one may   *)
(* have been committed when preparing it fails.                            *)
StepFails(w) ==
    /\ \E from \in {"prepare", "load", "read", "diff", "spawn"} : Proceed(w, from, "fail")
    /\ \/ UNCHANGED <<base, state>>
       \/ pc[w] = "prepare" /\ state = "nogit" /\ NewBaseline
    /\ UNCHANGED <<files, doc, glob, inputs>>

SpawnAgent(w) ==
    /\ Proceed(w, "spawn", "agent")
    /\ UNCHANGED <<wsVars, glob, inputs>>

OwnsGlobal(w) == glob.status = "running" /\ glob.token = w
Renewed == [glob EXCEPT !.lease = TRUE]

Heartbeat(w) ==
    /\ OwnsGlobal(w)
    /\ Proceed(w, "agent", "agent")
    /\ glob' = Renewed
    /\ UNCHANGED <<wsVars, inputs>>

(* What the agent writes reflects the files it finds.                      *)
Edit == doc' = files /\ state' = IF state = "nogit" THEN state ELSE "edited"

AgentCompletes(w) ==
    /\ Proceed(w, "agent", "confirm")
    /\ Edit
    /\ UNCHANGED <<files, base, glob, inputs>>

(* Slip: any final status of the agent counts as completed. *)
AgentFailsConfirmed(w) ==
    /\ Proceed(w, "agent", "confirm")
    /\ Edit \/ UNCHANGED <<doc, state>>
    /\ UNCHANGED <<files, base, glob, inputs>>

(* The agent ends with another status; it may have edited by then.         *)
AgentFails(w) ==
    /\ Proceed(w, "agent", "fail")
    /\ Edit \/ UNCHANGED <<doc, state>>
    /\ UNCHANGED <<files, base, glob, inputs>>

(* A heartbeat fails or finds the lock lost, and the worker gives up on an *)
(* agent that still runs: it reports failure first and closes the agent    *)
(* afterwards, in a task of its own that waits ten seconds for it.         *)
WatchFails(w) ==
    /\ Proceed(w, "agent", "giveup")
    /\ UNCHANGED <<wsVars, glob, inputs>>

AgentEdits(w) ==
    /\ \E at \in {"giveup", "closing"} : Proceed(w, at, at)
    /\ Edit
    /\ UNCHANGED <<files, base, glob, inputs>>

AgentClosed(w) ==
    /\ Proceed(w, "closing", "idle")
    /\ UNCHANGED <<wsVars, glob, inputs>>

ConfirmOwnership(w) ==
    /\ Proceed(w, "confirm", IF OwnsGlobal(w) THEN "reset" ELSE "idle")
    /\ glob' = IF OwnsGlobal(w) THEN Renewed ELSE glob
    /\ UNCHANGED <<wsVars, inputs>>

ConfirmOwnershipFails(w) ==
    /\ Proceed(w, "confirm", "fail")
    /\ UNCHANGED <<wsVars, glob, inputs>>

ResetBaseline(w) ==
    /\ Proceed(w, "reset", "succeed")
    /\ NewBaseline
    /\ UNCHANGED <<files, doc, glob, inputs>>

(* The old repository is removed before the new one is made, and the index *)
(* is written after the commit: a failure may come before or after each.   *)
NoBaseline == base' = Nothing /\ state' = "nogit"

ResetBaselineFails(w) ==
    /\ Proceed(w, "reset", "fail")
    /\ NoBaseline \/ NewBaseline \/ UNCHANGED <<base, state>>
    /\ UNCHANGED <<files, doc, glob, inputs>>

(* Only snapshots that are still stored as they were loaded are marked.    *)
Selected(w) == [t \in Threads |-> IF inputs[w][t] > 0 /\ out[t] = inputs[w][t] THEN out[t] ELSE 0]

MarkGlobalSucceeded(w) ==
    /\ pc[w] = "succeed"
    /\ IF OwnsGlobal(w)
       THEN /\ glob' = [glob EXCEPT !.status = "done", !.lease = FALSE, !.cooldown = TRUE]
            /\ sel' = Selected(w)
       ELSE UNCHANGED <<glob, sel>>
    /\ Goto(w, "idle")
    /\ inputs' = [inputs EXCEPT ![w] = Nothing]
    /\ UNCHANGED <<threadVars, stage1Vars, wsVars, items, claims, left, late, disturbed>>

AfterFailure(w) == IF pc[w] = "giveup" THEN "closing" ELSE "idle"

(* The fallback for a running row without an owner finds none.             *)
MarkGlobalFailed(w) ==
    /\ pc[w] \in {"fail", "giveup"}
    /\ glob' = IF OwnsGlobal(w)
               THEN [glob EXCEPT !.status = "error", !.lease = FALSE, !.backoff = TRUE]
               ELSE glob
    /\ Goto(w, AfterFailure(w))
    /\ inputs' = [inputs EXCEPT ![w] = Nothing]
    /\ UNCHANGED <<threadVars, stage1Vars, sel, wsVars, items, claims, left, late, disturbed>>

(* The update of the global row is lost: the row stays running.            *)
GlobalReportLost(w) ==
    /\ pc[w] \in {"succeed", "fail", "giveup"}
    /\ Goto(w, AfterFailure(w))
    /\ inputs' = [inputs EXCEPT ![w] = Nothing]
    /\ UNCHANGED <<threadVars, stage1Vars, sel, glob, wsVars, items, claims, left, late, disturbed>>

(* The process ends, and a write that was under way may be half done.      *)
Crash(w) ==
    /\ pc[w] # "idle"
    /\ Goto(w, "idle")
    /\ items' = [items EXCEPT ![w] = Nothing]
    /\ claims' = [claims EXCEPT ![w] = Nothing]
    /\ inputs' = [inputs EXCEPT ![w] = Nothing]
    /\ \/ UNCHANGED wsVars
       \/ pc[w] = "sync" /\ (\E S \in SUBSET Threads : files' = Synced(w, S)) /\ UNCHANGED <<doc, base, state>>
       \/ pc[w] \in {"agent", "giveup", "closing"} /\ Edit /\ UNCHANGED <<files, base>>
       \/ pc[w] = "prepare" /\ state = "nogit" /\ NewBaseline /\ UNCHANGED <<files, doc>>
       \/ pc[w] = "reset" /\ (NoBaseline \/ NewBaseline) /\ UNCHANGED <<files, doc>>
    /\ UNCHANGED <<threadVars, stage1Vars, sel, glob, left, late, disturbed>>

-----------------------------------------------------------------------------
(* What happens around the pipeline.                                       *)
workerVars == <<pc, items, claims, inputs>>

ThreadUpdated(t) ==
    /\ Spend("changes")
    /\ updated[t] \in 1 .. MaxSource - 1
    /\ updated' = [updated EXCEPT ![t] = @ + 1]
    /\ UNCHANGED <<polluted, forgetting, notifying, clearing, stage1Vars, sel, glob, wsVars,
                   workerVars, late, disturbed>>

(* delete_thread: the thread's row, then, in another database, its memory. *)
DeleteThread(t) ==
    /\ Spend("changes")
    /\ updated[t] > 0
    /\ updated' = [updated EXCEPT ![t] = 0]
    /\ forgetting' = forgetting \cup {t}
    /\ UNCHANGED <<polluted, notifying, clearing, stage1Vars, sel, glob, wsVars,
                   workerVars, late, disturbed>>

DeleteThreadMemory(t) ==
    /\ t \in forgetting
    /\ forgetting' = forgetting \ {t}
    /\ out' = [out EXCEPT ![t] = 0] /\ sel' = [sel EXCEPT ![t] = 0]
    /\ job' = [job EXCEPT ![t] = NoRow]
    /\ glob' = IF sel[t] > 0 THEN Enqueue(glob) ELSE glob
    /\ UNCHANGED <<updated, polluted, notifying, clearing, wsVars, workerVars, left, late, disturbed>>

(* mark_thread_memory_mode_polluted, and its enqueue in the other database.*)
MarkPolluted(t) ==
    /\ Spend("changes")
    /\ updated[t] > 0
    /\ polluted' = polluted \cup {t}
    /\ notifying' = IF sel[t] > 0 THEN notifying \cup {t} ELSE notifying
    /\ UNCHANGED <<updated, forgetting, clearing, stage1Vars, sel, glob, wsVars,
                   workerVars, late, disturbed>>

EnqueueForgetting(t) ==
    /\ t \in notifying
    /\ notifying' = notifying \ {t}
    /\ glob' = Enqueue(glob)
    /\ UNCHANGED <<updated, polluted, forgetting, clearing, stage1Vars, sel, wsVars,
                   workerVars, left, late, disturbed>>

(* memory/reset: all rows, then the directories with their repository.     *)
ClearMemoryData ==
    /\ ~clearing /\ Spend("changes")
    /\ clearing' = TRUE
    /\ job' = [t \in Threads |-> NoRow] /\ out' = Nothing /\ sel' = Nothing
    /\ late' = IF Leased(glob) THEN late \cup {glob.token} ELSE late
    /\ disturbed' = (disturbed \/ \E v \in Workers : InWorkspace(v))
    /\ glob' = NoGlobal
    /\ UNCHANGED <<updated, polluted, forgetting, notifying, wsVars, workerVars>>

ClearMemoryRoots ==
    /\ clearing /\ clearing' = FALSE
    /\ files' = Nothing /\ doc' = Nothing
    /\ NoBaseline
    /\ UNCHANGED <<updated, polluted, forgetting, notifying, stage1Vars, sel, glob,
                   workerVars, left, late, disturbed>>

(* Entries are removed one by one, and an error ends it half way.          *)
ClearMemoryRootsFails ==
    /\ clearing /\ clearing' = FALSE
    /\ \E S \in SUBSET Threads : files' = [t \in Threads |-> IF t \in S THEN files[t] ELSE 0]
    /\ \/ UNCHANGED <<doc, base, state>>
       \/ doc' = Nothing /\ state' = (IF state = "nogit" THEN state ELSE "edited") /\ UNCHANGED base
       \/ doc' \in {doc, Nothing} /\ NoBaseline
    /\ disturbed' = TRUE
    /\ UNCHANGED <<updated, polluted, forgetting, notifying, stage1Vars, sel, glob,
                   workerVars, left, late>>

(* Time passes.                                                            *)
LeaseEnds(t) == Leased(job[t]) /\ job' = [job EXCEPT ![t].lease = FALSE] /\ UNCHANGED <<glob, late>>
BackoffEnds(t) == job[t].backoff /\ job' = [job EXCEPT ![t].backoff = FALSE] /\ UNCHANGED <<glob, late>>
GlobalLeaseEnds ==
    /\ Leased(glob) /\ glob' = [glob EXCEPT !.lease = FALSE]
    /\ late' = late \cup {glob.token}
    /\ UNCHANGED job
GlobalBackoffEnds == glob.backoff /\ glob' = [glob EXCEPT !.backoff = FALSE] /\ UNCHANGED <<job, late>>
CooldownEnds == glob.cooldown /\ glob' = [glob EXCEPT !.cooldown = FALSE] /\ UNCHANGED <<job, late>>

Time ==
    /\ \/ \E t \in Threads : LeaseEnds(t) \/ BackoffEnds(t)
       \/ GlobalLeaseEnds \/ GlobalBackoffEnds \/ CooldownEnds
    /\ UNCHANGED <<threadVars, out, sel, wsVars, workerVars, left, disturbed>>

Phase1(w) ==
    \/ Start(w) \/ Scan(w) \/ ClaimsDone(w) \/ JobsDone(w)
    \/ \E t \in Threads :
          TryClaim(w, t) \/ MarkSucceeded(w, t) \/ MarkSucceededNoOutput(w, t)
          \/ MarkFailed(w, t) \/ ReportLost(w, t)

Phase2(w) ==
    \/ ClaimGlobal(w) \/ PrepareWorkspace(w) \/ ListInputs(w) \/ ReadInputs(w)
    \/ SyncInputs(w) \/ SyncInputsFails(w) \/ WorkspaceDiff(w) \/ StepFails(w) \/ SpawnAgent(w)
    \/ Heartbeat(w) \/ AgentCompletes(w) \/ AgentFails(w)
    \/ WatchFails(w) \/ AgentEdits(w) \/ AgentClosed(w)
    \/ ConfirmOwnership(w) \/ ConfirmOwnershipFails(w)
    \/ ResetBaseline(w) \/ ResetBaselineFails(w)
    \/ MarkGlobalSucceeded(w) \/ MarkGlobalFailed(w) \/ GlobalReportLost(w)

Environment ==
    \/ \E t \in Threads :
          ThreadUpdated(t) \/ DeleteThread(t) \/ DeleteThreadMemory(t)
          \/ MarkPolluted(t) \/ EnqueueForgetting(t)
    \/ ClearMemoryData \/ ClearMemoryRoots \/ ClearMemoryRootsFails
    \/ Time

Next == (\E w \in Workers : Phase1(w) \/ Phase2(w) \/ Crash(w)) \/ Environment

Spec == Init /\ [][Next]_vars

-----------------------------------------------------------------------------
Rows == [status : {"none", "running", "done", "error"}, token : Workers \cup {NoOne},
         lease : BOOLEAN, backoff : BOOLEAN, retries : 0 .. DefaultRetry,
         input : 0 .. MaxSource, success : 0 .. MaxSource]
GlobalRows == [status : {"none", "pending", "running", "done", "error"},
               token : Workers \cup {NoOne}, lease : BOOLEAN, backoff : BOOLEAN, cooldown : BOOLEAN]
Pcs == {"idle", "scan", "claim", "jobs", "phase2", "prepare", "load", "read", "sync", "diff",
        "spawn", "agent", "confirm", "reset", "succeed", "fail", "giveup", "closing"}

TypeOK ==
    /\ updated \in Snapshots /\ polluted \subseteq Threads
    /\ forgetting \subseteq Threads /\ notifying \subseteq Threads /\ clearing \in BOOLEAN
    /\ job \in [Threads -> Rows] /\ out \in Snapshots /\ sel \in Snapshots
    /\ glob \in GlobalRows
    /\ files \in Snapshots /\ doc \in Snapshots /\ base \in Snapshots
    /\ state \in {"clean", "edited", "nogit"}
    /\ pc \in [Workers -> Pcs]
    /\ items \in [Workers -> Snapshots] /\ claims \in [Workers -> Snapshots]
    /\ inputs \in [Workers -> Snapshots]
    /\ left \in Budget
    /\ late \subseteq Workers \cup {NoOne} /\ disturbed \in BOOLEAN

(* A stored memory is always the one its job last succeeded with, whatever *)
(* order leases end, jobs are taken over, results come in, memories are    *)
(* pruned and threads deleted in: no late result replaces a newer one, and *)
(* none is stored without its job's watermark.                             *)
OutputMatchesJob == \A t \in Threads : out[t] > 0 => job[t].success = out[t]

(* No more stage-1 jobs are leased at a time, over all workers that claim  *)
(* concurrently, than the largest max_running_jobs among them.             *)
RunningCap == Running = {} \/ \E w \in Workers : Cardinality(Running) <= MaxRunning[w]

(* last_success_watermark of a thread's job never goes back while its row  *)
(* exists, though workers that scanned earlier claim with older sources.   *)
SuccessNeverRegresses ==
    [][\A t \in Threads : job'[t].status # "none" => job'[t].success >= job[t].success]_vars

(* The lease protects the workspace: two workers, with their agents, are   *)
(* in it at the same time only if the lease of one of them has run out, or *)
(* a reset took its row away, since its claim, or one has given up on an   *)
(* agent that it is still closing.  New input, crashes, all other failures *)
(* and reports of earlier workers never let a second one in.               *)
Meet(v, w) == v # w /\ InWorkspace(v) /\ InWorkspace(w)
LeaseProtects ==
    \A v, w \in Workers : Meet(v, w) =>
        v \in late \/ w \in late \/ pc[v] = "closing" \/ pc[w] = "closing"

(* "claims a single global phase-2 lock before touching the memories root  *)
(* (so only one consolidation inspects or mutates the workspace at a       *)
(* time)": not even while every lease is kept up, for a worker that gives  *)
(* up releases the lock while its agent goes on.                           *)
OneConsolidation == \A v, w \in Workers : Meet(v, w) => v \in late \/ w \in late

(* A successful consolidation marks exactly what the agent consolidated:   *)
(* unless two parties met in the workspace or a reset failed half way,     *)
(* every snapshot that is marked as selected is in the agent's documents,  *)
(* also when an earlier worker crashed or failed between any two of its    *)
(* steps.                                                                  *)
SuccessMarksConsolidated ==
    [][glob.status = "running" /\ glob'.status = "done" /\ ~disturbed
          => \A t \in Threads : sel'[t] > 0 => doc[t] = sel'[t]]_vars
=============================================================================
