----------------------- MODULE MemoryPipeline_proofs ------------------------
(***************************************************************************)
(* Proofs about the memory pipeline, for any threads, workers and bounds.  *)
(***************************************************************************)
EXTENDS MemoryPipeline, FiniteSetTheorems, TLAPS

(* The claim a worker still holds is the one its row was leased for, its   *)
(* source is newer than what was stored, and a leased job has retries left.*)
JobsInv ==
    /\ \A t \in Threads : job[t].status = "running" => job[t].retries > 0
    /\ \A t \in Threads : job[t].status = "none" => job[t].input = 0
    /\ OutputMatchesJob
    /\ \A w \in Workers, t \in Threads :
          claims[w][t] > 0 /\ Owned(w, t)
             => job[t].input = claims[w][t] /\ job[t].success < claims[w][t]

(* A worker whose lease has neither ended nor been taken away owns it,     *)
(* until it has reported failure and only closes its agent.                *)
LeaseInv ==
    \A w \in Workers :
       InWorkspace(w) /\ pc[w] # "closing" /\ w \notin late => OwnsGlobal(w) /\ glob.lease

(* While no two parties met in the workspace and no reset failed half way: *)
(* one worker is in it at most,                                            *)
(* a clean workspace is a consolidated one, and what a worker is about to  *)
(* report is what the agent has consolidated.                              *)
Alone ==
    /\ \A v, w \in Workers : InWorkspace(v) /\ InWorkspace(w) => v = w
    /\ \A w \in Workers : InWorkspace(w) => ~clearing
Baseline ==
    /\ state = "clean" => doc = base
    /\ state = "nogit" => doc = files
    /\ \A w \in Workers : state = "nogit" /\ InWorkspace(w) => pc[w] = "prepare"
Consolidating ==
    /\ \A w \in Workers :
          pc[w] \in {"diff", "spawn", "agent", "confirm", "reset"} => files = inputs[w]
    /\ \A w \in Workers : pc[w] \in {"confirm", "reset"} => doc = files
Consolidated ==
    \A w \in Workers :
       pc[w] = "succeed" /\ OwnsGlobal(w)
          => /\ doc = inputs[w] /\ ~clearing
             /\ \A v \in Workers : ~InWorkspace(v)
WorkspaceInv == ~disturbed => Alone /\ Baseline /\ Consolidating /\ Consolidated

USE DEF Goto, threadVars, stage1Vars, wsVars, workerVars

-----------------------------------------------------------------------------
(* What the parts of a step return.                                        *)
LEMMA SnapshotTypes ==
  /\ Nothing \in Snapshots
  /\ \A f \in Snapshots, t \in Threads : f[t] \in 0 .. MaxSource
  /\ \A f \in Snapshots, t \in Threads, s \in 0 .. MaxSource :
        [f EXCEPT ![t] = s] \in Snapshots
  /\ \A f \in Snapshots, t \in Threads : [f EXCEPT ![t] = 0] \in Snapshots
  BY PipelineConstants DEF Nothing, Snapshots

LEMMA RowTypes ==
  /\ NoRow \in Rows
  /\ \A r \in Rows : Done(r) \in Rows
  /\ \A r \in Rows : [r EXCEPT !.lease = FALSE] \in Rows
  /\ \A r \in Rows : [r EXCEPT !.backoff = FALSE] \in Rows
  /\ \A r \in Rows : r.retries > 0 => Failed(r) \in Rows
  /\ \A w \in Workers, retries \in 0 .. DefaultRetry, input, success \in 0 .. MaxSource :
        [status |-> "running", token |-> w, lease |-> TRUE, backoff |-> FALSE,
         retries |-> retries, input |-> input, success |-> success] \in Rows
<1>1. NoRow \in Rows
  BY PipelineConstants DEF Rows, NoRow
<1>2. \A r \in Rows : Done(r) \in Rows
  BY DEF Rows, Done
<1>3. \A r \in Rows : [r EXCEPT !.lease = FALSE] \in Rows
  BY DEF Rows
<1>4. \A r \in Rows : [r EXCEPT !.backoff = FALSE] \in Rows
  BY DEF Rows
<1>5. ASSUME NEW r \in Rows, r.retries > 0 PROVE Failed(r) \in Rows
  <2>1. r.retries - 1 \in 0 .. DefaultRetry
    BY <1>5, PipelineConstants DEF Rows
  <2> QED BY <2>1 DEF Rows, Failed
<1>6. \A w \in Workers, retries \in 0 .. DefaultRetry, input, success \in 0 .. MaxSource :
        [status |-> "running", token |-> w, lease |-> TRUE, backoff |-> FALSE,
         retries |-> retries, input |-> input, success |-> success] \in Rows
  BY DEF Rows
<1> QED BY <1>1, <1>2, <1>3, <1>4, <1>5, <1>6

LEMMA GlobalTypes ==
  /\ NoGlobal \in GlobalRows
  /\ \A w \in Workers : [status |-> "running", token |-> w, lease |-> TRUE,
                         backoff |-> FALSE, cooldown |-> FALSE] \in GlobalRows
  /\ \A g \in GlobalRows : Enqueue(g) \in GlobalRows
  /\ \A g \in GlobalRows, b \in BOOLEAN : [g EXCEPT !.lease = b] \in GlobalRows
  /\ \A g \in GlobalRows : [g EXCEPT !.backoff = FALSE] \in GlobalRows
  /\ \A g \in GlobalRows : [g EXCEPT !.cooldown = FALSE] \in GlobalRows
  /\ \A g \in GlobalRows :
        [g EXCEPT !.status = "done", !.lease = FALSE, !.cooldown = TRUE] \in GlobalRows
  /\ \A g \in GlobalRows :
        [g EXCEPT !.status = "error", !.lease = FALSE, !.backoff = TRUE] \in GlobalRows
<1>1. NoGlobal \in GlobalRows
  BY DEF GlobalRows, NoGlobal
<1>2. \A g \in GlobalRows : Enqueue(g) \in GlobalRows
  BY DEF GlobalRows, Enqueue
<1>3. \A g \in GlobalRows, b \in BOOLEAN : [g EXCEPT !.lease = b] \in GlobalRows
  BY DEF GlobalRows
<1>4. \A g \in GlobalRows : [g EXCEPT !.backoff = FALSE] \in GlobalRows
  BY DEF GlobalRows
<1>5. \A g \in GlobalRows : [g EXCEPT !.cooldown = FALSE] \in GlobalRows
  BY DEF GlobalRows
<1>6. \A g \in GlobalRows :
        [g EXCEPT !.status = "done", !.lease = FALSE, !.cooldown = TRUE] \in GlobalRows
  BY DEF GlobalRows
<1>7. \A g \in GlobalRows :
        [g EXCEPT !.status = "error", !.lease = FALSE, !.backoff = TRUE] \in GlobalRows
  BY DEF GlobalRows
<1>8. \A w \in Workers : [status |-> "running", token |-> w, lease |-> TRUE,
                          backoff |-> FALSE, cooldown |-> FALSE] \in GlobalRows
  BY DEF GlobalRows
<1> QED BY <1>1, <1>2, <1>3, <1>4, <1>5, <1>6, <1>7, <1>8

LEMMA SpendType ==
  ASSUME left \in Budget, NEW what \in {"claims", "runs", "changes"}, Spend(what)
  PROVE  left' \in Budget
<1>1. CASE what = "claims"
  BY <1>1 DEF Budget, Spend
<1>2. CASE what = "runs"
  BY <1>2 DEF Budget, Spend
<1>3. CASE what = "changes"
  BY <1>3 DEF Budget, Spend
<1> QED BY <1>1, <1>2, <1>3

LEMMA GotoType ==
  ASSUME pc \in [Workers -> Pcs], NEW w \in Workers, NEW s \in Pcs, Goto(w, s)
  PROVE  pc' \in [Workers -> Pcs]
  OBVIOUS

LEMMA InitType == Init => TypeOK
<1> SUFFICES ASSUME Init PROVE TypeOK
  OBVIOUS
<1>1. updated \in Snapshots
  BY PipelineConstants DEF Init, Snapshots
<1>2. job \in [Threads -> Rows] /\ glob \in GlobalRows
  BY RowTypes, GlobalTypes DEF Init
<1>3. pc \in [Workers -> Pcs]
  BY DEF Init, Pcs
<1>4. left \in Budget
  BY PipelineConstants DEF Init
<1> QED BY <1>1, <1>2, <1>3, <1>4, SnapshotTypes DEF Init, TypeOK

(* Steps of phase 1 keep the types; a leased row has a retry to spend.     *)
LEMMA Phase1Type ==
  ASSUME TypeOK, JobsInv, NEW w \in Workers, Phase1(w)
  PROVE  TypeOK'
<1>1. CASE Start(w)
  <2>1. out' \in Snapshots
    BY <1>1, PipelineConstants DEF TypeOK, Start, Snapshots
  <2> QED BY <1>1, <2>1 DEF TypeOK, Start, Pcs
<1>2. CASE Scan(w)
  <2>1. items' \in [Workers -> Snapshots]
    BY <1>2, PipelineConstants DEF TypeOK, Scan, Snapshots
  <2> QED BY <1>2, <2>1 DEF TypeOK, Scan, Pcs
<1>3. CASE ClaimsDone(w)
  BY <1>3, SnapshotTypes DEF TypeOK, ClaimsDone, Pcs
<1>4. CASE JobsDone(w)
  BY <1>4 DEF TypeOK, JobsDone, Pcs
<1>5. ASSUME NEW t \in Threads, TryClaim(w, t) PROVE TypeOK'
  <2>1. items[w][t] \in 0 .. MaxSource /\ [items[w] EXCEPT ![t] = 0] \in Snapshots
    BY SnapshotTypes, PipelineConstants DEF TypeOK
  <2>2. items' \in [Workers -> Snapshots]
    BY <1>5, <2>1 DEF TypeOK, TryClaim
  <2>3. CASE Claimable(w, t, items[w][t])
    <3>1. job' \in [Threads -> Rows]
      <4>1. /\ job[t].retries \in 0 .. DefaultRetry /\ job[t].success \in 0 .. MaxSource
            /\ DefaultRetry \in 0 .. DefaultRetry
        BY PipelineConstants DEF TypeOK, Rows
      <4>2. (IF items[w][t] > job[t].input THEN DefaultRetry ELSE job[t].retries)
               \in 0 .. DefaultRetry
        BY <4>1
      <4>3. ClaimRow(w, t, items[w][t])[t] \in Rows
        BY <4>1, <4>2, <2>1, RowTypes DEF TypeOK, ClaimRow
      <4> QED BY <1>5, <2>3, <4>3 DEF TypeOK, TryClaim, ClaimRow
    <3>2. claims' \in [Workers -> Snapshots]
      <4>1. [claims[w] EXCEPT ![t] = items[w][t]] \in Snapshots
        BY <2>1, SnapshotTypes DEF TypeOK
      <4> QED BY <1>5, <2>3, <4>1 DEF TypeOK, TryClaim
    <3>3. left' \in Budget
      BY <1>5, <2>3, SpendType DEF TypeOK, TryClaim
    <3> QED BY <1>5, <2>2, <3>1, <3>2, <3>3 DEF TypeOK, TryClaim
  <2>4. CASE ~Claimable(w, t, items[w][t])
    BY <1>5, <2>2, <2>4 DEF TypeOK, TryClaim
  <2> QED BY <2>3, <2>4
<1>6. ASSUME NEW t \in Threads, Report(w, t) PROVE claims' \in [Workers -> Snapshots]
  <2>1. [claims[w] EXCEPT ![t] = 0] \in Snapshots
    BY SnapshotTypes, PipelineConstants DEF TypeOK
  <2> QED BY <1>6, <2>1 DEF TypeOK, Report
<1>7. ASSUME NEW t \in Threads PROVE /\ [job EXCEPT ![t] = Done(@)] \in [Threads -> Rows]
                                     /\ [out EXCEPT ![t] = 0] \in Snapshots
                                     /\ [sel EXCEPT ![t] = 0] \in Snapshots
                                     /\ Enqueue(glob) \in GlobalRows
  BY RowTypes, GlobalTypes, SnapshotTypes, PipelineConstants DEF TypeOK
<1>8. ASSUME NEW t \in Threads, MarkSucceeded(w, t) PROVE TypeOK'
  <2>1. claims[w][t] \in 0 .. MaxSource /\ out[t] \in 0 .. MaxSource
    BY SnapshotTypes DEF TypeOK
  <2>2. [out EXCEPT ![t] = IF claims[w][t] >= @ THEN claims[w][t] ELSE @] \in Snapshots
    BY <2>1, SnapshotTypes DEF TypeOK
  <2>3. claims' \in [Workers -> Snapshots]
    BY <1>6, <1>8 DEF MarkSucceeded
  <2>4. job' \in [Threads -> Rows] /\ out' \in Snapshots /\ glob' \in GlobalRows
    BY <1>7, <1>8, <2>2 DEF TypeOK, MarkSucceeded
  <2> QED BY <1>8, <2>3, <2>4 DEF TypeOK, MarkSucceeded, Report
<1>9. ASSUME NEW t \in Threads, MarkSucceededNoOutput(w, t) PROVE TypeOK'
  <2>1. claims' \in [Workers -> Snapshots]
    BY <1>6, <1>9 DEF MarkSucceededNoOutput
  <2>2. /\ job' \in [Threads -> Rows] /\ out' \in Snapshots /\ sel' \in Snapshots
        /\ glob' \in GlobalRows
    BY <1>7, <1>9 DEF TypeOK, MarkSucceededNoOutput
  <2> QED BY <1>9, <2>1, <2>2 DEF TypeOK, MarkSucceededNoOutput, Report
<1>10. ASSUME NEW t \in Threads, MarkFailed(w, t) PROVE TypeOK'
  <2>1. job' \in [Threads -> Rows]
    BY <1>10, RowTypes DEF TypeOK, JobsInv, MarkFailed, Owned
  <2>2. claims' \in [Workers -> Snapshots]
    BY <1>6, <1>10 DEF MarkFailed
  <2> QED BY <1>10, <2>1, <2>2 DEF TypeOK, MarkFailed, Report
<1>11. ASSUME NEW t \in Threads, ReportLost(w, t) PROVE TypeOK'
  <2>1. claims' \in [Workers -> Snapshots]
    BY <1>6, <1>11 DEF ReportLost
  <2> QED BY <1>11, <2>1 DEF TypeOK, ReportLost, Report
<1> QED BY <1>1, <1>2, <1>3, <1>4, <1>5, <1>8, <1>9, <1>10, <1>11 DEF Phase1

LEMMA Phase2Type ==
  ASSUME TypeOK, NEW w \in Workers, Phase2(w)
  PROVE  TypeOK'
<1>1. CASE ClaimGlobal(w)
  <2>1. CASE GlobalClaimable
    <3>1. glob' \in GlobalRows
      BY <1>1, <2>1, GlobalTypes DEF ClaimGlobal
    <3>2. left' \in Budget
      BY <1>1, <2>1, SpendType DEF TypeOK, ClaimGlobal
    <3>3. disturbed' \in BOOLEAN
      BY <1>1, <2>1 DEF TypeOK, ClaimGlobal, InWorkspace
    <3> QED BY <1>1, <2>1, <3>1, <3>2, <3>3 DEF TypeOK, ClaimGlobal, Pcs
  <2>2. CASE ~GlobalClaimable
    BY <1>1, <2>2 DEF TypeOK, ClaimGlobal, Pcs
  <2> QED BY <2>1, <2>2
<1>2. CASE PrepareWorkspace(w)
  BY <1>2 DEF TypeOK, PrepareWorkspace, NewBaseline, Proceed, Pcs
<1>3. CASE ListInputs(w) \/ ReadInputs(w)
  <2>1. inputs' \in [Workers -> Snapshots]
    <3>1. CASE ListInputs(w)
      BY <3>1, PipelineConstants DEF TypeOK, ListInputs, Snapshots
    <3>2. CASE ReadInputs(w)
      BY <3>2, PipelineConstants DEF TypeOK, ReadInputs, Snapshots
    <3> QED BY <1>3, <3>1, <3>2
  <2> QED BY <1>3, <2>1 DEF TypeOK, ListInputs, ReadInputs, Proceed, Pcs
<1>4. CASE SyncInputs(w)
  BY <1>4 DEF TypeOK, SyncInputs, Proceed, Pcs
<1>5. CASE SyncInputsFails(w)
  <2>1. files' \in Snapshots
    BY <1>5 DEF TypeOK, SyncInputsFails, Synced, Snapshots
  <2> QED BY <1>5, <2>1 DEF TypeOK, SyncInputsFails, Proceed, Pcs
<1>6. CASE WorkspaceDiff(w) \/ StepFails(w) \/ SpawnAgent(w)
  BY <1>6 DEF TypeOK, WorkspaceDiff, StepFails, NewBaseline, SpawnAgent, Proceed, Pcs
<1>7. CASE Heartbeat(w)
  BY <1>7, GlobalTypes DEF TypeOK, Heartbeat, Renewed, Proceed, Pcs
<1>8. CASE ConfirmOwnership(w)
  BY <1>8, GlobalTypes DEF TypeOK, ConfirmOwnership, Renewed, Proceed, Pcs
<1>9. CASE ConfirmOwnershipFails(w)
  BY <1>9 DEF TypeOK, ConfirmOwnershipFails, Proceed, Pcs
<1>10. CASE AgentCompletes(w) \/ AgentFails(w) \/ AgentEdits(w)
  BY <1>10 DEF TypeOK, AgentCompletes, AgentFails, AgentEdits, Edit, Proceed, Pcs
<1>11. CASE ResetBaseline(w) \/ ResetBaselineFails(w)
  BY <1>11, SnapshotTypes
     DEF TypeOK, ResetBaseline, ResetBaselineFails, NewBaseline, NoBaseline, Proceed, Pcs
<1>12. CASE MarkGlobalSucceeded(w)
  <2>1. Selected(w) \in Snapshots
    BY PipelineConstants DEF TypeOK, Selected, Snapshots
  <2>2. sel' \in Snapshots /\ glob' \in GlobalRows
    BY <1>12, <2>1, GlobalTypes DEF TypeOK, MarkGlobalSucceeded
  <2> QED BY <1>12, <2>2, SnapshotTypes DEF TypeOK, MarkGlobalSucceeded, Pcs
<1>13. CASE MarkGlobalFailed(w)
  BY <1>13, GlobalTypes, SnapshotTypes DEF TypeOK, MarkGlobalFailed, AfterFailure, Pcs
<1>14. CASE GlobalReportLost(w)
  BY <1>14, SnapshotTypes DEF TypeOK, GlobalReportLost, AfterFailure, Pcs
<1>15. CASE WatchFails(w) \/ AgentClosed(w)
  BY <1>15 DEF TypeOK, WatchFails, AgentClosed, Proceed, Pcs
<1> QED
  BY <1>1, <1>2, <1>3, <1>4, <1>5, <1>6, <1>7, <1>8, <1>9, <1>10, <1>11, <1>12, <1>13, <1>14,
     <1>15
     DEF Phase2

LEMMA CrashType ==
  ASSUME TypeOK, NEW w \in Workers, Crash(w)
  PROVE  TypeOK'
<1>1. /\ pc' \in [Workers -> Pcs] /\ items' \in [Workers -> Snapshots]
      /\ claims' \in [Workers -> Snapshots] /\ inputs' \in [Workers -> Snapshots]
  BY SnapshotTypes DEF TypeOK, Crash, Pcs
<1>2. files' \in Snapshots
  BY DEF TypeOK, Crash, Synced, Snapshots, Edit, NewBaseline, NoBaseline
<1>3. doc' \in Snapshots /\ base' \in Snapshots /\ state' \in {"clean", "edited", "nogit"}
  BY SnapshotTypes DEF TypeOK, Crash, Edit, NewBaseline, NoBaseline
<1> QED BY <1>1, <1>2, <1>3 DEF TypeOK, Crash

LEMMA EnvironmentType ==
  ASSUME TypeOK, Environment
  PROVE  TypeOK'
<1>1. ASSUME NEW t \in Threads, ThreadUpdated(t) PROVE TypeOK'
  <2>1. updated' \in Snapshots
    BY <1>1, PipelineConstants DEF TypeOK, ThreadUpdated, Snapshots
  <2>2. left' \in Budget
    BY <1>1, SpendType DEF TypeOK, ThreadUpdated
  <2> QED BY <1>1, <2>1, <2>2 DEF TypeOK, ThreadUpdated
<1>2. ASSUME NEW t \in Threads, DeleteThread(t) PROVE TypeOK'
  <2>1. updated' \in Snapshots
    BY <1>2, SnapshotTypes, PipelineConstants DEF TypeOK, DeleteThread
  <2>2. left' \in Budget
    BY <1>2, SpendType DEF TypeOK, DeleteThread
  <2> QED BY <1>2, <2>1, <2>2 DEF TypeOK, DeleteThread
<1>3. ASSUME NEW t \in Threads, MarkPolluted(t) PROVE TypeOK'
  <2>1. left' \in Budget
    BY <1>3, SpendType DEF TypeOK, MarkPolluted
  <2> QED BY <1>3, <2>1 DEF TypeOK, MarkPolluted
<1>4. ASSUME NEW t \in Threads, DeleteThreadMemory(t) PROVE TypeOK'
  <2>1. out' \in Snapshots /\ sel' \in Snapshots
    BY <1>4, SnapshotTypes, PipelineConstants DEF TypeOK, DeleteThreadMemory
  <2>2. job' \in [Threads -> Rows] /\ glob' \in GlobalRows
    BY <1>4, RowTypes, GlobalTypes DEF TypeOK, DeleteThreadMemory
  <2> QED BY <1>4, <2>1, <2>2 DEF TypeOK, DeleteThreadMemory
<1>5. ASSUME NEW t \in Threads, EnqueueForgetting(t) PROVE TypeOK'
  BY <1>5, GlobalTypes DEF TypeOK, EnqueueForgetting
<1>6. CASE ClearMemoryData
  <2>1. job' \in [Threads -> Rows] /\ glob' \in GlobalRows
    BY <1>6, RowTypes, GlobalTypes DEF ClearMemoryData
  <2>2. left' \in Budget
    BY <1>6, SpendType DEF TypeOK, ClearMemoryData
  <2>3. late' \subseteq Workers \cup {NoOne} /\ disturbed' \in BOOLEAN
    BY <1>6 DEF TypeOK, ClearMemoryData, GlobalRows, InWorkspace
  <2> QED BY <1>6, <2>1, <2>2, <2>3, SnapshotTypes DEF TypeOK, ClearMemoryData
<1>7. CASE ClearMemoryRoots
  BY <1>7, SnapshotTypes DEF TypeOK, ClearMemoryRoots, NoBaseline
<1>8. CASE ClearMemoryRootsFails
  <2>1. files' \in Snapshots
    BY <1>8, PipelineConstants DEF TypeOK, ClearMemoryRootsFails, Snapshots
  <2> QED BY <1>8, <2>1, SnapshotTypes DEF TypeOK, ClearMemoryRootsFails, NoBaseline
<1>9. CASE Time
  <2>1. job' \in [Threads -> Rows]
    BY <1>9, RowTypes
       DEF TypeOK, Time, LeaseEnds, BackoffEnds, GlobalLeaseEnds, GlobalBackoffEnds, CooldownEnds
  <2>2. glob' \in GlobalRows
    BY <1>9, GlobalTypes
       DEF TypeOK, Time, LeaseEnds, BackoffEnds, GlobalLeaseEnds, GlobalBackoffEnds, CooldownEnds
  <2>3. late' \subseteq Workers \cup {NoOne}
    BY <1>9 DEF TypeOK, GlobalRows, Time, LeaseEnds, BackoffEnds, GlobalLeaseEnds,
                GlobalBackoffEnds, CooldownEnds
  <2> QED BY <1>9, <2>1, <2>2, <2>3 DEF TypeOK, Time
<1> QED BY <1>1, <1>2, <1>3, <1>4, <1>5, <1>6, <1>7, <1>8, <1>9 DEF Environment

-----------------------------------------------------------------------------
(* Stage-1 jobs.                                                           *)
LEMMA InitJobs == Init => JobsInv
  BY DEF Init, JobsInv, OutputMatchesJob, NoRow, Nothing

(* Clearing claims or outputs, with the rows as they are, keeps JobsInv.   *)
LEMMA FewerClaims ==
  ASSUME TypeOK, JobsInv, UNCHANGED job,
         \A t \in Threads : out'[t] = 0 \/ out'[t] = out[t],
         \A w \in Workers, t \in Threads : claims'[w][t] = 0 \/ claims'[w][t] = claims[w][t]
  PROVE  JobsInv'
<1>1. OutputMatchesJob'
  BY DEF TypeOK, JobsInv, OutputMatchesJob
<1>2. ASSUME NEW w \in Workers, NEW t \in Threads, claims'[w][t] > 0, Owned(w, t)'
      PROVE (job[t].input = claims[w][t] /\ job[t].success < claims[w][t])'
  BY <1>2 DEF JobsInv, Owned
<1> QED BY <1>1, <1>2 DEF JobsInv

LEMMA ReportClaims ==
  ASSUME TypeOK, NEW w \in Workers, NEW t \in Threads, Report(w, t)
  PROVE  /\ claims[w][t] > 0 /\ claims[w][t] \in 0 .. MaxSource
         /\ \A v \in Workers, u \in Threads :
               claims'[v][u] = IF v = w /\ u = t THEN 0 ELSE claims[v][u]
  BY DEF TypeOK, Report, Snapshots

(* The owner reports success: its source is newer than what was stored.    *)
LEMMA DoneJobs ==
  ASSUME TypeOK, JobsInv, NEW w \in Workers, NEW t \in Threads, Report(w, t), Owned(w, t),
         job' = [job EXCEPT ![t] = Done(@)],
         \A u \in Threads : u # t => out'[u] = out[u],
         out'[t] \in {0, claims[w][t]}
  PROVE  JobsInv'
<1>1. /\ job'[t].status = "done" /\ job'[t].success = job[t].input
      /\ job'[t].token = w /\ \A u \in Threads : u # t => job'[u] = job[u]
  BY DEF TypeOK, Rows, Done, Owned
<1>2. job[t].input = claims[w][t]
  BY ReportClaims DEF JobsInv
<1>3. OutputMatchesJob'
  BY <1>1, <1>2 DEF JobsInv, OutputMatchesJob
<1>4. ASSUME NEW v \in Workers, NEW u \in Threads, claims'[v][u] > 0, Owned(v, u)'
      PROVE (job[u].input = claims[v][u] /\ job[u].success < claims[v][u])'
  <2>1. u # t
    BY <1>1, <1>4 DEF Owned
  <2>2. claims'[v][u] = claims[v][u]
    BY <2>1, ReportClaims
  <2> QED BY <1>1, <1>4, <2>1, <2>2 DEF JobsInv, Owned
<1>5. \A u \in Threads : /\ job'[u].status = "running" => job'[u].retries > 0
                         /\ job'[u].status = "none" => job'[u].input = 0
  BY <1>1 DEF JobsInv
<1> QED BY <1>3, <1>4, <1>5 DEF JobsInv

LEMMA Phase1Jobs ==
  ASSUME TypeOK, JobsInv, NEW w \in Workers, Phase1(w)
  PROVE  JobsInv'
<1>1. CASE Start(w)
  BY <1>1, FewerClaims DEF TypeOK, Start
<1>2. CASE Scan(w) \/ ClaimsDone(w) \/ JobsDone(w)
  BY <1>2, FewerClaims DEF Scan, ClaimsDone, JobsDone
<1>3. ASSUME NEW t \in Threads, TryClaim(w, t) PROVE JobsInv'
  <2>1. CASE ~Claimable(w, t, items[w][t])
    BY <1>3, <2>1, FewerClaims DEF TryClaim
  <2>2. CASE Claimable(w, t, items[w][t])
    <3> DEFINE src == items[w][t]
    <3>1. /\ src \in Nat /\ src > 0 /\ DefaultRetry > 0
          /\ out[t] \in Nat /\ job[t].retries \in Nat
          /\ job[t].input \in Nat /\ job[t].success \in Nat
      BY <1>3, SnapshotTypes, PipelineConstants DEF TypeOK, TryClaim, Rows
    <3>2. /\ job'[t] = [status |-> "running", token |-> w, lease |-> TRUE, backoff |-> FALSE,
                        retries |-> IF src > job[t].input THEN DefaultRetry ELSE job[t].retries,
                        input |-> src, success |-> job[t].success]
          /\ \A u \in Threads : u # t => job'[u] = job[u]
          /\ out' = out
      BY <1>3, <2>2 DEF TypeOK, TryClaim, ClaimRow
    <3>3. \A v \in Workers, u \in Threads :
             claims'[v][u] = IF v = w /\ u = t THEN src ELSE claims[v][u]
      BY <1>3, <2>2 DEF TypeOK, TryClaim, Snapshots
    <3>4. job'[t].retries > 0
      BY <2>2, <3>1, <3>2 DEF Claimable, JobsInv
    <3>5. job[t].success < src
      BY <2>2 DEF Claimable, Stale
    <3>6. OutputMatchesJob'
      BY <3>2 DEF JobsInv, OutputMatchesJob
    <3>7. ASSUME NEW v \in Workers, NEW u \in Threads, claims'[v][u] > 0, Owned(v, u)'
          PROVE (job[u].input = claims[v][u] /\ job[u].success < claims[v][u])'
      <4>1. CASE u = t
        <5>1. v = w
          BY <3>2, <3>7, <4>1 DEF Owned
        <5> QED BY <3>2, <3>3, <3>5, <4>1, <5>1
      <4>2. CASE u # t
        BY <3>2, <3>3, <3>7, <4>2 DEF JobsInv, Owned
      <4> QED BY <4>1, <4>2
    <3>8. \A u \in Threads : /\ job'[u].status = "running" => job'[u].retries > 0
                             /\ job'[u].status = "none" => job'[u].input = 0
      BY <3>2, <3>4 DEF JobsInv
    <3> QED BY <3>6, <3>7, <3>8 DEF JobsInv
  <2> QED BY <2>1, <2>2
<1>4. ASSUME NEW t \in Threads, MarkSucceeded(w, t) PROVE JobsInv'
  <2>1. Report(w, t)
    BY <1>4 DEF MarkSucceeded
  <2>2. CASE Owned(w, t)
    <3>1. job[t].success < claims[w][t]
      BY <2>1, <2>2, ReportClaims DEF JobsInv
    <3>2. out[t] \in 0 .. MaxSource /\ claims[w][t] \in 0 .. MaxSource
      BY <2>1, ReportClaims, SnapshotTypes DEF TypeOK
    <3>3. claims[w][t] >= out[t]
      BY <3>1, <3>2, ReportClaims, <2>1 DEF JobsInv, OutputMatchesJob
    <3>4. out'[t] = claims[w][t] /\ \A u \in Threads : u # t => out'[u] = out[u]
      BY <1>4, <2>2, <3>3 DEF TypeOK, MarkSucceeded, Snapshots
    <3> QED BY <1>4, <2>1, <2>2, <3>4, DoneJobs DEF MarkSucceeded
  <2>3. CASE ~Owned(w, t)
    BY <1>4, <2>1, <2>3, ReportClaims, FewerClaims DEF MarkSucceeded
  <2> QED BY <2>2, <2>3
<1>5. ASSUME NEW t \in Threads, MarkSucceededNoOutput(w, t) PROVE JobsInv'
  <2>1. Report(w, t)
    BY <1>5 DEF MarkSucceededNoOutput
  <2>2. CASE Owned(w, t)
    <3>1. out'[t] = 0 /\ \A u \in Threads : u # t => out'[u] = out[u]
      BY <1>5, <2>2 DEF TypeOK, MarkSucceededNoOutput, Snapshots
    <3> QED BY <1>5, <2>1, <2>2, <3>1, DoneJobs DEF MarkSucceededNoOutput
  <2>3. CASE ~Owned(w, t)
    BY <1>5, <2>1, <2>3, ReportClaims, FewerClaims DEF MarkSucceededNoOutput
  <2> QED BY <2>2, <2>3
<1>6. ASSUME NEW t \in Threads, MarkFailed(w, t) PROVE JobsInv'
  <2>1. Report(w, t) /\ out' = out
    BY <1>6 DEF MarkFailed
  <2>2. CASE Owned(w, t)
    <3>1. /\ job'[t].status = "error" /\ job'[t].success = job[t].success
          /\ \A u \in Threads : u # t => job'[u] = job[u]
      BY <1>6, <2>2 DEF TypeOK, Rows, MarkFailed, Failed
    <3>2. OutputMatchesJob'
      BY <2>1, <3>1 DEF JobsInv, OutputMatchesJob
    <3>3. ASSUME NEW v \in Workers, NEW u \in Threads, claims'[v][u] > 0, Owned(v, u)'
          PROVE (job[u].input = claims[v][u] /\ job[u].success < claims[v][u])'
      <4>1. u # t
        BY <3>1, <3>3 DEF Owned
      <4>2. claims'[v][u] = claims[v][u]
        BY <2>1, <4>1, ReportClaims
      <4> QED BY <3>1, <3>3, <4>1, <4>2 DEF JobsInv, Owned
    <3> QED BY <3>1, <3>2, <3>3 DEF JobsInv
  <2>3. CASE ~Owned(w, t)
    BY <1>6, <2>1, <2>3, ReportClaims, FewerClaims DEF MarkFailed
  <2> QED BY <2>2, <2>3
<1>7. ASSUME NEW t \in Threads, ReportLost(w, t) PROVE JobsInv'
  <2>1. Report(w, t) /\ UNCHANGED <<job, out>>
    BY <1>7 DEF ReportLost
  <2> QED BY <2>1, ReportClaims, FewerClaims
<1> QED BY <1>1, <1>2, <1>3, <1>4, <1>5, <1>6, <1>7 DEF Phase1

LEMMA Phase2Jobs ==
  ASSUME TypeOK, JobsInv, NEW w \in Workers, Phase2(w)
  PROVE  JobsInv'
<1>1. UNCHANGED <<job, out, claims>>
  BY DEF Phase2, ClaimGlobal, PrepareWorkspace, ListInputs, ReadInputs, SyncInputs,
         SyncInputsFails, WorkspaceDiff, StepFails, SpawnAgent, Heartbeat, AgentCompletes,
         AgentFails, WatchFails, AgentEdits, AgentClosed, AfterFailure, ConfirmOwnership,
         ConfirmOwnershipFails, ResetBaseline, ResetBaselineFails, MarkGlobalSucceeded,
         MarkGlobalFailed, GlobalReportLost, Proceed
<1> QED BY <1>1, FewerClaims

LEMMA CrashJobs ==
  ASSUME TypeOK, JobsInv, NEW w \in Workers, Crash(w)
  PROVE  JobsInv'
<1>1. UNCHANGED <<job, out>>
  BY DEF Crash
<1>2. \A v \in Workers, t \in Threads : claims'[v][t] = 0 \/ claims'[v][t] = claims[v][t]
  BY DEF TypeOK, Crash, Nothing
<1> QED BY <1>1, <1>2, FewerClaims

(* Rows that are removed, or only age, keep JobsInv.                       *)
LEMMA AgeingJobs ==
  ASSUME TypeOK, JobsInv, UNCHANGED claims,
         \A t \in Threads :
            \/ job'[t] = NoRow /\ out'[t] = 0
            \/ /\ job'[t].status = job[t].status /\ job'[t].token = job[t].token
               /\ job'[t].retries = job[t].retries /\ job'[t].input = job[t].input
               /\ job'[t].success = job[t].success /\ out'[t] = out[t]
  PROVE  JobsInv'
<1>1. OutputMatchesJob'
  BY DEF JobsInv, OutputMatchesJob
<1>2. ASSUME NEW v \in Workers, NEW u \in Threads, claims'[v][u] > 0, Owned(v, u)'
      PROVE (job[u].input = claims[v][u] /\ job[u].success < claims[v][u])'
  BY <1>2 DEF JobsInv, Owned, NoRow
<1>3. \A u \in Threads : /\ job'[u].status = "running" => job'[u].retries > 0
                         /\ job'[u].status = "none" => job'[u].input = 0
  BY DEF JobsInv, NoRow
<1> QED BY <1>1, <1>2, <1>3 DEF JobsInv

LEMMA EnvironmentJobs ==
  ASSUME TypeOK, JobsInv, Environment
  PROVE  JobsInv'
<1>1. ASSUME NEW t \in Threads,
             ThreadUpdated(t) \/ DeleteThread(t) \/ MarkPolluted(t) \/ EnqueueForgetting(t)
      PROVE JobsInv'
  BY <1>1, FewerClaims DEF ThreadUpdated, DeleteThread, MarkPolluted, EnqueueForgetting
<1>2. ASSUME NEW t \in Threads, DeleteThreadMemory(t) PROVE JobsInv'
  BY <1>2, AgeingJobs DEF TypeOK, DeleteThreadMemory, Snapshots
<1>3. CASE ClearMemoryData
  BY <1>3, AgeingJobs DEF ClearMemoryData, Nothing
<1>4. CASE ClearMemoryRoots \/ ClearMemoryRootsFails
  BY <1>4, FewerClaims DEF ClearMemoryRoots, ClearMemoryRootsFails
<1>5. CASE Time
  <2>1. UNCHANGED <<out, claims>>
    BY <1>5 DEF Time
  <2>2. ASSUME NEW t \in Threads, LeaseEnds(t) \/ BackoffEnds(t) PROVE JobsInv'
    <3>1. \A u \in Threads :
             /\ job'[u].status = job[u].status /\ job'[u].token = job[u].token
             /\ job'[u].retries = job[u].retries /\ job'[u].input = job[u].input
             /\ job'[u].success = job[u].success
      BY <2>2 DEF TypeOK, Rows, LeaseEnds, BackoffEnds
    <3> QED BY <2>1, <3>1, AgeingJobs
  <2>3. CASE UNCHANGED job
    BY <2>1, <2>3, FewerClaims
  <2> QED BY <1>5, <2>2, <2>3 DEF Time, GlobalLeaseEnds, GlobalBackoffEnds, CooldownEnds
<1> QED BY <1>1, <1>2, <1>3, <1>4, <1>5 DEF Environment

LEMMA NextTypeJobs ==
  ASSUME TypeOK, JobsInv, [Next]_vars
  PROVE  TypeOK' /\ JobsInv'
<1>1. CASE UNCHANGED vars
  <2>1. TypeOK'
    BY <1>1 DEF vars, TypeOK
  <2> QED BY <1>1, <2>1, FewerClaims DEF vars
<1>2. ASSUME NEW w \in Workers, Phase1(w) PROVE TypeOK' /\ JobsInv'
  BY <1>2, Phase1Type, Phase1Jobs
<1>3. ASSUME NEW w \in Workers, Phase2(w) PROVE TypeOK' /\ JobsInv'
  BY <1>3, Phase2Type, Phase2Jobs
<1>4. ASSUME NEW w \in Workers, Crash(w) PROVE TypeOK' /\ JobsInv'
  BY <1>4, CrashType, CrashJobs
<1>5. CASE Environment
  BY <1>5, EnvironmentType, EnvironmentJobs
<1> QED BY <1>1, <1>2, <1>3, <1>4, <1>5 DEF Next

(* Every variable keeps its type; in particular the retries of a job never *)
(* go below 0, however its leases end and its workers report.              *)
THEOREM TypeCorrect == Spec => []TypeOK
<1>1. Init => TypeOK /\ JobsInv
  BY InitType, InitJobs
<1>2. TypeOK /\ JobsInv /\ [Next]_vars => (TypeOK /\ JobsInv)'
  BY NextTypeJobs
<1> QED BY <1>1, <1>2, PTL DEF Spec

(* A stored memory is the one its job last succeeded with.                 *)
THEOREM OutputsMatch == Spec => []OutputMatchesJob
<1>1. Init => TypeOK /\ JobsInv
  BY InitType, InitJobs
<1>2. TypeOK /\ JobsInv /\ [Next]_vars => (TypeOK /\ JobsInv)'
  BY NextTypeJobs
<1>3. JobsInv => OutputMatchesJob
  BY DEF JobsInv
<1> QED BY <1>1, <1>2, <1>3, PTL DEF Spec

-----------------------------------------------------------------------------
(* The lock on the workspace.                                              *)

(* Phase 1 is outside the workspace; it can only enqueue a consolidation.  *)
LEMMA Phase1Frame ==
  ASSUME TypeOK, NEW w \in Workers, Phase1(w)
  PROVE  /\ pc[w] \in {"idle", "scan", "claim", "jobs"}
         /\ pc'[w] \in {"scan", "claim", "jobs", "phase2"}
         /\ \A v \in Workers : v # w => pc'[v] = pc[v]
         /\ UNCHANGED <<wsVars, inputs, clearing, late, disturbed>>
         /\ glob' = glob \/ glob' = Enqueue(glob)
<1>1. CASE Start(w)
  BY <1>1 DEF TypeOK, Start
<1>2. CASE Scan(w)
  BY <1>2 DEF TypeOK, Scan
<1>3. CASE ClaimsDone(w)
  BY <1>3 DEF TypeOK, ClaimsDone
<1>4. CASE JobsDone(w)
  BY <1>4 DEF TypeOK, JobsDone
<1>5. ASSUME NEW t \in Threads, TryClaim(w, t)
      PROVE  pc[w] = "claim" /\ UNCHANGED <<pc, wsVars, inputs, clearing, late, disturbed, glob>>
  BY <1>5 DEF TryClaim
<1>6. ASSUME NEW t \in Threads,
             \/ MarkSucceeded(w, t) \/ MarkSucceededNoOutput(w, t)
             \/ MarkFailed(w, t) \/ ReportLost(w, t)
      PROVE  /\ pc[w] = "jobs" /\ UNCHANGED <<pc, wsVars, inputs, clearing, late, disturbed>>
             /\ glob' = glob \/ glob' = Enqueue(glob)
  BY <1>6 DEF MarkSucceeded, MarkSucceededNoOutput, MarkFailed, ReportLost, Report
<1> QED BY <1>1, <1>2, <1>3, <1>4, <1>5, <1>6 DEF Phase1

LEMMA EnqueueOwner ==
  ASSUME glob \in GlobalRows, glob' = glob \/ glob' = Enqueue(glob)
  PROVE  /\ \A w \in Workers : OwnsGlobal(w)' <=> OwnsGlobal(w)
         /\ \A w \in Workers : OwnsGlobal(w) => glob' = glob
         /\ glob.status = "running" => glob'.status = "running"
  BY DEF GlobalRows, Enqueue, OwnsGlobal

(* A step of phase 2 within the workspace, or out of it.                   *)
LEMMA Phase2Frame ==
  ASSUME TypeOK, NEW w \in Workers, Phase2(w), ~ClaimGlobal(w)
  PROVE  /\ UNCHANGED <<clearing, late, disturbed>>
         /\ \A v \in Workers : v # w => pc'[v] = pc[v] /\ inputs'[v] = inputs[v]
         /\ InWorkspace(w) \/ pc[w] \in {"succeed", "fail"}
         /\ pc[w] = "closing" => pc'[w] \in {"closing", "idle"}
         /\ ~InWorkspace(w) => ~InWorkspace(w)' /\ pc'[w] = "idle" /\ UNCHANGED wsVars
         /\ glob' = glob \/ OwnsGlobal(w)
  BY DEF TypeOK, Phase2, PrepareWorkspace, ListInputs, ReadInputs, SyncInputs, SyncInputsFails,
         WorkspaceDiff, StepFails, SpawnAgent, Heartbeat, AgentCompletes, AgentFails,
         WatchFails, AgentEdits, AgentClosed, AfterFailure, ConfirmOwnership,
         ConfirmOwnershipFails, ResetBaseline, ResetBaselineFails, MarkGlobalSucceeded,
         MarkGlobalFailed, GlobalReportLost, Proceed, InWorkspace

LEMMA InitLease == Init => LeaseInv
  BY DEF Init, LeaseInv, InWorkspace

LEMMA NextLease ==
  ASSUME TypeOK, LeaseInv, [Next]_vars
  PROVE  LeaseInv'
<1>1. CASE UNCHANGED vars
  BY <1>1 DEF vars, LeaseInv, InWorkspace, OwnsGlobal
<1>2. ASSUME NEW w \in Workers, Phase1(w) PROVE LeaseInv'
  BY <1>2, Phase1Frame, EnqueueOwner DEF TypeOK, LeaseInv, InWorkspace
<1>3. ASSUME NEW w \in Workers, ClaimGlobal(w) PROVE LeaseInv'
  <2>1. CASE ~GlobalClaimable
    BY <1>3, <2>1 DEF TypeOK, LeaseInv, InWorkspace, OwnsGlobal, ClaimGlobal
  <2>2. CASE GlobalClaimable
    <3>1. \A v \in Workers : InWorkspace(v) /\ pc[v] # "closing" => v \in late
      BY <2>2 DEF LeaseInv, GlobalClaimable, OwnsGlobal, Leased
    <3>2. /\ glob'.status = "running" /\ glob'.token = w /\ glob'.lease
          /\ late' = late \ {w} /\ \A v \in Workers : v # w => pc'[v] = pc[v]
      BY <1>3, <2>2 DEF TypeOK, ClaimGlobal
    <3> QED BY <3>1, <3>2 DEF LeaseInv, InWorkspace, OwnsGlobal
  <2> QED BY <2>1, <2>2
<1>4. ASSUME NEW w \in Workers, Phase2(w), ~ClaimGlobal(w) PROVE LeaseInv'
  <2> SUFFICES ASSUME NEW v \in Workers, InWorkspace(v)', pc'[v] # "closing", v \notin late'
               PROVE  (OwnsGlobal(v) /\ glob.lease)'
    BY DEF LeaseInv
  <2>1. InWorkspace(v) /\ pc[v] # "closing" /\ v \notin late
    <3>1. CASE v # w
      BY <1>4, <3>1, Phase2Frame DEF InWorkspace
    <3>2. CASE v = w
      BY <1>4, <3>2, Phase2Frame DEF InWorkspace
    <3> QED BY <3>1, <3>2
  <2>2. OwnsGlobal(v) /\ glob.lease
    BY <2>1 DEF LeaseInv
  <2>3. CASE glob' = glob
    BY <2>2, <2>3 DEF OwnsGlobal
  <2>4. CASE glob' # glob
    <3>1. v = w
      BY <1>4, <2>2, <2>4, Phase2Frame DEF OwnsGlobal
    <3>2. glob' = Renewed
      BY <1>4, <2>1, <2>4, <3>1
         DEF TypeOK, Phase2, PrepareWorkspace, ListInputs, ReadInputs, SyncInputs,
             SyncInputsFails, WorkspaceDiff, StepFails, SpawnAgent, Heartbeat, AgentCompletes,
             AgentFails, WatchFails, AgentEdits, AgentClosed, AfterFailure, ConfirmOwnership,
             ConfirmOwnershipFails, ResetBaseline, ResetBaselineFails, MarkGlobalSucceeded,
             MarkGlobalFailed, GlobalReportLost, Proceed, InWorkspace
    <3> QED BY <2>2, <3>2 DEF TypeOK, GlobalRows, Renewed, OwnsGlobal
  <2> QED BY <2>3, <2>4
<1>5. ASSUME NEW w \in Workers, Crash(w) PROVE LeaseInv'
  BY <1>5 DEF TypeOK, LeaseInv, InWorkspace, OwnsGlobal, Crash
<1>6. CASE Environment
  <2>1. ASSUME NEW t \in Threads, ThreadUpdated(t) \/ DeleteThread(t) \/ MarkPolluted(t)
        PROVE LeaseInv'
    BY <2>1 DEF LeaseInv, InWorkspace, OwnsGlobal, ThreadUpdated, DeleteThread, MarkPolluted
  <2>2. ASSUME NEW t \in Threads, DeleteThreadMemory(t) \/ EnqueueForgetting(t)
        PROVE LeaseInv'
    <3>1. UNCHANGED <<pc, late>> /\ (glob' = glob \/ glob' = Enqueue(glob))
      BY <2>2 DEF DeleteThreadMemory, EnqueueForgetting
    <3> QED BY <3>1, EnqueueOwner DEF TypeOK, LeaseInv, InWorkspace
  <2>3. CASE ClearMemoryData
    BY <2>3 DEF TypeOK, LeaseInv, InWorkspace, OwnsGlobal, Leased, ClearMemoryData
  <2>4. CASE ClearMemoryRoots \/ ClearMemoryRootsFails
    BY <2>4 DEF LeaseInv, InWorkspace, OwnsGlobal, ClearMemoryRoots, ClearMemoryRootsFails
  <2>5. CASE Time
    <3>1. pc' = pc /\ late \subseteq late'
      BY <2>5 DEF Time, LeaseEnds, BackoffEnds, GlobalLeaseEnds, GlobalBackoffEnds, CooldownEnds
    <3>2. CASE GlobalLeaseEnds
      BY <3>1, <3>2 DEF TypeOK, LeaseInv, InWorkspace, OwnsGlobal, GlobalLeaseEnds
    <3>3. CASE ~GlobalLeaseEnds
      <4>1. glob'.status = glob.status /\ glob'.token = glob.token /\ glob'.lease = glob.lease
        BY <2>5, <3>3 DEF TypeOK, GlobalRows, Time, LeaseEnds, BackoffEnds,
                          GlobalBackoffEnds, CooldownEnds
      <4> QED BY <3>1, <4>1 DEF LeaseInv, InWorkspace, OwnsGlobal
    <3> QED BY <3>2, <3>3
  <2> QED BY <1>6, <2>1, <2>2, <2>3, <2>4, <2>5 DEF Environment
<1> QED BY <1>1, <1>2, <1>3, <1>4, <1>5, <1>6 DEF Next, Phase2

(* Two workers meet in the workspace only when a lease ended or was taken  *)
(* away, or one of them has given up and is closing its agent.             *)
THEOREM LeaseProtectsWorkspace == Spec => []LeaseProtects
<1>1. Init => TypeOK /\ JobsInv /\ LeaseInv
  BY InitType, InitJobs, InitLease
<1>2. TypeOK /\ JobsInv /\ LeaseInv /\ [Next]_vars => (TypeOK /\ JobsInv /\ LeaseInv)'
  BY NextTypeJobs, NextLease
<1>3. LeaseInv => LeaseProtects
  BY DEF LeaseInv, LeaseProtects, Meet, OwnsGlobal
<1> QED BY <1>1, <1>2, <1>3, PTL DEF Spec

-----------------------------------------------------------------------------
(* What a consolidation reports.                                           *)
LEMMA InitWorkspace == Init => WorkspaceInv
  BY DEF Init, WorkspaceInv, Alone, Baseline, Consolidating, Consolidated, InWorkspace

(* A step within the workspace: w is alone in it, and nobody may report.   *)
LEMMA InsideStep ==
  ASSUME TypeOK, WorkspaceInv, ~disturbed, UNCHANGED <<clearing, disturbed>>,
         NEW w \in Workers, InWorkspace(w),
         \A v \in Workers : v # w => pc'[v] = pc[v] /\ inputs'[v] = inputs[v],
         glob' = glob \/ glob'.token = w,
         state' = "clean" => doc' = base',
         state' = "nogit" => doc' = files' /\ ~InWorkspace(w)',
         pc'[w] \in {"diff", "spawn", "agent", "confirm", "reset"} => files' = inputs'[w],
         pc'[w] \in {"confirm", "reset"} => doc' = files',
         pc'[w] = "succeed" => doc' = inputs'[w]
  PROVE  WorkspaceInv'
<1>1. /\ ~clearing /\ \A v \in Workers : v # w => ~InWorkspace(v)
      /\ \A v \in Workers : ~(pc[v] = "succeed" /\ OwnsGlobal(v))
  BY DEF WorkspaceInv, Alone, Consolidated
<1>2. \A v \in Workers : v # w => ~InWorkspace(v)'
  BY <1>1 DEF InWorkspace
<1>3. Alone'
  BY <1>1, <1>2 DEF Alone
<1>4. Baseline'
  BY <1>2 DEF Baseline
<1>5. Consolidating'
  BY <1>2 DEF Consolidating, InWorkspace
<1>6. Consolidated'
  <2> SUFFICES ASSUME NEW v \in Workers, pc'[v] = "succeed", OwnsGlobal(v)'
               PROVE  v = w
    BY <1>1, <1>2 DEF Consolidated, InWorkspace
  <2> QED BY <1>1 DEF OwnsGlobal
<1> QED BY <1>3, <1>4, <1>5, <1>6 DEF WorkspaceInv

LEMMA Phase2Workspace ==
  ASSUME TypeOK, WorkspaceInv, NEW w \in Workers, Phase2(w), ~ClaimGlobal(w), ~disturbed
  PROVE  WorkspaceInv'
<1>1. CASE ~InWorkspace(w)
  <2>1. /\ UNCHANGED <<wsVars, clearing, disturbed>> /\ pc'[w] = "idle"
        /\ \A v \in Workers : v # w => pc'[v] = pc[v] /\ inputs'[v] = inputs[v]
    BY <1>1, Phase2Frame
  <2>2. \A v \in Workers : InWorkspace(v)' <=> InWorkspace(v)
    BY <1>1, <2>1 DEF InWorkspace
  <2>3. \A v \in Workers : v # w /\ OwnsGlobal(v)' => OwnsGlobal(v)
    <3>1. MarkGlobalSucceeded(w) \/ MarkGlobalFailed(w) \/ GlobalReportLost(w)
      BY <1>1 DEF InWorkspace, Phase2, PrepareWorkspace, ListInputs, ReadInputs, SyncInputs,
             SyncInputsFails, WorkspaceDiff, StepFails, SpawnAgent, Heartbeat, AgentCompletes,
             AgentFails, WatchFails, AgentEdits, AgentClosed, AfterFailure, ConfirmOwnership,
             ConfirmOwnershipFails, ResetBaseline, ResetBaselineFails, Proceed
    <3>2. glob' = glob \/ glob'.status # "running"
      BY <3>1 DEF TypeOK, GlobalRows, MarkGlobalSucceeded, MarkGlobalFailed, GlobalReportLost
    <3> QED BY <3>2 DEF OwnsGlobal
  <2>4. Alone' /\ Baseline'
    BY <2>1, <2>2 DEF WorkspaceInv, Alone, Baseline, InWorkspace
  <2>5. Consolidating' /\ Consolidated'
    BY <2>1, <2>2, <2>3 DEF WorkspaceInv, Consolidating, Consolidated
  <2> QED BY <2>4, <2>5 DEF WorkspaceInv
<1>2. CASE InWorkspace(w)
  <2>1. /\ UNCHANGED <<clearing, disturbed>>
        /\ \A v \in Workers : v # w => pc'[v] = pc[v] /\ inputs'[v] = inputs[v]
    BY Phase2Frame
  <2>2. /\ state = "clean" => doc = base
        /\ state = "nogit" => doc = files /\ pc[w] = "prepare"
        /\ pc[w] \in {"diff", "spawn", "agent", "confirm", "reset"} => files = inputs[w]
        /\ pc[w] \in {"confirm", "reset"} => doc = files
    BY <1>2 DEF WorkspaceInv, Baseline, Consolidating
  <2>3. glob' = glob \/ glob'.token = w
    <3>1. CASE Heartbeat(w) \/ ConfirmOwnership(w)
      BY <3>1 DEF TypeOK, GlobalRows, OwnsGlobal, Renewed, Heartbeat, ConfirmOwnership
    <3>2. CASE MarkGlobalFailed(w)
      BY <3>2 DEF TypeOK, GlobalRows, OwnsGlobal, MarkGlobalFailed
    <3>3. CASE ~(Heartbeat(w) \/ ConfirmOwnership(w) \/ MarkGlobalFailed(w))
      BY <1>2, <3>3 DEF Phase2, MarkGlobalSucceeded, GlobalReportLost, InWorkspace,
         PrepareWorkspace, ListInputs, ReadInputs, SyncInputs, SyncInputsFails, WorkspaceDiff,
         StepFails, SpawnAgent, AgentCompletes, AgentFails, WatchFails, AgentEdits, AgentClosed,
         ConfirmOwnershipFails, ResetBaseline, ResetBaselineFails
    <3> QED BY <3>1, <3>2, <3>3
  <2> USE <1>2, <2>1, <2>2, <2>3
  <2>4. CASE PrepareWorkspace(w)
    BY <2>4, InsideStep DEF TypeOK, PrepareWorkspace, NewBaseline, Proceed, InWorkspace
  <2>5. CASE ListInputs(w) \/ ReadInputs(w)
    BY <2>5, InsideStep DEF TypeOK, ListInputs, ReadInputs, Proceed, InWorkspace
  <2>6. CASE SyncInputs(w) \/ SyncInputsFails(w)
    BY <2>6, InsideStep DEF TypeOK, SyncInputs, SyncInputsFails, Proceed, InWorkspace
  <2>7. CASE WorkspaceDiff(w)
    BY <2>7, InsideStep DEF TypeOK, WorkspaceDiff, HasChanges, Proceed, InWorkspace
  <2>8. CASE StepFails(w) \/ SpawnAgent(w)
    BY <2>8, InsideStep DEF TypeOK, StepFails, NewBaseline, SpawnAgent, Proceed, InWorkspace
  <2>9. CASE Heartbeat(w) \/ ConfirmOwnership(w) \/ ConfirmOwnershipFails(w)
    BY <2>9, InsideStep
       DEF TypeOK, Heartbeat, ConfirmOwnership, ConfirmOwnershipFails, Proceed, InWorkspace
  <2>10. CASE AgentCompletes(w) \/ AgentFails(w) \/ AgentEdits(w)
    BY <2>10, InsideStep
       DEF TypeOK, AgentCompletes, AgentFails, AgentEdits, Edit, Proceed, InWorkspace
  <2>11. CASE ResetBaseline(w) \/ ResetBaselineFails(w)
    BY <2>11, InsideStep
       DEF TypeOK, ResetBaseline, ResetBaselineFails, NewBaseline, NoBaseline, Proceed, InWorkspace
  <2>12. CASE WatchFails(w) \/ AgentClosed(w)
    BY <2>12, InsideStep DEF TypeOK, WatchFails, AgentClosed, Proceed, InWorkspace
  <2>13. CASE MarkGlobalFailed(w) \/ GlobalReportLost(w)
    BY <2>13, InsideStep
       DEF TypeOK, MarkGlobalFailed, GlobalReportLost, AfterFailure, InWorkspace
  <2>14. ~MarkGlobalSucceeded(w)
    BY DEF InWorkspace, MarkGlobalSucceeded
  <2> QED
    BY <2>4, <2>5, <2>6, <2>7, <2>8, <2>9, <2>10, <2>11, <2>12, <2>13, <2>14 DEF Phase2
<1> QED BY <1>1, <1>2

(* Steps that leave the workspace and the workers in it alone.             *)
LEMMA OutsideStep ==
  ASSUME TypeOK, WorkspaceInv, UNCHANGED <<wsVars, inputs, clearing, disturbed>>,
         \A v \in Workers : InWorkspace(v) \/ InWorkspace(v)' => pc'[v] = pc[v],
         \A v \in Workers : pc'[v] = "succeed" => pc[v] = "succeed",
         \A v \in Workers : OwnsGlobal(v)' => OwnsGlobal(v)
  PROVE  WorkspaceInv'
<1>1. \A v \in Workers : InWorkspace(v)' <=> InWorkspace(v)
  BY DEF InWorkspace
<1>2. \A v \in Workers : pc'[v] \in {"diff", "spawn", "agent", "confirm", "reset"} => pc'[v] = pc[v]
  BY DEF InWorkspace
<1> SUFFICES ASSUME ~disturbed PROVE (Alone /\ Baseline /\ Consolidating /\ Consolidated)'
  BY DEF WorkspaceInv
<1>3. Alone' /\ Baseline'
  BY <1>1 DEF WorkspaceInv, Alone, Baseline
<1>4. Consolidating' /\ Consolidated'
  BY <1>1, <1>2 DEF WorkspaceInv, Consolidating, Consolidated
<1> QED BY <1>3, <1>4

LEMMA CrashWorkspace ==
  ASSUME TypeOK, WorkspaceInv, NEW w \in Workers, Crash(w), ~disturbed
  PROVE  WorkspaceInv'
<1>1. /\ pc'[w] = "idle" /\ UNCHANGED <<clearing, disturbed, glob>>
      /\ \A v \in Workers : v # w => pc'[v] = pc[v] /\ inputs'[v] = inputs[v]
  BY DEF TypeOK, Crash
<1>2. CASE InWorkspace(w)
  <2>1. /\ state = "clean" => doc = base
        /\ state = "nogit" => doc = files /\ pc[w] = "prepare"
        /\ pc[w] = "reset" => doc = files
    BY <1>2 DEF WorkspaceInv, Baseline, Consolidating
  <2>2. /\ state' = "clean" => doc' = base'
        /\ state' = "nogit" => doc' = files'
    BY <2>1 DEF TypeOK, Crash, Edit, NewBaseline, NoBaseline
  <2> QED BY <1>1, <1>2, <2>2, InsideStep DEF InWorkspace
<1>3. CASE ~InWorkspace(w)
  <2>1. UNCHANGED wsVars
    BY <1>3 DEF Crash, InWorkspace
  <2>2. \A v \in Workers : InWorkspace(v)' => InWorkspace(v) /\ v # w
    BY <1>1 DEF InWorkspace
  <2>3. Alone' /\ Baseline'
    BY <1>1, <2>1, <2>2 DEF WorkspaceInv, Alone, Baseline
  <2>4. Consolidating' /\ Consolidated'
    BY <1>1, <2>1, <2>2 DEF WorkspaceInv, Consolidating, Consolidated, OwnsGlobal
  <2> QED BY <2>3, <2>4 DEF WorkspaceInv
<1> QED BY <1>2, <1>3

LEMMA ClaimWorkspace ==
  ASSUME TypeOK, WorkspaceInv, NEW w \in Workers, ClaimGlobal(w)
  PROVE  WorkspaceInv'
<1>1. CASE GlobalClaimable
  <2> SUFFICES ASSUME ~disturbed' PROVE (Alone /\ Baseline /\ Consolidating /\ Consolidated)'
    BY DEF WorkspaceInv
  <2>1. ~disturbed /\ ~clearing /\ \A v \in Workers : ~InWorkspace(v)
    BY <1>1 DEF TypeOK, ClaimGlobal, InWorkspace
  <2>2. /\ pc'[w] = "prepare" /\ \A v \in Workers : v # w => pc'[v] = pc[v]
        /\ UNCHANGED <<wsVars, inputs, clearing>> /\ glob'.token = w
    BY <1>1 DEF TypeOK, ClaimGlobal
  <2>3. \A v \in Workers : v # w => ~InWorkspace(v)'
    BY <2>1, <2>2 DEF InWorkspace
  <2>4. Alone' /\ Baseline'
    BY <2>1, <2>2, <2>3 DEF WorkspaceInv, Alone, Baseline
  <2>5. Consolidating' /\ Consolidated'
    BY <2>2, <2>3 DEF Consolidating, Consolidated, OwnsGlobal, InWorkspace
  <2> QED BY <2>4, <2>5
<1>2. CASE ~GlobalClaimable
  BY <1>2, OutsideStep DEF TypeOK, ClaimGlobal, InWorkspace, OwnsGlobal
<1> QED BY <1>1, <1>2

LEMMA EnvironmentWorkspace ==
  ASSUME TypeOK, WorkspaceInv, Environment
  PROVE  WorkspaceInv'
<1>1. ASSUME NEW t \in Threads, ThreadUpdated(t) \/ DeleteThread(t) \/ MarkPolluted(t)
      PROVE WorkspaceInv'
  BY <1>1, OutsideStep DEF OwnsGlobal, ThreadUpdated, DeleteThread, MarkPolluted
<1>2. ASSUME NEW t \in Threads, DeleteThreadMemory(t) \/ EnqueueForgetting(t)
      PROVE WorkspaceInv'
  <2>1. /\ UNCHANGED <<wsVars, pc, inputs, clearing, disturbed>>
        /\ glob' = glob \/ glob' = Enqueue(glob)
    BY <1>2 DEF DeleteThreadMemory, EnqueueForgetting
  <2> QED BY <2>1, EnqueueOwner, OutsideStep DEF TypeOK
<1>3. CASE ClearMemoryData
  <2> SUFFICES ASSUME ~disturbed' PROVE (Alone /\ Baseline /\ Consolidating /\ Consolidated)'
    BY DEF WorkspaceInv
  <2>1. /\ ~disturbed /\ \A v \in Workers : ~InWorkspace(v)
        /\ UNCHANGED <<wsVars, pc, inputs>> /\ glob'.status = "none"
    BY <1>3 DEF TypeOK, ClearMemoryData, InWorkspace, NoGlobal
  <2>2. \A v \in Workers : ~InWorkspace(v)'
    BY <2>1 DEF InWorkspace
  <2>3. Alone' /\ Baseline'
    BY <2>1, <2>2 DEF WorkspaceInv, Alone, Baseline
  <2>4. Consolidating' /\ Consolidated'
    BY <2>1, <2>2 DEF Consolidating, Consolidated, OwnsGlobal, InWorkspace
  <2> QED BY <2>3, <2>4
<1>4. CASE ClearMemoryRoots
  <2> SUFFICES ASSUME ~disturbed' PROVE (Alone /\ Baseline /\ Consolidating /\ Consolidated)'
    BY DEF WorkspaceInv
  <2>1. /\ ~disturbed /\ clearing /\ files' = doc' /\ state' = "nogit"
        /\ UNCHANGED <<pc, glob>>
    BY <1>4 DEF ClearMemoryRoots, NoBaseline
  <2>2. \A v \in Workers : ~InWorkspace(v) /\ ~(pc[v] = "succeed" /\ OwnsGlobal(v))
    BY <2>1 DEF WorkspaceInv, Alone, Consolidated
  <2>3. \A v \in Workers : ~InWorkspace(v)' /\ ~(pc[v] = "succeed" /\ OwnsGlobal(v))'
    BY <2>1, <2>2 DEF InWorkspace, OwnsGlobal
  <2>4. Alone' /\ Baseline'
    BY <2>1, <2>3 DEF Alone, Baseline
  <2>5. Consolidating' /\ Consolidated'
    BY <2>3 DEF Consolidating, Consolidated, InWorkspace
  <2> QED BY <2>4, <2>5
<1>5. CASE ClearMemoryRootsFails
  BY <1>5 DEF ClearMemoryRootsFails, WorkspaceInv
<1>6. CASE Time
  <2>1. UNCHANGED <<wsVars, pc, inputs, clearing, disturbed>>
    BY <1>6 DEF Time
  <2>2. glob'.status = glob.status /\ glob'.token = glob.token
    BY <1>6 DEF TypeOK, GlobalRows, Time, LeaseEnds, BackoffEnds, GlobalLeaseEnds,
                GlobalBackoffEnds, CooldownEnds
  <2> QED BY <2>1, <2>2, OutsideStep DEF OwnsGlobal
<1> QED BY <1>1, <1>2, <1>3, <1>4, <1>5, <1>6 DEF Environment

LEMMA NextWorkspace ==
  ASSUME TypeOK, WorkspaceInv, [Next]_vars
  PROVE  WorkspaceInv'
<1>1. CASE UNCHANGED vars
  BY <1>1, OutsideStep DEF vars, OwnsGlobal
<1>2. ASSUME NEW w \in Workers, Phase1(w) PROVE WorkspaceInv'
  <2>1. \A v \in Workers : InWorkspace(v) \/ InWorkspace(v)' => pc'[v] = pc[v]
    BY <1>2, Phase1Frame DEF InWorkspace
  <2>2. \A v \in Workers : OwnsGlobal(v)' => OwnsGlobal(v)
    BY <1>2, Phase1Frame, EnqueueOwner DEF TypeOK
  <2> QED BY <1>2, <2>1, <2>2, Phase1Frame, OutsideStep
<1>3. ASSUME NEW w \in Workers, Phase2(w), ~ClaimGlobal(w) PROVE WorkspaceInv'
  <2>1. CASE disturbed
    BY <1>3, <2>1, Phase2Frame DEF WorkspaceInv
  <2> QED BY <1>3, <2>1, Phase2Workspace
<1>4. ASSUME NEW w \in Workers, Crash(w) PROVE WorkspaceInv'
  <2>1. CASE disturbed
    BY <1>4, <2>1 DEF WorkspaceInv, Crash
  <2> QED BY <1>4, <2>1, CrashWorkspace
<1> QED BY <1>1, <1>2, <1>3, <1>4, ClaimWorkspace, EnvironmentWorkspace DEF Next

LEMMA SucceedStep ==
  ASSUME TypeOK, [Next]_vars, glob.status = "running", glob'.status = "done"
  PROVE  \E w \in Workers : MarkGlobalSucceeded(w) /\ OwnsGlobal(w)
<1>1. CASE UNCHANGED vars
  BY <1>1 DEF vars
<1>2. ASSUME NEW w \in Workers, Phase1(w) PROVE FALSE
  BY <1>2, Phase1Frame, EnqueueOwner DEF TypeOK
<1>3. ASSUME NEW w \in Workers, Crash(w) PROVE FALSE
  BY <1>3 DEF Crash
<1>4. ASSUME Environment PROVE FALSE
  <2>1. glob' = glob \/ glob' = Enqueue(glob) \/ glob' = NoGlobal \/ glob'.status = glob.status
    BY <1>4 DEF TypeOK, GlobalRows, Environment, ThreadUpdated, DeleteThread, MarkPolluted,
       DeleteThreadMemory, EnqueueForgetting, ClearMemoryData, ClearMemoryRoots,
       ClearMemoryRootsFails, Time,
       LeaseEnds, BackoffEnds, GlobalLeaseEnds, GlobalBackoffEnds, CooldownEnds
  <2> QED BY <2>1, EnqueueOwner DEF TypeOK, NoGlobal
<1>5. ASSUME NEW w \in Workers, Phase2(w) PROVE MarkGlobalSucceeded(w) /\ OwnsGlobal(w)
  <2>1. CASE MarkGlobalSucceeded(w)
    BY <2>1 DEF MarkGlobalSucceeded
  <2>2. CASE ~MarkGlobalSucceeded(w)
    <3>1. CASE ClaimGlobal(w)
      BY <3>1 DEF ClaimGlobal
    <3>2. CASE MarkGlobalFailed(w)
      BY <3>2 DEF TypeOK, GlobalRows, MarkGlobalFailed
    <3>3. CASE glob' = glob
      BY <3>3
    <3>4. CASE glob' = Renewed
      BY <3>4 DEF TypeOK, GlobalRows, Renewed
    <3> QED
      BY <1>5, <2>2, <3>1, <3>2, <3>3, <3>4
         DEF Phase2, PrepareWorkspace, ListInputs, ReadInputs, SyncInputs, SyncInputsFails,
             WorkspaceDiff, StepFails, SpawnAgent, Heartbeat, AgentCompletes, AgentFails,
             WatchFails, AgentEdits, AgentClosed, AfterFailure, ConfirmOwnership,
             ConfirmOwnershipFails, ResetBaseline, ResetBaselineFails, GlobalReportLost
  <2> QED BY <2>1, <2>2
<1> QED BY <1>1, <1>2, <1>3, <1>4, <1>5 DEF Next

(* Unless two parties met in the workspace or a reset failed half way, a   *)
(* consolidation that succeeds marks only snapshots that the agent has     *)
(* consolidated.                                                           *)
THEOREM MarksConsolidated == Spec => SuccessMarksConsolidated
<1> DEFINE Inv == TypeOK /\ JobsInv /\ WorkspaceInv
           Marks == glob.status = "running" /\ glob'.status = "done" /\ ~disturbed
                       => \A t \in Threads : sel'[t] > 0 => doc[t] = sel'[t]
<1>1. Init => Inv
  BY InitType, InitJobs, InitWorkspace
<1>2. Inv /\ [Next]_vars => Inv'
  BY NextTypeJobs, NextWorkspace
<1>3. Inv /\ [Next]_vars => Marks
  <2> SUFFICES ASSUME TypeOK, WorkspaceInv, [Next]_vars, glob.status = "running",
                      glob'.status = "done", ~disturbed, NEW t \in Threads, sel'[t] > 0
               PROVE  doc[t] = sel'[t]
    OBVIOUS
  <2>1. PICK w \in Workers : MarkGlobalSucceeded(w) /\ OwnsGlobal(w)
    BY SucceedStep
  <2>2. doc = inputs[w]
    BY <2>1 DEF WorkspaceInv, Consolidated, MarkGlobalSucceeded
  <2>3. sel'[t] = IF inputs[w][t] > 0 /\ out[t] = inputs[w][t] THEN out[t] ELSE 0
    BY <2>1 DEF MarkGlobalSucceeded, Selected
  <2> QED BY <2>2, <2>3
<1> HIDE DEF Inv, Marks
<1>4. Spec => [][Marks]_vars
  BY <1>1, <1>2, <1>3, PTL DEF Spec
<1> QED BY <1>4 DEF Marks, SuccessMarksConsolidated

-----------------------------------------------------------------------------
(* Watermarks and the cap on leased jobs.                                  *)

(* Apart from a claim, a step leases no job; and the success of a row that *)
(* stays is kept, or raised by a worker that owns the row.                 *)
LEMMA RowStep ==
  ASSUME TypeOK, JobsInv, [Next]_vars, NEW t \in Threads
  PROVE  /\ job'[t].status # "none" => job'[t].success >= job[t].success
         /\ \/ Leased(job'[t]) => Leased(job[t])
            \/ \E w \in Workers : TryClaim(w, t) /\ Claimable(w, t, items[w][t])
<1> DEFINE Goal == /\ job'[t].status # "none" => job'[t].success >= job[t].success
                   /\ \/ Leased(job'[t]) => Leased(job[t])
                      \/ \E w \in Workers : TryClaim(w, t) /\ Claimable(w, t, items[w][t])
<1>0. /\ job[t].success \in Nat /\ job[t].input \in Nat
      /\ job \in [Threads -> Rows]
  BY PipelineConstants DEF TypeOK, Rows
<1>1. CASE job'[t] = job[t]
  BY <1>0, <1>1
<1>2. ASSUME NEW w \in Workers, Phase1(w) PROVE Goal
  <2>1. ASSUME NEW u \in Threads, TryClaim(w, u) PROVE Goal
    <3>1. CASE u = t /\ Claimable(w, t, items[w][t])
      <4>1. job'[t].success = job[t].success
        BY <1>0, <2>1, <3>1 DEF TryClaim, ClaimRow
      <4> QED BY <1>0, <2>1, <3>1, <4>1
    <3>2. CASE ~(u = t /\ Claimable(w, t, items[w][t]))
      <4>1. job'[t] = job[t]
        BY <1>0, <2>1, <3>2 DEF TryClaim, ClaimRow
      <4> QED BY <1>1, <4>1
    <3> QED BY <3>1, <3>2
  <2>2. ASSUME NEW u \in Threads, MarkSucceeded(w, u) \/ MarkSucceededNoOutput(w, u) PROVE Goal
    <3>1. Report(w, u)
      BY <2>2 DEF MarkSucceeded, MarkSucceededNoOutput
    <3>2. CASE u = t /\ Owned(w, t)
      <4>1. job[t].success < job[t].input
        BY <3>1, <3>2, ReportClaims DEF JobsInv
      <4>2. job'[t] = Done(job[t])
        BY <1>0, <2>2, <3>2 DEF MarkSucceeded, MarkSucceededNoOutput
      <4>3. job'[t].status = "done" /\ job'[t].success = job[t].input
        BY <1>0, <4>2 DEF Rows, Done
      <4> QED BY <1>0, <4>1, <4>3 DEF Leased
    <3>3. CASE ~(u = t /\ Owned(w, t))
      <4>1. job'[t] = job[t]
        BY <1>0, <2>2, <3>3 DEF MarkSucceeded, MarkSucceededNoOutput
      <4> QED BY <1>1, <4>1
    <3> QED BY <3>2, <3>3
  <2>3. ASSUME NEW u \in Threads, MarkFailed(w, u) PROVE Goal
    <3>1. CASE u = t /\ Owned(w, t)
      <4>1. job'[t].status = "error" /\ job'[t].success = job[t].success
        BY <1>0, <2>3, <3>1 DEF MarkFailed, Failed, Rows
      <4> QED BY <1>0, <4>1 DEF Leased
    <3>2. CASE ~(u = t /\ Owned(w, t))
      <4>1. job'[t] = job[t]
        BY <1>0, <2>3, <3>2 DEF MarkFailed
      <4> QED BY <1>1, <4>1
    <3> QED BY <3>1, <3>2
  <2>4. CASE UNCHANGED job
    BY <1>1, <2>4
  <2> QED BY <1>2, <2>1, <2>2, <2>3, <2>4
          DEF Phase1, Start, Scan, ClaimsDone, JobsDone, ReportLost
<1>3. ASSUME NEW w \in Workers, Phase2(w) \/ Crash(w) PROVE Goal
  <2>1. UNCHANGED job
    BY <1>3 DEF Phase2, ClaimGlobal, PrepareWorkspace, ListInputs, ReadInputs, SyncInputs,
           SyncInputsFails, WorkspaceDiff, StepFails, SpawnAgent, Heartbeat, AgentCompletes,
           AgentFails, WatchFails, AgentEdits, AgentClosed, AfterFailure, ConfirmOwnership,
           ConfirmOwnershipFails, ResetBaseline, ResetBaselineFails, MarkGlobalSucceeded,
           MarkGlobalFailed, GlobalReportLost, Proceed, Crash
  <2> QED BY <1>1, <2>1
<1>4. CASE Environment
  <2>1. CASE job'[t] = NoRow
    BY <2>1 DEF NoRow, Leased
  <2>2. CASE Time
    <3>1. job'[t] = job[t] \/ job'[t] = [job[t] EXCEPT !.lease = FALSE]
          \/ job'[t] = [job[t] EXCEPT !.backoff = FALSE]
      BY <1>0, <2>2 DEF Time, LeaseEnds, BackoffEnds, GlobalLeaseEnds, GlobalBackoffEnds,
                        CooldownEnds
    <3>2. /\ job'[t].success = job[t].success
          /\ job'[t].status = job[t].status /\ (job'[t].lease => job[t].lease)
      BY <1>0, <3>1 DEF Rows
    <3> QED BY <1>0, <3>2 DEF Leased
  <2>3. CASE job'[t] # NoRow /\ ~Time
    <3>1. job'[t] = job[t]
      BY <1>0, <1>4, <2>3 DEF Environment, ThreadUpdated, DeleteThread, DeleteThreadMemory,
         MarkPolluted, EnqueueForgetting, ClearMemoryData, ClearMemoryRoots,
         ClearMemoryRootsFails
    <3> QED BY <1>1, <3>1
  <2> QED BY <2>1, <2>2, <2>3
<1>5. CASE UNCHANGED vars
  BY <1>1, <1>5 DEF vars
<1> QED BY <1>2, <1>3, <1>4, <1>5 DEF Next

(* The success watermark of a job never goes back while its row exists.    *)
THEOREM WatermarksGrow == Spec => SuccessNeverRegresses
<1> DEFINE Inv == TypeOK /\ JobsInv
           Grows == \A t \in Threads :
                       job'[t].status # "none" => job'[t].success >= job[t].success
<1>1. Init => Inv
  BY InitType, InitJobs
<1>2. Inv /\ [Next]_vars => Inv'
  BY NextTypeJobs
<1>3. Inv /\ [Next]_vars => Grows
  BY RowStep
<1> HIDE DEF Inv, Grows
<1>4. Spec => [][Grows]_vars
  BY <1>1, <1>2, <1>3, PTL DEF Spec
<1> QED BY <1>4 DEF Grows, SuccessNeverRegresses

LEMMA NextCap ==
  ASSUME TypeOK, JobsInv, RunningCap, [Next]_vars
  PROVE  RunningCap'
<1>1. IsFiniteSet(Running) /\ Cardinality(Running) \in Nat
  <2>1. Running \subseteq Threads
    BY DEF Running
  <2> QED BY <2>1, PipelineConstants, FS_Subset, FS_CardinalityType
<1>2. CASE Running' \subseteq Running
  <2>1. Cardinality(Running') <= Cardinality(Running) /\ Cardinality(Running') \in Nat
    BY <1>1, <1>2, FS_Subset, FS_CardinalityType
  <2>2. ASSUME NEW w \in Workers, Cardinality(Running) <= MaxRunning[w]
        PROVE  Cardinality(Running') <= MaxRunning[w]
    BY <1>1, <2>1, <2>2, PipelineConstants
  <2> QED BY <1>2, <2>2 DEF RunningCap
<1>3. CASE ~(Running' \subseteq Running)
  <2>1. PICK t \in Threads : Leased(job'[t]) /\ ~Leased(job[t])
    BY <1>3 DEF Running
  <2>2. PICK w \in Workers : TryClaim(w, t) /\ Claimable(w, t, items[w][t])
    BY <2>1, RowStep
  <2>3. \A u \in Threads : u # t => job'[u] = job[u]
    BY <2>2 DEF TypeOK, TryClaim, ClaimRow
  <2>4. Running' = Running \cup {t} /\ t \notin Running
    BY <2>1, <2>3 DEF Running, Leased
  <2>5. Cardinality(Running') = Cardinality(Running) + 1
    BY <1>1, <2>4, FS_AddElement
  <2>6. Cardinality(Running) < MaxRunning[w] /\ MaxRunning[w] \in Nat
    BY <2>2, PipelineConstants DEF Claimable
  <2>7. Cardinality(Running') <= MaxRunning[w]
    BY <1>1, <2>5, <2>6
  <2> QED BY <2>7 DEF RunningCap
<1> QED BY <1>2, <1>3

(* However many workers claim, no more jobs are leased than the largest    *)
(* max_running_jobs among them.                                            *)
THEOREM LeasedJobsBounded == Spec => []RunningCap
<1>1. Init => TypeOK /\ JobsInv /\ RunningCap
  <2>1. ASSUME Init PROVE Running = {}
    BY <2>1 DEF Init, Running, Leased, NoRow
  <2> QED BY <2>1, InitType, InitJobs DEF RunningCap
<1>2. TypeOK /\ JobsInv /\ RunningCap /\ [Next]_vars => (TypeOK /\ JobsInv /\ RunningCap)'
  BY NextTypeJobs, NextCap
<1> QED BY <1>1, <1>2, PTL DEF Spec
=============================================================================
