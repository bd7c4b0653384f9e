------------------------- MODULE MCMemoryPipeline --------------------------
(* MemoryPipeline with bounds for TLC: several claims of stage-1 jobs, or  *)
(* runs of phase 2 with what one claim stored, with a change from outside, *)
(* or two runs of phase 2 around a change while no memory is stored.       *)
EXTENDS MemoryPipeline, TLC

MCBudgets == {[claims |-> 3, runs |-> 0, changes |-> 1],
              [claims |-> 1, runs |-> 1, changes |-> 1],
              [claims |-> 1, runs |-> 2, changes |-> 0],
              [claims |-> 0, runs |-> 2, changes |-> 1]}

(* Every worker has the same configuration.                                *)
MCMaxRunning == [w \in Workers |-> 1]

(* Threads and workers are interchangeable.                                *)
Symmetry == Permutations(Workers) \cup Permutations(Threads)
=============================================================================
