-------------------------- MODULE MCAgentRegistry --------------------------
(* AgentRegistry on a small tree for TLC.  Spawners are interchangeable,   *)
(* and so are the paths and the threads other than the root.               *)
EXTENDS AgentRegistry, TLC

(* Trees that spawn agents of both versions and workers of jobs, and trees *)
(* that also resume.                                                       *)
MCKindSets == {{"spawnV1", "spawnV2", "jobV2"}, {"spawnV1", "jobV1", "resume"}}

(* The second round's text of Atlas is a candidate of its own.             *)
MCNames == {"Atlas", "Atlas the 2nd"}
MCFormatted ==
    [x \in MCNames \X (0 .. MaxResets) |->
        IF x[2] = 0 THEN x[1]
        ELSE IF x[1] = "Atlas" THEN "Atlas the 2nd" ELSE "Atlas the 2nd the 2nd"]
MCPlainNames == {"Atlas"}

Symmetry ==
    Permutations(Spawners) \cup Permutations(Paths) \cup Permutations(Threads \ {RootThread})
=============================================================================
