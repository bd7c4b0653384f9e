--------------------------- MODULE AgentRegistry ---------------------------
(***************************************************************************)
(* The registry of sub-agents that one session tree shares                 *)
(* (core/src/agent/registry.rs), driven by the calls that use it:          *)
(* spawn_agent_internal and resume_single_agent_from_rollout               *)
(* (agent/control/spawn.rs), shutdown_live_agent (agent/control/legacy.rs) *)
(* and handle_thread_request_result (agent/control.rs).                    *)
(*                                                                         *)
(* The code keeps one atomic counter, total_count, and one map, agent_tree,*)
(* under a mutex.  The two are never updated together: a spawn takes a slot*)
(* with a compare-and-swap and fills the map several awaits later, a       *)
(* release empties the map under the lock and returns the slot after it.   *)
(* Each locked section or atomic access is one step here.                  *)
(***************************************************************************)
EXTENDS Integers, FiniteSets

CONSTANTS
    Spawners,    \* concurrent spawn or resume calls
    Releasers,   \* concurrent calls that release a thread
    Threads,     \* thread ids
    RootThread,  \* the id of the thread at the root of the tree
    Paths,       \* agent paths other than the root's
    Names,       \* nickname candidates, before the ordinal suffix
    Formatted,   \* the text of a candidate in each round of the pool
    MaxThreads,  \* effective_agent_max_threads of the configuration
    MaxResets,   \* bound on nickname_reset_count
    KindSets,    \* which calls a tree may make: subsets of AllKinds
    None         \* the value of an absent option

Root == "root"
(* A job is a spawn whose source is not ThreadSpawn: the workers of an     *)
(* agent job.                                                              *)
JobKinds == {"jobV1", "jobV2"}
UnlimitedKinds == {"spawnV2", "jobV2"}
AllKinds == {"spawnV1", "spawnV2", "resume"} \cup JobKinds

(* format_agent_nickname appends the ordinal of the round, from the second *)
(* round on.  A configured candidate may itself end in an ordinal, so two  *)
(* rounds can give one text: nothing more is assumed of Formatted.         *)
Rounds == Names \X (0 .. MaxResets)
format_agent_nickname(name, resets) == Formatted[<<name, resets>>]
Nicknames == {Formatted[x] : x \in Rounds}

ASSUME RegistryAssumption ==
    /\ IsFiniteSet(Spawners) /\ IsFiniteSet(Releasers)
    /\ IsFiniteSet(Threads) /\ IsFiniteSet(Paths)
    /\ RootThread \in Threads
    /\ MaxThreads \in Nat
    /\ MaxResets \in Nat
    /\ KindSets \subseteq SUBSET AllKinds
    /\ Paths \cap Threads = {} /\ Root \notin Paths \cup Threads
    /\ \A n \in Names : Formatted[<<n, 0>>] = n
    /\ None \notin Paths \cup Threads \cup {Root} \cup Nicknames

VARIABLES
    kinds,       \* the calls of this tree, as its configuration has it
    totalCount,  \* AgentRegistry.total_count
    tree,        \* ActiveAgents.agent_tree: key -> metadata, or None
    used,        \* ActiveAgents.used_agent_nicknames
    resetCount,  \* ActiveAgents.nickname_reset_count
    loaded,      \* thread ids in ThreadManagerState.threads
    created,     \* thread ids that were ever allocated
    known,       \* thread ids of agents that were ever registered
    pc, cur, kind, path, nick, thr,   \* a spawner's locals
    rpc, rthr                                 \* a releaser's locals

regVars == <<totalCount, tree, used, resetCount>>
mgrVars == <<loaded, created, known>>
spVars == <<pc, cur, kind, path, nick, thr>>
relVars == <<rpc, rthr>>
vars == <<kinds, regVars, mgrVars, spVars, relVars>>

Keys == Paths \cup Threads \cup {Root}

AgentMetadata ==
    [agent_id : Threads \cup {None},
     agent_path : Paths \cup {Root, None},
     agent_nickname : Nicknames \cup {None}]

ASSUME NoneAssumption == None \notin AgentMetadata

(* register_spawned_thread files an agent without a path under thread:{id} *)
KeyOf(p, t) == IF p = None THEN t ELSE p

ReservedEntry(p) ==
    [agent_id |-> None, agent_path |-> p, agent_nickname |-> None]

SpawnPcs == {"idle", "load", "cas", "prepare", "path", "name", "create",
             "finalize", "commit", "dropPath", "dropCount"}

Init ==
    /\ kinds \in KindSets
    /\ totalCount = 0
    /\ tree = [k \in Keys |-> None]
    /\ used = {}
    /\ resetCount = 0
    /\ loaded = {RootThread}
    /\ created = {RootThread}
    /\ known = {RootThread}
    /\ pc = [s \in Spawners |-> "idle"]
    /\ cur = [s \in Spawners |-> 0]
    /\ kind = [s \in Spawners |-> "spawnV1"]
    /\ path = [s \in Spawners |-> None]
    /\ nick = [s \in Spawners |-> None]
    /\ thr = [s \in Spawners |-> None]
    /\ rpc = [r \in Releasers |-> "idle"]
    /\ rthr = [r \in Releasers |-> None]

-----------------------------------------------------------------------------
(* A call begins.  A V2 spawn has an agent path, a V1 spawn and a job have *)
(* none; a resume names a stored thread that the manager has not loaded.   *)
BeginSpawn(s) ==
    /\ pc[s] = "idle"
    /\ \E k \in kinds \ {"resume"} :
         \E p \in IF k = "spawnV2" THEN Paths ELSE {None} :
            /\ kind' = [kind EXCEPT ![s] = k]
            /\ path' = [path EXCEPT ![s] = p]
    /\ pc' = [pc EXCEPT ![s] = "load"]
    /\ UNCHANGED <<kinds, cur, nick, thr, regVars, mgrVars, relVars>>

BeginResume(s) ==
    /\ pc[s] = "idle"
    /\ "resume" \in kinds
    /\ \E t \in known \ (loaded \cup {RootThread}) : thr' = [thr EXCEPT ![s] = t]
    /\ kind' = [kind EXCEPT ![s] = "resume"]
    /\ pc' = [pc EXCEPT ![s] = "load"]
    /\ UNCHANGED <<kinds, cur, path, nick, regVars, mgrVars, relVars>>

(* The call returns and its locals go out of scope.                        *)
EndCall(s) ==
    /\ pc' = [pc EXCEPT ![s] = "idle"]
    /\ cur' = [cur EXCEPT ![s] = 0]
    /\ kind' = [kind EXCEPT ![s] = "spawnV1"]
    /\ path' = [path EXCEPT ![s] = None]
    /\ nick' = [nick EXCEPT ![s] = None]
    /\ thr' = [thr EXCEPT ![s] = None]

(* reserve_spawn_slot.  Without a limit the counter is simply incremented; *)
(* with one, try_increment_spawned loads it and loops on                   *)
(* compare_exchange_weak, which may also fail spuriously.                  *)
FetchAdd(s) ==
    /\ pc[s] = "load"
    /\ kind[s] \in UnlimitedKinds
    /\ totalCount' = totalCount + 1
    /\ pc' = [pc EXCEPT ![s] = "prepare"]
    /\ UNCHANGED <<kinds, tree, used, resetCount, mgrVars, cur, kind, path, nick, thr, relVars>>

LoadCount(s) ==
    /\ pc[s] = "load"
    /\ kind[s] \notin UnlimitedKinds
    /\ cur' = [cur EXCEPT ![s] = totalCount]
    /\ pc' = [pc EXCEPT ![s] = "cas"]
    /\ UNCHANGED <<kinds, regVars, mgrVars, kind, path, nick, thr, relVars>>

AgentLimitReached(s) ==
    /\ pc[s] = "cas"
    /\ cur[s] >= MaxThreads
    /\ EndCall(s)
    /\ UNCHANGED <<kinds, regVars, mgrVars, relVars>>

(* Slip: the counter is stored without comparing it first.                 *)
CompareExchangeStaleStore(s) ==
    /\ pc[s] = "cas"
    /\ cur[s] < MaxThreads
    /\ totalCount' = cur[s] + 1
    /\ cur' = [cur EXCEPT ![s] = 0]
    /\ pc' = [pc EXCEPT ![s] = "prepare"]
    /\ UNCHANGED <<kinds, tree, used, resetCount, mgrVars, kind, path, nick, thr, relVars>>

CompareExchange(s) ==
    /\ pc[s] = "cas"
    /\ cur[s] < MaxThreads
    /\ totalCount = cur[s]
    /\ totalCount' = cur[s] + 1
    /\ cur' = [cur EXCEPT ![s] = 0]
    /\ pc' = [pc EXCEPT ![s] = "prepare"]
    /\ UNCHANGED <<kinds, tree, used, resetCount, mgrVars, kind, path, nick, thr, relVars>>

CompareExchangeFails(s) ==
    /\ pc[s] = "cas"
    /\ cur[s] < MaxThreads
    /\ cur' = [cur EXCEPT ![s] = totalCount]
    /\ UNCHANGED <<kinds, regVars, mgrVars, pc, kind, path, nick, thr, relVars>>

(* A source other than ThreadSpawn gets AgentMetadata::default(): nothing  *)
(* is reserved and the agent has no nickname.                              *)
DefaultMetadata(s) ==
    /\ pc[s] = "prepare"
    /\ kind[s] \in JobKinds
    /\ pc' = [pc EXCEPT ![s] = "create"]
    /\ UNCHANGED <<kinds, regVars, mgrVars, cur, kind, path, nick, thr, relVars>>

(* prepare_thread_spawn: a child of the root (depth 1) makes sure the root *)
(* is registered, then the path is reserved, then a nickname.              *)
RegisterRootThread(s) ==
    /\ pc[s] = "prepare"
    /\ kind[s] \notin JobKinds
    /\ \E depth1 \in BOOLEAN :
         tree' = IF depth1 /\ tree[Root] = None
                 THEN [tree EXCEPT ![Root] =
                         [agent_id |-> RootThread, agent_path |-> Root,
                          agent_nickname |-> None]]
                 ELSE tree
    /\ pc' = [pc EXCEPT ![s] = IF path[s] = None THEN "name" ELSE "path"]
    /\ UNCHANGED <<kinds, totalCount, used, resetCount, mgrVars, cur, kind, path, nick, thr,
                   relVars>>

(* Slip: the reservation notes the path before it knows the path is free.  *)
ReserveAgentPathNotedEarly(s) ==
    /\ pc[s] = "path"
    /\ IF tree[path[s]] = None
       THEN /\ tree' = [tree EXCEPT ![path[s]] = ReservedEntry(path[s])]
            /\ pc' = [pc EXCEPT ![s] = "name"]
       ELSE /\ pc' = [pc EXCEPT ![s] = "dropPath"]
            /\ UNCHANGED tree
    /\ UNCHANGED <<kinds, totalCount, used, resetCount, mgrVars, cur, kind, path, nick, thr,
                   relVars>>

ReserveAgentPath(s) ==
    /\ pc[s] = "path"
    /\ IF tree[path[s]] = None
       THEN /\ tree' = [tree EXCEPT ![path[s]] = ReservedEntry(path[s])]
            /\ pc' = [pc EXCEPT ![s] = "name"]
       ELSE /\ pc' = [pc EXCEPT ![s] = "dropCount"]
            /\ UNCHANGED tree
    /\ UNCHANGED <<kinds, totalCount, used, resetCount, mgrVars, cur, kind, path, nick, thr,
                   relVars>>

(* reserve_agent_nickname, with the candidate list of the agent's role.    *)
(* Only a resume carries a preferred nickname, the one in the state DB.    *)
NicknamePreferred(s) ==
    /\ pc[s] = "name"
    /\ kind[s] = "resume"
    /\ \E n \in Nicknames :
          /\ nick' = [nick EXCEPT ![s] = n]
          /\ used' = used \cup {n}
    /\ pc' = [pc EXCEPT ![s] = "create"]
    /\ UNCHANGED <<kinds, totalCount, tree, resetCount, mgrVars, cur, kind, path, thr, relVars>>

Available(names) ==
    {format_agent_nickname(m, resetCount) : m \in names} \ used

NicknameFromPool(s) ==
    /\ pc[s] = "name"
    /\ \E names \in SUBSET Names : \E n \in Available(names) :
          /\ nick' = [nick EXCEPT ![s] = n]
          /\ used' = used \cup {n}
    /\ pc' = [pc EXCEPT ![s] = "create"]
    /\ UNCHANGED <<kinds, totalCount, tree, resetCount, mgrVars, cur, kind, path, thr, relVars>>

(* Slip: the pool is emptied but the ordinal does not advance.             *)
NicknamePoolResetSameOrdinal(s) ==
    /\ pc[s] = "name"
    /\ \E names \in (SUBSET Names) \ {{}} :
          /\ Available(names) = {}
          /\ \E m \in names :
                /\ nick' = [nick EXCEPT ![s] = format_agent_nickname(m, resetCount)]
                /\ used' = {format_agent_nickname(m, resetCount)}
    /\ pc' = [pc EXCEPT ![s] = "create"]
    /\ UNCHANGED <<kinds, totalCount, resetCount, tree, mgrVars, cur, kind, path, thr, relVars>>

NicknamePoolReset(s) ==
    /\ pc[s] = "name"
    /\ resetCount < MaxResets
    /\ \E names \in (SUBSET Names) \ {{}} :
          /\ Available(names) = {}
          /\ \E m \in names :
                /\ nick' = [nick EXCEPT ![s] = format_agent_nickname(m, resetCount + 1)]
                /\ used' = {format_agent_nickname(m, resetCount + 1)}
    /\ resetCount' = resetCount + 1
    /\ pc' = [pc EXCEPT ![s] = "create"]
    /\ UNCHANGED <<kinds, totalCount, tree, mgrVars, cur, kind, path, thr, relVars>>

(* An empty candidate list fails the spawn.                                *)
NoNickname(s) ==
    /\ pc[s] = "name"
    /\ pc' = [pc EXCEPT ![s] = "dropPath"]
    /\ UNCHANGED <<kinds, regVars, mgrVars, cur, kind, path, nick, thr, relVars>>

(* spawn_thread_with_source: a new thread gets a fresh id; resuming an id  *)
(* that is loaded by now hands back the running thread.                    *)
CreateThread(s) ==
    /\ pc[s] = "create"
    /\ kind[s] # "resume"
    /\ \E t \in Threads \ created :
          /\ thr' = [thr EXCEPT ![s] = t]
          /\ created' = created \cup {t}
    /\ pc' = [pc EXCEPT ![s] = "finalize"]
    /\ UNCHANGED <<kinds, regVars, loaded, known, cur, kind, path, nick, relVars>>

ResumeThread(s) ==
    /\ pc[s] = "create"
    /\ kind[s] = "resume"
    /\ \/ /\ thr[s] \in loaded      \* and still running
          /\ pc' = [pc EXCEPT ![s] = "commit"]
          /\ UNCHANGED loaded
       \/ /\ loaded' = loaded \ {thr[s]}   \* not there, or no longer running
          /\ pc' = [pc EXCEPT ![s] = "finalize"]
    /\ UNCHANGED <<kinds, regVars, created, known, cur, kind, path, nick, thr, relVars>>

(* Slip: a failed thread creation goes on as if it had made a thread.      *)
CreateThreadErrorIgnored(s) ==
    /\ pc[s] \in {"create", "finalize"}
    /\ pc' = [pc EXCEPT ![s] = "finalize"]
    /\ UNCHANGED <<kinds, regVars, mgrVars, cur, kind, path, nick, thr, relVars>>

CreateThreadFails(s) ==
    /\ pc[s] \in {"create", "finalize"}
    /\ pc' = [pc EXCEPT ![s] = "dropPath"]
    /\ UNCHANGED <<kinds, regVars, mgrVars, cur, kind, path, nick, thr, relVars>>

(* finalize_thread_spawn inserts the thread, or finds its id taken.        *)
FinalizeThreadSpawn(s) ==
    /\ pc[s] = "finalize"
    /\ loaded' = loaded \cup {thr[s]}
    /\ pc' = [pc EXCEPT ![s] = IF thr[s] \in loaded THEN "dropPath" ELSE "commit"]
    /\ UNCHANGED <<kinds, regVars, created, known, cur, kind, path, nick, thr, relVars>>

(* SpawnReservation::commit -> register_spawned_thread                     *)
Commit(s) ==
    /\ pc[s] = "commit"
    /\ used' = used \cup ({nick[s]} \ {None})
    /\ tree' = [tree EXCEPT ![KeyOf(path[s], thr[s])] =
                  [agent_id |-> thr[s], agent_path |-> path[s],
                   agent_nickname |-> nick[s]]]
    /\ known' = known \cup {thr[s]}
    /\ EndCall(s)
    /\ UNCHANGED <<kinds, totalCount, resetCount, loaded, created, relVars>>

(* Drop for SpawnReservation: the path first, then the slot.               *)
DropPath(s) ==
    /\ pc[s] = "dropPath"
    /\ tree' = IF path[s] # None /\ tree[path[s]] # None
                  /\ tree[path[s]].agent_id = None
               THEN [tree EXCEPT ![path[s]] = None]
               ELSE tree
    /\ pc' = [pc EXCEPT ![s] = "dropCount"]
    /\ UNCHANGED <<kinds, totalCount, used, resetCount, mgrVars, cur, kind, path, nick, thr,
                   relVars>>

DropCount(s) ==
    /\ pc[s] = "dropCount"
    /\ totalCount' = totalCount - 1
    /\ EndCall(s)
    /\ UNCHANGED <<kinds, tree, used, resetCount, mgrVars, relVars>>

-----------------------------------------------------------------------------
(* shutdown_live_agent, and handle_thread_request_result for a thread that *)
(* died: the thread leaves the manager, then the registry, then the count. *)
(* The caller has the id from the registry, or from the tree of live       *)
(* threads that shutdown_agent_tree walks.                                 *)
RemoveThread(r) ==
    /\ rpc[r] = "idle"
    /\ \E t \in known \cup loaded :
          /\ rthr' = [rthr EXCEPT ![r] = t]
          /\ loaded' = loaded \ {t}
    /\ rpc' = [rpc EXCEPT ![r] = "release"]
    /\ UNCHANGED <<kinds, regVars, created, known, spVars>>

KeysOf(t) == {k \in Keys : tree[k] # None /\ tree[k].agent_id = t}
(* Slip: releasing the root thread gives back a slot it never took.        *)
ReleaseEntryRootCounted(r) ==
    /\ rpc[r] = "release"
    /\ \/ /\ KeysOf(rthr[r]) = {}
          /\ rpc' = [rpc EXCEPT ![r] = "idle"]
          /\ UNCHANGED tree
       \/ \E k \in KeysOf(rthr[r]) :
             /\ tree' = [tree EXCEPT ![k] = None]
             /\ rpc' = [rpc EXCEPT ![r] = "count"]
    /\ rthr' = [rthr EXCEPT ![r] = None]
    /\ UNCHANGED <<kinds, totalCount, used, resetCount, mgrVars, spVars>>

(* release_spawned_thread removes one entry of the thread, whichever the   *)
(* map's iteration meets first.                                            *)
ReleaseEntry(r) ==
    /\ rpc[r] = "release"
    /\ \/ /\ KeysOf(rthr[r]) = {}
          /\ rpc' = [rpc EXCEPT ![r] = "idle"]
          /\ UNCHANGED tree
       \/ \E k \in KeysOf(rthr[r]) :
             /\ tree' = [tree EXCEPT ![k] = None]
             /\ rpc' = [rpc EXCEPT ![r] =
                          IF tree[k].agent_path = Root THEN "idle" ELSE "count"]
    /\ rthr' = [rthr EXCEPT ![r] = None]
    /\ UNCHANGED <<kinds, totalCount, used, resetCount, mgrVars, spVars>>

ReleaseCount(r) ==
    /\ rpc[r] = "count"
    /\ totalCount' = totalCount - 1
    /\ rpc' = [rpc EXCEPT ![r] = "idle"]
    /\ UNCHANGED <<kinds, tree, used, resetCount, mgrVars, spVars, rthr>>

-----------------------------------------------------------------------------
Next ==
    \/ \E s \in Spawners :
          \/ BeginSpawn(s) \/ BeginResume(s)
          \/ FetchAdd(s) \/ LoadCount(s) \/ AgentLimitReached(s)
          \/ CompareExchange(s) \/ CompareExchangeFails(s)
          \/ DefaultMetadata(s) \/ RegisterRootThread(s) \/ ReserveAgentPath(s)
          \/ NicknamePreferred(s) \/ NicknameFromPool(s) \/ NicknamePoolReset(s)
          \/ NoNickname(s)
          \/ CreateThread(s) \/ ResumeThread(s) \/ CreateThreadFails(s)
          \/ FinalizeThreadSpawn(s) \/ Commit(s) \/ DropPath(s) \/ DropCount(s)
    \/ \E r \in Releasers : RemoveThread(r) \/ ReleaseEntry(r) \/ ReleaseCount(r)

Spec == Init /\ [][Next]_vars

-----------------------------------------------------------------------------
TypeOK ==
    /\ kinds \subseteq AllKinds
    /\ totalCount \in Int
    /\ tree \in [Keys -> AgentMetadata \cup {None}]
    /\ used \subseteq Nicknames
    /\ resetCount \in 0 .. MaxResets
    /\ loaded \subseteq Threads
    /\ created \subseteq Threads
    /\ known \subseteq Threads
    /\ pc \in [Spawners -> SpawnPcs]
    /\ cur \in [Spawners -> Int]
    /\ kind \in [Spawners -> AllKinds]
    /\ path \in [Spawners -> Paths \cup {None}]
    /\ nick \in [Spawners -> Nicknames \cup {None}]
    /\ thr \in [Spawners -> Threads \cup {None}]
    /\ rpc \in [Releasers -> {"idle", "release", "count"}]
    /\ rthr \in [Releasers -> Threads \cup {None}]

(* Who owns a unit of total_count: a live reservation, a registered agent  *)
(* other than the root, or a release that has not given it back yet.       *)
Holders == {s \in Spawners : pc[s] \notin {"idle", "load", "cas"}}
Registered ==
    {k \in Keys : tree[k] # None /\ tree[k].agent_id # None /\ tree[k].agent_path # Root}
Returning == {r \in Releasers : rpc[r] = "count"}
Slots == Cardinality(Holders) + Cardinality(Registered) + Cardinality(Returning)

(* No interleaving of spawns, failed spawns, resumes and releases lets     *)
(* more agents be open at once than agents.max_threads allows, although    *)
(* the slot is taken long before the agent is registered and given back    *)
(* after it is unregistered ("Maximum number of agent threads that can be  *)
(* open concurrently").                                                    *)
OpenAgentsWithinLimit ==
    kinds \cap UnlimitedKinds = {} => Cardinality(Holders) + Cardinality(Registered) <= MaxThreads

(* Every unit of total_count is owned: nothing is leaked by an error path  *)
(* or a race and nothing is given back twice.                              *)
SlotsExact == totalCount = Slots

(* In a tree that resumes no agent every unit of total_count is owned,     *)
(* whatever fails, races or is released in between.                        *)
SlotsReturned == "resume" \notin kinds => SlotsExact

(* A path reserved by a spawn stays its own until it commits or drops it,  *)
(* and every reserved path without a thread belongs to a spawn under way,  *)
(* so a failed spawn never blocks its path for ever.                       *)
HoldsPath(s) ==
    path[s] # None /\ pc[s] \in {"name", "create", "finalize", "commit", "dropPath"}
ReservationsOwned ==
    /\ \A s \in Spawners :
          HoldsPath(s) => tree[path[s]] = ReservedEntry(path[s])
    /\ \A s1, s2 \in Spawners :
          HoldsPath(s1) /\ HoldsPath(s2) /\ path[s1] = path[s2] => s1 = s2
    /\ \A k \in Keys : tree[k] # None /\ tree[k].agent_id = None =>
          \E s \in Spawners : HoldsPath(s) /\ path[s] = k

(* Texts that two rounds of the pool can both produce: a candidate such as *)
(* "Atlas the 2nd" beside "Atlas".  The built-in candidates have none.     *)
Ambiguous ==
    {Formatted[x] : x \in {y \in Rounds :
        \E z \in Rounds : z[2] # y[2] /\ Formatted[z] = Formatted[y]}}

(* The nickname pool never hands out a name that a live agent or a spawn   *)
(* under way already has, not even across pool resets, which forget the    *)
(* used names and rely on the ordinal alone to keep the rounds apart: only *)
(* a text that two rounds can both produce is ever shared.  A resumed      *)
(* agent keeps its stored nickname, so the promise is about trees without  *)
(* resumes; the workers of agent jobs have no nickname.                    *)
Named == {s \in Spawners : pc[s] \in {"create", "finalize", "commit"} /\ nick[s] # None}
Nicknamed == {k \in Registered : tree[k].agent_nickname # None}
NicknamesDistinct ==
    "resume" \notin kinds =>
        /\ \A s1, s2 \in Named :
              nick[s1] = nick[s2] /\ nick[s1] \notin Ambiguous => s1 = s2
        /\ \A s \in Named, k \in Nicknamed :
              nick[s] = tree[k].agent_nickname => nick[s] \in Ambiguous
        /\ \A k1, k2 \in Nicknamed :
              /\ tree[k1].agent_nickname = tree[k2].agent_nickname
              /\ tree[k1].agent_nickname \notin Ambiguous
              => k1 = k2

(* What makes OpenAgentsWithinLimit inductive: a slot is owned for every   *)
(* open agent and every spawn under way, the counter never passes the      *)
(* limit, and the locals that later steps rely on name real threads.       *)
SlotsCovered == Slots <= totalCount
CountWithinLimit == kinds \cap UnlimitedKinds = {} => totalCount <= MaxThreads
LocalsOK ==
    /\ \A s \in Spawners :
          /\ pc[s] # "idle" => kind[s] \in kinds
          /\ pc[s] # "idle" /\ kind[s] \in JobKinds => path[s] = None
          /\ pc[s] \in {"idle", "load", "cas", "prepare", "path", "name"} => nick[s] = None
          /\ pc[s] \in {"finalize", "commit"} => thr[s] \in Threads
          /\ pc[s] # "idle" /\ kind[s] = "resume" => thr[s] \in Threads
    /\ \A r \in Releasers : rpc[r] = "release" => rthr[r] \in Threads
IndInv == TypeOK /\ LocalsOK /\ SlotsCovered /\ CountWithinLimit

=============================================================================
