------------------------ MODULE AgentRegistry_proofs ------------------------
(***************************************************************************)
(* Theorems about AgentRegistry for any number of spawners, releasers,     *)
(* threads and paths.  OpenAgentsWithinLimit is not inductive: it needs    *)
(* that each open agent and each spawn under way owns a unit of the        *)
(* counter (SlotsCovered) and that the counter respects the limit.  That   *)
(* the counter is exact rests on threads being new (ThreadsNew), that paths*)
(* have one owner on PathsOK, and that nicknames differ on every name in   *)
(* use being in the pool's set of used names or of an earlier round        *)
(* (NamesGiven).                                                           *)
(***************************************************************************)
EXTENDS AgentRegistry, FiniteSetTheorems, TLAPS

USE DEF format_agent_nickname, EndCall

(* What format_agent_nickname gives in a round of the pool is a nickname.  *)
LEMMA FormattedNames ==
    ASSUME NEW m \in Names, NEW r \in 0 .. MaxResets
    PROVE  Formatted[<<m, r>>] \in Nicknames
  BY DEF Nicknames, Rounds

SpawnerStep(s) ==
    \/ BeginSpawn(s) \/ BeginResume(s)
    \/ FetchAdd(s) \/ LoadCount(s) \/ AgentLimitReached(s)
    \/ CompareExchange(s) \/ CompareExchangeFails(s)
    \/ DefaultMetadata(s) \/ RegisterRootThread(s) \/ ReserveAgentPath(s)
    \/ NicknamePreferred(s) \/ NicknameFromPool(s) \/ NicknamePoolReset(s)
    \/ NoNickname(s)
    \/ CreateThread(s) \/ ResumeThread(s) \/ CreateThreadFails(s)
    \/ FinalizeThreadSpawn(s) \/ Commit(s) \/ DropPath(s) \/ DropCount(s)

ReleaserStep(r) == RemoveThread(r) \/ ReleaseEntry(r) \/ ReleaseCount(r)

-----------------------------------------------------------------------------
(* Each step of a spawn or a resume keeps the types and the locals right.  *)
LEMMA SpawnerTypes ==
    ASSUME TypeOK, LocalsOK, NEW s \in Spawners, SpawnerStep(s)
    PROVE  TypeOK' /\ LocalsOK'
  <1> USE RegistryAssumption
      DEF TypeOK, LocalsOK, regVars, mgrVars, spVars, relVars, SpawnPcs
  <1>1. CASE BeginSpawn(s)
    BY <1>1 DEF BeginSpawn, AllKinds, JobKinds
  <1>2. CASE BeginResume(s)
    BY <1>2 DEF BeginResume, AllKinds, JobKinds
  <1>3. CASE FetchAdd(s)
    BY <1>3 DEF FetchAdd
  <1>4. CASE LoadCount(s)
    BY <1>4 DEF LoadCount
  <1>5. CASE AgentLimitReached(s)
    BY <1>5 DEF AgentLimitReached, AllKinds
  <1>6. CASE CompareExchange(s)
    BY <1>6 DEF CompareExchange
  <1>7. CASE CompareExchangeFails(s)
    BY <1>7 DEF CompareExchangeFails
  <1>21. CASE DefaultMetadata(s)
    BY <1>21 DEF DefaultMetadata
  <1>8. CASE RegisterRootThread(s)
    BY <1>8 DEF RegisterRootThread, Keys, AgentMetadata
  <1>9. CASE ReserveAgentPath(s)
    BY <1>9 DEF ReserveAgentPath, Keys, AgentMetadata, ReservedEntry
  <1>10. CASE NicknamePreferred(s)
    BY <1>10 DEF NicknamePreferred
  <1>11. CASE NicknameFromPool(s)
    <2>1. PICK names \in SUBSET Names : \E n \in Available(names) :
             nick' = [nick EXCEPT ![s] = n] /\ used' = used \cup {n}
      BY <1>11 DEF NicknameFromPool
    <2>2. PICK n \in Available(names) :
             nick' = [nick EXCEPT ![s] = n] /\ used' = used \cup {n}
      BY <2>1
    <2>3. PICK m \in names : n = Formatted[<<m, resetCount>>]
      BY <2>2 DEF Available
    <2>4. n \in Nicknames
      BY <2>3, FormattedNames
    <2> QED BY <1>11, <2>2, <2>4 DEF NicknameFromPool
  <1>12. CASE NicknamePoolReset(s)
    BY <1>12, FormattedNames DEF NicknamePoolReset
  <1>13. CASE NoNickname(s)
    BY <1>13 DEF NoNickname
  <1>14. CASE CreateThread(s)
    BY <1>14 DEF CreateThread
  <1>15. CASE ResumeThread(s)
    BY <1>15 DEF ResumeThread
  <1>16. CASE CreateThreadFails(s)
    BY <1>16 DEF CreateThreadFails
  <1>17. CASE FinalizeThreadSpawn(s)
    BY <1>17 DEF FinalizeThreadSpawn
  <1>18. CASE Commit(s)
    BY <1>18 DEF Commit, Keys, AgentMetadata, KeyOf, AllKinds
  <1>19. CASE DropPath(s)
    BY <1>19 DEF DropPath
  <1>20. CASE DropCount(s)
    BY <1>20 DEF DropCount, AllKinds
  <1> QED
    BY <1>1, <1>2, <1>3, <1>4, <1>5, <1>6, <1>7, <1>8, <1>9, <1>10, <1>11,
       <1>12, <1>13, <1>14, <1>15, <1>16, <1>17, <1>18, <1>19, <1>20,
       <1>21
    DEF SpawnerStep

(* Each step of a release keeps the types and the locals right.            *)
LEMMA ReleaserTypes ==
    ASSUME TypeOK, LocalsOK, NEW r \in Releasers, ReleaserStep(r)
    PROVE  TypeOK' /\ LocalsOK'
  <1> USE RegistryAssumption
      DEF TypeOK, LocalsOK, regVars, mgrVars, spVars, relVars
  <1>1. CASE RemoveThread(r)
    BY <1>1 DEF RemoveThread
  <1>2. CASE ReleaseEntry(r)
    BY <1>2 DEF ReleaseEntry, KeysOf
  <1>3. CASE ReleaseCount(r)
    BY <1>3 DEF ReleaseCount
  <1> QED
    BY <1>1, <1>2, <1>3 DEF ReleaserStep

-----------------------------------------------------------------------------
(* The owners of slots are finitely many, so they can be counted.          *)
LEMMA OwnersFinite ==
    ASSUME NEW H \in SUBSET Spawners, NEW R \in SUBSET Keys, NEW T \in SUBSET Releasers
    PROVE  /\ IsFiniteSet(H) /\ Cardinality(H) \in Nat
           /\ IsFiniteSet(R) /\ Cardinality(R) \in Nat
           /\ IsFiniteSet(T) /\ Cardinality(T) \in Nat
  <1>1. IsFiniteSet(Keys)
    BY RegistryAssumption, FS_Union, FS_Singleton DEF Keys
  <1>2. IsFiniteSet(H)
    BY RegistryAssumption, FS_Subset
  <1>3. IsFiniteSet(R)
    BY <1>1, FS_Subset
  <1>4. IsFiniteSet(T)
    BY RegistryAssumption, FS_Subset
  <1> QED
    BY <1>2, <1>3, <1>4, FS_CardinalityType

(* Adding an owner adds at most one slot; removing one removes exactly one.*)
LEMMA CountMoves ==
    ASSUME NEW S, IsFiniteSet(S), NEW x
    PROVE  /\ Cardinality(S) \in Nat
           /\ Cardinality(S \cup {x}) \in Nat
           /\ Cardinality(S \cup {x}) <= Cardinality(S) + 1
           /\ x \in S => Cardinality(S \ {x}) = Cardinality(S) - 1
  <1>1. Cardinality(S) \in Nat /\ Cardinality(S \cup {x}) \in Nat
    BY FS_AddElement, FS_CardinalityType
  <1>2. Cardinality(S \cup {x}) <= Cardinality(S) + 1
    <2>1. CASE x \in S
      <3>1. Cardinality(S \cup {x}) = Cardinality(S)
        BY <2>1, FS_AddElement
      <3> QED BY <3>1, <1>1
    <2>2. CASE x \notin S
      <3>1. Cardinality(S \cup {x}) = Cardinality(S) + 1 BY <2>2, FS_AddElement
      <3> QED BY <3>1, <1>1
    <2> QED BY <2>1, <2>2
  <1>3. x \in S => Cardinality(S \ {x}) = Cardinality(S) - 1
    BY FS_RemoveElement
  <1> QED BY <1>1, <1>2, <1>3

(* A spawner step keeps a slot behind every holder and every open agent:   *)
(* it takes the slot with the counter, hands it to the agent in Commit or  *)
(* gives both back in DropCount.                                           *)
LEMMA SpawnerCounts ==
    ASSUME IndInv, NEW s \in Spawners, SpawnerStep(s)
    PROVE  SlotsCovered' /\ CountWithinLimit'
  <1> USE RegistryAssumption
      DEF IndInv, TypeOK, SlotsCovered, CountWithinLimit, Slots,
          regVars, mgrVars, spVars, relVars, SpawnPcs
  <1>k. kinds' = kinds
    BY DEF SpawnerStep, BeginSpawn, BeginResume, FetchAdd, LoadCount, AgentLimitReached,
           CompareExchange, CompareExchangeFails, DefaultMetadata, RegisterRootThread,
           ReserveAgentPath,
           NicknamePreferred, NicknameFromPool, NicknamePoolReset, NoNickname, CreateThread,
           ResumeThread, CreateThreadFails, FinalizeThreadSpawn, Commit, DropPath, DropCount
  <1> USE <1>k
  <1>f. /\ IsFiniteSet(Holders) /\ Cardinality(Holders) \in Nat
        /\ IsFiniteSet(Registered) /\ Cardinality(Registered) \in Nat
        /\ Cardinality(Returning) \in Nat
    BY OwnersFinite DEF Holders, Registered, Returning
  <1>a. CASE \/ BeginSpawn(s) \/ BeginResume(s)
             \/ LoadCount(s) \/ AgentLimitReached(s) \/ CompareExchangeFails(s)
    <2>1. Holders' = Holders
      BY <1>a DEF Holders, BeginSpawn, BeginResume, LoadCount, AgentLimitReached,
                  CompareExchangeFails
    <2>2. Registered' = Registered /\ Returning' = Returning /\ totalCount' = totalCount
      BY <1>a DEF Registered, Returning, BeginSpawn, BeginResume, LoadCount,
                  AgentLimitReached, CompareExchangeFails
    <2> QED BY <2>1, <2>2
  <1>b. CASE \/ DefaultMetadata(s)
             \/ NicknamePreferred(s) \/ NicknameFromPool(s) \/ NicknamePoolReset(s)
             \/ NoNickname(s) \/ CreateThread(s) \/ ResumeThread(s)
             \/ CreateThreadFails(s) \/ FinalizeThreadSpawn(s)
    <2>1. Holders' = Holders
      BY <1>b DEF Holders, DefaultMetadata, NicknamePreferred, NicknameFromPool, NicknamePoolReset,
                  NoNickname, CreateThread, ResumeThread, CreateThreadFails,
                  FinalizeThreadSpawn
    <2>2. Registered' = Registered /\ Returning' = Returning /\ totalCount' = totalCount
      BY <1>b DEF Registered, Returning, DefaultMetadata, NicknamePreferred, NicknameFromPool,
                  NicknamePoolReset, NoNickname, CreateThread, ResumeThread,
                  CreateThreadFails, FinalizeThreadSpawn
    <2> QED BY <2>1, <2>2
  <1>c. CASE RegisterRootThread(s) \/ ReserveAgentPath(s) \/ DropPath(s)
    <2>1. Holders' = Holders
      BY <1>c DEF Holders, RegisterRootThread, ReserveAgentPath, DropPath
    <2>2. Registered' = Registered
      BY <1>c DEF Registered, RegisterRootThread, ReserveAgentPath, DropPath,
                  ReservedEntry, Keys, AgentMetadata
    <2>3. Returning' = Returning /\ totalCount' = totalCount
      BY <1>c DEF Returning, RegisterRootThread, ReserveAgentPath, DropPath
    <2> QED BY <2>1, <2>2, <2>3
  <1>d. CASE FetchAdd(s) \/ CompareExchange(s)
    <2>1. Holders' = Holders \cup {s}
      BY <1>d DEF Holders, FetchAdd, CompareExchange
    <2>2. Registered' = Registered /\ Returning' = Returning /\ totalCount' = totalCount + 1
      BY <1>d DEF Registered, Returning, FetchAdd, CompareExchange
    <2>3. SlotsCovered'
      <3>1. Cardinality(Holders') <= Cardinality(Holders) + 1
            /\ Cardinality(Holders') \in Nat
        BY <2>1, <1>f, CountMoves
      <3> QED BY <2>2, <3>1, <1>f
    <2>4. CASE FetchAdd(s)
      <3>1. kinds \cap UnlimitedKinds # {}
        BY <2>4 DEF FetchAdd, LocalsOK
      <3> QED BY <2>3, <3>1
    <2>5. CASE CompareExchange(s)
      <3>1. totalCount' <= MaxThreads
        BY <2>5 DEF CompareExchange
      <3> QED BY <2>3, <3>1
    <2> QED BY <1>d, <2>4, <2>5
  <1>e. CASE Commit(s)
    <2> DEFINE k == KeyOf(path[s], thr[s])
    <2>1. Holders' = Holders \ {s} /\ s \in Holders
      BY <1>e DEF Holders, Commit
    <2>2. Registered' \in SUBSET (Registered \cup {k})
      BY <1>e DEF Registered, Commit
    <2>3. Returning' = Returning /\ totalCount' = totalCount
      BY <1>e DEF Returning, Commit
    <2>4. IsFiniteSet(Registered \cup {k}) /\ Cardinality(Registered') <= Cardinality(Registered \cup {k})
          /\ Cardinality(Registered') \in Nat
      <3> HIDE DEF k
      <3>1. IsFiniteSet(Registered \cup {k})
        BY <1>f, FS_AddElement
      <3> QED BY <2>2, <3>1, FS_Subset, FS_CardinalityType
    <2>5. /\ Cardinality(Holders') = Cardinality(Holders) - 1
          /\ Cardinality(Registered') <= Cardinality(Registered) + 1
      <3>1. Cardinality(Registered \cup {k}) <= Cardinality(Registered) + 1
            /\ Cardinality(Registered \cup {k}) \in Nat
        BY <1>f, CountMoves
      <3>2. Cardinality(Holders \ {s}) = Cardinality(Holders) - 1
        BY <1>f, <2>1, CountMoves
      <3> HIDE DEF k
      <3> QED BY <3>1, <3>2, <2>1, <2>4, <1>f
    <2> QED BY <2>3, <2>4, <2>5, <1>f
  <1>g. CASE DropCount(s)
    <2>1. Holders' = Holders \ {s} /\ s \in Holders
      BY <1>g DEF Holders, DropCount
    <2>2. Registered' = Registered /\ Returning' = Returning /\ totalCount' = totalCount - 1
      BY <1>g DEF Registered, Returning, DropCount
    <2> QED BY <2>1, <2>2, <1>f, CountMoves
  <1> QED
    BY <1>a, <1>b, <1>c, <1>d, <1>e, <1>g DEF SpawnerStep

(* A releaser gives a slot back only for an agent it took off the map.     *)
LEMMA ReleaserCounts ==
    ASSUME IndInv, NEW r \in Releasers, ReleaserStep(r)
    PROVE  SlotsCovered' /\ CountWithinLimit'
  <1> USE RegistryAssumption
      DEF IndInv, TypeOK, SlotsCovered, CountWithinLimit, Slots,
          regVars, mgrVars, spVars, relVars
  <1>f. /\ Cardinality(Holders) \in Nat
        /\ IsFiniteSet(Registered) /\ Cardinality(Registered) \in Nat
        /\ IsFiniteSet(Returning) /\ Cardinality(Returning) \in Nat
    BY OwnersFinite DEF Holders, Registered, Returning
  <1>k. kinds' = kinds
    BY DEF ReleaserStep, RemoveThread, ReleaseEntry, ReleaseCount
  <1> USE <1>k
  <1>h. Holders' = Holders
    BY DEF Holders, ReleaserStep, RemoveThread, ReleaseEntry, ReleaseCount
  <1>1. CASE RemoveThread(r)
    <2>1. Registered' = Registered /\ Returning' = Returning /\ totalCount' = totalCount
      BY <1>1 DEF Registered, Returning, RemoveThread
    <2> QED BY <2>1, <1>h
  <1>2. CASE ReleaseEntry(r)
    <2>0. totalCount' = totalCount
      BY <1>2 DEF ReleaseEntry
    <2>1. CASE KeysOf(rthr[r]) = {} /\ rpc' = [rpc EXCEPT ![r] = "idle"] /\ tree' = tree
      <3>1. Registered' = Registered
        BY <2>1 DEF Registered
      <3>2. Returning' = Returning
        BY <1>2, <2>1 DEF Returning, ReleaseEntry
      <3> QED BY <2>0, <3>1, <3>2, <1>h
    <2>2. ASSUME NEW k \in KeysOf(rthr[r]), tree' = [tree EXCEPT ![k] = None],
                 rpc' = [rpc EXCEPT ![r] =
                           IF tree[k].agent_path = Root THEN "idle" ELSE "count"]
          PROVE  SlotsCovered' /\ CountWithinLimit'
      <3>0. k \in Keys /\ tree[k] # None /\ tree[k].agent_id # None
        BY <1>2, <2>2 DEF KeysOf, ReleaseEntry, LocalsOK
      <3>1. CASE tree[k].agent_path = Root
        <4>1. Registered' = Registered
          BY <2>2, <3>0, <3>1 DEF Registered
        <4>2. Returning' = Returning
          BY <1>2, <2>2, <3>1 DEF Returning, ReleaseEntry
        <4> QED BY <4>1, <4>2, <2>0, <1>h
      <3>2. CASE tree[k].agent_path # Root
        <4>1. k \in Registered /\ Registered' = Registered \ {k}
          BY <2>2, <3>0, <3>2 DEF Registered
        <4>2. Returning' = Returning \cup {r}
          BY <1>2, <2>2, <3>2 DEF Returning, ReleaseEntry
        <4>3. Cardinality(Registered') = Cardinality(Registered) - 1
          BY <4>1, <1>f, CountMoves
        <4>4. Cardinality(Returning') <= Cardinality(Returning) + 1
              /\ Cardinality(Returning') \in Nat
          BY <4>2, <1>f, CountMoves
        <4> QED BY <4>3, <4>4, <2>0, <1>h, <1>f
      <3> QED BY <3>1, <3>2
    <2> QED BY <1>2, <2>1, <2>2 DEF ReleaseEntry
  <1>3. CASE ReleaseCount(r)
    <2>1. r \in Returning /\ Returning' = Returning \ {r}
      BY <1>3 DEF Returning, ReleaseCount
    <2>2. Registered' = Registered /\ totalCount' = totalCount - 1
      BY <1>3 DEF Registered, ReleaseCount
    <2> QED BY <2>1, <2>2, <1>h, <1>f, CountMoves
  <1> QED
    BY <1>1, <1>2, <1>3 DEF ReleaserStep

-----------------------------------------------------------------------------
(* IndInv is an inductive invariant of the registry and its callers.       *)
THEOREM RegistryInvariant == Spec => []IndInv
  <1>1. Init => IndInv
    <2> SUFFICES ASSUME Init PROVE IndInv
      OBVIOUS
    <2>1. TypeOK /\ LocalsOK
      BY RegistryAssumption DEF Init, TypeOK, LocalsOK, AllKinds, SpawnPcs
    <2>2. Holders = {} /\ Registered = {} /\ Returning = {}
      BY DEF Init, Holders, Registered, Returning
    <2> QED
      BY <2>1, <2>2, FS_EmptySet, RegistryAssumption
      DEF IndInv, SlotsCovered, CountWithinLimit, Slots, Init
  <1>2. IndInv /\ [Next]_vars => IndInv'
    <2> SUFFICES ASSUME IndInv, [Next]_vars PROVE IndInv'
      OBVIOUS
    <2>1. ASSUME NEW s \in Spawners, SpawnerStep(s) PROVE IndInv'
      BY <2>1, SpawnerTypes, SpawnerCounts DEF IndInv
    <2>2. ASSUME NEW r \in Releasers, ReleaserStep(r) PROVE IndInv'
      BY <2>2, ReleaserTypes, ReleaserCounts DEF IndInv
    <2>3. CASE UNCHANGED vars
      BY <2>3 DEF vars, regVars, mgrVars, spVars, relVars, IndInv, TypeOK, LocalsOK,
                  SlotsCovered, CountWithinLimit, Slots, Holders, Registered, Returning
    <2> QED
      BY <2>1, <2>2, <2>3 DEF Next, SpawnerStep, ReleaserStep
  <1> QED
    BY <1>1, <1>2, PTL DEF Spec

(* Every variable of the registry and its callers keeps its type.          *)
THEOREM RegistryTypes == Spec => []TypeOK
  <1>1. IndInv => TypeOK
    BY DEF IndInv
  <1> QED
    BY <1>1, RegistryInvariant, PTL

(* However spawns, resumes, failures and releases interleave, the agents   *)
(* that are open or being spawned never outnumber agents.max_threads.      *)
THEOREM OpenAgentsBounded == Spec => []OpenAgentsWithinLimit
  <1>1. IndInv => OpenAgentsWithinLimit
    <2>1. /\ Cardinality(Holders) \in Nat
          /\ Cardinality(Registered) \in Nat
          /\ Cardinality(Returning) \in Nat
      BY OwnersFinite DEF Holders, Registered, Returning
    <2> QED
      BY <2>1, RegistryAssumption
      DEF IndInv, TypeOK, SlotsCovered, CountWithinLimit, Slots, OpenAgentsWithinLimit
  <1> QED
    BY <1>1, RegistryInvariant, PTL
-----------------------------------------------------------------------------
(* A spawn asks for a path only when it has one.                           *)
PathsOK == \A s \in Spawners : pc[s] = "path" => path[s] # None

(* A step that moves one spawner between two places where it holds its     *)
(* path, or none, and leaves the reserved entries of the map alone.        *)
LEMMA ReservationsKept ==
    ASSUME TypeOK, ReservationsOwned,
           \A s \in Spawners : HoldsPath(s)' <=> HoldsPath(s),
           \A s \in Spawners : HoldsPath(s) => path'[s] = path[s],
           \A k \in Keys : tree'[k] = tree[k]
              \/ /\ tree[k] = None \/ tree[k].agent_id # None
                 /\ tree'[k] = None \/ tree'[k].agent_id # None
    PROVE  ReservationsOwned'
  <1>1. ASSUME NEW s \in Spawners, HoldsPath(s)' PROVE (tree[path[s]] = ReservedEntry(path[s]))'
    <2>1. /\ path'[s] = path[s] /\ path[s] \in Keys
          /\ tree[path[s]] = ReservedEntry(path[s])
      BY <1>1 DEF ReservationsOwned, HoldsPath, TypeOK, Keys
    <2>2. tree[path[s]] # None /\ tree[path[s]].agent_id = None
      <3>1. ReservedEntry(path[s]) \in AgentMetadata
        BY DEF ReservedEntry, AgentMetadata, TypeOK
      <3> QED BY <2>1, <3>1, NoneAssumption DEF ReservedEntry
    <2> QED BY <2>1, <2>2
  <1>2. ASSUME NEW k \in Keys, tree'[k] # None, tree'[k].agent_id = None
        PROVE \E s \in Spawners : HoldsPath(s)' /\ path'[s] = k
    BY <1>2 DEF ReservationsOwned
  <1>3. ASSUME NEW s1 \in Spawners, NEW s2 \in Spawners,
               HoldsPath(s1)', HoldsPath(s2)', path'[s1] = path'[s2]
        PROVE s1 = s2
    BY <1>3 DEF ReservationsOwned
  <1> QED BY <1>1, <1>2, <1>3 DEF ReservationsOwned

LEMMA SpawnerReservations ==
    ASSUME IndInv, PathsOK, ReservationsOwned, NEW s \in Spawners, SpawnerStep(s)
    PROVE  PathsOK' /\ ReservationsOwned'
  <1>0. TypeOK /\ LocalsOK
    BY DEF IndInv
  <1>1. CASE \/ BeginSpawn(s) \/ BeginResume(s) \/ FetchAdd(s) \/ LoadCount(s)
             \/ AgentLimitReached(s) \/ CompareExchange(s) \/ CompareExchangeFails(s)
             \/ DropCount(s)
    <2>1. /\ \A k \in Keys : tree'[k] = tree[k]
          /\ \A u \in Spawners : u # s => pc'[u] = pc[u] /\ path'[u] = path[u]
          /\ pc'[s] \notin {"path", "name", "create", "finalize", "commit", "dropPath"}
          /\ pc[s] \notin {"path", "name", "create", "finalize", "commit", "dropPath"}
      BY <1>0, <1>1 DEF TypeOK, SpawnPcs, BeginSpawn, BeginResume, FetchAdd, LoadCount,
         AgentLimitReached, CompareExchange, CompareExchangeFails, DropCount, regVars
    <2>2. \A u \in Spawners : /\ HoldsPath(u)' <=> HoldsPath(u)
                              /\ HoldsPath(u) => path'[u] = path[u]
      BY <2>1 DEF HoldsPath
    <2>3. PathsOK'
      BY <2>1 DEF PathsOK
    <2> QED BY <1>0, <2>1, <2>2, <2>3, ReservationsKept
  <1>2. CASE \/ NicknamePreferred(s) \/ NicknameFromPool(s) \/ NicknamePoolReset(s)
             \/ NoNickname(s) \/ CreateThread(s) \/ ResumeThread(s)
             \/ CreateThreadFails(s) \/ FinalizeThreadSpawn(s)
    <2>1. /\ \A k \in Keys : tree'[k] = tree[k]
          /\ path' = path /\ \A u \in Spawners : u # s => pc'[u] = pc[u]
          /\ pc[s] \in {"name", "create", "finalize", "commit", "dropPath"}
          /\ pc'[s] \in {"name", "create", "finalize", "commit", "dropPath"}
      BY <1>0, <1>2 DEF TypeOK, SpawnPcs, NicknamePreferred, NicknameFromPool,
         NicknamePoolReset, NoNickname, CreateThread, ResumeThread, CreateThreadFails,
         FinalizeThreadSpawn, regVars
    <2>2. \A u \in Spawners : HoldsPath(u)' <=> HoldsPath(u)
      BY <2>1 DEF HoldsPath
    <2>3. PathsOK'
      BY <2>1 DEF PathsOK
    <2> QED BY <1>0, <2>1, <2>2, <2>3, ReservationsKept
  <1>3. CASE RegisterRootThread(s)
    <2>1. /\ path' = path /\ \A u \in Spawners : u # s => pc'[u] = pc[u]
          /\ pc[s] = "prepare" /\ pc'[s] \in {"path", "name"}
          /\ pc'[s] = "path" <=> path[s] # None
      BY <1>0, <1>3 DEF TypeOK, RegisterRootThread
    <2>2. \A k \in Keys : tree'[k] = tree[k]
             \/ /\ tree[k] = None \/ tree[k].agent_id # None
                /\ tree'[k] = None \/ tree'[k].agent_id # None
      BY <1>0, <1>3, RegistryAssumption DEF TypeOK, RegisterRootThread
    <2>3. \A u \in Spawners : HoldsPath(u)' <=> HoldsPath(u)
      BY <2>1 DEF HoldsPath
    <2>4. PathsOK'
      BY <2>1 DEF PathsOK
    <2> QED BY <1>0, <2>1, <2>2, <2>3, <2>4, ReservationsKept
  <1>4. CASE ReserveAgentPath(s)
    <2>0. path[s] \in Paths /\ path[s] \in Keys /\ path[s] # None
      BY <1>0, <1>4 DEF TypeOK, ReserveAgentPath, PathsOK, Keys
    <2>1. /\ path' = path /\ \A u \in Spawners : u # s => pc'[u] = pc[u]
          /\ ~HoldsPath(s)
      BY <1>0, <1>4 DEF TypeOK, ReserveAgentPath, HoldsPath
    <2>2. CASE tree[path[s]] = None
      <3>1. /\ tree'[path[s]] = ReservedEntry(path[s]) /\ pc'[s] = "name"
            /\ \A k \in Keys : k # path[s] => tree'[k] = tree[k]
        BY <1>0, <1>4, <2>0, <2>2 DEF TypeOK, ReserveAgentPath
      <3>2. HoldsPath(s)' /\ \A u \in Spawners : u # s => (HoldsPath(u)' <=> HoldsPath(u))
        BY <2>0, <2>1, <3>1 DEF HoldsPath
      <3>3. ASSUME NEW u \in Spawners, u # s, HoldsPath(u)
            PROVE path[u] # path[s] /\ path[u] \in Keys
        <4>1. tree[path[u]] = ReservedEntry(path[u]) /\ path[u] \in Keys
          BY <1>0, <3>3 DEF ReservationsOwned, HoldsPath, TypeOK, Keys
        <4>2. ReservedEntry(path[u]) # None
          BY <1>0, <3>3, NoneAssumption DEF ReservedEntry, AgentMetadata, TypeOK
        <4> QED BY <2>2, <4>1, <4>2
      <3>4. \A u \in Spawners : HoldsPath(u)' => tree'[path'[u]] = ReservedEntry(path'[u])
        BY <2>1, <3>1, <3>2, <3>3 DEF ReservationsOwned
      <3>5. \A u, v \in Spawners :
               HoldsPath(u)' /\ HoldsPath(v)' /\ path'[u] = path'[v] => u = v
        BY <2>1, <3>2, <3>3 DEF ReservationsOwned
      <3>6. ASSUME NEW k \in Keys, tree'[k] # None, tree'[k].agent_id = None
            PROVE \E u \in Spawners : HoldsPath(u)' /\ path'[u] = k
        <4>1. CASE k = path[s]
          BY <2>1, <3>2, <4>1
        <4>2. CASE k # path[s]
          <5>1. PICK u \in Spawners : HoldsPath(u) /\ path[u] = k
            BY <3>1, <3>6, <4>2 DEF ReservationsOwned
          <5> QED BY <2>1, <3>2, <4>2, <5>1
        <4> QED BY <4>1, <4>2
      <3>7. PathsOK'
        BY <2>1, <3>1 DEF PathsOK
      <3> QED BY <3>4, <3>5, <3>6, <3>7 DEF ReservationsOwned
    <2>3. CASE tree[path[s]] # None
      <3>1. pc'[s] = "dropCount" /\ \A k \in Keys : tree'[k] = tree[k]
        BY <1>0, <1>4, <2>3 DEF TypeOK, ReserveAgentPath
      <3>2. \A u \in Spawners : HoldsPath(u)' <=> HoldsPath(u)
        BY <2>1, <3>1 DEF HoldsPath
      <3>3. PathsOK'
        BY <2>1, <3>1 DEF PathsOK
      <3> QED BY <1>0, <2>1, <3>1, <3>2, <3>3, ReservationsKept
    <2> QED BY <2>2, <2>3
  <1>6. CASE DefaultMetadata(s)
    <2>1. /\ tree' = tree /\ path' = path /\ \A u \in Spawners : u # s => pc'[u] = pc[u]
          /\ pc'[s] = "create" /\ path[s] = None
      BY <1>0, <1>6 DEF TypeOK, LocalsOK, DefaultMetadata, regVars
    <2>2. \A u \in Spawners : HoldsPath(u)' <=> HoldsPath(u)
      BY <2>1 DEF HoldsPath
    <2>3. PathsOK'
      BY <2>1 DEF PathsOK
    <2> QED BY <1>0, <2>1, <2>2, <2>3, ReservationsKept
  <1>5. CASE Commit(s) \/ DropPath(s)
    <2>1. /\ \A u \in Spawners : u # s => pc'[u] = pc[u] /\ path'[u] = path[u]
          /\ pc[s] \in {"commit", "dropPath"} /\ pc'[s] \in {"idle", "dropCount"}
      BY <1>0, <1>5 DEF TypeOK, Commit, DropPath
    <2>2. ~HoldsPath(s)' /\ \A u \in Spawners : u # s => (HoldsPath(u)' <=> HoldsPath(u))
      BY <2>1 DEF HoldsPath
    <2>3. HoldsPath(s) <=> path[s] # None
      BY <2>1 DEF HoldsPath
    <2>4. /\ \A k \in Keys : k \in Paths /\ k # path[s] => tree'[k] = tree[k]
          /\ \A k \in Keys : k # path[s] /\ tree'[k] # tree[k] => tree'[k].agent_id # None
          /\ path[s] # None => tree'[path[s]] = None \/ tree'[path[s]].agent_id # None
      <3>1. CASE Commit(s)
        BY <1>0, <3>1, RegistryAssumption DEF TypeOK, LocalsOK, Commit, KeyOf, Keys
      <3>2. CASE DropPath(s)
        <4>1. path[s] # None => tree[path[s]] = ReservedEntry(path[s])
          BY <2>3 DEF ReservationsOwned
        <4> QED BY <1>0, <3>2, <4>1 DEF TypeOK, DropPath, Keys, ReservedEntry
      <3> QED BY <1>5, <3>1, <3>2
    <2>5. ASSUME NEW u \in Spawners, HoldsPath(u)'
          PROVE tree'[path'[u]] = ReservedEntry(path'[u])
      <3>1. /\ HoldsPath(u) /\ u # s /\ path[u] \in Paths /\ path[u] \in Keys
            /\ tree[path[u]] = ReservedEntry(path[u])
        BY <1>0, <2>2, <2>5 DEF ReservationsOwned, HoldsPath, TypeOK, Keys
      <3>2. path[u] # path[s]
        BY <2>3, <3>1 DEF ReservationsOwned, HoldsPath
      <3> QED BY <2>1, <2>4, <3>1, <3>2
    <2>6. \A u, v \in Spawners :
             HoldsPath(u)' /\ HoldsPath(v)' /\ path'[u] = path'[v] => u = v
      BY <2>1, <2>2 DEF ReservationsOwned
    <2>7. ASSUME NEW k \in Keys, tree'[k] # None, tree'[k].agent_id = None
          PROVE \E u \in Spawners : HoldsPath(u)' /\ path'[u] = k
      <3>1. k # path[s] /\ tree'[k] = tree[k]
        <4>1. CASE k = path[s]
          <5>1. path[s] # None
            BY <4>1, RegistryAssumption DEF Keys
          <5> QED BY <2>4, <2>7, <4>1, <5>1
        <4> QED BY <2>4, <2>7, <4>1
      <3>2. PICK u \in Spawners : HoldsPath(u) /\ path[u] = k
        BY <2>7, <3>1 DEF ReservationsOwned
      <3> QED BY <2>1, <2>2, <3>1, <3>2
    <2>8. PathsOK'
      BY <2>1 DEF PathsOK
    <2> QED BY <2>5, <2>6, <2>7, <2>8 DEF ReservationsOwned
  <1> QED BY <1>1, <1>2, <1>3, <1>4, <1>5, <1>6 DEF SpawnerStep

LEMMA ReleaserReservations ==
    ASSUME IndInv, PathsOK, ReservationsOwned, NEW r \in Releasers, ReleaserStep(r)
    PROVE  PathsOK' /\ ReservationsOwned'
  <1>1. TypeOK /\ LocalsOK
    BY DEF IndInv
  <1>2. UNCHANGED <<pc, path>>
    BY DEF ReleaserStep, RemoveThread, ReleaseEntry, ReleaseCount, spVars
  <1>3. \A k \in Keys : tree'[k] = tree[k]
           \/ /\ tree[k] = None \/ tree[k].agent_id # None
              /\ tree'[k] = None \/ tree'[k].agent_id # None
    BY <1>1, RegistryAssumption
       DEF TypeOK, LocalsOK, ReleaserStep, RemoveThread, ReleaseEntry, ReleaseCount, KeysOf, regVars
  <1>4. \A u \in Spawners : HoldsPath(u)' <=> HoldsPath(u)
    BY <1>2 DEF HoldsPath
  <1> QED BY <1>1, <1>2, <1>3, <1>4, ReservationsKept DEF PathsOK

(* Both hold throughout, whatever fails and however calls interleave.      *)
LEMMA PathsHeld == Spec => [](PathsOK /\ ReservationsOwned)
  <1>1. Init => PathsOK /\ ReservationsOwned
    BY DEF Init, PathsOK, ReservationsOwned, HoldsPath
  <1>2. IndInv /\ PathsOK /\ ReservationsOwned /\ [Next]_vars => (PathsOK /\ ReservationsOwned)'
    <2> SUFFICES ASSUME IndInv, PathsOK, ReservationsOwned, [Next]_vars
                 PROVE  (PathsOK /\ ReservationsOwned)'
      OBVIOUS
    <2>1. CASE UNCHANGED vars
      BY <2>1 DEF vars, regVars, spVars, PathsOK, ReservationsOwned, HoldsPath
    <2>2. ASSUME NEW s \in Spawners, SpawnerStep(s) PROVE (PathsOK /\ ReservationsOwned)'
      BY <2>2, SpawnerReservations
    <2>3. ASSUME NEW r \in Releasers, ReleaserStep(r) PROVE (PathsOK /\ ReservationsOwned)'
      BY <2>3, ReleaserReservations
    <2> QED BY <2>1, <2>2, <2>3 DEF Next, SpawnerStep, ReleaserStep
  <1> QED
    BY <1>1, <1>2, RegistryInvariant, PTL DEF Spec

(* Whatever fails and however spawns, resumes and releases interleave, a   *)
(* reserved path belongs to exactly one spawn under way.                   *)
THEOREM PathsReservedOnce == Spec => []ReservationsOwned
  BY PathsHeld, PTL

-----------------------------------------------------------------------------
(* In a tree that resumes nothing a thread that is being spawned is new:   *)
(* no other spawn has it and no entry of the map is filed under it, so     *)
(* Commit adds an entry and never replaces one.                            *)
Spawned(s) == pc[s] \in {"finalize", "commit"}
ThreadsNew ==
    "resume" \notin kinds =>
        /\ \A t \in Threads : tree[t] # None => t \in created
        /\ \A s \in Spawners : Spawned(s) => thr[s] \in created /\ tree[thr[s]] = None
        /\ \A s1, s2 \in Spawners :
              Spawned(s1) /\ Spawned(s2) /\ thr[s1] = thr[s2] => s1 = s2

(* Steps that file no entry under a thread and make no thread.             *)
LEMMA ThreadsStayNew ==
    ASSUME ThreadsNew, LocalsOK, kinds' = kinds, created' = created,
           \A s \in Spawners : Spawned(s)' => Spawned(s) /\ thr'[s] = thr[s],
           \A t \in Threads : tree'[t] = tree[t] \/ tree'[t] = None
    PROVE  ThreadsNew'
  BY DEF ThreadsNew, LocalsOK, Spawned

LEMMA SpawnerThreads ==
    ASSUME IndInv, PathsOK, ThreadsNew, NEW s \in Spawners, SpawnerStep(s)
    PROVE  ThreadsNew'
  <1> USE RegistryAssumption
  <1>0. TypeOK /\ LocalsOK
    BY DEF IndInv
  <1>1. CASE \/ BeginSpawn(s) \/ BeginResume(s) \/ FetchAdd(s) \/ LoadCount(s)
             \/ AgentLimitReached(s) \/ CompareExchange(s) \/ CompareExchangeFails(s)
             \/ DropCount(s) \/ DefaultMetadata(s)
    <2>1. /\ kinds' = kinds /\ created' = created /\ tree' = tree
          /\ \A u \in Spawners : Spawned(u)' => Spawned(u) /\ thr'[u] = thr[u]
      BY <1>0, <1>1 DEF TypeOK, Spawned, BeginSpawn, BeginResume, FetchAdd, LoadCount,
         AgentLimitReached, CompareExchange, CompareExchangeFails, DropCount, DefaultMetadata,
         regVars, mgrVars
    <2> QED BY <1>0, <2>1, ThreadsStayNew
  <1>2. CASE \/ NicknamePreferred(s) \/ NicknameFromPool(s) \/ NicknamePoolReset(s)
             \/ NoNickname(s) \/ CreateThreadFails(s) \/ FinalizeThreadSpawn(s)
    <2>1. /\ kinds' = kinds /\ created' = created /\ tree' = tree
          /\ \A u \in Spawners : Spawned(u)' => Spawned(u) /\ thr'[u] = thr[u]
      BY <1>0, <1>2 DEF TypeOK, Spawned, NicknamePreferred, NicknameFromPool,
         NicknamePoolReset, NoNickname, CreateThreadFails, FinalizeThreadSpawn,
         regVars, mgrVars
    <2> QED BY <1>0, <2>1, ThreadsStayNew
  <1>3. CASE RegisterRootThread(s) \/ ReserveAgentPath(s) \/ DropPath(s)
    <2>1. /\ kinds' = kinds /\ created' = created
          /\ \A u \in Spawners : Spawned(u)' => Spawned(u) /\ thr'[u] = thr[u]
      BY <1>0, <1>3 DEF TypeOK, Spawned, RegisterRootThread, ReserveAgentPath, DropPath,
         mgrVars
    <2>2. \A t \in Threads : tree'[t] = tree[t]
      BY <1>0, <1>3 DEF TypeOK, PathsOK, RegisterRootThread, ReserveAgentPath, DropPath, Keys
    <2> QED BY <1>0, <2>1, <2>2, ThreadsStayNew
  <1>4. CASE ResumeThread(s)
    BY <1>0, <1>4 DEF ResumeThread, LocalsOK, ThreadsNew
  <1>5. CASE CreateThread(s)
    <2>1. PICK t \in Threads \ created : thr' = [thr EXCEPT ![s] = t] /\ created' = created \cup {t}
      BY <1>5 DEF CreateThread
    <2>2. /\ kinds' = kinds /\ tree' = tree /\ thr'[s] = t
          /\ \A u \in Spawners : u # s => pc'[u] = pc[u] /\ thr'[u] = thr[u]
      BY <1>0, <1>5, <2>1 DEF TypeOK, CreateThread, regVars
    <2> SUFFICES ASSUME "resume" \notin kinds PROVE ThreadsNew'
      BY <2>2 DEF ThreadsNew
    <2>3. tree[t] = None /\ \A u \in Spawners : Spawned(u) => thr[u] # t
      BY <2>1 DEF ThreadsNew
    <2>4. \A u \in Spawners : Spawned(u)' => u = s \/ Spawned(u)
      BY <2>2 DEF Spawned
    <2> QED BY <2>1, <2>2, <2>3, <2>4 DEF ThreadsNew
  <1>6. CASE Commit(s)
    <2> DEFINE k == KeyOf(path[s], thr[s])
    <2>1. /\ kinds' = kinds /\ created' = created /\ thr[s] \in Threads
          /\ Spawned(s) /\ ~Spawned(s)'
          /\ \A u \in Spawners : Spawned(u)' => Spawned(u) /\ u # s /\ thr'[u] = thr[u]
          /\ \A t \in Threads : t # thr[s] => tree'[t] = tree[t]
      BY <1>0, <1>6 DEF TypeOK, LocalsOK, Commit, Spawned, KeyOf, Keys
    <2> QED BY <1>0, <2>1 DEF ThreadsNew, LocalsOK, Spawned
  <1> QED BY <1>1, <1>2, <1>3, <1>4, <1>5, <1>6 DEF SpawnerStep

LEMMA ReleaserThreads ==
    ASSUME IndInv, ThreadsNew, NEW r \in Releasers, ReleaserStep(r)
    PROVE  ThreadsNew'
  <1>1. TypeOK /\ LocalsOK
    BY DEF IndInv
  <1>2. UNCHANGED <<kinds, pc, thr, created>>
    BY DEF ReleaserStep, RemoveThread, ReleaseEntry, ReleaseCount, spVars, mgrVars
  <1>3. \A t \in Threads : tree'[t] = tree[t] \/ tree'[t] = None
    BY <1>1 DEF TypeOK, Keys, ReleaserStep, RemoveThread, ReleaseEntry, ReleaseCount,
       KeysOf, regVars
  <1> QED BY <1>1, <1>2, <1>3, ThreadsStayNew DEF Spawned

-----------------------------------------------------------------------------
(* A new owner adds exactly one slot.                                      *)
LEMMA CountAdds ==
    ASSUME NEW S, IsFiniteSet(S), NEW x, x \notin S
    PROVE  Cardinality(S \cup {x}) = Cardinality(S) + 1
  BY FS_AddElement

LEMMA SpawnerExact ==
    ASSUME IndInv, PathsOK, ReservationsOwned, ThreadsNew, SlotsReturned,
           "resume" \notin kinds, NEW s \in Spawners, SpawnerStep(s)
    PROVE  SlotsExact'
  <1> USE RegistryAssumption
  <1>0. TypeOK /\ LocalsOK /\ totalCount = Slots
    BY DEF IndInv, SlotsReturned, SlotsExact
  <1>f. /\ IsFiniteSet(Holders) /\ Cardinality(Holders) \in Nat
        /\ IsFiniteSet(Registered) /\ Cardinality(Registered) \in Nat
        /\ Cardinality(Returning) \in Nat
    BY OwnersFinite DEF Holders, Registered, Returning
  <1>1. CASE \/ BeginSpawn(s) \/ LoadCount(s) \/ AgentLimitReached(s) \/ DefaultMetadata(s)
             \/ CompareExchangeFails(s) \/ NicknameFromPool(s) \/ NicknamePoolReset(s)
             \/ NoNickname(s) \/ CreateThread(s) \/ CreateThreadFails(s)
             \/ FinalizeThreadSpawn(s)
    <2>1. UNCHANGED <<totalCount, tree, rpc>>
      BY <1>1 DEF BeginSpawn, LoadCount, AgentLimitReached, CompareExchangeFails,
         DefaultMetadata, NicknameFromPool, NicknamePoolReset, NoNickname, CreateThread, CreateThreadFails,
         FinalizeThreadSpawn, regVars, relVars
    <2>2. Holders' = Holders
      BY <1>0, <1>1 DEF TypeOK, Holders, BeginSpawn, LoadCount, AgentLimitReached, DefaultMetadata,
         CompareExchangeFails, NicknameFromPool, NicknamePoolReset, NoNickname,
         CreateThread, CreateThreadFails, FinalizeThreadSpawn
    <2>3. Registered' = Registered /\ Returning' = Returning
      BY <2>1 DEF Registered, Returning
    <2> QED BY <1>0, <2>1, <2>2, <2>3 DEF SlotsExact, Slots
  <1>2. CASE RegisterRootThread(s) \/ ReserveAgentPath(s) \/ DropPath(s)
    <2>1. Holders' = Holders /\ totalCount' = totalCount
      BY <1>0, <1>2 DEF TypeOK, Holders, RegisterRootThread, ReserveAgentPath, DropPath
    <2>2. Registered' = Registered
      BY <1>0, <1>2 DEF TypeOK, Registered, RegisterRootThread, ReserveAgentPath, DropPath,
         ReservedEntry, Keys, AgentMetadata
    <2>3. Returning' = Returning
      BY <1>2 DEF Returning, RegisterRootThread, ReserveAgentPath, DropPath, relVars
    <2> QED BY <1>0, <2>1, <2>2, <2>3 DEF SlotsExact, Slots
  <1>3. CASE BeginResume(s) \/ NicknamePreferred(s) \/ ResumeThread(s)
    BY <1>0, <1>3 DEF BeginResume, NicknamePreferred, ResumeThread, LocalsOK
  <1>4. CASE FetchAdd(s) \/ CompareExchange(s)
    <2>1. Holders' = Holders \cup {s} /\ s \notin Holders
      BY <1>0, <1>4 DEF TypeOK, Holders, FetchAdd, CompareExchange
    <2>2. /\ Registered' = Registered /\ Returning' = Returning
          /\ totalCount' = totalCount + 1
      BY <1>4 DEF Registered, Returning, FetchAdd, CompareExchange, relVars
    <2>3. Cardinality(Holders') = Cardinality(Holders) + 1
      BY <1>f, <2>1, CountAdds
    <2> QED BY <1>0, <1>f, <2>2, <2>3 DEF SlotsExact, Slots
  <1>5. CASE Commit(s)
    <2> DEFINE k == KeyOf(path[s], thr[s])
    <2>1. Holders' = Holders \ {s} /\ s \in Holders
      BY <1>0, <1>5 DEF TypeOK, Holders, Commit
    <2>2. k \in Keys /\ thr[s] \in Threads /\ path[s] # Root
      BY <1>0, <1>5 DEF TypeOK, LocalsOK, Commit, KeyOf, Keys
    <2>3. k \notin Registered
      <3>1. CASE path[s] = None
        <4>1. k = thr[s] /\ Spawned(s)
          BY <1>5, <3>1 DEF KeyOf, Commit, Spawned
        <4> QED BY <4>1 DEF ThreadsNew, Registered
      <3>2. CASE path[s] # None
        <4>1. k = path[s] /\ tree[path[s]] = ReservedEntry(path[s])
          BY <1>5, <3>2 DEF KeyOf, Commit, HoldsPath, ReservationsOwned
        <4> QED BY <4>1 DEF Registered, ReservedEntry
      <3> QED BY <3>1, <3>2
    <2>4. Registered' = Registered \cup {k}
      <3>1. tree'[k] = [agent_id |-> thr[s], agent_path |-> path[s], agent_nickname |-> nick[s]]
            /\ \A j \in Keys : j # k => tree'[j] = tree[j]
        BY <1>0, <1>5, <2>2 DEF TypeOK, Commit
      <3>2. tree'[k] \in AgentMetadata
        BY <1>0, <2>2, <3>1 DEF TypeOK, AgentMetadata
      <3>3. tree'[k] # None /\ tree'[k].agent_id # None /\ tree'[k].agent_path # Root
        BY <2>2, <3>1, <3>2, NoneAssumption
      <3> HIDE DEF k
      <3> QED BY <2>2, <3>1, <3>3 DEF Registered
    <2>5. Returning' = Returning /\ totalCount' = totalCount
      BY <1>5 DEF Returning, Commit, relVars
    <2> HIDE DEF k
    <2>6. /\ Cardinality(Registered') = Cardinality(Registered) + 1
          /\ Cardinality(Holders') = Cardinality(Holders) - 1
      BY <1>f, <2>1, <2>3, <2>4, CountAdds, CountMoves
    <2> QED BY <1>0, <1>f, <2>5, <2>6 DEF SlotsExact, Slots
  <1>6. CASE DropCount(s)
    <2>1. Holders' = Holders \ {s} /\ s \in Holders
      BY <1>0, <1>6 DEF TypeOK, Holders, DropCount
    <2>2. /\ Registered' = Registered /\ Returning' = Returning
          /\ totalCount' = totalCount - 1
      BY <1>6 DEF Registered, Returning, DropCount, relVars
    <2>3. Cardinality(Holders') = Cardinality(Holders) - 1
      BY <1>f, <2>1, CountMoves
    <2> QED BY <1>0, <1>f, <2>2, <2>3 DEF SlotsExact, Slots
  <1> QED BY <1>1, <1>2, <1>3, <1>4, <1>5, <1>6 DEF SpawnerStep

LEMMA ReleaserExact ==
    ASSUME IndInv, SlotsExact, NEW r \in Releasers, ReleaserStep(r)
    PROVE  SlotsExact'
  <1> USE RegistryAssumption
  <1>0. TypeOK /\ LocalsOK /\ totalCount = Slots
    BY DEF IndInv, SlotsExact
  <1>f. /\ Cardinality(Holders) \in Nat
        /\ IsFiniteSet(Registered) /\ Cardinality(Registered) \in Nat
        /\ IsFiniteSet(Returning) /\ Cardinality(Returning) \in Nat
    BY OwnersFinite DEF Holders, Registered, Returning
  <1>h. Holders' = Holders
    BY DEF Holders, ReleaserStep, RemoveThread, ReleaseEntry, ReleaseCount, spVars
  <1>1. CASE RemoveThread(r)
    <2>1. Registered' = Registered /\ Returning' = Returning /\ totalCount' = totalCount
      BY <1>0, <1>1 DEF TypeOK, Registered, Returning, RemoveThread, regVars
    <2> QED BY <1>0, <1>h, <2>1 DEF SlotsExact, Slots
  <1>2. CASE ReleaseEntry(r)
    <2>0. totalCount' = totalCount /\ rpc[r] = "release"
      BY <1>2 DEF ReleaseEntry
    <2>1. CASE rpc' = [rpc EXCEPT ![r] = "idle"] /\ tree' = tree
      <3>1. Registered' = Registered /\ Returning' = Returning
        BY <1>0, <2>0, <2>1 DEF TypeOK, Registered, Returning
      <3> QED BY <1>0, <1>h, <2>0, <3>1 DEF SlotsExact, Slots
    <2>2. ASSUME NEW k \in KeysOf(rthr[r]), tree' = [tree EXCEPT ![k] = None],
                 rpc' = [rpc EXCEPT ![r] =
                           IF tree[k].agent_path = Root THEN "idle" ELSE "count"]
          PROVE  SlotsExact'
      <3>0. k \in Keys /\ tree[k] # None /\ tree[k].agent_id # None
        BY <1>0, <2>0, <2>2 DEF KeysOf, LocalsOK
      <3>1. CASE tree[k].agent_path = Root
        <4>1. Registered' = Registered /\ Returning' = Returning
          BY <1>0, <2>0, <2>2, <3>0, <3>1 DEF TypeOK, Registered, Returning
        <4> QED BY <1>0, <1>h, <2>0, <4>1 DEF SlotsExact, Slots
      <3>2. CASE tree[k].agent_path # Root
        <4>1. k \in Registered /\ Registered' = Registered \ {k}
          BY <1>0, <2>2, <3>0, <3>2 DEF TypeOK, Registered
        <4>2. Returning' = Returning \cup {r} /\ r \notin Returning
          BY <1>0, <2>0, <2>2, <3>2 DEF TypeOK, Returning
        <4>3. /\ Cardinality(Registered') = Cardinality(Registered) - 1
              /\ Cardinality(Returning') = Cardinality(Returning) + 1
          BY <1>f, <4>1, <4>2, CountMoves, CountAdds
        <4> QED BY <1>0, <1>f, <1>h, <2>0, <4>3 DEF SlotsExact, Slots
      <3> QED BY <3>1, <3>2
    <2> QED BY <1>2, <2>1, <2>2 DEF ReleaseEntry
  <1>3. CASE ReleaseCount(r)
    <2>1. r \in Returning /\ Returning' = Returning \ {r}
      BY <1>0, <1>3 DEF TypeOK, Returning, ReleaseCount
    <2>2. Registered' = Registered /\ totalCount' = totalCount - 1
      BY <1>3 DEF Registered, ReleaseCount
    <2>3. Cardinality(Returning') = Cardinality(Returning) - 1
      BY <1>f, <2>1, CountMoves
    <2> QED BY <1>0, <1>f, <1>h, <2>2, <2>3 DEF SlotsExact, Slots
  <1> QED BY <1>1, <1>2, <1>3 DEF ReleaserStep

(* A tree keeps its configuration.                                         *)
LEMMA KindsFixed == [Next]_vars => kinds' = kinds
  <1>1. ASSUME NEW s \in Spawners, SpawnerStep(s) PROVE kinds' = kinds
    BY <1>1 DEF SpawnerStep, BeginSpawn, BeginResume, FetchAdd, LoadCount, AgentLimitReached,
       CompareExchange, CompareExchangeFails, DefaultMetadata, RegisterRootThread,
       ReserveAgentPath, NicknamePreferred, NicknameFromPool, NicknamePoolReset, NoNickname,
       CreateThread, ResumeThread, CreateThreadFails, FinalizeThreadSpawn, Commit, DropPath,
       DropCount
  <1>2. ASSUME NEW r \in Releasers, ReleaserStep(r) PROVE kinds' = kinds
    BY <1>2 DEF ReleaserStep, RemoveThread, ReleaseEntry, ReleaseCount
  <1>3. CASE UNCHANGED vars
    BY <1>3 DEF vars
  <1> QED
    BY <1>1, <1>2, <1>3 DEF Next, SpawnerStep, ReleaserStep

(* In a tree that resumes no agent, total_count is exactly the number of   *)
(* spawns under way, open agents and releases that still owe their slot:   *)
(* no error path, race or release leaks a slot or returns one twice.       *)
THEOREM SlotsAlwaysReturned == Spec => []SlotsReturned
  <1>1. Init => ThreadsNew /\ SlotsReturned
    <2> SUFFICES ASSUME Init PROVE ThreadsNew /\ SlotsReturned
      OBVIOUS
    <2>1. ThreadsNew
      BY DEF Init, ThreadsNew, Spawned, Keys
    <2>2. Holders = {} /\ Registered = {} /\ Returning = {}
      BY DEF Init, Holders, Registered, Returning
    <2> QED
      BY <2>1, <2>2, FS_EmptySet DEF SlotsReturned, SlotsExact, Slots, Init
  <1>2. /\ IndInv /\ PathsOK /\ ReservationsOwned /\ ThreadsNew /\ SlotsReturned
        /\ [Next]_vars
        => (ThreadsNew /\ SlotsReturned)'
    <2> SUFFICES ASSUME IndInv, PathsOK, ReservationsOwned, ThreadsNew, SlotsReturned,
                        [Next]_vars
                 PROVE  (ThreadsNew /\ SlotsReturned)'
      OBVIOUS
    <2>k. kinds' = kinds
      BY KindsFixed
    <2>1. CASE UNCHANGED vars
      BY <2>1 DEF vars, regVars, mgrVars, spVars, relVars, ThreadsNew, Spawned,
         SlotsReturned, SlotsExact, Slots, Holders, Registered, Returning
    <2>2. ASSUME NEW s \in Spawners, SpawnerStep(s)
          PROVE  (ThreadsNew /\ SlotsReturned)'
      BY <2>2, <2>k, SpawnerThreads, SpawnerExact DEF SlotsReturned
    <2>3. ASSUME NEW r \in Releasers, ReleaserStep(r)
          PROVE  (ThreadsNew /\ SlotsReturned)'
      BY <2>3, <2>k, ReleaserThreads, ReleaserExact DEF SlotsReturned
    <2> QED BY <2>1, <2>2, <2>3 DEF Next, SpawnerStep, ReleaserStep
  <1> QED
    BY <1>1, <1>2, RegistryInvariant, PathsHeld, PTL DEF Spec

-----------------------------------------------------------------------------
(* A name that was given out is the text of a candidate in this round of   *)
(* the pool or an earlier one, and in the former case the pool knows it.   *)
GivenOut(n, count, pool) ==
    \E m \in Names, r \in 0 .. MaxResets :
        n = Formatted[<<m, r>>] /\ r <= count /\ (r = count => n \in pool)
NamesGiven ==
    "resume" \notin kinds =>
        /\ \A s \in Named : GivenOut(nick[s], resetCount, used)
        /\ \A k \in Nicknamed : GivenOut(tree[k].agent_nickname, resetCount, used)
NamesInv == NamesGiven /\ NicknamesDistinct

(* One text in two rounds is ambiguous.                                    *)
LEMMA TwoRounds ==
    ASSUME NEW m1 \in Names, NEW r1 \in 0 .. MaxResets,
           NEW m2 \in Names, NEW r2 \in 0 .. MaxResets,
           r1 # r2, Formatted[<<m1, r1>>] = Formatted[<<m2, r2>>]
    PROVE  Formatted[<<m1, r1>>] \in Ambiguous
  <1>1. <<m1, r1>> \in Rounds /\ <<m2, r2>> \in Rounds
    BY DEF Rounds
  <1>2. <<m2, r2>>[2] # <<m1, r1>>[2]
    OBVIOUS
  <1> QED BY <1>1, <1>2 DEF Ambiguous

(* Steps that give out no name and register nobody.                        *)
LEMMA NamesKept ==
    ASSUME NamesInv, kinds' = kinds, resetCount' = resetCount, used' = used,
           \A s \in Named' : s \in Named /\ nick'[s] = nick[s],
           \A k \in Nicknamed' : k \in Nicknamed /\ tree'[k] = tree[k]
    PROVE  NamesInv'
  <1>1. NamesGiven'
    BY DEF NamesInv, NamesGiven
  <1>2. NicknamesDistinct'
    BY DEF NamesInv, NicknamesDistinct
  <1> QED BY <1>1, <1>2 DEF NamesInv

(* A spawn that gets a name from the pool or after a reset of it: nobody   *)
(* has that name, unless another round could have given it too.            *)
LEMMA NameTaken ==
    ASSUME NamesInv, "resume" \notin kinds, kinds' = kinds, TypeOK,
           NEW s \in Spawners, NEW m \in Names, NEW n, s \notin Named,
           Named' = Named \cup {s}, nick' = [nick EXCEPT ![s] = n],
           Nicknamed' = Nicknamed, tree' = tree, resetCount' \in 0 .. MaxResets,
           n = Formatted[<<m, resetCount'>>], n \in used',
           \/ resetCount' = resetCount /\ used \subseteq used' /\ n \notin used
           \/ resetCount' = resetCount + 1
    PROVE  NamesInv'
  <1>1. nick'[s] = n /\ \A u \in Named : u # s /\ nick'[u] = nick[u]
    BY DEF TypeOK, Named
  <1>2. resetCount \in 0 .. MaxResets /\ MaxResets \in Nat
    BY RegistryAssumption DEF TypeOK
  <1>3. ASSUME NEW x, GivenOut(x, resetCount, used)
        PROVE  GivenOut(x, resetCount', used') /\ (x = n => n \in Ambiguous)
    <2>1. PICK m1 \in Names, r1 \in 0 .. MaxResets :
             x = Formatted[<<m1, r1>>] /\ r1 <= resetCount /\ (r1 = resetCount => x \in used)
      BY <1>3 DEF GivenOut
    <2>2. r1 <= resetCount' /\ (r1 = resetCount' => x \in used' /\ x # n)
      BY <1>2, <2>1
    <2>3. GivenOut(x, resetCount', used')
      BY <2>1, <2>2 DEF GivenOut
    <2>4. ASSUME x = n PROVE n \in Ambiguous
      <3>1. r1 # resetCount'
        BY <2>2, <2>4
      <3> QED BY <2>1, <2>4, <3>1, TwoRounds
    <2> QED BY <2>3, <2>4
  <1>4. GivenOut(n, resetCount', used')
    BY <1>2 DEF GivenOut
  <1>5. /\ \A u \in Named : /\ GivenOut(nick[u], resetCount', used')
                            /\ nick[u] = n => n \in Ambiguous
        /\ \A k \in Nicknamed : /\ GivenOut(tree[k].agent_nickname, resetCount', used')
                                /\ tree[k].agent_nickname = n => n \in Ambiguous
    BY <1>3 DEF NamesInv, NamesGiven
  <1>6. NamesGiven'
    <2>1. \A u \in Named' : GivenOut(nick'[u], resetCount', used')
      BY <1>1, <1>4, <1>5
    <2>2. \A k \in Nicknamed' : GivenOut(tree'[k].agent_nickname, resetCount', used')
      BY <1>5
    <2> QED BY <2>1, <2>2 DEF NamesGiven
  <1>7. NicknamesDistinct'
    BY <1>1, <1>5 DEF NamesInv, NicknamesDistinct
  <1> QED BY <1>6, <1>7 DEF NamesInv

LEMMA SpawnerNames ==
    ASSUME IndInv, NamesInv, "resume" \notin kinds, NEW s \in Spawners, SpawnerStep(s)
    PROVE  NamesInv'
  <1> USE RegistryAssumption
  <1>0. TypeOK /\ LocalsOK
    BY DEF IndInv
  <1>1. CASE \/ BeginSpawn(s) \/ FetchAdd(s) \/ LoadCount(s) \/ AgentLimitReached(s)
             \/ CompareExchange(s) \/ CompareExchangeFails(s) \/ DropCount(s)
             \/ NoNickname(s) \/ CreateThread(s) \/ CreateThreadFails(s)
             \/ FinalizeThreadSpawn(s)
    <2>1. UNCHANGED <<kinds, tree, used, resetCount>>
      BY <1>1 DEF BeginSpawn, FetchAdd, LoadCount, AgentLimitReached, CompareExchange,
         CompareExchangeFails, DropCount, NoNickname, CreateThread, CreateThreadFails,
         FinalizeThreadSpawn, regVars
    <2>2. \A u \in Named' : u \in Named /\ nick'[u] = nick[u]
      BY <1>0, <1>1 DEF TypeOK, Named, BeginSpawn, FetchAdd, LoadCount, AgentLimitReached,
         CompareExchange, CompareExchangeFails, DropCount, NoNickname, CreateThread,
         CreateThreadFails, FinalizeThreadSpawn
    <2>3. Nicknamed' = Nicknamed
      BY <2>1 DEF Registered, Nicknamed
    <2> QED BY <2>1, <2>2, <2>3, NamesKept
  <1>6. CASE DefaultMetadata(s)
    <2>1. UNCHANGED <<kinds, tree, used, resetCount, nick>> /\ nick[s] = None
      BY <1>0, <1>6 DEF DefaultMetadata, regVars, LocalsOK
    <2>2. \A u \in Named' : u \in Named /\ nick'[u] = nick[u]
      BY <1>0, <1>6, <2>1 DEF TypeOK, Named, DefaultMetadata
    <2>3. Nicknamed' = Nicknamed
      BY <2>1 DEF Registered, Nicknamed
    <2> QED BY <2>1, <2>2, <2>3, NamesKept
  <1>2. CASE RegisterRootThread(s) \/ ReserveAgentPath(s) \/ DropPath(s)
    <2>1. UNCHANGED <<kinds, used, resetCount>>
      BY <1>2 DEF RegisterRootThread, ReserveAgentPath, DropPath
    <2>2. \A u \in Named' : u \in Named /\ nick'[u] = nick[u]
      BY <1>0, <1>2 DEF TypeOK, Named, RegisterRootThread, ReserveAgentPath, DropPath
    <2>3. \A k \in Nicknamed' : k \in Nicknamed /\ tree'[k] = tree[k]
      BY <1>0, <1>2 DEF TypeOK, Registered, Nicknamed, RegisterRootThread, ReserveAgentPath, DropPath,
         ReservedEntry, Keys, AgentMetadata
    <2> QED BY <2>1, <2>2, <2>3, NamesKept
  <1>3. CASE BeginResume(s) \/ NicknamePreferred(s) \/ ResumeThread(s)
    BY <1>0, <1>3 DEF BeginResume, NicknamePreferred, ResumeThread, LocalsOK
  <1>4. CASE NicknameFromPool(s) \/ NicknamePoolReset(s)
    <2>1. kinds' = kinds /\ tree' = tree /\ s \notin Named
      BY <1>0, <1>4 DEF TypeOK, Named, NicknameFromPool, NicknamePoolReset
    <2>2. Nicknamed' = Nicknamed
      BY <2>1 DEF Registered, Nicknamed
    <2>3. PICK m \in Names :
             /\ nick' = [nick EXCEPT ![s] = Formatted[<<m, resetCount'>>]]
             /\ Formatted[<<m, resetCount'>>] \in used' /\ resetCount' \in 0 .. MaxResets
             /\ \/ /\ resetCount' = resetCount /\ used \subseteq used'
                   /\ Formatted[<<m, resetCount'>>] \notin used
                \/ resetCount' = resetCount + 1
      <3>1. CASE NicknameFromPool(s)
        <4>1. PICK names \in SUBSET Names : \E n \in Available(names) :
                 nick' = [nick EXCEPT ![s] = n] /\ used' = used \cup {n}
          BY <3>1 DEF NicknameFromPool
        <4>2. PICK n \in Available(names) :
                 nick' = [nick EXCEPT ![s] = n] /\ used' = used \cup {n}
          BY <4>1
        <4>3. PICK m \in names : n = Formatted[<<m, resetCount>>] /\ n \notin used
          BY <4>2 DEF Available
        <4>4. resetCount' = resetCount /\ resetCount \in 0 .. MaxResets
          BY <1>0, <3>1 DEF TypeOK, NicknameFromPool
        <4> QED BY <4>2, <4>3, <4>4
      <3>2. CASE NicknamePoolReset(s)
        <4>1. PICK m \in Names : /\ nick' = [nick EXCEPT ![s] = Formatted[<<m, resetCount + 1>>]]
                                 /\ used' = {Formatted[<<m, resetCount + 1>>]}
          BY <3>2 DEF NicknamePoolReset
        <4>2. resetCount' = resetCount + 1 /\ resetCount + 1 \in 0 .. MaxResets
          BY <1>0, <3>2 DEF TypeOK, NicknamePoolReset
        <4> QED BY <4>1, <4>2
      <3> QED BY <1>4, <3>1, <3>2
    <2> DEFINE n == Formatted[<<m, resetCount'>>]
    <2>4. n # None
      BY <2>3, FormattedNames
    <2>5. Named' = Named \cup {s}
      <3>1. /\ pc' = [pc EXCEPT ![s] = "create"] /\ nick' = [nick EXCEPT ![s] = n]
        BY <1>4, <2>3 DEF NicknameFromPool, NicknamePoolReset
      <3> HIDE DEF n
      <3> QED BY <1>0, <2>1, <2>4, <3>1 DEF TypeOK, Named
    <2>6. n = Formatted[<<m, resetCount'>>]
      OBVIOUS
    <2> HIDE DEF n
    <2> QED BY <1>0, <2>1, <2>2, <2>3, <2>5, <2>6, NameTaken
  <1>5. CASE Commit(s)
    <2> DEFINE k == KeyOf(path[s], thr[s])
    <2>1. /\ nick[s] # None => s \in Named
          /\ Named' = Named \ {s} /\ \A u \in Named' : nick'[u] = nick[u]
          /\ kinds' = kinds /\ resetCount' = resetCount /\ used \subseteq used'
      BY <1>0, <1>5 DEF TypeOK, Named, Commit
    <2>2. k \in Keys
      BY <1>0, <1>5 DEF TypeOK, LocalsOK, Commit, KeyOf, Keys
    <2>3. /\ tree'[k].agent_nickname = nick[s]
          /\ \A j \in Keys : j # k => tree'[j] = tree[j]
      BY <1>0, <1>5, <2>2 DEF TypeOK, Commit
    <2> HIDE DEF k
    <2>4. \A j \in Nicknamed' :
             \/ j = k /\ s \in Named
             \/ j # k /\ j \in Nicknamed /\ tree'[j] = tree[j]
      <3> TAKE j \in Nicknamed'
      <3>1. /\ j \in Keys /\ tree'[j] # None /\ tree'[j].agent_id # None
            /\ tree'[j].agent_path # Root /\ tree'[j].agent_nickname # None
        BY DEF Registered, Nicknamed
      <3>2. j = k => s \in Named
        BY <2>1, <2>3, <3>1
      <3>3. j # k => j \in Nicknamed /\ tree'[j] = tree[j]
        BY <2>3, <3>1 DEF Registered, Nicknamed
      <3> QED BY <3>2, <3>3
    <2>5. \A x : GivenOut(x, resetCount, used) => GivenOut(x, resetCount', used')
      BY <2>1 DEF GivenOut
    <2>6. NamesGiven'
      <3>1. \A u \in Named' : GivenOut(nick'[u], resetCount', used')
        BY <2>1, <2>5 DEF NamesInv, NamesGiven
      <3>2. \A j \in Nicknamed' : GivenOut(tree'[j].agent_nickname, resetCount', used')
        BY <2>1, <2>3, <2>4, <2>5 DEF NamesInv, NamesGiven
      <3> QED BY <3>1, <3>2 DEF NamesGiven
    <2>7. NicknamesDistinct'
      BY <2>1, <2>3, <2>4 DEF NamesInv, NicknamesDistinct
    <2> QED BY <2>6, <2>7 DEF NamesInv
  <1> QED BY <1>1, <1>2, <1>3, <1>4, <1>5, <1>6 DEF SpawnerStep

LEMMA ReleaserNames ==
    ASSUME IndInv, NamesInv, NEW r \in Releasers, ReleaserStep(r)
    PROVE  NamesInv'
  <1>0. TypeOK
    BY DEF IndInv
  <1>1. UNCHANGED <<kinds, used, resetCount, nick, pc>>
    BY DEF ReleaserStep, RemoveThread, ReleaseEntry, ReleaseCount, regVars, spVars
  <1>2. Named' = Named
    BY <1>1 DEF Named
  <1>3. \A k \in Nicknamed' : k \in Nicknamed /\ tree'[k] = tree[k]
    BY <1>0 DEF TypeOK, Registered, Nicknamed, ReleaserStep, RemoveThread, ReleaseEntry, ReleaseCount,
       KeysOf, regVars
  <1> QED BY <1>1, <1>2, <1>3, NamesKept

(* In a tree that resumes no agent, two open agents or spawns under way    *)
(* have one nickname only if that text is one that two rounds of the pool  *)
(* can both produce; with the built-in names none is, so no name is shared *)
(* across any number of resets of the pool.                                *)
THEOREM NicknamesNeverShared == Spec => []NicknamesDistinct
  <1>1. Init => NamesInv
    BY DEF Init, NamesInv, NamesGiven, NicknamesDistinct, Named, Nicknamed, Registered
  <1>2. IndInv /\ NamesInv /\ [Next]_vars => NamesInv'
    <2> SUFFICES ASSUME IndInv, NamesInv, [Next]_vars PROVE NamesInv'
      OBVIOUS
    <2>k. kinds' = kinds
      BY KindsFixed
    <2>1. CASE "resume" \in kinds
      BY <2>1, <2>k DEF NamesInv, NamesGiven, NicknamesDistinct
    <2>2. CASE UNCHANGED vars
      BY <2>2 DEF vars, regVars, spVars, NamesInv, NamesGiven, NicknamesDistinct, GivenOut,
         Named, Nicknamed, Registered
    <2>3. ASSUME "resume" \notin kinds, NEW s \in Spawners, SpawnerStep(s) PROVE NamesInv'
      BY <2>3, SpawnerNames
    <2>4. ASSUME NEW r \in Releasers, ReleaserStep(r) PROVE NamesInv'
      BY <2>4, ReleaserNames
    <2> QED BY <2>1, <2>2, <2>3, <2>4 DEF Next, SpawnerStep, ReleaserStep
  <1>3. NamesInv => NicknamesDistinct
    BY DEF NamesInv
  <1> QED
    BY <1>1, <1>2, <1>3, RegistryInvariant, PTL DEF Spec
=============================================================================
