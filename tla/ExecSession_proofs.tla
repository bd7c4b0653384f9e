------------------------- MODULE ExecSession_proofs -------------------------
(***************************************************************************)
(* Proofs about the sessions of the exec server, for any connections,      *)
(* sessions and processes.                                                 *)
(***************************************************************************)
EXTENDS ExecSession, TLAPS

(* The connection a session is attached to is one that is served, and the  *)
(* session is not at the same time detached.                               *)
Held ==
    \A s \in Sessions : current[s] # None =>
       /\ conn[current[s]].pc \in Serving /\ Sess(current[s]) = s
       /\ detached[s] = None

(* The timer of a detach runs when its connection is over, so the session  *)
(* it was spawned for stays the one it looks at.                           *)
TimersOver == \A c \in Conns : timer[c] # "none" => At(c, "over")

(* The time to live of a connection begins with its one detach.            *)
DetachOnce == \A c \in Conns : ttl[c] # "unset" => conn[c].pc \in {"unsend", "over"}

SessionInv ==
    /\ TypeOK
    /\ DetachOnce
    /\ Held
    /\ ExpiryFenced
    /\ NotificationsPrivate
    /\ TimersOver
    /\ GoneIsQuiet

LEMMA SessionInit == Init => SessionInv
  BY ConnsAssumption, SessionsAssumption, ProcsAssumption
     DEF Init, SessionInv, TypeOK, Held, ExpiryFenced, NotificationsPrivate, TimersOver,
         DetachOnce, GoneIsQuiet, Fresh, NoProcs, Serving, At, Sess

(* Who still has to look after the processes of a removed session, or has  *)
(* been lost while it had to.                                              *)
Ender(c, s) ==
    /\ timer[c] = "shutting" \/ conn[c].pc \in {"expiring", "dropped"}
    /\ conn[c].sess = s

LEMMA EnderEnds ==
  ASSUME NEW s \in Sessions
  PROVE  (Dying(s) \/ Abandoned(s)) <=> \E c \in Conns : Ender(c, s)
  BY DEF Dying, Abandoned, Ender, At, Sess

(* A session that was gone stays quiet in a step that leaves its processes *)
(* and those who look after them alone.                                    *)
LEMMA StaysQuiet ==
  ASSUME GoneIsQuiet, NEW r \in Sessions, listed[r] = "gone", procs'[r] = procs[r],
         \A e \in Conns : Ender(e, r) => Ender(e, r)'
  PROVE  procs'[r] = NoProcs \/ Dying(r)' \/ Abandoned(r)'
  <1>1. CASE procs[r] = NoProcs
    BY <1>1
  <1>2. CASE \E e \in Conns : Ender(e, r)
    <2>1. \E e \in Conns : Ender(e, r)'
      BY <1>2
    <2> QED
      BY <2>1 DEF Dying, Abandoned, Ender, At, Sess
  <1> QED
    BY <1>1, <1>2, EnderEnds DEF GoneIsQuiet

Places == {"new", "expiring", "open", "spawning", "detach", "unsend", "dropped", "over"}

LEMMA GotoMoves ==
  ASSUME TypeOK, NEW c \in Conns, NEW pc \in Places, Goto(c, pc)
  PROVE  /\ conn' \in [Conns -> [pc : Places, sess : Sessions \cup {None},
                                  proc : Procs \cup {None}]]
         /\ conn'[c].pc = pc
         /\ \A d \in Conns : /\ conn'[d].sess = conn[d].sess
                             /\ conn'[d].proc = conn[d].proc
                             /\ d # c => conn'[d] = conn[d]
  <1>1. conn \in [Conns -> [pc : Places, sess : Sessions \cup {None}, proc : Procs \cup {None}]]
    BY DEF TypeOK, Places
  <1>2. conn' = [conn EXCEPT ![c] = [conn[c] EXCEPT !.pc = pc]]
    BY DEF Goto
  <1>3. /\ [conn[c] EXCEPT !.pc = pc] \in [pc : Places, sess : Sessions \cup {None},
                                           proc : Procs \cup {None}]
        /\ [conn[c] EXCEPT !.pc = pc].sess = conn[c].sess
        /\ [conn[c] EXCEPT !.pc = pc].proc = conn[c].proc
        /\ [conn[c] EXCEPT !.pc = pc].pc = pc
    BY <1>1
  <1> QED
    BY <1>1, <1>2, <1>3

(* Each action keeps the invariant.                                        *)
LEMMA NewSessionKeepsInv ==
  ASSUME SessionInv, NEW c \in Conns, NewSession(c)
  PROVE  SessionInv'
  <1> USE ConnsAssumption, SessionsAssumption, ProcsAssumption
          DEF SessionInv, At, Sess, Serving
  <1>1. TypeOK'
    BY DEF TypeOK, NoProcs, NewSession, Attach, entry
  <1>2. Held'
    BY DEF TypeOK, Held, ExpiryFenced, NewSession, Attach, entry
  <1>3. ExpiryFenced'
    BY DEF TypeOK, Held, ExpiryFenced, NewSession, Attach, entry, IsExpired
  <1>4. NotificationsPrivate'
    BY DEF TypeOK, Held, ExpiryFenced, NotificationsPrivate, NewSession, Attach, entry
  <1>5. TimersOver'
    BY DEF TypeOK, TimersOver, NewSession, Attach, entry
  <1>6. GoneIsQuiet'
    <2> SUFFICES ASSUME NEW r \in Sessions, listed'[r] = "gone"
                 PROVE  procs'[r] = NoProcs \/ Dying(r)' \/ Abandoned(r)'
      BY DEF GoneIsQuiet, NoProcs
    <2>1. listed[r] = "gone" /\ procs'[r] = procs[r]
      BY DEF TypeOK, ExpiryFenced, NewSession, Attach
    <2>2. PICK s \in Sessions : Attach(c, s)
      BY DEF NewSession
    <2>3. \A e \in Conns : Ender(e, r) => Ender(e, r)'
      <3>1. \A e \in Conns : e # c => conn'[e] = conn[e]
        BY <2>2 DEF TypeOK, Attach
      <3>2. ~Ender(c, r)
        BY DEF TimersOver, Ender, NewSession
      <3> QED
        BY <3>1, <3>2 DEF Ender, NewSession
    <2> QED
      BY <2>1, <2>3, StaysQuiet
  <1>7. DetachOnce'
    BY DEF TypeOK, DetachOnce, NewSession, Attach, entry
  <1> QED
    BY <1>1, <1>2, <1>3, <1>4, <1>5, <1>6, <1>7

LEMMA ResumeKeepsInv ==
  ASSUME SessionInv, NEW c \in Conns, NEW s \in Sessions, Resume(c, s)
  PROVE  SessionInv'
  <1> USE ConnsAssumption, SessionsAssumption, ProcsAssumption
          DEF SessionInv, At, Sess, Serving
  <1>1. TypeOK'
    BY DEF TypeOK, NoProcs, Resume, Attach, IsExpired, entry
  <1>2. Held'
    BY DEF TypeOK, Held, ExpiryFenced, Resume, Attach, IsExpired, entry
  <1>3. ExpiryFenced'
    BY DEF TypeOK, Held, ExpiryFenced, Resume, Attach, IsExpired, entry
  <1>4. NotificationsPrivate'
    BY DEF TypeOK, Held, ExpiryFenced, NotificationsPrivate, Resume, Attach,
           IsExpired, entry
  <1>5. TimersOver'
    BY DEF TypeOK, TimersOver, Resume, Attach, IsExpired, entry
  <1>6. GoneIsQuiet'
    BY DEF TypeOK, ExpiryFenced, TimersOver, GoneIsQuiet, Dying, Abandoned, NoProcs,
           Resume, Attach, IsExpired, entry
  <1>7. DetachOnce'
    BY DEF TypeOK, DetachOnce, Resume, Attach, IsExpired, entry
  <1> QED
    BY <1>1, <1>2, <1>3, <1>4, <1>5, <1>6, <1>7

LEMMA ResumeExpiredKeepsInv ==
  ASSUME SessionInv, NEW c \in Conns, NEW s \in Sessions, ResumeExpired(c, s)
  PROVE  SessionInv'
  <1> USE ConnsAssumption, SessionsAssumption, ProcsAssumption
          DEF SessionInv, At, Sess, Serving
  <1>1. TypeOK'
    BY DEF TypeOK, NoProcs, ResumeExpired, IsExpired, entry
  <1>2. Held'
    BY DEF TypeOK, Held, ExpiryFenced, ResumeExpired, IsExpired, entry
  <1>3. ExpiryFenced'
    BY DEF TypeOK, Held, ExpiryFenced, ResumeExpired, IsExpired, entry
  <1>4. NotificationsPrivate'
    BY DEF TypeOK, Held, ExpiryFenced, NotificationsPrivate, ResumeExpired,
           IsExpired, entry
  <1>5. TimersOver'
    BY DEF TypeOK, TimersOver, ResumeExpired, IsExpired, entry
  <1>6. GoneIsQuiet'
    <2> SUFFICES ASSUME NEW r \in Sessions, listed'[r] = "gone"
                 PROVE  procs'[r] = NoProcs \/ Dying(r)' \/ Abandoned(r)'
      BY DEF GoneIsQuiet, NoProcs
    <2>1. CASE r = s
      <3>1. Ender(c, r)'
        BY <2>1 DEF TypeOK, Ender, ResumeExpired
      <3> QED
        BY <3>1 DEF Dying, Abandoned, Ender
    <2>2. CASE r # s
      <3>1. listed[r] = "gone" /\ procs'[r] = procs[r]
        BY <2>2 DEF TypeOK, ResumeExpired
      <3>2. \A e \in Conns : Ender(e, r) => Ender(e, r)'
        BY DEF TypeOK, TimersOver, Ender, ResumeExpired
      <3> QED
        BY <3>1, <3>2, StaysQuiet
    <2> QED
      BY <2>1, <2>2
  <1>7. DetachOnce'
    BY DEF TypeOK, DetachOnce, ResumeExpired, IsExpired, entry
  <1> QED
    BY <1>1, <1>2, <1>3, <1>4, <1>5, <1>6, <1>7

LEMMA ShutdownExpiredKeepsInv ==
  ASSUME SessionInv, NEW c \in Conns, ShutdownExpired(c)
  PROVE  SessionInv'
  <1> USE ConnsAssumption, SessionsAssumption, ProcsAssumption
          DEF SessionInv, At, Sess, Serving
  <1>1. TypeOK'
    <2>1. conn' \in [Conns -> [pc : Places, sess : Sessions \cup {None}, proc : Procs \cup {None}]]
      BY DEF TypeOK, Places, ShutdownExpired, Fresh
    <2>2. procs' \in [Sessions -> [Procs -> {"none", "starting", "running", "closed"}]]
      BY DEF TypeOK, NoProcs, ShutdownExpired, Shutdown
    <2>3. \A d \in Conns : conn'[d] = IF d = c THEN Fresh ELSE conn[d]
      BY DEF TypeOK, ShutdownExpired
    <2>4. timer[c] = "none"
      BY DEF TypeOK, TimersOver, ShutdownExpired
    <2> QED
      BY <2>1, <2>2, <2>3, <2>4 DEF TypeOK, Places, Fresh, ShutdownExpired, entry
  <1>2. Held'
    BY DEF TypeOK, Held, ExpiryFenced, ShutdownExpired, Shutdown, Fresh, entry
  <1>3. ExpiryFenced'
    BY DEF TypeOK, Held, ExpiryFenced, ShutdownExpired, Shutdown, Fresh, entry,
           IsExpired
  <1>4. NotificationsPrivate'
    BY DEF TypeOK, Held, ExpiryFenced, NotificationsPrivate, ShutdownExpired,
           Shutdown, Fresh, entry
  <1>5. TimersOver'
    BY DEF TypeOK, TimersOver, ShutdownExpired, Shutdown, Fresh, entry
  <1>6. GoneIsQuiet'
    <2> SUFFICES ASSUME NEW r \in Sessions, listed'[r] = "gone"
                 PROVE  procs'[r] = NoProcs \/ Dying(r)' \/ Abandoned(r)'
      BY DEF GoneIsQuiet, NoProcs
    <2>1. CASE r = Sess(c)
      BY <2>1 DEF TypeOK, ShutdownExpired, Shutdown
    <2>2. CASE r # Sess(c)
      <3>1. listed[r] = "gone" /\ procs'[r] = procs[r]
        BY <2>2 DEF TypeOK, ShutdownExpired, Shutdown
      <3>2. \A e \in Conns : Ender(e, r) => Ender(e, r)'
        BY <2>2 DEF TypeOK, TimersOver, Ender, ShutdownExpired, Fresh
      <3> QED
        BY <3>1, <3>2, StaysQuiet
    <2> QED
      BY <2>1, <2>2
  <1>7. DetachOnce'
    BY DEF TypeOK, DetachOnce, ShutdownExpired, Shutdown, Fresh, entry
  <1> QED
    BY <1>1, <1>2, <1>3, <1>4, <1>5, <1>6, <1>7

LEMMA InitializedKeepsInv ==
  ASSUME SessionInv, NEW c \in Conns, Initialized(c)
  PROVE  SessionInv'
  <1> USE ConnsAssumption, SessionsAssumption, ProcsAssumption
          DEF SessionInv, At, Sess, Serving
  <1>1. TypeOK'
    BY DEF TypeOK, NoProcs, Initialized, entry
  <1>2. Held'
    BY DEF TypeOK, Held, ExpiryFenced, Initialized, entry
  <1>3. ExpiryFenced'
    BY DEF TypeOK, Held, ExpiryFenced, Initialized, entry, IsExpired
  <1>4. NotificationsPrivate'
    BY DEF TypeOK, Held, ExpiryFenced, NotificationsPrivate, Initialized, entry
  <1>5. TimersOver'
    BY DEF TypeOK, TimersOver, Initialized, entry
  <1>6. GoneIsQuiet'
    BY DEF TypeOK, ExpiryFenced, TimersOver, GoneIsQuiet, Dying, Abandoned, NoProcs,
           Initialized, entry
  <1>7. DetachOnce'
    BY DEF TypeOK, DetachOnce, Initialized, entry
  <1> QED
    BY <1>1, <1>2, <1>3, <1>4, <1>5, <1>6, <1>7

LEMMA StartProcessKeepsInv ==
  ASSUME SessionInv, NEW c \in Conns, NEW p \in Procs, StartProcess(c, p)
  PROVE  SessionInv'
  <1> USE ConnsAssumption, SessionsAssumption, ProcsAssumption
          DEF SessionInv, At, Sess, Serving
  <1>1. TypeOK'
    <2>1. conn[c] \in [pc : Places, sess : Sessions \cup {None}, proc : Procs \cup {None}]
      BY DEF TypeOK, Places
    <2>2. conn' \in [Conns -> [pc : Places, sess : Sessions \cup {None}, proc : Procs \cup {None}]]
      BY <2>1 DEF TypeOK, Places, StartProcess
    <2>3. /\ conn'[c].pc = "spawning" /\ conn'[c].sess = conn[c].sess /\ conn'[c].proc = p
          /\ \A d \in Conns : d # c => conn'[d] = conn[d]
      BY <2>1 DEF TypeOK, StartProcess
    <2>4. procs' \in [Sessions -> [Procs -> {"none", "starting", "running", "closed"}]]
      BY DEF TypeOK, StartProcess
    <2> QED
      BY <2>2, <2>3, <2>4 DEF TypeOK, Places, StartProcess, entry
  <1>2. Held'
    BY DEF TypeOK, Held, ExpiryFenced, StartProcess, entry
  <1>3. ExpiryFenced'
    BY DEF TypeOK, Held, ExpiryFenced, StartProcess, entry, IsExpired
  <1>4. NotificationsPrivate'
    BY DEF TypeOK, Held, ExpiryFenced, NotificationsPrivate, StartProcess, entry
  <1>5. TimersOver'
    BY DEF TypeOK, TimersOver, StartProcess, entry
  <1>6. GoneIsQuiet'
    <2> SUFFICES ASSUME NEW r \in Sessions, listed'[r] = "gone"
                 PROVE  procs'[r] = NoProcs \/ Dying(r)' \/ Abandoned(r)'
      BY DEF GoneIsQuiet, NoProcs
    <2>1. listed[r] = "gone" /\ procs'[r] = procs[r]
      BY DEF TypeOK, ExpiryFenced, StartProcess, entry
    <2>2. \A e \in Conns : Ender(e, r) => Ender(e, r)'
      BY DEF TypeOK, TimersOver, Ender, StartProcess, entry
    <2> QED
      BY <2>1, <2>2, StaysQuiet
  <1>7. DetachOnce'
    BY DEF TypeOK, DetachOnce, StartProcess, entry
  <1> QED
    BY <1>1, <1>2, <1>3, <1>4, <1>5, <1>6, <1>7

LEMMA SpawnedKeepsInv ==
  ASSUME SessionInv, NEW c \in Conns, Spawned(c)
  PROVE  SessionInv'
  <1> USE ConnsAssumption, SessionsAssumption, ProcsAssumption
          DEF SessionInv, At, Sess, Serving
  <1>1. TypeOK'
    BY DEF TypeOK, NoProcs, Spawned, Goto, entry
  <1>2. Held'
    BY DEF TypeOK, Held, ExpiryFenced, Spawned, Goto, entry
  <1>3. ExpiryFenced'
    BY DEF TypeOK, Held, ExpiryFenced, Spawned, Goto, entry, IsExpired
  <1>4. NotificationsPrivate'
    BY DEF TypeOK, Held, ExpiryFenced, NotificationsPrivate, Spawned, Goto, entry
  <1>5. TimersOver'
    BY DEF TypeOK, TimersOver, Spawned, Goto, entry
  <1>6. GoneIsQuiet'
    <2> SUFFICES ASSUME NEW r \in Sessions, listed'[r] = "gone"
                 PROVE  procs'[r] = NoProcs \/ Dying(r)' \/ Abandoned(r)'
      BY DEF GoneIsQuiet, NoProcs
    <2>1. listed[r] = "gone" /\ procs'[r] = procs[r]
      BY DEF TypeOK, ExpiryFenced, Spawned, Goto, entry
    <2>2. \A e \in Conns : Ender(e, r) => Ender(e, r)'
      BY DEF TypeOK, TimersOver, Ender, Spawned, Goto, entry
    <2> QED
      BY <2>1, <2>2, StaysQuiet
  <1>7. DetachOnce'
    BY DEF TypeOK, DetachOnce, Spawned, Goto, entry
  <1> QED
    BY <1>1, <1>2, <1>3, <1>4, <1>5, <1>6, <1>7

LEMMA SpawnFailsKeepsInv ==
  ASSUME SessionInv, NEW c \in Conns, SpawnFails(c)
  PROVE  SessionInv'
  <1> USE ConnsAssumption, SessionsAssumption, ProcsAssumption
          DEF SessionInv, At, Sess, Serving
  <1>1. TypeOK'
    BY DEF TypeOK, NoProcs, SpawnFails, Goto, entry
  <1>2. Held'
    BY DEF TypeOK, Held, ExpiryFenced, SpawnFails, Goto, entry
  <1>3. ExpiryFenced'
    BY DEF TypeOK, Held, ExpiryFenced, SpawnFails, Goto, entry, IsExpired
  <1>4. NotificationsPrivate'
    BY DEF TypeOK, Held, ExpiryFenced, NotificationsPrivate, SpawnFails, Goto, entry
  <1>5. TimersOver'
    BY DEF TypeOK, TimersOver, SpawnFails, Goto, entry
  <1>6. GoneIsQuiet'
    <2> SUFFICES ASSUME NEW r \in Sessions, listed'[r] = "gone"
                 PROVE  procs'[r] = NoProcs \/ Dying(r)' \/ Abandoned(r)'
      BY DEF GoneIsQuiet, NoProcs
    <2>1. listed[r] = "gone" /\ procs'[r] = procs[r]
      BY DEF TypeOK, ExpiryFenced, SpawnFails, Goto, entry
    <2>2. \A e \in Conns : Ender(e, r) => Ender(e, r)'
      BY DEF TypeOK, TimersOver, Ender, SpawnFails, Goto, entry
    <2> QED
      BY <2>1, <2>2, StaysQuiet
  <1>7. DetachOnce'
    BY DEF TypeOK, DetachOnce, SpawnFails, Goto, entry
  <1> QED
    BY <1>1, <1>2, <1>3, <1>4, <1>5, <1>6, <1>7

LEMMA ProcessEndsKeepsInv ==
  ASSUME SessionInv, NEW s \in Sessions, NEW p \in Procs, ProcessEnds(s, p)
  PROVE  SessionInv'
  <1> USE ConnsAssumption, SessionsAssumption, ProcsAssumption
          DEF SessionInv, At, Sess, Serving
  <1>1. TypeOK'
    BY DEF TypeOK, NoProcs, ProcessEnds, entry
  <1>2. Held'
    BY DEF TypeOK, Held, ExpiryFenced, ProcessEnds, entry
  <1>3. ExpiryFenced'
    BY DEF TypeOK, Held, ExpiryFenced, ProcessEnds, entry, IsExpired
  <1>4. NotificationsPrivate'
    BY DEF TypeOK, Held, ExpiryFenced, NotificationsPrivate, ProcessEnds, entry
  <1>5. TimersOver'
    BY DEF TypeOK, TimersOver, ProcessEnds, entry
  <1>6. GoneIsQuiet'
    BY DEF TypeOK, ExpiryFenced, TimersOver, GoneIsQuiet, Dying, Abandoned, NoProcs,
           ProcessEnds, entry
  <1>7. DetachOnce'
    BY DEF TypeOK, DetachOnce, ProcessEnds, entry
  <1> QED
    BY <1>1, <1>2, <1>3, <1>4, <1>5, <1>6, <1>7

LEMMA RetentionEndsKeepsInv ==
  ASSUME SessionInv, NEW s \in Sessions, NEW p \in Procs, RetentionEnds(s, p)
  PROVE  SessionInv'
  <1> USE ConnsAssumption, SessionsAssumption, ProcsAssumption
          DEF SessionInv, At, Sess, Serving
  <1>1. TypeOK'
    BY DEF TypeOK, NoProcs, RetentionEnds, entry
  <1>2. Held'
    BY DEF TypeOK, Held, ExpiryFenced, RetentionEnds, entry
  <1>3. ExpiryFenced'
    BY DEF TypeOK, Held, ExpiryFenced, RetentionEnds, entry, IsExpired
  <1>4. NotificationsPrivate'
    BY DEF TypeOK, Held, ExpiryFenced, NotificationsPrivate, RetentionEnds, entry
  <1>5. TimersOver'
    BY DEF TypeOK, TimersOver, RetentionEnds, entry
  <1>6. GoneIsQuiet'
    BY DEF TypeOK, ExpiryFenced, TimersOver, GoneIsQuiet, Dying, Abandoned, NoProcs,
           RetentionEnds, entry
  <1>7. DetachOnce'
    BY DEF TypeOK, DetachOnce, RetentionEnds, entry
  <1> QED
    BY <1>1, <1>2, <1>3, <1>4, <1>5, <1>6, <1>7

LEMMA DisconnectKeepsInv ==
  ASSUME SessionInv, NEW c \in Conns, Disconnect(c)
  PROVE  SessionInv'
  <1> USE ConnsAssumption, SessionsAssumption, ProcsAssumption
          DEF SessionInv, At, Sess, Serving
  <1>0. \/ conn[c].pc = "new" /\ conn'[c].pc = "over"
        \/ conn[c].pc \in {"open", "spawning"} /\ conn'[c].pc = "detach"
        \/ conn[c].pc = "expiring" /\ conn'[c].pc = "dropped"
    BY GotoMoves DEF Disconnect, Places
  <1>t. conn' \in [Conns -> [pc : Places, sess : Sessions \cup {None},
                              proc : Procs \cup {None}]]
    BY GotoMoves DEF Disconnect, Places
  <1>m. /\ \A d \in Conns : conn'[d].sess = conn[d].sess /\ conn'[d].proc = conn[d].proc
        /\ \A d \in Conns : d # c => conn'[d].pc = conn[d].pc
    BY GotoMoves DEF Disconnect, Places
  <1>u. UNCHANGED <<listed, current, detached, sender, procs, init, ttl, timer>>
    BY DEF Disconnect, entry
  <1>1. TypeOK'
    <2>1. \A d \in Conns : /\ conn'[d].pc \in {"expiring", "open", "spawning",
                                                 "detach", "unsend", "dropped"}
                              => conn'[d].sess # None
                           /\ conn'[d].pc = "spawning" => conn'[d].proc # None
                           /\ timer[d] # "none" => conn'[d].sess # None
      <3>1. conn'[c].pc \in {"expiring", "open", "spawning", "detach", "unsend", "dropped"}
               => conn[c].pc \in {"open", "spawning", "expiring"}
        BY <1>0
      <3>2. conn'[c].pc # "spawning"
        BY <1>0
      <3> QED
        BY <1>m, <3>1, <3>2 DEF TypeOK
    <2> QED
      BY <1>t, <1>u, <2>1 DEF TypeOK, Places
  <1>2. Held'
    BY <1>0, <1>u, <1>m DEF TypeOK, Held
  <1>3. ExpiryFenced'
    BY <1>0, <1>u, <1>m DEF ExpiryFenced, IsExpired
  <1>4. NotificationsPrivate'
    BY <1>0, <1>u, <1>m DEF TypeOK, NotificationsPrivate
  <1>5. TimersOver'
    BY <1>0, <1>u, <1>m DEF TimersOver
  <1>6. GoneIsQuiet'
    <2> SUFFICES ASSUME NEW r \in Sessions, listed'[r] = "gone"
                 PROVE  procs'[r] = NoProcs \/ Dying(r)' \/ Abandoned(r)'
      BY DEF GoneIsQuiet, NoProcs
    <2>1. listed[r] = "gone" /\ procs'[r] = procs[r]
      BY <1>u
    <2>2. \A e \in Conns : Ender(e, r) => Ender(e, r)'
      BY <1>0, <1>u, <1>m DEF TimersOver, Ender
    <2> QED
      BY <2>1, <2>2, StaysQuiet
  <1>7. DetachOnce'
    BY <1>0, <1>u, <1>m DEF DetachOnce
  <1> QED
    BY <1>1, <1>2, <1>3, <1>4, <1>5, <1>6, <1>7

LEMMA DetachKeepsInv ==
  ASSUME SessionInv, NEW c \in Conns, Detach(c)
  PROVE  SessionInv'
  <1> USE ConnsAssumption, SessionsAssumption, ProcsAssumption
          DEF SessionInv, At, Sess, Serving
  <1>0. /\ conn[c].pc = "detach" /\ conn[c].sess \in Sessions
        /\ listed[Sess(c)] = "listed" /\ current[Sess(c)] = c
    BY DEF TypeOK, ExpiryFenced, Detach
  <1>u. /\ current' = [current EXCEPT ![Sess(c)] = None]
        /\ detached' = [detached EXCEPT ![Sess(c)] = c]
        /\ ttl' = [ttl EXCEPT ![c] = "running"]
        /\ Goto(c, "unsend")
        /\ UNCHANGED <<listed, sender, procs, init, timer>>
    BY <1>0 DEF Detach
  <1>t. conn' \in [Conns -> [pc : Places, sess : Sessions \cup {None},
                              proc : Procs \cup {None}]]
    BY <1>u, GotoMoves DEF Places
  <1>m. /\ conn'[c].pc = "unsend"
        /\ \A d \in Conns : conn'[d].sess = conn[d].sess /\ conn'[d].proc = conn[d].proc
        /\ \A d \in Conns : d # c => conn'[d].pc = conn[d].pc
    BY <1>u, GotoMoves DEF Places
  <1>1. TypeOK'
    <2>0. current' \in [Sessions -> Conns \cup {None}] /\ detached' \in [Sessions -> Conns \cup {None}]
          /\ ttl' \in [Conns -> {"unset", "running", "elapsed"}]
      BY <1>0, <1>u DEF TypeOK
    <2>1. \A d \in Conns : /\ conn'[d].pc \in {"expiring", "open", "spawning",
                                                 "detach", "unsend", "dropped"}
                              => conn'[d].sess # None
                           /\ conn'[d].pc = "spawning" => conn'[d].proc # None
                           /\ timer[d] # "none" => conn'[d].sess # None
      BY <1>0, <1>m DEF TypeOK
    <2> QED
      BY <1>t, <1>u, <2>0, <2>1 DEF TypeOK, Places
  <1>2. Held'
    BY <1>0, <1>u, <1>m DEF TypeOK, Held
  <1>3. ExpiryFenced'
    <2>1. \A s \in Sessions : s # Sess(c) =>
             current'[s] = current[s] /\ detached'[s] = detached[s]
      BY <1>0, <1>u DEF TypeOK
    <2>2. \A d \in Conns : d # c => ttl'[d] = ttl[d]
      BY <1>u DEF TypeOK
    <2>3. ttl[c] = "unset"
      BY <1>0 DEF TypeOK, DetachOnce
    <2> QED
      BY <1>0, <1>u, <1>m, <2>1, <2>2, <2>3 DEF ExpiryFenced, IsExpired
  <1>4. NotificationsPrivate'
    <2> SUFFICES ASSUME NEW s \in Sessions, sender[s] # None
                 PROVE  \/ sender[s] = current'[s]
                        \/ conn'[sender[s]].pc = "unsend" /\ conn'[sender[s]].sess = s
      BY <1>u DEF NotificationsPrivate
    <2>1. sender[s] \in Conns
      BY DEF TypeOK
    <2>2. CASE s = Sess(c)
      BY <1>0, <1>m, <2>1, <2>2 DEF NotificationsPrivate
    <2>3. CASE s # Sess(c)
      <3>1. current'[s] = current[s]
        BY <1>0, <1>u, <2>3 DEF TypeOK
      <3> QED
        BY <1>0, <1>m, <2>1, <3>1 DEF NotificationsPrivate
    <2> QED
      BY <2>2, <2>3
  <1>5. TimersOver'
    BY <1>0, <1>u, <1>m DEF TimersOver
  <1>6. GoneIsQuiet'
    <2> SUFFICES ASSUME NEW r \in Sessions, listed'[r] = "gone"
                 PROVE  procs'[r] = NoProcs \/ Dying(r)' \/ Abandoned(r)'
      BY DEF GoneIsQuiet, NoProcs
    <2>1. listed[r] = "gone" /\ procs'[r] = procs[r]
      BY <1>u
    <2>2. \A e \in Conns : Ender(e, r) => Ender(e, r)'
      BY <1>0, <1>u, <1>m DEF TimersOver, Ender
    <2> QED
      BY <2>1, <2>2, StaysQuiet
  <1>7. DetachOnce'
    BY <1>0, <1>u, <1>m DEF TypeOK, DetachOnce
  <1> QED
    BY <1>1, <1>2, <1>3, <1>4, <1>5, <1>6, <1>7

LEMMA UnsendKeepsInv ==
  ASSUME SessionInv, NEW c \in Conns, Unsend(c)
  PROVE  SessionInv'
  <1> USE ConnsAssumption, SessionsAssumption, ProcsAssumption
          DEF SessionInv, At, Sess, Serving
  <1>1. TypeOK'
    BY DEF TypeOK, NoProcs, Unsend, Goto, entry
  <1>2. Held'
    BY DEF TypeOK, Held, ExpiryFenced, Unsend, Goto, entry
  <1>3. ExpiryFenced'
    BY DEF TypeOK, Held, ExpiryFenced, Unsend, Goto, entry, IsExpired
  <1>4. NotificationsPrivate'
    BY DEF TypeOK, Held, ExpiryFenced, NotificationsPrivate, Unsend, Goto, entry
  <1>5. TimersOver'
    BY DEF TypeOK, TimersOver, Unsend, Goto, entry
  <1>6. GoneIsQuiet'
    BY DEF TypeOK, ExpiryFenced, TimersOver, GoneIsQuiet, Dying, Abandoned, NoProcs,
           Unsend, Goto, entry
  <1>7. DetachOnce'
    BY DEF TypeOK, DetachOnce, Unsend, Goto, entry
  <1> QED
    BY <1>1, <1>2, <1>3, <1>4, <1>5, <1>6, <1>7

LEMMA TtlElapsesKeepsInv ==
  ASSUME SessionInv, NEW c \in Conns, TtlElapses(c)
  PROVE  SessionInv'
  <1> USE ConnsAssumption, SessionsAssumption, ProcsAssumption
          DEF SessionInv, At, Sess, Serving
  <1>1. TypeOK'
    BY DEF TypeOK, NoProcs, TtlElapses, entry
  <1>2. Held'
    BY DEF TypeOK, Held, ExpiryFenced, TtlElapses, entry
  <1>3. ExpiryFenced'
    BY DEF TypeOK, Held, ExpiryFenced, TtlElapses, entry, IsExpired
  <1>4. NotificationsPrivate'
    BY DEF TypeOK, Held, ExpiryFenced, NotificationsPrivate, TtlElapses, entry
  <1>5. TimersOver'
    BY DEF TypeOK, TimersOver, TtlElapses, entry
  <1>6. GoneIsQuiet'
    BY DEF TypeOK, ExpiryFenced, TimersOver, GoneIsQuiet, Dying, Abandoned, NoProcs,
           TtlElapses, entry
  <1>7. DetachOnce'
    BY DEF TypeOK, DetachOnce, TtlElapses, entry
  <1> QED
    BY <1>1, <1>2, <1>3, <1>4, <1>5, <1>6, <1>7

LEMMA ExpireIfDetachedKeepsInv ==
  ASSUME SessionInv, NEW c \in Conns, ExpireIfDetached(c)
  PROVE  SessionInv'
  <1> USE ConnsAssumption, SessionsAssumption, ProcsAssumption
          DEF SessionInv, At, Sess, Serving
  <1>1. TypeOK'
    BY DEF TypeOK, NoProcs, ExpireIfDetached, Expire, DetachedConnectionExpired,
           IsExpired, entry
  <1>2. Held'
    BY DEF TypeOK, Held, ExpiryFenced, ExpireIfDetached, Expire,
           DetachedConnectionExpired, IsExpired, entry
  <1>3. ExpiryFenced'
    BY DEF TypeOK, Held, ExpiryFenced, ExpireIfDetached, Expire,
           DetachedConnectionExpired, IsExpired, entry
  <1>4. NotificationsPrivate'
    BY DEF TypeOK, Held, ExpiryFenced, NotificationsPrivate, ExpireIfDetached,
           Expire, DetachedConnectionExpired, IsExpired, entry
  <1>5. TimersOver'
    BY DEF TypeOK, TimersOver, ExpireIfDetached, Expire, DetachedConnectionExpired,
           IsExpired, entry
  <1>6. GoneIsQuiet'
    BY DEF TypeOK, ExpiryFenced, TimersOver, GoneIsQuiet, Dying, Abandoned, NoProcs,
           ExpireIfDetached, Expire, DetachedConnectionExpired, IsExpired, entry
  <1>7. DetachOnce'
    BY DEF TypeOK, DetachOnce, ExpireIfDetached, Expire, DetachedConnectionExpired,
           IsExpired, entry
  <1> QED
    BY <1>1, <1>2, <1>3, <1>4, <1>5, <1>6, <1>7

LEMMA ExpireShutdownKeepsInv ==
  ASSUME SessionInv, NEW c \in Conns, ExpireShutdown(c)
  PROVE  SessionInv'
  <1> USE ConnsAssumption, SessionsAssumption, ProcsAssumption
          DEF SessionInv, At, Sess, Serving
  <1>1. TypeOK'
    BY DEF TypeOK, NoProcs, ExpireShutdown, Shutdown, entry
  <1>2. Held'
    BY DEF TypeOK, Held, ExpiryFenced, ExpireShutdown, Shutdown, entry
  <1>3. ExpiryFenced'
    BY DEF TypeOK, Held, ExpiryFenced, ExpireShutdown, Shutdown, entry, IsExpired
  <1>4. NotificationsPrivate'
    BY DEF TypeOK, Held, ExpiryFenced, NotificationsPrivate, ExpireShutdown,
           Shutdown, entry
  <1>5. TimersOver'
    BY DEF TypeOK, TimersOver, ExpireShutdown, Shutdown, entry
  <1>6. GoneIsQuiet'
    <2> SUFFICES ASSUME NEW r \in Sessions, listed'[r] = "gone"
                 PROVE  procs'[r] = NoProcs \/ Dying(r)' \/ Abandoned(r)'
      BY DEF GoneIsQuiet, NoProcs
    <2>1. CASE r = Sess(c)
      BY <2>1 DEF TypeOK, ExpireShutdown, Shutdown
    <2>2. CASE r # Sess(c)
      <3>1. listed[r] = "gone" /\ procs'[r] = procs[r]
        BY <2>2 DEF TypeOK, ExpireShutdown, Shutdown
      <3>2. \A e \in Conns : Ender(e, r) => Ender(e, r)'
        BY <2>2 DEF TypeOK, TimersOver, Ender, ExpireShutdown
      <3> QED
        BY <3>1, <3>2, StaysQuiet
    <2> QED
      BY <2>1, <2>2
  <1>7. DetachOnce'
    BY DEF TypeOK, DetachOnce, ExpireShutdown, Shutdown, entry
  <1> QED
    BY <1>1, <1>2, <1>3, <1>4, <1>5, <1>6, <1>7

LEMMA NextKeepsInv == SessionInv /\ [Next]_vars => SessionInv'
  <1> SUFFICES ASSUME SessionInv, [Next]_vars PROVE SessionInv'
    OBVIOUS
  <1>1. CASE \E c \in Conns : NewSession(c)
    BY <1>1, NewSessionKeepsInv
  <1>2. CASE \E c \in Conns, s \in Sessions : Resume(c, s)
    BY <1>2, ResumeKeepsInv
  <1>3. CASE \E c \in Conns, s \in Sessions : ResumeExpired(c, s)
    BY <1>3, ResumeExpiredKeepsInv
  <1>4. CASE \E c \in Conns : ShutdownExpired(c)
    BY <1>4, ShutdownExpiredKeepsInv
  <1>5. CASE \E c \in Conns : Initialized(c)
    BY <1>5, InitializedKeepsInv
  <1>6. CASE \E c \in Conns, p \in Procs : StartProcess(c, p)
    BY <1>6, StartProcessKeepsInv
  <1>7. CASE \E c \in Conns : Spawned(c)
    BY <1>7, SpawnedKeepsInv
  <1>8. CASE \E c \in Conns : SpawnFails(c)
    BY <1>8, SpawnFailsKeepsInv
  <1>9. CASE \E s \in Sessions, p \in Procs : ProcessEnds(s, p)
    BY <1>9, ProcessEndsKeepsInv
  <1>10. CASE \E s \in Sessions, p \in Procs : RetentionEnds(s, p)
    BY <1>10, RetentionEndsKeepsInv
  <1>11. CASE \E c \in Conns : Disconnect(c)
    BY <1>11, DisconnectKeepsInv
  <1>12. CASE \E c \in Conns : Detach(c)
    BY <1>12, DetachKeepsInv
  <1>13. CASE \E c \in Conns : Unsend(c)
    BY <1>13, UnsendKeepsInv
  <1>14. CASE \E c \in Conns : TtlElapses(c)
    BY <1>14, TtlElapsesKeepsInv
  <1>15. CASE \E c \in Conns : ExpireIfDetached(c)
    BY <1>15, ExpireIfDetachedKeepsInv
  <1>16. CASE \E c \in Conns : ExpireShutdown(c)
    BY <1>16, ExpireShutdownKeepsInv
  <1>17. CASE UNCHANGED vars
    BY <1>17 DEF vars, SessionInv, TypeOK, Held, ExpiryFenced, NotificationsPrivate,
              TimersOver, DetachOnce, GoneIsQuiet, Dying, Abandoned, IsExpired, At, Sess
  <1> QED
    BY <1>1, <1>2, <1>3, <1>4, <1>5, <1>6, <1>7, <1>8, <1>9, <1>10, <1>11, <1>12,
       <1>13, <1>14, <1>15, <1>16, <1>17 DEF Next

(* For any number of connections and sessions, every behaviour keeps the   *)
(* invariant: who a session belongs to, whom it notifies, when it may be   *)
(* removed, and what is left of it then.                                   *)
THEOREM SessionInvariant == Spec => []SessionInv
  BY SessionInit, NextKeepsInv, PTL DEF Spec

(* No two connections are served with the same session.                    *)
THEOREM SessionsHaveOneOwner == Spec => []OneOwner
  <1>1. SessionInv => OneOwner
    BY DEF SessionInv, ExpiryFenced, OneOwner
  <1> QED
    BY <1>1, SessionInvariant, PTL

(* A timer of an earlier detach never removes a session that was resumed,  *)
(* or detached again since.                                                *)
THEOREM ExpiryIsFenced == Spec => []ExpiryFenced
  <1>1. SessionInv => ExpiryFenced
    BY DEF SessionInv
  <1> QED
    BY <1>1, SessionInvariant, PTL

(* No connection is notified about a session that it has given up.         *)
THEOREM NotificationsArePrivate == Spec => []NotificationsPrivate
  <1>1. SessionInv => NotificationsPrivate
    BY DEF SessionInv
  <1> QED
    BY <1>1, SessionInvariant, PTL

(* A removed session leaves no process behind that nobody will shut down,  *)
(* but for a resume that is dropped half way.                              *)
THEOREM GoneSessionsAreQuiet == Spec => []GoneIsQuiet
  <1>1. SessionInv => GoneIsQuiet
    BY DEF SessionInv
  <1> QED
    BY <1>1, SessionInvariant, PTL

(* Types.                                                                  *)
THEOREM SessionTypes == Spec => []TypeOK
  <1>1. SessionInv => TypeOK
    BY DEF SessionInv
  <1> QED
    BY <1>1, SessionInvariant, PTL
=============================================================================
