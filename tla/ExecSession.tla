---------------------------- MODULE ExecSession -----------------------------
(***************************************************************************)
(* Sessions of the exec server (exec-server/src/server/session_registry.rs, *)
(* handler.rs, processor.rs and the process map of local_process.rs).      *)
(*                                                                         *)
(* A client connects, initializes a new session or resumes one that lost   *)
(* its connection, and starts processes in it.  When a connection goes     *)
(* away its session is detached and lives on for DETACHED_SESSION_TTL; the *)
(* task that expires it, the next client that asks for it and the rest of  *)
(* the detach itself race each other.                                      *)
(*                                                                         *)
(* Time is abstract: ttl[c] says whether the time to live that began with  *)
(* the detach of connection c has passed.  A connection serves one request *)
(* at a time, and the request is dropped where it stands when the          *)
(* connection goes away.  A resume that is refused changes nothing and is  *)
(* no action; process/terminate only makes the process end, which it may   *)
(* do at any time.                                                         *)
(***************************************************************************)
EXTENDS Integers

CONSTANTS
    Conns,     \* connections; ConnectionId is given at the attach
    Sessions,  \* session ids
    Procs,     \* process ids a client may choose
    None

ASSUME ConnsAssumption == None \notin Conns
ASSUME SessionsAssumption == None \notin Sessions
ASSUME ProcsAssumption == None \notin Procs

VARIABLES
    listed,    \* "listed": in SessionRegistry.sessions; "gone": removed from it
    current,   \* AttachmentState.current_connection_id
    detached,  \* AttachmentState.detached_connection_id
    sender,    \* LocalProcess's notification sender, as the connection it sends to
    procs,     \* the process map of a session's LocalProcess
    conn,      \* run_connection: place, session and process of the request
    init,      \* ExecServerHandler.initialized
    ttl,       \* "running" from the connection's detach, then "elapsed"
    timer      \* the task expire_if_detached that the detach spawned

vars == <<listed, current, detached, sender, procs, conn, init, ttl, timer>>
entry == <<current, detached, sender>>

TypeOK ==
    /\ listed \in [Sessions -> {"unused", "listed", "gone"}]
    /\ current \in [Sessions -> Conns \cup {None}]
    /\ detached \in [Sessions -> Conns \cup {None}]
    /\ sender \in [Sessions -> Conns \cup {None}]
    /\ procs \in [Sessions -> [Procs -> {"none", "starting", "running", "closed"}]]
    /\ conn \in [Conns -> [pc : {"new", "expiring", "open", "spawning", "detach",
                                 "unsend", "dropped", "over"},
                           sess : Sessions \cup {None}, proc : Procs \cup {None}]]
    /\ init \in [Conns -> BOOLEAN]
    /\ ttl \in [Conns -> {"unset", "running", "elapsed"}]
    /\ timer \in [Conns -> {"none", "sleeping", "shutting", "done"}]
    /\ \A c \in Conns : conn[c].pc \in {"expiring", "open", "spawning", "detach",
                                         "unsend", "dropped"}
                           => conn[c].sess # None
    /\ \A c \in Conns : conn[c].pc = "spawning" => conn[c].proc # None
    /\ \A c \in Conns : timer[c] # "none" => conn[c].sess # None

NoProcs == [p \in Procs |-> "none"]
Fresh == [pc |-> "new", sess |-> None, proc |-> None]

Init ==
    /\ listed = [s \in Sessions |-> "unused"]
    /\ current = [s \in Sessions |-> None]
    /\ detached = [s \in Sessions |-> None]
    /\ sender = [s \in Sessions |-> None]
    /\ procs = [s \in Sessions |-> NoProcs]
    /\ conn = [c \in Conns |-> Fresh]
    /\ init = [c \in Conns |-> FALSE]
    /\ ttl = [c \in Conns |-> "unset"]
    /\ timer = [c \in Conns |-> "none"]

At(c, pc) == conn[c].pc = pc
Goto(c, pc) == conn' = [conn EXCEPT ![c].pc = pc]
Sess(c) == conn[c].sess

(***************************************************************************)
(* initialize: SessionRegistry::attach, under the lock of the registry.    *)
(***************************************************************************)
Attach(c, s) ==
    /\ sender' = [sender EXCEPT ![s] = c]
    /\ current' = [current EXCEPT ![s] = c]
    /\ detached' = [detached EXCEPT ![s] = None]
    /\ conn' = [conn EXCEPT ![c] = [pc |-> "open", sess |-> s, proc |-> None]]

NewSession(c) ==
    /\ At(c, "new")
    /\ \E s \in Sessions :
          /\ listed[s] = "unused"
          /\ listed' = [listed EXCEPT ![s] = "listed"]
          /\ Attach(c, s)
    /\ UNCHANGED <<procs, init, ttl, timer>>

IsExpired(s) == detached[s] # None /\ ttl[detached[s]] = "elapsed"

\* Slip: a session that has a connection is given to another one.
ResumeTakesOver(c, s) ==
    /\ At(c, "new") /\ listed[s] = "listed" /\ ~IsExpired(s)
    /\ Attach(c, s)
    /\ UNCHANGED <<listed, procs, init, ttl, timer>>

Resume(c, s) ==
    /\ At(c, "new") /\ listed[s] = "listed" /\ ~IsExpired(s)
    /\ current[s] = None
    /\ Attach(c, s)
    /\ UNCHANGED <<listed, procs, init, ttl, timer>>

\* The session has expired: it is removed, its processes are shut down and
\* the client is told that the id is unknown.
ResumeExpired(c, s) ==
    /\ At(c, "new") /\ listed[s] = "listed" /\ IsExpired(s)
    /\ listed' = [listed EXCEPT ![s] = "gone"]
    /\ conn' = [conn EXCEPT ![c] = [pc |-> "expiring", sess |-> s, proc |-> None]]
    /\ UNCHANGED <<entry, procs, init, ttl, timer>>

\* LocalProcess::shutdown: the map is drained and what runs is terminated.
Shutdown(s) == procs' = [procs EXCEPT ![s] = NoProcs]

\* Slip: the handler keeps the session that it could not resume as its own.
ShutdownExpiredKept(c) ==
    /\ At(c, "expiring")
    /\ Shutdown(Sess(c))
    /\ conn' = [conn EXCEPT ![c].pc = "open", ![c].sess = None]
    /\ UNCHANGED <<listed, entry, init, ttl, timer>>

ShutdownExpired(c) ==
    /\ At(c, "expiring")
    /\ Shutdown(Sess(c))
    /\ conn' = [conn EXCEPT ![c] = Fresh]
    /\ UNCHANGED <<listed, entry, init, ttl, timer>>

Initialized(c) ==
    /\ At(c, "open") /\ current[Sess(c)] = c /\ ~init[c]
    /\ init' = [init EXCEPT ![c] = TRUE]
    /\ UNCHANGED <<listed, entry, procs, conn, ttl, timer>>

(***************************************************************************)
(* process/start: the entry is reserved, the child spawned without a lock, *)
(* and the entry filled in.  Afterwards the process ends by itself, is     *)
(* kept for EXITED_PROCESS_RETENTION, and leaves the map.                  *)
(***************************************************************************)
StartProcess(c, p) ==
    /\ At(c, "open") /\ init[c] /\ current[Sess(c)] = c
    /\ procs[Sess(c)][p] = "none"
    /\ procs' = [procs EXCEPT ![Sess(c)][p] = "starting"]
    /\ conn' = [conn EXCEPT ![c].pc = "spawning", ![c].proc = p]
    /\ UNCHANGED <<listed, entry, init, ttl, timer>>

Spawned(c) ==
    /\ At(c, "spawning")
    /\ procs' = [procs EXCEPT ![Sess(c)][conn[c].proc] = "running"]
    /\ Goto(c, "open")
    /\ UNCHANGED <<listed, entry, init, ttl, timer>>

SpawnFails(c) ==
    /\ At(c, "spawning")
    /\ procs' = IF procs[Sess(c)][conn[c].proc] = "starting"
                THEN [procs EXCEPT ![Sess(c)][conn[c].proc] = "none"] ELSE procs
    /\ Goto(c, "open")
    /\ UNCHANGED <<listed, entry, init, ttl, timer>>

ProcessEnds(s, p) ==
    /\ procs[s][p] = "running"
    /\ procs' = [procs EXCEPT ![s][p] = "closed"]
    /\ UNCHANGED <<listed, entry, conn, init, ttl, timer>>

RetentionEnds(s, p) ==
    /\ procs[s][p] = "closed"
    /\ procs' = [procs EXCEPT ![s][p] = "none"]
    /\ UNCHANGED <<listed, entry, conn, init, ttl, timer>>

(***************************************************************************)
(* The connection goes away: run_connection leaves its loop, and drops the *)
(* request it is serving; then it shuts the handler down, which detaches   *)
(* the session.                                                            *)
(***************************************************************************)
Disconnect(c) ==
    /\ \/ At(c, "new") /\ Goto(c, "over")
       \/ conn[c].pc \in {"open", "spawning"} /\ Goto(c, "detach")
       \/ At(c, "expiring") /\ Goto(c, "dropped")
    /\ UNCHANGED <<listed, entry, procs, init, ttl, timer>>

\* SessionEntry::detach; false when another connection has the session.
Detach(c) ==
    /\ At(c, "detach")
    /\ IF current[Sess(c)] = c
       THEN /\ current' = [current EXCEPT ![Sess(c)] = None]
            /\ detached' = [detached EXCEPT ![Sess(c)] = c]
            /\ ttl' = [ttl EXCEPT ![c] = "running"]
            /\ Goto(c, "unsend")
       ELSE Goto(c, "over") /\ UNCHANGED <<current, detached, ttl>>
    /\ UNCHANGED <<listed, sender, procs, init, timer>>

\* Slip: the sender of the lost connection stays.
UnsendMissing(c) ==
    /\ At(c, "unsend")
    /\ timer' = [timer EXCEPT ![c] = "sleeping"]
    /\ Goto(c, "over")
    /\ UNCHANGED <<listed, entry, procs, init, ttl>>

\* Slip: nobody is told to expire the session.
UnsendNoTimer(c) ==
    /\ At(c, "unsend")
    /\ sender' = [sender EXCEPT ![Sess(c)] = None]
    /\ Goto(c, "over")
    /\ UNCHANGED <<listed, current, detached, procs, init, ttl, timer>>

\* SessionHandle::detach after SessionEntry::detach.
Unsend(c) ==
    /\ At(c, "unsend")
    /\ sender' = [sender EXCEPT ![Sess(c)] = None]
    /\ timer' = [timer EXCEPT ![c] = "sleeping"]
    /\ Goto(c, "over")
    /\ UNCHANGED <<listed, current, detached, procs, init, ttl>>

(***************************************************************************)
(* expire_if_detached.  The deadline of the entry is set before the task   *)
(* that sleeps is spawned, so it has passed when the task wakes up.        *)
(***************************************************************************)
TtlElapses(c) ==
    /\ ttl[c] = "running"
    /\ ttl' = [ttl EXCEPT ![c] = "elapsed"]
    /\ UNCHANGED <<listed, entry, procs, conn, init, timer>>

DetachedConnectionExpired(s, c) == current[s] = None /\ detached[s] = c /\ IsExpired(s)

Expire(c, s, expired, then) ==
    /\ timer[c] = "sleeping" /\ ttl[c] = "elapsed"
    /\ IF listed[s] = "listed" /\ expired
       THEN listed' = [listed EXCEPT ![s] = "gone"] /\ timer' = [timer EXCEPT ![c] = then]
       ELSE timer' = [timer EXCEPT ![c] = "done"] /\ UNCHANGED listed
    /\ UNCHANGED <<entry, procs, conn, init, ttl>>

\* Slip: any detached session is expired, whoever was detached last.
ExpireIfDetachedAny(c) == Expire(c, Sess(c), current[Sess(c)] = None, "shutting")

\* Slip: the session is removed and its processes are left running.
ExpireIfDetachedOnly(c) ==
    Expire(c, Sess(c), DetachedConnectionExpired(Sess(c), c), "done")

ExpireIfDetached(c) ==
    Expire(c, Sess(c), DetachedConnectionExpired(Sess(c), c), "shutting")

ExpireShutdown(c) ==
    /\ timer[c] = "shutting"
    /\ Shutdown(Sess(c))
    /\ timer' = [timer EXCEPT ![c] = "done"]
    /\ UNCHANGED <<listed, entry, conn, init, ttl>>

Next ==
    \/ \E c \in Conns :
          \/ NewSession(c) \/ ShutdownExpired(c) \/ Initialized(c)
          \/ Spawned(c) \/ SpawnFails(c)
          \/ Disconnect(c) \/ Detach(c) \/ Unsend(c)
          \/ TtlElapses(c) \/ ExpireIfDetached(c) \/ ExpireShutdown(c)
    \/ \E c \in Conns, s \in Sessions : Resume(c, s) \/ ResumeExpired(c, s)
    \/ \E c \in Conns, p \in Procs : StartProcess(c, p)
    \/ \E s \in Sessions, p \in Procs : ProcessEnds(s, p) \/ RetentionEnds(s, p)

Spec == Init /\ [][Next]_vars

\* Time passes, and the runtime polls the tasks of the server.
Fairness ==
    \A c \in Conns : /\ WF_vars(Detach(c)) /\ WF_vars(Unsend(c))
                     /\ WF_vars(ShutdownExpired(c))
                     /\ WF_vars(TtlElapses(c))
                     /\ WF_vars(ExpireIfDetached(c)) /\ WF_vars(ExpireShutdown(c))
FairSpec == Spec /\ Fairness

-----------------------------------------------------------------------------
Serving == {"open", "spawning", "detach"}

(* A session has one connection at most: two that are served, or whose     *)
(* detach is still to come, never share the processes of a session.        *)
OneOwner ==
    \A c, d \in Conns :
       conn[c].pc \in Serving /\ conn[d].pc \in Serving /\ Sess(c) = Sess(d) => c = d

(* A session is removed only when it has no connection and its whole time  *)
(* to live has passed since the last detach, whichever of the timers of    *)
(* earlier detaches fires; a connection that is served has a session that  *)
(* is there.                                                               *)
ExpiryFenced ==
    /\ \A s \in Sessions : listed[s] = "gone" => current[s] = None /\ IsExpired(s)
    /\ \A c \in Conns : conn[c].pc \in Serving =>
          listed[Sess(c)] = "listed" /\ current[Sess(c)] = c

(* Notifications of a session go to its connection or to nobody; for the   *)
(* moment between the two halves of a detach, to the one that is leaving.  *)
NotificationsPrivate ==
    \A s \in Sessions : sender[s] # None =>
       \/ sender[s] = current[s]
       \/ At(sender[s], "unsend") /\ Sess(sender[s]) = s

Dying(s) ==
    \/ \E c \in Conns : timer[c] = "shutting" /\ Sess(c) = s
    \/ \E c \in Conns : At(c, "expiring") /\ Sess(c) = s
Abandoned(s) == \E c \in Conns : At(c, "dropped") /\ Sess(c) = s

(* A removed session has no processes, none that was starting either,      *)
(* unless a task is about to shut them down; or the client that found the  *)
(* session expired was lost before it had done so.                         *)
GoneIsQuiet ==
    \A s \in Sessions : listed[s] = "gone" =>
       procs[s] = NoProcs \/ Dying(s) \/ Abandoned(s)

(* A session that lost its connection does not stay for ever: it is        *)
(* resumed or removed.                                                     *)
DetachedSettles ==
    \A s \in Sessions : (listed[s] = "listed" /\ current[s] = None)
                         ~> (listed[s] = "gone" \/ current[s] # None)
=============================================================================
