--------------------------- MODULE OpenVpnEngine ---------------------------
(***************************************************************************)
(* engines/openvpn.rs: the openvpn process and the task that talks to its  *)
(* management port.                                                        *)
(*                                                                         *)
(* start and stop share stop_internal; `at` is where the one that runs     *)
(* stands.  Deadlines are actions that may happen whenever their wait is   *)
(* on: the 50 attempts of connect_management, the 28 s of start, the 5 s   *)
(* of stop_internal, and CONNECT_TIMEOUT of the caller (CutOff).  The      *)
(* session's lines are those that change its status.                       *)
(***************************************************************************)

VARIABLES
    phase,    \* of the engine, as in EngineContract
    conf,     \* its configuration file: none, there, or stuck (a removal failed)
    owned,    \* profile_id is set
    cut,      \* as in EngineContract
    at,       \* idle, connect, wait, reap, join
    child,    \* who has the Child: none, start (a local), engine (the field),
              \* stop (a local), lost
    proc,     \* the process: none, running, dead
    session,  \* the task: none, running, done
    joinable, \* self.session is set
    told,     \* the stop watch: FALSE, then TRUE
    status,   \* the status watch: pending, connected, failed
    fresh     \* start has not seen the current status

own  == <<at, child, proc, session, joinable, told, status, fresh>>
vars == <<phase, conf, owned, cut, own>>

TypeOK ==
    /\ phase \in {"new", "starting", "up", "failed", "stopping", "gone"}
    /\ conf \in {"none", "there", "stuck"}
    /\ owned \in BOOLEAN /\ cut \in BOOLEAN
    /\ at \in {"idle", "connect", "wait", "reap", "join"}
    /\ child \in {"none", "start", "engine", "stop", "lost"}
    /\ proc \in {"none", "running", "dead"}
    /\ session \in {"none", "running", "done"}
    /\ joinable \in BOOLEAN /\ told \in BOOLEAN /\ fresh \in BOOLEAN
    /\ status \in {"pending", "connected", "failed"}
    \* a Child is a local only where start or stop waits with it
    /\ child = "start" <=> at = "connect"
    /\ child = "stop" <=> at = "reap"

OwnInit ==
    /\ at = "idle" /\ child = "none" /\ proc = "none" /\ session = "none"
    /\ joinable = FALSE /\ told = FALSE /\ status = "pending" /\ fresh = FALSE

Init == phase = "new" /\ conf = "none" /\ owned = FALSE /\ cut = FALSE /\ OwnInit

-----------------------------------------------------------------------------
(* start *)

\* An error before the process exists; after the write the file stays behind.
Refuse ==
    /\ phase = "new" /\ phase' = "failed"
    /\ conf' \in {"none", "there"}
    /\ UNCHANGED <<owned, cut, own>>

Begin ==
    /\ phase = "new" /\ phase' = "starting"
    /\ conf' = "there"
    /\ proc' = "running" /\ child' = "start"
    /\ at' = "connect"
    /\ UNCHANGED <<owned, cut, session, joinable, told, status, fresh>>

\* The port never answered: kill, remove the file; both results are ignored.
ManagementRefuses ==
    /\ at = "connect"
    /\ proc' = "dead" /\ child' = "none" /\ at' = "idle"
    /\ conf' \in {"none", "stuck"}
    /\ phase' = "failed"
    /\ UNCHANGED <<owned, cut, session, joinable, told, status, fresh>>

\* The session is spawned and everything goes into the fields.
ManagementOpens ==
    /\ at = "connect" /\ proc = "running"
    /\ session' = "running" /\ joinable' = TRUE
    /\ child' = "engine" /\ owned' = TRUE
    /\ at' = "wait"
    /\ UNCHANGED <<phase, conf, cut, proc, told, status, fresh>>

\* stop_internal up to its first await.
StopInternal ==
    /\ told' = (told \/ joinable)
    /\ IF child = "engine" THEN child' = "stop" /\ at' = "reap"
                           ELSE at' = "join" /\ UNCHANGED child
    /\ UNCHANGED <<conf, owned, cut, proc, session, joinable, status>>

SeeConnected ==
    /\ at = "wait" /\ fresh /\ status = "connected"
    /\ phase' = "up" /\ at' = "idle" /\ fresh' = FALSE
    /\ UNCHANGED <<conf, owned, cut, child, proc, session, joinable, told, status>>

SeeFailed ==
    /\ at = "wait" /\ fresh /\ status = "failed"
    /\ fresh' = FALSE
    /\ StopInternal
    /\ UNCHANGED phase

MutantDeadline ==
    /\ at = "wait" /\ session = "done"
    /\ StopInternal
    /\ UNCHANGED <<phase, fresh>>

Deadline ==
    /\ at = "wait"
    /\ StopInternal
    /\ UNCHANGED <<phase, fresh>>

MutantCutOff ==
    /\ phase = "starting" /\ at # "idle"
    /\ phase' = "failed" /\ cut' = TRUE /\ at' = "idle"
    /\ joinable' = (joinable /\ at # "join")
    /\ UNCHANGED <<conf, owned, child, proc, session, told, status, fresh>>

\* The caller's limit: start is dropped where it waits, and its locals with it.
\* A Child that is dropped is not killed; a task whose handle is dropped runs on.
CutOff ==
    /\ phase = "starting" /\ at # "idle"
    /\ phase' = "failed" /\ cut' = TRUE /\ at' = "idle"
    /\ child' = IF child \in {"start", "stop"} THEN "lost" ELSE child
    /\ joinable' = (joinable /\ at # "join")
    /\ UNCHANGED <<conf, owned, proc, session, told, status, fresh>>

-----------------------------------------------------------------------------
(* stop *)

Stop ==
    /\ phase \in {"up", "failed"} /\ phase' = "stopping"
    /\ StopInternal
    /\ UNCHANGED fresh

MutantReap ==
    /\ at = "reap"
    /\ child' = "none" /\ at' = "join"
    /\ UNCHANGED <<phase, conf, owned, cut, proc, session, joinable, told, status, fresh>>

\* The process exited by itself, or is killed after 5 s.
Reap ==
    /\ at = "reap"
    /\ proc' = "dead" /\ child' = "none" /\ at' = "join"
    /\ UNCHANGED <<phase, conf, owned, cut, session, joinable, told, status, fresh>>

MutantJoin ==
    /\ at = "join" /\ at' = "idle"
    /\ (joinable => session = "done")
    /\ joinable' = FALSE
    /\ conf' \in (IF owned /\ status # "failed" THEN {"none", "stuck"} ELSE {conf}) /\ owned' = FALSE
    /\ phase' = IF phase = "starting" THEN "failed" ELSE "gone"
    /\ UNCHANGED <<cut, child, proc, session, told, status, fresh>>

\* The session's task was awaited; the file is removed if start came as far as to adopt
\* it, and stays if that fails, of which nobody is told.
Join ==
    /\ at = "join" /\ at' = "idle"
    /\ (joinable => session = "done")
    /\ joinable' = FALSE
    /\ conf' \in (IF owned THEN {"none", "stuck"} ELSE {conf}) /\ owned' = FALSE
    /\ phase' = IF phase = "starting" THEN "failed" ELSE "gone"
    /\ UNCHANGED <<cut, child, proc, session, told, status, fresh>>

-----------------------------------------------------------------------------
(* management_session and the process *)

Announce(s) == status' = s /\ fresh' = TRUE

\* CONNECTED; or EXITING, or a password is asked for that nobody gave.  What the
\* process wrote before it died is still read.
Line ==
    /\ session = "running"
    /\ Announce("connected") \/ Announce("failed")
    /\ UNCHANGED <<phase, conf, owned, cut, at, child, proc, session, joinable, told>>

\* The channel was closed: the process is dead.
EndOfFile ==
    /\ session = "running" /\ proc = "dead" /\ session' = "done"
    /\ Announce("failed")
    /\ UNCHANGED <<phase, conf, owned, cut, at, child, proc, joinable, told>>

\* A line that is not UTF-8 ends the loop as the end of the channel does.
Unreadable ==
    /\ session = "running" /\ session' = "done"
    /\ Announce("failed")
    /\ UNCHANGED <<phase, conf, owned, cut, at, child, proc, joinable, told>>

\* signal SIGTERM is sent; the process may heed it or not.
SessionStops ==
    /\ session = "running" /\ told /\ session' = "done"
    /\ UNCHANGED <<phase, conf, owned, cut, at, child, proc, joinable, told, status, fresh>>

Exits ==
    /\ proc = "running" /\ proc' = "dead"
    /\ UNCHANGED <<phase, conf, owned, cut, at, child, session, joinable, told, status, fresh>>

Starting == ManagementRefuses \/ ManagementOpens \/ SeeConnected \/ SeeFailed \/ Deadline

Session == EndOfFile \/ SessionStops

Next ==
    \/ Refuse \/ Begin \/ Starting \/ CutOff \/ Stop \/ Reap \/ Join
    \/ Line \/ Unreadable \/ Session \/ Exits

Spec == Init /\ [][Next]_vars

\* The runtime polls the handler and the session; each wait has its deadline.
Fairness == WF_vars(Starting) /\ WF_vars(Reap \/ Join) /\ WF_vars(Session)

-----------------------------------------------------------------------------
\* The handle of a running process is given up in one way only: the caller's limit
\* fell while start, or the stop inside start, held it in a local.
LostOnlyByCutOff ==
    (proc = "running" /\ child \in {"none", "lost"}) => cut

\* What EngineContract calls running.
Running == {x \in {"openvpn"} : proc = "running"}
=============================================================================
