---------------------------- MODULE VlessEngine ----------------------------
(***************************************************************************)
(* engines/vless.rs: xray, and on Windows tun2socks unless the profile is  *)
(* socksOnly, each under a supervisor task that restarts it.               *)
(*                                                                         *)
(* The engine lives as AppState makes it live: start, and stop after a     *)
(* start that failed or at a disconnect.  The only await of start outside  *)
(* of stop is a sleep of half a second, so CONNECT_TIMEOUT cannot drop it. *)
(***************************************************************************)
EXTENDS Naturals, Sequences

CONSTANTS
    Sidecars,   \* the binaries
    Plans,      \* the sequences of them a profile may ask for
    Broken,     \* those that are installed and can never be spawned
    MaxFaults   \* bound: crashes and failed spawns of the others

VARIABLES
    phase,   \* of the engine, as in EngineContract
    conf,    \* its configuration file: none, there, or stuck (a removal failed)
    owned,   \* profile_id and stop_tx are set
    cut,     \* as in EngineContract
    todo,    \* sidecars start has still to launch
    signal,  \* the stop watch: unborn, open, told, or dropped with its sender
    sup,     \* where each supervisor is
    alive,   \* sidecars whose process is running
    faults

own  == <<todo, signal, sup, alive, faults>>
vars == <<phase, conf, owned, cut, own>>

\* waiting: in the select! with a child; resting: in the 5 s pause.
SupState == {"none", "spawning", "waiting", "resting", "done"}

TypeOK ==
    /\ phase \in {"new", "starting", "up", "failed", "stopping", "gone"}
    /\ conf \in {"none", "there", "stuck"}
    /\ owned \in BOOLEAN /\ cut = FALSE
    /\ todo \in Seq(Sidecars)
    /\ signal \in {"unborn", "open", "told", "dropped"}
    /\ sup \in [Sidecars -> SupState]
    /\ alive \subseteq Sidecars
    /\ faults \in 0..MaxFaults

OwnInit ==
    /\ todo \in Plans
    /\ signal = "unborn"
    /\ sup = [s \in Sidecars |-> "none"]
    /\ alive = {} /\ faults = 0

Init == phase = "new" /\ conf = "none" /\ owned = FALSE /\ cut = FALSE /\ OwnInit

-----------------------------------------------------------------------------
(* start *)

\* No link in the profile, a bad one, or the configuration cannot be written.
Refuse ==
    /\ phase = "new" /\ phase' = "failed"
    /\ UNCHANGED <<conf, owned, cut, own>>

Begin ==
    /\ phase = "new" /\ phase' = "starting"
    /\ conf' = "there"
    /\ signal' = "open"
    /\ UNCHANGED <<owned, cut, todo, sup, alive, faults>>

Launch ==
    /\ phase = "starting" /\ todo # << >>
    /\ sup' = [sup EXCEPT ![Head(todo)] = "spawning"]
    /\ todo' = Tail(todo)
    /\ UNCHANGED <<phase, conf, owned, cut, signal, alive, faults>>

\* engine_bin does not find the next one: the `?` drops the sender, while the
\* supervisors launched before are in self.tasks.
LaunchFails ==
    /\ phase = "starting" /\ todo # << >>
    /\ phase' = "failed"
    /\ signal' = "dropped"
    /\ UNCHANGED <<conf, owned, cut, todo, sup, alive, faults>>

Adopt ==
    /\ phase = "starting" /\ todo = << >> /\ ~ owned
    /\ owned' = TRUE
    /\ UNCHANGED <<phase, conf, cut, own>>

Idle(s) == sup[s] \in {"none", "done"}

\* Half a second later: if every supervisor has returned, start runs stop, which
\* has nobody to wait for, and fails.  Whether the file could be removed is not asked.
HealthCheck ==
    /\ phase = "starting" /\ owned
    /\ \/ /\ \A s \in Sidecars : Idle(s)
          /\ phase' = "failed"
          /\ conf' \in {"none", "stuck"} /\ owned' = FALSE /\ signal' = "told"
       \/ /\ \E s \in Sidecars : ~ Idle(s)
          /\ phase' = "up"
          /\ UNCHANGED <<conf, owned, signal>>
    /\ UNCHANGED <<cut, todo, sup, alive, faults>>

-----------------------------------------------------------------------------
(* stop *)

Stop ==
    /\ phase \in {"up", "failed"} /\ phase' = "stopping"
    /\ signal' = IF owned THEN "told" ELSE signal
    /\ UNCHANGED <<conf, owned, cut, todo, sup, alive, faults>>

\* Every task was awaited; the file is removed if start came as far as to adopt it,
\* and stays if that fails, of which nobody is told.
Finish ==
    /\ phase = "stopping" /\ phase' = "gone"
    /\ \A s \in Sidecars : Idle(s)
    /\ conf' \in (IF owned THEN {"none", "stuck"} ELSE {conf}) /\ owned' = FALSE
    /\ UNCHANGED <<cut, own>>

-----------------------------------------------------------------------------
(* supervise *)

Supervisor(s, from, to) ==
    /\ sup[s] = from /\ sup' = [sup EXCEPT ![s] = to]
    /\ UNCHANGED <<phase, conf, owned, cut, todo, signal>>

Spawn(s) ==
    /\ s \notin Broken
    /\ Supervisor(s, "spawning", "waiting")
    /\ alive' = alive \cup {s}
    /\ UNCHANGED faults

\* The pause, and `continue`: the stop signal is not looked at.
SpawnFails(s) ==
    /\ s \in Broken \/ faults < MaxFaults
    /\ Supervisor(s, "spawning", "resting")
    /\ faults' = IF s \in Broken THEN faults ELSE faults + 1
    /\ UNCHANGED alive

MutantChildExited(s) ==
    /\ s \notin alive
    /\ Supervisor(s, "waiting", "done")
    /\ UNCHANGED <<alive, faults>>

ChildExited(s) ==
    /\ s \notin alive
    /\ Supervisor(s, "waiting", IF signal = "told" THEN "done" ELSE "resting")
    /\ UNCHANGED <<alive, faults>>

MutantSeeStop(s) ==
    /\ signal = "told"
    /\ Supervisor(s, "waiting", "done")
    /\ alive' = alive \ {s}
    /\ UNCHANGED faults

\* changed() fires: the value was sent, or the sender is no more.
SeeStop(s) ==
    /\ signal \in {"told", "dropped"}
    /\ Supervisor(s, "waiting", "done")
    /\ alive' = alive \ {s}
    /\ UNCHANGED faults

Rested(s) ==
    /\ Supervisor(s, "resting", "spawning")
    /\ UNCHANGED <<alive, faults>>

\* The sidecar crashes, or gives up at once on a bad configuration.
Dies(s) ==
    /\ s \in alive /\ faults < MaxFaults
    /\ alive' = alive \ {s} /\ faults' = faults + 1
    /\ UNCHANGED <<phase, conf, owned, cut, todo, signal, sup>>

Supervise(s) == Spawn(s) \/ SpawnFails(s) \/ ChildExited(s) \/ SeeStop(s) \/ Rested(s)

Starting == Launch \/ LaunchFails \/ Adopt \/ HealthCheck

Next ==
    \/ Refuse \/ Begin \/ Starting \/ Stop \/ Finish
    \/ \E s \in Sidecars : Supervise(s) \/ Dies(s)

Spec == Init /\ [][Next]_vars

\* The runtime polls the task of the handler and those of the supervisors.
Fairness ==
    /\ WF_vars(Starting) /\ WF_vars(Finish)
    /\ \A s \in Sidecars : WF_vars(Supervise(s))

-----------------------------------------------------------------------------
\* A sidecar that died is restarted until the engine is stopped (vless.rs:12-13).
Restarted ==
    \A s \in Sidecars :
       (phase = "up" /\ sup[s] # "none" /\ s \notin alive)
          ~> (s \in alive \/ phase # "up")

\* What EngineContract calls running.
Running == alive
=============================================================================
