-------------------------- MODULE WireguardEngine --------------------------
(***************************************************************************)
(* engines/wireguard.rs: a Windows service per profile, made and removed   *)
(* by blocking calls on a thread the runtime cannot cancel.                *)
(*                                                                         *)
(* A service of the same name may be left from a daemon that crashed.  The *)
(* service manager is taken to stop a service that it is asked to stop     *)
(* within the 10 s sc_stop_and_delete waits.                               *)
(***************************************************************************)

VARIABLES
    phase,  \* of the engine, as in EngineContract
    conf,   \* its configuration file: none, there, or stuck (a removal failed)
    owned,  \* profile_id and service are set
    cut,    \* as in EngineContract
    job,    \* the blocking call: none, create, wait, ok, err, cleaning, cleaned
    svc     \* the service: absent, leftover (running since before), stopped,
            \* pending, running

own  == <<job, svc>>
vars == <<phase, conf, owned, cut, own>>

TypeOK ==
    /\ phase \in {"new", "starting", "up", "failed", "stopping", "gone"}
    /\ conf \in {"none", "there", "stuck"}
    /\ owned \in BOOLEAN /\ cut \in BOOLEAN
    /\ job \in {"none", "create", "wait", "ok", "err", "cleaning", "cleaned"}
    /\ svc \in {"absent", "leftover", "stopped", "pending", "running"}

OwnInit == job = "none" /\ svc \in {"absent", "leftover", "stopped"}

Init == phase = "new" /\ conf = "none" /\ owned = FALSE /\ cut = FALSE /\ OwnInit

-----------------------------------------------------------------------------
(* start *)

Refuse ==
    /\ phase = "new" /\ phase' = "failed"
    /\ conf' \in {"none", "there"}
    /\ UNCHANGED <<owned, cut, own>>

Begin ==
    /\ phase = "new" /\ phase' = "starting"
    /\ conf' = "there"
    /\ job' = "create"
    /\ UNCHANGED <<owned, cut, svc>>

\* A stopped leftover is deleted, a service created and started.
Create ==
    /\ job = "create" /\ svc \in {"absent", "stopped"}
    /\ job' = "wait" /\ svc' = "pending"
    /\ UNCHANGED <<phase, conf, owned, cut>>

\* The manager refuses one of the calls: always while a leftover runs, which was
\* opened without the right to stop it, so that delete only marks it.
CreateFails ==
    /\ job = "create"
    /\ job' = "err"
    /\ svc' \in IF svc = "leftover" THEN {"leftover"} ELSE {"absent", "stopped"}
    /\ UNCHANGED <<phase, conf, owned, cut>>

SawRunning ==
    /\ job = "wait" /\ svc = "running"
    /\ job' = "ok"
    /\ UNCHANGED <<phase, conf, owned, cut, svc>>

\* It fell back to stopped, or 25 s have passed.
NotRunning ==
    /\ job = "wait" /\ svc \in {"stopped", "pending"}
    /\ job' = "err"
    /\ UNCHANGED <<phase, conf, owned, cut, svc>>

\* start is woken by the end of the call.
Adopt ==
    /\ phase = "starting" /\ job = "ok"
    /\ phase' = "up" /\ owned' = TRUE /\ job' = "none"
    /\ UNCHANGED <<conf, cut, svc>>

StartCleaning ==
    /\ phase = "starting" /\ job = "err"
    /\ job' = "cleaning"
    /\ UNCHANGED <<phase, conf, owned, cut, svc>>

MutantClean ==
    /\ job = "cleaning" /\ job' = "cleaned"
    /\ UNCHANGED <<phase, conf, owned, cut, svc>>

\* sc_stop_and_delete
Clean ==
    /\ job = "cleaning" /\ job' = "cleaned"
    /\ svc' = "absent"
    /\ UNCHANGED <<phase, conf, owned, cut>>

Cleaned ==
    /\ phase = "starting" /\ job = "cleaned"
    /\ phase' = "failed" /\ job' = "none"
    /\ conf' \in {"none", "stuck"}
    /\ UNCHANGED <<owned, cut, svc>>

\* The caller's limit: start is dropped, the thread goes on with its call.
CutOff ==
    /\ phase = "starting" /\ job \in {"create", "wait", "cleaning"}
    /\ phase' = "failed" /\ cut' = TRUE
    /\ UNCHANGED <<conf, owned, own>>

-----------------------------------------------------------------------------
(* stop *)

Stop ==
    /\ phase \in {"up", "failed"} /\ phase' = "stopping"
    /\ UNCHANGED <<conf, owned, cut, own>>

\* There is something to delete only if start came as far as to adopt it; whether the
\* file could be removed is not asked.
Finish ==
    /\ phase = "stopping" /\ phase' = "gone"
    /\ svc' = IF owned THEN "absent" ELSE svc
    /\ conf' \in (IF owned THEN {"none", "stuck"} ELSE {conf}) /\ owned' = FALSE
    /\ UNCHANGED <<cut, job>>

-----------------------------------------------------------------------------
\* The service comes up, or it stops by itself.
ServiceMoves ==
    /\ \/ svc = "pending" /\ svc' \in {"running", "stopped"}
       \/ svc \in {"running", "leftover"} /\ svc' = "stopped"
    /\ UNCHANGED <<phase, conf, owned, cut, job>>

Job == Create \/ CreateFails \/ SawRunning \/ NotRunning \/ Clean

Starting == Adopt \/ StartCleaning \/ Cleaned

Next == Refuse \/ Begin \/ Job \/ Starting \/ CutOff \/ Stop \/ Finish \/ ServiceMoves

Spec == Init /\ [][Next]_vars

\* The thread's calls have their time limits; the runtime polls the handler.
Fairness == WF_vars(Job) /\ WF_vars(Starting) /\ WF_vars(Finish)

-----------------------------------------------------------------------------
\* What EngineContract calls running: a leftover is not what this engine started.
Running == {x \in {"service"} : svc \in {"pending", "running"}}
=============================================================================
