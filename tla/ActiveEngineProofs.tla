------------------------- MODULE ActiveEngineProofs -------------------------
(***************************************************************************)
(* Every engine keeps the contract: nothing it started survives its stop,  *)
(* unless its start was dropped half-way.                                  *)
(***************************************************************************)
EXTENDS ActiveEngine, TLAPS

PhaseOK == phase \in {"new", "starting", "up", "failed", "stopping", "gone"}

\* A process has its supervisor, and no supervisor is at work before the start and
\* after the stop.
VlessInv ==
    /\ todo \in Seq(Sidecars)
    /\ sup \in [Sidecars -> V!SupState]
    /\ alive \subseteq Sidecars
    /\ \A s \in alive : ~ V!Idle(s)
    /\ phase \in {"new", "gone"} => \A s \in Sidecars : V!Idle(s)
    /\ cut = FALSE

\* While nothing was cut off, a running process has a handle, and whoever is done
\* with stop_internal has given it up.
OpenVpnInv ==
    /\ cut \in BOOLEAN
    /\ child \in {"none", "start", "engine", "stop", "lost"}
    /\ phase = "new" => proc = "none"
    /\ child = "start" <=> at = "connect"
    /\ child = "stop" <=> at = "reap"
    /\ phase \in {"new", "failed", "up", "gone"} => at = "idle"
    /\ phase = "stopping" => at \in {"reap", "join"}
    /\ at = "join" \/ phase = "gone" => child \in {"none", "lost"}
    /\ O!LostOnlyByCutOff

\* While nothing was cut off, the service is that of the call under way or of an
\* engine that adopted it.
WireguardInv ==
    /\ cut \in BOOLEAN /\ owned \in BOOLEAN
    /\ phase = "new" => job = "none" /\ svc \notin {"pending", "running"}
    /\ ~ cut =>
         /\ job # "none" => phase = "starting"
         /\ svc \in {"pending", "running"} =>
              job \in {"wait", "ok", "err", "cleaning"} \/ owned
         /\ owned => phase \in {"up", "stopping"}

\* An engine that was not chosen has nothing running.
EngineInv ==
    /\ PhaseOK
    /\ kind \in {"vless", "openvpn", "wireguard"}
    /\ kind = "vless" => VlessInv
    /\ IF kind = "openvpn" THEN OpenVpnInv ELSE proc = "none"
    /\ IF kind = "wireguard" THEN WireguardInv ELSE svc \notin {"pending", "running"}

\* Before the start nothing was launched.
LEMMA EngineInit == Init => EngineInv
  <1> SUFFICES ASSUME Init PROVE EngineInv
    OBVIOUS
  <1>1. PhaseOK /\ kind \in {"vless", "openvpn", "wireguard"}
    BY EngineAssumption DEF Init, PhaseOK
  <1>2. VlessInv
    BY EngineAssumption DEF Init, V!OwnInit, VlessInv, V!SupState, V!Idle
  <1>3. OpenVpnInv /\ proc = "none"
    BY DEF Init, O!OwnInit, OpenVpnInv, O!LostOnlyByCutOff
  <1>4. WireguardInv /\ svc \notin {"pending", "running"}
    BY DEF Init, W!OwnInit, WireguardInv
  <1> QED
    BY <1>1, <1>2, <1>3, <1>4 DEF EngineInv

\* A step of a supervisor that has work, or the death of its process: only its own
\* entry moves, and the process lives while the supervisor waits.
LEMMA SuperviseStep ==
    ASSUME PhaseOK, VlessInv, NEW s \in Sidecars, V!Supervise(s) \/ V!Dies(s)
    PROVE  PhaseOK' /\ VlessInv' /\ phase \notin {"new", "gone"} /\ UNCHANGED <<phase, cut>>
  <1> USE DEF PhaseOK, VlessInv, V!SupState, V!Idle, V!Supervisor
  <1>1. CASE V!Spawn(s)
    BY <1>1 DEF V!Spawn
  <1>2. CASE V!SpawnFails(s)
    BY <1>2 DEF V!SpawnFails
  <1>3. CASE V!ChildExited(s)
    BY <1>3 DEF V!ChildExited
  <1>4. CASE V!SeeStop(s)
    BY <1>4 DEF V!SeeStop
  <1>5. CASE V!Rested(s)
    BY <1>5 DEF V!Rested
  <1>6. CASE V!Dies(s)
    BY <1>6 DEF V!Dies
  <1> QED
    BY <1>1, <1>2, <1>3, <1>4, <1>5, <1>6 DEF V!Supervise

\* What the contract allows at each step.
Kept == [Contract!Next]_(Contract!vars)

\* The same, of things the contract knows to be within its range.
Move ==
    \/ Contract!Begin \/ Contract!Refuse \/ Contract!Succeed \/ Contract!Fail
    \/ Contract!Stop \/ Contract!Finish \/ Contract!Work
    \/ UNCHANGED Contract!vars

\* Every step of vless.rs.
LEMMA VlessStep ==
    ASSUME EngineInv, OnlyVless, V!Next
    PROVE  EngineInv' /\ Kept
  <1> USE DEF PhaseOK, VlessInv, V!Idle, V!SupState
  <1>0. /\ kind = "vless" /\ PhaseOK /\ VlessInv
        /\ Running = alive /\ Running' = alive'
        /\ UNCHANGED <<proc, svc, kind>> /\ proc = "none" /\ svc \notin {"pending", "running"}
    BY DEF EngineInv, OnlyVless, openVpnVars, wireguardVars,
           Running, V!Running, O!Running, W!Running
  <1> SUFFICES PhaseOK' /\ VlessInv' /\ Kept
    BY <1>0 DEF EngineInv
  <1> SUFFICES PhaseOK' /\ VlessInv' /\ Move
    BY <1>0 DEF Kept, Move, Contract!Next
  <1> USE <1>0 DEF Move, Contract!vars
  <1>1. CASE V!Refuse
    BY <1>1 DEF V!Refuse, V!own, Contract!Refuse, Contract!Move
  <1>2. CASE V!Begin
    BY <1>2 DEF V!Begin, Contract!Begin, Contract!Move
  <1>3. CASE V!Launch
    BY <1>3 DEF V!Launch, Contract!Work
  <1>4. CASE V!LaunchFails
    BY <1>4 DEF V!LaunchFails, Contract!Fail, Contract!Move
  <1>5. CASE V!Adopt
    BY <1>5 DEF V!Adopt, V!own
  <1>6. CASE V!HealthCheck
    BY <1>6 DEF V!HealthCheck, V!own, Contract!Fail, Contract!Succeed, Contract!Move
  <1>7. CASE V!Stop
    BY <1>7 DEF V!Stop, Contract!Stop, Contract!Move
  <1>8. CASE V!Finish
    BY <1>8 DEF V!Finish, V!own, Contract!Finish, Contract!Move
  <1>9. CASE \E s \in Sidecars : V!Supervise(s) \/ V!Dies(s)
    BY <1>9, SuperviseStep DEF Contract!Work
  <1> QED
    BY <1>1, <1>2, <1>3, <1>4, <1>5, <1>6, <1>7, <1>8, <1>9 DEF V!Next, V!Starting

\* Every step of openvpn.rs.
LEMMA OpenVpnStep ==
    ASSUME EngineInv, OnlyOpenVpn, O!Next
    PROVE  EngineInv' /\ Kept
  <1> USE DEF PhaseOK, OpenVpnInv, O!LostOnlyByCutOff
  <1>0. /\ kind = "openvpn" /\ PhaseOK /\ OpenVpnInv
        /\ Running = O!Running /\ Running' = O!Running'
        /\ UNCHANGED <<svc, kind>> /\ svc \notin {"pending", "running"}
    BY DEF EngineInv, OnlyOpenVpn, vlessVars, wireguardVars,
           Running, V!Running, O!Running, W!Running
  <1> SUFFICES PhaseOK' /\ OpenVpnInv' /\ Move
    BY <1>0 DEF EngineInv, Kept, Move, Contract!Next, O!Running
  <1> USE <1>0 DEF O!Running, Move, Contract!vars
  <1>1. CASE O!Refuse
    BY <1>1 DEF O!Refuse, O!own, Contract!Refuse, Contract!Move
  <1>2. CASE O!Begin
    BY <1>2 DEF O!Begin, Contract!Begin, Contract!Move
  <1>3. CASE O!ManagementRefuses
    BY <1>3 DEF O!ManagementRefuses, Contract!Fail, Contract!Move
  <1>4. CASE O!ManagementOpens
    BY <1>4 DEF O!ManagementOpens
  <1>5. CASE O!SeeConnected
    BY <1>5 DEF O!SeeConnected, Contract!Succeed, Contract!Move
  <1>6. CASE O!SeeFailed
    BY <1>6 DEF O!SeeFailed, O!StopInternal
  <1>7. CASE O!Deadline
    BY <1>7 DEF O!Deadline, O!StopInternal
  <1>8. CASE O!CutOff
    BY <1>8 DEF O!CutOff, Contract!Fail, Contract!Move
  <1>9. CASE O!Stop
    BY <1>9 DEF O!Stop, O!StopInternal, Contract!Stop, Contract!Move
  <1>10. CASE O!Reap
    BY <1>10 DEF O!Reap, Contract!Work
  <1>11. CASE O!Join
    BY <1>11 DEF O!Join, Contract!Fail, Contract!Finish, Contract!Move
  <1>12. CASE O!Line \/ O!Unreadable \/ O!Session
    BY <1>12 DEF O!Line, O!Unreadable, O!Session, O!EndOfFile, O!SessionStops
  <1>13. CASE O!Exits
    BY <1>13 DEF O!Exits, Contract!Work
  <1> QED
    BY <1>1, <1>2, <1>3, <1>4, <1>5, <1>6, <1>7, <1>8, <1>9, <1>10, <1>11, <1>12, <1>13
       DEF O!Next, O!Starting

\* Every step of wireguard.rs.
LEMMA WireguardStep ==
    ASSUME EngineInv, OnlyWireguard, W!Next
    PROVE  EngineInv' /\ Kept
  <1> USE DEF PhaseOK, WireguardInv
  <1>0. /\ kind = "wireguard" /\ PhaseOK /\ WireguardInv
        /\ Running = W!Running /\ Running' = W!Running'
        /\ UNCHANGED <<proc, kind>> /\ proc = "none"
    BY DEF EngineInv, OnlyWireguard, vlessVars, openVpnVars,
           Running, V!Running, O!Running, W!Running
  <1> SUFFICES PhaseOK' /\ WireguardInv' /\ Move
    BY <1>0 DEF EngineInv, Kept, Move, Contract!Next, W!Running
  <1> USE <1>0 DEF W!Running, Move, Contract!vars
  <1>1. CASE W!Refuse
    BY <1>1 DEF W!Refuse, W!own, Contract!Refuse, Contract!Move
  <1>2. CASE W!Begin
    BY <1>2 DEF W!Begin, Contract!Begin, Contract!Move
  <1>3. CASE W!Create
    BY <1>3 DEF W!Create, Contract!Work
  <1>4. CASE W!CreateFails
    BY <1>4 DEF W!CreateFails, Contract!Work
  <1>5. CASE W!SawRunning \/ W!NotRunning
    BY <1>5 DEF W!SawRunning, W!NotRunning
  <1>6. CASE W!Clean
    BY <1>6 DEF W!Clean, Contract!Work
  <1>7. CASE W!Adopt
    BY <1>7 DEF W!Adopt, Contract!Succeed, Contract!Move
  <1>8. CASE W!StartCleaning
    BY <1>8 DEF W!StartCleaning
  <1>9. CASE W!Cleaned
    BY <1>9 DEF W!Cleaned, Contract!Fail, Contract!Move
  <1>10. CASE W!CutOff
    BY <1>10 DEF W!CutOff, W!own, Contract!Fail, Contract!Move
  <1>11. CASE W!Stop
    BY <1>11 DEF W!Stop, W!own, Contract!Stop, Contract!Move
  <1>12. CASE W!Finish
    BY <1>12 DEF W!Finish, Contract!Finish, Contract!Move
  <1>13. CASE W!ServiceMoves
    BY <1>13 DEF W!ServiceMoves, Contract!Work
  <1> QED
    BY <1>1, <1>2, <1>3, <1>4, <1>5, <1>6, <1>7, <1>8, <1>9, <1>10, <1>11, <1>12, <1>13
       DEF W!Next, W!Job, W!Starting

LEMMA EngineStep == EngineInv /\ [Next]_vars => EngineInv' /\ Kept
  <1> SUFFICES ASSUME EngineInv, [Next]_vars PROVE EngineInv' /\ Kept
    OBVIOUS
  <1>1. CASE OnlyVless /\ V!Next
    BY <1>1, VlessStep
  <1>2. CASE OnlyOpenVpn /\ O!Next
    BY <1>2, OpenVpnStep
  <1>3. CASE OnlyWireguard /\ W!Next
    BY <1>3, WireguardStep
  <1>4. CASE UNCHANGED vars
    BY <1>4 DEF EngineInv, Kept, PhaseOK, VlessInv, OpenVpnInv, WireguardInv,
                O!LostOnlyByCutOff, V!Idle, Contract!vars, vars, vlessVars, openVpnVars,
                wireguardVars, Running, V!Running, O!Running, W!Running
  <1> QED
    BY <1>1, <1>2, <1>3, <1>4 DEF Next

\* What every reachable state of the engine satisfies.
THEOREM EngineInvariance == Spec => []EngineInv
  <1>1. EngineInv /\ [Next]_vars => EngineInv'
    BY EngineStep
  <1> QED
    BY EngineInit, <1>1, PTL DEF Spec

\* The handle of a running openvpn is lost only when the start was cut off, whatever
\* the order of lines, deadlines and stops (openvpn.rs:205-251).
THEOREM HandleKept == Spec => []HandleLostOnlyByCutOff
  <1>1. EngineInv => HandleLostOnlyByCutOff
    BY DEF EngineInv, OpenVpnInv, HandleLostOnlyByCutOff, O!LostOnlyByCutOff
  <1> QED
    BY EngineInvariance, <1>1, PTL

\* Each of the three engines, for any sidecars, keeps what the trait promises
\* (engines/mod.rs:53-64).
THEOREM EnginesKeepContract == Spec => ContractKept
  <1>1. Init => Contract!Init
    BY DEF Init, V!OwnInit, O!OwnInit, W!OwnInit, Contract!Init,
           Running, V!Running, O!Running, W!Running
  <1>2. EngineInv /\ [Next]_vars => [Contract!Next]_(Contract!vars)
    BY EngineStep DEF Kept
  <1> QED
    BY EngineInvariance, <1>1, <1>2, PTL DEF Spec, ContractKept, Contract!Spec
-----------------------------------------------------------------------------
(* Types. *)

LEMMA EngineInitTypes == Init => TypeOK
  <1> SUFFICES ASSUME Init PROVE TypeOK
    OBVIOUS
  <1>1. V!TypeOK
    <2>1. todo \in Seq(Sidecars)
      BY EngineAssumption DEF Init, V!OwnInit
    <2>2. faults \in 0..MaxFaults
      BY EngineAssumption DEF Init, V!OwnInit
    <2>3. sup \in [Sidecars -> V!SupState] /\ alive \subseteq Sidecars
      BY DEF Init, V!OwnInit, V!SupState
    <2> QED
      BY <2>1, <2>2, <2>3 DEF Init, V!OwnInit, V!TypeOK
  <1>2. O!TypeOK
    BY DEF Init, O!OwnInit, O!TypeOK
  <1>3. W!TypeOK
    BY DEF Init, W!OwnInit, W!TypeOK
  <1> QED
    BY <1>1, <1>2, <1>3 DEF Init, TypeOK

LEMMA VlessTypes == ASSUME V!TypeOK, V!Next PROVE V!TypeOK'
  <1> USE EngineAssumption DEF V!TypeOK, V!SupState, V!own
  <1>1. CASE V!Refuse \/ V!Begin \/ V!LaunchFails \/ V!Adopt
    BY <1>1 DEF V!Refuse, V!Begin, V!LaunchFails, V!Adopt
  <1>2. CASE V!HealthCheck \/ V!Stop
    BY <1>2 DEF V!HealthCheck, V!Stop
  <1>3. CASE V!Finish
    <2>1. conf' \in {"none", "there", "stuck"}
      BY <1>3, Zenon DEF V!Finish
    <2> QED
      BY <1>3, <2>1 DEF V!Finish
  <1>4. ASSUME NEW s \in Sidecars, V!Supervise(s) \/ V!Dies(s) PROVE V!TypeOK'
    BY <1>4 DEF V!Supervise, V!Spawn, V!SpawnFails, V!ChildExited, V!SeeStop, V!Rested,
                V!Dies, V!Supervisor
  <1>5. CASE V!Launch
    <2>1. todo' \in Seq(Sidecars)
      BY <1>5 DEF V!Launch
    <2>2. sup' \in [Sidecars -> V!SupState]
      BY <1>5 DEF V!Launch
    <2> QED
      BY <1>5, <2>1, <2>2 DEF V!Launch
  <1> QED
    BY <1>1, <1>2, <1>3, <1>4, <1>5 DEF V!Next, V!Starting

\* stop_internal takes a Child it finds in its field, and no other is waited with.
LEMMA StopInternalTypes ==
    ASSUME O!TypeOK, O!StopInternal, at \in {"wait", "idle"},
           phase' \in {phase, "stopping"}, fresh' \in {fresh, FALSE}
    PROVE  O!TypeOK'
  <1> USE DEF O!TypeOK, O!StopInternal
  <1>1. told' \in BOOLEAN
    BY Zenon
  <1>2. /\ at' \in {"reap", "join"} /\ child' \in {"none", "engine", "stop", "lost"}
        /\ child' = "stop" <=> at' = "reap"
    BY DEF O!TypeOK
  <1>3. /\ phase' \in {"new", "starting", "up", "failed", "stopping", "gone"}
        /\ fresh' \in BOOLEAN
    OBVIOUS
  <1>4. conf' \in {"none", "there", "stuck"} /\ owned' \in BOOLEAN /\ cut' \in BOOLEAN /\ joinable' \in BOOLEAN
    OBVIOUS
  <1>5. /\ proc' \in {"none", "running", "dead"}
        /\ session' \in {"none", "running", "done"}
        /\ status' \in {"pending", "connected", "failed"}
    OBVIOUS
  <1> QED
    BY <1>1, <1>2, <1>3, <1>4, <1>5

LEMMA OpenVpnTypes == ASSUME O!TypeOK, OpenVpnInv, O!Next PROVE O!TypeOK'
  <1> USE DEF O!TypeOK, O!own
  <1>1. CASE O!Refuse \/ O!Begin \/ O!ManagementRefuses \/ O!ManagementOpens \/ O!SeeConnected
    BY <1>1 DEF O!Refuse, O!Begin, O!ManagementRefuses, O!ManagementOpens, O!SeeConnected
  <1>2. CASE O!SeeFailed
    <2>1. at = "wait" /\ O!StopInternal /\ phase' = phase /\ fresh' = FALSE
      BY <1>2 DEF O!SeeFailed
    <2> QED
      BY <2>1, StopInternalTypes
  <1>3. CASE O!Deadline
    <2>1. at = "wait" /\ O!StopInternal /\ phase' = phase /\ fresh' = fresh
      BY <1>3 DEF O!Deadline
    <2> QED
      BY <2>1, StopInternalTypes
  <1>4. CASE O!Stop
    <2>1. at = "idle" /\ O!StopInternal /\ phase' = "stopping" /\ fresh' = fresh
      BY <1>4 DEF O!Stop, OpenVpnInv
    <2> QED
      BY <2>1, StopInternalTypes
  <1>5. CASE O!CutOff
    <2>1. joinable' \in BOOLEAN
      BY <1>5, Zenon DEF O!CutOff
    <2> QED
      BY <1>5, <2>1 DEF O!CutOff
  <1>6. CASE O!Reap
    BY <1>6 DEF O!Reap
  <1>7. CASE O!Join
    <2>1. conf' \in {"none", "there", "stuck"}
      BY <1>7, Zenon DEF O!Join
    <2> QED
      BY <1>7, <2>1 DEF O!Join
  <1>8. CASE O!Line \/ O!Unreadable \/ O!Session \/ O!Exits
    BY <1>8 DEF O!Line, O!Unreadable, O!Session, O!EndOfFile, O!SessionStops, O!Exits,
                O!Announce
  <1> QED
    BY <1>1, <1>2, <1>3, <1>4, <1>5, <1>6, <1>7, <1>8 DEF O!Next, O!Starting

LEMMA WireguardTypes == ASSUME W!TypeOK, W!Next PROVE W!TypeOK'
  <1> USE DEF W!TypeOK, W!own
  <1>1. CASE W!Finish
    <2>1. conf' \in {"none", "there", "stuck"}
      BY <1>1, Zenon DEF W!Finish
    <2> QED
      BY <1>1, <2>1 DEF W!Finish
  <1>2. CASE W!Refuse \/ W!Begin \/ W!Job \/ W!Starting \/ W!CutOff \/ W!Stop \/ W!ServiceMoves
    BY <1>2 DEF W!Refuse, W!Begin, W!Job, W!Create, W!CreateFails, W!SawRunning,
                W!NotRunning, W!Clean, W!Starting, W!Adopt, W!StartCleaning, W!Cleaned,
                W!CutOff, W!Stop, W!ServiceMoves
  <1> QED
    BY <1>1, <1>2 DEF W!Next

LEMMA EngineTypesStep == EngineInv /\ TypeOK /\ [Next]_vars => TypeOK'
  <1> SUFFICES ASSUME EngineInv, TypeOK, [Next]_vars PROVE TypeOK'
    OBVIOUS
  <1>1. CASE OnlyVless /\ V!Next
    BY <1>1, VlessTypes DEF TypeOK, OnlyVless
  <1>2. CASE OnlyOpenVpn /\ O!Next
    BY <1>2, OpenVpnTypes DEF TypeOK, OnlyOpenVpn, EngineInv
  <1>3. CASE OnlyWireguard /\ W!Next
    BY <1>3, WireguardTypes DEF TypeOK, OnlyWireguard
  <1>4. CASE UNCHANGED vars
    BY <1>4 DEF TypeOK, V!TypeOK, O!TypeOK, W!TypeOK, vars, vlessVars, openVpnVars,
                wireguardVars
  <1> QED
    BY <1>1, <1>2, <1>3, <1>4 DEF Next

\* The variables of the chosen engine keep their types, and a local Child is where a
\* start or a stop waits with it (openvpn.rs:128-145, 230-235): the last needs that
\* nobody calls stop while a start waits, which EngineInv says.
THEOREM EngineTypes == Spec => []TypeOK
  <1>1. Spec => []EngineInv
    BY EngineInvariance
  <1> QED
    BY <1>1, EngineInitTypes, EngineTypesStep, PTL DEF Spec

-----------------------------------------------------------------------------
(* The service of an earlier daemon. *)

\* A call that succeeded saw its own service, and a clean-up left none.
ClearedInv == job \in {"ok", "cleaned"} => svc # "leftover"

LEMMA ClearedStep == ClearedInv /\ [Next]_vars => ClearedInv'
  <1> SUFFICES ASSUME ClearedInv, [Next]_vars PROVE ClearedInv'
    OBVIOUS
  <1>1. CASE OnlyWireguard /\ W!Next
    BY <1>1 DEF ClearedInv, W!own, W!Next, W!Refuse, W!Begin, W!Job, W!Create,
                W!CreateFails, W!SawRunning, W!NotRunning, W!Clean, W!Starting, W!Adopt,
                W!StartCleaning, W!Cleaned, W!CutOff, W!Stop, W!Finish, W!ServiceMoves
  <1>2. CASE OnlyVless \/ OnlyOpenVpn \/ UNCHANGED vars
    BY <1>2 DEF ClearedInv, OnlyVless, OnlyOpenVpn, vars, wireguardVars
  <1> QED
    BY <1>1, <1>2 DEF Next

\* A start that its caller waits for ends, well or not, without the service that a
\* crashed daemon left: what the creation cannot stop, the clean-up after it does
\* (wireguard.rs:95-98, 129-134).
THEOREM NoLeftover == Spec => LeftoverCleared
  <1>1. Init => ClearedInv
    BY DEF Init, W!OwnInit, ClearedInv
  <1>2. ASSUME ClearedInv, [Next]_vars, kind = "wireguard", phase = "starting",
               phase' # "starting", ~ cut'
        PROVE  svc' # "leftover"
    <2>1. OnlyWireguard /\ W!Next
      BY <1>2 DEF Next, OnlyVless, OnlyOpenVpn, vars
    <2> QED
      BY <1>2, <2>1
      DEF ClearedInv, W!own, W!Next, W!Refuse, W!Begin, W!Job, W!Create, W!CreateFails,
          W!SawRunning, W!NotRunning, W!Clean, W!Starting, W!Adopt, W!StartCleaning,
          W!Cleaned, W!CutOff, W!Stop, W!Finish, W!ServiceMoves
  <1>3. ClearedInv /\ [Next]_vars =>
            [kind = "wireguard" /\ phase = "starting" /\ phase' # "starting" /\ ~ cut'
                => svc' # "leftover"]_vars
    BY <1>2
  <1> QED
    BY <1>1, <1>3, ClearedStep, PTL DEF Spec, LeftoverCleared

-----------------------------------------------------------------------------
(* The configuration file. *)

\* An OpenVPN start waits for the tunnel only after it adopted its file.
Adopted ==
    /\ phase = "up" => owned
    /\ kind = "openvpn" /\ at = "wait" => owned

\* An engine that was up owns its file until its stop has removed it or tried to.
FileOwned ==
    \/ phase \in {"up", "stopping"} /\ owned
    \/ phase = "gone" /\ conf # "there"

LEMMA AdoptedStep == EngineInv /\ Adopted /\ [Next]_vars => Adopted'
  <1> SUFFICES ASSUME EngineInv, Adopted, [Next]_vars PROVE Adopted'
    OBVIOUS
  <1> USE DEF Adopted
  <1>1. ASSUME OnlyVless, V!Next PROVE Adopted'
    <2> USE DEF OnlyVless, V!own
    <2>1. CASE V!Refuse \/ V!Begin \/ V!Starting \/ V!Stop \/ V!Finish
      BY <1>1, <2>1 DEF V!Refuse, V!Begin, V!Starting, V!Launch, V!LaunchFails, V!Adopt,
                        V!HealthCheck, V!Stop, V!Finish
    <2>2. ASSUME NEW s \in Sidecars, V!Supervise(s) \/ V!Dies(s) PROVE Adopted'
      BY <1>1, <2>2 DEF V!Supervise, V!Spawn, V!SpawnFails, V!ChildExited, V!SeeStop,
                        V!Rested, V!Dies, V!Supervisor
    <2> QED
      BY <1>1, <2>1, <2>2 DEF V!Next
  <1>2. ASSUME OnlyOpenVpn, O!Next PROVE Adopted'
    <2> USE DEF OnlyOpenVpn, O!own
    <2>1. CASE O!Refuse \/ O!Begin \/ O!ManagementRefuses \/ O!ManagementOpens \/ O!SeeConnected
      BY <1>2, <2>1 DEF O!Refuse, O!Begin, O!ManagementRefuses, O!ManagementOpens,
                        O!SeeConnected, EngineInv, OpenVpnInv
    <2>2. CASE O!SeeFailed \/ O!Deadline \/ O!CutOff \/ O!Stop
      BY <1>2, <2>2 DEF O!SeeFailed, O!Deadline, O!CutOff, O!Stop, O!StopInternal
    <2>3. CASE O!Reap \/ O!Join
      BY <1>2, <2>3 DEF O!Reap, O!Join, EngineInv, OpenVpnInv
    <2>4. CASE O!Line \/ O!Unreadable \/ O!Session \/ O!Exits
      BY <1>2, <2>4 DEF O!Line, O!Unreadable, O!Session, O!EndOfFile, O!SessionStops, O!Exits
    <2> QED
      BY <1>2, <2>1, <2>2, <2>3, <2>4 DEF O!Next, O!Starting
  <1>3. ASSUME OnlyWireguard, W!Next PROVE Adopted'
    BY <1>3 DEF OnlyWireguard, W!own, W!Next, W!Refuse, W!Begin, W!Job, W!Create,
                W!CreateFails, W!SawRunning, W!NotRunning, W!Clean, W!Starting, W!Adopt,
                W!StartCleaning, W!Cleaned, W!CutOff, W!Stop, W!Finish, W!ServiceMoves
  <1>4. CASE UNCHANGED vars
    BY <1>4 DEF vars, openVpnVars
  <1> QED
    BY <1>1, <1>2, <1>3, <1>4 DEF Next

LEMMA FileOwnedStep == EngineInv /\ FileOwned /\ [Next]_vars => FileOwned'
  <1> SUFFICES ASSUME EngineInv, FileOwned, [Next]_vars PROVE FileOwned'
    OBVIOUS
  <1> USE DEF FileOwned
  <1>1. ASSUME OnlyVless, V!Next PROVE FileOwned'
    <2> USE DEF OnlyVless, V!own
    <2>1. CASE V!Refuse \/ V!Begin \/ V!Starting \/ V!Stop \/ V!Finish
      BY <1>1, <2>1 DEF V!Refuse, V!Begin, V!Starting, V!Launch, V!LaunchFails, V!Adopt,
                        V!HealthCheck, V!Stop, V!Finish
    <2>2. ASSUME NEW s \in Sidecars, V!Supervise(s) \/ V!Dies(s) PROVE FileOwned'
      BY <1>1, <2>2 DEF V!Supervise, V!Spawn, V!SpawnFails, V!ChildExited, V!SeeStop,
                        V!Rested, V!Dies, V!Supervisor
    <2> QED
      BY <1>1, <2>1, <2>2 DEF V!Next
  <1>2. ASSUME OnlyOpenVpn, O!Next PROVE FileOwned'
    <2> USE DEF OnlyOpenVpn, O!own
    <2>0. kind = "openvpn" /\ OpenVpnInv
      BY <1>2 DEF EngineInv
    <2>1. CASE O!Refuse \/ O!Begin \/ O!ManagementRefuses \/ O!ManagementOpens \/ O!SeeConnected
      BY <2>0, <2>1 DEF O!Refuse, O!Begin, O!ManagementRefuses, O!ManagementOpens,
                        O!SeeConnected, OpenVpnInv
    <2>2. CASE O!SeeFailed \/ O!Deadline \/ O!CutOff
      BY <2>0, <2>2 DEF O!SeeFailed, O!Deadline, O!CutOff, O!StopInternal, OpenVpnInv
    <2>3. CASE O!Stop
      BY <2>3 DEF O!Stop, O!StopInternal
    <2>4. CASE O!Reap \/ O!Join
      BY <2>0, <2>4 DEF O!Reap, O!Join, OpenVpnInv
    <2>5. CASE O!Line \/ O!Unreadable \/ O!Session \/ O!Exits
      BY <2>5 DEF O!Line, O!Unreadable, O!Session, O!EndOfFile, O!SessionStops, O!Exits
    <2> QED
      BY <1>2, <2>1, <2>2, <2>3, <2>4, <2>5 DEF O!Next, O!Starting
  <1>3. ASSUME OnlyWireguard, W!Next PROVE FileOwned'
    BY <1>3 DEF OnlyWireguard, W!own, W!Next, W!Refuse, W!Begin, W!Job, W!Create,
                W!CreateFails, W!SawRunning, W!NotRunning, W!Clean, W!Starting, W!Adopt,
                W!StartCleaning, W!Cleaned, W!CutOff, W!Stop, W!Finish, W!ServiceMoves
  <1>4. CASE UNCHANGED vars
    BY <1>4 DEF vars
  <1> QED
    BY <1>1, <1>2, <1>3, <1>4 DEF Next

\* A configuration with its keys outlives the stop of an engine that was up in one way
\* only, that its removal fails: what start adopted, stop does try to remove
\* (vless.rs:144-146, openvpn.rs:239-241, wireguard.rs:106-108).
THEOREM ConfigurationRemoved == Spec => ConfRemoved
  <1>1. Spec => []EngineInv
    BY EngineInvariance
  <1>2. Init => Adopted
    BY DEF Init, O!OwnInit, Adopted
  <1>3. Adopted /\ phase = "up" => FileOwned
    BY DEF Adopted, FileOwned
  <1>4. FileOwned => (phase = "gone" => conf # "there")
    BY DEF FileOwned
  <1>5. Spec => []Adopted
    BY <1>1, <1>2, AdoptedStep, PTL DEF Spec
  <1> QED
    BY <1>1, <1>3, <1>4, <1>5, FileOwnedStep, PTL DEF Spec, ConfRemoved
=============================================================================
