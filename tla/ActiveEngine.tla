---------------------------- MODULE ActiveEngine ----------------------------
(***************************************************************************)
(* The engine AppState drives: one of the three, chosen by the profile's   *)
(* kind when it is made (engines/mod.rs:69-127), and what it owes to the   *)
(* trait's contract.                                                       *)
(***************************************************************************)
EXTENDS Naturals, Sequences

CONSTANTS
    Kinds,      \* of profile that are looked at
    Sidecars, Plans, Broken, MaxFaults    \* as in VlessEngine

ASSUME EngineAssumption ==
    /\ Kinds \subseteq {"vless", "openvpn", "wireguard"}
    /\ Plans \subseteq Seq(Sidecars)
    /\ Broken \subseteq Sidecars
    /\ MaxFaults \in Nat

VARIABLES
    kind, phase, conf, owned, cut,
    todo, signal, sup, alive, faults,                               \* VLESS
    at, child, proc, session, joinable, told, status, fresh,        \* OpenVPN
    job, svc                                                        \* WireGuard

V == INSTANCE VlessEngine
O == INSTANCE OpenVpnEngine
W == INSTANCE WireguardEngine

vlessVars     == <<todo, signal, sup, alive, faults>>
openVpnVars   == <<at, child, proc, session, joinable, told, status, fresh>>
wireguardVars == <<job, svc>>

vars == <<kind, phase, conf, owned, cut, vlessVars, openVpnVars, wireguardVars>>

TypeOK ==
    /\ kind \in Kinds
    /\ kind = "vless" => V!TypeOK
    /\ kind = "openvpn" => O!TypeOK
    /\ kind = "wireguard" => W!TypeOK

Init ==
    /\ kind \in Kinds
    /\ phase = "new" /\ conf = "none" /\ owned = FALSE /\ cut = FALSE
    /\ V!OwnInit /\ O!OwnInit /\ W!OwnInit

OnlyVless     == kind = "vless" /\ UNCHANGED <<kind, openVpnVars, wireguardVars>>
OnlyOpenVpn   == kind = "openvpn" /\ UNCHANGED <<kind, vlessVars, wireguardVars>>
OnlyWireguard == kind = "wireguard" /\ UNCHANGED <<kind, vlessVars, openVpnVars>>

Next ==
    \/ OnlyVless /\ V!Next
    \/ OnlyOpenVpn /\ O!Next
    \/ OnlyWireguard /\ W!Next

Spec == Init /\ [][Next]_vars

\* As each engine justifies it.
FairSpec ==
    /\ Spec
    /\ WF_vars(OnlyVless /\ V!Starting) /\ WF_vars(OnlyVless /\ V!Finish)
    /\ \A s \in Sidecars : WF_vars(OnlyVless /\ V!Supervise(s))
    /\ WF_vars(OnlyOpenVpn /\ O!Starting) /\ WF_vars(OnlyOpenVpn /\ (O!Reap \/ O!Join))
    /\ WF_vars(OnlyOpenVpn /\ O!Session)
    /\ WF_vars(OnlyWireguard /\ W!Job) /\ WF_vars(OnlyWireguard /\ W!Starting)
    /\ WF_vars(OnlyWireguard /\ W!Finish)

-----------------------------------------------------------------------------
Running ==
    (IF kind = "vless" THEN V!Running ELSE {}) \cup O!Running \cup W!Running

\* What the engine started runs only from its start to the end of its stop, except
\* after a start that its caller dropped (engines/mod.rs:55-61).
Contract == INSTANCE EngineContract WITH
    Things <- Sidecars \cup {"openvpn", "service"}, running <- Running

ContractKept == Contract!Spec

\* A start ends, in Ok or Err, and a stop ends.
StartReturns == (phase = "starting") ~> (phase \in {"up", "failed"})
StopReturns  == (phase = "stopping") ~> (phase = "gone")

\* The configuration, which holds the keys, does not outlive the stop of an engine
\* that was up (engines/mod.rs:59-60), unless the file system refuses the removal: its
\* error is dropped (vless.rs:145, openvpn.rs:240, wireguard.rs:107), nobody tries again,
\* and the file stays until the sweep of the next start.
ConfRemoved == [](phase = "up" => [](phase = "gone" => conf # "there"))

\* A sidecar that died is restarted until the engine is stopped (vless.rs:12-13).
SidecarsRestarted == V!Restarted

\* A start that was not cut off has not left the service of a crashed daemon running,
\* although it cannot create its own over it and may fail (wireguard.rs:95-98, 129-134).
LeftoverCleared ==
    [][kind = "wireguard" /\ phase = "starting" /\ phase' # "starting" /\ ~ cut'
          => svc' # "leftover"]_vars

\* A running openvpn loses its handle only when its start is dropped.
HandleLostOnlyByCutOff == O!LostOnlyByCutOff

\* After stop nothing is left running (engines/mod.rs:59-60, "full stop and
\* clean-up: kill the processes, delete the services").
NothingLeft == phase = "gone" => Running = {}
=============================================================================
