---------------------------- MODULE MCVpnDaemon ----------------------------
(***************************************************************************)
(* Instances of VpnDaemon for TLC.                                         *)
(***************************************************************************)
EXTENDS VpnDaemon, TLC

\* A store that holds every profile but those still to be handed out.
CONSTANT ToCome

MCInit ==
    /\ Init
    /\ profiles = Profiles \ ToCome
    /\ session /\ (requireLogin <=> "policy" \notin Requests)

MCSpec == MCInit /\ [][Next]_vars

MCFairSpec == MCSpec /\ \A t \in Tasks : WF_vars(daemon # "exited" /\ Step(t))

ClientSymmetry == Permutations(Clients)
=============================================================================
