---------------------------- MODULE MCDaemonLife ----------------------------
(***************************************************************************)
(* Instances of DaemonLife for TLC.                                        *)
(***************************************************************************)
EXTENDS DaemonLife, TLC

\* Two faults where little else happens, one with the portal's flows, none where the
\* handlers race the shutdown; the portal's address is a policy where its flows are
\* looked at.
MCInit ==
    /\ Init
    /\ faults = CASE {"data", "stop"} \subseteq scenario -> MaxFaults
                  [] "portal" \in scenario -> MaxFaults - 1
                  [] OTHER -> MaxFaults - 2
    /\ policyUrl = IF "portal" \in scenario THEN CHOOSE url \in Urls : TRUE ELSE None

MCSpec == MCInit /\ [][Next]_vars

MCFairSpec == MCSpec /\ Fairness
=============================================================================
