--------------------------- MODULE EngineContract ---------------------------
(***************************************************************************)
(* The agreement with a VPN engine (engines/mod.rs:53-64), as AppState     *)
(* relies on it: what an engine starts runs from its start to the end of   *)
(* its stop and no longer, unless its start was dropped half-way.          *)
(***************************************************************************)
CONSTANT Things    \* the processes and services an engine may start

VARIABLES
    phase,    \* new, starting, up, failed, stopping, gone
    running,  \* what it started and is still running
    cut       \* start was dropped by its caller before it returned

vars == <<phase, running, cut>>

Init == phase = "new" /\ running = {} /\ cut = FALSE

Move(from, to) == phase = from /\ phase' = to

Begin == Move("new", "starting") /\ UNCHANGED cut

Refuse == Move("new", "failed") /\ UNCHANGED <<running, cut>>

Succeed == Move("starting", "up") /\ UNCHANGED <<running, cut>>

Fail == Move("starting", "failed") /\ cut' \in BOOLEAN

Stop == (Move("up", "stopping") \/ Move("failed", "stopping")) /\ UNCHANGED cut

Finish ==
    /\ Move("stopping", "gone")
    /\ running' = {} \/ cut
    /\ UNCHANGED cut

\* Processes come and go while the engine lives, and a start that was dropped
\* may go on behind its back.
Work ==
    /\ phase # "new" /\ (phase = "gone" => cut)
    /\ UNCHANGED <<phase, cut>>

Next ==
    /\ Begin \/ Refuse \/ Succeed \/ Fail \/ Stop \/ Finish \/ Work
    /\ running' \in SUBSET Things

Spec == Init /\ [][Next]_vars
=============================================================================
