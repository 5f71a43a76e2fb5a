--------------------------- MODULE TunnelPromise ---------------------------
(***************************************************************************)
(* What the daemon promises a client that watches state.changed and the    *)
(* machine it runs on (state.rs:1-7): one tunnel at a time, and a status   *)
(* that can be believed.  Nothing here knows of tasks, locks or engines.   *)
(***************************************************************************)
CONSTANTS Profiles, None

VARIABLES
    up,      \* profiles whose tunnel is up
    status,  \* what was last announced
    active,  \* and for which profile
    asked    \* a disconnect was announced and is not finished

vars == <<up, status, active, asked>>

Init == up = {} /\ status = "disconnected" /\ active = None /\ asked = FALSE

Announce(s, p) == status' = s /\ active' = p

Attempted == status \in {"connecting", "disconnecting"}

\* An attempt begins only when no tunnel is up.
Begin(p) == up = {} /\ Announce("connecting", p) /\ UNCHANGED <<up, asked>>

\* A tunnel comes up only during an attempt, and only when none is up.
Raise(p) == Attempted /\ up = {} /\ up' = {p} /\ UNCHANGED <<status, active, asked>>

Succeed(p) ==
    /\ Attempted /\ up = {p}
    /\ Announce("connected", p)
    /\ UNCHANGED <<up, asked>>

Fail(p) ==
    /\ Attempted /\ up = {}
    /\ Announce("error", p)
    /\ UNCHANGED <<up, asked>>

Ask(p) == Announce("disconnecting", p) /\ asked' = TRUE /\ UNCHANGED up

\* A tunnel that was announced as connected goes down only on request.
Lower ==
    /\ status = "connected" => asked
    /\ up' = {}
    /\ UNCHANGED <<status, active, asked>>

\* Other disconnects may still wait for their turn.
Stopped ==
    /\ asked /\ up = {}
    /\ Announce("disconnected", None)
    /\ asked' \in BOOLEAN
    /\ UNCHANGED up

Next ==
    \/ \E p \in Profiles : Begin(p) \/ Raise(p) \/ Succeed(p) \/ Fail(p)
    \/ \E p \in Profiles \cup {None} : Ask(p)
    \/ Lower \/ Stopped

Spec == Init /\ [][Next]_vars
=============================================================================
