----------------------------- MODULE DaemonLife -----------------------------
(***************************************************************************)
(* The daemon from start to stop, crash and restart: the service thread of *)
(* ServiceLife runs the start of Store (crates/vpndaemon/src/lib.rs,       *)
(* bootstrap_state), serves the handlers of Store and PortalSession while  *)
(* the RPC server is up, and saves once more when it is stopped.  A crash  *)
(* may come at any step; what is on disk and what the engines left behind  *)
(* is what the next life finds.                                            *)
(***************************************************************************)
EXTENDS PortalSession

CONSTANTS
    MaxTicks,    \* as in ServiceLife
    Scenarios    \* which requests are made in one behaviour

VARIABLES
    main, scm, ticker, flag, ticks, asked, wanted,   \* of ServiceLife
    tunnels,     \* "up": this daemon's engine; "left": processes of a dead daemon
    conf,        \* the configurations in the tunnels directory, which hold keys: "used",
                 \* "left" by a dead daemon, "stuck" as one could not be removed
    scenario

L == INSTANCE ServiceLife

lifeVars == <<main, scm, ticker, flag, ticks, asked, wanted>>
vars == <<storeVars, portalVars, lifeVars, tunnels, conf, scenario>>

ASSUME LifeAssumption ==
    /\ FlowKinds \subseteq {"login", "oidc", "sync", "logout"}
    /\ MaxTicks \in Nat \ {0}
    /\ Scenarios \subseteq SUBSET {"data", "portal", "tunnel", "stop", "policy"}

TypeOK ==
    /\ StoreTypeOK /\ PortalTypeOK /\ L!LifeTypeOK
    /\ tunnels \subseteq {"up", "left"} /\ conf \subseteq {"used", "left", "stuck"}
    /\ scenario \in Scenarios

Init ==
    /\ StoreInit /\ PortalInit /\ L!LifeInit
    /\ tunnels = {} /\ conf = {}
    /\ scenario \in Scenarios

-----------------------------------------------------------------------------
(* The start. *)

\* Mutant: the directory is only made sure of.
MutantSweep ==
    /\ main = "boot" /\ boot = "down" /\ boot' = "key"
    /\ UNCHANGED <<mem, inUse, io, writer, files, minted, policyUrl, faults, acked, open,
                   base, portalVars, lifeVars, tunnels, conf, scenario>>

\* ensure_dirs and secure_data_paths: configurations of earlier lives are removed; a
\* file that cannot be removed is only logged.
Sweep ==
    /\ main = "boot" /\ boot = "down" /\ boot' = "key"
    /\ \/ conf' = {} /\ faults' = faults
       \/ conf # {} /\ conf' = {"stuck"} /\ Fault
    /\ UNCHANGED <<mem, inUse, io, writer, files, minted, policyUrl, acked, open, base,
                   portalVars, lifeVars, tunnels, scenario>>

\* The runtime is not built, or ensure_dirs cannot make a directory.
StartFails ==
    /\ main = "boot" /\ boot = "down" /\ Fault /\ boot' = "failed"
    /\ UNCHANGED <<mem, inUse, io, writer, files, minted, policyUrl, acked, open, base,
                   portalVars, lifeVars, tunnels, conf, scenario>>

Boot == main = "boot" /\ Booting /\ UNCHANGED <<portalVars, lifeVars, tunnels, conf, scenario>>

\* bootstrap_state's result decides what the service thread does next.
BootEnds ==
    /\ \/ boot = "up" /\ L!Booted
       \/ boot \in {"failed", "loadFailed"} /\ L!BootFailed
    /\ UNCHANGED <<storeVars, portalVars, tunnels, conf, scenario>>

ServiceThread ==
    /\ L!Enter \/ L!Joined \/ L!ReportRunning \/ L!StopReceived
    /\ UNCHANGED <<storeVars, portalVars, tunnels, conf, scenario>>

Ticker ==
    /\ L!Wake \/ L!Tick
    /\ UNCHANGED <<storeVars, portalVars, tunnels, conf, scenario>>

-----------------------------------------------------------------------------
(* Serving; the RPC server is not stopped before the runtime is. *)

Serving == main \in {"running", "stopping", "persisting", "closing"}

DataRequest ==
    /\ Serving /\ "data" \in scenario /\ Handling
    /\ UNCHANGED <<portalVars, lifeVars, tunnels, conf, scenario>>

\* A save goes on, and its handler answers.
Save == (Saving \/ Answering) /\ UNCHANGED <<portalVars, lifeVars, tunnels, conf, scenario>>

PortalRequest ==
    /\ Serving /\ "portal" \in scenario /\ \E f \in Flows : Asking(f)
    /\ UNCHANGED <<lifeVars, tunnels, conf, scenario>>

FlowSteps(f) ==
    /\ Serving /\ Flow(f)
    /\ UNCHANGED <<lifeVars, tunnels, conf, scenario>>

BrowserSteps ==
    /\ Serving /\ \E f \in Flows : Browser(f)
    /\ UNCHANGED <<lifeVars, tunnels, conf, scenario>>

\* An engine takes its configuration with it, unless it cannot be removed.
EngineStops ==
    /\ "up" \in tunnels /\ tunnels' = tunnels \ {"up"}
    /\ \/ conf' = conf \ {"used"} /\ faults' = faults
       \/ conf' = (conf \ {"used"}) \cup {"stuck"} /\ Fault

\* It is started on a file of its own, or on one that was left.
EngineStarts ==
    /\ "up" \notin tunnels /\ tunnels' = tunnels \cup {"up"}
    /\ conf' \in {conf \cup {"used"}, {"used"}} /\ faults' = faults

\* An engine is started or stopped; to what purpose is VpnDaemon's subject.
TunnelRequest ==
    /\ Serving /\ "tunnel" \in scenario
    /\ EngineStarts \/ EngineStops
    /\ UNCHANGED <<mem, inUse, boot, io, writer, files, minted, policyUrl, acked, open,
                   base, portalVars, lifeVars, scenario>>

-----------------------------------------------------------------------------
(* The end. *)

\* AppState::shutdown: the tunnel is taken down,
ShutdownStops ==
    /\ L!Disconnected
    /\ \/ EngineStops
       \/ "up" \notin tunnels /\ UNCHANGED <<tunnels, conf, faults>>
    /\ UNCHANGED <<mem, inUse, boot, io, writer, files, minted, policyUrl, acked, open,
                   base, portalVars, scenario>>

\* and the data saved once more.
ShutdownSaves ==
    /\ main = "persisting" /\ Change("shutdown", mem)
    /\ UNCHANGED <<acked, open, portalVars, lifeVars, tunnels, conf, scenario>>

ShutdownEnds ==
    /\ writer = "shutdown" /\ io \in {"saved", "refused"} /\ Unlock /\ L!ShutDown
    /\ UNCHANGED <<acked, open, portalVars, tunnels, conf, scenario>>

\* What ends with the process, and what does not.
Gone ==
    /\ ProcessGone /\ FlowsGone
    /\ tunnels' = IF "up" \in tunnels THEN {"left"} ELSE tunnels
    /\ conf' = IF "used" \in conf THEN (conf \ {"used"}) \cup {"left"} ELSE conf
    /\ UNCHANGED scenario

Exit == L!ReportStopped /\ Gone /\ UNCHANGED faults

Crash == main # "none" /\ L!ProcessDies /\ Gone /\ Fault

\* The runtime goes with the service thread, once a save is through; the process stays.
ReportFails == L!ReportFails /\ io = "rest" /\ Gone /\ Fault

\* The service manager and its users, damage to the files, and the policies.
Outside ==
    \/ /\ \/ L!Launch
          \/ L!UserStarts
          \/ "stop" \in scenario /\ L!UserStops
       /\ UNCHANGED <<storeVars, portalVars, tunnels, conf, scenario>>
    \/ Damage /\ UNCHANGED <<portalVars, lifeVars, tunnels, conf, scenario>>
    \/ /\ "policy" \in scenario /\ PolicyChanges
       /\ UNCHANGED <<portalVars, lifeVars, tunnels, conf, scenario>>

-----------------------------------------------------------------------------
Next ==
    \/ Sweep \/ StartFails \/ Boot \/ BootEnds \/ ServiceThread \/ Ticker
    \/ DataRequest \/ Save \/ PortalRequest \/ BrowserSteps \/ TunnelRequest
    \/ \E f \in Flows : FlowSteps(f)
    \/ ShutdownStops \/ ShutdownSaves \/ ShutdownEnds \/ Exit \/ ReportFails
    \/ Crash \/ Outside

Spec == Init /\ [][Next]_vars

\* The service manager launches what is wanted, threads run, a save ends, each wait of
\* a flow has its limit (20 s for the portal, 300 s for the browser), and who waits for
\* the data's lock gets it, as it is handed over in order. An engine's stop has no
\* limit, and is not said to end.
Fairness ==
    /\ WF_vars(L!Launch /\ UNCHANGED <<storeVars, portalVars, tunnels, conf, scenario>>)
    /\ WF_vars(Sweep \/ Boot \/ BootEnds \/ ServiceThread) /\ WF_vars(Ticker)
    /\ WF_vars(Save) /\ \A f \in Flows : WF_vars(FlowSteps(f))
    /\ SF_vars(ShutdownSaves) /\ WF_vars(ShutdownEnds \/ Exit)

FairSpec == Spec /\ Fairness

-----------------------------------------------------------------------------
\* An error of this very start keeps the service down: of the runtime, the directories
\* or the key, or of a report to the service manager.
StartGivenUp == boot = "failed" \/ (main = "returned" /\ boot = "down")

\* Whatever the store and the key it finds look like, a start brings the service up
\* (state.rs:98-100, store.rs:129-131), also when the store cannot be read or what does
\* not open cannot be set aside; a crash or a user's stop ends the wait.
ComesUp == (main = "entered") ~> (main \in {"none", "running"} \/ StartGivenUp)

\* What a monitor of the service sees goes forward (service.rs:106-107).
StatusForward == L!StatusForward

EngineStopEnds == (main = "stopping") ~> (main # "stopping")

\* The start, or a report, failed, and the service thread has returned without a word:
\* the handler goes on to take stops (service.rs:58-60), which nobody receives.
StopLost == main = "returned"

\* If the engine's stop ends, which it need not (service.rs:123), a stop ends the
\* process, also one that came while the service was starting; a stop that is lost is
\* not obeyed, and there is no other way to lose one.
StopObeyed == EngineStopEnds => (asked ~> (main = "none" \/ StopLost))

\* Once the daemon is up, the keys of earlier lives are gone from the tunnels
\* directory, except what could not be removed (paths.rs:83-86).
KeysSwept == (boot = "up" /\ "up" \notin tunnels) => conf \subseteq {"stuck"}
=============================================================================
