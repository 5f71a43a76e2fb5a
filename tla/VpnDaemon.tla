------------------------------ MODULE VpnDaemon ------------------------------
(***************************************************************************)
(* The tunnel control of corpvpnd: AppState of crates/vpndaemon/src/       *)
(* state.rs together with the portal handlers of portal_flow.rs that touch *)
(* the same state.                                                         *)
(*                                                                         *)
(* A task is one RPC connection running one handler at a time (rpc.rs      *)
(* awaits a dispatch before it reads the next request), or the service     *)
(* thread running shutdown.  A handler is cut into actions at its awaits:  *)
(* one action is what runs between two of them, or under one acquisition   *)
(* of the data lock.  A request that is refused without changing any state *)
(* is a guard that does not hold.                                          *)
(*                                                                         *)
(* The engine is the contract of the VpnEngine trait: start brings up one  *)
(* tunnel and may then fail or be cut off after CONNECT_TIMEOUT, stop      *)
(* removes what start brought up.  Settings, log entries, traffic counters *)
(* and the text of an error are abstracted: no property here reads them.   *)
(***************************************************************************)
EXTENDS Sequences, FiniteSets

CONSTANTS
    Clients,      \* RPC connections
    Main,         \* the service thread, the only caller of shutdown
    Profiles,     \* profile ids, each handed out at most once
    PortalIds,    \* those handed out to source=portal profiles
    Invalid,      \* profiles whose validate() fails
    Unsupported,  \* profiles whose kind has no engine in this build
    Requests,     \* what the environment asks for in this instance
    None

AllRequests ==
    {"connect", "disconnect", "state", "delete", "import", "sync", "login",
     "logout", "shutdown", "policy"}

ASSUME DaemonAssumption ==
    /\ Main \notin Clients
    /\ None \notin Profiles \cup Clients \cup {Main}
    /\ None \notin [by : Clients \cup {Main}, profile : Profiles]
    /\ PortalIds \subseteq Profiles
    /\ Requests \subseteq AllRequests

Tasks == Clients \cup {Main}

Status == {"disconnected", "connecting", "connected", "disconnecting", "error"}

\* A status that reports on a profile always names it.
VpnState ==
    {v \in [status : Status, active : Profiles \cup {None}] :
        v.status \in {"connecting", "connected", "error"} => v.active # None}

\* A running tunnel: the task whose engine value started it, and its profile.
Tunnel == [by : Tasks, profile : Profiles]

VARIABLES
    profiles,      \* ids in data.profiles
    minted,        \* ids handed out so far (Profile::new draws a fresh uuid)
    vpn,           \* data.vpn
    session,       \* data.portal_token.is_some()
    requireLogin,  \* the RequireLogin policy, read anew on every use
    queue,         \* engine mutex: its FIFO of tasks, the head is the holder
    slot,          \* Option<ActiveEngine> the mutex guards
    tunnels,       \* tunnels that exist in the operating system
    frame,         \* the last state.changed frame that was broadcast
    daemon,        \* running, stopping, stopped (shutdown returned), exited
    pc,            \* where each task is in its handler
    want,          \* local: the profile asked for, or the active id read
    snap,          \* local: the vpn state read for a frame
    signsIn        \* local: upsert_profiles runs on behalf of login_password

vars == <<profiles, minted, vpn, session, requireLogin, queue, slot, tunnels,
          frame, daemon, pc, want, snap, signsIn>>

Locals == <<want, snap, signsIn>>
Store  == <<profiles, minted, session>>

Labels ==
    {"idle",
     "connectWait", "connectChosen", "starting", "stopping", "failed",
     "disconnectRead", "disconnectWait", "disconnectStopped", "persisting",
     "stateWait",
     "fetching", "upserted", "framed", "signingIn", "revoking"}

\* The task is past the lock().await of the engine mutex and has not released.
Holding == {"connectChosen", "starting", "stopping", "failed", "disconnectStopped"}

TypeOK ==
    /\ profiles \subseteq minted /\ minted \subseteq Profiles
    /\ vpn \in VpnState /\ frame \in VpnState
    /\ session \in BOOLEAN /\ requireLogin \in BOOLEAN
    /\ queue \in Seq(Tasks)
    /\ slot \in Tunnel \cup {None}
    /\ tunnels \subseteq Tunnel
    /\ daemon \in {"running", "stopping", "stopped", "exited"}
    /\ pc \in [Tasks -> Labels]
    /\ want \in [Tasks -> Profiles \cup {None}]
    /\ snap \in [Tasks -> VpnState]
    /\ signsIn \in [Tasks -> BOOLEAN]

Down == [status |-> "disconnected", active |-> None]

Init ==
    /\ profiles \in SUBSET Profiles /\ minted = profiles
    /\ vpn = Down /\ frame = Down
    /\ session \in BOOLEAN /\ requireLogin \in BOOLEAN
    /\ queue = << >> /\ slot = None /\ tunnels = {}
    /\ daemon = "running"
    /\ pc = [t \in Tasks |-> "idle"]
    /\ want = [t \in Tasks |-> None]
    /\ snap = [t \in Tasks |-> Down]
    /\ signsIn = [t \in Tasks |-> FALSE]

-----------------------------------------------------------------------------
(* Building blocks of the handlers. *)

Goto(t, label) == pc' = [pc EXCEPT ![t] = label]

\* The handler answers; its locals go out of scope.
Return(t) ==
    /\ pc' = [pc EXCEPT ![t] = "idle"]
    /\ want' = [want EXCEPT ![t] = None]
    /\ snap' = [snap EXCEPT ![t] = Down]
    /\ signsIn' = [signsIn EXCEPT ![t] = FALSE]

Starts(t, request) == t \in Clients /\ request \in Requests /\ pc[t] = "idle"

\* tokio's Mutex is fair: waiters are served in the order they asked.
Enqueue(t) == queue' = Append(queue, t)
Holds(t)   == queue # << >> /\ Head(queue) = t
Release    == queue' = Tail(queue)

\* set_status: the new state and its frame, under one data write lock.
SetStatus(status, active) ==
    /\ vpn' = [status |-> status, active |-> active]
    /\ frame' = [status |-> status, active |-> active]

-----------------------------------------------------------------------------
(* AppState::connect *)

\* The RequireLogin check, and then the queue for the engine mutex.
ConnectCheck(t, p) ==
    /\ Starts(t, "connect")
    /\ requireLogin => session
    /\ want' = [want EXCEPT ![t] = p]
    /\ Enqueue(t)
    /\ Goto(t, "connectWait")
    /\ UNCHANGED <<Store, vpn, frame, requireLogin, slot, tunnels, daemon, snap, signsIn>>

Usable(p) == p \in profiles /\ p \notin Invalid

MutantMayConnect(t) == Usable(want[t])

\* The slot is empty and the profile is there and valid: it is cloned.
MayConnect(t) == slot = None /\ Usable(want[t])

ConnectChoose(t) ==
    /\ pc[t] = "connectWait" /\ Holds(t)
    /\ MayConnect(t)
    /\ Goto(t, "connectChosen")
    /\ UNCHANGED <<Store, vpn, frame, requireLogin, queue, slot, tunnels, daemon, Locals>>

MutantConnectRefuse(t) ==
    /\ pc[t] = "connectWait" /\ Holds(t)
    /\ ~ MayConnect(t)
    /\ Return(t)
    /\ UNCHANGED <<Store, vpn, frame, requireLogin, queue, slot, tunnels, daemon>>

\* The early returns: a tunnel is up, no such profile, validate() failed.
ConnectRefuse(t) ==
    /\ pc[t] = "connectWait" /\ Holds(t)
    /\ ~ MayConnect(t)
    /\ Release
    /\ Return(t)
    /\ UNCHANGED <<Store, vpn, frame, requireLogin, slot, tunnels, daemon>>

\* set_status(Connecting); then for_profile, whose None is an early return.
ConnectAnnounce(t) ==
    /\ pc[t] = "connectChosen"
    /\ SetStatus("connecting", want[t])
    /\ IF want[t] \in Unsupported
       THEN Release /\ Return(t)
       ELSE Goto(t, "starting") /\ UNCHANGED <<queue, Locals>>
    /\ UNCHANGED <<Store, requireLogin, slot, tunnels, daemon>>

OwnTunnel(t) == [by |-> t, profile |-> want[t]]

MutantTunnelUp(t) ==
    /\ pc[t] \in {"connectChosen", "starting"} /\ OwnTunnel(t) \notin tunnels
    /\ tunnels' = tunnels \cup {OwnTunnel(t)}
    /\ UNCHANGED <<Store, vpn, frame, requireLogin, queue, slot, daemon, pc, Locals>>

\* Inside engine.start: the tunnel comes into being.
TunnelUp(t) ==
    /\ pc[t] = "starting" /\ OwnTunnel(t) \notin tunnels
    /\ tunnels' = tunnels \cup {OwnTunnel(t)}
    /\ UNCHANGED <<Store, vpn, frame, requireLogin, queue, slot, daemon, pc, Locals>>

MutantConnectDone(t) ==
    /\ pc[t] = "starting" /\ OwnTunnel(t) \in tunnels
    /\ SetStatus("connected", want[t])
    /\ Release
    /\ Return(t)
    /\ UNCHANGED <<Store, requireLogin, slot, tunnels, daemon>>

\* start returned Ok: the engine goes into the slot, Connected is announced.
ConnectDone(t) ==
    /\ pc[t] = "starting" /\ OwnTunnel(t) \in tunnels
    /\ slot' = OwnTunnel(t)
    /\ SetStatus("connected", want[t])
    /\ Release
    /\ Return(t)
    /\ UNCHANGED <<Store, requireLogin, tunnels, daemon>>

\* start returned Err, or CONNECT_TIMEOUT dropped its future half-way.
StartFails(t) ==
    /\ pc[t] = "starting"
    /\ Goto(t, "stopping")
    /\ UNCHANGED <<Store, vpn, frame, requireLogin, queue, slot, tunnels, daemon, Locals>>

MutantStopFailed(t) ==
    /\ pc[t] = "stopping"
    /\ Goto(t, "failed")
    /\ UNCHANGED <<Store, vpn, frame, requireLogin, queue, slot, tunnels, daemon, Locals>>

\* engine.stop of the engine that did not come up.
StopFailed(t) ==
    /\ pc[t] = "stopping"
    /\ tunnels' = tunnels \ {OwnTunnel(t)}
    /\ Goto(t, "failed")
    /\ UNCHANGED <<Store, vpn, frame, requireLogin, queue, slot, daemon, Locals>>

MutantConnectErrorSilent(t) ==
    /\ pc[t] = "failed"
    /\ Release
    /\ Return(t)
    /\ UNCHANGED <<Store, vpn, frame, requireLogin, slot, tunnels, daemon>>

\* The failure is announced before the guard is dropped.
ConnectError(t) ==
    /\ pc[t] = "failed"
    /\ SetStatus("error", want[t])
    /\ Release
    /\ Return(t)
    /\ UNCHANGED <<Store, requireLogin, slot, tunnels, daemon>>

-----------------------------------------------------------------------------
(* AppState::disconnect, and AppState::shutdown that runs it in Main *)

\* The active id is read under a read lock of its own.
DisconnectRead(t) ==
    /\ \/ Starts(t, "disconnect") /\ UNCHANGED daemon
       \/ /\ t = Main /\ "shutdown" \in Requests /\ pc[t] = "idle"
          /\ daemon = "running" /\ daemon' = "stopping"
    /\ want' = [want EXCEPT ![t] = vpn.active]
    /\ Goto(t, "disconnectRead")
    /\ UNCHANGED <<Store, vpn, frame, requireLogin, queue, slot, tunnels, snap, signsIn>>

\* Disconnecting is announced without the engine mutex, which is asked for next.
DisconnectAnnounce(t) ==
    /\ pc[t] = "disconnectRead"
    /\ SetStatus("disconnecting", want[t])
    /\ Enqueue(t)
    /\ Goto(t, "disconnectWait")
    /\ UNCHANGED <<Store, requireLogin, slot, tunnels, daemon, Locals>>

MutantDisconnectStop(t) ==
    /\ pc[t] = "disconnectWait"
    /\ slot' = None
    /\ tunnels' = tunnels \ {slot}
    /\ Goto(t, "disconnectStopped")
    /\ UNCHANGED <<Store, vpn, frame, requireLogin, queue, daemon, Locals>>

\* take() the engine, if there is one, and stop it.
DisconnectStop(t) ==
    /\ pc[t] = "disconnectWait" /\ Holds(t)
    /\ slot' = None
    /\ tunnels' = tunnels \ {slot}
    /\ Goto(t, "disconnectStopped")
    /\ UNCHANGED <<Store, vpn, frame, requireLogin, queue, daemon, Locals>>

\* Disconnected is announced before the guard is dropped.  A client's handler answers;
\* shutdown goes on to persist_current, without the engine mutex.
DisconnectDone(t) ==
    /\ pc[t] = "disconnectStopped"
    /\ SetStatus("disconnected", None)
    /\ Release
    /\ IF t = Main THEN Goto(t, "persisting") /\ UNCHANGED Locals ELSE Return(t)
    /\ UNCHANGED <<Store, requireLogin, slot, tunnels, daemon>>

\* persist_current returned, whatever became of it, and with it shutdown.
ShutdownReturns ==
    /\ pc[Main] = "persisting"
    /\ Return(Main)
    /\ daemon' = "stopped"
    /\ UNCHANGED <<Store, vpn, frame, requireLogin, queue, slot, tunnels>>

\* The runtime is shut down: every task is dropped at its await and the process
\* ends.  Children of the engines are not killed with it.
Exit ==
    /\ daemon = "stopped"
    /\ daemon' = "exited"
    /\ UNCHANGED <<Store, vpn, frame, requireLogin, queue, slot, tunnels, pc, Locals>>

-----------------------------------------------------------------------------
(* AppState::state: the counters are read from the engine under its mutex. *)

StateAsk(t) ==
    /\ Starts(t, "state")
    /\ Enqueue(t)
    /\ Goto(t, "stateWait")
    /\ UNCHANGED <<Store, vpn, frame, requireLogin, slot, tunnels, daemon, Locals>>

StateRead(t) ==
    /\ pc[t] = "stateWait" /\ Holds(t)
    /\ Release
    /\ Return(t)
    /\ UNCHANGED <<Store, vpn, frame, requireLogin, slot, tunnels, daemon>>

-----------------------------------------------------------------------------
(* Profiles and the portal session; each body is one data write lock. *)

InUse(p) == vpn.active = p /\ vpn.status # "disconnected"

DeleteProfile(t, p) ==
    /\ Starts(t, "delete")
    /\ p \in profiles /\ ~ InUse(p)
    /\ profiles' = profiles \ {p}
    /\ UNCHANGED <<minted, session, vpn, frame, requireLogin, queue, slot, tunnels, daemon, pc, Locals>>

ImportProfile(t, p) ==
    /\ Starts(t, "import")
    /\ p \in Profiles \ (minted \cup PortalIds)
    /\ profiles' = profiles \cup {p} /\ minted' = minted \cup {p}
    /\ UNCHANGED <<session, vpn, frame, requireLogin, queue, slot, tunnels, daemon, pc, Locals>>

\* sync needs the token, login_password obtains one; both then wait for the portal.
PortalFetch(t) ==
    /\ \/ Starts(t, "sync") /\ session /\ signsIn' = [signsIn EXCEPT ![t] = FALSE]
       \/ Starts(t, "login") /\ signsIn' = [signsIn EXCEPT ![t] = TRUE]
    /\ Goto(t, "fetching")
    /\ UNCHANGED <<Store, vpn, frame, requireLogin, queue, slot, tunnels, daemon, want, snap>>

PortalFetchFails(t) ==
    /\ pc[t] = "fetching"
    /\ Return(t)
    /\ UNCHANGED <<Store, vpn, frame, requireLogin, queue, slot, tunnels, daemon>>

\* upsert_profiles: the kinds the portal still serves keep their profile, a new
\* kind gets a new id, the rest of the portal's profiles go; imports stay.
UpsertProfiles(t) ==
    /\ pc[t] = "fetching"
    /\ \E kept \in SUBSET (profiles \cap PortalIds), new \in SUBSET (PortalIds \ minted) :
          /\ profiles' = (profiles \ PortalIds) \cup kept \cup new
          /\ minted' = minted \cup new
    /\ Goto(t, "upserted")
    /\ UNCHANGED <<session, vpn, frame, requireLogin, queue, slot, tunnels, daemon, Locals>>

\* The frame is built from a read whose guard is dropped before the send.
UpsertReadFrame(t) ==
    /\ pc[t] = "upserted"
    /\ snap' = [snap EXCEPT ![t] = vpn]
    /\ Goto(t, "framed")
    /\ UNCHANGED <<Store, vpn, frame, requireLogin, queue, slot, tunnels, daemon, want, signsIn>>

UpsertSendFrame(t) ==
    /\ pc[t] = "framed"
    /\ frame' = snap[t]
    /\ IF signsIn[t] THEN Goto(t, "signingIn") /\ UNCHANGED Locals ELSE Return(t)
    /\ UNCHANGED <<Store, vpn, requireLogin, queue, slot, tunnels, daemon>>

SetPortalSession(t) ==
    /\ pc[t] = "signingIn"
    /\ session' = TRUE
    /\ Return(t)
    /\ UNCHANGED <<profiles, minted, vpn, frame, requireLogin, queue, slot, tunnels, daemon>>

\* logout reads the session, asks the portal to revoke it and then forgets it.
LogoutRevoke(t) ==
    /\ Starts(t, "logout")
    /\ Goto(t, "revoking")
    /\ UNCHANGED <<Store, vpn, frame, requireLogin, queue, slot, tunnels, daemon, Locals>>

ClearPortalSession(t) ==
    /\ pc[t] = "revoking"
    /\ session' = FALSE
    /\ Return(t)
    /\ UNCHANGED <<profiles, minted, vpn, frame, requireLogin, queue, slot, tunnels, daemon>>

\* The administrator changes the policy; the daemon reads it on the next use.
PolicyUpdate ==
    /\ "policy" \in Requests
    /\ requireLogin' = ~ requireLogin
    /\ UNCHANGED <<Store, vpn, frame, queue, slot, tunnels, daemon, pc, Locals>>

-----------------------------------------------------------------------------
Request(t) ==
    \/ \E p \in Profiles : ConnectCheck(t, p) \/ DeleteProfile(t, p) \/ ImportProfile(t, p)
    \/ DisconnectRead(t) \/ StateAsk(t) \/ PortalFetch(t) \/ LogoutRevoke(t)

ConnectStep(t) ==
    \/ ConnectChoose(t) \/ ConnectRefuse(t) \/ ConnectAnnounce(t)
    \/ TunnelUp(t) \/ ConnectDone(t) \/ StartFails(t) \/ StopFailed(t) \/ ConnectError(t)

DisconnectStep(t) ==
    \/ DisconnectAnnounce(t) \/ DisconnectStop(t) \/ DisconnectDone(t)
    \/ t = Main /\ ShutdownReturns

PortalStep(t) ==
    \/ PortalFetchFails(t) \/ UpsertProfiles(t) \/ UpsertReadFrame(t)
    \/ UpsertSendFrame(t) \/ SetPortalSession(t) \/ ClearPortalSession(t)

\* What a handler in flight does next.
Step(t) == ConnectStep(t) \/ DisconnectStep(t) \/ StateRead(t) \/ PortalStep(t)

Next ==
    /\ daemon # "exited"
    /\ \/ \E t \in Tasks : Request(t) \/ Step(t)
       \/ PolicyUpdate
       \/ Exit

Spec == Init /\ [][Next]_vars

\* The runtime keeps polling every task; engine.start is bounded by
\* CONNECT_TIMEOUT, engine.stop and the portal's answers by their own time limits.
FairSpec ==
    Spec /\ \A t \in Tasks : WF_vars(daemon # "exited" /\ Step(t))

-----------------------------------------------------------------------------
(* Properties. *)

Disconnecting(t) == pc[t] \in {"disconnectWait", "disconnectStopped"}

\* Nobody holds the engine mutex without being at its head, and the tunnels are the
\* slot's and those of the connect in flight.
LockInv == \A t \in Tasks : pc[t] \in Holding => Holds(t)

TunnelInv ==
    /\ \A x \in tunnels :
          \/ x = slot
          \/ pc[x.by] \in {"starting", "stopping"} /\ want[x.by] = x.profile
    /\ slot # None => slot \in tunnels
    /\ \A t \in Tasks : pc[t] \in Holding => slot = None
    /\ \A t \in Tasks :
          pc[t] \in {"connectWait", "connectChosen", "starting", "stopping", "failed"}
             => want[t] \in Profiles

StatusInv ==
    /\ vpn.status = "disconnected" \/ vpn.status = "error" =>
          slot = None /\ \A t \in Tasks : pc[t] \notin {"starting", "stopping", "failed"}
    /\ vpn.status = "connecting" =>
          /\ slot = None
          /\ \/ vpn.active \in Unsupported
             \/ \E t \in Tasks : pc[t] \in {"starting", "stopping", "failed"}
    /\ vpn.status = "connected" =>
          /\ slot # None => slot.profile = vpn.active
          /\ slot = None => \E t \in Tasks : pc[t] = "disconnectStopped"
          /\ \A t \in Tasks : pc[t] \notin {"starting", "stopping", "failed"}
    /\ vpn.status = "disconnecting" => \E t \in Tasks : Disconnecting(t)

IndInv == TypeOK /\ LockInv /\ TunnelInv /\ StatusInv

\* At most one tunnel exists, whatever connects and disconnects overlap
\* (state.rs:1-2, "the only active tunnel").
SingleTunnel == \A a, b \in tunnels : a = b

\* What the status says about the tunnel is so: none is left once disconnected or
\* error is announced, and a connected profile's tunnel is in the slot unless a
\* disconnect has just taken it out.
StatusTruthful ==
    /\ vpn.status \in {"disconnected", "error"} => (tunnels = {} /\ slot = None)
    /\ vpn.status = "connected" =>
          \/ slot # None /\ slot.profile = vpn.active /\ tunnels = {slot}
          \/ \E t \in Tasks : pc[t] = "disconnectStopped"

\* When no task holds the engine mutex and no disconnect waits for it, the slot,
\* the system's tunnels and the announced status tell the same story, and nobody
\* is left looking at a transitional status.
QuietAgreement ==
    (queue = << >> /\ \A t \in Tasks : ~ Disconnecting(t)) =>
       /\ slot # None <=> vpn.status = "connected"
       /\ tunnels = IF slot = None THEN {} ELSE {slot}
       /\ vpn.status # "disconnecting"
       /\ vpn.status = "connecting" => vpn.active \in Unsupported

\* The daemon keeps the promise of TunnelPromise: one tunnel at a time, outcomes
\* only for attempts under way, and a connected tunnel taken down only on request.
Promise == INSTANCE TunnelPromise WITH
    up     <- {x.profile : x \in tunnels},
    status <- vpn.status,
    active <- vpn.active,
    asked  <- \E t \in Tasks : Disconnecting(t)

PromiseKept == Promise!Spec

\* In the step with which a disconnect, a client's or shutdown's, gives the engine
\* mutex back, no tunnel is up, whichever connects queue before and behind it
\* (state.rs:275-276).  It says nothing of shutdown's return, which comes after
\* persist_current: a connect of the queue may have a tunnel up again by then.
DisconnectLeavesNoTunnel ==
    [][\A t \in Tasks :
          pc[t] = "disconnectStopped" /\ pc'[t] # "disconnectStopped" => tunnels' = {}]_vars

\* Every request that was accepted is answered, unless the daemon ends first.
RequestsAnswered ==
    \A t \in Tasks : (pc[t] # "idle") ~> (pc[t] = "idle" \/ daemon = "exited")

\* A transitional status is left again (state.rs:4-6: connecting becomes connected
\* or error, disconnecting becomes disconnected).
StatusSettles ==
    (vpn.status \in {"connecting", "disconnecting"})
       ~> (vpn.status \in {"connected", "error", "disconnected"} \/ daemon = "exited")

\* The profile of the running tunnel is still in the list (state.rs:334-336).
ActiveProfileKept == slot # None => slot.profile \in profiles

\* A daemon that was shut down in order leaves no tunnel behind (state.rs:274).
NothingAfterExit == daemon = "exited" => tunnels = {}
=============================================================================
