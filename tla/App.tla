--------------------------------- MODULE App ---------------------------------
(***************************************************************************)
(* The application (run() in app/src-tauri/src/lib.rs): AppClient's window *)
(* and connections over the daemon that AppDaemon starts.  In the scenario *)
(* "launch" there is a daemon when the first started process has its       *)
(* socket; in the others it is somebody else's, the Windows service, and   *)
(* AppDaemon only looks for it.                                            *)
(***************************************************************************)
EXTENDS AppClient

VARIABLES launcher, attempt, child, procs, app, excused   \* of AppDaemon

D == INSTANCE AppDaemon

launchVars == <<launcher, attempt, child, procs, app, excused>>
appVars == <<vars, launchVars>>

AppTypeOK == TypeOK /\ D!LaunchTypeOK

\* Scenarios without "down" have their daemon from the beginning.
AppInit ==
    /\ Init /\ D!LaunchInit
    /\ "launch" \in scenario => ~ up
    /\ up \/ {"down", "launch"} \cap scenario # {}

Launches == "launch" \in scenario

\* The first socket is the daemon's; a second one only takes the name over.
Bind(k) ==
    /\ Launches /\ D!Binds(k)
    /\ IF up THEN UNCHANGED vars ELSE Up /\ UNCHANGED <<clientVars, scenario>>

Launching ==
    /\ Launches
    /\ D!Launcher(up) \/ \E k \in D!Attempts : D!Fails(k)
    /\ UNCHANGED vars

\* The window and its connections end with the application; the model stops there.
Exiting == Launches /\ (D!Kill \/ D!Exited) /\ UNCHANGED vars

Running == app = "running"

Linked == Running /\ Next /\ UNCHANGED launchVars

AppNext == Launching \/ (\E k \in D!Attempts : Bind(k)) \/ Exiting \/ Linked

AppSpec == AppInit /\ [][AppNext]_appVars

\* Tasks run, dispatch returns (RequestsAnswered of VpnDaemon), a waiting time ends,
\* and the launcher and what it spawned go on.
AppFairSpec ==
    /\ AppSpec
    /\ WF_appVars(Running /\ Listen /\ UNCHANGED launchVars)
    /\ WF_appVars(Running /\ Sending /\ UNCHANGED launchVars)
    /\ \A c \in Conns :
        /\ WF_appVars(Running /\ ServerSteps(c) /\ UNCHANGED launchVars)
        /\ WF_appVars(Running /\ ClientSteps(c) /\ UNCHANGED launchVars)
    /\ WF_appVars(Launching) /\ \A k \in D!Attempts : WF_appVars(Bind(k))

-----------------------------------------------------------------------------
\* The application takes its daemon with it (lib.rs:110), but for a process it gave up
\* waiting for, or one it was just starting when it exited.
ExitTakesDaemon == D!ExitTakesDaemon

\* A request that does not fit the system's buffer is half written, and its handler waits
\* to write a notification that the client does not read: no limit of time ends either
\* wait (transport.rs:59, 77; rpc.rs:320).
Entangled(c) ==
    method[c] = "send" /\ client[c] \in {"writing", "halfway"} /\ server[c] = "sending"

\* Every call returns, whatever the daemon does and however much it logs
\* (transport.rs:92-113), but for one that is entangled with its handler.
CallsReturn ==
    \A c \in Calls : (client[c] # "closed") ~>
                       (client[c] = "closed" \/ Entangled(c) \/ ~ Running)

\* What became of an action reaches the window even if its call was given up
\* (Main.tsx:79: the outcome comes through state.changed), unless its frame is lost or
\* the daemon goes down.
OutcomeShown ==
    \A v \in Versions : (version = v) ~> (newest >= v \/ v \in lost \/ ~ up \/ ~ Running)

\* Notifications come back after any break, while there is a daemon.
PumpReturns == (up /\ client[Pump] = "closed") ~> (Subscribed(Pump) \/ ~ up \/ ~ Running)

\* The window recovers from a daemon that was not there when it came up (App.tsx:146:
\* it retries while the daemon does not answer).
WindowRecovers == (window = "fatal") ~> (window # "fatal" \/ ~ up \/ ~ Running)
=============================================================================
