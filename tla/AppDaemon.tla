------------------------------ MODULE AppDaemon ------------------------------
(***************************************************************************)
(* The daemon as the application starts and ends it outside Windows        *)
(* (unix_daemon in app/src-tauri/src/lib.rs): a thread spawns it, waits    *)
(* 5 s for its socket, tries a second time, and exit kills the child that  *)
(* was remembered last.                                                    *)
(***************************************************************************)
EXTENDS Naturals, FiniteSets

VARIABLES
    launcher,   \* the thread of ensure()
    attempt,    \* 1 or 2
    child,      \* CHILD: the attempt whose process is remembered, 0 if none
    procs,      \* what each attempt started
    app,        \* "exiting" from kill() to the end of the process
    excused     \* history: processes given up while they started, or spawned and not
                \* remembered when the application exited

launchVars == <<launcher, attempt, child, procs, app, excused>>

Attempts == 1 .. 2

LaunchTypeOK ==
    /\ launcher \in {"check", "spawn", "adopt", "wait", "done"}
    /\ attempt \in Attempts /\ child \in 0 .. 2 /\ excused \subseteq Attempts
    /\ procs \in [Attempts -> {"none", "starting", "serving", "gone"}]
    /\ app \in {"running", "exiting", "gone"}

LaunchInit ==
    /\ launcher = "check" /\ attempt = 1 /\ child = 0 /\ excused = {}
    /\ procs = [k \in Attempts |-> "none"] /\ app = "running"

Alive(k) == procs[k] \in {"starting", "serving"}

\* The thread runs until the process ends, also while it exits.
Goes(from, to) == app # "gone" /\ launcher = from /\ launcher' = to

-----------------------------------------------------------------------------
\* A daemon that serves already is left alone: serving says whether one does.
Check(serving) ==
    /\ Goes("check", IF serving THEN "done" ELSE "spawn")
    /\ UNCHANGED <<attempt, child, procs, app, excused>>

Spawn ==
    /\ Goes("spawn", "adopt")
    /\ procs' = [procs EXCEPT ![attempt] = "starting"]
    /\ UNCHANGED <<attempt, child, app, excused>>

\* After the first attempt comes the second, after it the end.
NextAttempt(from) ==
    /\ Goes(from, IF attempt = 1 THEN "spawn" ELSE "done")
    /\ attempt' = 2
    /\ UNCHANGED <<child, procs, app>>

SpawnFails == NextAttempt("spawn") /\ UNCHANGED excused

\* Mutant: the child is not remembered.
MutantAdopt ==
    /\ Goes("adopt", "wait") /\ UNCHANGED <<attempt, child, procs, app, excused>>

\* CHILD is overwritten; a Child that is dropped runs on.
Adopt ==
    /\ Goes("adopt", "wait") /\ child' = attempt
    /\ UNCHANGED <<attempt, procs, app, excused>>

SeesSocket(serving) ==
    /\ serving /\ Goes("wait", "done")
    /\ UNCHANGED <<attempt, child, procs, app, excused>>

\* 50 looks, 100 ms apart.
TooSlow(serving) ==
    /\ ~ serving /\ NextAttempt("wait")
    /\ excused' = excused \cup (IF attempt = 1 THEN {1} ELSE {})

Launcher(serving) ==
    \/ Check(serving) \/ Spawn \/ SpawnFails \/ Adopt
    \/ SeesSocket(serving) \/ TooSlow(serving)

-----------------------------------------------------------------------------
(* The processes. *)

Binds(k) ==
    /\ procs[k] = "starting" /\ procs' = [procs EXCEPT ![k] = "serving"]
    /\ UNCHANGED <<launcher, attempt, child, app, excused>>

Fails(k) ==
    /\ procs[k] = "starting" /\ procs' = [procs EXCEPT ![k] = "gone"]
    /\ UNCHANGED <<launcher, attempt, child, app, excused>>

-----------------------------------------------------------------------------
(* RunEvent::Exit: kill(), and the end of the process. *)

Kill ==
    /\ app = "running" /\ app' = "exiting"
    /\ procs' = [k \in Attempts |-> IF k = child /\ Alive(k) THEN "gone" ELSE procs[k]]
    /\ child' = 0
    /\ UNCHANGED <<launcher, attempt, excused>>

Exited ==
    /\ app = "exiting" /\ app' = "gone"
    /\ excused' = excused \cup (IF launcher = "adopt" THEN {attempt} ELSE {child} \ {0})
    /\ UNCHANGED <<launcher, attempt, child, procs>>

-----------------------------------------------------------------------------
\* The application takes its daemon with it (lib.rs:110), but for a process it gave up
\* waiting for, or one it was just starting when it exited.
ExitTakesDaemon == app = "gone" => \A k \in Attempts : Alive(k) => k \in excused
=============================================================================
