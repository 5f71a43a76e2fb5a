----------------------------- MODULE ServiceLife -----------------------------
(***************************************************************************)
(* The life of the daemon's process as a Windows service                   *)
(* (crates/vpndaemon/src/service.rs): the service thread, the ticker that  *)
(* reports progress while the store is read, and the status the service    *)
(* manager was last told.  How the manager starts the process, asks it to  *)
(* stop and restarts it after a crash is what installer.rs arranges.       *)
(***************************************************************************)
EXTENDS Naturals

CONSTANT MaxTicks   \* progress reports of one start; the code makes 29

VARIABLES
    main,      \* the service thread: "none" without a process
    scm,       \* the status last reported
    ticker,    \* the ticker thread
    flag,      \* stop_ticker
    ticks,     \* its checkpoint
    asked,     \* a Stop is in the channel of the control handler
    wanted     \* nobody asked the manager to stop the service

lifeVars == <<main, scm, ticker, flag, ticks, asked, wanted>>

LifeTypeOK ==
    /\ main \in {"none", "entered", "boot", "join", "ready", "running", "stopping",
                 "persisting", "closing", "returned"}
    /\ scm \in {"Stopped", "StartPending", "Running", "StopPending"}
    /\ ticker \in {"none", "asleep", "awake", "ended"}
    /\ flag \in BOOLEAN /\ ticks \in 0 .. MaxTicks
    /\ asked \in BOOLEAN /\ wanted \in BOOLEAN

LifeInit ==
    /\ main = "none" /\ scm = "Stopped" /\ ticker = "none" /\ flag = FALSE
    /\ ticks = 0 /\ asked = FALSE /\ wanted \in BOOLEAN

-----------------------------------------------------------------------------
(* The service manager. *)

\* A user starts the service, or Windows does when it comes up.
UserStarts == scm = "Stopped" /\ main = "none" /\ ~ wanted /\ wanted' = TRUE
              /\ UNCHANGED <<main, scm, ticker, flag, ticks, asked>>

\* The process is started while it is wanted: AutoStart, and the failure actions
\* restart one that ended without having reported Stopped.
Launch ==
    /\ wanted /\ main = "none"
    /\ main' = "entered" /\ scm' = "StartPending"
    /\ ticker' = "none" /\ flag' = FALSE /\ ticks' = 0 /\ asked' = FALSE
    /\ wanted' = wanted

\* controls_accepted holds in every status, so a stop may come while the service is
\* still starting; it waits in the channel.
UserStops ==
    /\ main \notin {"none", "entered"} /\ scm # "Stopped" /\ wanted
    /\ asked' = TRUE /\ wanted' = FALSE
    /\ UNCHANGED <<main, scm, ticker, flag, ticks>>

ProcessDies ==
    /\ main' = "none" /\ scm' = "Stopped" /\ ticker' = "none"
    /\ UNCHANGED <<flag, ticks, asked, wanted>>

-----------------------------------------------------------------------------
(* The service thread. *)

Step(from, to) == main = from /\ main' = to

\* The handler is registered, StartPending is reported and the ticker is spawned.
Enter ==
    /\ Step("entered", "boot") /\ scm' = "StartPending" /\ ticker' = "asleep"
    /\ UNCHANGED <<flag, ticks, asked, wanted>>

\* bootstrap_state returned Ok; the ticker is told to stop.
Booted ==
    /\ Step("boot", "join") /\ flag' = TRUE
    /\ UNCHANGED <<scm, ticker, ticks, asked, wanted>>

\* It returned an error, and with it the service thread; nobody stops the ticker or
\* reports Stopped.
BootFailed ==
    /\ Step("boot", "returned")
    /\ UNCHANGED <<scm, ticker, flag, ticks, asked, wanted>>

\* The manager does not take a report: the service thread returns the error, whatever it
\* was about to do, and with it goes the runtime.
ReportFails ==
    /\ main \in {"entered", "ready", "closing"} \/ (main = "running" /\ asked)
    /\ main' = "returned"
    /\ UNCHANGED <<scm, ticker, flag, ticks, asked, wanted>>

\* Mutant: the ticker is not waited for.
MutantJoined ==
    /\ Step("join", "ready")
    /\ UNCHANGED <<scm, ticker, flag, ticks, asked, wanted>>

Joined ==
    /\ Step("join", "ready") /\ ticker = "ended"
    /\ UNCHANGED <<scm, ticker, flag, ticks, asked, wanted>>

\* Mutant: a stop that came before is forgotten.
MutantReportRunning ==
    /\ Step("ready", "running") /\ scm' = "Running" /\ asked' = FALSE
    /\ UNCHANGED <<ticker, flag, ticks, wanted>>

\* rpc::serve is spawned, and Running reported.
ReportRunning ==
    /\ Step("ready", "running") /\ scm' = "Running"
    /\ UNCHANGED <<ticker, flag, ticks, asked, wanted>>

StopReceived ==
    /\ Step("running", "stopping") /\ asked /\ scm' = "StopPending"
    /\ UNCHANGED <<ticker, flag, ticks, asked, wanted>>

\* In state.shutdown(), disconnect returned.
Disconnected ==
    /\ Step("stopping", "persisting")
    /\ UNCHANGED <<scm, ticker, flag, ticks, asked, wanted>>

\* state.shutdown() returned; the runtime is given 10 s for what is left.
ShutDown ==
    /\ Step("persisting", "closing")
    /\ UNCHANGED <<scm, ticker, flag, ticks, asked, wanted>>

\* Stopped is reported, and the dispatcher lets the process end.
ReportStopped ==
    /\ Step("closing", "none") /\ scm' = "Stopped" /\ ticker' = "none"
    /\ UNCHANGED <<flag, ticks, asked, wanted>>

-----------------------------------------------------------------------------
(* The ticker: it sleeps a second, looks at the flag, and reports. *)

Wake ==
    /\ ticker = "asleep" /\ ticker' = IF flag THEN "ended" ELSE "awake"
    /\ UNCHANGED <<main, scm, flag, ticks, asked, wanted>>

\* Mutant: one report too many.
MutantTick ==
    /\ ticker = "awake" /\ scm' = "StartPending" /\ ticks' = ticks + 1
    /\ ticker' = IF ticks' > MaxTicks \/ flag THEN "ended" ELSE "asleep"
    /\ UNCHANGED <<main, flag, asked, wanted>>

Tick ==
    /\ ticker = "awake" /\ scm' = "StartPending" /\ ticks' = ticks + 1
    /\ ticker' = IF ticks' = MaxTicks \/ flag THEN "ended" ELSE "asleep"
    /\ UNCHANGED <<main, flag, asked, wanted>>

-----------------------------------------------------------------------------
\* What a monitor sees of one life of the process only goes forward: a service that
\* reported Running is not starting again, and one that is stopping does not run
\* (service.rs:106-107).
Rank == [StartPending |-> 1, Running |-> 2, StopPending |-> 3, Stopped |-> 4]

StatusForward ==
    [][main # "none" /\ main' # "none" => Rank[scm'] >= Rank[scm]]_<<main, scm>>
=============================================================================
