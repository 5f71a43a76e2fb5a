------------------------------ MODULE AppClient ------------------------------
(***************************************************************************)
(* The application over RpcLink: a connection for every call and one for   *)
(* the notifications (app/src-tauri/src/transport.rs), and the window's    *)
(* picture of the daemon (app/ui/src/App.tsx).  The window lists the       *)
(* profiles and then asks for the state when it comes up and after what    *)
(* the user did; in between it relies on notifications.                    *)
(***************************************************************************)
EXTENDS RpcLink

CONSTANTS
    Scenarios,  \* what happens in one behaviour, besides the first refresh; with "once"
                \* the state changes no more than once
    MaxLines,   \* lines read for one answer; 50 in the code
    MaxTries    \* attempts to open a busy pipe; 25 in the code

ASSUME ClientAssumption ==
    /\ MaxLines \in Nat \ {0} /\ MaxTries \in Nat \ {0}
    /\ Scenarios \subseteq SUBSET {"status", "once", "log", "draft", "down", "act", "send",
                               "refresh", "launch"}

VARIABLES
    client,   \* where each connection's user is
    method,   \* what a call asks: "list", "get", or "act" for any other, "send" if what
              \* it sends is more than the system keeps (a configuration)
    count,    \* attempts to open, then lines read
    window,   \* what App shows: "loading", "main" or "fatal"
    refresh,  \* where refresh() is
    listening, \* it has subscribed to what the pump passes on
    shown,    \* the version in the window
    newest,   \* history: the newest version the window ever showed
    scenario

clientVars == <<client, method, count, window, refresh, listening, shown, newest>>
vars == <<linkVars, clientVars, scenario>>

Calls == Conns \ {Pump}

TypeOK ==
    /\ LinkTypeOK
    /\ client \in [Conns -> {"closed", "opening", "writing", "halfway", "ending", "reading"}]
    /\ method \in [Conns -> {"list", "get", "act", "send"}]
    /\ count \in [Conns -> 0 .. IF MaxTries < MaxLines THEN MaxLines ELSE MaxTries]
    /\ window \in {"loading", "main", "fatal"}
    /\ refresh \in {"rest", "list", "listing", "get", "getting"}
    /\ listening \in BOOLEAN
    /\ shown \in Versions /\ newest \in Versions /\ scenario \in Scenarios

Init ==
    /\ LinkInit
    /\ client = [c \in Conns |-> "closed"] /\ method = [c \in Conns |-> "act"]
    /\ count = [c \in Conns |-> 0]
    /\ window = "loading" /\ refresh = "list" /\ listening = FALSE /\ shown = 0 /\ newest = 0
    /\ scenario \in Scenarios

-----------------------------------------------------------------------------
(* roundtrip *)

Is(c, s) == client' = [client EXCEPT ![c] = s]

\* A slot is free when the handler of its last user is gone too.
Begin(c, m) ==
    /\ c \in Calls /\ client[c] = "closed" /\ server[c] = "none"
    /\ Is(c, "opening") /\ method' = [method EXCEPT ![c] = m]
    /\ count' = [count EXCEPT ![c] = 0]

\* A new connection has nothing of the one before it.
Opened(c) ==
    /\ up /\ server[c] = "none"
    /\ server' = [server EXCEPT ![c] = "waiting"]
    /\ input' = [input EXCEPT ![c] = <<>>] /\ output' = [output EXCEPT ![c] = <<>>]
    /\ UNCHANGED <<up, version, syncs, draft, sub, lagged, torn, lost>>

Open(c) ==
    /\ c \in Calls /\ client[c] = "opening" /\ Opened(c)
    /\ Is(c, "writing") /\ count' = [count EXCEPT ![c] = 0]
    /\ UNCHANGED <<method, window, refresh, listening, shown, newest>>

\* ERROR_PIPE_BUSY: 200 ms, and again.
Busy(c) ==
    /\ client[c] = "opening" /\ up /\ count[c] + 1 < MaxTries
    /\ count' = [count EXCEPT ![c] = count[c] + 1]
    /\ UNCHANGED <<linkVars, client, method, window, refresh, listening, shown, newest>>

\* The line and its end are written one after the other. What fits the system's buffer
\* is written at once.
Write(c) ==
    /\ server[c] # "none"
    /\ \/ /\ client[c] = "writing" /\ method[c] # "send" /\ Is(c, "ending")
          /\ input' = [input EXCEPT ![c] = Append(input[c], "text")]
       \/ /\ client[c] = "ending" /\ Is(c, "reading")
          /\ \E e \in {"end"} \cup {"over" : m \in {"send"} \cap {method[c]}} :
               input' = [input EXCEPT ![c] = Append(input[c], e)]
    /\ UNCHANGED <<up, version, syncs, draft, sub, lagged, server, output, torn, lost,
                   method, count, window, refresh, listening, shown, newest>>

\* What does not is written, here in two pieces, as the handler reads it, and without a
\* limit of time.
WriteLarge(c) ==
    /\ method[c] = "send" /\ client[c] \in {"writing", "halfway"}
    /\ server[c] \in {"idle", "half"}
    /\ server' = [server EXCEPT ![c] = "half"]
    /\ Is(c, IF client[c] = "writing" THEN "halfway" ELSE "ending")
    /\ UNCHANGED <<up, version, syncs, draft, sub, lagged, input, output, torn, lost,
                   method, count, window, refresh, listening, shown, newest>>

\* The call returns, and its locals are gone.
Ends(c) ==
    /\ Is(c, "closed")
    /\ method' = [method EXCEPT ![c] = "act"] /\ count' = [count EXCEPT ![c] = 0]

Reads(c) ==
    /\ client[c] = "reading" /\ output[c] # <<>>
    /\ output' = [output EXCEPT ![c] = Tail(output[c])]
    /\ UNCHANGED <<up, version, syncs, draft, sub, lagged, server, input, torn>>

\* A notification, or an error without the id, is skipped, but counts.
Skip(c) ==
    /\ c \in Calls /\ Reads(c) /\ lost' = lost /\ Head(output[c]).what # "answer"
    /\ count[c] + 1 < MaxLines /\ count' = [count EXCEPT ![c] = count[c] + 1]
    /\ UNCHANGED <<client, method, window, refresh, listening, shown, newest>>

\* What refresh() does with an answer, or with an error: a rejected invoke is no
\* RpcError, so the window gives up, and stays so.
Show(v) == shown' = v /\ newest' = IF v > newest THEN v ELSE newest

Refreshed(c) ==
    LET v == Head(output[c]).of IN
    CASE method[c] = "list" -> refresh' = "get" /\ UNCHANGED <<window, shown, newest>>
      [] method[c] = "get"  ->
           /\ refresh' = "rest" /\ Show(v)
           /\ window' = IF window = "loading" THEN "main" ELSE window
      [] OTHER -> UNCHANGED <<window, refresh, listening, shown, newest>>

Answered(c) ==
    /\ c \in Calls /\ Reads(c) /\ Head(output[c]).what = "answer"
    /\ Ends(c) /\ Refreshed(c) /\ UNCHANGED <<lost, listening>>

\* The call ends with an error.
GiveUp(c) ==
    /\ Ends(c)
    /\ IF method[c] \in {"list", "get"} THEN window' = "fatal" /\ refresh' = "rest"
                                         ELSE UNCHANGED <<window, refresh>>
    /\ UNCHANGED <<linkVars, listening, shown, newest>>

\* The socket or the pipe cannot be opened, is busy for too long, or breaks.
Refused(c) ==
    /\ c \in Calls
    /\ \/ client[c] = "opening" /\ (~ up \/ count[c] + 1 = MaxTries)
       \/ client[c] \in {"writing", "halfway", "ending"} /\ server[c] = "none"
       \/ client[c] = "reading" /\ server[c] = "none" /\ output[c] = <<>>
    /\ GiveUp(c)

\* Mutant: no limit on the wait for a line.
MutantTimedOut(c) ==
    /\ c \in Calls /\ client[c] = "reading"
    /\ output[c] # <<>> /\ Head(output[c]).what # "answer" /\ count[c] + 1 = MaxLines
    /\ GiveUp(c)

\* No line for 5 s; or only notifications.
TimedOut(c) ==
    /\ c \in Calls /\ client[c] = "reading"
    /\ \/ output[c] = <<>> /\ server[c] # "none"
       \/ output[c] # <<>> /\ Head(output[c]).what # "answer" /\ count[c] + 1 = MaxLines
    /\ GiveUp(c)

CallSteps(c) ==
    \/ Open(c) \/ Busy(c) \/ Write(c) \/ WriteLarge(c) \/ Skip(c) \/ Answered(c) \/ Refused(c) \/ TimedOut(c)

-----------------------------------------------------------------------------
(* The notification pump. *)

\* Mutant: the pump is started with the window and not again.
MutantPumpOpens ==
    /\ client[Pump] = "closed" /\ window = "loading" /\ Opened(Pump) /\ Is(Pump, "reading")
    /\ UNCHANGED <<method, count, window, refresh, listening, shown, newest>>

\* It opens its connection again for ever, after 0.5 or 3.5 s.
PumpOpens ==
    /\ client[Pump] = "closed" /\ Opened(Pump) /\ Is(Pump, "reading")
    /\ UNCHANGED <<method, count, window, refresh, listening, shown, newest>>

\* Mutant: the window passes over what comes before it has loaded.
MutantPumpReads ==
    /\ Reads(Pump)
    /\ LET frame == Head(output[Pump]) IN
         /\ lost' = IF listening THEN lost ELSE lost \cup News({frame})
         /\ IF listening /\ frame.what = "state" /\ window # "loading"
            THEN Show(frame.of) ELSE UNCHANGED <<shown, newest>>
    /\ UNCHANGED <<client, method, count, window, refresh, listening>>

\* forward_notification: the window, if it listens by then, shows the state that a
\* frame reports; the pump has run since before there was a window.
PumpReads ==
    /\ Reads(Pump)
    /\ LET frame == Head(output[Pump]) IN
         /\ lost' = IF listening THEN lost ELSE lost \cup News({frame})
         /\ IF listening /\ frame.what = "state" THEN Show(frame.of)
                                                 ELSE UNCHANGED <<shown, newest>>
    /\ UNCHANGED <<client, method, count, window, refresh, listening>>

PumpEnds ==
    /\ client[Pump] = "reading" /\ server[Pump] = "none" /\ output[Pump] = <<>>
    /\ Is(Pump, "closed")
    /\ UNCHANGED <<linkVars, method, count, window, refresh, listening, shown, newest>>

PumpSteps == PumpOpens \/ PumpReads \/ PumpEnds

-----------------------------------------------------------------------------
(* The window. *)

\* refresh() makes its two calls one after the other.
RefreshStep(c) ==
    /\ refresh \in {"list", "get"} /\ Begin(c, refresh)
    /\ refresh' = IF refresh = "list" THEN "listing" ELSE "getting"
    /\ UNCHANGED <<linkVars, window, listening, shown, newest>>

\* listen() returns, at any time after the page has begun, or fails (App.tsx:168).
Subscribe ==
    /\ ~ listening /\ listening' = TRUE
    /\ UNCHANGED <<linkVars, client, method, count, window, refresh, shown, newest>>

\* The user does something that asks the daemon, or that ends in a refresh.
UserActs(c) ==
    /\ window = "main" /\ \E m \in {"act", "send"} \cap scenario : Begin(c, m)
    /\ UNCHANGED <<linkVars, window, refresh, listening, shown, newest>>

UserRefreshes ==
    /\ window = "main" /\ refresh = "rest" /\ refresh' = "list"
    /\ UNCHANGED <<linkVars, client, method, count, window, listening, shown, newest>>

-----------------------------------------------------------------------------
ServerSteps(c) ==
    /\ Accept(c) \/ Read(c) \/ TooLong(c) \/ Notify(c) \/ Answer(c) \/ Sent(c)
       \/ (client[c] = "closed" /\ Leave(c))
    /\ UNCHANGED <<clientVars, scenario>>

ClientSteps(c) == (CallSteps(c) \/ RefreshStep(c)) /\ UNCHANGED scenario

Listen == PumpSteps /\ UNCHANGED scenario

Subscribing == Subscribe /\ UNCHANGED scenario

User ==
    /\ \/ \E c \in Calls : UserActs(c)
       \/ "refresh" \in scenario /\ UserRefreshes
    /\ UNCHANGED scenario

Sending == SendDraft /\ UNCHANGED <<clientVars, scenario>>

Daemon ==
    /\ \/ "status" \in scenario /\ ("once" \in scenario => version = 0) /\ SetStatus
       \/ "log" \in scenario /\ Log
       \/ "draft" \in scenario /\ ReadDraft
       \/ "down" \in scenario /\ Down
       \/ "launch" \notin scenario /\ Up
    /\ UNCHANGED <<clientVars, scenario>>

Next ==
    \/ Daemon \/ Sending \/ Listen \/ Subscribing \/ User
    \/ \E c \in Conns : ServerSteps(c) \/ ClientSteps(c)

Spec == Init /\ [][Next]_vars

-----------------------------------------------------------------------------
Quiet ==
    /\ up /\ draft = None /\ refresh = "rest"
    /\ \A c \in Calls : client[c] = "closed"
    /\ Subscribed(Pump) /\ sub[Pump] = <<>> /\ output[Pump] = <<>>

\* At rest the window shows the daemon's state, with the exceptions the code knows no
\* remedy for: its frame was lost (the pump was not connected, the window did not listen
\* yet, or log lines pushed it out of the channel, rpc.rs:326), or an older answer or
\* frame came after it.
ShownAtRest == Quiet => shown = version \/ version \in lost \/ shown < newest

\* A request that the daemon read to its end and neither runs nor answers was cut in
\* two by a notification (rpc.rs:290); no other request is dropped in silence.
DroppedOnlyTorn ==
    \A c \in Calls :
        (/\ client[c] = "reading" /\ server[c] \in {"idle", "sending"} /\ input[c] = <<>>
         /\ \A k \in DOMAIN output[c] : output[c][k].what # "answer") => torn[c]
=============================================================================
