----------------------------- MODULE AppProofs -----------------------------
(***************************************************************************)
(* Proofs about the application, for any number of connections and any     *)
(* capacities: it takes its daemon with it, no request is dropped in       *)
(* silence but one that a notification cut in two, and at rest the window  *)
(* shows the daemon's state unless its frame was lost or overtaken.        *)
(***************************************************************************)
EXTENDS App, SequenceTheorems, TLAPS

-----------------------------------------------------------------------------
(* The daemon it starts. *)

\* While the application runs, a living process is remembered, about to be, or given
\* up; and the first one was given up before the second was tried.
LaunchInv ==
    /\ D!LaunchTypeOK
    /\ attempt = 2 /\ child = 1 => 1 \in excused
    /\ child <= attempt
    /\ launcher \in {"check", "spawn", "adopt"} /\ attempt = 1 => child = 0
    /\ app # "gone" => \A k \in D!Attempts : D!Alive(k) =>
         k \in excused \/ k = child \/ (launcher = "adopt" /\ k = attempt)
    /\ D!ExitTakesDaemon

\* What a step of the application is to the launcher and its processes.
LaunchStep ==
    \/ D!Launcher(up) \/ (\E k \in D!Attempts : D!Fails(k) \/ D!Binds(k))
    \/ D!Kill \/ D!Exited

LEMMA LaunchSteps == [AppNext]_appVars => LaunchStep \/ UNCHANGED launchVars
  BY DEF AppNext, Launching, Bind, Exiting, Linked, LaunchStep, appVars

LEMMA LaunchKept == LaunchInv /\ (LaunchStep \/ UNCHANGED launchVars) => LaunchInv'
  <1> SUFFICES ASSUME LaunchInv, LaunchStep \/ UNCHANGED launchVars PROVE LaunchInv'
    OBVIOUS
  <1> USE DEF LaunchInv, D!LaunchTypeOK, D!Attempts, D!Alive, D!ExitTakesDaemon, D!Goes,
              D!NextAttempt
  <1>1. CASE D!Check(up) \/ D!SeesSocket(up)
    BY <1>1 DEF D!Check, D!SeesSocket
  <1>2. CASE D!Spawn
    BY <1>2 DEF D!Spawn
  <1>3. CASE D!SpawnFails
    BY <1>3 DEF D!SpawnFails
  <1>4. CASE D!TooSlow(up)
    BY <1>4 DEF D!TooSlow
  <1>5. CASE D!Adopt
    BY <1>5 DEF D!Adopt
  <1>6. ASSUME NEW k \in D!Attempts, D!Binds(k) \/ D!Fails(k) PROVE LaunchInv'
    BY <1>6 DEF D!Binds, D!Fails
  <1>7. CASE D!Kill
    BY <1>7 DEF D!Kill
  <1>8. CASE D!Exited
    BY <1>8 DEF D!Exited
  <1>9. CASE UNCHANGED launchVars
    BY <1>9 DEF launchVars
  <1> QED
    BY <1>1, <1>2, <1>3, <1>4, <1>5, <1>6, <1>7, <1>8, <1>9 DEF LaunchStep, D!Launcher

LEMMA LaunchInvariance == AppSpec => []LaunchInv
  <1>1. AppInit => LaunchInv
    BY DEF AppInit, D!LaunchInit, LaunchInv, D!LaunchTypeOK, D!Attempts, D!Alive,
           D!ExitTakesDaemon
  <1> QED
    BY <1>1, LaunchSteps, LaunchKept, PTL DEF AppSpec

\* When the application is gone no daemon it started lives on, but one it gave up
\* waiting for or was just starting (lib.rs:110-116).
THEOREM DaemonTakenAlong == AppSpec => []ExitTakesDaemon
  <1>1. LaunchInv => ExitTakesDaemon
    BY DEF LaunchInv, ExitTakesDaemon
  <1> QED
    BY <1>1, LaunchInvariance, PTL

-----------------------------------------------------------------------------
(* The link: types. *)

\* What a step of the application is to the link and the window.
DaemonMoves == SetStatus \/ Log \/ ReadDraft \/ SendDraft \/ Down \/ Up

ServerMoves(c) ==
    \/ Accept(c) \/ Read(c) \/ TooLong(c) \/ Notify(c) \/ Answer(c) \/ Sent(c)
    \/ client[c] = "closed" /\ Leave(c)

ClientMoves(c) == CallSteps(c) \/ RefreshStep(c) \/ UserActs(c)

LinkStep ==
    \/ (DaemonMoves \/ \E c \in Conns : ServerMoves(c)) /\ UNCHANGED clientVars
    \/ \E c \in Conns : ClientMoves(c)
    \/ UserRefreshes \/ Subscribe \/ PumpSteps

ServerStates == {"none", "waiting", "idle", "half", "dispatching", "sending"}
ClientStates == {"closed", "opening", "writing", "halfway", "ending", "reading"}

USE DEF ServerStates, ClientStates, Pieces

LEMMA LinkSteps == ASSUME [AppNext]_appVars PROVE LinkStep \/ UNCHANGED vars
  <1>1. ASSUME NEW k \in D!Attempts, Bind(k) PROVE LinkStep \/ UNCHANGED vars
    BY <1>1 DEF Bind, LinkStep, DaemonMoves
  <1>2. CASE Launching \/ Exiting \/ UNCHANGED appVars
    BY <1>2 DEF Launching, Exiting, appVars
  <1>3. CASE Linked
    BY <1>3 DEF Linked, Next, Daemon, Sending, Listen, Subscribing, User, ServerSteps, ClientSteps,
                LinkStep, DaemonMoves, ServerMoves, ClientMoves, Calls
  <1> QED
    BY <1>1, <1>2, <1>3 DEF AppNext

LEMMA BroadcastType ==
    ASSUME LinkTypeOK, NEW frame \in Frame, Broadcast(frame)
    PROVE  /\ sub' \in [Conns -> Seq(Frame)] /\ lagged' \in [Conns -> BOOLEAN]
           /\ \A c \in Conns : Len(sub'[c]) <= Capacity
           /\ lost' \subseteq Versions
  <1> USE LinkAssumption DEF Broadcast, LinkTypeOK, Overtaken
  <1>1. ASSUME NEW c \in Conns
        PROVE  /\ sub'[c] \in Seq(Frame) /\ Len(sub'[c]) <= Capacity
    BY DEF Subscribed
  <1>2. sub' \in [Conns -> Seq(Frame)]
    BY <1>1
  <1>3. lagged' \in [Conns -> BOOLEAN]
    BY Zenon
  <1>4. News(Missed(Pump, frame)) \subseteq Versions
    <2>1. Missed(Pump, frame) \subseteq Frame
      <3>1. CASE Overtaken(Pump)
        BY <3>1 DEF Missed
      <3>2. CASE ~ Overtaken(Pump)
        BY <3>2 DEF Missed
      <3> QED
        BY <3>1, <3>2
    <2> QED
      BY <2>1 DEF News, Frame, Versions
  <1> QED
    BY <1>1, <1>2, <1>3, <1>4

\* A line is added to what a handler writes while it has room, or waits for it.
LEMMA SendsType ==
    ASSUME LinkTypeOK, NEW c \in Conns, NEW l \in Line, Sends(c, l),
           server[c] \in {"idle", "half", "dispatching"}
    PROVE  /\ server' \in [Conns -> ServerStates] /\ output' \in [Conns -> Seq(Line)]
           /\ \A d \in Conns :
                Len(output'[d]) <= IF server'[d] \in {"none", "sending"} THEN Buffer + 1 ELSE Buffer
  <1> USE LinkAssumption DEF LinkTypeOK, Sends
  <1>1. Append(output[c], l) \in Seq(Line) /\ Len(Append(output[c], l)) = Len(output[c]) + 1
        /\ Len(output[c]) \in Nat /\ Len(output[c]) <= Buffer
    <2>1. output[c] \in Seq(Line) /\ Len(output[c]) <= Buffer
      OBVIOUS
    <2> HIDE DEF LinkTypeOK, Sends
    <2> QED
      BY <2>1
  <1>2. /\ output'[c] = Append(output[c], l)
        /\ server'[c] = IF Len(output[c]) < Buffer THEN "idle" ELSE "sending"
        /\ \A d \in Conns \ {c} : output'[d] = output[d] /\ server'[d] = server[d]
    OBVIOUS
  <1>3. server' \in [Conns -> ServerStates] /\ output' \in [Conns -> Seq(Line)]
    BY <1>1
  <1> QED
    BY <1>1, <1>2, <1>3

\* A step of a handler, and the client's steps on a connection.
LEMMA ServerType ==
    ASSUME LinkTypeOK, NEW c \in Conns, ServerMoves(c)
    PROVE  LinkTypeOK'
  <1> USE LinkAssumption DEF LinkTypeOK
  <1>1. /\ Error(version) \in Line /\ [what |-> "answer", of |-> version] \in Line
        /\ \A f \in Frame : f \in Line
    BY DEF Error, Line
  <1>2. CASE Accept(c)
    BY <1>2 DEF Accept
  <1>3. CASE Read(c)
    BY <1>3 DEF Read
  <1>4. CASE Notify(c)
    <2>1. sub[c] # <<>> => /\ Head(sub[c]) \in Frame /\ Tail(sub[c]) \in Seq(Frame)
                           /\ Len(Tail(sub[c])) <= Capacity
      OBVIOUS
    <2>2. torn' \in [Conns -> BOOLEAN] /\ lagged' \in [Conns -> BOOLEAN]
      BY <1>4, Zenon DEF Notify
    <2>3. sub' \in [Conns -> Seq(Frame)] /\ \A d \in Conns : Len(sub'[d]) <= Capacity
      <3>1. sub' = sub \/ (sub[c] # <<>> /\ sub' = [sub EXCEPT ![c] = Tail(sub[c])])
        BY <1>4 DEF Notify
      <3> QED
        BY <2>1, <3>1
    <2>4. /\ server' \in [Conns -> ServerStates] /\ output' \in [Conns -> Seq(Line)]
          /\ \A d \in Conns :
               Len(output'[d]) <= IF server'[d] \in {"none", "sending"} THEN Buffer + 1 ELSE Buffer
      <3>1. CASE lagged[c]
        <4>1. server' = [server EXCEPT ![c] = "idle"] /\ output' = output
              /\ server[c] \in {"idle", "half"}
          BY <1>4, <3>1 DEF Notify
        <4> QED
          BY <4>1
      <3>2. CASE ~ lagged[c]
        <4>1. Sends(c, Head(sub[c])) /\ server[c] \in {"idle", "half"} /\ sub[c] # <<>>
          BY <1>4, <3>2 DEF Notify
        <4> QED
          BY <1>1, <2>1, <4>1, SendsType
      <3> QED
        BY <3>1, <3>2
    <2> QED
      BY <1>4, <2>2, <2>3, <2>4 DEF Notify
  <1>5. CASE Answer(c)
    <2>1. /\ server' \in [Conns -> ServerStates] /\ output' \in [Conns -> Seq(Line)]
          /\ \A d \in Conns :
               Len(output'[d]) <= IF server'[d] \in {"none", "sending"} THEN Buffer + 1 ELSE Buffer
      BY <1>1, <1>5, SendsType DEF Answer
    <2> QED
      BY <1>5, <2>1 DEF Answer
  <1>6. CASE Leave(c)
    BY <1>6 DEF Leave
  <1>7. CASE TooLong(c)
    <2>1. output' = [output EXCEPT ![c] = Append(output[c], Error(version))]
          /\ server[c] = "half" /\ server' = [server EXCEPT ![c] = "none"]
      BY <1>7 DEF TooLong
    <2>2. Append(output[c], Error(version)) \in Seq(Line)
          /\ Len(Append(output[c], Error(version))) <= Buffer + 1
      <3>1. output[c] \in Seq(Line) /\ Len(output[c]) <= Buffer
        BY <2>1
      <3> HIDE DEF LinkTypeOK
      <3> QED
        BY <1>1, <3>1
    <2>3. output' \in [Conns -> Seq(Line)] /\ server' \in [Conns -> ServerStates]
      BY <2>1, <2>2
    <2>4. \A d \in Conns :
             Len(output'[d]) <= IF server'[d] \in {"none", "sending"} THEN Buffer + 1 ELSE Buffer
      BY <2>1, <2>2
    <2> QED
      BY <1>7, <2>3, <2>4 DEF TooLong
  <1>8. CASE Sent(c)
    BY <1>8 DEF Sent
  <1> QED
    BY <1>2, <1>3, <1>4, <1>5, <1>6, <1>7, <1>8 DEF ServerMoves

LEMMA LineType ==
    ASSUME LinkTypeOK, NEW c \in Conns, NEW k \in DOMAIN output[c]
    PROVE  output[c][k] \in Line /\ output[c][k].of \in Versions
  <1>1. output[c][k] \in Line
    BY DEF LinkTypeOK
  <1> QED
    BY <1>1, LinkAssumption DEF Line, Frame, Versions

\* The lines that are whole are the first ones, and all but the one that is not.
LEMMA WholeType ==
    ASSUME LinkTypeOK, NEW c \in Conns
    PROVE  /\ Whole(c) \in Seq(Line) /\ Len(Whole(c)) <= Buffer
           /\ Len(Whole(c)) <= Len(output[c])
           /\ \A k \in DOMAIN Whole(c) : k \in DOMAIN output[c] /\ Whole(c)[k] = output[c][k]
           /\ \A k \in DOMAIN output[c] : k \in DOMAIN Whole(c) \/ output[c][k] \in Unsent(c)
  <1> USE LinkAssumption
  <1>1. /\ output[c] \in Seq(Line) /\ Len(output[c]) \in Nat /\ Len(output[c]) <= Buffer + 1
        /\ Buffer \in Nat /\ DOMAIN output[c] = 1 .. Len(output[c])
    BY DEF LinkTypeOK
  <1>2. CASE Len(output[c]) > Buffer
    <2>1. Len(output[c]) = Buffer + 1 /\ Whole(c) = SubSeq(output[c], 1, Buffer)
      BY <1>1, <1>2 DEF Whole
    <2>2. /\ Whole(c) \in Seq(Line) /\ Len(Whole(c)) = Buffer
          /\ \A k \in 1 .. Buffer : Whole(c)[k] = output[c][k]
      BY <1>1, <2>1, SubSeqProperties
    <2>3. DOMAIN Whole(c) = 1 .. Buffer
      BY <2>2
    <2>4. \A k \in DOMAIN output[c] : k \in 1 .. Buffer \/ k = Buffer + 1
      BY <1>1, <2>1
    <2> QED
      BY <1>1, <2>1, <2>2, <2>3, <2>4 DEF Unsent
  <1>3. CASE Len(output[c]) <= Buffer
    BY <1>1, <1>3 DEF Whole
  <1> QED
    BY <1>1, <1>2, <1>3

LEMMA DaemonType ==
    ASSUME LinkTypeOK, DaemonMoves
    PROVE  LinkTypeOK'
  <1> USE LinkAssumption DEF LinkTypeOK
  <1>1. CASE SetStatus
    <2>1. version' \in Versions /\ State(version') \in Frame
      BY <1>1 DEF SetStatus, Versions, State, Frame
    <2> QED
      BY <1>1, <2>1, BroadcastType DEF SetStatus
  <1>2. CASE Log
    <2>1. LogEntry \in Frame
      BY DEF LogEntry, Frame
    <2> QED
      BY <1>2, <2>1, BroadcastType DEF Log
  <1>3. CASE ReadDraft
    BY <1>3 DEF ReadDraft
  <1>4. CASE SendDraft
    <2>1. State(draft) \in Frame
      BY <1>4 DEF SendDraft, State, Frame
    <2> QED
      BY <1>4, <2>1, BroadcastType DEF SendDraft
  <1>5. CASE Down
    <2>1. \A k \in DOMAIN sub[Pump] : sub[Pump][k] \in Frame
      OBVIOUS
    <2>2. News({sub[Pump][k] : k \in DOMAIN sub[Pump]} \cup Unsent(Pump)) \subseteq Versions
      <3>1. \A f \in Frame : f.of \in Versions
        BY DEF Frame, Versions
      <3>2. \A l \in Unsent(Pump) : l.of \in Versions
        BY LineType DEF Unsent
      <3> HIDE DEF LinkTypeOK
      <3> QED
        BY <2>1, <3>1, <3>2 DEF News
    <2>3. up' \in BOOLEAN /\ lagged' \in [Conns -> BOOLEAN]
      BY <1>5, Zenon DEF Down
    <2>4. /\ server' \in [Conns -> ServerStates]
          /\ sub' \in [Conns -> Seq(Frame)] /\ input' \in [Conns -> Seq(Pieces)]
          /\ \A c \in Conns : Len(sub'[c]) <= Capacity
          /\ \A c \in Conns : server'[c] = "none" /\ output'[c] = Whole(c)
      BY <1>5 DEF Down
    <2>5. output' \in [Conns -> Seq(Line)] /\ \A c \in Conns : Len(output'[c]) <= Buffer + 1
      BY <1>5, <2>4, WholeType DEF Down
    <2> QED
      BY <1>5, <2>2, <2>3, <2>4, <2>5 DEF Down
  <1>6. CASE Up
    BY <1>6 DEF Up, Versions
  <1> QED
    BY <1>1, <1>2, <1>3, <1>4, <1>5, <1>6 DEF DaemonMoves

\* A line is a frame or an answer, and either reports a version.
LEMMA ReadsType ==
    ASSUME LinkTypeOK, NEW c \in Conns, Reads(c), lost' \subseteq Versions
    PROVE  LinkTypeOK' /\ Head(output[c]).of \in Versions
  <1>1. Head(output[c]) \in Line /\ Tail(output[c]) \in Seq(Line)
        /\ Len(Tail(output[c])) <= Len(output[c])
    BY DEF LinkTypeOK, Reads
  <1>2. Head(output[c]).of \in Versions
    BY <1>1, LinkAssumption DEF Line, Frame, Versions
  <1>3. Buffer \in Nat /\ \A d \in Conns : Len(output[d]) \in Nat
    BY LinkAssumption DEF LinkTypeOK
  <1>4. LinkTypeOK'
    BY <1>1, <1>3 DEF LinkTypeOK, Reads
  <1> QED
    BY <1>2, <1>4

LEMMA OpenedType == ASSUME LinkTypeOK, NEW c \in Conns, Opened(c) PROVE LinkTypeOK'
  BY LinkAssumption DEF LinkTypeOK, Opened

ClientTypeOK ==
    /\ client \in [Conns -> ClientStates]
    /\ method \in [Conns -> {"list", "get", "act", "send"}]
    /\ count \in [Conns -> 0 .. IF MaxTries < MaxLines THEN MaxLines ELSE MaxTries]
    /\ window \in {"loading", "main", "fatal"}
    /\ refresh \in {"rest", "list", "listing", "get", "getting"}
    /\ listening \in BOOLEAN /\ shown \in Versions /\ newest \in Versions

LEMMA ClientType ==
    ASSUME LinkTypeOK, ClientTypeOK, NEW c \in Conns, ClientMoves(c)
    PROVE  LinkTypeOK' /\ ClientTypeOK'
  <1> USE ClientAssumption DEF ClientTypeOK, Is
  <1>l. ASSUME UNCHANGED linkVars PROVE LinkTypeOK'
    BY <1>l DEF linkVars, LinkTypeOK
  <1>1. CASE Open(c)
    BY <1>1, OpenedType DEF Open
  <1>2. CASE Busy(c)
    BY <1>2, <1>l DEF Busy
  <1>3. CASE Write(c) \/ WriteLarge(c)
    <2>1. CASE Write(c)
      <3>1. input' \in [Conns -> Seq(Pieces)]
        <4>1. PICK e \in Pieces : input' = [input EXCEPT ![c] = Append(input[c], e)]
          BY <2>1 DEF Write
        <4>2. input \in [Conns -> Seq(Pieces)] /\ Append(input[c], e) \in Seq(Pieces)
          BY DEF LinkTypeOK
        <4> QED
          BY <4>1, <4>2
      <3>2. UNCHANGED <<up, version, syncs, draft, sub, lagged, server, output, torn, lost>>
        BY <2>1 DEF Write
      <3>3. LinkTypeOK'
        BY <3>1, <3>2 DEF LinkTypeOK
      <3>4. ClientTypeOK'
        BY <2>1 DEF Write
      <3> QED
        BY <3>3, <3>4
    <2>2. CASE WriteLarge(c)
      <3>1. LinkTypeOK'
        BY <2>2, LinkAssumption DEF WriteLarge, LinkTypeOK
      <3>2. ClientTypeOK'
        BY <2>2 DEF WriteLarge
      <3> QED
        BY <3>1, <3>2
    <2> QED
      BY <1>3, <2>1, <2>2
  <1>4. CASE Skip(c)
    <2>1. LinkTypeOK'
      BY <1>4, ReadsType DEF Skip, LinkTypeOK
    <2>2. ClientTypeOK'
      BY <1>4 DEF Skip
    <2> QED
      BY <2>1, <2>2
  <1>5. CASE Answered(c)
    <2>1. Head(output[c]).of \in Versions /\ LinkTypeOK'
      BY <1>5, ReadsType DEF Answered, LinkTypeOK
    <2>2. /\ window' \in {"loading", "main", "fatal"}
          /\ refresh' \in {"rest", "list", "listing", "get", "getting"}
          /\ shown' \in Versions /\ newest' \in Versions
      BY <1>5, <2>1 DEF Answered, Refreshed, Show
    <2> QED
      <3>1. /\ client' = [client EXCEPT ![c] = "closed"]
            /\ method' = [method EXCEPT ![c] = "act"] /\ count' = [count EXCEPT ![c] = 0]
            /\ listening' = listening
        BY <1>5 DEF Answered, Ends
      <3>2. count' \in [Conns -> 0 .. IF MaxTries < MaxLines THEN MaxLines ELSE MaxTries]
        BY <3>1
      <3> QED
        BY <2>1, <2>2, <3>1, <3>2
  <1>6. CASE Refused(c) \/ TimedOut(c)
    <2>1. /\ client' = [client EXCEPT ![c] = "closed"]
          /\ method' = [method EXCEPT ![c] = "act"] /\ count' = [count EXCEPT ![c] = 0]
          /\ UNCHANGED <<linkVars, listening, shown, newest>>
          /\ (window' = window /\ refresh' = refresh) \/ (window' = "fatal" /\ refresh' = "rest")
      BY <1>6 DEF Refused, TimedOut, GiveUp, Ends
    <2>2. count' \in [Conns -> 0 .. IF MaxTries < MaxLines THEN MaxLines ELSE MaxTries]
      BY <2>1
    <2> QED
      BY <1>l, <2>1, <2>2
  <1>7. CASE RefreshStep(c)
    BY <1>7, <1>l DEF RefreshStep, Begin
  <1>8. CASE UserActs(c)
    BY <1>8, <1>l DEF UserActs, Begin
  <1> QED
    BY <1>1, <1>2, <1>3, <1>4, <1>5, <1>6, <1>7, <1>8 DEF ClientMoves, CallSteps

LEMMA PumpType ==
    ASSUME LinkTypeOK, ClientTypeOK, UserRefreshes \/ Subscribe \/ PumpSteps
    PROVE  LinkTypeOK' /\ ClientTypeOK'
  <1> USE LinkAssumption DEF ClientTypeOK, Is
  <1>1. CASE UserRefreshes \/ Subscribe \/ PumpEnds
    BY <1>1 DEF UserRefreshes, Subscribe, PumpEnds, linkVars, LinkTypeOK
  <1>2. CASE PumpOpens
    BY <1>2, OpenedType DEF PumpOpens
  <1>3. CASE PumpReads
    <2>1. Reads(Pump) /\ (lost' = lost \/ lost' = lost \cup News({Head(output[Pump])}))
      BY <1>3 DEF PumpReads
    <2>2. Head(output[Pump]).of \in Versions
      <3>1. Head(output[Pump]) = output[Pump][1] /\ 1 \in DOMAIN output[Pump]
        BY <2>1 DEF Reads, LinkTypeOK
      <3> QED
        BY <3>1, LineType
    <2>3. lost' \subseteq Versions
      BY <2>1, <2>2 DEF News, LinkTypeOK
    <2>4. LinkTypeOK'
      BY <2>1, <2>3, ReadsType
    <2>5. ClientTypeOK'
      BY <1>3, <2>2 DEF PumpReads, Show
    <2> QED
      BY <2>4, <2>5
  <1> QED
    BY <1>1, <1>2, <1>3 DEF PumpSteps

TypeInv == LinkTypeOK /\ ClientTypeOK

LEMMA TypeKept == TypeInv /\ (LinkStep \/ UNCHANGED vars) => TypeInv'
  <1> SUFFICES ASSUME TypeInv, LinkStep \/ UNCHANGED vars PROVE TypeInv'
    OBVIOUS
  <1> USE DEF TypeInv
  <1>1. ASSUME UNCHANGED clientVars PROVE ClientTypeOK'
    BY <1>1 DEF clientVars, ClientTypeOK
  <1>2. CASE UNCHANGED vars
    BY <1>1, <1>2 DEF vars, linkVars, LinkTypeOK
  <1>3. CASE (DaemonMoves \/ \E c \in Conns : ServerMoves(c)) /\ UNCHANGED clientVars
    BY <1>1, <1>3, DaemonType, ServerType
  <1> QED
    BY <1>2, <1>3, ClientType, PumpType DEF LinkStep

-----------------------------------------------------------------------------
(* The link: where a request is. *)

HasAnswer(c) == \E k \in DOMAIN output[c] : output[c][k].what = "answer"

\* The line and its end are in the input or with the handler, or answered.
Ready(c) == server[c] \in {"waiting", "idle", "sending"}

Underway(c) ==
    \/ client[c] = "writing" /\ input[c] = <<>> /\ Ready(c)
    \/ client[c] = "halfway" /\ input[c] = <<>> /\ server[c] = "half"
    \/ client[c] = "ending" /\ input[c] = <<"text">> /\ Ready(c)
    \/ client[c] = "ending" /\ input[c] = <<>> /\ server[c] = "half"
    \/ \E e \in {"end", "over"} :
         \/ client[c] = "reading" /\ input[c] = <<"text", e>> /\ Ready(c)
         \/ client[c] = "reading" /\ input[c] = <<e>> /\ server[c] = "half"
    \/ client[c] = "reading" /\ input[c] = <<>> /\ server[c] = "dispatching" /\ ~ torn[c]
    \/ /\ client[c] = "reading" /\ input[c] = <<>> /\ server[c] \in {"idle", "sending"}
       /\ HasAnswer(c)

\* A client that is asking has its request under way, unless the connection broke or
\* the handler, which forgets that when it begins, cut the line in two.
RequestOK(c) ==
    /\ client[c] = "opening" => server[c] = "none"
    /\ client[c] \in {"writing", "halfway", "ending", "reading"} =>
         Underway(c) \/ server[c] = "none" \/ (torn[c] /\ server[c] # "waiting")

RequestInv == \A c \in Calls : RequestOK(c)

\* What a connection's request depends on.
Same(c) ==
    /\ client'[c] = client[c] /\ server'[c] = server[c] /\ torn'[c] = torn[c]
    /\ input'[c] = input[c] /\ output'[c] = output[c]

LEMMA SameKeeps == ASSUME NEW c \in Calls, RequestOK(c), Same(c) PROVE RequestOK(c)'
  BY DEF RequestOK, Underway, Ready, HasAnswer, Same

LEMMA Lines ==
    /\ Append(<<>>, "text") = <<"text">> /\ <<"text">> # <<>>
    /\ Head(<<"text">>) = "text" /\ Tail(<<"text">>) = <<>>
    /\ \A e \in {"end", "over"} :
         /\ Append(<<>>, e) = <<e>> /\ Append(<<"text">>, e) = <<"text", e>>
         /\ <<e>> # <<>> /\ <<"text", e>> # <<>>
         /\ <<"text">> # <<e>> /\ \A f \in {"text", "end", "over"} : <<"text", e>> # <<f>>
         /\ Head(<<"text", e>>) = "text" /\ Head(<<e>>) = e
         /\ Tail(<<"text", e>>) = <<e>> /\ Tail(<<e>>) = <<>>
  <1>1. /\ Append(<<>>, "text") = <<"text">> /\ <<"text">> # <<>>
        /\ Head(<<"text">>) = "text" /\ Tail(<<"text">>) = <<>>
    OBVIOUS
  <1>2. ASSUME NEW e \in {"end", "over"}
        PROVE  /\ Append(<<>>, e) = <<e>> /\ Append(<<"text">>, e) = <<"text", e>>
               /\ <<e>> # <<>> /\ <<"text", e>> # <<>>
               /\ <<"text">> # <<e>> /\ \A f \in {"text", "end", "over"} : <<"text", e>> # <<f>>
               /\ Head(<<"text", e>>) = "text" /\ Head(<<e>>) = e
               /\ Tail(<<"text", e>>) = <<e>> /\ Tail(<<e>>) = <<>>
    <2>1. Append(<<>>, e) = <<e>> /\ <<e>> # <<>> /\ <<"text", e>> # <<>>
      OBVIOUS
    <2>2. Append(<<"text">>, e) = <<"text", e>>
      <3> DEFINE s == Append(<<"text">>, e)
                 t == <<"text", e>>
      <3>1. <<"text">> \in Seq(Pieces) /\ e \in Pieces
        OBVIOUS
      <3>2. s \in Seq(Pieces) /\ Len(s) = 2 /\ s[1] = "text" /\ s[2] = e
        BY <3>1
      <3>3. t \in Seq(Pieces) /\ Len(t) = 2 /\ t[1] = "text" /\ t[2] = e
        BY <3>1
      <3>4. \A i \in 1 .. Len(s) : s[i] = t[i]
        BY <3>2, <3>3
      <3> HIDE DEF s, t
      <3>5. s = t
        BY <3>2, <3>3, <3>4, SeqEqual
      <3> QED
        BY <3>5 DEF s, t
    <2>3. Head(<<"text", e>>) = "text" /\ Head(<<e>>) = e
      OBVIOUS
    <2>4. Tail(<<"text", e>>) = <<e>>
      OBVIOUS
    <2>5. Tail(<<e>>) = <<>>
      OBVIOUS
    <2>6. <<"text">> # <<e>>
      OBVIOUS
    <2>7. ASSUME NEW f \in {"text", "end", "over"} PROVE <<"text", e>> # <<f>>
      <3>1. Len(<<"text", e>>) = 2 /\ Len(<<f>>) = 1
        OBVIOUS
      <3> QED
        BY <3>1
    <2> QED
      BY <2>1, <2>2, <2>3, <2>4, <2>5, <2>6, <2>7
  <1> QED
    BY <1>1, <1>2

\* A line at the end of the output takes no answer from it, nor does one that is read
\* unless it is the answer.
LEMMA AnswerKept ==
    ASSUME TypeInv, NEW c \in Conns, HasAnswer(c)
    PROVE  /\ \A l \in Line : output'[c] = Append(output[c], l) => HasAnswer(c)'
           /\ Head(output[c]).what # "answer" /\ output'[c] = Tail(output[c]) => HasAnswer(c)'
  <1>1. output[c] \in Seq(Line)
    BY DEF TypeInv, LinkTypeOK
  <1>2. PICK k \in DOMAIN output[c] : output[c][k].what = "answer"
    BY DEF HasAnswer
  <1>3. ASSUME NEW l \in Line, output'[c] = Append(output[c], l) PROVE HasAnswer(c)'
    <2>1. k \in DOMAIN output'[c] /\ output'[c][k] = output[c][k]
      BY <1>1, <1>3
    <2> QED
      BY <1>2, <2>1 DEF HasAnswer
  <1>4. ASSUME Head(output[c]).what # "answer", output'[c] = Tail(output[c]) PROVE HasAnswer(c)'
    <2>1. k # 1 /\ k - 1 \in DOMAIN output'[c] /\ output'[c][k - 1] = output[c][k]
      BY <1>1, <1>2, <1>4
    <2> QED
      BY <1>2, <2>1 DEF HasAnswer
  <1> QED
    BY <1>3, <1>4

LEMMA HandlerKeeps ==
    ASSUME TypeInv, NEW c \in Calls, RequestOK(c), ServerMoves(c), UNCHANGED clientVars
    PROVE  RequestOK(c)'
  <1>t. /\ c \in Conns /\ server[c] \in ServerStates
        /\ input[c] \in Seq(Pieces) /\ output[c] \in Seq(Line)
        /\ server \in [Conns -> ServerStates]
        /\ input \in [Conns -> Seq(Pieces)] /\ output \in [Conns -> Seq(Line)]
        /\ torn \in [Conns -> BOOLEAN] /\ client' = client
    BY DEF TypeInv, LinkTypeOK, Calls, clientVars
  <1> USE <1>t DEF RequestOK
  <1>1. CASE Accept(c)
    BY <1>1 DEF Accept, Underway, Ready, HasAnswer
  <1>2. CASE Read(c)
    <2>1. /\ output' = output /\ torn' = torn /\ server[c] \in {"idle", "half"}
          /\ input[c] # <<>> /\ input'[c] = Tail(input[c])
          /\ server'[c] = IF Head(input[c]) = "text" THEN "half"
                          ELSE IF server[c] = "half" THEN "dispatching" ELSE "idle"
      BY <1>2 DEF Read
    <2>2. server'[c] # "waiting"
      BY <2>1
    <2>t. Head(input[c]) = "text" => server'[c] = "half"
      BY <2>1
    <2>3. ASSUME Underway(c), ~ torn[c] PROVE Underway(c)'
      <3>1. CASE input[c] = <<"text">>
        <4>n. \A e \in {"end", "over"} : input[c] # <<e>> /\ input[c] # <<"text", e>>
          BY <3>1, Lines
        <4>1. client[c] = "ending" /\ server[c] = "idle"
          BY <2>1, <2>3, <4>n DEF Underway, Ready
        <4>2. Head(input[c]) = "text" /\ Tail(input[c]) = <<>>
          BY <3>1, Lines
        <4>3. server'[c] = "half" /\ input'[c] = <<>>
          BY <2>1, <2>t, <4>2, Zenon
        <4> QED
          BY <4>1, <4>3 DEF Underway
      <3>2. ASSUME NEW e \in {"end", "over"}, input[c] = <<"text", e>> PROVE Underway(c)'
        <4>n. input[c] # <<"text">>
          BY <3>2, Lines
        <4>1. client[c] = "reading"
          BY <2>1, <2>3, <4>n DEF Underway, Ready
        <4>2. Head(input[c]) = "text" /\ Tail(input[c]) = <<e>>
          BY <3>2, Lines
        <4>3. server'[c] = "half" /\ input'[c] = <<e>>
          BY <2>1, <2>t, <4>2, Zenon
        <4> QED
          BY <4>1, <4>3 DEF Underway
      <3>3. ASSUME NEW e \in {"end", "over"}, input[c] = <<e>> PROVE Underway(c)'
        <4>1. client[c] = "reading" /\ server[c] = "half"
          BY <2>1, <2>3, <3>3, Lines DEF Underway, Ready
        <4>2. server'[c] = "dispatching" /\ input'[c] = <<>>
          BY <2>1, <3>3, <4>1, Lines
        <4> QED
          BY <2>1, <2>3, <4>1, <4>2 DEF Underway
      <3> QED
        BY <2>1, <2>3, <3>1, <3>2, <3>3 DEF Underway
    <2> QED
      BY <2>1, <2>2, <2>3, Zenon
  <1>3. CASE Notify(c)
    <2>1. /\ input' = input /\ server[c] \in {"idle", "half"} /\ server'[c] \in {"idle", "sending"}
          /\ torn'[c] = (torn[c] \/ server[c] = "half")
      BY <1>3 DEF Notify, Sends
    <2>2. HasAnswer(c) => HasAnswer(c)'
      <3>1. lagged[c] \/ \E l \in Line : output'[c] = Append(output[c], l)
        BY <1>3 DEF Notify, Sends, TypeInv, LinkTypeOK, Line
      <3>2. lagged[c] => output' = output
        BY <1>3 DEF Notify
      <3> QED
        BY <3>1, <3>2, AnswerKept DEF HasAnswer
    <2>3. server[c] = "idle" /\ Underway(c) => Underway(c)'
      BY <2>1, <2>2 DEF Underway, Ready
    <2> QED
      BY <2>1, <2>3, Zenon
  <1>4. CASE Answer(c)
    <2>1. /\ input' = input /\ torn' = torn /\ server[c] = "dispatching"
          /\ server'[c] \in {"idle", "sending"}
      BY <1>4 DEF Answer, Sends
    <2>2. CASE ~ torn[c]
      <3>1. output'[c] = Append(output[c], [what |-> "answer", of |-> version])
        BY <1>4, <2>2 DEF Answer, Sends
      <3>2. /\ Len(output[c]) + 1 \in DOMAIN output'[c]
            /\ output'[c][Len(output[c]) + 1] = [what |-> "answer", of |-> version]
        BY <3>1
      <3>3. HasAnswer(c)'
        BY <3>2 DEF HasAnswer
      <3> QED
        BY <2>1, <2>2, <3>3 DEF Underway, Ready
    <2> QED
      BY <2>1, <2>2
  <1>6. CASE TooLong(c)
    BY <1>6 DEF TooLong
  <1>7. CASE Sent(c)
    BY <1>7 DEF Sent, Underway, Ready, HasAnswer
  <1>5. CASE client[c] = "closed" /\ Leave(c)
    BY <1>5
  <1> QED
    BY <1>1, <1>2, <1>3, <1>4, <1>5, <1>6, <1>7 DEF ServerMoves

LEMMA CallKeeps ==
    ASSUME TypeInv, NEW c \in Calls, RequestOK(c), ClientMoves(c)
    PROVE  RequestOK(c)'
  <1>t. /\ c \in Conns /\ output[c] \in Seq(Line) /\ input \in [Conns -> Seq(Pieces)]
        /\ server \in [Conns -> ServerStates]
        /\ client \in [Conns -> ClientStates]
        /\ output \in [Conns -> Seq(Line)]
    BY DEF TypeInv, LinkTypeOK, ClientTypeOK, Calls
  <1> USE <1>t DEF RequestOK, Is
  <1>1. CASE Open(c)
    BY <1>1 DEF Open, Opened, Underway, Ready
  <1>2. CASE Busy(c)
    BY <1>2, SameKeeps DEF Busy, linkVars, Same
  <1>3. CASE Write(c)
    <2>1. /\ server' = server /\ torn' = torn /\ output' = output /\ server[c] # "none"
          /\ \/ /\ client[c] = "writing" /\ client'[c] = "ending"
                /\ input'[c] = Append(input[c], "text")
             \/ /\ client[c] = "ending" /\ client'[c] = "reading"
                /\ \E e \in {"end", "over"} : input'[c] = Append(input[c], e)
      BY <1>3 DEF Write
    <2>2. ASSUME Underway(c) PROVE Underway(c)'
      BY <2>1, <2>2, Lines DEF Underway, Ready
    <2> QED
      BY <2>1, <2>2
  <1>7. CASE WriteLarge(c)
    <2>1. /\ input' = input /\ torn' = torn /\ output' = output /\ server'[c] = "half"
          /\ server[c] \in {"idle", "half"}
          /\ \/ client[c] = "writing" /\ client'[c] = "halfway"
             \/ client[c] = "halfway" /\ client'[c] = "ending"
      BY <1>7 DEF WriteLarge
    <2> QED
      BY <2>1 DEF Underway
  <1>4. CASE Skip(c)
    <2>1. /\ server' = server /\ torn' = torn /\ input' = input /\ client' = client
          /\ client[c] = "reading"
          /\ Head(output[c]).what # "answer" /\ output'[c] = Tail(output[c])
      BY <1>4 DEF Skip, Reads
    <2>2. Underway(c) => Underway(c)'
      BY <2>1, AnswerKept DEF Underway, Ready
    <2> QED
      BY <2>1, <2>2
  <1>5. CASE Answered(c) \/ Refused(c) \/ TimedOut(c)
    BY <1>5 DEF Answered, Refused, TimedOut, GiveUp, Ends
  <1>6. CASE RefreshStep(c) \/ UserActs(c)
    BY <1>6 DEF RefreshStep, UserActs, Begin, linkVars
  <1> QED
    BY <1>1, <1>2, <1>3, <1>4, <1>5, <1>6, <1>7 DEF ClientMoves, CallSteps

\* What other connections, the daemon and the window do leaves a request alone.
LEMMA OthersLeave ==
    ASSUME TypeInv, NEW c \in Calls, LinkStep \/ UNCHANGED vars,
           ~ (ServerMoves(c) /\ UNCHANGED clientVars), ~ ClientMoves(c)
    PROVE  Same(c) \/ (server'[c] = "none" /\ client'[c] = client[c])
  <1> USE DEF Same, TypeInv, LinkTypeOK, ClientTypeOK, Calls, Is
  <1>1. CASE DaemonMoves /\ UNCHANGED clientVars
    BY <1>1 DEF DaemonMoves, SetStatus, Log, ReadDraft, SendDraft, Down, Up, clientVars
  <1>2. ASSUME NEW d \in Conns \ {c}, ServerMoves(d), UNCHANGED clientVars PROVE Same(c)
    BY <1>2 DEF ServerMoves, Accept, Read, TooLong, Notify, Answer, Sends, Sent, Leave, clientVars
  <1>3. ASSUME NEW d \in Conns \ {c}, CallSteps(d) PROVE Same(c)
    BY <1>3 DEF CallSteps, Open, Opened, Busy, Write, WriteLarge, Skip, Answered, Reads, Refused,
                TimedOut, GiveUp, Ends, linkVars
  <1>4. ASSUME NEW d \in Conns \ {c}, RefreshStep(d) \/ UserActs(d) PROVE Same(c)
    BY <1>4 DEF RefreshStep, UserActs, Begin, linkVars
  <1>5. CASE UserRefreshes \/ Subscribe \/ PumpSteps
    BY <1>5, LinkAssumption
       DEF UserRefreshes, Subscribe, PumpSteps, PumpOpens, Opened, PumpReads, Reads, PumpEnds, linkVars
  <1>6. CASE UNCHANGED vars
    BY <1>6 DEF vars, linkVars, clientVars
  <1> QED
    BY <1>1, <1>2, <1>3, <1>4, <1>5, <1>6 DEF LinkStep, ClientMoves

LEMMA RequestKept == TypeInv /\ RequestInv /\ (LinkStep \/ UNCHANGED vars) => RequestInv'
  <1> SUFFICES ASSUME TypeInv, RequestInv, LinkStep \/ UNCHANGED vars, NEW c \in Calls
               PROVE  RequestOK(c)'
    BY DEF RequestInv, Calls
  <1>1. RequestOK(c)
    BY DEF RequestInv
  <1>2. CASE Same(c) \/ (server'[c] = "none" /\ client'[c] = client[c])
    BY <1>1, <1>2, SameKeeps DEF RequestOK
  <1> QED
    BY <1>1, <1>2, HandlerKeeps, CallKeeps, OthersLeave

-----------------------------------------------------------------------------
(* The theorems. *)

LinkInv == TypeInv /\ RequestInv /\ scenario \in Scenarios

LEMMA LinkInitInv == AppInit => LinkInv
  <1> SUFFICES ASSUME AppInit PROVE LinkInv
    OBVIOUS
  <1> USE LinkAssumption, ClientAssumption DEF AppInit, Init, LinkInit
  <1>1. LinkTypeOK
    <2>1. /\ up \in BOOLEAN /\ version \in Versions /\ draft \in Versions \cup {None}
          /\ syncs \in 0 .. MaxSyncs /\ lost \subseteq Versions
      BY DEF Versions
    <2>2. /\ sub \in [Conns -> Seq(Frame)] /\ input \in [Conns -> Seq(Pieces)]
          /\ output \in [Conns -> Seq(Line)]
          /\ \A c \in Conns : Len(sub[c]) = 0 /\ Len(output[c]) = 0
      OBVIOUS
    <2>3. /\ lagged \in [Conns -> BOOLEAN] /\ torn \in [Conns -> BOOLEAN]
          /\ server \in [Conns -> ServerStates]
      OBVIOUS
    <2> QED
      BY <2>1, <2>2, <2>3 DEF LinkTypeOK
  <1>2. ClientTypeOK
    <2>1. count \in [Conns -> 0 .. IF MaxTries < MaxLines THEN MaxLines ELSE MaxTries]
      OBVIOUS
    <2>2. /\ client \in [Conns -> ClientStates] /\ listening \in BOOLEAN
          /\ method \in [Conns -> {"list", "get", "act", "send"}]
      OBVIOUS
    <2> QED
      BY <2>1, <2>2 DEF ClientTypeOK, Versions
  <1>3. RequestInv
    BY DEF RequestInv, RequestOK, Calls
  <1> QED
    BY <1>1, <1>2, <1>3 DEF LinkInv, TypeInv

LEMMA ScenarioKept == [AppNext]_appVars => UNCHANGED scenario
  BY DEF AppNext, Launching, Bind, Exiting, Linked, Next, Daemon, Sending, Listen, Subscribing, User,
         ServerSteps, ClientSteps, appVars, vars

\* The invariant of the link: types, and where every request is (rpc.rs, transport.rs).
THEOREM LinkInvariance == AppSpec => []LinkInv
  <1>1. LinkInv /\ [AppNext]_appVars => LinkInv'
    BY LinkSteps, TypeKept, RequestKept, ScenarioKept DEF LinkInv
  <1> QED
    BY <1>1, LinkInitInv, PTL DEF AppSpec

\* Every variable of the application keeps its type, and no channel or buffer holds more
\* than it has room for.
THEOREM AppTypes == AppSpec => []AppTypeOK
  <1>1. LinkInv /\ LaunchInv => AppTypeOK
    BY DEF LinkInv, TypeInv, ClientTypeOK, LaunchInv, AppTypeOK, TypeOK
  <1> QED
    BY <1>1, LinkInvariance, LaunchInvariance, PTL

\* A request that was read and is neither run nor answered was cut in two by a
\* notification (rpc.rs:290), for any number of connections.
THEOREM NoSilentDrop == AppSpec => []DroppedOnlyTorn
  <1>1. LinkInv => DroppedOnlyTorn
    BY Lines DEF LinkInv, RequestInv, RequestOK, Underway, HasAnswer, DroppedOnlyTorn
  <1> QED
    BY <1>1, LinkInvariance, PTL

-----------------------------------------------------------------------------
(* The window: where the news of the newest version is. *)

LEMMA QueueRange ==
    ASSUME NEW S, NEW s \in Seq(S)
    PROVE  /\ Range(<<>>) = {}
           /\ \A x \in S : Range(Append(s, x)) = Range(s) \cup {x}
           /\ s # <<>> => Head(s) \in S /\ Range(s) = {Head(s)} \cup Range(Tail(s))
  <1>1. Range(<<>>) = {}
    BY DEF Range
  <1>2. ASSUME NEW x \in S PROVE Range(Append(s, x)) = Range(s) \cup {x}
    <2>1. DOMAIN Append(s, x) = DOMAIN s \cup {Len(s) + 1} /\ Append(s, x)[Len(s) + 1] = x
          /\ \A k \in DOMAIN s : Append(s, x)[k] = s[k]
      OBVIOUS
    <2> QED
      BY <2>1 DEF Range
  <1>3. ASSUME s # <<>> PROVE Head(s) \in S /\ Range(s) = {Head(s)} \cup Range(Tail(s))
    <2>1. Head(s) = s[1] /\ 1 \in DOMAIN s /\ Head(s) \in S
      BY <1>3
    <2>2. \A k \in DOMAIN Tail(s) : k + 1 \in DOMAIN s /\ Tail(s)[k] = s[k + 1]
      BY <1>3
    <2>3. \A k \in DOMAIN s \ {1} : k - 1 \in DOMAIN Tail(s) /\ Tail(s)[k - 1] = s[k]
      BY <1>3
    <2>4. Range(Tail(s)) \subseteq Range(s)
      BY <2>2 DEF Range
    <2>5. Range(s) \subseteq {Head(s)} \cup Range(Tail(s))
      BY <2>1, <2>3 DEF Range
    <2> QED
      BY <2>1, <2>4, <2>5 DEF Range
  <1> QED
    BY <1>1, <1>2, <1>3

\* What is sent or shown is of no later version than the daemon's; frames wait only for
\* a connection that listens, and the pump's is read to its end.
PastInv ==
    /\ \A c \in Conns : \A l \in Range(sub[c]) \cup Range(output[c]) : l.of <= version
    /\ draft # None => draft <= version
    /\ shown <= newest /\ newest <= version

PumpInv ==
    /\ \A c \in Conns : ~ Subscribed(c) => sub[c] = <<>>
    /\ client[Pump] \in {"closed", "reading"} /\ input[Pump] = <<>>
    /\ client[Pump] = "closed" => server[Pump] = "none" /\ output[Pump] = <<>>

\* The frame of version v is on its way to the window.
Coming(v) == State(v) \in Range(sub[Pump]) \cup Range(output[Pump])

NewsInv == version \in lost \/ newest >= version \/ Coming(version)

WindowInv == PastInv /\ PumpInv /\ NewsInv

\* A frame goes to every connection that listens; what the pump does not get is lost.
LEMMA BroadcastNews ==
    ASSUME LinkTypeOK, NEW frame \in Frame, Broadcast(frame)
    PROVE  /\ \A c \in Conns : Range(sub'[c]) \subseteq Range(sub[c]) \cup {frame}
           /\ \A c \in Conns : ~ Subscribed(c) => sub'[c] = sub[c]
           /\ \A v \in Versions : State(v) \in Range(sub[Pump]) \cup {frame} =>
                v \in lost' \/ State(v) \in Range(sub'[Pump])
  <1> USE LinkAssumption DEF LinkTypeOK
  <1>1. ASSUME NEW c \in Conns
        PROVE  /\ ~ Subscribed(c) => sub'[c] = sub[c]
               /\ Subscribed(c) /\ ~ Overtaken(c) => Range(sub'[c]) = Range(sub[c]) \cup {frame}
               /\ Overtaken(c) =>
                    /\ Range(sub[c]) = {Head(sub[c])} \cup Range(Tail(sub[c]))
                    /\ Range(sub'[c]) = Range(Tail(sub[c])) \cup {frame}
    <2>1. sub'[c] = IF ~ Subscribed(c) THEN sub[c]
                    ELSE Append(IF Overtaken(c) THEN Tail(sub[c]) ELSE sub[c], frame)
      BY DEF Broadcast
    <2>2. sub[c] \in Seq(Frame)
      OBVIOUS
    <2>3. Overtaken(c) => Subscribed(c) /\ sub[c] # <<>>
      BY DEF Overtaken
    <2>4. sub[c] # <<>> => Tail(sub[c]) \in Seq(Frame)
      BY <2>2
    <2>5. \A s \in Seq(Frame) : Range(Append(s, frame)) = Range(s) \cup {frame}
      BY QueueRange
    <2>6. sub[c] # <<>> => Range(sub[c]) = {Head(sub[c])} \cup Range(Tail(sub[c]))
      BY <2>2, QueueRange
    <2> QED
      BY <2>1, <2>2, <2>3, <2>4, <2>5, <2>6
  <1>2. \A c \in Conns : Range(sub'[c]) \subseteq Range(sub[c]) \cup {frame}
    BY <1>1
  <1>3. ASSUME NEW v \in Versions, State(v) \in Range(sub[Pump]) \cup {frame}, v \notin lost'
        PROVE  State(v) \in Range(sub'[Pump])
    <2>1. State(v) \notin Missed(Pump, frame)
      <3>1. v \notin News(Missed(Pump, frame))
        BY <1>3 DEF Broadcast
      <3>2. State(v).what = "state" /\ State(v).of = v
        BY DEF State
      <3> QED
        BY <3>1, <3>2 DEF News
    <2> QED
      BY <1>1, <1>3, <2>1 DEF Missed
  <1> QED
    BY <1>1, <1>2, <1>3

LEMMA DaemonNews ==
    ASSUME LinkTypeOK, ClientTypeOK, WindowInv, DaemonMoves, UNCHANGED clientVars
    PROVE  WindowInv'
  <1> USE LinkAssumption DEF WindowInv
  <1>t. /\ version \in Nat /\ newest \in Nat /\ lost \subseteq Versions
        /\ sub \in [Conns -> Seq(Frame)]
        /\ draft # None => draft \in Nat
    BY DEF LinkTypeOK, ClientTypeOK, Versions
  <1>s. \A v : State(v).of = v /\ LogEntry.of = 0 /\ LogEntry \in Frame
    BY DEF State, LogEntry, Frame
  <1>c. client' = client /\ shown' = shown /\ newest' = newest
    BY DEF clientVars
  <1>b. ASSUME NEW frame \in Frame, Broadcast(frame), frame.of <= version',
               UNCHANGED <<input, output, server>>, version <= version', version' \in Versions,
               draft' # None => draft' <= version',
               version' = version \/ frame = State(version')
        PROVE  WindowInv'
    <2>1. PastInv'
      <3>1. \A c \in Conns : \A l \in Range(sub[c]) \cup Range(output[c]) \cup {frame} :
              l.of <= version'
        <4>1. \A l : l \in Frame \cup Line => l.of \in Nat
          BY DEF Frame, Line, Versions
        <4>2. \A c \in Conns : Range(sub[c]) \cup Range(output[c]) \subseteq Frame \cup Line
          BY DEF LinkTypeOK, Range
        <4> QED
          BY <1>b, <1>t, <4>1, <4>2 DEF PastInv, Versions
      <3>2. \A c \in Conns : \A l \in Range(sub'[c]) \cup Range(output'[c]) : l.of <= version'
        BY <1>b, <3>1, BroadcastNews
      <3>3. newest <= version'
        BY <1>b, <1>t DEF PastInv, Versions
      <3> QED
        BY <1>b, <1>c, <3>2, <3>3 DEF PastInv
    <2>2. PumpInv'
      BY <1>b, <1>c, BroadcastNews DEF PumpInv, Subscribed
    <2>3. NewsInv'
      <3>1. CASE frame = State(version')
        BY <1>b, <3>1, BroadcastNews DEF NewsInv, Coming
      <3>2. CASE version' = version
        <4>1. lost \subseteq lost'
          BY <1>b DEF Broadcast
        <4> QED
          BY <1>b, <1>c, <3>2, <4>1, BroadcastNews DEF NewsInv, Coming
      <3> QED
        BY <1>b, <3>1, <3>2
    <2> QED
      BY <2>1, <2>2, <2>3
  <1>1. CASE SetStatus
    <2>1. version' = version + 1 /\ version' \in Versions /\ State(version') \in Frame
      BY <1>1, <1>t DEF SetStatus, Versions, State, Frame
    <2> QED
      BY <1>1, <1>b, <1>s, <1>t, <2>1 DEF SetStatus, PastInv
  <1>2. CASE Log
    BY <1>2, <1>b, <1>s, <1>t DEF Log, PastInv, LinkTypeOK
  <1>3. CASE ReadDraft
    <2>1. PastInv'
      BY <1>3, <1>c, <1>t DEF ReadDraft, PastInv
    <2>2. PumpInv' /\ NewsInv'
      BY <1>3, <1>c DEF ReadDraft, PumpInv, NewsInv, Coming, Subscribed
    <2> QED
      BY <2>1, <2>2
  <1>4. CASE SendDraft
    <2>1. State(draft) \in Frame /\ draft <= version
      BY <1>4 DEF SendDraft, LinkTypeOK, State, Frame, PastInv
    <2>2. /\ Broadcast(State(draft)) /\ UNCHANGED <<input, output, server>>
          /\ version' = version /\ draft' = None
      BY <1>4 DEF SendDraft
    <2>3. State(draft).of <= version' /\ version <= version' /\ version' \in Versions
      BY <1>s, <1>t, <2>1, <2>2 DEF LinkTypeOK
    <2> QED
      BY <1>b, <2>1, <2>2, <2>3
  <1>5. CASE Down
    <2>1. /\ \A c \in Conns : sub'[c] = <<>> /\ output'[c] = Whole(c) /\ input'[c] = <<>>
          /\ \A c \in Conns : server'[c] = "none"
          /\ lost' = lost \cup News({sub[Pump][k] : k \in DOMAIN sub[Pump]} \cup Unsent(Pump))
          /\ version' = version /\ draft' = None
      BY <1>5 DEF Down
    <2>2. Range(<<>>) = {}
      BY DEF Range
    <2>3. \A c \in Conns : /\ Range(output'[c]) \subseteq Range(output[c])
                           /\ Range(output[c]) \subseteq Range(output'[c]) \cup Unsent(c)
      <3> SUFFICES ASSUME NEW c \in Conns
                   PROVE  /\ Range(output'[c]) \subseteq Range(output[c])
                          /\ Range(output[c]) \subseteq Range(output'[c]) \cup Unsent(c)
        OBVIOUS
      <3>1. output'[c] = Whole(c)
        BY <2>1
      <3> QED
        BY <3>1, WholeType, Zenon DEF Range
    <2>4. PastInv'
      BY <1>c, <2>1, <2>2, <2>3 DEF PastInv
    <2>5. PumpInv'
      <3>1. output[Pump] = <<>> => Whole(Pump) = <<>>
        BY DEF Whole
      <3> QED
        BY <1>c, <2>1, <3>1 DEF PumpInv
    <2>6. ASSUME Coming(version), ~ Coming(version)' PROVE version \in lost'
      <3>1. State(version) \in {sub[Pump][k] : k \in DOMAIN sub[Pump]} \cup Unsent(Pump)
        BY <2>1, <2>3, <2>6 DEF Coming, Range
      <3>2. State(version).what = "state" /\ State(version).of = version
        BY DEF State
      <3> QED
        BY <2>1, <3>1, <3>2 DEF News
    <2>7. NewsInv'
      BY <1>c, <2>1, <2>6 DEF NewsInv
    <2> QED
      BY <2>4, <2>5, <2>7
  <1>6. CASE Up
    <2>1. version' = version + 1 /\ version' \in lost'
      BY <1>6 DEF Up
    <2>2. \A l \in Frame \cup Line : l.of \in Nat
      BY DEF Frame, Line, Versions
    <2>3. \A c \in Conns : Range(sub[c]) \cup Range(output[c]) \subseteq Frame \cup Line
      BY DEF LinkTypeOK, Range
    <2>4. PastInv'
      <3>1. sub' = sub /\ output' = output /\ draft' = draft
        BY <1>6 DEF Up
      <3>2. ASSUME NEW c \in Conns, NEW l \in Range(sub[c]) \cup Range(output[c])
            PROVE  l.of <= version + 1
        <4>1. l.of \in Nat /\ l.of <= version
          BY <2>2, <2>3 DEF PastInv
        <4> QED
          BY <1>t, <4>1
      <3>3. (draft # None => draft <= version + 1) /\ newest <= version + 1
        BY <1>t DEF PastInv
      <3>4. shown <= newest
        BY DEF PastInv
      <3> QED
        BY <1>c, <2>1, <3>1, <3>2, <3>3, <3>4 DEF PastInv
    <2>5. PumpInv' /\ NewsInv'
      BY <1>6, <1>c, <2>1 DEF Up, PumpInv, NewsInv, Subscribed
    <2> QED
      BY <2>4, <2>5
  <1> QED
    BY <1>1, <1>2, <1>3, <1>4, <1>5, <1>6 DEF DaemonMoves

\* A handler moves a frame from the channel to its client, or adds an answer of now.
LEMMA ServerNews ==
    ASSUME LinkTypeOK, ClientTypeOK, WindowInv, NEW c \in Conns, ServerMoves(c),
           UNCHANGED clientVars
    PROVE  WindowInv'
  <1> USE LinkAssumption DEF WindowInv
  <1>t. /\ version \in Nat /\ sub \in [Conns -> Seq(Frame)] /\ output \in [Conns -> Seq(Line)]
        /\ server \in [Conns -> ServerStates]
    BY DEF LinkTypeOK, Versions
  <1>c. client' = client /\ shown' = shown /\ newest' = newest
    BY DEF clientVars
  <1>e. Range(<<>>) = {}
    BY DEF Range
  <1>s. ServerMoves(c) => version' = version /\ draft' = draft /\ lost' = lost
    BY DEF ServerMoves, Accept, Read, TooLong, Notify, Answer, Sent, Leave
  <1>m. ASSUME \A d \in Conns : Range(sub'[d]) \cup Range(output'[d]) \subseteq
                                  Range(sub[d]) \cup Range(output[d])
                                    \cup [what : {"answer", "error"}, of : {version}],
               Coming(version) => Coming(version)', PumpInv'
        PROVE  WindowInv'
    <2>1. PastInv'
      BY <1>c, <1>m, <1>s, <1>t DEF PastInv
    <2>2. NewsInv'
      BY <1>c, <1>m, <1>s DEF NewsInv
    <2> QED
      BY <1>m, <2>1, <2>2
  <1>1. CASE Accept(c)
    <2>1. sub[c] = <<>> /\ sub' = sub /\ UNCHANGED <<input, output>> /\ server[c] = "waiting"
          /\ server' = [server EXCEPT ![c] = "idle"]
      BY <1>1, <1>t DEF Accept, PumpInv, Subscribed
    <2>2. PumpInv'
      BY <1>c, <1>t, <2>1 DEF PumpInv, Subscribed
    <2> QED
      BY <1>1, <1>m, <1>s, <2>1, <2>2 DEF Coming
  <1>2. CASE Read(c)
    <2>1. sub' = sub /\ output' = output /\ Subscribed(c) /\ Subscribed(c)' /\ c # Pump
          /\ input'[Pump] = input[Pump]
          /\ \A d \in Conns \ {c} : server'[d] = server[d]
      BY <1>2, <1>t DEF Read, Subscribed, PumpInv
    <2>2. PumpInv'
      BY <1>c, <2>1 DEF PumpInv, Subscribed
    <2> QED
      BY <1>2, <1>m, <1>s, <2>1, <2>2 DEF Coming
  <1>3. CASE Notify(c)
    <2>1. /\ server' \in {[server EXCEPT ![c] = "idle"], [server EXCEPT ![c] = "sending"]}
          /\ server[c] \in {"idle", "half"} /\ sub[c] # <<>> /\ input' = input
          /\ \/ sub' = sub /\ output' = output
             \/ /\ output' = [output EXCEPT ![c] = Append(output[c], Head(sub[c]))]
                /\ sub' = [sub EXCEPT ![c] = Tail(sub[c])]
      BY <1>3 DEF Notify, Sends
    <2>2. PumpInv'
      BY <1>c, <1>t, <2>1 DEF PumpInv, Subscribed
    <2>3. Head(sub[c]) \in Line /\ Range(sub[c]) = {Head(sub[c])} \cup Range(Tail(sub[c]))
          /\ Range(Append(output[c], Head(sub[c]))) = Range(output[c]) \cup {Head(sub[c])}
      <3>1. Head(sub[c]) \in Frame /\ Range(sub[c]) = {Head(sub[c])} \cup Range(Tail(sub[c]))
        BY <1>t, <2>1, QueueRange
      <3>2. Head(sub[c]) \in Line /\ output[c] \in Seq(Line)
        BY <1>t, <3>1 DEF Line
      <3> QED
        BY <3>1, <3>2, QueueRange
    <2>4. \A d \in Conns :
            Range(sub'[d]) \cup Range(output'[d]) = Range(sub[d]) \cup Range(output[d])
      BY <1>t, <2>1, <2>3
    <2> QED
      BY <1>3, <1>m, <1>s, <2>2, <2>4 DEF Coming
  <1>4. CASE Answer(c)
    <2>1. PICK l \in [what : {"answer", "error"}, of : {version}] : Sends(c, l)
      BY <1>4 DEF Answer, Error
    <2>2. /\ sub' = sub /\ input' = input /\ server[c] = "dispatching"
          /\ server' \in {[server EXCEPT ![c] = "idle"], [server EXCEPT ![c] = "sending"]}
          /\ output' = [output EXCEPT ![c] = Append(output[c], l)]
      BY <1>4, <2>1 DEF Answer, Sends
    <2>3. PumpInv'
      BY <1>c, <1>t, <2>2 DEF PumpInv, Subscribed
    <2>4. l \in Line
      BY <2>1 DEF Line, LinkTypeOK
    <2>5. Range(Append(output[c], l)) = Range(output[c]) \cup {l}
      BY <1>t, <2>4, QueueRange
    <2>6. (\A d \in Conns \ {c} : output'[d] = output[d]) /\ output'[c] = Append(output[c], l)
      BY <1>t, <2>2
    <2>7. \A d \in Conns : Range(output'[d]) \subseteq Range(output[d]) \cup {l}
      BY <2>5, <2>6
    <2>8. Coming(version) => Coming(version)'
      BY <1>4, <1>s, <2>2, <2>5, <2>6 DEF Coming, ServerMoves
    <2> QED
      BY <1>m, <2>1, <2>2, <2>3, <2>7, <2>8
  <1>6. CASE TooLong(c)
    <2>1. c # Pump
      BY <1>6 DEF TooLong, PumpInv
    <2>2. /\ sub' = [sub EXCEPT ![c] = <<>>]
          /\ output' = [output EXCEPT ![c] = Append(output[c], Error(version))]
          /\ server' = [server EXCEPT ![c] = "none"] /\ input' = [input EXCEPT ![c] = <<>>]
      BY <1>6 DEF TooLong
    <2>3. PumpInv'
      BY <1>c, <1>t, <2>1, <2>2 DEF PumpInv, Subscribed
    <2>4. Error(version) \in Line /\ Error(version) \in [what : {"answer", "error"}, of : {version}]
      BY DEF Error, Line, LinkTypeOK
    <2>5. Range(Append(output[c], Error(version))) = Range(output[c]) \cup {Error(version)}
      BY <1>t, <2>4, QueueRange
    <2>6. \A d \in Conns : Range(sub'[d]) \cup Range(output'[d]) \subseteq
                             Range(sub[d]) \cup Range(output[d]) \cup {Error(version)}
      BY <1>e, <1>t, <2>2, <2>5
    <2>7. Coming(version) => Coming(version)'
      BY <1>6, <1>s, <1>t, <2>1, <2>2 DEF Coming, ServerMoves
    <2> QED
      BY <1>m, <2>3, <2>4, <2>6, <2>7
  <1>7. CASE Sent(c)
    <2>1. sub' = sub /\ UNCHANGED <<input, output>> /\ Subscribed(c) /\ Subscribed(c)'
          /\ server[c] # "none" /\ \A d \in Conns \ {c} : server'[d] = server[d]
      BY <1>7, <1>t DEF Sent, Subscribed
    <2>2. PumpInv'
      BY <1>c, <2>1 DEF PumpInv, Subscribed
    <2> QED
      BY <1>7, <1>m, <1>s, <2>1, <2>2 DEF Coming, ServerMoves
  <1>5. CASE client[c] = "closed" /\ Leave(c)
    <2>1. c # Pump
      BY <1>5 DEF Leave, PumpInv
    <2>2. /\ sub' = [sub EXCEPT ![c] = <<>>] /\ output' = [output EXCEPT ![c] = <<>>]
          /\ input' = [input EXCEPT ![c] = <<>>]
          /\ \A d \in Conns \ {c} : server'[d] = server[d]
      BY <1>5 DEF Leave
    <2>3. PumpInv'
      BY <1>c, <1>t, <2>1, <2>2 DEF PumpInv, Subscribed
    <2> QED
      BY <1>5, <1>e, <1>m, <1>s, <1>t, <2>1, <2>2, <2>3 DEF Coming
  <1> QED
    BY <1>1, <1>2, <1>3, <1>4, <1>5, <1>6, <1>7 DEF ServerMoves

\* The newest version shown is one that was read, and only grows.
LEMMA Shows ==
    ASSUME NEW v \in Versions, NEW w \in Versions, ClientTypeOK, PastInv, v <= w, Show(v),
           newest <= w
    PROVE  /\ newest' \in Versions
           /\ shown' <= newest' /\ newest' <= w /\ newest' >= newest /\ newest' >= v
  BY LinkAssumption DEF Show, ClientTypeOK, PastInv, Versions

\* A call reads, writes or ends on its own connection, which is not the pump's.
LEMMA CallNews ==
    ASSUME LinkTypeOK, ClientTypeOK, WindowInv, NEW c \in Conns, ClientMoves(c)
    PROVE  WindowInv'
  <1> USE LinkAssumption DEF WindowInv, Is, Calls
  <1>t. /\ version \in Nat /\ version \in Versions /\ newest \in Versions /\ shown \in Versions
        /\ sub \in [Conns -> Seq(Frame)] /\ output \in [Conns -> Seq(Line)]
        /\ server \in [Conns -> ServerStates]
        /\ client \in [Conns -> ClientStates]
    BY DEF LinkTypeOK, ClientTypeOK, Versions
  <1>e. Range(<<>>) = {}
    BY DEF Range
  <1>p. c # Pump
    BY DEF ClientMoves, CallSteps, Open, Busy, Write, WriteLarge, Skip, Answered, Refused,
           TimedOut, RefreshStep, UserActs, Begin, PumpInv
  <1>m. ASSUME \A d \in Conns : Range(output'[d]) \subseteq Range(output[d]),
               \A d \in Conns \ {c} : output'[d] = output[d] /\ server'[d] = server[d]
                                        /\ client'[d] = client[d],
               Subscribed(c) => Subscribed(c)', input'[Pump] = input[Pump],
               UNCHANGED <<version, draft, lost, sub>>,
               newest' \in Versions,
               shown' <= newest' /\ newest' <= version /\ newest' >= newest
        PROVE  WindowInv'
    <2>1. PastInv'
      BY <1>m DEF PastInv
    <2>2. PumpInv'
      BY <1>m, <1>p DEF PumpInv, Subscribed
    <2>3. newest >= version => newest' >= version'
      BY <1>m, <1>t DEF Versions
    <2>4. NewsInv'
      BY <1>m, <1>p, <2>3 DEF NewsInv, Coming
    <2> QED
      BY <2>1, <2>2, <2>4
  <1>n. ASSUME UNCHANGED <<shown, newest>>
        PROVE  /\ newest' \in Versions
               /\ shown' <= newest' /\ newest' <= version /\ newest' >= newest
    BY <1>n, <1>t DEF PastInv, Versions
  <1>1. CASE Open(c)
    BY <1>1, <1>e, <1>m, <1>n, <1>t DEF Open, Opened, Subscribed
  <1>2. CASE Busy(c)
    BY <1>2, <1>m, <1>n DEF Busy, linkVars, Subscribed
  <1>3. CASE Write(c)
    <2>1. PICK e \in Pieces : input' = [input EXCEPT ![c] = Append(input[c], e)]
      BY <1>3 DEF Write
    <2>2. input'[Pump] = input[Pump]
      BY <1>p, <2>1 DEF LinkTypeOK
    <2>3. UNCHANGED <<version, draft, sub, server, output, lost, shown, newest>>
      BY <1>3 DEF Write
    <2>4. client' \in {[client EXCEPT ![c] = "ending"], [client EXCEPT ![c] = "reading"]}
      BY <1>3 DEF Write
    <2>5. /\ newest' \in Versions
          /\ shown' <= newest' /\ newest' <= version /\ newest' >= newest
      BY <1>n, <2>3
    <2>6. /\ \A d \in Conns : Range(output'[d]) \subseteq Range(output[d])
          /\ \A d \in Conns \ {c} : output'[d] = output[d] /\ server'[d] = server[d]
                                   /\ client'[d] = client[d]
          /\ Subscribed(c) => Subscribed(c)'
      BY <1>t, <2>3, <2>4 DEF Subscribed
    <2> QED
      BY <1>m, <2>2, <2>3, <2>5, <2>6
  <1>8. CASE WriteLarge(c)
    BY <1>8, <1>m, <1>n, <1>t DEF WriteLarge, Subscribed
  <1>r. ASSUME Reads(c), lost' = lost
        PROVE  /\ \A d \in Conns : Range(output'[d]) \subseteq Range(output[d])
               /\ \A d \in Conns \ {c} : output'[d] = output[d]
               /\ UNCHANGED <<version, draft, lost, sub, server, input>>
               /\ Head(output[c]).of \in Versions /\ Head(output[c]).of <= version
    <2>1. /\ Head(output[c]) \in Line
          /\ Range(output[c]) = {Head(output[c])} \cup Range(Tail(output[c]))
      BY <1>r, <1>t, QueueRange DEF Reads
    <2>2. Head(output[c]).of \in Versions /\ Head(output[c]).of <= version
      BY <2>1 DEF Line, Frame, Versions, PastInv
    <2> QED
      BY <1>r, <1>t, <2>1, <2>2 DEF Reads
  <1>4. CASE Skip(c)
    BY <1>4, <1>m, <1>n, <1>r DEF Skip, Subscribed
  <1>5. CASE Answered(c)
    <2>1. /\ newest' \in Versions
          /\ shown' <= newest' /\ newest' <= version /\ newest' >= newest
      <3>1. Show(Head(output[c]).of) \/ UNCHANGED <<shown, newest>>
        BY <1>5 DEF Answered, Refreshed
      <3>2. newest <= version
        BY DEF PastInv
      <3>3. Reads(c) /\ lost' = lost
        BY <1>5 DEF Answered
      <3> QED
        BY <1>n, <1>r, <1>t, <3>1, <3>2, <3>3, Shows
    <2> QED
      BY <1>5, <1>m, <1>r, <2>1 DEF Answered, Ends, Subscribed
  <1>6. CASE Refused(c) \/ TimedOut(c)
    <2>1. /\ client' = [client EXCEPT ![c] = "closed"]
          /\ UNCHANGED <<shown, newest, version, draft, lost, sub, input, output, server>>
      BY <1>6 DEF Refused, TimedOut, GiveUp, Ends, linkVars
    <2> QED
      BY <1>m, <1>n, <2>1 DEF Subscribed
  <1>7. CASE RefreshStep(c) \/ UserActs(c)
    <2>1. /\ client' = [client EXCEPT ![c] = "opening"]
          /\ UNCHANGED <<shown, newest, version, draft, lost, sub, input, output, server>>
      BY <1>7 DEF RefreshStep, UserActs, Begin, linkVars
    <2> QED
      BY <1>m, <1>n, <2>1 DEF Subscribed
  <1> QED
    BY <1>1, <1>2, <1>3, <1>4, <1>5, <1>6, <1>7, <1>8 DEF ClientMoves, CallSteps

\* The pump reads what its handler wrote, and every state is shown, or lost on a window
\* that does not listen.
LEMMA PumpNews ==
    ASSUME LinkTypeOK, ClientTypeOK, WindowInv, UserRefreshes \/ Subscribe \/ PumpSteps
    PROVE  WindowInv'
  <1> USE LinkAssumption DEF WindowInv, Is
  <1>t. /\ version \in Nat /\ version \in Versions /\ newest \in Versions /\ shown \in Versions
        /\ output \in [Conns -> Seq(Line)]
        /\ server \in [Conns -> ServerStates]
        /\ client \in [Conns -> ClientStates]
    BY DEF LinkTypeOK, ClientTypeOK, Versions
  <1>e. Range(<<>>) = {}
    BY DEF Range
  <1>1. CASE UserRefreshes \/ Subscribe \/ PumpEnds
    BY <1>1, <1>t DEF UserRefreshes, Subscribe, PumpEnds, linkVars, PastInv, PumpInv, NewsInv, Coming,
                      Subscribed
  <1>2. CASE PumpOpens
    <2>1. /\ output' = [output EXCEPT ![Pump] = <<>>] /\ output[Pump] = <<>>
          /\ server' = [server EXCEPT ![Pump] = "waiting"] /\ server[Pump] = "none"
          /\ client' = [client EXCEPT ![Pump] = "reading"]
          /\ input' = [input EXCEPT ![Pump] = <<>>]
          /\ UNCHANGED <<version, draft, lost, sub, shown, newest>>
      BY <1>2 DEF PumpOpens, Opened, PumpInv
    <2>2. output' = output
      BY <1>t, <2>1
    <2>3. PastInv' /\ NewsInv'
      BY <2>1, <2>2 DEF PastInv, NewsInv, Coming
    <2>4. PumpInv'
      BY <1>t, <2>1 DEF PumpInv, Subscribed
    <2> QED
      BY <2>3, <2>4
  <1>3. CASE PumpReads
    <2> DEFINE l == Head(output[Pump])
    <2>1. /\ output' = [output EXCEPT ![Pump] = Tail(output[Pump])] /\ output[Pump] # <<>>
          /\ client[Pump] = "reading"
          /\ UNCHANGED <<version, draft, sub, server, client, input>>
          /\ lost' = IF listening THEN lost ELSE lost \cup News({l})
          /\ IF listening /\ l.what = "state" THEN Show(l.of) ELSE UNCHANGED <<shown, newest>>
      BY <1>3 DEF PumpReads, Reads
    <2>2. l \in Line /\ Range(output[Pump]) = {l} \cup Range(Tail(output[Pump]))
      BY <1>t, <2>1, QueueRange
    <2>3. l.of \in Versions /\ l.of <= version
      BY <2>2 DEF Line, Frame, Versions, PastInv
    <2>4. newest \in Nat /\ version \in Nat /\ newest <= version /\ shown <= newest
      BY <1>t DEF PastInv, Versions
    <2>5. shown' <= newest' /\ newest' <= version /\ newest' >= newest
          /\ (listening /\ l.what = "state" => newest' >= l.of) /\ newest' \in Versions
      <3>1. CASE listening /\ l.what = "state"
        BY <1>t, <2>1, <2>3, <2>4, <3>1, Shows
      <3>2. CASE ~ (listening /\ l.what = "state")
        BY <1>t, <2>1, <2>4, <3>2
      <3> QED
        BY <3>1, <3>2
    <2>6. output'[Pump] = Tail(output[Pump]) /\ \A d \in Conns \ {Pump} : output'[d] = output[d]
      BY <1>t, <2>1
    <2>7. PastInv'
      BY <2>1, <2>2, <2>5, <2>6 DEF PastInv
    <2>8. PumpInv'
      BY <2>1, <2>6 DEF PumpInv, Subscribed
    <2>9. NewsInv'
      <3>1. CASE l = State(version)
        <4>1. l.what = "state" /\ l.of = version
          BY <3>1 DEF State
        <4>2. CASE listening
          BY <2>1, <2>5, <4>1, <4>2 DEF NewsInv
        <4>3. CASE ~ listening
          BY <2>1, <4>1, <4>3 DEF NewsInv, News
        <4> QED
          BY <4>2, <4>3
      <3>2. CASE l # State(version)
        <4>1. Coming(version) => Coming(version)'
          BY <2>1, <2>2, <2>6, <3>2 DEF Coming
        <4>2. newest >= version => newest' >= version'
          BY <2>1, <2>4, <2>5 DEF Versions
        <4>3. version \in lost => version' \in lost'
          BY <2>1
        <4> QED
          BY <2>1, <4>1, <4>2, <4>3 DEF NewsInv
      <3> QED
        BY <3>1, <3>2
    <2> QED
      BY <2>7, <2>8, <2>9
  <1> QED
    BY <1>1, <1>2, <1>3 DEF PumpSteps

LEMMA WindowKept ==
    ASSUME TypeInv, WindowInv, LinkStep \/ UNCHANGED vars PROVE WindowInv'
  <1> USE DEF TypeInv
  <1>1. CASE UNCHANGED vars
    BY <1>1 DEF vars, linkVars, clientVars, WindowInv, PastInv, PumpInv, NewsInv, Coming,
                Subscribed
  <1> QED
    BY <1>1, DaemonNews, ServerNews, CallNews, PumpNews DEF LinkStep

LEMMA WindowInit == AppInit => WindowInv
  <1> SUFFICES ASSUME AppInit PROVE WindowInv
    OBVIOUS
  <1>1. Range(<<>>) = {}
    BY DEF Range
  <1> QED
    BY <1>1, LinkAssumption DEF AppInit, Init, LinkInit, WindowInv, PastInv, PumpInv, NewsInv

\* At rest the window shows the daemon's state, or its frame was lost, or something older
\* came after it (rpc.rs:326, transport.rs).
THEOREM ShownUnlessLost == AppSpec => []ShownAtRest
  <1>1. LinkInv /\ WindowInv /\ [AppNext]_appVars => WindowInv'
    BY LinkSteps, WindowKept DEF LinkInv
  <1>2. LinkInv /\ WindowInv => ShownAtRest
    <2> SUFFICES ASSUME LinkInv, WindowInv, Quiet
                 PROVE  shown = version \/ version \in lost \/ shown < newest
      BY DEF ShownAtRest
    <2>1. version \in Nat /\ shown \in Nat /\ newest \in Nat
      BY LinkAssumption DEF LinkInv, TypeInv, LinkTypeOK, ClientTypeOK, Versions
    <2>2. ~ Coming(version)
      BY DEF Quiet, Coming, Range
    <2> QED
      BY <2>1, <2>2 DEF WindowInv, PastInv, NewsInv
  <1> QED
    BY <1>1, <1>2, WindowInit, LinkInvariance, PTL DEF AppSpec
=============================================================================
