------------------------------- MODULE RpcLink -------------------------------
(***************************************************************************)
(* The daemon's end of its connections (crates/vpndaemon/src/rpc.rs):      *)
(* accept, the select! between a request's line and the broadcast channel, *)
(* dispatch, and the notifications (AppState::set_status, the log's        *)
(* TeeWriter, portal_flow's upsert_profiles).                              *)
(*                                                                         *)
(* The state the clients are told of is its version: each set_status makes *)
(* the next.  A request comes as its line and then the line's end, which a *)
(* client writes separately; the line may come in pieces.  A line that the *)
(* system has no room for is written when the client has read another, and *)
(* until then the handler does nothing else.                               *)
(***************************************************************************)
EXTENDS Naturals, Sequences, FiniteSets

CONSTANTS
    Conns,        \* connections
    Pump,         \* the one the application listens on
    Capacity,     \* frames the broadcast channel keeps; 1024 in the code
    Buffer,       \* lines the system keeps for a client that does not read
    MaxVersion,   \* bound on state changes and restarts
    MaxSyncs,     \* bound on syncs
    None

ASSUME LinkAssumption ==
    /\ Capacity \in Nat \ {0} /\ Buffer \in Nat \ {0} /\ MaxVersion \in Nat
    /\ MaxSyncs \in Nat
    /\ Pump \in Conns /\ None \notin Nat

VARIABLES
    up,       \* the RPC server serves
    version,  \* of VpnState
    syncs,    \* syncs so far
    draft,    \* local to upsert_profiles: the version its frame will report
    sub,      \* frames a connection has not received from the channel
    lagged,   \* its receiver was overtaken by the channel
    server,   \* where each connection's handler is
    input,    \* what the client wrote and the handler did not read
    output,   \* lines the handler wrote and the client did not read
    torn,     \* history: the handler forgot half a line of this connection
    lost      \* history: versions whose frame does not reach the pump

linkVars == <<up, version, syncs, draft, sub, lagged, server, input, output, torn, lost>>

Versions == 0 .. MaxVersion
Pieces == {"text", "end", "over"}   \* over ends a line longer than MAX_LINE_LEN
Frame == [what : {"state"}, of : Versions] \cup [what : {"log"}, of : {0}]
Line  == Frame \cup [what : {"answer", "error"}, of : Versions]
LogEntry == [what |-> "log", of |-> 0]
State(v) == [what |-> "state", of |-> v]
Error(v) == [what |-> "error", of |-> v]

LinkTypeOK ==
    /\ up \in BOOLEAN /\ version \in Versions /\ draft \in Versions \cup {None}
    /\ syncs \in 0 .. MaxSyncs
    /\ lost \subseteq Versions
    /\ sub \in [Conns -> Seq(Frame)] /\ lagged \in [Conns -> BOOLEAN]
    /\ server \in [Conns -> {"none", "waiting", "idle", "half", "dispatching", "sending"}]
    /\ input \in [Conns -> Seq(Pieces)] /\ output \in [Conns -> Seq(Line)]
    /\ torn \in [Conns -> BOOLEAN]
    /\ \A c \in Conns :
         /\ Len(sub[c]) <= Capacity
         /\ Len(output[c]) <= IF server[c] \in {"none", "sending"} THEN Buffer + 1 ELSE Buffer

LinkInit ==
    /\ up \in BOOLEAN /\ version = 0 /\ syncs = 0 /\ draft = None
    /\ sub = [c \in Conns |-> <<>>] /\ lagged = [c \in Conns |-> FALSE]
    /\ server = [c \in Conns |-> "none"]
    /\ input = [c \in Conns |-> <<>>] /\ output = [c \in Conns |-> <<>>]
    /\ torn = [c \in Conns |-> FALSE] /\ lost = {}

Subscribed(c) == server[c] \in {"idle", "half", "dispatching", "sending"}

-----------------------------------------------------------------------------
(* The broadcast channel: what a receiver was too slow for is overwritten. *)

\* Mutant: the channel keeps one frame more than it has room for.
MutantOvertaken(c) == Subscribed(c) /\ Len(sub[c]) > Capacity

Overtaken(c) == Subscribed(c) /\ Len(sub[c]) = Capacity

Missed(c, frame) ==
    IF ~ Subscribed(c) THEN {frame} ELSE IF Overtaken(c) THEN {Head(sub[c])} ELSE {}

News(frames) == {f.of : f \in {g \in frames : g.what = "state"}}

Broadcast(frame) ==
    /\ sub' = [c \in Conns |->
         IF ~ Subscribed(c) THEN sub[c]
         ELSE Append(IF Overtaken(c) THEN Tail(sub[c]) ELSE sub[c], frame)]
    /\ lagged' = [c \in Conns |-> lagged[c] \/ Overtaken(c)]
    /\ lost' = lost \cup News(Missed(Pump, frame))

\* set_status, under the data's lock.
SetStatus ==
    /\ up /\ version < MaxVersion /\ version' = version + 1
    /\ Broadcast(State(version'))
    /\ UNCHANGED <<up, syncs, draft, server, input, output, torn>>

\* TeeWriter::emit: every line of the log.
Log ==
    /\ up /\ Broadcast(LogEntry)
    /\ UNCHANGED <<up, version, syncs, draft, server, input, output, torn>>

\* upsert_profiles reads the state under one lock and sends it after.
ReadDraft ==
    /\ up /\ draft = None /\ syncs < MaxSyncs
    /\ draft' = version /\ syncs' = syncs + 1
    /\ UNCHANGED <<up, version, sub, lagged, server, input, output, torn, lost>>

SendDraft ==
    /\ up /\ draft # None /\ draft' = None /\ Broadcast(State(draft))
    /\ UNCHANGED <<up, version, syncs, server, input, output, torn>>

-----------------------------------------------------------------------------
(* handle_connection *)

\* The handler's task begins, and subscribes: frames before that are not for it.
Accept(c) ==
    /\ up /\ server[c] = "waiting"
    /\ server' = [server EXCEPT ![c] = "idle"]
    /\ sub' = [sub EXCEPT ![c] = <<>>] /\ lagged' = [lagged EXCEPT ![c] = FALSE]
    /\ torn' = [torn EXCEPT ![c] = FALSE]
    /\ UNCHANGED <<up, version, syncs, draft, input, output, lost>>

\* read_line takes what is there. A line that ended is dispatched; of one whose only
\* piece was forgotten the end is left, an empty line. What is left of a line that is
\* too long may be short enough.
Read(c) ==
    /\ server[c] \in {"idle", "half"} /\ input[c] # <<>>
    /\ server[c] = "half" /\ Head(input[c]) = "over" => torn[c]
    /\ input' = [input EXCEPT ![c] = Tail(input[c])]
    /\ server' = [server EXCEPT ![c] =
         IF Head(input[c]) = "text" THEN "half"
         ELSE IF server[c] = "half" THEN "dispatching" ELSE "idle"]
    /\ UNCHANGED <<up, version, syncs, draft, sub, lagged, output, torn, lost>>

\* A line that is too long is answered with an error, and the handler ends.
TooLong(c) ==
    /\ server[c] = "half" /\ input[c] # <<>> /\ Head(input[c]) = "over"
    /\ output' = [output EXCEPT ![c] = Append(output[c], Error(version))]
    /\ server' = [server EXCEPT ![c] = "none"]
    /\ sub' = [sub EXCEPT ![c] = <<>>] /\ lagged' = [lagged EXCEPT ![c] = FALSE]
    /\ input' = [input EXCEPT ![c] = <<>>]
    /\ UNCHANGED <<up, version, syncs, draft, torn, lost>>

\* write_all: without room for the line the handler waits in it.
Sends(c, line) ==
    /\ output' = [output EXCEPT ![c] = Append(output[c], line)]
    /\ server' = [server EXCEPT ![c] = IF Len(output[c]) < Buffer THEN "idle" ELSE "sending"]

Sent(c) ==
    /\ server[c] = "sending" /\ Len(output[c]) <= Buffer
    /\ server' = [server EXCEPT ![c] = "idle"]
    /\ UNCHANGED <<up, version, syncs, draft, sub, lagged, input, output, torn, lost>>

\* Mutants: the buffered reader is made anew for every line; Lagged empties the
\* receiver.
MutantNotify(c) ==
    /\ server[c] \in {"idle", "half"} /\ sub[c] # <<>> /\ ~ lagged[c]
    /\ output' = [output EXCEPT ![c] = Append(output[c], Head(sub[c]))]
    /\ sub' = [sub EXCEPT ![c] = Tail(sub[c])]
    /\ server' = [server EXCEPT ![c] = IF Len(output[c]) < Buffer THEN server[c] ELSE "sending"]
    /\ input' = [input EXCEPT ![c] = <<>>]
    /\ UNCHANGED <<up, version, syncs, draft, lagged, torn, lost>>

MutantNotifyLagged(c) ==
    /\ server[c] \in {"idle", "half"} /\ sub[c] # <<>>
    /\ torn' = [torn EXCEPT ![c] = torn[c] \/ server[c] = "half"]
    /\ lagged' = [lagged EXCEPT ![c] = FALSE]
    /\ IF lagged[c]
       THEN server' = [server EXCEPT ![c] = "idle"] /\ output' = output
       ELSE Sends(c, Head(sub[c]))
    /\ sub' = [sub EXCEPT ![c] = IF lagged[c] THEN <<>> ELSE Tail(sub[c])]
    /\ UNCHANGED <<up, version, syncs, draft, input, lost>>

\* The other branch of select!: the line being read is dropped, and cleared. Lagged is
\* ignored.
Notify(c) ==
    /\ server[c] \in {"idle", "half"} /\ sub[c] # <<>>
    /\ torn' = [torn EXCEPT ![c] = torn[c] \/ server[c] = "half"]
    /\ IF lagged[c]
       THEN /\ lagged' = [lagged EXCEPT ![c] = FALSE]
            /\ server' = [server EXCEPT ![c] = "idle"] /\ UNCHANGED <<sub, output>>
       ELSE /\ lagged' = lagged /\ Sends(c, Head(sub[c]))
            /\ sub' = [sub EXCEPT ![c] = Tail(sub[c])]
    /\ UNCHANGED <<up, version, syncs, draft, input, lost>>

\* dispatch returns; while it ran, frames piled up. What is left of a line that was cut
\* in two is no request: the error has no id.
Answer(c) ==
    /\ server[c] = "dispatching"
    /\ Sends(c, IF torn[c] THEN Error(version) ELSE [what |-> "answer", of |-> version])
    /\ UNCHANGED <<up, version, syncs, draft, sub, lagged, input, torn, lost>>

\* The client went away: the handler reads the end of input, or, its dispatch over,
\* cannot write. Half a line is dispatched as if it had ended.
Leave(c) ==
    /\ server[c] # "none"
    /\ server' = [server EXCEPT ![c] =
         IF server[c] = "half" THEN "dispatching" ELSE "none"]
    /\ sub' = [sub EXCEPT ![c] = <<>>] /\ lagged' = [lagged EXCEPT ![c] = FALSE]
    /\ input' = [input EXCEPT ![c] = <<>>] /\ output' = [output EXCEPT ![c] = <<>>]
    /\ UNCHANGED <<up, version, syncs, draft, torn, lost>>

-----------------------------------------------------------------------------
(* The process. *)

\* The line the handler was still writing, and those before it.
Unsent(c) == {output[c][k] : k \in {Buffer + 1} \cap DOMAIN output[c]}
Whole(c) == IF Len(output[c]) > Buffer THEN SubSeq(output[c], 1, Buffer) ELSE output[c]

\* Its connections end; what it wrote can still be read.
Down ==
    /\ up /\ up' = FALSE /\ draft' = None
    /\ server' = [c \in Conns |-> "none"]
    /\ sub' = [c \in Conns |-> <<>>] /\ lagged' = [c \in Conns |-> FALSE]
    /\ input' = [c \in Conns |-> <<>>] /\ output' = [c \in Conns |-> Whole(c)]
    /\ lost' = lost \cup News({sub[Pump][k] : k \in DOMAIN sub[Pump]} \cup Unsent(Pump))
    /\ UNCHANGED <<version, syncs, torn>>

\* It comes back with a state of its own, and tells nobody.
Up ==
    /\ ~ up /\ version < MaxVersion /\ up' = TRUE
    /\ version' = version + 1
    /\ lost' = lost \cup {version'}
    /\ UNCHANGED <<syncs, draft, sub, lagged, server, input, output, torn>>
=============================================================================
