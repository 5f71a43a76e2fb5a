---------------------------- MODULE StorePromise ----------------------------
(***************************************************************************)
(* What the daemon promises its clients of their profiles (store.rs:102,   *)
(* state.rs:324), through crashes: a save replaces all of what is kept, in *)
(* one step; Ok is the answer to what is kept; and a daemon that comes up  *)
(* has what was kept.  Nothing here knows of files, keys or locks.         *)
(***************************************************************************)
EXTENDS Naturals

CONSTANT Ids

VARIABLES
    live,     \* there is a daemon that serves
    memory,   \* the profiles it answers with; none without a daemon
    disk,     \* the profiles that are kept
    acked,    \* as the answers told the clients
    open      \* profiles whose last change was not answered with Ok

vars == <<live, memory, disk, acked, open>>

\* A profile is absent (0), imported (1) or updated (2).
Nothing == [i \in Ids |-> 0]

Init == ~ live /\ memory = Nothing /\ disk = Nothing /\ acked = Nothing /\ open = {}

Ask(i, version) ==
    /\ live
    /\ memory' = [memory EXCEPT ![i] = version] /\ open' = open \cup {i}
    /\ UNCHANGED <<live, disk, acked>>

\* An imported profile is nowhere yet; others are known.
Import(i) == memory[i] = 0 /\ disk[i] = 0 /\ Ask(i, 1)
Edit(i)   == memory[i] # 0 /\ \E version \in {0, 2} : Ask(i, version)

Save == live /\ disk' = memory /\ UNCHANGED <<live, memory, acked, open>>

Answer(i) ==
    /\ live /\ memory[i] = disk[i]
    /\ acked' = [acked EXCEPT ![i] = memory[i]] /\ open' = open \ {i}
    /\ UNCHANGED <<live, memory, disk>>

Start == ~ live /\ live' /\ memory' = disk /\ UNCHANGED <<disk, acked, open>>

\* What is kept cannot be read, and nobody knows what the next save leaves of it.
StartBlind ==
    /\ ~ live /\ live' /\ memory' = Nothing /\ open' = Ids
    /\ UNCHANGED <<disk, acked>>

Stop == live /\ ~ live' /\ memory' = Nothing /\ UNCHANGED <<disk, acked, open>>

\* Damage from outside, or a key that was not seen, takes what was answered with what
\* was kept.
Lose ==
    /\ ~ live /\ disk' = Nothing /\ acked' = Nothing
    /\ UNCHANGED <<live, memory, open>>

Next ==
    \/ \E i \in Ids : Import(i) \/ Edit(i) \/ Answer(i)
    \/ Save \/ Start \/ StartBlind \/ Stop \/ Lose

Spec == Init /\ [][Next]_vars
=============================================================================
