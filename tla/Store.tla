------------------------------- MODULE Store -------------------------------
(***************************************************************************)
(* What the daemon keeps: the data of AppState in memory, the encrypted    *)
(* profiles.dat and its key on disk (crates/vpncore/src/store.rs), how the *)
(* two are read when the daemon comes up and written when a handler        *)
(* changed the data (crates/vpndaemon/src/state.rs).                       *)
(*                                                                         *)
(* A file is absent (None), Torn (what is left of a write that did not     *)
(* end, or of damage from outside) or whole.  std::fs::write empties the   *)
(* file before it fills it, so it is two steps; a rename is one.  A crash  *)
(* may come between any two steps.  A save is made under the data's write  *)
(* lock and without an await, so that one is under way at a time.          *)
(***************************************************************************)
EXTENDS Naturals, FiniteSets

CONSTANTS
    Ids,         \* imported profiles
    Urls,        \* addresses of the portal that settings and policies name
    Flows,       \* flows with the portal; the token a login gets bears its name
    MaxFaults,   \* bound on crashes, I/O errors and damage
    None, Torn

ASSUME StoreAssumption ==
    /\ Ids \cap Flows = {} /\ (Ids \cup Flows) \cap {"settings", "shutdown"} = {}
    /\ None \notin Ids \cup Urls \cup Flows \cup {"settings", "shutdown"} \cup Nat
    /\ Torn \notin {None} \cup Nat
    /\ MaxFaults \in Nat

VARIABLES
    mem,         \* SharedData: profiles, portal_url, portal_token
    inUse,       \* the key the store was made with
    boot,        \* how far bootstrap_state came; "down" without a process
    io,          \* where the save under way is
    writer,      \* and for whom: a profile's handler, "settings", a flow, "shutdown"
    file, tmp,   \* profiles.dat and profiles.dat.tmp
    key, keyTmp, \* corpvpnd.key and corpvpnd.key.tmp
    aside,       \* files renamed to *.corrupt-<time>
    minted,      \* keys made so far: each is drawn anew, so each is another number
    policyUrl,   \* the PortalUrl policy of now
    faults,
    acked,       \* history: the profiles as the answers told the clients
    open,        \* history: profiles with a change that was not acknowledged
    base         \* history: the file this daemon's memory comes from; Torn if
                 \* there was one that could be neither read nor set aside

storeVars == <<mem, inUse, boot, io, writer, file, tmp, key, keyTmp, aside, minted,
               policyUrl, faults, acked, open, base>>

files == <<file, tmp, key, keyTmp, aside>>

\* A profile is absent (0) or in one of its versions: imported (1), updated (2).
Data    == [profiles : [Ids -> 0 .. 2], url : Urls \cup {None},
            portal : Flows \cup {None}, session : Flows \cup {None}]
Sealed  == [by : Nat, data : Data]
Default == [profiles |-> [i \in Ids |-> 0], url |-> None, portal |-> None,
            session |-> None]

ASSUME SealedAssumption == {None, Torn} \cap Sealed = {}

BootSteps == {"down", "key", "isolateKey", "isolate", "makeKey", "fillKey", "installKey",
              "load", "up", "failed", "loadFailed"}

StoreTypeOK ==
    /\ mem \in Data /\ inUse \in Nat
    /\ boot \in BootSteps
    /\ io \in {"rest", "open", "fill", "rename", "saved", "refused"}
    /\ writer \in Ids \cup Flows \cup {"settings", "shutdown", None}
    /\ writer = None <=> io = "rest"
    /\ file \in Sealed \cup {None, Torn} /\ tmp \in Sealed \cup {None, Torn}
    /\ key \in Nat \cup {None, Torn} /\ keyTmp \in Nat \cup {None, Torn}
    /\ aside \subseteq Sealed \cup {Torn} \cup Nat
    /\ minted \in Nat /\ faults \in 0 .. MaxFaults
    /\ policyUrl \in Urls \cup {None}
    /\ acked \in [Ids -> 0 .. 2] /\ open \subseteq Ids
    /\ base \in Sealed \cup {None, Torn}

StoreInit ==
    /\ mem = Default /\ inUse = 0 /\ boot = "down"
    /\ io = "rest" /\ writer = None
    /\ file = None /\ tmp = None /\ key = None /\ keyTmp = None /\ aside = {}
    /\ minted = 0 /\ policyUrl \in Urls \cup {None} /\ faults \in 0 .. MaxFaults
    /\ acked = Default.profiles /\ open = {} /\ base = None

Fault == faults < MaxFaults /\ faults' = faults + 1

-----------------------------------------------------------------------------
(* Coming up: load_or_create_key and AppState::load. *)

Overlay(url) == IF policyUrl = None THEN url ELSE policyUrl

\* A key of 32 bytes is taken, one of another length set aside; none is made anew.
ReadKey ==
    /\ boot = "key"
    /\ boot' = CASE key = None -> "makeKey"
                 [] key = Torn -> "isolateKey"
                 [] OTHER      -> "load"
    /\ inUse' = IF key \in {None, Torn} THEN inUse ELSE key
    /\ UNCHANGED <<mem, io, writer, files, minted, policyUrl, faults, acked, open, base>>

\* exists() is false of a file it cannot look at, and a key is made in its place.
KeyUnseen ==
    /\ boot = "key" /\ key # None /\ Fault
    /\ boot' = "makeKey"
    /\ UNCHANGED <<mem, inUse, io, writer, files, minted, policyUrl, acked, open, base>>

\* Reading, writing or renaming the key fails: bootstrap_state returns the error.
KeyFails ==
    /\ boot \in {"key", "makeKey", "fillKey", "installKey"} /\ Fault
    /\ boot' = "failed"
    /\ UNCHANGED <<mem, inUse, io, writer, files, minted, policyUrl, acked, open,
                   base>>

\* A rename that sets a file aside may fail: then the file stays, and the start goes on.
NotSetAside == Fault /\ UNCHANGED files

IsolateKey ==
    /\ boot = "isolateKey" /\ boot' = "isolate"
    /\ \/ /\ aside' = aside \cup ({key} \ {None}) /\ key' = None
          /\ UNCHANGED <<file, tmp, keyTmp, faults>>
       \/ NotSetAside
    /\ UNCHANGED <<mem, inUse, io, writer, minted, policyUrl, acked, open, base>>

\* What the lost key had sealed goes the same way.
IsolateStore ==
    /\ boot = "isolate" /\ boot' = "makeKey"
    /\ \/ /\ aside' = aside \cup ({file} \ {None}) /\ file' = None
          /\ UNCHANGED <<tmp, key, keyTmp, faults>>
       \/ NotSetAside
    /\ UNCHANGED <<mem, inUse, io, writer, minted, policyUrl, acked, open, base>>

OpenKeyFile ==
    /\ boot = "makeKey" /\ boot' = "fillKey" /\ keyTmp' = Torn
    /\ UNCHANGED <<mem, inUse, io, writer, file, tmp, key, aside, minted, policyUrl,
                   faults, acked, open, base>>

FillKeyFile ==
    /\ boot = "fillKey" /\ boot' = "installKey"
    /\ minted' = minted + 1 /\ keyTmp' = minted' /\ inUse' = minted'
    /\ UNCHANGED <<mem, io, writer, file, tmp, key, aside, policyUrl, faults, acked,
                   open, base>>

\* What a key that was only unseen had sealed, nothing opens any more.
InstallKey ==
    /\ boot = "installKey" /\ boot' = "load"
    /\ key' = keyTmp /\ keyTmp' = None
    /\ acked' = IF key \in {None, Torn} THEN acked ELSE Default.profiles
    /\ UNCHANGED <<mem, inUse, io, writer, file, tmp, aside, minted, policyUrl, faults,
                   open, base>>

\* The daemon is up with this content, overlaid with the policies.
ComeUp(data, from) ==
    /\ boot' = "up" /\ base' = from
    /\ mem' = [data EXCEPT !.url = Overlay(data.url)]

Opens(blob) == blob \notin {None, Torn} /\ blob.by = inUse

\* Ok, and the first start, which has no file.
Load ==
    /\ boot = "load" /\ (file = None \/ Opens(file))
    /\ ComeUp(IF file = None THEN Default ELSE file.data, file)
    /\ UNCHANGED <<inUse, io, writer, files, minted, policyUrl, faults, acked, open>>

\* Mutants: a store that does not open is dropped; or it is an error like another.
MutantLoadIsolates ==
    /\ boot = "load" /\ file # None /\ ~ Opens(file)
    /\ file' = None
    /\ ComeUp(Default, None)
    /\ UNCHANGED <<inUse, io, writer, tmp, key, keyTmp, aside, minted, policyUrl, faults,
                   acked, open>>

MutantLoadRefuses ==
    /\ boot = "load" /\ file # None /\ ~ Opens(file)
    /\ boot' = "loadFailed"
    /\ UNCHANGED <<mem, inUse, io, writer, files, minted, policyUrl, faults, acked, open,
                   base>>

\* Crypto and Serialize: the file is set aside, if it can be, and the daemon starts
\* from nothing.
LoadIsolates ==
    /\ boot = "load" /\ file # None /\ ~ Opens(file)
    /\ \/ /\ aside' = aside \cup {file} /\ file' = None /\ ComeUp(Default, None)
          /\ UNCHANGED <<tmp, key, keyTmp, faults>>
       \/ NotSetAside /\ ComeUp(Default, Torn)
    /\ UNCHANGED <<inUse, io, writer, minted, policyUrl, acked, open>>

\* Every Io error is taken for a first start, and the file stays where it is: what
\* the clients knew is neither there nor gone.
LoadUnreadable ==
    /\ boot = "load" /\ file # None /\ Fault
    /\ ComeUp(Default, Torn)
    /\ open' = Ids
    /\ UNCHANGED <<inUse, io, writer, files, minted, policyUrl, acked>>

Booting ==
    \/ ReadKey \/ KeyUnseen \/ KeyFails \/ IsolateKey \/ IsolateStore
    \/ OpenKeyFile \/ FillKeyFile \/ InstallKey
    \/ Load \/ LoadIsolates \/ LoadUnreadable

-----------------------------------------------------------------------------
(* AppState::persist and EncryptedFileStore::save. *)

\* w takes the write lock and changes the data; the save begins.
Change(w, data) ==
    /\ boot = "up" /\ io = "rest"
    /\ mem' = data /\ writer' = w /\ io' = "open"
    /\ UNCHANGED <<inUse, boot, files, minted, policyUrl, faults, base>>

\* Mutant: the store is written in place.
MutantOpenTmp ==
    /\ io = "open" /\ io' = "fill" /\ tmp' = Torn /\ file' = Torn
    /\ UNCHANGED <<mem, inUse, boot, writer, key, keyTmp, aside, minted, policyUrl,
                   faults, acked, open, base>>

OpenTmp ==
    /\ io = "open" /\ io' = "fill" /\ tmp' = Torn
    /\ UNCHANGED <<mem, inUse, boot, writer, file, key, keyTmp, aside, minted, policyUrl,
                   faults, acked, open, base>>

FillTmp ==
    /\ io = "fill" /\ io' = "rename" /\ tmp' = [by |-> inUse, data |-> mem]
    /\ UNCHANGED <<mem, inUse, boot, writer, file, key, keyTmp, aside, minted, policyUrl,
                   faults, acked, open, base>>

RenameTmp ==
    /\ io = "rename" /\ io' = "saved"
    /\ file' = tmp /\ tmp' = None /\ base' = tmp
    /\ UNCHANGED <<mem, inUse, boot, writer, key, keyTmp, aside, minted, policyUrl,
                   faults, acked, open>>

SaveFails ==
    /\ io \in {"open", "fill", "rename"} /\ Fault
    /\ io' = "refused"
    /\ UNCHANGED <<mem, inUse, boot, writer, files, minted, policyUrl, acked, open,
                   base>>

Saving == OpenTmp \/ FillTmp \/ RenameTmp \/ SaveFails

\* The write lock is dropped.
Unlock ==
    /\ io' = "rest" /\ writer' = None
    /\ UNCHANGED <<mem, inUse, boot, files, minted, policyUrl, faults, base>>

-----------------------------------------------------------------------------
(* The handlers of AppState that change the data and answer with the save's  *)
(* outcome: of one profile (import, update, delete) or of the settings.      *)

ChangeProfile(i, version) ==
    /\ Change(i, [mem EXCEPT !.profiles[i] = version])
    /\ open' = open \cup {i} /\ acked' = acked

\* A profile's id is a fresh uuid, so no store has it.
Unknown(i) ==
    mem.profiles[i] = 0 /\ (file \notin {None, Torn} => file.data.profiles[i] = 0)

ImportProfile(i) == Unknown(i) /\ ChangeProfile(i, 1)
UpdateProfile(i) == mem.profiles[i] # 0 /\ ChangeProfile(i, 2)
DeleteProfile(i) == mem.profiles[i] # 0 /\ ChangeProfile(i, 0)

SetSettings(url) ==
    /\ Change("settings", [mem EXCEPT !.url = Overlay(url)])
    /\ UNCHANGED <<acked, open>>

\* Mutant: the answer does not wait for the save.
MutantAnswerProfile(i) ==
    /\ writer = i /\ io \in {"saved", "refused"} /\ Unlock
    /\ acked' = [acked EXCEPT ![i] = mem.profiles[i]] /\ open' = open \ {i}

\* Ok tells the client that the profile is as the memory has it.
AnswerProfile(i) ==
    /\ writer = i /\ io \in {"saved", "refused"} /\ Unlock
    /\ IF io = "saved"
       THEN acked' = [acked EXCEPT ![i] = mem.profiles[i]] /\ open' = open \ {i}
       ELSE UNCHANGED <<acked, open>>

AnswerSettings ==
    /\ writer = "settings" /\ io \in {"saved", "refused"} /\ Unlock
    /\ UNCHANGED <<acked, open>>

Handling ==
    \/ \E i \in Ids : ImportProfile(i) \/ UpdateProfile(i) \/ DeleteProfile(i)
    \/ \E url \in Urls \cup {None} : SetSettings(url)

Answering == (\E i \in Ids : AnswerProfile(i)) \/ AnswerSettings

-----------------------------------------------------------------------------
(* The outside. *)

\* The process is gone: what it had in memory and in hand is lost.
ProcessGone ==
    /\ boot' = "down" /\ io' = "rest" /\ writer' = None
    /\ mem' = Default /\ inUse' = 0 /\ base' = None
    /\ UNCHANGED <<files, minted, policyUrl, acked, open>>

\* Damage the code is written for (store.rs:129-131, state.rs:98-100): a file is cut
\* short or quarantined. What was acknowledged is gone with it.
Damage ==
    /\ boot = "down" /\ Fault
    /\ \/ file # None /\ file' \in {Torn, None} /\ UNCHANGED key
       \/ key # None /\ key' \in {Torn, None} /\ UNCHANGED file
    /\ acked' = Default.profiles
    /\ UNCHANGED <<mem, inUse, boot, io, writer, tmp, keyTmp, aside, minted, policyUrl,
                   open, base>>

PolicyChanges ==
    /\ policyUrl' \in (Urls \cup {None}) \ {policyUrl}
    /\ UNCHANGED <<mem, inUse, boot, io, writer, files, minted, faults, acked, open,
                   base>>

-----------------------------------------------------------------------------
\* What a daemon that comes up now would find.
OnDisk == IF file \notin {None, Torn} /\ file.by = key THEN file.data ELSE Default

\* Client, memory and disk agree on every profile that has no unacknowledged change:
\* what was answered with Ok outlives any crash, and what is there was answered so
\* (store.rs:105; state.rs:324 is why a refused change is in doubt). The exceptions are
\* damage from outside, a key that could not be looked at and is made anew, and a store
\* that met a read error at the start.
AcknowledgedIsKept ==
    \A i \in Ids \ open :
        /\ OnDisk.profiles[i] = acked[i]
        /\ boot = "up" => mem.profiles[i] = acked[i]

\* The daemon keeps the promise of StorePromise: files, key, temporary file and crashes
\* are, to the clients, one place that a save replaces in one step (store.rs:102-113).
Promise == INSTANCE StorePromise WITH
    live   <- boot = "up",
    memory <- IF boot = "up" THEN mem.profiles ELSE Default.profiles,
    disk   <- OnDisk.profiles

StorePromiseKept == Promise!Spec

\* A running daemon replaces or moves only the store its memory came from, and one it
\* cannot open is set aside. The exceptions are a store that met a read error at the
\* start (state.rs:97) and one whose setting aside failed, which nobody looks at
\* (state.rs:106): the next save overwrites them.
OnlyOwnStoreReplaced ==
    [][file' # file /\ boot # "down" =>
         file \in {None, base} \/ file \in aside' \/ base = Torn]_storeVars
=============================================================================
