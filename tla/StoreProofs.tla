---------------------------- MODULE StoreProofs ----------------------------
(***************************************************************************)
(* Proofs about DaemonLife, for any number of profiles, flows, addresses   *)
(* and faults: what was acknowledged is kept, no store is overwritten that *)
(* was not read, no keys are left lying, and the service's status goes     *)
(* forward.                                                                *)
(***************************************************************************)
EXTENDS DaemonLife, TLAPS

-----------------------------------------------------------------------------
(* What a step of the daemon is to the store. *)

StartsToBoot ==
    /\ boot = "down" /\ boot' \in {"key", "failed"} /\ faults' \in 0 .. MaxFaults
    /\ UNCHANGED <<mem, inUse, io, writer, files, minted, policyUrl, acked, open, base>>

Unlocks == io \in {"saved", "refused"} /\ Unlock /\ UNCHANGED <<faults, acked, open>>

ChangesRest ==
    \E w \in Flows \cup {"settings", "shutdown"}, data \in Data :
        /\ data.profiles = mem.profiles
        /\ Change(w, data) /\ UNCHANGED <<acked, open>>

ChangesProfile ==
    \E i \in Ids, v \in 0 .. 2 :
        (IF v = 1 THEN Unknown(i) ELSE mem.profiles[i] # 0) /\ ChangeProfile(i, v)

Ends == ProcessGone /\ faults' \in 0 .. MaxFaults

\* An engine came or went, and an error of its own may have counted.
Elsewhere ==
    /\ faults' \in 0 .. MaxFaults
    /\ UNCHANGED <<mem, inUse, boot, io, writer, files, minted, policyUrl, acked, open,
                   base>>

StoreStep ==
    \/ StartsToBoot \/ Booting \/ Saving
    \/ ChangesRest \/ ChangesProfile \/ Unlocks \/ (\E i \in Ids : AnswerProfile(i))
    \/ Ends \/ Elsewhere \/ Damage \/ PolicyChanges

LEMMA OverlayType ==
    ASSUME StoreTypeOK, NEW url \in Urls \cup {None}
    PROVE  Overlay(url) \in Urls \cup {None}
  BY DEF Overlay, StoreTypeOK

\* Every change of the data keeps its type and, but for a profile's, the profiles.
LEMMA NewData ==
    ASSUME StoreTypeOK, NEW x \in Flows \cup {None}, NEW url \in Urls \cup {None}
    PROVE  /\ [mem EXCEPT !.portal = x] \in Data
           /\ [mem EXCEPT !.session = x] \in Data
           /\ [mem EXCEPT !.url = url] \in Data
           /\ [mem EXCEPT !.portal = x].profiles = mem.profiles
           /\ [mem EXCEPT !.session = x].profiles = mem.profiles
           /\ [mem EXCEPT !.url = url].profiles = mem.profiles
  BY DEF StoreTypeOK, Data

LEMMA NewProfile ==
    ASSUME StoreTypeOK, NEW i \in Ids, NEW v \in 0 .. 2
    PROVE  /\ [mem EXCEPT !.profiles[i] = v] \in Data
           /\ \A j \in Ids \ {i} : [mem EXCEPT !.profiles[i] = v].profiles[j] = mem.profiles[j]
  BY DEF StoreTypeOK, Data

\* The service thread and the flows with the portal do no more to the store.
LEMMA FlowStep ==
    ASSUME StoreTypeOK, PortalTypeOK, NEW f \in Flows, Flow(f)
    PROVE  StoreStep \/ UNCHANGED storeVars
  <1>1. ASSUME Upsert(f) PROVE ChangesRest
    <2>1. PICK offered \in {Token(f), None} : Change(f, [mem EXCEPT !.portal = offered])
      BY <1>1 DEF Upsert
    <2>2. offered \in Flows \cup {None}
      BY DEF PortalTypeOK, Token
    <2> QED
      BY <1>1, <2>1, <2>2, NewData DEF Upsert, ChangesRest, StoreTypeOK
  <1>2. ASSUME SetSession(f) PROVE ChangesRest
    BY <1>2, NewData DEF SetSession, ChangesRest, StoreTypeOK
  <1>3. ASSUME ClearSession(f) PROVE ChangesRest
    BY <1>3, NewData DEF ClearSession, ChangesRest, StoreTypeOK
  <1>4. ASSUME Settled(f) PROVE Unlocks
    BY <1>4 DEF Settled, Unlocks, Unlock
  <1>5. CASE SignedIn(f) \/ Redeemed(f) \/ Exchanged(f) \/ Prepared(f) \/ RequestFails(f)
             \/ Revoked(f) \/ NoCode(f)
    BY <1>5 DEF SignedIn, Redeemed, Exchanged, Prepared, RequestFails, Revoked, NoCode,
                Answered, NoData
  <1> QED
    BY <1>1, <1>2, <1>3, <1>4, <1>5 DEF Flow, StoreStep

LEMMA FaultType == ASSUME StoreTypeOK, Fault PROVE faults' \in 0 .. MaxFaults
  BY StoreAssumption DEF StoreTypeOK, Fault

LEMMA StoreSteps ==
    ASSUME StoreTypeOK, PortalTypeOK, [Next]_vars
    PROVE  StoreStep \/ UNCHANGED storeVars
  <1> USE DEF StoreStep
  <1>f. faults \in 0 .. MaxFaults
    BY DEF StoreTypeOK
  <1>1. CASE Sweep \/ StartFails
    BY <1>1, <1>f, FaultType DEF Sweep, StartFails, StartsToBoot
  <1>2. CASE Boot \/ BootEnds \/ ServiceThread \/ Ticker
    BY <1>2 DEF Boot, BootEnds, ServiceThread, Ticker
  <1>e. CASE TunnelRequest \/ ShutdownStops
    BY <1>e, <1>f, FaultType DEF TunnelRequest, ShutdownStops, EngineStarts, EngineStops,
                                 Elsewhere
  <1>3. CASE DataRequest
    <2>1. ASSUME NEW i \in Ids, ImportProfile(i) \/ UpdateProfile(i) \/ DeleteProfile(i)
          PROVE  ChangesProfile
      BY <2>1 DEF ImportProfile, UpdateProfile, DeleteProfile, ChangesProfile
    <2>2. ASSUME NEW url \in Urls \cup {None}, SetSettings(url) PROVE ChangesRest
      BY <2>2, OverlayType, NewData DEF SetSettings, ChangesRest
    <2> QED
      BY <1>3, <2>1, <2>2 DEF DataRequest, Handling
  <1>4. CASE Save
    BY <1>4 DEF Save, Answering, AnswerSettings, Unlocks, Unlock
  <1>5. CASE PortalRequest \/ BrowserSteps
    BY <1>5 DEF PortalRequest, BrowserSteps, Asking, Login, OidcStart, Sync, Logout, Begin,
                Browser, Accept, Answered, Callback, NoData
  <1>6. ASSUME NEW f \in Flows, FlowSteps(f) PROVE StoreStep \/ UNCHANGED storeVars
    BY <1>6, FlowStep DEF FlowSteps
  <1>7. CASE ShutdownSaves
    BY <1>7 DEF ShutdownSaves, ChangesRest, StoreTypeOK
  <1>8. CASE ShutdownEnds
    BY <1>8 DEF ShutdownEnds, Unlocks, Unlock
  <1>9. CASE Exit \/ ReportFails \/ Crash
    BY <1>9, <1>f, FaultType DEF Exit, ReportFails, Crash, Gone, Ends
  <1>10. CASE Outside
    BY <1>10 DEF Outside
  <1> QED
    BY <1>1, <1>2, <1>e, <1>3, <1>4, <1>5, <1>6, <1>7, <1>8, <1>9, <1>10 DEF Next, vars

-----------------------------------------------------------------------------
(* Type correctness of the store. *)

LEMMA StoreTypeStep == StoreTypeOK /\ StoreStep => StoreTypeOK'
  <1> SUFFICES ASSUME StoreTypeOK, StoreStep PROVE StoreTypeOK'
    OBVIOUS
  <1> USE StoreAssumption, SealedAssumption, FaultType DEF StoreTypeOK, BootSteps, files
  <1>d. Default \in Data
    BY DEF Default, Data
  <1>1. CASE StartsToBoot
    BY <1>1 DEF StartsToBoot
  <1>2. CASE ReadKey
    BY <1>2 DEF ReadKey
  <1>3. CASE KeyUnseen \/ KeyFails \/ OpenKeyFile
    BY <1>3 DEF KeyUnseen, KeyFails, OpenKeyFile
  <1>i. CASE IsolateKey \/ IsolateStore
    BY <1>i DEF IsolateKey, IsolateStore, NotSetAside
  <1>4. CASE FillKeyFile \/ InstallKey
    BY <1>4, <1>d DEF FillKeyFile, InstallKey, Data
  <1>5. ASSUME NEW data \in Data, NEW from \in Sealed \cup {None, Torn}, ComeUp(data, from)
        PROVE  mem' \in Data /\ boot' \in BootSteps /\ base' \in Sealed \cup {None, Torn}
    BY <1>5, OverlayType DEF ComeUp, Data
  <1>6. CASE Load
    BY <1>6, <1>5, <1>d DEF Load, Opens, Sealed
  <1>7. CASE LoadIsolates
    BY <1>7, <1>5, <1>d DEF LoadIsolates, NotSetAside
  <1>8. CASE LoadUnreadable
    BY <1>8, <1>5, <1>d DEF LoadUnreadable
  <1>9. CASE Saving
    BY <1>9 DEF Saving, OpenTmp, FillTmp, RenameTmp, SaveFails, Sealed
  <1>10. CASE ChangesRest
    BY <1>10 DEF ChangesRest, Change
  <1>11. CASE ChangesProfile
    <2>1. PICK i \in Ids, v \in 0 .. 2 : ChangeProfile(i, v)
      BY <1>11 DEF ChangesProfile
    <2>2. mem' \in Data /\ writer' = i /\ io' = "open" /\ open' = open \cup {i}
      BY <2>1, NewProfile DEF ChangeProfile, Change
    <2> QED
      BY <2>1, <2>2 DEF ChangeProfile, Change
  <1>12. CASE Unlocks
    BY <1>12 DEF Unlocks, Unlock
  <1>13. ASSUME NEW i \in Ids, AnswerProfile(i) PROVE StoreTypeOK'
    BY <1>13 DEF AnswerProfile, Unlock, Data
  <1>14. CASE Ends \/ Elsewhere
    BY <1>14, <1>d DEF Ends, Elsewhere, ProcessGone
  <1>15. CASE Damage
    BY <1>15 DEF Damage, Default
  <1>16. CASE PolicyChanges
    BY <1>16 DEF PolicyChanges
  <1> QED
    BY <1>1, <1>2, <1>3, <1>i, <1>4, <1>6, <1>7, <1>8, <1>9, <1>10, <1>11, <1>12, <1>13,
       <1>14, <1>15, <1>16 DEF StoreStep, Booting

-----------------------------------------------------------------------------
(* Durability. *)

Whole(blob) == blob \notin {None, Torn}

\* The key in use is the one on disk from the moment the store is read, and a key that
\* was made anew has sealed nothing yet: its number is new.
KeyInv ==
    /\ boot \in {"isolateKey", "isolate"} => key \in {None, Torn}
    /\ boot = "installKey" => /\ keyTmp = inUse /\ inUse = minted
                              /\ Whole(file) => file.by < minted
    /\ boot \in {"load", "up"} => key = inUse
    /\ Whole(key) => key <= minted
    /\ Whole(file) => file.by <= minted
    /\ inUse <= minted

\* A save under way is of the memory, which is not changed meanwhile; and a running
\* daemon knows the file that is there, if it could be read.
SaveInv ==
    /\ io # "rest" => boot = "up"
    /\ io = "rename" => tmp = [by |-> inUse, data |-> mem]
    /\ io = "saved" => file = [by |-> inUse, data |-> mem]
    /\ boot = "up" => base \in {file, Torn}

StoreInv == StoreTypeOK /\ KeyInv /\ SaveInv /\ AcknowledgedIsKept

LEMMA KeyStep == StoreTypeOK /\ KeyInv /\ SaveInv /\ StoreStep => KeyInv'
  <1> SUFFICES ASSUME StoreTypeOK, KeyInv, SaveInv, StoreStep PROVE KeyInv'
    OBVIOUS
  <1> USE StoreAssumption, SealedAssumption DEF StoreTypeOK, KeyInv, Whole, files
  <1>1. CASE StartsToBoot
    BY <1>1 DEF StartsToBoot
  <1>2. CASE ReadKey
    BY <1>2 DEF ReadKey
  <1>3. CASE KeyUnseen \/ KeyFails
    BY <1>3 DEF KeyUnseen, KeyFails
  <1>4. CASE IsolateKey \/ IsolateStore
    BY <1>4 DEF IsolateKey, IsolateStore, NotSetAside
  <1>5. CASE OpenKeyFile
    BY <1>5 DEF OpenKeyFile
  <1>6. CASE FillKeyFile
    BY <1>6 DEF FillKeyFile, Sealed
  <1>7. CASE InstallKey
    BY <1>7 DEF InstallKey
  <1>8. CASE Load \/ LoadIsolates \/ LoadUnreadable
    BY <1>8 DEF Load, LoadIsolates, LoadUnreadable, ComeUp, NotSetAside
  <1>9. CASE OpenTmp \/ FillTmp \/ SaveFails
    BY <1>9 DEF OpenTmp, FillTmp, SaveFails, SaveInv
  <1>10. CASE RenameTmp
    BY <1>10 DEF RenameTmp, SaveInv
  <1>11. CASE ChangesRest \/ ChangesProfile
    BY <1>11 DEF ChangesRest, ChangesProfile, ChangeProfile, Change
  <1>12. CASE Unlocks \/ \E i \in Ids : AnswerProfile(i)
    BY <1>12 DEF Unlocks, AnswerProfile, Unlock
  <1>13. CASE Ends \/ Elsewhere
    BY <1>13 DEF Ends, Elsewhere, ProcessGone
  <1>14. CASE Damage
    BY <1>14 DEF Damage
  <1>15. CASE PolicyChanges
    BY <1>15 DEF PolicyChanges
  <1> QED
    BY <1>1, <1>2, <1>3, <1>4, <1>5, <1>6, <1>7, <1>8, <1>9, <1>10, <1>11, <1>12, <1>13,
       <1>14, <1>15 DEF StoreStep, Booting, Saving

LEMMA SaveStep == StoreTypeOK /\ KeyInv /\ SaveInv /\ StoreStep => SaveInv'
  <1> SUFFICES ASSUME StoreTypeOK, KeyInv, SaveInv, StoreStep PROVE SaveInv'
    OBVIOUS
  <1> USE DEF StoreTypeOK, SaveInv, files
  <1>1. CASE StartsToBoot \/ ReadKey \/ KeyUnseen \/ KeyFails
    BY <1>1 DEF StartsToBoot, ReadKey, KeyUnseen, KeyFails
  <1>i. CASE IsolateKey \/ IsolateStore
    BY <1>i DEF IsolateKey, IsolateStore
  <1>2. CASE OpenKeyFile \/ FillKeyFile \/ InstallKey
    BY <1>2 DEF OpenKeyFile, FillKeyFile, InstallKey
  <1>3. CASE Load \/ LoadIsolates \/ LoadUnreadable
    BY <1>3 DEF Load, LoadIsolates, LoadUnreadable, ComeUp, NotSetAside
  <1>4. CASE Saving
    BY <1>4 DEF Saving, OpenTmp, FillTmp, RenameTmp, SaveFails
  <1>5. CASE ChangesRest \/ ChangesProfile
    BY <1>5 DEF ChangesRest, ChangesProfile, ChangeProfile, Change
  <1>6. CASE Unlocks \/ \E i \in Ids : AnswerProfile(i)
    BY <1>6 DEF Unlocks, AnswerProfile, Unlock
  <1>7. CASE Ends \/ Elsewhere \/ Damage \/ PolicyChanges
    BY <1>7 DEF Ends, Elsewhere, ProcessGone, Damage, PolicyChanges
  <1> QED
    BY <1>1, <1>i, <1>2, <1>3, <1>4, <1>5, <1>6, <1>7 DEF StoreStep, Booting

\* Steps that leave the files, the key and what was answered alone, and the memory's
\* profiles or the memory.
LEMMA AckUntouched ==
    ASSUME AcknowledgedIsKept, UNCHANGED <<file, key, acked>>, open \subseteq open',
           boot' = "up" => boot = "up" /\ \A i \in Ids \ open' :
                               mem'.profiles[i] = mem.profiles[i]
    PROVE  AcknowledgedIsKept'
  BY DEF AcknowledgedIsKept, OnDisk

\* A step after which the disk holds no profile, and the memory none if it is in use,
\* is one after which none may be acknowledged.
LEMMA AckNothing ==
    ASSUME \A i \in Ids \ open' : acked'[i] = 0,
           OnDisk'.profiles = Default.profiles,
           boot' = "up" => mem'.profiles = Default.profiles
    PROVE  AcknowledgedIsKept'
  BY DEF AcknowledgedIsKept, Default

LEMMA AckStep == StoreInv /\ KeyInv' /\ StoreStep => AcknowledgedIsKept'
  <1> SUFFICES ASSUME StoreInv, KeyInv', StoreStep PROVE AcknowledgedIsKept'
    OBVIOUS
  <1> USE StoreAssumption, SealedAssumption DEF StoreInv, files
  <1>1. CASE StartsToBoot \/ ReadKey \/ KeyUnseen \/ KeyFails
    BY <1>1, AckUntouched DEF StartsToBoot, ReadKey, KeyUnseen, KeyFails
  <1>k. CASE OpenKeyFile \/ FillKeyFile
    BY <1>k, AckUntouched DEF OpenKeyFile, FillKeyFile
  <1>none. ASSUME ~ Whole(file) \/ file.by # key
           PROVE  OnDisk = Default /\ \A i \in Ids \ open : acked[i] = 0
    BY <1>none DEF OnDisk, AcknowledgedIsKept, Default, Whole
  <1>2. CASE IsolateKey \/ IsolateStore
    <2>1. OnDisk = Default /\ \A i \in Ids \ open : acked[i] = 0
      BY <1>2, <1>none DEF IsolateKey, IsolateStore, KeyInv, StoreTypeOK, Sealed, Whole
    <2>2. OnDisk' = Default
      BY <1>2 DEF IsolateKey, IsolateStore, NotSetAside, OnDisk, KeyInv, StoreTypeOK, Sealed
    <2> QED
      BY <1>2, <2>1, <2>2, AckNothing DEF IsolateKey, IsolateStore
  <1>4. CASE InstallKey
    <2>1. OnDisk' = Default
      BY <1>4 DEF InstallKey, KeyInv, OnDisk, StoreTypeOK, Sealed, Whole
    <2>2. \A i \in Ids \ open' : acked'[i] = 0
      <3>1. CASE key \in {None, Torn}
        BY <1>4, <3>1, <1>none DEF InstallKey, StoreTypeOK, Sealed, Whole
      <3>2. CASE key \notin {None, Torn}
        BY <1>4, <3>2 DEF InstallKey, Default
      <3> QED
        BY <3>1, <3>2
    <2> QED
      BY <1>4, <2>1, <2>2, AckNothing DEF InstallKey
  <1>5. CASE Load
    <2>1. CASE file = None
      BY <1>5, <2>1, <1>none, AckNothing DEF Load, ComeUp, Whole, OnDisk, Default
    <2>2. CASE file # None
      <3>1. mem'.profiles = file.data.profiles /\ OnDisk = file.data /\ OnDisk' = OnDisk
        BY <1>5, <2>2 DEF Load, Opens, ComeUp, OnDisk, KeyInv, StoreTypeOK, Sealed, Data
      <3> QED
        BY <1>5, <3>1 DEF Load, AcknowledgedIsKept
    <2> QED
      BY <2>1, <2>2
  <1>6. CASE LoadIsolates
    <2>1. OnDisk = Default /\ \A i \in Ids \ open : acked[i] = 0
      BY <1>6, <1>none DEF LoadIsolates, Opens, KeyInv, Whole
    <2>2. OnDisk' = Default
      BY <1>6, <2>1 DEF LoadIsolates, ComeUp, NotSetAside, OnDisk
    <2> QED
      BY <1>6, <2>1, <2>2, AckNothing DEF LoadIsolates, ComeUp, Default
  <1>7. CASE LoadUnreadable
    BY <1>7 DEF LoadUnreadable, AcknowledgedIsKept
  <1>8. CASE OpenTmp \/ FillTmp \/ SaveFails
    BY <1>8, AckUntouched DEF OpenTmp, FillTmp, SaveFails
  <1>9. CASE RenameTmp
    <2>1. boot = "up" /\ key = inUse /\ file' = [by |-> inUse, data |-> mem]
      BY <1>9 DEF RenameTmp, SaveInv, KeyInv
    <2>2. OnDisk' = mem
      BY <1>9, <2>1 DEF RenameTmp, OnDisk, StoreTypeOK, Sealed
    <2> QED
      BY <1>9, <2>1, <2>2 DEF RenameTmp, AcknowledgedIsKept
  <1>10. CASE ChangesRest
    BY <1>10, AckUntouched DEF ChangesRest, Change
  <1>11. CASE ChangesProfile
    <2>1. PICK i \in Ids, v \in 0 .. 2 : ChangeProfile(i, v)
      BY <1>11 DEF ChangesProfile
    <2>2. \A j \in Ids \ {i} : mem'.profiles[j] = mem.profiles[j]
      BY <2>1, NewProfile DEF ChangeProfile, Change
    <2> QED
      BY <2>1, <2>2, AckUntouched DEF ChangeProfile, Change
  <1>12. CASE Unlocks
    BY <1>12, AckUntouched DEF Unlocks, Unlock
  <1>13. ASSUME NEW i \in Ids, AnswerProfile(i) PROVE AcknowledgedIsKept'
    <2>1. CASE io = "saved"
      <3>1. boot = "up" /\ key = inUse /\ file = [by |-> inUse, data |-> mem]
        BY <2>1 DEF SaveInv, KeyInv
      <3>2. OnDisk' = mem /\ OnDisk = mem
        BY <1>13, <3>1 DEF AnswerProfile, Unlock, OnDisk, StoreTypeOK, Sealed
      <3>3. mem' = mem /\ boot' = boot /\ acked' = [acked EXCEPT ![i] = mem.profiles[i]]
            /\ open' = open \ {i}
        BY <1>13, <2>1 DEF AnswerProfile, Unlock
      <3> QED
        BY <3>1, <3>2, <3>3 DEF AcknowledgedIsKept, StoreTypeOK
    <2>2. CASE io # "saved"
      BY <1>13, <2>2, AckUntouched DEF AnswerProfile, Unlock
    <2> QED
      BY <2>1, <2>2
  <1>14. CASE Ends \/ Elsewhere
    BY <1>14, AckUntouched DEF Ends, Elsewhere, ProcessGone
  <1>15. CASE Damage
    <2>1. OnDisk' = Default /\ acked' = Default.profiles /\ boot' # "up"
      BY <1>15 DEF Damage, OnDisk, StoreTypeOK, Sealed
    <2> QED
      BY <2>1, AckNothing DEF Default
  <1>16. CASE PolicyChanges
    BY <1>16, AckUntouched DEF PolicyChanges
  <1> QED
    BY <1>1, <1>k, <1>2, <1>4, <1>5, <1>6, <1>7, <1>8, <1>9, <1>10, <1>11, <1>12, <1>13,
       <1>14, <1>15, <1>16 DEF StoreStep, Booting, Saving

-----------------------------------------------------------------------------
(* The flows' and the service's own variables. *)

LEMMA FlowType ==
    ASSUME PortalTypeOK, StoreTypeOK, NEW f \in Flows, Flow(f) \/ Asking(f) \/ Browser(f)
    PROVE  PortalTypeOK'
  <1> USE DEF PortalTypeOK, Goto
  <1>s. \A s \in Stages : [stage EXCEPT ![f] = s] \in [Flows -> Stages]
    OBVIOUS
  <1>1. CASE SignedIn(f) \/ Redeemed(f) \/ Exchanged(f) \/ Revoked(f) \/ Accept(f)
    BY <1>1, <1>s DEF SignedIn, Redeemed, Exchanged, Revoked, Accept, Answered, Stages
  <1>2. CASE Prepared(f) \/ RequestFails(f) \/ NoCode(f)
    BY <1>2, <1>s DEF Prepared, RequestFails, NoCode, Stages
  <1>3. CASE Upsert(f) \/ SetSession(f) \/ ClearSession(f)
    BY <1>3, <1>s DEF Upsert, SetSession, ClearSession, Stages, StoreTypeOK, Data
  <1>4. CASE Settled(f)
    BY <1>4, <1>s DEF Settled, Stages
  <1>5. ASSUME NEW k, NEW s \in Stages, Begin(f, k, s)
        PROVE  /\ stage' \in [Flows -> Stages] /\ kind' \in [Flows -> FlowKinds \cup {None}]
               /\ out' \subseteq Flows /\ untidy' \in BOOLEAN
    BY <1>5, <1>s DEF Begin
  <1>6. mem.session \in Flows \cup {None}
    BY DEF StoreTypeOK, Data
  <1>7. CASE Asking(f)
    BY <1>7, <1>5, <1>6 DEF Asking, Login, OidcStart, Sync, Logout, Stages
  <1>8. ASSUME NEW state \in Flows, Callback(f, state) PROVE PortalTypeOK'
    BY <1>8, <1>s DEF Callback, Stages
  <1> QED
    BY <1>1, <1>2, <1>3, <1>4, <1>7, <1>8 DEF Flow, Browser

LEMMA PortalTypeStep ==
    ASSUME PortalTypeOK, StoreTypeOK, [Next]_vars PROVE PortalTypeOK'
  <1>1. CASE UNCHANGED portalVars
    BY <1>1 DEF portalVars, PortalTypeOK
  <1>2. ASSUME NEW f \in Flows, FlowSteps(f) PROVE PortalTypeOK'
    BY <1>2, FlowType DEF FlowSteps
  <1>3. CASE PortalRequest \/ BrowserSteps
    BY <1>3, FlowType DEF PortalRequest, BrowserSteps
  <1>4. CASE Exit \/ ReportFails \/ Crash
    BY <1>4 DEF Exit, ReportFails, Crash, Gone, FlowsGone, PortalTypeOK, Stages, InFlight
  <1>5. CASE \/ Sweep \/ StartFails \/ Boot \/ BootEnds \/ ServiceThread \/ Ticker
             \/ DataRequest \/ Save \/ TunnelRequest
             \/ ShutdownStops \/ ShutdownSaves \/ ShutdownEnds \/ Outside
    BY <1>1, <1>5 DEF Sweep, StartFails, Boot, BootEnds, ServiceThread, Ticker, DataRequest,
                      Save, TunnelRequest, ShutdownStops, ShutdownSaves, ShutdownEnds, Outside
  <1> QED
    BY <1>1, <1>2, <1>3, <1>4, <1>5 DEF Next, vars

\* Before Running is reported only StartPending was, and the ticker, which reports it
\* too, has ended by then.
StatusInv ==
    /\ L!LifeTypeOK
    /\ main \in {"entered", "boot", "join", "ready"} => scm = "StartPending"
    /\ main = "returned" => scm # "Stopped"
    /\ main = "running" => scm = "Running"
    /\ main \in {"stopping", "persisting", "closing"} => scm = "StopPending"
    /\ ticker \in {"asleep", "awake"} => /\ main \in {"boot", "join", "returned"}
                                         /\ scm = "StartPending"
    /\ main = "entered" => ticks = 0
    /\ ticks = MaxTicks => ticker \notin {"asleep", "awake"}

\* What a step of the daemon is to the service.
LifeStep ==
    \/ L!Booted \/ L!BootFailed \/ L!Enter \/ L!Joined \/ L!ReportRunning \/ L!StopReceived
    \/ L!Wake \/ L!Tick \/ L!Disconnected \/ L!ShutDown \/ L!ReportStopped
    \/ L!ReportFails \/ L!ProcessDies
    \/ L!Launch \/ L!UserStarts \/ L!UserStops

LEMMA LifeSteps == ASSUME [Next]_vars PROVE LifeStep \/ UNCHANGED lifeVars
  <1> USE DEF LifeStep
  <1>1. CASE Exit \/ ReportFails \/ Crash \/ Outside
    BY <1>1 DEF Exit, ReportFails, Crash, Outside
  <1>2. CASE BootEnds \/ ServiceThread \/ Ticker \/ ShutdownStops \/ ShutdownEnds
    BY <1>2 DEF BootEnds, ServiceThread, Ticker, ShutdownStops, ShutdownEnds
  <1>3. CASE \/ Sweep \/ StartFails \/ Boot \/ DataRequest \/ Save \/ PortalRequest
             \/ BrowserSteps \/ TunnelRequest \/ ShutdownSaves
             \/ \E f \in Flows : FlowSteps(f)
    BY <1>3 DEF Sweep, StartFails, Boot, DataRequest, Save, PortalRequest, BrowserSteps,
                TunnelRequest, ShutdownSaves, FlowSteps
  <1> QED
    BY <1>1, <1>2, <1>3 DEF Next, vars

Forward == main # "none" /\ main' # "none" => L!Rank[scm'] >= L!Rank[scm]

LEMMA StatusStep == StatusInv /\ (LifeStep \/ UNCHANGED lifeVars) => StatusInv' /\ Forward
  <1> SUFFICES ASSUME StatusInv, LifeStep \/ UNCHANGED lifeVars PROVE StatusInv' /\ Forward
    OBVIOUS
  <1> USE LifeAssumption DEF StatusInv, Forward, L!LifeTypeOK, L!Rank, L!Step
  <1>b. flag' \in BOOLEAN /\ asked' \in BOOLEAN /\ wanted' \in BOOLEAN
    BY Zenon DEF LifeStep, L!Booted, L!BootFailed, L!Enter, L!Joined, L!ReportRunning,
                 L!StopReceived, L!Disconnected, L!ShutDown, L!ReportStopped,
                 L!ReportFails, L!Wake, L!Tick, L!ProcessDies, L!Launch, L!UserStarts,
                 L!UserStops, lifeVars
  <1>1. CASE L!Booted \/ L!BootFailed \/ L!Enter \/ L!Joined
    BY <1>1, <1>b DEF L!Booted, L!BootFailed, L!Enter, L!Joined
  <1>2. CASE L!ReportRunning \/ L!StopReceived \/ L!Disconnected \/ L!ShutDown
    BY <1>2 DEF L!ReportRunning, L!StopReceived, L!Disconnected, L!ShutDown
  <1>r. CASE L!ReportStopped \/ L!ReportFails
    BY <1>r DEF L!ReportStopped, L!ReportFails
  <1>3. CASE L!Wake \/ L!Tick
    BY <1>3 DEF L!Wake, L!Tick
  <1>4. CASE L!ProcessDies \/ L!Launch \/ L!UserStarts \/ L!UserStops
    BY <1>4, <1>b DEF L!ProcessDies, L!Launch, L!UserStarts, L!UserStops
  <1>5. CASE UNCHANGED lifeVars
    BY <1>5 DEF lifeVars
  <1> QED
    BY <1>1, <1>2, <1>r, <1>3, <1>4, <1>5 DEF LifeStep

\* An engine is only up while requests are served, and what is left of another life is
\* removed before anything else is done.
SweptInv ==
    /\ tunnels \subseteq {"up", "left"} /\ conf \subseteq {"used", "left", "stuck"}
    /\ scenario \in Scenarios
    /\ boot \notin {"down", "failed"} => conf \subseteq {"used", "stuck"}
    /\ "up" \notin tunnels => "used" \notin conf

LEMMA SweptStep == ASSUME SweptInv, [Next]_vars PROVE SweptInv'
  <1> USE DEF SweptInv
  <1>1. CASE /\ UNCHANGED <<tunnels, conf, scenario>>
             /\ boot' \in {boot, "down", "failed"} \/ boot \notin {"down", "failed"}
    BY <1>1
  <1>2. CASE Sweep \/ StartFails
    BY <1>2 DEF Sweep, StartFails
  <1>3. CASE TunnelRequest \/ ShutdownStops
    BY <1>3 DEF TunnelRequest, ShutdownStops, EngineStarts, EngineStops
  <1>4. CASE ShutdownSaves
    BY <1>1, <1>4 DEF ShutdownSaves, Change
  <1>5. CASE Exit \/ ReportFails \/ Crash
    BY <1>5 DEF Exit, ReportFails, Crash, Gone, ProcessGone
  <1>6. CASE Boot
    BY <1>1, <1>6 DEF Boot, Booting, ReadKey, KeyUnseen, KeyFails, IsolateKey, IsolateStore,
                      OpenKeyFile, FillKeyFile, InstallKey, Load, LoadIsolates,
                      LoadUnreadable, ComeUp
  <1>7. CASE BootEnds \/ ServiceThread \/ Ticker
    BY <1>1, <1>7 DEF BootEnds, ServiceThread, Ticker, storeVars
  <1>8. CASE DataRequest
    BY <1>1, <1>8 DEF DataRequest, Handling, ImportProfile, UpdateProfile, DeleteProfile,
                      ChangeProfile, SetSettings, Change
  <1>9. CASE Save
    BY <1>1, <1>9 DEF Save, Saving, OpenTmp, FillTmp, RenameTmp, SaveFails, Answering,
                      AnswerProfile, AnswerSettings, Unlock
  <1>10. CASE PortalRequest \/ BrowserSteps
    BY <1>1, <1>10 DEF PortalRequest, BrowserSteps, Asking, Login, OidcStart, Sync, Logout,
                       Begin, Browser, Accept, Answered, Callback, NoData, storeVars
  <1>11. ASSUME NEW f \in Flows, FlowSteps(f) PROVE SweptInv'
    BY <1>1, <1>11 DEF FlowSteps, Flow, SignedIn, Redeemed, Exchanged, Prepared,
                       RequestFails, Revoked, NoCode, Answered, NoData, Upsert, SetSession,
                       ClearSession, Settled, Unlock, Change, storeVars
  <1>12. CASE ShutdownEnds
    BY <1>1, <1>12 DEF ShutdownEnds, Unlock
  <1>13. CASE Outside
    BY <1>1, <1>13 DEF Outside, Damage, PolicyChanges, storeVars
  <1>14. CASE UNCHANGED vars
    BY <1>1, <1>14 DEF vars, storeVars
  <1> QED
    BY <1>2, <1>3, <1>4, <1>5, <1>6, <1>7, <1>8, <1>9, <1>10, <1>11, <1>12, <1>13, <1>14
       DEF Next

-----------------------------------------------------------------------------
(* The theorems. *)

LifeInv == StoreInv /\ PortalTypeOK /\ StatusInv /\ SweptInv

LEMMA LifeInit == Init => LifeInv
  <1> SUFFICES ASSUME Init PROVE LifeInv
    OBVIOUS
  <1> USE StoreAssumption, LifeAssumption DEF Init
  <1>1. StoreTypeOK
    BY DEF StoreInit, StoreTypeOK, Default, Data, BootSteps
  <1>2. KeyInv /\ SaveInv
    BY DEF StoreInit, KeyInv, SaveInv, Whole
  <1>3. AcknowledgedIsKept
    BY DEF StoreInit, AcknowledgedIsKept, OnDisk
  <1>4. PortalTypeOK
    BY DEF PortalInit, PortalTypeOK, Stages
  <1>5. StatusInv
    <2>1. 0 \in 0 .. MaxTicks
      OBVIOUS
    <2> QED
      BY <2>1, Zenon DEF L!LifeInit, StatusInv, L!LifeTypeOK
  <1>6. SweptInv
    BY DEF SweptInv, StoreInit
  <1> QED
    BY <1>1, <1>2, <1>3, <1>4, <1>5, <1>6 DEF LifeInv, StoreInv

LEMMA StoreKept == StoreInv /\ UNCHANGED storeVars => StoreInv'
  <1> SUFFICES ASSUME StoreInv, UNCHANGED storeVars PROVE StoreInv'
    OBVIOUS
  <1> USE DEF StoreInv, storeVars
  <1>1. StoreTypeOK'
    BY DEF StoreTypeOK
  <1>2. KeyInv' /\ SaveInv'
    BY DEF KeyInv, SaveInv, Whole
  <1>3. AcknowledgedIsKept'
    BY DEF AcknowledgedIsKept, OnDisk
  <1> QED
    BY <1>1, <1>2, <1>3

LEMMA LifeStepInv == LifeInv /\ [Next]_vars => LifeInv'
  <1> SUFFICES ASSUME LifeInv, [Next]_vars PROVE LifeInv'
    OBVIOUS
  <1> USE DEF LifeInv
  <1>1. StoreInv'
    BY StoreSteps, StoreTypeStep, KeyStep, SaveStep, AckStep, StoreKept DEF StoreInv
  <1>2. PortalTypeOK'
    BY PortalTypeStep DEF StoreInv
  <1>3. StatusInv' /\ SweptInv'
    BY LifeSteps, StatusStep, SweptStep
  <1> QED
    BY <1>1, <1>2, <1>3

\* The invariant all of the daemon's life keeps: types, keys, the save under way, the
\* status reported and the configurations left lying.
THEOREM LifeInvariance == Spec => []LifeInv
  BY LifeInit, LifeStepInv, PTL DEF Spec

\* Every variable keeps its type.
THEOREM LifeTypes == Spec => []TypeOK
  <1>1. LifeInv => TypeOK
    BY DEF LifeInv, StoreInv, StatusInv, SweptInv, TypeOK
  <1> QED
    BY <1>1, LifeInvariance, PTL

\* Client, memory and disk agree on every profile without an unacknowledged change, at
\* every step of a save, a crash and a restart (store.rs:102-113).
THEOREM Durability == Spec => []AcknowledgedIsKept
  <1>1. LifeInv => AcknowledgedIsKept
    BY DEF LifeInv, StoreInv
  <1> QED
    BY <1>1, LifeInvariance, PTL

\* A running daemon overwrites only a store it read, and sets aside one it cannot open
\* (state.rs:88-109); the exceptions are one that could not be read at all and one whose
\* setting aside failed.
THEOREM StoreNotOverwritten == Spec => OnlyOwnStoreReplaced
  <1> DEFINE A == file' # file /\ boot # "down" =>
                      file \in {None, base} \/ file \in aside' \/ base = Torn
  <1>1. LifeInv /\ [Next]_vars => [A]_storeVars
    <2> SUFFICES ASSUME LifeInv, StoreStep PROVE A
      BY StoreSteps DEF LifeInv, StoreInv
    <2>1. CASE Booting
      BY <2>1 DEF Booting, ReadKey, KeyUnseen, KeyFails, IsolateKey, IsolateStore,
                  NotSetAside, OpenKeyFile, FillKeyFile, InstallKey, Load, LoadIsolates,
                  LoadUnreadable, files
    <2>2. CASE Saving
      BY <2>2 DEF Saving, OpenTmp, FillTmp, RenameTmp, SaveFails, files, LifeInv, StoreInv,
                  SaveInv
    <2>3. CASE StartsToBoot \/ ChangesRest \/ ChangesProfile \/ Unlocks \/ Ends
               \/ \E i \in Ids : AnswerProfile(i)
      BY <2>3 DEF StartsToBoot, ChangesRest, ChangesProfile, ChangeProfile, Change, Unlocks,
                  Unlock, Ends, ProcessGone, AnswerProfile, files
    <2>4. CASE Elsewhere \/ Damage \/ PolicyChanges
      BY <2>4 DEF Elsewhere, Damage, PolicyChanges, files
    <2> QED
      BY <2>1, <2>2, <2>3, <2>4 DEF StoreStep
  <1> QED
    BY <1>1, LifeInvariance, PTL DEF Spec, OnlyOwnStoreReplaced

\* Once the daemon is up, no configuration of an earlier life is there but those that
\* could not be removed (paths.rs:83-86).
THEOREM NoKeysLeft == Spec => []KeysSwept
  <1>1. LifeInv => KeysSwept
    BY DEF LifeInv, SweptInv, KeysSwept
  <1> QED
    BY <1>1, LifeInvariance, PTL

\* The status of one life of the process goes forward (service.rs:106-107).
THEOREM StatusGoesForward == Spec => StatusForward
  <1>1. LifeInv /\ [Next]_vars => [Forward]_<<main, scm>>
    BY LifeSteps, StatusStep DEF LifeInv
  <1> QED
    BY <1>1, LifeInvariance, PTL DEF Spec, StatusForward, L!StatusForward, Forward

-----------------------------------------------------------------------------
(* DaemonLife implements StorePromise: every step of a start, of a save,   *)
(* of a handler or of a crash is a step of the promise or leaves what the  *)
(* promise speaks of unchanged.                                            *)

\* Steps after which the disk reads as before, with nothing else to see.
LEMMA Idle ==
    ASSUME OnDisk'.profiles = OnDisk.profiles, UNCHANGED <<acked, open>>,
           boot' = "up" <=> boot = "up",
           boot = "up" => mem'.profiles = mem.profiles
    PROVE  UNCHANGED Promise!vars
  BY DEF Promise!vars, Default

LEMMA SameFiles == ASSUME UNCHANGED <<file, key>> PROVE OnDisk' = OnDisk
  BY DEF OnDisk

\* A store that does not open with the key reads as none.
LEMMA Closed == ASSUME ~ Whole(file) \/ file.by # key PROVE OnDisk = Default
  BY DEF OnDisk, Whole

\* While the key is looked for, made anew or given up, the disk reads as before, but for
\* what a key had sealed that was only unseen.
LEMMA BootStutters ==
    ASSUME StoreInv, KeyInv', Booting, boot' # "up"
    PROVE  Promise!Lose \/ UNCHANGED Promise!vars
  <1> USE StoreAssumption, SealedAssumption DEF StoreInv, files
  <1>1. CASE ReadKey \/ KeyUnseen \/ KeyFails \/ OpenKeyFile \/ FillKeyFile
    <2>1. boot # "up" /\ UNCHANGED <<file, key, acked, open>>
      BY <1>1 DEF ReadKey, KeyUnseen, KeyFails, OpenKeyFile, FillKeyFile
    <2> QED
      BY <2>1, SameFiles, Idle
  <1>2. CASE IsolateKey \/ IsolateStore
    <2>1. OnDisk = Default
      BY <1>2, Closed DEF IsolateKey, IsolateStore, KeyInv, StoreTypeOK, Sealed, Whole
    <2>2. OnDisk' = Default
      BY <1>2 DEF IsolateKey, IsolateStore, NotSetAside, OnDisk, KeyInv, StoreTypeOK, Sealed
    <2>3. boot # "up" /\ UNCHANGED <<acked, open>>
      BY <1>2 DEF IsolateKey, IsolateStore
    <2> QED
      BY <2>1, <2>2, <2>3, Idle
  <1>3. CASE InstallKey
    <2>1. OnDisk' = Default /\ boot # "up" /\ open' = open
      BY <1>3 DEF InstallKey, KeyInv, OnDisk, StoreTypeOK, Sealed, Whole
    <2>2. CASE key \in {None, Torn}
      <3>1. OnDisk = Default /\ acked' = acked
        BY <1>3, <2>2, Closed DEF InstallKey, StoreTypeOK, Sealed, Whole
      <3> QED
        BY <2>1, <3>1, Idle
    <2>3. CASE key \notin {None, Torn}
      <3>1. acked' = Default.profiles
        BY <1>3, <2>3 DEF InstallKey
      <3> QED
        BY <2>1, <3>1 DEF Promise!Lose, Promise!Nothing, Default
    <2> QED
      BY <2>2, <2>3
  <1> QED
    BY <1>1, <1>2, <1>3 DEF Booting, Load, LoadIsolates, LoadUnreadable, ComeUp

\* The three ways to come up.
LEMMA LoadStarts ==
    ASSUME StoreInv, Booting, boot' = "up"
    PROVE  Promise!Start \/ Promise!StartBlind
  <1> USE StoreAssumption, SealedAssumption DEF StoreInv, files
  <1>0. Load \/ LoadIsolates \/ LoadUnreadable
    BY DEF Booting, ReadKey, KeyUnseen, KeyFails, IsolateKey, IsolateStore, OpenKeyFile,
           FillKeyFile, InstallKey
  <1>1. boot = "load" /\ boot' = "up" /\ key = inUse
    BY <1>0 DEF Load, LoadIsolates, LoadUnreadable, ComeUp, KeyInv
  <1>2. Default.profiles = Promise!Nothing
    BY DEF Default, Promise!Nothing
  <1>3. CASE Load
    <2>1. OnDisk' = OnDisk /\ UNCHANGED <<acked, open>>
      BY <1>3, SameFiles DEF Load
    <2>2. mem'.profiles = OnDisk.profiles
      <3>1. CASE file = None
        BY <1>3, <3>1, Closed DEF Load, ComeUp, Default, Whole
      <3>2. CASE file # None
        BY <1>1, <1>3, <3>2 DEF Load, Opens, ComeUp, OnDisk, StoreTypeOK, Sealed, Data
      <3> QED
        BY <3>1, <3>2
    <2> QED
      BY <1>1, <2>1, <2>2 DEF Promise!Start
  <1>4. CASE LoadIsolates
    <2>1. OnDisk = Default
      BY <1>1, <1>4, Closed DEF LoadIsolates, Opens, Whole
    <2>2. OnDisk' = Default
      BY <1>4, <2>1 DEF LoadIsolates, NotSetAside, OnDisk
    <2>3. mem'.profiles = Default.profiles /\ UNCHANGED <<acked, open>>
      BY <1>4 DEF LoadIsolates, ComeUp, Default
    <2> QED
      BY <1>1, <2>1, <2>2, <2>3 DEF Promise!Start
  <1>5. CASE LoadUnreadable
    <2>1. OnDisk' = OnDisk /\ mem'.profiles = Default.profiles /\ acked' = acked /\ open' = Ids
      BY <1>5, SameFiles DEF LoadUnreadable, ComeUp, Default
    <2> QED
      BY <1>1, <1>2, <2>1 DEF Promise!StartBlind
  <1> QED
    BY <1>0, <1>3, <1>4, <1>5

\* Of a save only the rename shows.
LEMMA SavingSaves ==
    ASSUME StoreInv, Saving
    PROVE  Promise!Save \/ UNCHANGED Promise!vars
  <1> USE StoreAssumption, SealedAssumption DEF StoreInv
  <1>1. CASE OpenTmp \/ FillTmp \/ SaveFails
    <2>1. UNCHANGED <<file, key, acked, open, boot, mem>>
      BY <1>1 DEF OpenTmp, FillTmp, SaveFails, files
    <2> QED
      BY <2>1, SameFiles, Idle
  <1>2. CASE RenameTmp
    <2>1. boot = "up" /\ key = inUse /\ file' = [by |-> inUse, data |-> mem]
          /\ UNCHANGED <<key, acked, open, boot, mem>>
      BY <1>2 DEF RenameTmp, SaveInv, KeyInv
    <2>2. OnDisk' = mem
      BY <2>1 DEF OnDisk, StoreTypeOK, Sealed
    <2> QED
      BY <2>1, <2>2 DEF Promise!Save
  <1> QED
    BY <1>1, <1>2 DEF Saving

\* A handler asks, and its Ok says what is on disk.
LEMMA HandlerAsks ==
    ASSUME StoreInv, ChangesProfile
    PROVE  \E i \in Ids : Promise!Import(i) \/ Promise!Edit(i)
  <1>1. PICK i \in Ids, v \in 0 .. 2 :
           (IF v = 1 THEN Unknown(i) ELSE mem.profiles[i] # 0) /\ ChangeProfile(i, v)
    BY DEF ChangesProfile
  <1>2. /\ boot = "up" /\ boot' = "up" /\ UNCHANGED <<file, key, acked>>
        /\ open' = open \cup {i}
    BY <1>1 DEF ChangeProfile, Change, files
  <1>3. mem'.profiles = [mem.profiles EXCEPT ![i] = v]
    BY <1>1 DEF ChangeProfile, Change, StoreInv, StoreTypeOK, Data
  <1>4. Promise!Ask(i, v)
    BY <1>2, <1>3, SameFiles DEF Promise!Ask
  <1>5. CASE v = 1
    <2>1. mem.profiles[i] = 0 /\ OnDisk.profiles[i] = 0
      BY <1>1, <1>5 DEF Unknown, OnDisk, Default
    <2> QED
      BY <1>2, <1>4, <1>5, <2>1 DEF Promise!Import
  <1>6. CASE v # 1
    <2>1. mem.profiles[i] # 0 /\ v \in {0, 2}
      BY <1>1, <1>6
    <2> QED
      BY <1>2, <1>4, <2>1 DEF Promise!Edit
  <1> QED
    BY <1>5, <1>6

LEMMA AnswerIsOk ==
    ASSUME StoreInv, NEW i \in Ids, AnswerProfile(i)
    PROVE  Promise!Answer(i) \/ UNCHANGED Promise!vars
  <1> USE StoreAssumption, SealedAssumption DEF StoreInv
  <1>1. UNCHANGED <<file, key, boot, mem>> /\ boot = "up"
    BY DEF AnswerProfile, Unlock, files, SaveInv
  <1>2. CASE io = "saved"
    <2>1. OnDisk = mem
      BY <1>1, <1>2 DEF SaveInv, KeyInv, OnDisk, StoreTypeOK, Sealed
    <2>2. acked' = [acked EXCEPT ![i] = mem.profiles[i]] /\ open' = open \ {i}
      BY <1>2 DEF AnswerProfile
    <2> QED
      BY <1>1, <2>1, <2>2, SameFiles DEF Promise!Answer
  <1>3. CASE io # "saved"
    BY <1>1, <1>3, SameFiles, Idle DEF AnswerProfile
  <1> QED
    BY <1>2, <1>3

LEMMA PromiseStep ==
    ASSUME StoreInv, KeyInv', StoreStep
    PROVE  Promise!Next \/ UNCHANGED Promise!vars
  <1> USE StoreAssumption, SealedAssumption DEF StoreInv
  <1>1. CASE StartsToBoot
    BY <1>1, SameFiles, Idle DEF StartsToBoot, files
  <1>2. CASE Booting
    BY <1>2, BootStutters, LoadStarts DEF Booting, Promise!Next
  <1>3. CASE Saving
    BY <1>3, SavingSaves DEF Promise!Next
  <1>4. CASE ChangesRest
    BY <1>4, SameFiles, Idle DEF ChangesRest, Change, files
  <1>5. CASE ChangesProfile
    BY <1>5, HandlerAsks DEF Promise!Next
  <1>6. CASE Unlocks
    BY <1>6, SameFiles, Idle DEF Unlocks, Unlock, files
  <1>7. ASSUME NEW i \in Ids, AnswerProfile(i) PROVE Promise!Next \/ UNCHANGED Promise!vars
    BY <1>7, AnswerIsOk DEF Promise!Next
  <1>8. CASE Ends
    <2>1. boot' = "down" /\ UNCHANGED <<file, key, acked, open>>
      BY <1>8 DEF Ends, ProcessGone, files
    <2>2. CASE boot = "up"
      <3>1. Promise!Stop
        BY <2>1, <2>2, SameFiles DEF Promise!Stop, Promise!Nothing, Default
      <3> QED
        BY <3>1 DEF Promise!Next
    <2>3. CASE boot # "up"
      BY <2>1, <2>3, SameFiles, Idle
    <2> QED
      BY <2>2, <2>3
  <1>9. CASE Damage
    <2>1. OnDisk' = Default /\ acked' = Default.profiles /\ boot = "down" /\ boot' = "down"
          /\ open' = open
      BY <1>9 DEF Damage, OnDisk, StoreTypeOK, Sealed
    <2>2. Promise!Lose
      BY <2>1 DEF Promise!Lose, Promise!Nothing, Default
    <2> QED
      BY <2>2 DEF Promise!Next
  <1>10. CASE PolicyChanges
    BY <1>10, SameFiles, Idle DEF PolicyChanges, files
  <1>11. CASE Elsewhere
    BY <1>11, SameFiles, Idle DEF Elsewhere, files
  <1> QED
    BY <1>1, <1>2, <1>3, <1>4, <1>5, <1>6, <1>7, <1>8, <1>9, <1>10, <1>11
       DEF StoreStep

LEMMA PromiseInit == Init => Promise!Init
  BY StoreAssumption DEF Init, StoreInit, Promise!Init, Promise!Nothing, Default, OnDisk

\* To its clients the daemon's store is one place that a save replaces in one step, for
\* any number of profiles, flows, faults and lives (store.rs:102-113, state.rs:324).
THEOREM StoreRefinesPromise == Spec => StorePromiseKept
  <1>1. LifeInv /\ LifeInv' /\ [Next]_vars => [Promise!Next]_(Promise!vars)
    <2> SUFFICES ASSUME LifeInv, LifeInv', [Next]_vars
                 PROVE  Promise!Next \/ UNCHANGED Promise!vars
      OBVIOUS
    <2>1. StoreStep \/ UNCHANGED storeVars
      BY StoreSteps DEF LifeInv, StoreInv
    <2>2. CASE UNCHANGED storeVars
      BY <2>2, SameFiles, Idle DEF storeVars
    <2> QED
      BY <2>1, <2>2, PromiseStep DEF LifeInv, StoreInv
  <1> QED
    BY <1>1, PromiseInit, LifeInvariance, PTL DEF Spec, StorePromiseKept, Promise!Spec
=============================================================================
