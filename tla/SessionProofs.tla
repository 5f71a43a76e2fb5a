--------------------------- MODULE SessionProofs ---------------------------
(***************************************************************************)
(* Proofs about the portal's sessions in DaemonLife, over StoreProofs: a   *)
(* session that ended stays ended, a login through the browser is the one  *)
(* its own page completed, and while flows have their turns the profiles   *)
(* of the portal are those of the session, through crashes and restarts.   *)
(***************************************************************************)
EXTENDS StoreProofs

\* Flows whose token may be in the data, and those whose session may be.
Issued == {"storing", "stored", "signing", "done"}
Signed == {"signing", "done"}

Genuine(x) == x # None => stage[x] \in Issued /\ (kind[x] = "oidc" => seen[x] = x)
Ended(x)   == x # None => stage[x] \in Signed

\* What holds of the data in memory and of that on disk alike.
DataOK(data) ==
    /\ Genuine(data.session) /\ Genuine(data.portal)
    /\ Ended(data.session) /\ data.session \notin out

\* A flow is where its kind takes it, knows its own state or a session that was given
\* out, and holds the data's lock while it clears.
FlowOK(f) ==
    /\ stage[f] = "signIn" => kind[f] = "login"
    /\ stage[f] \in {"discovering", "listening", "reading", "redeeming", "exchanging"} =>
         kind[f] = "oidc"
    /\ kind[f] = "oidc" /\ stage[f] \in {"redeeming", "exchanging", "fetching", "storing",
                                         "stored", "signing"} => seen[f] = f
    /\ kind[f] = "sync" /\ stage[f] = "fetching" => Genuine(seen[f])
    /\ stage[f] = "clearing" => writer = f /\ mem.session = None /\ Ended(seen[f])

SessionInv ==
    /\ DataOK(mem) /\ (Whole(file) => DataOK(file.data))
    /\ \A x \in out : stage[x] \in Signed
    /\ \A f \in Flows : FlowOK(f)

-----------------------------------------------------------------------------
\* Nothing is taken back: what a flow's token stands for is settled when it is given out.
Settles ==
    \A x \in Flows :
        /\ stage[x] \in Issued =>
             stage'[x] \in Issued /\ kind'[x] = kind[x] /\ seen'[x] = seen[x]
        /\ stage[x] \in Signed => stage'[x] \in Signed

LEMMA FlowSettles ==
    ASSUME PortalTypeOK, NEW f \in Flows, Flow(f) \/ Asking(f) \/ Browser(f)
    PROVE  Settles
  <1> USE DEF PortalTypeOK, Goto, Settles, Issued, Signed
  <1>1. CASE SignedIn(f) \/ Redeemed(f) \/ Exchanged(f) \/ Revoked(f) \/ Accept(f)
    BY <1>1 DEF SignedIn, Redeemed, Exchanged, Revoked, Accept, Answered
  <1>2. CASE Prepared(f) \/ RequestFails(f) \/ NoCode(f)
    BY <1>2 DEF Prepared, RequestFails, NoCode
  <1>3. CASE Upsert(f) \/ SetSession(f) \/ ClearSession(f) \/ Settled(f)
    BY <1>3 DEF Upsert, SetSession, ClearSession, Settled
  <1>4. CASE Login(f) \/ OidcStart(f) \/ Sync(f) \/ Logout(f)
    BY <1>4 DEF Login, OidcStart, Sync, Logout, Begin
  <1>5. ASSUME NEW state \in Flows, Callback(f, state) PROVE Settles
    BY <1>5 DEF Callback
  <1> QED
    BY <1>1, <1>2, <1>3, <1>4, <1>5 DEF Flow, Asking, Browser

\* What stays settled stays genuine and ended.
LEMMA SettledFacts ==
    ASSUME Settles, NEW x \in Flows \cup {None}
    PROVE  (Genuine(x) => Genuine(x)') /\ (Ended(x) => Ended(x)')
  BY DEF Settles, Genuine, Ended

-----------------------------------------------------------------------------
(* Steps that are no flow's. *)

\* The session and the portal's profiles stay, are gone, or are read from disk; and the
\* disk gets what is in memory, or nothing.
Passes ==
    /\ \/ mem'.session = mem.session /\ mem'.portal = mem.portal
       \/ mem'.session = None /\ mem'.portal = None
       \/ /\ Whole(file)
          /\ mem'.session = file.data.session /\ mem'.portal = file.data.portal
    /\ file' = file \/ ~ Whole(file') \/ file'.data = mem

\* A flow's save is nobody else's to end.
LeavesFlows == \A g \in Flows : writer = g => writer' = g /\ mem'.session = mem.session

LEMMA LoadPasses ==
    ASSUME StoreTypeOK, SaveInv, Booting
    PROVE  Passes /\ LeavesFlows
  <1> USE DEF Passes, LeavesFlows, files
  <1>w. \A g \in Flows : writer # g
    BY StoreAssumption DEF StoreTypeOK, SaveInv, Booting, ReadKey, KeyUnseen, KeyFails,
       IsolateKey, IsolateStore, OpenKeyFile, FillKeyFile, InstallKey, Load, LoadIsolates,
       LoadUnreadable
  <1>1. CASE ReadKey \/ KeyUnseen \/ KeyFails
    BY <1>1, <1>w DEF ReadKey, KeyUnseen, KeyFails
  <1>i. CASE IsolateKey \/ IsolateStore
    BY <1>i, <1>w DEF IsolateKey, IsolateStore, NotSetAside, Whole
  <1>2. CASE OpenKeyFile \/ FillKeyFile \/ InstallKey
    BY <1>2, <1>w DEF OpenKeyFile, FillKeyFile, InstallKey
  <1>3. ASSUME NEW data \in Data, NEW from, ComeUp(data, from)
        PROVE  mem'.session = data.session /\ mem'.portal = data.portal
    BY <1>3 DEF ComeUp, Data
  <1>4. Default \in Data /\ Default.session = None /\ Default.portal = None
    BY DEF Default, Data
  <1>5. CASE Load /\ file = None
    BY <1>3, <1>4, <1>5, <1>w DEF Load
  <1>6. CASE Load /\ file # None
    <2>1. Whole(file) /\ file.data \in Data
      BY <1>6 DEF Load, Opens, Whole, StoreTypeOK, Sealed
    <2> QED
      BY <1>3, <1>6, <1>w, <2>1 DEF Load
  <1>7. CASE LoadIsolates \/ LoadUnreadable
    BY <1>3, <1>4, <1>7, <1>w DEF LoadIsolates, LoadUnreadable, NotSetAside, Whole
  <1> QED
    BY <1>1, <1>i, <1>2, <1>5, <1>6, <1>7 DEF Booting

LEMMA SavePasses ==
    ASSUME StoreTypeOK, SaveInv, Saving \/ Answering
    PROVE  Passes /\ LeavesFlows
  <1> USE StoreAssumption DEF Passes, LeavesFlows, files
  <1>1. CASE OpenTmp \/ FillTmp \/ SaveFails
    BY <1>1 DEF OpenTmp, FillTmp, SaveFails
  <1>2. CASE RenameTmp
    BY <1>2 DEF RenameTmp, SaveInv
  <1>3. ASSUME NEW i \in Ids, AnswerProfile(i) PROVE Passes /\ LeavesFlows
    BY <1>3 DEF AnswerProfile, Unlock
  <1>4. CASE AnswerSettings
    BY <1>4 DEF AnswerSettings, Unlock
  <1> QED
    BY <1>1, <1>2, <1>3, <1>4 DEF Saving, Answering

LEMMA ChangePasses ==
    ASSUME StoreTypeOK, SaveInv, Handling \/ Change("shutdown", mem)
    PROVE  Passes /\ LeavesFlows
  <1> USE StoreAssumption DEF Passes, LeavesFlows, files, Change
  <1>w. \A g \in Flows : writer # g
    BY DEF StoreTypeOK, Handling, ImportProfile, UpdateProfile, DeleteProfile,
           ChangeProfile, SetSettings
  <1>1. CASE Change("shutdown", mem)
    BY <1>1, <1>w
  <1>2. ASSUME NEW i \in Ids, NEW v, ChangeProfile(i, v) PROVE Passes /\ LeavesFlows
    BY <1>2, <1>w DEF ChangeProfile, StoreTypeOK, Data
  <1>3. ASSUME NEW url, SetSettings(url) PROVE Passes /\ LeavesFlows
    BY <1>3, <1>w DEF SetSettings, StoreTypeOK, Data
  <1> QED
    BY <1>1, <1>2, <1>3 DEF Handling, ImportProfile, UpdateProfile, DeleteProfile

\* The steps that are no flow's leave the flows alone.
Others ==
    \/ Sweep \/ StartFails \/ Boot \/ BootEnds \/ ServiceThread \/ Ticker \/ DataRequest
    \/ Save \/ TunnelRequest \/ ShutdownStops \/ ShutdownSaves \/ ShutdownEnds \/ Outside
    \/ UNCHANGED vars

LEMMA OthersPass ==
    ASSUME StoreTypeOK, SaveInv, Others
    PROVE  Passes /\ LeavesFlows /\ UNCHANGED portalVars
  <1> USE StoreAssumption
  <1>1. CASE BootEnds \/ ServiceThread \/ Ticker \/ UNCHANGED vars
    BY <1>1 DEF BootEnds, ServiceThread, Ticker, vars, storeVars, Passes, LeavesFlows
  <1>2. CASE Sweep \/ StartFails \/ TunnelRequest \/ ShutdownStops
    BY <1>2 DEF Sweep, StartFails, TunnelRequest, ShutdownStops, files, Passes, LeavesFlows
  <1>3. CASE Boot \/ DataRequest \/ Save
    BY <1>3, LoadPasses, ChangePasses, SavePasses DEF Boot, DataRequest, Save
  <1>4. CASE ShutdownSaves
    BY <1>4, ChangePasses DEF ShutdownSaves
  <1>5. CASE ShutdownEnds
    BY <1>5 DEF ShutdownEnds, Unlock, files, Passes, LeavesFlows
  <1>6. CASE Outside
    BY <1>6 DEF Outside, Damage, PolicyChanges, storeVars, files, Passes, LeavesFlows, Whole
  <1> QED
    BY <1>1, <1>2, <1>3, <1>4, <1>5, <1>6 DEF Others

-----------------------------------------------------------------------------
(* The invariant is kept. *)

\* Data that were good and are settled stay so while no session ends.
LEMMA DataKept ==
    ASSUME StoreTypeOK, PortalTypeOK, SessionInv, Passes, Settles, out' = out
    PROVE  DataOK(mem)' /\ (Whole(file) => DataOK(file.data))'
  <1>1. mem.session \in Flows \cup {None} /\ mem.portal \in Flows \cup {None}
    BY DEF StoreTypeOK, Data
  <1>2. Whole(file) => /\ file.data.session \in Flows \cup {None}
                       /\ file.data.portal \in Flows \cup {None}
    BY DEF StoreTypeOK, Whole, Sealed, Data
  <1>3. None \notin out
    BY StoreAssumption DEF PortalTypeOK
  <1> USE DEF SessionInv, DataOK, Genuine, Ended, Settles, Passes
  <1>4. DataOK(mem)'
    BY <1>1, <1>2, <1>3
  <1>5. (Whole(file) => DataOK(file.data))'
    BY <1>1, <1>2, <1>3 DEF Whole
  <1> QED
    BY <1>4, <1>5

LEMMA OthersKeep ==
    ASSUME StoreTypeOK, SaveInv, PortalTypeOK, SessionInv, Others
    PROVE  SessionInv'
  <1>1. Passes /\ LeavesFlows /\ UNCHANGED <<stage, kind, seen, out>>
    BY OthersPass DEF portalVars
  <1>2. Settles
    BY <1>1 DEF Settles
  <1>3. \A f \in Flows : FlowOK(f)'
    BY <1>1 DEF SessionInv, FlowOK, Genuine, Ended, LeavesFlows
  <1> QED
    BY <1>1, <1>2, <1>3, DataKept DEF SessionInv

LEMMA GoneKeeps ==
    ASSUME StoreTypeOK, PortalTypeOK, SessionInv, Gone
    PROVE  SessionInv'
  <1> USE DEF Gone, ProcessGone, FlowsGone, files
  <1>1. Settles
    BY DEF Settles, Issued, Signed, InFlight, PortalTypeOK
  <1>2. Passes
    BY DEF Passes, Default
  <1>3. \A f \in Flows : FlowOK(f)'
    BY DEF FlowOK, InFlight, PortalTypeOK
  <1>4. \A x \in out : stage'[x] \in Signed
    BY <1>1 DEF SessionInv, Settles, PortalTypeOK
  <1> QED
    BY <1>1, <1>2, <1>3, <1>4, DataKept DEF SessionInv

\* A step of flow f keeps what is said of the others, if it leaves the data or holds
\* the lock, which a clearing flow would have.
LEMMA OtherFlows ==
    ASSUME StoreTypeOK, PortalTypeOK, SessionInv, Settles, NEW f \in Flows,
           \A g \in Flows \ {f} : stage'[g] = stage[g] /\ kind'[g] = kind[g] /\ seen'[g] = seen[g],
           \A g \in Flows \ {f} : writer = g => writer' = g /\ mem' = mem
    PROVE  \A g \in Flows \ {f} : FlowOK(g)'
  <1> SUFFICES ASSUME NEW g \in Flows \ {f} PROVE FlowOK(g)'
    OBVIOUS
  <1>1. FlowOK(g) /\ seen[g] \in Flows \cup {None}
    BY DEF SessionInv, PortalTypeOK
  <1> QED
    BY <1>1 DEF FlowOK, Genuine, Ended, Settles

\* Steps between the awaits that leave the data alone.
LEMMA QuietFlowKeeps ==
    ASSUME StoreTypeOK, PortalTypeOK, SessionInv, Settles, NEW f \in Flows, NoData,
           out' = out, FlowOK(f)',
           \A g \in Flows \ {f} : stage'[g] = stage[g] /\ kind'[g] = kind[g] /\ seen'[g] = seen[g]
    PROVE  SessionInv'
  <1>1. Passes /\ UNCHANGED <<mem, writer>>
    BY DEF NoData, storeVars, Passes
  <1>2. \A g \in Flows \ {f} : FlowOK(g)'
    BY <1>1, OtherFlows
  <1>3. \A x \in out : stage'[x] \in Signed
    BY DEF SessionInv, Settles, PortalTypeOK
  <1> QED
    BY <1>1, <1>2, <1>3, DataKept DEF SessionInv

LEMMA AnsweredKeeps ==
    ASSUME StoreTypeOK, PortalTypeOK, SessionInv, NEW f \in Flows,
           Flow(f) \/ Asking(f) \/ Browser(f), NoData
    PROVE  SessionInv'
  <1>s. Settles
    BY FlowSettles
  <1>f. FlowOK(f)
    BY DEF SessionInv
  <1> USE DEF PortalTypeOK, Goto, FlowOK
  <1>1. CASE SignedIn(f) \/ Redeemed(f) \/ Exchanged(f) \/ Revoked(f) \/ Accept(f)
    BY <1>1, <1>s, <1>f, QuietFlowKeeps DEF SignedIn, Redeemed, Exchanged, Revoked, Accept, Answered
  <1>2. CASE Prepared(f) \/ RequestFails(f) \/ NoCode(f)
    BY <1>2, <1>s, <1>f, QuietFlowKeeps DEF Prepared, RequestFails, NoCode
  <1>3. CASE Login(f) \/ OidcStart(f) \/ Logout(f)
    BY <1>3, <1>s, <1>f, QuietFlowKeeps DEF Login, OidcStart, Logout, Begin
  <1>4. CASE Sync(f)
    <2>1. Genuine(mem.session) /\ mem.session \in Flows \cup {None}
      BY DEF SessionInv, DataOK, StoreTypeOK, Data
    <2>2. seen'[f] = mem.session /\ kind'[f] = "sync" /\ stage'[f] = "fetching"
      BY <1>4 DEF Sync, Begin
    <2>3. FlowOK(f)'
      BY <2>1, <2>2, <1>s DEF Genuine, Settles
    <2> QED
      BY <1>4, <2>3, <1>s, QuietFlowKeeps DEF Sync, Begin
  <1>5. ASSUME NEW state \in Flows, Callback(f, state) PROVE SessionInv'
    BY <1>5, <1>s, <1>f, QuietFlowKeeps DEF Callback
  <1>6. CASE Upsert(f) \/ SetSession(f) \/ ClearSession(f) \/ Settled(f)
    <2>1. io' # io
      BY <1>6 DEF Upsert, SetSession, ClearSession, Settled, Change, Unlock
    <2> QED
      BY <2>1 DEF NoData, storeVars
  <1> QED
    BY <1>1, <1>2, <1>3, <1>4, <1>5, <1>6 DEF Flow, Asking, Browser

\* The four that change the data or end their save hold the lock or take a free one.
LEMMA LockedKeeps ==
    ASSUME StoreTypeOK, SaveInv, PortalTypeOK, SessionInv, NEW f \in Flows,
           Upsert(f) \/ SetSession(f) \/ ClearSession(f) \/ Settled(f)
    PROVE  SessionInv'
  <1> USE DEF Goto, PortalTypeOK
  <1>s. Settles
    BY FlowSettles DEF Flow
  <1>f. FlowOK(f) /\ DataOK(mem) /\ (Whole(file) => DataOK(file.data))
        /\ \A x \in out : stage[x] \in Signed
    BY DEF SessionInv
  <1>n. None \notin Flows /\ out \subseteq Flows
    BY StoreAssumption
  <1>t. /\ mem \in Data /\ mem.session \in Flows \cup {None} /\ mem.portal \in Flows \cup {None}
        /\ Whole(file) => file.data.session \in Flows \cup {None}
                          /\ file.data.portal \in Flows \cup {None}
    BY DEF StoreTypeOK, Whole, Sealed, Data
  <1>o. \A g \in Flows \ {f} : FlowOK(g)'
    <2>1. \A g \in Flows \ {f} : stage'[g] = stage[g] /\ kind'[g] = kind[g] /\ seen'[g] = seen[g]
      BY DEF Upsert, SetSession, ClearSession, Settled
    <2>2. \A g \in Flows \ {f} : writer # g
      BY StoreAssumption DEF Upsert, SetSession, ClearSession, Settled, Change, StoreTypeOK
    <2> QED
      BY <1>s, <2>1, <2>2, OtherFlows
  <1>d. ASSUME file' = file, out' = out PROVE (Whole(file) => DataOK(file.data))'
    BY <1>d, <1>f, <1>n, <1>s, <1>t DEF DataOK, Genuine, Ended, Settles, Whole
  <1>x. ASSUME out' = out PROVE \A x \in out' : stage'[x] \in Signed
    BY <1>x, <1>f, <1>n, <1>s DEF Settles
  <1>1. CASE Upsert(f)
    <2>1. PICK offered \in {Token(f), None} : Change(f, [mem EXCEPT !.portal = offered])
      BY <1>1 DEF Upsert
    <2>2. /\ mem'.session = mem.session /\ mem'.portal = offered
          /\ file' = file /\ out' = out /\ kind' = kind /\ seen' = seen
          /\ stage[f] = "fetching" /\ stage'[f] = "storing"
      BY <1>1, <1>t, <2>1 DEF Upsert, Change, files, Data
    <2>3. offered \in Flows \cup {None} /\ Genuine(offered)'
      <3>1. CASE offered = None
        BY <3>1 DEF Genuine
      <3>2. CASE kind[f] = "sync" /\ offered = seen[f]
        BY <1>f, <1>s, <2>2, <3>2 DEF FlowOK, Genuine, Settles
      <3>3. CASE kind[f] # "sync" /\ offered = f
        BY <1>f, <2>2, <3>3 DEF FlowOK, Genuine, Issued
      <3> QED
        BY <2>1, <3>1, <3>2, <3>3 DEF Token
    <2>4. DataOK(mem)'
      BY <1>f, <1>n, <1>s, <1>t, <2>2, <2>3 DEF DataOK, Genuine, Ended, Settles
    <2>5. FlowOK(f)'
      BY <1>f, <2>2 DEF FlowOK
    <2> QED
      BY <1>d, <1>o, <1>x, <2>2, <2>4, <2>5 DEF SessionInv
  <1>2. CASE SetSession(f)
    <2>1. /\ mem'.session = f /\ mem'.portal = mem.portal
          /\ file' = file /\ out' = out /\ kind' = kind /\ seen' = seen
          /\ stage[f] = "stored" /\ stage'[f] = "signing"
      BY <1>2, <1>t DEF SetSession, Change, files, Data
    <2>2. f \notin out
      BY <1>f, <2>1 DEF Signed
    <2>3. DataOK(mem)'
      BY <1>f, <1>n, <1>s, <1>t, <2>1, <2>2
         DEF DataOK, Genuine, Ended, Settles, FlowOK, Issued, Signed
    <2>4. FlowOK(f)'
      BY <1>f, <2>1 DEF FlowOK
    <2> QED
      BY <1>d, <1>o, <1>x, <2>1, <2>3, <2>4 DEF SessionInv
  <1>3. CASE ClearSession(f)
    <2>1. /\ mem'.session = None /\ mem'.portal = mem.portal /\ writer' = f
          /\ file' = file /\ out' = out /\ kind' = kind /\ seen'[f] = mem.session
          /\ stage[f] = "revoked" /\ stage'[f] = "clearing"
      BY <1>3, <1>t DEF ClearSession, Change, files, Data
    <2>2. DataOK(mem)'
      BY <1>f, <1>n, <1>s, <1>t, <2>1 DEF DataOK, Genuine, Ended, Settles
    <2>3. FlowOK(f)'
      BY <1>f, <1>s, <1>t, <2>1 DEF FlowOK, DataOK, Ended, Settles
    <2> QED
      BY <1>d, <1>o, <1>x, <2>1, <2>2, <2>3 DEF SessionInv
  <1>4. CASE Settled(f)
    <2>1. /\ mem' = mem /\ file' = file /\ kind' = kind /\ seen' = seen
          /\ stage'[f] \in {"stored", "done"}
          /\ stage'[f] = "stored" => stage[f] = "storing"
          /\ out' = IF stage[f] = "clearing" /\ io = "saved"
                    THEN out \cup ({seen[f]} \ {None}) ELSE out
      BY <1>4 DEF Settled, Unlock, files
    <2>2. FlowOK(f)'
      BY <1>f, <2>1 DEF FlowOK
    <2>3. CASE out' = out
      <3>1. DataOK(mem)'
        BY <1>f, <1>n, <1>s, <1>t, <2>1, <2>3 DEF DataOK, Genuine, Ended, Settles
      <3> QED
        BY <1>d, <1>o, <1>x, <2>1, <2>2, <2>3, <3>1 DEF SessionInv
    <2>4. CASE stage[f] = "clearing" /\ io = "saved"
      <3>1. mem.session = None /\ Ended(seen[f]) /\ file.data = mem /\ seen[f] \in Flows \cup {None}
        BY <1>f, <2>4 DEF FlowOK, SaveInv
      <3>2. \A x \in out' : stage'[x] \in Signed
        BY <1>f, <1>n, <1>s, <2>1, <2>4, <3>1 DEF Ended, Settles
      <3>3. DataOK(mem)'
        BY <1>f, <1>n, <1>s, <1>t, <2>1, <2>4, <3>1 DEF DataOK, Genuine, Ended, Settles
      <3>4. (Whole(file) => DataOK(file.data))'
        BY <2>1, <3>1, <3>3 DEF DataOK, Genuine, Ended
      <3> QED
        BY <1>o, <2>2, <3>2, <3>3, <3>4 DEF SessionInv
    <2> QED
      BY <2>1, <2>3, <2>4
  <1> QED
    BY <1>1, <1>2, <1>3, <1>4

-----------------------------------------------------------------------------
(* The theorems. *)

LEMMA SessionInit == Init => SessionInv
  BY DEF Init, StoreInit, PortalInit, SessionInv, DataOK, Genuine, Ended, Default, Whole,
         FlowOK

LEMMA SessionStep == LifeInv /\ SessionInv /\ [Next]_vars => SessionInv'
  <1> SUFFICES ASSUME LifeInv, SessionInv, [Next]_vars PROVE SessionInv'
    OBVIOUS
  <1>t. StoreTypeOK /\ SaveInv /\ PortalTypeOK
    BY DEF LifeInv, StoreInv
  <1>1. CASE Others
    BY <1>1, <1>t, OthersKeep
  <1>2. CASE Exit \/ ReportFails \/ Crash
    BY <1>2, <1>t, GoneKeeps DEF Exit, ReportFails, Crash
  <1>3. ASSUME NEW f \in Flows, Flow(f) PROVE SessionInv'
    <2>1. CASE NoData
      BY <1>3, <1>t, <2>1, AnsweredKeeps
    <2>2. CASE Upsert(f) \/ SetSession(f) \/ ClearSession(f) \/ Settled(f)
      BY <1>t, <2>2, LockedKeeps
    <2> QED
      BY <1>3, <2>1, <2>2 DEF Flow, SignedIn, Redeemed, Exchanged, Prepared, RequestFails,
                              Revoked, NoCode, Answered
  <1>4. ASSUME NEW f \in Flows, Asking(f) \/ Browser(f) PROVE SessionInv'
    <2>1. NoData
      BY <1>4 DEF Asking, Login, OidcStart, Sync, Logout, Begin, Browser, Accept, Answered,
                  Callback
    <2> QED
      BY <1>4, <1>t, <2>1, AnsweredKeeps
  <1> QED
    BY <1>1, <1>2, <1>3, <1>4 DEF Next, Others, PortalRequest, BrowserSteps, FlowSteps

\* The invariant of the flows and of the data they leave, in memory and on disk
\* (portal_flow.rs over state.rs).
THEOREM SessionInvariance == Spec => []SessionInv
  BY LifeInvariance, SessionInit, SessionStep, PTL DEF Spec

\* A session whose end was saved never comes back, in any order of flows, saves, crashes
\* and restarts (portal_flow.rs:280-296).
THEOREM SessionStaysOut == Spec => []LogoutSticks
  <1>1. SessionInv => LogoutSticks
    BY DEF SessionInv, DataOK, LogoutSticks
  <1> QED
    BY <1>1, SessionInvariance, PTL

\* A login through the browser that gave out a token, or is the session, in memory now
\* or after a restart, got its own state back (portal_flow.rs:156).
THEOREM OnlyOwnBrowser == Spec => []OwnBrowserOnly
  <1>1. SessionInv => OwnBrowserOnly
    BY StoreAssumption DEF SessionInv, DataOK, Genuine, FlowOK, OwnBrowserOnly
  <1> QED
    BY <1>1, SessionInvariance, PTL

-----------------------------------------------------------------------------
(* The portal's profiles are those of the session. *)

Match(data) == data.session # None /\ data.portal # None => data.portal = data.session

\* Where a flow has begun to change the data and not ended.
Working == {"storing", "stored", "signing", "clearing"}

\* A login has its profiles in memory and its session not yet.
Fresh(f) == stage[f] = "stored" \/ (stage[f] = "storing" /\ kind[f] # "sync")

\* Flows run in a daemon that is up, and save what they changed.
TurnInv ==
    /\ \A f \in Flows : InFlight(f) => boot = "up"
    /\ writer \in Flows => stage[writer] \in {"storing", "signing", "clearing"}

\* One flow at a time: memory matches unless a login is between its profiles and its
\* session, the disk unless a flow is at work, and a sync fetches for the session of now.
TidyInv ==
    /\ \A f, g \in Flows : InFlight(f) /\ InFlight(g) => f = g
    /\ \A f \in Flows : Fresh(f) => mem.portal \in {f, None}
    /\ (\A f \in Flows : ~ Fresh(f)) => Match(mem)
    /\ (\A f \in Flows : stage[f] \notin Working) /\ Whole(file) => Match(file.data)
    /\ \A f \in Flows : kind[f] = "sync" /\ stage[f] = "fetching" => seen[f] = mem.session

MatchInv == TurnInv /\ (untidy \/ TidyInv)

\* A daemon that is up keeps the session and the portal's profiles through the steps that
\* are no flow's, and those take no lock for a flow.
LEMMA OthersStay ==
    ASSUME StoreTypeOK, SaveInv, Others
    PROVE  /\ boot = "up" => boot' = "up" /\ mem'.session = mem.session
                                          /\ mem'.portal = mem.portal
           /\ writer' \in Flows => writer' = writer
  <1> USE StoreAssumption
  <1> DEFINE Stays == /\ boot = "up" => boot' = "up" /\ mem'.session = mem.session
                                                     /\ mem'.portal = mem.portal
                      /\ writer' \in Flows => writer' = writer
  <1>1. CASE BootEnds \/ ServiceThread \/ Ticker \/ UNCHANGED vars
    BY <1>1 DEF BootEnds, ServiceThread, Ticker, vars, storeVars
  <1>2. CASE Sweep \/ StartFails \/ TunnelRequest \/ ShutdownStops
    BY <1>2 DEF Sweep, StartFails, TunnelRequest, ShutdownStops
  <1>3. CASE Boot
    BY <1>3 DEF Boot, Booting, ReadKey, KeyUnseen, KeyFails, IsolateKey, IsolateStore,
                OpenKeyFile, FillKeyFile, InstallKey, Load, LoadIsolates, LoadUnreadable
  <1>4. CASE Save
    BY <1>4 DEF Save, Saving, OpenTmp, FillTmp, RenameTmp, SaveFails, Answering,
                AnswerProfile, AnswerSettings, Unlock
  <1>5. ASSUME NEW i \in Ids, NEW v, ChangeProfile(i, v) PROVE Stays
    BY <1>5 DEF ChangeProfile, Change, StoreTypeOK, Data
  <1>6. ASSUME NEW url, SetSettings(url) PROVE Stays
    BY <1>6 DEF SetSettings, Change, StoreTypeOK, Data
  <1>7. CASE DataRequest
    BY <1>5, <1>6, <1>7 DEF DataRequest, Handling, ImportProfile, UpdateProfile, DeleteProfile
  <1>8. CASE ShutdownSaves
    BY <1>8 DEF ShutdownSaves, Change
  <1>9. CASE ShutdownEnds
    BY <1>9 DEF ShutdownEnds, Unlock
  <1>10. CASE Outside
    BY <1>10 DEF Outside, Damage, PolicyChanges, storeVars
  <1> QED
    BY <1>1, <1>2, <1>3, <1>4, <1>7, <1>8, <1>9, <1>10 DEF Others

LEMMA OthersMatch ==
    ASSUME StoreTypeOK, SaveInv, PortalTypeOK, MatchInv, Others
    PROVE  MatchInv'
  <1>1. Passes /\ UNCHANGED <<stage, kind, seen, untidy>>
    BY OthersPass DEF portalVars
  <1>2. /\ boot = "up" => boot' = "up" /\ mem'.session = mem.session
                                       /\ mem'.portal = mem.portal
        /\ writer' \in Flows => writer' = writer
    BY OthersStay
  <1>3. TurnInv'
    BY <1>1, <1>2 DEF MatchInv, TurnInv, InFlight
  <1>4. ASSUME TidyInv PROVE TidyInv'
    <2>1. \A f \in Flows : Fresh(f) \/ (kind[f] = "sync" /\ stage[f] = "fetching") => boot = "up"
      BY DEF MatchInv, TurnInv, InFlight, Fresh
    <2>2. boot # "up" => \A f \in Flows : ~ Fresh(f) /\ stage[f] \notin Working
      BY DEF MatchInv, TurnInv, InFlight, Fresh, Working
    <2>3. (\A f \in Flows : ~ Fresh(f)) => Match(mem')
      BY <1>1, <1>2, <1>4, <2>2 DEF TidyInv, Passes, Match
    <2>4. (\A f \in Flows : stage[f] \notin Working) /\ Whole(file') => Match(file'.data)
      <3>1. (\A f \in Flows : stage[f] \notin Working) => \A f \in Flows : ~ Fresh(f)
        BY DEF Working, Fresh
      <3> QED
        BY <1>1, <1>4, <3>1 DEF TidyInv, Passes
    <2>5. \A f \in Flows : Fresh(f) => mem'.portal \in {f, None}
      BY <1>2, <1>4, <2>1 DEF TidyInv
    <2>6. \A f \in Flows : kind[f] = "sync" /\ stage[f] = "fetching" => seen[f] = mem'.session
      BY <1>2, <1>4, <2>1 DEF TidyInv
    <2>7. \A f \in Flows : (Fresh(f)' <=> Fresh(f)) /\ (InFlight(f)' <=> InFlight(f))
      BY <1>1 DEF Fresh, InFlight
    <2>8. /\ Match(mem)' <=> Match(mem')
          /\ (Whole(file) => Match(file.data))' <=> (Whole(file') => Match(file'.data))
      BY DEF Match, Whole
    <2> QED
      BY <1>1, <1>4, <2>3, <2>4, <2>5, <2>6, <2>7, <2>8 DEF TidyInv
  <1> QED
    BY <1>1, <1>3, <1>4 DEF MatchInv

LEMMA GoneMatch == ASSUME PortalTypeOK, MatchInv, Gone PROVE MatchInv'
  <1> USE DEF Gone, ProcessGone, FlowsGone, files
  <1>1. \A f \in Flows : ~ InFlight(f)' /\ ~ Fresh(f)' /\ stage'[f] \notin Working
    BY DEF InFlight, Fresh, Working, PortalTypeOK
  <1>2. TurnInv'
    BY <1>1, StoreAssumption DEF TurnInv
  <1>3. ASSUME ~ untidy' PROVE TidyInv'
    <2>1. ~ untidy /\ \A f \in Flows : ~ InFlight(f)
      BY <1>3
    <2>2. Whole(file) => Match(file.data)
      BY <2>1 DEF MatchInv, TidyInv, InFlight, Working
    <2>3. \A f \in Flows : stage'[f] # "fetching"
      BY <1>1 DEF InFlight
    <2> QED
      BY <1>1, <2>2, <2>3 DEF TidyInv, Match, Default, Whole
  <1> QED
    BY <1>2, <1>3 DEF MatchInv

\* A step of flow f between the awaits that leaves the data alone comes from no work on
\* them and goes to none; a sync begins with the session of now, and alone or untidy.
LEMMA QuietFlow ==
    ASSUME StoreTypeOK, PortalTypeOK, SessionInv, NEW f \in Flows,
           Flow(f) \/ Asking(f) \/ Browser(f), NoData
    PROVE  /\ \A g \in Flows \ {f} :
                stage'[g] = stage[g] /\ kind'[g] = kind[g] /\ seen'[g] = seen[g]
           /\ stage[f] \notin Working /\ stage'[f] \notin Working
           /\ kind'[f] = "sync" /\ stage'[f] = "fetching" => seen'[f] = mem.session
           /\ ~ untidy' => ~ untidy /\ (InFlight(f) \/ \A g \in Flows : ~ InFlight(g))
  <1>f. FlowOK(f)
    BY DEF SessionInv
  <1> USE DEF PortalTypeOK, Goto, Working
  <1>1. CASE SignedIn(f) \/ Redeemed(f) \/ Exchanged(f) \/ Revoked(f) \/ Accept(f)
    BY <1>1, <1>f DEF SignedIn, Redeemed, Exchanged, Revoked, Accept, Answered, FlowOK, InFlight
  <1>2. CASE Prepared(f) \/ RequestFails(f) \/ NoCode(f)
    BY <1>2 DEF Prepared, RequestFails, NoCode, InFlight
  <1>3. CASE Login(f) \/ OidcStart(f) \/ Logout(f) \/ Sync(f)
    BY <1>3 DEF Login, OidcStart, Logout, Sync, Begin
  <1>4. ASSUME NEW state \in Flows, Callback(f, state)
        PROVE  /\ \A g \in Flows \ {f} :
                stage'[g] = stage[g] /\ kind'[g] = kind[g] /\ seen'[g] = seen[g]
               /\ stage[f] \notin Working /\ stage'[f] \notin Working /\ stage'[f] # "fetching"
               /\ untidy' = untidy /\ InFlight(f)
    BY <1>4 DEF Callback, InFlight
  <1>5. CASE Upsert(f) \/ SetSession(f) \/ ClearSession(f) \/ Settled(f)
    <2>1. io' # io
      BY <1>5 DEF Upsert, SetSession, ClearSession, Settled, Change, Unlock
    <2> QED
      BY <2>1 DEF NoData, storeVars
  <1> QED
    BY <1>1, <1>2, <1>3, <1>4, <1>5 DEF Flow, Asking, Browser

LEMMA FlowMatch ==
    ASSUME StoreTypeOK, PortalTypeOK, SessionInv, MatchInv, NEW f \in Flows,
           Flow(f) \/ Asking(f) \/ Browser(f), NoData
    PROVE  MatchInv'
  <1>1. UNCHANGED <<mem, file, writer, boot>> /\ boot = "up"
    BY DEF NoData, storeVars, files
  <1>2. /\ \A g \in Flows \ {f} :
             stage'[g] = stage[g] /\ kind'[g] = kind[g] /\ seen'[g] = seen[g]
        /\ stage[f] \notin Working /\ stage'[f] \notin Working
        /\ kind'[f] = "sync" /\ stage'[f] = "fetching" => seen'[f] = mem.session
        /\ ~ untidy' => ~ untidy /\ (InFlight(f) \/ \A g \in Flows : ~ InFlight(g))
    BY QuietFlow
  <1>3. TurnInv'
    <2>1. writer \in Flows => writer # f
      BY <1>2 DEF MatchInv, TurnInv, Working
    <2> QED
      BY <1>1, <1>2, <2>1 DEF MatchInv, TurnInv
  <1>4. ASSUME ~ untidy' PROVE TidyInv'
    <2>1. TidyInv
      BY <1>2, <1>4 DEF MatchInv
    <2>2. \A g \in Flows : (Fresh(g)' <=> Fresh(g))
                           /\ (stage'[g] \in Working <=> stage[g] \in Working)
      BY <1>2 DEF Fresh, Working
    <2>3. \A g \in Flows \ {f} : InFlight(g)' <=> InFlight(g)
      BY <1>2 DEF InFlight
    <2>4. \A g \in Flows \ {f} : ~ InFlight(g)
      BY <1>2, <1>4, <2>1 DEF TidyInv
    <2>5. \A g \in Flows : kind'[g] = "sync" /\ stage'[g] = "fetching" => seen'[g] = mem'.session
      BY <1>1, <1>2, <2>1 DEF TidyInv
    <2> QED
      BY <1>1, <2>1, <2>2, <2>3, <2>4, <2>5 DEF TidyInv, Match, Whole
  <1> QED
    BY <1>3, <1>4 DEF MatchInv

\* The four that change the data or end their save.
LEMMA LockedMatch ==
    ASSUME StoreTypeOK, SaveInv, PortalTypeOK, MatchInv, NEW f \in Flows,
           Upsert(f) \/ SetSession(f) \/ ClearSession(f) \/ Settled(f)
    PROVE  MatchInv'
  <1> USE DEF Goto, PortalTypeOK
  <1>n. None \notin Flows
    BY StoreAssumption
  <1>d. mem \in Data
    BY DEF StoreTypeOK
  <1>o. /\ \A g \in Flows \ {f} : stage'[g] = stage[g]
        /\ kind' = kind /\ file' = file /\ boot' = boot
        /\ \A g \in Flows \ {f} : seen'[g] = seen[g]
    BY DEF Upsert, SetSession, ClearSession, Settled, Change, Unlock, files
  <1>i. InFlight(f)
    <2>1. CASE Settled(f)
      BY <2>1 DEF Settled, MatchInv, TurnInv, InFlight
    <2>2. CASE Upsert(f) \/ SetSession(f) \/ ClearSession(f)
      BY <2>2 DEF Upsert, SetSession, ClearSession, InFlight
    <2> QED
      BY <2>1, <2>2
  <1>u. boot = "up" /\ \A g \in Flows : InFlight(g) => boot = "up"
    BY <1>i DEF MatchInv, TurnInv
  <1>t. TurnInv'
    <2>1. \A g \in Flows : InFlight(g)' => boot' = "up"
      BY <1>o, <1>u
    <2>2. CASE Settled(f)
      BY <1>n, <2>1, <2>2 DEF Settled, Unlock, TurnInv
    <2>3. CASE Upsert(f) \/ SetSession(f) \/ ClearSession(f)
      <3>1. writer' = f /\ stage'[f] \in {"storing", "signing", "clearing"}
        BY <2>3 DEF Upsert, SetSession, ClearSession, Change
      <3> QED
        BY <2>1, <3>1 DEF TurnInv
    <2> QED
      BY <2>2, <2>3
  <1>a. ASSUME TidyInv
        PROVE  /\ \A g \in Flows \ {f} : ~ InFlight(g) /\ ~ InFlight(g)' /\ ~ Fresh(g)'
               /\ \A g \in Flows \ {f} : stage'[g] # "fetching" /\ stage'[g] \notin Working
               /\ \A g, h \in Flows : (InFlight(g) /\ InFlight(h) => g = h)'
    <2>1. \A g \in Flows \ {f} : ~ InFlight(g)
      BY <1>a, <1>i DEF TidyInv
    <2> QED
      BY <1>o, <2>1 DEF InFlight, Fresh, Working
  <1>1. CASE Upsert(f)
    <2>1. PICK offered \in {Token(f), None} : Change(f, [mem EXCEPT !.portal = offered])
      BY <1>1 DEF Upsert
    <2>2. /\ mem'.session = mem.session /\ mem'.portal = offered
          /\ untidy' = untidy /\ stage[f] = "fetching" /\ stage'[f] = "storing"
      BY <1>1, <1>d, <2>1 DEF Upsert, Change, Data
    <2>3. ASSUME TidyInv PROVE TidyInv'
      <3>1. CASE kind[f] = "sync"
        <4>1. ~ Fresh(f)' /\ Match(mem)'
          BY <1>o, <2>1, <2>2, <2>3, <3>1 DEF Fresh, Match, TidyInv, Token
        <4> QED
          BY <1>a, <2>2, <2>3, <4>1 DEF TidyInv, Working
      <3>2. CASE kind[f] # "sync"
        <4>1. Fresh(f)' /\ mem'.portal \in {f, None}
          BY <1>o, <2>1, <2>2, <3>2 DEF Fresh, Token
        <4> QED
          BY <1>a, <1>o, <2>2, <2>3, <3>2, <4>1 DEF TidyInv, Working
      <3> QED
        BY <3>1, <3>2
    <2> QED
      BY <1>t, <2>2, <2>3 DEF MatchInv
  <1>2. CASE SetSession(f)
    <2>1. /\ mem'.session = f /\ mem'.portal = mem.portal
          /\ untidy' = untidy /\ stage[f] = "stored" /\ stage'[f] = "signing"
      BY <1>2, <1>d DEF SetSession, Change, Data
    <2>2. ASSUME TidyInv PROVE TidyInv'
      <3>1. ~ Fresh(f)' /\ Match(mem)'
        BY <2>1, <2>2 DEF Fresh, Match, TidyInv
      <3> QED
        BY <1>a, <2>1, <2>2, <3>1 DEF TidyInv, Working
    <2> QED
      BY <1>t, <2>1, <2>2 DEF MatchInv
  <1>3. CASE ClearSession(f)
    <2>1. /\ mem'.session = None
          /\ untidy' = untidy /\ stage[f] = "revoked" /\ stage'[f] = "clearing"
      BY <1>3, <1>d DEF ClearSession, Change, Data
    <2>2. ASSUME TidyInv PROVE TidyInv'
      <3>1. ~ Fresh(f)' /\ Match(mem)'
        BY <2>1 DEF Fresh, Match
      <3> QED
        BY <1>a, <2>1, <2>2, <3>1 DEF TidyInv, Working
    <2> QED
      BY <1>t, <2>1, <2>2 DEF MatchInv
  <1>4. CASE Settled(f)
    <2>1. /\ mem' = mem /\ seen' = seen /\ untidy' = (untidy \/ io = "refused")
          /\ stage'[f] = IF stage[f] = "storing" /\ kind[f] # "sync" THEN "stored" ELSE "done"
          /\ stage[f] \in {"storing", "signing", "clearing"} /\ io \in {"saved", "refused"}
      BY <1>4 DEF Settled, Unlock, MatchInv, TurnInv
    <2>2. ASSUME ~ untidy' PROVE TidyInv'
      <3>1. TidyInv /\ file.data = mem
        <4>1. ~ untidy /\ io # "refused"
          BY <2>1, <2>2, Zenon
        <4> QED
          BY <2>1, <4>1 DEF MatchInv, SaveInv
      <3>2. Fresh(f)' <=> Fresh(f)
        BY <1>o, <2>1 DEF Fresh
      <3>3. \A g \in Flows : Fresh(g)' <=> Fresh(g)
        BY <1>a, <1>o, <3>1, <3>2 DEF Fresh
      <3>4. (\A g \in Flows : ~ Fresh(g)') => Match(mem)' /\ Match(file.data)'
        BY <1>o, <2>1, <3>1, <3>3 DEF TidyInv, Match
      <3>5. stage'[f] \notin Working => \A g \in Flows : ~ Fresh(g)'
        BY <1>a, <3>1 DEF Fresh, Working
      <3>6. \A g \in Flows : Fresh(g)' => mem'.portal \in {g, None}
        BY <2>1, <3>1, <3>3 DEF TidyInv
      <3>7. stage'[f] # "fetching"
        BY <2>1
      <3> QED
        BY <1>a, <3>1, <3>4, <3>5, <3>6, <3>7 DEF TidyInv
    <2> QED
      BY <1>t, <2>2 DEF MatchInv
  <1> QED
    BY <1>1, <1>2, <1>3, <1>4

LEMMA MatchStep == LifeInv /\ SessionInv /\ MatchInv /\ [Next]_vars => MatchInv'
  <1> SUFFICES ASSUME LifeInv, SessionInv, MatchInv, [Next]_vars PROVE MatchInv'
    OBVIOUS
  <1>t. StoreTypeOK /\ SaveInv /\ PortalTypeOK
    BY DEF LifeInv, StoreInv
  <1>1. CASE Others
    BY <1>1, <1>t, OthersMatch
  <1>2. CASE Exit \/ ReportFails \/ Crash
    BY <1>2, <1>t, GoneMatch DEF Exit, ReportFails, Crash
  <1>3. ASSUME NEW f \in Flows, Flow(f) PROVE MatchInv'
    <2>1. CASE NoData
      BY <1>3, <1>t, <2>1, FlowMatch
    <2>2. CASE Upsert(f) \/ SetSession(f) \/ ClearSession(f) \/ Settled(f)
      BY <1>t, <2>2, LockedMatch
    <2> QED
      BY <1>3, <2>1, <2>2 DEF Flow, SignedIn, Redeemed, Exchanged, Prepared, RequestFails,
                              Revoked, NoCode, Answered
  <1>4. ASSUME NEW f \in Flows, Asking(f) \/ Browser(f) PROVE MatchInv'
    <2>1. NoData
      BY <1>4 DEF Asking, Login, OidcStart, Sync, Logout, Begin, Browser, Accept, Answered,
                  Callback
    <2> QED
      BY <1>4, <1>t, <2>1, FlowMatch
  <1> QED
    BY <1>1, <1>2, <1>3, <1>4 DEF Next, Others, PortalRequest, BrowserSteps, FlowSteps

LEMMA MatchInit == Init => MatchInv
  BY StoreAssumption
  DEF Init, StoreInit, PortalInit, MatchInv, TurnInv, TidyInv, InFlight, Fresh, Match,
      Default, Whole

\* While every flow had its turn and every save succeeded, the profiles of the portal are
\* those of the session, through syncs, logins, logouts and restarts (portal_flow.rs:347).
THEOREM ProfilesOfSession == Spec => []ProfilesMatchSession
  <1>1. MatchInv => ProfilesMatchSession
    BY DEF MatchInv, TidyInv, ProfilesMatchSession, InFlight, Fresh, Match
  <1> QED
    BY <1>1, LifeInvariance, SessionInvariance, MatchInit, MatchStep, PTL DEF Spec
=============================================================================
