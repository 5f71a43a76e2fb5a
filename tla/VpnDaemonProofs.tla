-------------------------- MODULE VpnDaemonProofs --------------------------
(***************************************************************************)
(* Proofs about VpnDaemon for any number of clients and profiles.          *)
(***************************************************************************)
EXTENDS VpnDaemon, TLAPS

-----------------------------------------------------------------------------
(* Type correctness. *)

LEMMA TypeInit == Init => TypeOK
  BY DaemonAssumption DEF Init, TypeOK, Down, VpnState, Status, Labels

\* What a client is told and the locals of a handler keep their types.
LEMMA ReturnType ==
    ASSUME TypeOK, NEW t \in Tasks, Return(t)
    PROVE  /\ pc' \in [Tasks -> Labels]
           /\ want' \in [Tasks -> Profiles \cup {None}]
           /\ snap' \in [Tasks -> VpnState]
           /\ signsIn' \in [Tasks -> BOOLEAN]
  <1>1. Down \in VpnState /\ "idle" \in Labels
    BY DaemonAssumption DEF Down, VpnState, Status, Labels
  <1> QED
    BY <1>1 DEF TypeOK, Return

LEMMA GotoType ==
    ASSUME TypeOK, NEW t \in Tasks, NEW l \in Labels, Goto(t, l)
    PROVE  pc' \in [Tasks -> Labels]
  BY DEF TypeOK, Goto

LEMMA SetStatusType ==
    ASSUME NEW s \in Status, NEW p \in Profiles \cup {None}, SetStatus(s, p),
           s \in {"connecting", "connected", "error"} => p \in Profiles
    PROVE  vpn' \in VpnState /\ frame' \in VpnState
  BY DaemonAssumption DEF SetStatus, VpnState

LEMMA QueueType ==
    ASSUME TypeOK, NEW t \in Tasks
    PROVE  Append(queue, t) \in Seq(Tasks) /\ (queue # << >> => Tail(queue) \in Seq(Tasks))
  BY DEF TypeOK

\* A task past the mutex is at the head of its queue, and knows its profile.
LEMMA HoldingFacts ==
    ASSUME LockInv, TunnelInv, NEW t \in Tasks, pc[t] \in Holding
    PROVE  /\ queue # << >> /\ Head(queue) = t
           /\ slot = None
           /\ pc[t] # "disconnectStopped" => want[t] \in Profiles
  BY DEF LockInv, TunnelInv, Holds, Holding

LEMMA TypeStep == TypeOK /\ LockInv /\ TunnelInv /\ [Next]_vars => TypeOK'
  <1> SUFFICES ASSUME TypeOK, LockInv, TunnelInv, [Next]_vars PROVE TypeOK'
    OBVIOUS
  <1> USE DEF TypeOK, Store, Locals
  <1>1. ASSUME NEW t \in Tasks, NEW p \in Profiles, ConnectCheck(t, p) PROVE TypeOK'
    BY <1>1, GotoType, QueueType DEF ConnectCheck, Enqueue, Labels
  <1>2. ASSUME NEW t \in Tasks, NEW p \in Profiles, DeleteProfile(t, p) PROVE TypeOK'
    BY <1>2 DEF DeleteProfile
  <1>3. ASSUME NEW t \in Tasks, NEW p \in Profiles, ImportProfile(t, p) PROVE TypeOK'
    BY <1>3 DEF ImportProfile
  <1>4. ASSUME NEW t \in Tasks, DisconnectRead(t) PROVE TypeOK'
    BY <1>4, GotoType DEF DisconnectRead, Labels, VpnState
  <1>5. ASSUME NEW t \in Tasks, StateAsk(t) PROVE TypeOK'
    BY <1>5, GotoType, QueueType DEF StateAsk, Enqueue, Labels
  <1>6. ASSUME NEW t \in Tasks, PortalFetch(t) PROVE TypeOK'
    BY <1>6, GotoType DEF PortalFetch, Labels
  <1>7. ASSUME NEW t \in Tasks, LogoutRevoke(t) PROVE TypeOK'
    BY <1>7, GotoType DEF LogoutRevoke, Labels
  <1>8. ASSUME NEW t \in Tasks, ConnectChoose(t) PROVE TypeOK'
    BY <1>8, GotoType DEF ConnectChoose, Labels
  <1>9. ASSUME NEW t \in Tasks, ConnectRefuse(t) PROVE TypeOK'
    BY <1>9, ReturnType, QueueType DEF ConnectRefuse, Release, Holds
  <1>10. ASSUME NEW t \in Tasks, ConnectAnnounce(t) PROVE TypeOK'
    BY <1>10, HoldingFacts, SetStatusType, GotoType, ReturnType, QueueType DEF ConnectAnnounce, Holding, Status, Labels, Release
  <1>11. ASSUME NEW t \in Tasks, TunnelUp(t) PROVE TypeOK'
    BY <1>11, HoldingFacts DEF TunnelUp, Holding, OwnTunnel, Tunnel
  <1>12. ASSUME NEW t \in Tasks, ConnectDone(t) PROVE TypeOK'
    BY <1>12, HoldingFacts, SetStatusType, ReturnType, QueueType DEF ConnectDone, Holding, Status, Release, OwnTunnel, Tunnel
  <1>13. ASSUME NEW t \in Tasks, StartFails(t) PROVE TypeOK'
    BY <1>13, GotoType DEF StartFails, Labels
  <1>14. ASSUME NEW t \in Tasks, StopFailed(t) PROVE TypeOK'
    BY <1>14, GotoType DEF StopFailed, Labels
  <1>15. ASSUME NEW t \in Tasks, ConnectError(t) PROVE TypeOK'
    BY <1>15, HoldingFacts, SetStatusType, ReturnType, QueueType DEF ConnectError, Holding, Status, Release
  <1>16. ASSUME NEW t \in Tasks, DisconnectAnnounce(t) PROVE TypeOK'
    BY <1>16, SetStatusType, GotoType, QueueType DEF DisconnectAnnounce, Status, Labels, Enqueue
  <1>17. ASSUME NEW t \in Tasks, DisconnectStop(t) PROVE TypeOK'
    BY <1>17, GotoType DEF DisconnectStop, Labels
  <1>18. ASSUME NEW t \in Tasks, DisconnectDone(t) PROVE TypeOK'
    <2>1. /\ vpn' \in VpnState /\ frame' \in VpnState /\ queue' \in Seq(Tasks)
          /\ UNCHANGED <<Store, requireLogin, slot, tunnels, daemon>>
      BY <1>18, HoldingFacts, SetStatusType, QueueType DEF DisconnectDone, Holding, Status, Release
    <2>2. CASE t = Main
      BY <1>18, <2>1, <2>2, GotoType DEF DisconnectDone, Labels
    <2>3. CASE t # Main
      BY <1>18, <2>1, <2>3, ReturnType DEF DisconnectDone
    <2> QED
      BY <2>2, <2>3
  <1>29. CASE ShutdownReturns
    BY <1>29, ReturnType DEF ShutdownReturns, Tasks
  <1>19. ASSUME NEW t \in Tasks, StateRead(t) PROVE TypeOK'
    BY <1>19, ReturnType, QueueType DEF StateRead, Release, Holds
  <1>20. ASSUME NEW t \in Tasks, PortalFetchFails(t) PROVE TypeOK'
    BY <1>20, ReturnType DEF PortalFetchFails
  <1>21. ASSUME NEW t \in Tasks, UpsertProfiles(t) PROVE TypeOK'
    <2>1. PICK kept \in SUBSET (profiles \cap PortalIds), new \in SUBSET (PortalIds \ minted) :
              /\ profiles' = (profiles \ PortalIds) \cup kept \cup new
              /\ minted' = minted \cup new
      BY <1>21 DEF UpsertProfiles
    <2>2. profiles' \subseteq minted' /\ minted' \subseteq Profiles
      BY <2>1, DaemonAssumption
    <2> QED
      BY <1>21, <2>2, GotoType DEF UpsertProfiles, Labels
  <1>22. ASSUME NEW t \in Tasks, UpsertReadFrame(t) PROVE TypeOK'
    BY <1>22, GotoType DEF UpsertReadFrame, Labels
  <1>23. ASSUME NEW t \in Tasks, UpsertSendFrame(t) PROVE TypeOK'
    BY <1>23, GotoType, ReturnType DEF UpsertSendFrame, Labels
  <1>24. ASSUME NEW t \in Tasks, SetPortalSession(t) PROVE TypeOK'
    BY <1>24, ReturnType DEF SetPortalSession
  <1>25. ASSUME NEW t \in Tasks, ClearPortalSession(t) PROVE TypeOK'
    BY <1>25, ReturnType DEF ClearPortalSession
  <1>26. CASE PolicyUpdate
    BY <1>26 DEF PolicyUpdate
  <1>27. CASE Exit
    BY <1>27 DEF Exit
  <1>28. CASE UNCHANGED vars
    BY <1>28 DEF vars
  <1> QED
    BY <1>1, <1>2, <1>3, <1>4, <1>5, <1>6, <1>7, <1>8, <1>9, <1>10, <1>11, <1>12, <1>13, <1>14, <1>15, <1>16, <1>17, <1>18, <1>19, <1>20, <1>21, <1>22, <1>23, <1>24, <1>25, <1>26, <1>27, <1>28, <1>29
    DEF Next, Request, Step, ConnectStep, DisconnectStep, PortalStep

-----------------------------------------------------------------------------
(* The engine mutex. *)

LEMMA LockKept ==
    ASSUME TypeOK, LockInv, UNCHANGED <<queue, pc>>
    PROVE  LockInv'
  BY DEF LockInv, Holds

LEMMA LockGoto ==
    ASSUME TypeOK, LockInv, NEW t \in Tasks, NEW l, Goto(t, l), UNCHANGED queue,
           l \in Holding => Holds(t)
    PROVE  LockInv'
  BY DEF TypeOK, LockInv, Holds, Goto

LEMMA LockReturn ==
    ASSUME TypeOK, LockInv, NEW t \in Tasks, Return(t), UNCHANGED queue
    PROVE  LockInv'
  BY DEF TypeOK, LockInv, Holds, Return, Holding

\* A task that asks for the mutex goes to the tail: the head stays.
LEMMA LockAsk ==
    ASSUME TypeOK, LockInv, NEW t \in Tasks, NEW l, Goto(t, l), Enqueue(t), l \notin Holding
    PROVE  LockInv'
  <1> SUFFICES ASSUME NEW u \in Tasks, pc'[u] \in Holding PROVE Holds(u)'
    BY DEF LockInv
  <1>1. pc[u] \in Holding
    BY DEF TypeOK, Goto
  <1>2. queue # << >> /\ Head(queue) = u
    BY <1>1 DEF LockInv, Holds
  <1> QED
    BY <1>2 DEF TypeOK, Enqueue, Holds

\* A task that releases the mutex was its only holder.
LEMMA LockRelease ==
    ASSUME TypeOK, LockInv, NEW t \in Tasks, Return(t), Release, Holds(t)
    PROVE  LockInv'
  <1> SUFFICES ASSUME NEW u \in Tasks, pc'[u] \in Holding PROVE FALSE
    BY DEF LockInv
  <1>1. u # t /\ pc[u] \in Holding
    BY DEF TypeOK, Return, Holding
  <1> QED
    BY <1>1 DEF LockInv, Holds

\* So was one that releases it and goes on.
LEMMA LockLeave ==
    ASSUME TypeOK, LockInv, NEW t \in Tasks, NEW l, Goto(t, l), l \notin Holding, Release, Holds(t)
    PROVE  LockInv'
  <1> SUFFICES ASSUME NEW u \in Tasks, pc'[u] \in Holding PROVE FALSE
    BY DEF LockInv
  <1>1. u # t /\ pc[u] \in Holding
    BY DEF TypeOK, Goto
  <1> QED
    BY <1>1 DEF LockInv, Holds

LEMMA LockStep == TypeOK /\ LockInv /\ TunnelInv /\ [Next]_vars => LockInv'
  <1> SUFFICES ASSUME TypeOK, LockInv, TunnelInv, [Next]_vars PROVE LockInv'
    OBVIOUS
  <1>1. ASSUME NEW t \in Tasks, NEW p \in Profiles, ConnectCheck(t, p) PROVE LockInv'
    BY <1>1, LockAsk DEF ConnectCheck, Holding
  <1>2. ASSUME NEW t \in Tasks, NEW p \in Profiles, DeleteProfile(t, p) PROVE LockInv'
    BY <1>2, LockKept DEF DeleteProfile
  <1>3. ASSUME NEW t \in Tasks, NEW p \in Profiles, ImportProfile(t, p) PROVE LockInv'
    BY <1>3, LockKept DEF ImportProfile
  <1>4. ASSUME NEW t \in Tasks, DisconnectRead(t) PROVE LockInv'
    BY <1>4, LockGoto DEF DisconnectRead, Holding
  <1>5. ASSUME NEW t \in Tasks, StateAsk(t) PROVE LockInv'
    BY <1>5, LockAsk DEF StateAsk, Holding
  <1>6. ASSUME NEW t \in Tasks, PortalFetch(t) PROVE LockInv'
    BY <1>6, LockGoto DEF PortalFetch, Holding
  <1>7. ASSUME NEW t \in Tasks, LogoutRevoke(t) PROVE LockInv'
    BY <1>7, LockGoto DEF LogoutRevoke, Holding
  <1>8. ASSUME NEW t \in Tasks, ConnectChoose(t) PROVE LockInv'
    BY <1>8, LockGoto DEF ConnectChoose, Holding
  <1>9. ASSUME NEW t \in Tasks, ConnectRefuse(t) PROVE LockInv'
    BY <1>9, LockRelease DEF ConnectRefuse
  <1>10. ASSUME NEW t \in Tasks, ConnectAnnounce(t) PROVE LockInv'
    BY <1>10, LockRelease, LockGoto DEF ConnectAnnounce, LockInv, Holding
  <1>11. ASSUME NEW t \in Tasks, TunnelUp(t) PROVE LockInv'
    BY <1>11, LockKept DEF TunnelUp
  <1>12. ASSUME NEW t \in Tasks, ConnectDone(t) PROVE LockInv'
    BY <1>12, LockRelease DEF ConnectDone, LockInv, Holding
  <1>13. ASSUME NEW t \in Tasks, StartFails(t) PROVE LockInv'
    BY <1>13, LockGoto DEF StartFails, LockInv, Holding
  <1>14. ASSUME NEW t \in Tasks, StopFailed(t) PROVE LockInv'
    BY <1>14, LockGoto DEF StopFailed, LockInv, Holding
  <1>15. ASSUME NEW t \in Tasks, ConnectError(t) PROVE LockInv'
    BY <1>15, LockRelease DEF ConnectError, LockInv, Holding
  <1>16. ASSUME NEW t \in Tasks, DisconnectAnnounce(t) PROVE LockInv'
    BY <1>16, LockAsk DEF DisconnectAnnounce, Holding
  <1>17. ASSUME NEW t \in Tasks, DisconnectStop(t) PROVE LockInv'
    BY <1>17, LockGoto DEF DisconnectStop, Holding
  <1>18. ASSUME NEW t \in Tasks, DisconnectDone(t) PROVE LockInv'
    BY <1>18, LockRelease, LockLeave DEF DisconnectDone, LockInv, Holding
  <1>29. CASE ShutdownReturns
    BY <1>29, LockReturn DEF ShutdownReturns, Tasks
  <1>19. ASSUME NEW t \in Tasks, StateRead(t) PROVE LockInv'
    BY <1>19, LockRelease DEF StateRead
  <1>20. ASSUME NEW t \in Tasks, PortalFetchFails(t) PROVE LockInv'
    BY <1>20, LockReturn DEF PortalFetchFails
  <1>21. ASSUME NEW t \in Tasks, UpsertProfiles(t) PROVE LockInv'
    BY <1>21, LockGoto DEF UpsertProfiles, Holding
  <1>22. ASSUME NEW t \in Tasks, UpsertReadFrame(t) PROVE LockInv'
    BY <1>22, LockGoto DEF UpsertReadFrame, Holding
  <1>23. ASSUME NEW t \in Tasks, UpsertSendFrame(t) PROVE LockInv'
    BY <1>23, LockReturn, LockGoto DEF UpsertSendFrame, Holding
  <1>24. ASSUME NEW t \in Tasks, SetPortalSession(t) PROVE LockInv'
    BY <1>24, LockReturn DEF SetPortalSession
  <1>25. ASSUME NEW t \in Tasks, ClearPortalSession(t) PROVE LockInv'
    BY <1>25, LockReturn DEF ClearPortalSession
  <1>26. CASE PolicyUpdate
    BY <1>26, LockKept DEF PolicyUpdate
  <1>27. CASE Exit
    BY <1>27, LockKept DEF Exit
  <1>28. CASE UNCHANGED vars
    BY <1>28 DEF vars, LockInv, Holds
  <1> QED
    BY <1>1, <1>2, <1>3, <1>4, <1>5, <1>6, <1>7, <1>8, <1>9, <1>10, <1>11, <1>12, <1>13, <1>14, <1>15, <1>16, <1>17, <1>18, <1>19, <1>20, <1>21, <1>22, <1>23, <1>24, <1>25, <1>26, <1>27, <1>28, <1>29
    DEF Next, Request, Step, ConnectStep, DisconnectStep, PortalStep

-----------------------------------------------------------------------------
(* Tunnels, the slot and the connect in flight. *)

\* Two tasks are never past the mutex at once.
LEMMA OneHolder ==
    ASSUME LockInv, NEW t \in Tasks, NEW u \in Tasks, pc[t] \in Holding, pc[u] \in Holding
    PROVE  t = u
  BY DEF LockInv, Holds

\* While a connect is in its start or stop, the only tunnel there can be is its own.
LEMMA OnlyOwnTunnel ==
    ASSUME TypeOK, LockInv, TunnelInv, NEW t \in Tasks, pc[t] \in {"starting", "stopping"}
    PROVE  \A x \in tunnels : x = OwnTunnel(t)
  <1> SUFFICES ASSUME NEW x \in tunnels PROVE x = OwnTunnel(t)
    OBVIOUS
  <1>1. x \in Tunnel /\ x # None
    BY DaemonAssumption DEF TypeOK, Tunnel, Tasks
  <1>2. slot = None
    BY DEF TunnelInv, Holding
  <1>3. pc[x.by] \in {"starting", "stopping"} /\ want[x.by] = x.profile /\ x.by \in Tasks
    BY <1>1, <1>2 DEF TunnelInv, Tunnel
  <1>4. x.by = t
    BY <1>3, OneHolder DEF Holding
  <1> QED
    BY <1>1, <1>3, <1>4 DEF OwnTunnel, Tunnel

LEMMA TunnelStep == TypeOK /\ LockInv /\ TunnelInv /\ [Next]_vars => TunnelInv'
  <1> SUFFICES ASSUME TypeOK, LockInv, TunnelInv, [Next]_vars PROVE TunnelInv'
    OBVIOUS
  <1> USE DEF TypeOK, LockInv, TunnelInv, Holding, Holds, Store, Locals
  <1>1. ASSUME NEW t \in Tasks, NEW p \in Profiles, ConnectCheck(t, p) PROVE TunnelInv'
    BY <1>1 DEF ConnectCheck, Starts, Goto
  <1>2. ASSUME NEW t \in Tasks, NEW p \in Profiles, DeleteProfile(t, p) PROVE TunnelInv'
    BY <1>2 DEF DeleteProfile
  <1>3. ASSUME NEW t \in Tasks, NEW p \in Profiles, ImportProfile(t, p) PROVE TunnelInv'
    BY <1>3 DEF ImportProfile
  <1>4. ASSUME NEW t \in Tasks, DisconnectRead(t) PROVE TunnelInv'
    BY <1>4 DEF DisconnectRead, Starts, Goto
  <1>5. ASSUME NEW t \in Tasks, StateAsk(t) PROVE TunnelInv'
    BY <1>5 DEF StateAsk, Starts, Goto
  <1>6. ASSUME NEW t \in Tasks, PortalFetch(t) PROVE TunnelInv'
    BY <1>6 DEF PortalFetch, Starts, Goto
  <1>7. ASSUME NEW t \in Tasks, LogoutRevoke(t) PROVE TunnelInv'
    BY <1>7 DEF LogoutRevoke, Starts, Goto
  <1>8. ASSUME NEW t \in Tasks, ConnectChoose(t) PROVE TunnelInv'
    BY <1>8 DEF ConnectChoose, Goto, MayConnect
  <1>9. ASSUME NEW t \in Tasks, ConnectRefuse(t) PROVE TunnelInv'
    BY <1>9 DEF ConnectRefuse, Return
  <1>10. ASSUME NEW t \in Tasks, ConnectAnnounce(t) PROVE TunnelInv'
    <2>1. pc[t] = "connectChosen" /\ UNCHANGED <<tunnels, slot>>
      BY <1>10 DEF ConnectAnnounce
    <2>2. CASE want[t] \in Unsupported
      <3>1. pc' = [pc EXCEPT ![t] = "idle"] /\ want' = [want EXCEPT ![t] = None]
        BY <1>10, <2>2 DEF ConnectAnnounce, Return
      <3> QED
        BY <2>1, <3>1
    <2>3. CASE want[t] \notin Unsupported
      <3>1. pc' = [pc EXCEPT ![t] = "starting"] /\ UNCHANGED want
        BY <1>10, <2>3 DEF ConnectAnnounce, Goto
      <3> QED
        BY <2>1, <3>1
    <2> QED
      BY <2>2, <2>3
  <1>11. ASSUME NEW t \in Tasks, TunnelUp(t) PROVE TunnelInv'
    BY <1>11, DaemonAssumption DEF TunnelUp, OwnTunnel
  <1>12. ASSUME NEW t \in Tasks, ConnectDone(t) PROVE TunnelInv'
    <2>1. \A x \in tunnels : x = OwnTunnel(t)
      BY <1>12, OnlyOwnTunnel DEF ConnectDone
    <2>2. \A u \in Tasks : pc'[u] \notin Holding
      BY <1>12, OneHolder DEF ConnectDone, Return
    <2> QED
      BY <1>12, <2>1, <2>2 DEF ConnectDone, Return
  <1>13. ASSUME NEW t \in Tasks, StartFails(t) PROVE TunnelInv'
    BY <1>13 DEF StartFails, Goto
  <1>14. ASSUME NEW t \in Tasks, StopFailed(t) PROVE TunnelInv'
    <2>1. tunnels' = {}
      BY <1>14, OnlyOwnTunnel DEF StopFailed
    <2> QED
      BY <1>14, <2>1 DEF StopFailed, Goto
  <1>15. ASSUME NEW t \in Tasks, ConnectError(t) PROVE TunnelInv'
    BY <1>15 DEF ConnectError, Return
  <1>16. ASSUME NEW t \in Tasks, DisconnectAnnounce(t) PROVE TunnelInv'
    BY <1>16 DEF DisconnectAnnounce, Goto
  <1>17. ASSUME NEW t \in Tasks, DisconnectStop(t) PROVE TunnelInv'
    BY <1>17, DaemonAssumption DEF DisconnectStop, Goto
  <1>18. ASSUME NEW t \in Tasks, DisconnectDone(t) PROVE TunnelInv'
    <2>1. pc[t] = "disconnectStopped" /\ UNCHANGED <<tunnels, slot>>
      BY <1>18 DEF DisconnectDone
    <2>2. CASE t = Main
      <3>1. pc' = [pc EXCEPT ![t] = "persisting"] /\ UNCHANGED want
        BY <1>18, <2>2 DEF DisconnectDone, Goto
      <3> QED
        BY <2>1, <3>1
    <2>3. CASE t # Main
      <3>1. pc' = [pc EXCEPT ![t] = "idle"] /\ want' = [want EXCEPT ![t] = None]
        BY <1>18, <2>3 DEF DisconnectDone, Return
      <3> QED
        BY <2>1, <3>1
    <2> QED
      BY <2>2, <2>3
  <1>29. CASE ShutdownReturns
    BY <1>29 DEF ShutdownReturns, Return, Tasks
  <1>19. ASSUME NEW t \in Tasks, StateRead(t) PROVE TunnelInv'
    BY <1>19 DEF StateRead, Return
  <1>20. ASSUME NEW t \in Tasks, PortalFetchFails(t) PROVE TunnelInv'
    BY <1>20 DEF PortalFetchFails, Return
  <1>21. ASSUME NEW t \in Tasks, UpsertProfiles(t) PROVE TunnelInv'
    BY <1>21 DEF UpsertProfiles, Goto
  <1>22. ASSUME NEW t \in Tasks, UpsertReadFrame(t) PROVE TunnelInv'
    BY <1>22 DEF UpsertReadFrame, Goto
  <1>23. ASSUME NEW t \in Tasks, UpsertSendFrame(t) PROVE TunnelInv'
    <2>1. pc[t] = "framed" /\ UNCHANGED <<tunnels, slot>>
      BY <1>23 DEF UpsertSendFrame
    <2>2. CASE signsIn[t]
      <3>1. pc' = [pc EXCEPT ![t] = "signingIn"] /\ UNCHANGED want
        BY <1>23, <2>2 DEF UpsertSendFrame, Goto
      <3> QED
        BY <2>1, <3>1
    <2>3. CASE ~ signsIn[t]
      <3>1. pc' = [pc EXCEPT ![t] = "idle"] /\ want' = [want EXCEPT ![t] = None]
        BY <1>23, <2>3 DEF UpsertSendFrame, Return
      <3> QED
        BY <2>1, <3>1
    <2> QED
      BY <2>2, <2>3
  <1>24. ASSUME NEW t \in Tasks, SetPortalSession(t) PROVE TunnelInv'
    BY <1>24 DEF SetPortalSession, Return
  <1>25. ASSUME NEW t \in Tasks, ClearPortalSession(t) PROVE TunnelInv'
    BY <1>25 DEF ClearPortalSession, Return
  <1>26. CASE PolicyUpdate
    BY <1>26 DEF PolicyUpdate
  <1>27. CASE Exit
    BY <1>27 DEF Exit
  <1>28. CASE UNCHANGED vars
    BY <1>28 DEF vars
  <1> QED
    BY <1>1, <1>2, <1>3, <1>4, <1>5, <1>6, <1>7, <1>8, <1>9, <1>10, <1>11, <1>12, <1>13, <1>14, <1>15, <1>16, <1>17, <1>18, <1>19, <1>20, <1>21, <1>22, <1>23, <1>24, <1>25, <1>26, <1>27, <1>28, <1>29
    DEF Next, Request, Step, ConnectStep, DisconnectStep, PortalStep

LEMMA StatusStep == TypeOK /\ LockInv /\ TunnelInv /\ StatusInv /\ [Next]_vars => StatusInv'
  <1> SUFFICES ASSUME TypeOK, LockInv, TunnelInv, StatusInv, [Next]_vars PROVE StatusInv'
    OBVIOUS
  <1> USE DEF TypeOK, LockInv, TunnelInv, StatusInv, Disconnecting, Holding, Holds, Store, Locals
  <1>1. ASSUME NEW t \in Tasks, NEW p \in Profiles, ConnectCheck(t, p) PROVE StatusInv'
    BY <1>1 DEF ConnectCheck, Starts, Goto
  <1>2. ASSUME NEW t \in Tasks, NEW p \in Profiles, DeleteProfile(t, p) PROVE StatusInv'
    BY <1>2 DEF DeleteProfile
  <1>3. ASSUME NEW t \in Tasks, NEW p \in Profiles, ImportProfile(t, p) PROVE StatusInv'
    BY <1>3 DEF ImportProfile
  <1>4. ASSUME NEW t \in Tasks, DisconnectRead(t) PROVE StatusInv'
    BY <1>4 DEF DisconnectRead, Starts, Goto
  <1>5. ASSUME NEW t \in Tasks, StateAsk(t) PROVE StatusInv'
    BY <1>5 DEF StateAsk, Starts, Goto
  <1>6. ASSUME NEW t \in Tasks, PortalFetch(t) PROVE StatusInv'
    BY <1>6 DEF PortalFetch, Starts, Goto
  <1>7. ASSUME NEW t \in Tasks, LogoutRevoke(t) PROVE StatusInv'
    BY <1>7 DEF LogoutRevoke, Starts, Goto
  <1>8. ASSUME NEW t \in Tasks, ConnectChoose(t) PROVE StatusInv'
    BY <1>8 DEF ConnectChoose, Goto, MayConnect
  <1>9. ASSUME NEW t \in Tasks, ConnectRefuse(t) PROVE StatusInv'
    BY <1>9 DEF ConnectRefuse, Return
  <1>10. ASSUME NEW t \in Tasks, ConnectAnnounce(t) PROVE StatusInv'
    BY <1>10 DEF ConnectAnnounce, Goto, Return, SetStatus
  <1>11. ASSUME NEW t \in Tasks, TunnelUp(t) PROVE StatusInv'
    BY <1>11 DEF TunnelUp, OwnTunnel
  <1>12. ASSUME NEW t \in Tasks, ConnectDone(t) PROVE StatusInv'
    <2>1. \A u \in Tasks : pc'[u] \notin Holding
      BY <1>12, OneHolder DEF ConnectDone, Return
    <2>2. slot' = OwnTunnel(t) /\ slot' # None /\ slot'.profile = vpn'.active
      BY <1>12, DaemonAssumption DEF ConnectDone, OwnTunnel, SetStatus, Tunnel, Tasks
    <2>3. vpn'.status = "connected"
      BY <1>12 DEF ConnectDone, SetStatus
    <2> QED
      BY <2>1, <2>2, <2>3
  <1>13. ASSUME NEW t \in Tasks, StartFails(t) PROVE StatusInv'
    BY <1>13 DEF StartFails, Goto
  <1>14. ASSUME NEW t \in Tasks, StopFailed(t) PROVE StatusInv'
    BY <1>14 DEF StopFailed, Goto, OwnTunnel
  <1>15. ASSUME NEW t \in Tasks, ConnectError(t) PROVE StatusInv'
    BY <1>15 DEF ConnectError, Return, SetStatus
  <1>16. ASSUME NEW t \in Tasks, DisconnectAnnounce(t) PROVE StatusInv'
    BY <1>16 DEF DisconnectAnnounce, Goto, SetStatus
  <1>17. ASSUME NEW t \in Tasks, DisconnectStop(t) PROVE StatusInv'
    BY <1>17 DEF DisconnectStop, Goto
  <1>18. ASSUME NEW t \in Tasks, DisconnectDone(t) PROVE StatusInv'
    <2>1. CASE t = Main
      BY <1>18, <2>1 DEF DisconnectDone, Goto, SetStatus
    <2>2. CASE t # Main
      BY <1>18, <2>2 DEF DisconnectDone, Return, SetStatus
    <2> QED
      BY <2>1, <2>2
  <1>29. CASE ShutdownReturns
    BY <1>29 DEF ShutdownReturns, Return, Tasks
  <1>19. ASSUME NEW t \in Tasks, StateRead(t) PROVE StatusInv'
    BY <1>19 DEF StateRead, Return
  <1>20. ASSUME NEW t \in Tasks, PortalFetchFails(t) PROVE StatusInv'
    BY <1>20 DEF PortalFetchFails, Return
  <1>21. ASSUME NEW t \in Tasks, UpsertProfiles(t) PROVE StatusInv'
    BY <1>21 DEF UpsertProfiles, Goto
  <1>22. ASSUME NEW t \in Tasks, UpsertReadFrame(t) PROVE StatusInv'
    BY <1>22 DEF UpsertReadFrame, Goto
  <1>23. ASSUME NEW t \in Tasks, UpsertSendFrame(t) PROVE StatusInv'
    BY <1>23 DEF UpsertSendFrame, Goto, Return
  <1>24. ASSUME NEW t \in Tasks, SetPortalSession(t) PROVE StatusInv'
    BY <1>24 DEF SetPortalSession, Return
  <1>25. ASSUME NEW t \in Tasks, ClearPortalSession(t) PROVE StatusInv'
    BY <1>25 DEF ClearPortalSession, Return
  <1>26. CASE PolicyUpdate
    BY <1>26 DEF PolicyUpdate
  <1>27. CASE Exit
    BY <1>27 DEF Exit
  <1>28. CASE UNCHANGED vars
    BY <1>28 DEF vars
  <1> QED
    BY <1>1, <1>2, <1>3, <1>4, <1>5, <1>6, <1>7, <1>8, <1>9, <1>10, <1>11, <1>12, <1>13, <1>14, <1>15, <1>16, <1>17, <1>18, <1>19, <1>20, <1>21, <1>22, <1>23, <1>24, <1>25, <1>26, <1>27, <1>28, <1>29
    DEF Next, Request, Step, ConnectStep, DisconnectStep, PortalStep

-----------------------------------------------------------------------------
(* The theorems. *)

LEMMA IndInit == Init => IndInv
  BY TypeInit, DaemonAssumption
  DEF Init, IndInv, LockInv, TunnelInv, StatusInv, Holding, Down

\* The inductive invariant holds throughout: types, the mutex, and the agreement of
\* tunnels, slot and status with where every handler is.
THEOREM Invariance == Spec => []IndInv
  <1>1. IndInv /\ [Next]_vars => IndInv'
    BY TypeStep, LockStep, TunnelStep, StatusStep DEF IndInv
  <1> QED
    BY <1>1, IndInit, PTL DEF Spec

\* Every variable of the daemon keeps its type.
THEOREM TypeCorrect == Spec => []TypeOK
  <1>1. IndInv => TypeOK
    BY DEF IndInv
  <1> QED
    BY <1>1, Invariance, PTL

\* No interleaving of connects, disconnects and a shutdown raises a second tunnel.
THEOREM OneTunnel == Spec => []SingleTunnel
  <1>1. IndInv => SingleTunnel
    <2> SUFFICES ASSUME IndInv, NEW a \in tunnels, NEW b \in tunnels PROVE a = b
      BY DEF SingleTunnel
    <2>1. CASE a = slot /\ b = slot
      BY <2>1
    <2>2. ASSUME NEW x \in tunnels, x # slot PROVE a = b
      <3>1. x.by \in Tasks /\ pc[x.by] \in {"starting", "stopping"}
        BY <2>2 DEF IndInv, TypeOK, TunnelInv, Tunnel
      <3> QED
        BY <3>1, OnlyOwnTunnel DEF IndInv
    <2> QED
      BY <2>1, <2>2
  <1> QED
    BY <1>1, Invariance, PTL

\* Without a connect in its start or stop, the slot's tunnel is the only one.
LEMMA OnlySlotTunnel ==
    ASSUME TypeOK, TunnelInv, \A t \in Tasks : pc[t] \notin {"starting", "stopping"}
    PROVE  tunnels = IF slot = None THEN {} ELSE {slot}
  <1>1. \A x \in tunnels : x = slot /\ x # None
    BY DaemonAssumption DEF TypeOK, TunnelInv, Tunnel, Tasks
  <1>2. slot # None => slot \in tunnels
    BY DEF TunnelInv
  <1> QED
    BY <1>1, <1>2

\* What a client reads from the status is so in the operating system.
THEOREM StatusBelievable == Spec => []StatusTruthful
  <1>1. IndInv => StatusTruthful
    <2> SUFFICES ASSUME IndInv PROVE StatusTruthful
      OBVIOUS
    <2>1. ASSUME vpn.status \in {"disconnected", "error"} PROVE tunnels = {} /\ slot = None
      BY <2>1, OnlySlotTunnel DEF IndInv, StatusInv
    <2>2. ASSUME vpn.status = "connected", slot # None
          PROVE  slot.profile = vpn.active /\ tunnels = {slot}
      BY <2>2, OnlySlotTunnel DEF IndInv, StatusInv
    <2>3. ASSUME vpn.status = "connected", slot = None
          PROVE  \E t \in Tasks : pc[t] = "disconnectStopped"
      BY <2>3 DEF IndInv, StatusInv
    <2> QED
      BY <2>1, <2>2, <2>3 DEF StatusTruthful
  <1> QED
    BY <1>1, Invariance, PTL

\* At rest, the slot, the tunnels and the status agree, and the only transitional
\* status left is the connecting of a profile without an engine.
THEOREM AgreementAtRest == Spec => []QuietAgreement
  <1>1. IndInv => QuietAgreement
    <2> SUFFICES ASSUME IndInv, queue = << >>, \A t \in Tasks : ~ Disconnecting(t)
                 PROVE  /\ slot # None <=> vpn.status = "connected"
                        /\ tunnels = IF slot = None THEN {} ELSE {slot}
                        /\ vpn.status # "disconnecting"
                        /\ vpn.status = "connecting" => vpn.active \in Unsupported
      BY DEF QuietAgreement
    <2>1. \A t \in Tasks : pc[t] \notin Holding
      BY DEF IndInv, LockInv, Holds
    <2>2. tunnels = IF slot = None THEN {} ELSE {slot}
      BY <2>1, OnlySlotTunnel DEF IndInv, Holding
    <2>3. vpn.status \in Status
      BY DEF IndInv, TypeOK, VpnState
    <2> QED
      BY <2>1, <2>2, <2>3 DEF IndInv, StatusInv, Status, Holding, Disconnecting
  <1> QED
    BY <1>1, Invariance, PTL

-----------------------------------------------------------------------------
(* Disconnect. *)

\* Whoever takes the tunnel out of the slot has the mutex until it is gone and
\* disconnected is announced, so that no tunnel is up when the mutex is given back.
THEOREM DisconnectTakesTunnelDown == Spec => DisconnectLeavesNoTunnel
  <1>1. ASSUME IndInv, [Next]_vars, NEW t \in Tasks,
               pc[t] = "disconnectStopped", pc'[t] # "disconnectStopped"
        PROVE  tunnels' = {}
    <2>1. tunnels = {}
      <3>1. slot = None /\ \A u \in Tasks : pc[u] \notin {"starting", "stopping"}
        BY <1>1, OneHolder DEF IndInv, TunnelInv, Holding
      <3> QED
        BY <1>1, <3>1, OnlySlotTunnel DEF IndInv
    <2>2. \A u \in Tasks : ~ TunnelUp(u)
      BY <1>1, OneHolder DEF TunnelUp, IndInv, Holding
    <2>3. tunnels' \subseteq tunnels
      BY <1>1, <2>2
      DEF vars, Store, Locals, Next, Request, Step, ConnectStep, DisconnectStep, PortalStep,
          PolicyUpdate, Exit, ConnectCheck, DeleteProfile, ImportProfile, DisconnectRead,
          StateAsk, PortalFetch, LogoutRevoke, ConnectChoose, ConnectRefuse,
          ConnectAnnounce, ConnectDone, StartFails, StopFailed, ConnectError,
          DisconnectAnnounce, DisconnectStop, DisconnectDone, ShutdownReturns, StateRead,
          PortalFetchFails, UpsertProfiles, UpsertReadFrame, UpsertSendFrame,
          SetPortalSession, ClearPortalSession
    <2> QED
      BY <2>1, <2>3
  <1>2. IndInv /\ [Next]_vars =>
            [\A t \in Tasks :
                pc[t] = "disconnectStopped" /\ pc'[t] # "disconnectStopped" => tunnels' = {}]_vars
    BY <1>1
  <1> QED
    BY <1>2, Invariance, PTL DEF Spec, DisconnectLeavesNoTunnel

-----------------------------------------------------------------------------
(* VpnDaemon implements TunnelPromise: every step of a handler is a step   *)
(* of the promise or leaves what the promise speaks of unchanged.          *)

\* The refinement mapping, by name.
Up    == {x.profile : x \in tunnels}
Asked == \E t \in Tasks : Disconnecting(t)

PromiseVars == <<Up, vpn.status, vpn.active, Asked>>

LEMMA PromiseInit == Init => Promise!Init
  BY DEF Init, Promise!Init, Down, Disconnecting

\* A handler's step that neither enters nor leaves the wait of a disconnect does
\* not change whether one is asked for.
LEMMA GotoAsked ==
    ASSUME TypeOK, NEW t \in Tasks, NEW l \in Labels, Goto(t, l), ~ Disconnecting(t),
           l \notin {"disconnectWait", "disconnectStopped"}
    PROVE  Asked' = Asked
  <1>1. \A u \in Tasks : Disconnecting(u)' <=> Disconnecting(u)
    BY DEF TypeOK, Goto, Disconnecting
  <1> QED
    BY <1>1 DEF Asked

LEMMA ReturnAsked ==
    ASSUME TypeOK, NEW t \in Tasks, Return(t), ~ Disconnecting(t)
    PROVE  Asked' = Asked
  <1>1. \A u \in Tasks : Disconnecting(u)' <=> Disconnecting(u)
    BY DEF TypeOK, Return, Disconnecting
  <1> QED
    BY <1>1 DEF Asked

LEMMA KeptAsked == ASSUME UNCHANGED pc PROVE Asked' = Asked
  BY DEF Asked, Disconnecting

\* If that step touches neither the tunnels nor the status it is a stutter.
LEMMA Stutter ==
    ASSUME Asked' = Asked, UNCHANGED <<vpn, tunnels>>
    PROVE  UNCHANGED Promise!vars
  BY DEF Promise!vars, Asked

LEMMA PromiseStep ==
    ASSUME IndInv, [Next]_vars
    PROVE  Promise!Next \/ UNCHANGED Promise!vars
  <1> USE DEF IndInv
  <1>1. ASSUME NEW t \in Tasks, NEW p \in Profiles, ConnectCheck(t, p)
        PROVE  Promise!Next \/ UNCHANGED Promise!vars
    BY <1>1, GotoAsked, Stutter DEF ConnectCheck, Starts, Disconnecting, Labels
  <1>2. ASSUME NEW t \in Tasks, NEW p \in Profiles, DeleteProfile(t, p)
        PROVE  Promise!Next \/ UNCHANGED Promise!vars
    BY <1>2, KeptAsked, Stutter DEF DeleteProfile
  <1>3. ASSUME NEW t \in Tasks, NEW p \in Profiles, ImportProfile(t, p)
        PROVE  Promise!Next \/ UNCHANGED Promise!vars
    BY <1>3, KeptAsked, Stutter DEF ImportProfile
  <1>4. ASSUME NEW t \in Tasks, DisconnectRead(t)
        PROVE  Promise!Next \/ UNCHANGED Promise!vars
    BY <1>4, GotoAsked, Stutter DEF DisconnectRead, Starts, Disconnecting, Labels
  <1>5. ASSUME NEW t \in Tasks, StateAsk(t)
        PROVE  Promise!Next \/ UNCHANGED Promise!vars
    BY <1>5, GotoAsked, Stutter DEF StateAsk, Starts, Disconnecting, Labels
  <1>6. ASSUME NEW t \in Tasks, PortalFetch(t)
        PROVE  Promise!Next \/ UNCHANGED Promise!vars
    BY <1>6, GotoAsked, Stutter DEF PortalFetch, Starts, Disconnecting, Labels
  <1>7. ASSUME NEW t \in Tasks, LogoutRevoke(t)
        PROVE  Promise!Next \/ UNCHANGED Promise!vars
    BY <1>7, GotoAsked, Stutter DEF LogoutRevoke, Starts, Disconnecting, Labels
  <1>8. ASSUME NEW t \in Tasks, ConnectChoose(t)
        PROVE  Promise!Next \/ UNCHANGED Promise!vars
    BY <1>8, GotoAsked, Stutter DEF ConnectChoose, Disconnecting, Labels
  <1>9. ASSUME NEW t \in Tasks, ConnectRefuse(t)
        PROVE  Promise!Next \/ UNCHANGED Promise!vars
    BY <1>9, ReturnAsked, Stutter DEF ConnectRefuse, Disconnecting
  <1>10. ASSUME NEW t \in Tasks, ConnectAnnounce(t)
        PROVE  Promise!Next \/ UNCHANGED Promise!vars
    <2>1. Asked' = Asked
      BY <1>10, GotoAsked, ReturnAsked DEF ConnectAnnounce, Disconnecting, Labels
    <2>2. Up = {} /\ UNCHANGED Up
      BY <1>10, HoldingFacts, OneHolder, OnlySlotTunnel DEF ConnectAnnounce, Holding, Up
    <2>3. want[t] \in Profiles /\ Promise!Announce("connecting", want[t])
      BY <1>10, HoldingFacts DEF ConnectAnnounce, SetStatus, Promise!Announce, Holding
    <2>4. Promise!Begin(want[t])
      BY <2>1, <2>2, <2>3 DEF Promise!Begin, Up, Asked
    <2> QED
      BY <2>3, <2>4 DEF Promise!Next
  <1>11. ASSUME NEW t \in Tasks, TunnelUp(t)
        PROVE  Promise!Next \/ UNCHANGED Promise!vars
    <2>1. Asked' = Asked
      BY <1>11, KeptAsked DEF TunnelUp
    <2>2. PICK p \in Profiles : p = want[t]
      BY <1>11, HoldingFacts DEF TunnelUp, Holding
    <2>3. tunnels = {}
      BY <1>11, OnlyOwnTunnel DEF TunnelUp
    <2>4. Up = {} /\ Up' = {p}
      BY <1>11, <2>2, <2>3 DEF TunnelUp, Up, OwnTunnel
    <2>5. Promise!Attempted /\ UNCHANGED vpn
      BY <1>11 DEF TunnelUp, Promise!Attempted, StatusInv, TypeOK, VpnState, Status
    <2>6. Promise!Raise(p)
      BY <2>1, <2>4, <2>5 DEF Promise!Raise, Up, Asked
    <2> QED
      BY <2>6 DEF Promise!Next
  <1>12. ASSUME NEW t \in Tasks, ConnectDone(t)
        PROVE  Promise!Next \/ UNCHANGED Promise!vars
    <2>1. Asked' = Asked
      BY <1>12, ReturnAsked DEF ConnectDone, Disconnecting
    <2>2. tunnels = {OwnTunnel(t)} /\ want[t] \in Profiles
      BY <1>12, OnlyOwnTunnel, HoldingFacts DEF ConnectDone, Holding
    <2>3. Up = {want[t]} /\ UNCHANGED Up
      BY <1>12, <2>2 DEF ConnectDone, Up, OwnTunnel
    <2>4. Promise!Attempted
      BY <1>12 DEF ConnectDone, Promise!Attempted, StatusInv, TypeOK, VpnState, Status
    <2>5. Promise!Announce("connected", want[t])
      BY <1>12 DEF ConnectDone, SetStatus, Promise!Announce
    <2>6. Promise!Succeed(want[t])
      BY <2>1, <2>3, <2>4, <2>5 DEF Promise!Succeed, Up, Asked
    <2> QED
      BY <2>2, <2>6 DEF Promise!Next
  <1>13. ASSUME NEW t \in Tasks, StartFails(t)
        PROVE  Promise!Next \/ UNCHANGED Promise!vars
    BY <1>13, GotoAsked, Stutter DEF StartFails, Disconnecting, Labels
  <1>14. ASSUME NEW t \in Tasks, StopFailed(t)
        PROVE  Promise!Next \/ UNCHANGED Promise!vars
    <2>1. Asked' = Asked
      BY <1>14, GotoAsked DEF StopFailed, Disconnecting, Labels
    <2>2. Up' = {}
      BY <1>14, OnlyOwnTunnel DEF StopFailed, Up
    <2>3. vpn.status # "connected" /\ UNCHANGED vpn
      BY <1>14 DEF StopFailed, StatusInv
    <2>4. Promise!Lower
      BY <2>1, <2>2, <2>3 DEF Promise!Lower, Up, Asked
    <2> QED
      BY <2>4 DEF Promise!Next
  <1>15. ASSUME NEW t \in Tasks, ConnectError(t)
        PROVE  Promise!Next \/ UNCHANGED Promise!vars
    <2>1. Asked' = Asked
      BY <1>15, ReturnAsked DEF ConnectError, Disconnecting
    <2>2. Up = {} /\ UNCHANGED Up /\ want[t] \in Profiles
      BY <1>15, HoldingFacts, OneHolder, OnlySlotTunnel DEF ConnectError, Holding, Up
    <2>3. Promise!Attempted
      BY <1>15 DEF ConnectError, Promise!Attempted, StatusInv, TypeOK, VpnState, Status
    <2>4. Promise!Announce("error", want[t])
      BY <1>15 DEF ConnectError, SetStatus, Promise!Announce
    <2>5. Promise!Fail(want[t])
      BY <2>1, <2>2, <2>3, <2>4 DEF Promise!Fail, Up, Asked
    <2> QED
      BY <2>2, <2>5 DEF Promise!Next
  <1>16. ASSUME NEW t \in Tasks, DisconnectAnnounce(t)
        PROVE  Promise!Next \/ UNCHANGED Promise!vars
    <2>1. pc'[t] = "disconnectWait"
      BY <1>16 DEF DisconnectAnnounce, Goto, TypeOK
    <2>2. Asked'
      BY <2>1 DEF Asked, Disconnecting
    <2>3. want[t] \in Profiles \cup {None} /\ Promise!Announce("disconnecting", want[t])
      BY <1>16 DEF DisconnectAnnounce, SetStatus, Promise!Announce, TypeOK
    <2>4. UNCHANGED Up
      BY <1>16 DEF DisconnectAnnounce, Up
    <2>5. Promise!Ask(want[t])
      BY <2>2, <2>3, <2>4 DEF Promise!Ask, Up, Asked
    <2> QED
      BY <2>3, <2>5 DEF Promise!Next
  <1>17. ASSUME NEW t \in Tasks, DisconnectStop(t)
        PROVE  Promise!Next \/ UNCHANGED Promise!vars
    <2>1. pc'[t] = "disconnectStopped" /\ pc[t] = "disconnectWait"
      BY <1>17 DEF DisconnectStop, Goto, TypeOK
    <2>2. Asked /\ Asked'
      BY <2>1 DEF Asked, Disconnecting
    <2>3. \A u \in Tasks : pc[u] \notin Holding
      BY <1>17 DEF DisconnectStop, LockInv, Holds, Holding
    <2>4. tunnels \subseteq {slot}
      BY <2>3, OnlySlotTunnel DEF Holding
    <2>5. Up' = {} /\ UNCHANGED vpn
      BY <1>17, <2>4 DEF DisconnectStop, Up
    <2>6. Promise!Lower
      BY <2>2, <2>5 DEF Promise!Lower, Up, Asked
    <2> QED
      BY <2>6 DEF Promise!Next
  <1>18. ASSUME NEW t \in Tasks, DisconnectDone(t)
        PROVE  Promise!Next \/ UNCHANGED Promise!vars
    <2>1. Asked
      BY <1>18 DEF DisconnectDone, Asked, Disconnecting
    <2>2. slot = None /\ \A u \in Tasks : pc[u] \notin {"starting", "stopping"}
      BY <1>18, OneHolder DEF DisconnectDone, TunnelInv, Holding
    <2>3. Up = {} /\ UNCHANGED Up
      BY <1>18, <2>2, OnlySlotTunnel DEF DisconnectDone, Up
    <2>4. Promise!Announce("disconnected", None)
      BY <1>18 DEF DisconnectDone, SetStatus, Promise!Announce
    <2>5. Asked' \in BOOLEAN
      BY DEF Asked
    <2>6. Promise!Stopped
      BY <2>1, <2>3, <2>4, <2>5 DEF Promise!Stopped, Up, Asked
    <2> QED
      BY <2>6 DEF Promise!Next
  <1>29. CASE ShutdownReturns
    BY <1>29, ReturnAsked, Stutter DEF ShutdownReturns, Disconnecting, Tasks
  <1>19. ASSUME NEW t \in Tasks, StateRead(t)
        PROVE  Promise!Next \/ UNCHANGED Promise!vars
    BY <1>19, ReturnAsked, Stutter DEF StateRead, Disconnecting
  <1>20. ASSUME NEW t \in Tasks, PortalFetchFails(t)
        PROVE  Promise!Next \/ UNCHANGED Promise!vars
    BY <1>20, ReturnAsked, Stutter DEF PortalFetchFails, Disconnecting
  <1>21. ASSUME NEW t \in Tasks, UpsertProfiles(t)
        PROVE  Promise!Next \/ UNCHANGED Promise!vars
    BY <1>21, GotoAsked, Stutter DEF UpsertProfiles, Disconnecting, Labels
  <1>22. ASSUME NEW t \in Tasks, UpsertReadFrame(t)
        PROVE  Promise!Next \/ UNCHANGED Promise!vars
    BY <1>22, GotoAsked, Stutter DEF UpsertReadFrame, Disconnecting, Labels
  <1>23. ASSUME NEW t \in Tasks, UpsertSendFrame(t)
        PROVE  Promise!Next \/ UNCHANGED Promise!vars
    BY <1>23, ReturnAsked, GotoAsked, Stutter DEF UpsertSendFrame, Disconnecting, Labels
  <1>24. ASSUME NEW t \in Tasks, SetPortalSession(t)
        PROVE  Promise!Next \/ UNCHANGED Promise!vars
    BY <1>24, ReturnAsked, Stutter DEF SetPortalSession, Disconnecting
  <1>25. ASSUME NEW t \in Tasks, ClearPortalSession(t)
        PROVE  Promise!Next \/ UNCHANGED Promise!vars
    BY <1>25, ReturnAsked, Stutter DEF ClearPortalSession, Disconnecting
  <1>26. CASE PolicyUpdate
    BY <1>26, KeptAsked, Stutter DEF PolicyUpdate
  <1>27. CASE Exit
    BY <1>27, KeptAsked, Stutter DEF Exit
  <1>28. CASE UNCHANGED vars
    BY <1>28, KeptAsked, Stutter DEF vars
  <1> QED
    BY <1>1, <1>2, <1>3, <1>4, <1>5, <1>6, <1>7, <1>8, <1>9, <1>10, <1>11, <1>12, <1>13, <1>14, <1>15, <1>16, <1>17, <1>18, <1>19, <1>20, <1>21, <1>22, <1>23, <1>24, <1>25, <1>26, <1>27, <1>28, <1>29
    DEF Next, Request, Step, ConnectStep, DisconnectStep, PortalStep

\* What clients see of any number of overlapping handlers is one tunnel that is
\* raised, reported and lowered in turn.
THEOREM Refinement == Spec => PromiseKept
  <1>1. IndInv /\ [Next]_vars => [Promise!Next]_(Promise!vars)
    BY PromiseStep
  <1> QED
    BY <1>1, PromiseInit, Invariance, PTL DEF Spec, PromiseKept, Promise!Spec
=============================================================================
