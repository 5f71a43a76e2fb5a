---------------------------- MODULE PortalSession ----------------------------
(***************************************************************************)
(* The flows with the portal (crates/vpndaemon/src/portal_flow.rs) over    *)
(* the data of Store: password login, OIDC login through the browser,      *)
(* sync and logout.  A flow is cut at its awaits: a request to the portal, *)
(* the browser's callback, the data's lock.  The portal and the browser    *)
(* are outside (crates/vpncore/src/portal.rs is how they are asked): a     *)
(* request succeeds, fails, or meets the client's limit of 20 s, which is  *)
(* a failure too.                                                          *)
(***************************************************************************)
EXTENDS Store

CONSTANT FlowKinds   \* of "login", "oidc", "sync", "logout"

VARIABLES
    stage,    \* where each flow is; "new" before it is asked for
    kind,     \* what each flow is
    seen,     \* local: the session it read or cleared, or the state it got back
    port,     \* the flow whose listener is bound to the callback port
    out,      \* history: sessions whose end was saved
    untidy    \* history: flows overlapped, were cut off, or a save of theirs failed

portalVars == <<stage, kind, seen, port, out, untidy>>

Stages == {"new", "signIn", "discovering", "listening", "reading", "redeeming",
           "exchanging", "fetching", "storing", "stored", "signing", "revoking",
           "revoked", "clearing", "done"}

PortalTypeOK ==
    /\ stage \in [Flows -> Stages]
    /\ kind \in [Flows -> FlowKinds \cup {None}]
    /\ seen \in [Flows -> Flows \cup {None}]
    /\ port \in Flows \cup {None}
    /\ out \subseteq Flows /\ untidy \in BOOLEAN

PortalInit ==
    /\ stage = [f \in Flows |-> "new"] /\ kind = [f \in Flows |-> None]
    /\ seen = [f \in Flows |-> None]
    /\ port = None /\ out = {} /\ untidy = FALSE

InFlight(f) == stage[f] \notin {"new", "done"}

Goto(f, s) == stage' = [stage EXCEPT ![f] = s]

\* A step between two awaits that leaves the data alone.
NoData == boot = "up" /\ UNCHANGED storeVars

Begin(f, k, s) ==
    /\ stage[f] = "new" /\ k \in FlowKinds /\ NoData
    /\ Goto(f, s) /\ kind' = [kind EXCEPT ![f] = k]
    /\ untidy' = (untidy \/ \E g \in Flows : InFlight(g))
    /\ out' = out

\* portal_client_for: no flow without an address.
HasClient == mem.url # None

-----------------------------------------------------------------------------
(* Beginnings. *)

Login(f) == HasClient /\ Begin(f, "login", "signIn") /\ UNCHANGED <<seen, port>>

\* oidc_start binds the fixed callback port before it asks for anything: while one
\* login waits for its browser, another is refused.
OidcStart(f) ==
    /\ HasClient /\ port = None
    /\ Begin(f, "oidc", "discovering") /\ port' = f /\ seen' = seen

Sync(f) ==
    /\ HasClient /\ mem.session # None
    /\ Begin(f, "sync", "fetching")
    /\ seen' = [seen EXCEPT ![f] = mem.session] /\ port' = port

\* Without a session, or without a client, there is nothing to revoke.
Logout(f) ==
    /\ Begin(f, "logout", IF mem.session # None /\ HasClient THEN "revoking" ELSE "revoked")
    /\ seen' = [seen EXCEPT ![f] = mem.session] /\ port' = port

-----------------------------------------------------------------------------
(* Answers of the portal. *)

Answered(f, from, to) ==
    /\ stage[f] = from /\ NoData /\ Goto(f, to)
    /\ UNCHANGED <<kind, seen, port, out, untidy>>

SignedIn(f)  == Answered(f, "signIn", "fetching")
Redeemed(f)  == Answered(f, "redeeming", "exchanging")
Exchanged(f) == Answered(f, "exchanging", "fetching")

\* discovery; then a client is made anew for the rest, from the address of now.
Prepared(f) ==
    /\ stage[f] = "discovering" /\ NoData
    /\ IF HasClient THEN Goto(f, "listening") /\ port' = port
                    ELSE Goto(f, "done") /\ port' = None
    /\ UNCHANGED <<kind, seen, out, untidy>>

\* No connection, an error status, an answer that cannot be read, or 20 s: the flow
\* returns its error, and a listener it holds is dropped with it.
RequestFails(f) ==
    /\ stage[f] \in {"signIn", "discovering", "redeeming", "exchanging", "fetching"}
    /\ NoData /\ Goto(f, "done")
    /\ port' = IF port = f THEN None ELSE port
    /\ UNCHANGED <<kind, seen, out, untidy>>

\* A logout goes on whatever the portal says.
Revoked(f) == Answered(f, "revoking", "revoked")

-----------------------------------------------------------------------------
(* The browser: wait_callback_code accepts one connection and reads it once. *)

Accept(f) == Answered(f, "listening", "reading")

\* Mutant: the state is not compared.
MutantCallback(f, state) ==
    /\ stage[f] = "reading" /\ NoData
    /\ kind[state] = "oidc"
    /\ port' = None /\ seen' = [seen EXCEPT ![f] = state]
    /\ Goto(f, "redeeming")
    /\ UNCHANGED <<kind, out, untidy>>

\* A request with a code and a state: the flow's own, or that of an earlier login
\* whose page was still open.  The listener is dropped, and the state compared.
Callback(f, state) ==
    /\ stage[f] = "reading" /\ NoData
    /\ kind[state] = "oidc"
    /\ port' = None /\ seen' = [seen EXCEPT ![f] = state]
    /\ Goto(f, IF state = f THEN "redeeming" ELSE "done")
    /\ UNCHANGED <<kind, out, untidy>>

\* Mutant: no limit on the wait for a browser that never comes.
MutantNoCode(f) ==
    /\ stage[f] = "reading" /\ NoData
    /\ port' = None /\ Goto(f, "done")
    /\ UNCHANGED <<kind, seen, out, untidy>>

\* Any other request to the port, a reader that breaks, or five minutes.
NoCode(f) ==
    /\ stage[f] \in {"listening", "reading"} /\ NoData
    /\ port' = None /\ Goto(f, "done")
    /\ UNCHANGED <<kind, seen, out, untidy>>

-----------------------------------------------------------------------------
(* What the flows do to the data. *)

\* Whose token the profiles were fetched with: the new one, or that of the session.
Token(f) == IF kind[f] = "sync" THEN seen[f] ELSE f

\* upsert_profiles: the portal's profiles are replaced by those it offers now, and
\* are gone if it offers none.
Upsert(f) ==
    /\ stage[f] = "fetching" /\ Goto(f, "storing")
    /\ \E offered \in {Token(f), None} : Change(f, [mem EXCEPT !.portal = offered])
    /\ UNCHANGED <<acked, open, kind, seen, port, out, untidy>>

\* set_portal_session
SetSession(f) ==
    /\ stage[f] = "stored" /\ Goto(f, "signing")
    /\ Change(f, [mem EXCEPT !.session = f])
    /\ UNCHANGED <<acked, open, kind, seen, port, out, untidy>>

\* Mutant: the cleared session is not saved.
MutantClearSession(f) ==
    /\ stage[f] = "revoked" /\ Goto(f, "clearing")
    /\ boot = "up" /\ io = "rest"
    /\ mem' = [mem EXCEPT !.session = None] /\ writer' = f /\ io' = "saved"
    /\ seen' = [seen EXCEPT ![f] = mem.session]
    /\ UNCHANGED <<inUse, boot, files, minted, policyUrl, faults, base>>
    /\ UNCHANGED <<acked, open, kind, port, out, untidy>>

\* clear_portal_session clears what is there now, whatever was revoked.
ClearSession(f) ==
    /\ stage[f] = "revoked" /\ Goto(f, "clearing")
    /\ Change(f, [mem EXCEPT !.session = None])
    /\ seen' = [seen EXCEPT ![f] = mem.session]
    /\ UNCHANGED <<acked, open, kind, port, out, untidy>>

\* Mutant: a login keeps the session that is there.
MutantSettled(f) ==
    /\ writer = f /\ io \in {"saved", "refused"} /\ Unlock
    /\ Goto(f, IF stage[f] = "storing" /\ mem.session = None THEN "stored" ELSE "done")
    /\ out' = IF stage[f] = "clearing" /\ io = "saved" THEN out \cup ({seen[f]} \ {None})
              ELSE out
    /\ untidy' = (untidy \/ io = "refused")
    /\ UNCHANGED <<acked, open, kind, seen, port>>

\* The three ignore what became of the save.
Settled(f) ==
    /\ writer = f /\ io \in {"saved", "refused"} /\ Unlock
    /\ Goto(f, IF stage[f] = "storing" /\ kind[f] # "sync" THEN "stored" ELSE "done")
    /\ out' = IF stage[f] = "clearing" /\ io = "saved" THEN out \cup ({seen[f]} \ {None})
              ELSE out
    /\ untidy' = (untidy \/ io = "refused")
    /\ UNCHANGED <<acked, open, kind, seen, port>>

Flow(f) ==
    \/ SignedIn(f) \/ Redeemed(f) \/ Exchanged(f) \/ Prepared(f) \/ RequestFails(f)
    \/ Revoked(f) \/ NoCode(f)
    \/ Upsert(f) \/ SetSession(f) \/ ClearSession(f) \/ Settled(f)

Asking(f) == Login(f) \/ OidcStart(f) \/ Sync(f) \/ Logout(f)

Browser(f) == Accept(f) \/ \E state \in Flows : Callback(f, state)

\* The process is gone, and its tasks and its socket with it.
FlowsGone ==
    /\ stage' = [f \in Flows |-> IF InFlight(f) THEN "done" ELSE stage[f]]
    /\ port' = None
    /\ untidy' = (untidy \/ \E f \in Flows : InFlight(f))
    /\ UNCHANGED <<kind, seen, out>>

-----------------------------------------------------------------------------
\* A login through the browser is completed only by the page it opened: whoever is
\* past the callback, or is the session, got its own state back (portal_flow.rs:156).
OwnBrowserOnly ==
    \A f \in Flows : kind[f] = "oidc" =>
        /\ stage[f] \in {"redeeming", "exchanging", "fetching", "storing", "stored",
                         "signing"} => seen[f] = f
        /\ mem.session = f \/ mem.portal = f => seen[f] = f

\* A session whose end was saved never comes back, whatever flow is late and
\* whenever the daemon is restarted.
LogoutSticks == mem.session \notin out

\* At rest the portal's profiles are those of the session, unless flows overlapped,
\* were cut off, or one of their saves failed: then a sync may have brought the
\* profiles of a session that was replaced meanwhile.
ProfilesMatchSession ==
    (~ untidy /\ boot = "up" /\ \A f \in Flows : ~ InFlight(f)) =>
        (mem.session # None /\ mem.portal # None => mem.portal = mem.session)

\* The callback port comes free again, so that the next login can be made.
PortReleased == \A f \in Flows : (port = f) ~> (port # f)
=============================================================================
