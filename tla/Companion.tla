----------------------------- MODULE Companion -----------------------------
(***************************************************************************)
(* The authority half of the Firefox companion (companion/background.js):  *)
(* consent, live binding, control machine, pending origin changes, and the *)
(* handlers that change them: popup messages, browser events, native-host  *)
(* connection events, the authority tick, restarts, and the agent's        *)
(* control operations.                                                     *)
(*                                                                         *)
(* JavaScript runs a handler up to its next await without interruption, so *)
(* one action is one such segment.  A handler that awaits the browser is a *)
(* "call" with three segments: start, a tabs.get that reads the tab as it  *)
(* is at that moment, and a commit that uses what was read.  Everything    *)
(* else may run between two segments.                                      *)
(*                                                                         *)
(* Abstracted: grant revisions, scope summaries, attention, agent presence *)
(* and asset caches; the set of recently seen audiences (any audience may  *)
(* be chosen); tab groups; the clock, of which only the verdict on the     *)
(* consent's deadline is kept.  Consent persistence is immediate here.     *)
(***************************************************************************)
EXTENDS ControlPolicy, FiniteSets

CONSTANTS
    Actions,       \* what a grant can allow; "inspect" is the floor
    Calls,         \* asynchronous handlers that may be in flight at once
    MaxGeneration, \* bound: no user, agent or host action at this claim generation
    MaxId,         \* bound: bindings and grants created
    MaxRuns,       \* bound: native host processes started
    MaxEvents      \* bound: tab events the browser may have waiting

ASSUME CompanionAssumption ==
    /\ {"inspect", "interact"} \subseteq Actions
    /\ MaxGeneration \in Nat /\ MaxId \in Nat /\ MaxRuns \in Nat /\ MaxEvents \in Nat

VARIABLES
    auth,      \* consent, binding, control, pending origin changes, id supply
    host,      \* the native host this companion is connected to
    site,      \* what each browser tab shows now (the browser's own state)
    events,    \* tab events the browser has sent and the companion not handled
    switching, \* a tab/window switch noticed, its tabs.get not answered
    call       \* the asynchronous handlers in flight

vars == <<auth, host, site, events, switching, call>>

-----------------------------------------------------------------------------
Sites     == Origins \cup {"restricted", "closed"}
OpenSites == Origins \cup {"restricted"}
Scopes    == [Tabs -> Origins \cup {"restricted", "unshared"}]
NoScope   == [t \in Tabs |-> "unshared"]

Consents ==
    [mode : {"none", "session", "fixed"}, grant : Nat,
     audience : Audiences \cup {NoAudience}, actions : SUBSET Actions,
     background : BOOLEAN,                      \* controlMode = "background"
     deadline : {"ahead", "passed", "untrusted"}]

NoConsent == [mode |-> "none", grant |-> 0, audience |-> NoAudience,
              actions |-> {}, background |-> FALSE, deadline |-> "ahead"]

Bindings ==
    [instance : Nat, grant : Nat, session : Nat,
     audience : Audiences \cup {NoAudience}, actions : SUBSET Actions,
     background : BOOLEAN, scope : Scopes]

NoBinding == [instance |-> 0, grant |-> 0, session |-> 0, audience |-> NoAudience,
              actions |-> {}, background |-> FALSE, scope |-> NoScope]

Pendings   == [Tabs -> OpenSites \cup {"none"}]
NonePending == [t \in Tabs |-> "none"]

Auths == [consent : Consents, binding : Bindings, control : Controls,
          pending : Pendings, lastId : Nat]

Hosts == [session : Nat, protocolOk : BOOLEAN, runs : Nat]

CallKinds == {"idle", "grant", "confirm", "add", "claim"}

CallRecords ==
    [kind : CallKinds, rebinding : BOOLEAN, mode : {"none", "session", "fixed"},
     audience : Audiences \cup {NoAudience}, actions : SUBSET Actions,
     background : BOOLEAN,
     todo : SUBSET Tabs, read : [Tabs -> Sites \cup {"unshared"}]]

\* A handler that looks one tab up.
TabCall(kind, audience, t) ==
    [kind |-> kind, rebinding |-> FALSE, mode |-> "none", audience |-> audience,
     actions |-> {}, background |-> FALSE, todo |-> {t}, read |-> NoScope]

IdleCall ==
    [kind |-> "idle", rebinding |-> FALSE, mode |-> "none", audience |-> NoAudience,
     actions |-> {}, background |-> FALSE, todo |-> {}, read |-> NoScope]

Granted(a)       == a.consent.mode # "none"
Bound(a)         == a.binding.instance # 0
Shared(a)        == {t \in Tabs : a.binding.scope[t] # "unshared"}
ClaimedHere(a, t) == a.control.state = "agent_claimed" /\ a.control.claimedTab = t

TypeOK ==
    /\ auth \in Auths
    /\ host \in Hosts
    /\ site \in [Tabs -> Sites]
    /\ events \subseteq Tabs \X Sites
    /\ switching \in BOOLEAN
    /\ call \in [Calls -> CallRecords]

-----------------------------------------------------------------------------
(* The shared helpers, as functions from an authority state to the next.   *)

EndAuthority(a) ==
    [consent |-> NoConsent, binding |-> NoBinding, control |-> Revoke(a.control),
     pending |-> NonePending, lastId |-> a.lastId]

DropBinding(a) ==
    IF a.consent.mode = "fixed" /\ a.consent.deadline # "passed"
    THEN [consent |-> a.consent, binding |-> NoBinding,
          control |-> RebindRequired(a.control), pending |-> NonePending, lastId |-> a.lastId]
    ELSE EndAuthority(a)

HostReady(h) == h.session # 0 /\ h.protocolOk

\* Mutant: a binding made for an earlier host process survives a reconnect.
EnsureAuthorityCurrent_AnyHost(a, h) ==
    CASE ~Granted(a)                       -> a
      [] a.consent.deadline = "passed"     -> EndAuthority(a)
      [] a.consent.deadline = "untrusted"  -> DropBinding(a)
      [] OTHER -> IF Bound(a) /\ ~HostReady(h) THEN DropBinding(a) ELSE a

\* Mutant: the deadline is looked at only when a clock regression was excluded.
EnsureAuthorityCurrent_NoDeadline(a, h) ==
    CASE ~Granted(a)                       -> a
      [] a.consent.deadline = "untrusted"  -> DropBinding(a)
      [] OTHER ->
           IF Bound(a) /\ (~HostReady(h) \/ a.binding.session # h.session)
           THEN DropBinding(a) ELSE a

\* Mutant: a consent that waits for a rebind is never checked.
EnsureAuthorityCurrent_BoundOnly(a, h) ==
    CASE ~Bound(a)                         -> a
      [] a.consent.deadline = "passed"     -> EndAuthority(a)
      [] a.consent.deadline = "untrusted"  -> DropBinding(a)
      [] OTHER ->
           IF ~HostReady(h) \/ a.binding.session # h.session THEN DropBinding(a) ELSE a

\* Normalises authority against deadline, clock and host before anything uses it.
EnsureAuthorityCurrent(a, h) ==
    CASE ~Granted(a)                       -> a
      [] a.consent.deadline = "passed"     -> EndAuthority(a)
      [] a.consent.deadline = "untrusted"  -> DropBinding(a)
      [] OTHER ->
           IF Bound(a) /\ (~HostReady(h) \/ a.binding.session # h.session)
           THEN DropBinding(a) ELSE a

\* Mutant: the last shared tab leaves and the authority stays.
RemoveTabFromScope_KeepEmpty(a, t) ==
    IF ~Bound(a) THEN a
    ELSE [a EXCEPT !.binding.scope[t] = "unshared", !.pending[t] = "none",
                   !.control = ContextGone(a.control, t)]

\* Mutant: the claim on a removed tab is not ended.
RemoveTabFromScope_KeepClaim(a, t) ==
    LET b == [a EXCEPT !.binding.scope[t] = "unshared", !.pending[t] = "none"]
    IN  IF ~Bound(a) THEN a
        ELSE IF Shared(b) = {} THEN EndAuthority(b) ELSE b

RemoveTabFromScope(a, t) ==
    LET b == [a EXCEPT !.binding.scope[t] = "unshared", !.pending[t] = "none",
                       !.control = ContextGone(a.control, t)]
    IN  IF ~Bound(a) THEN a
        ELSE IF Shared(b) = {} THEN EndAuthority(b) ELSE b

ApplyControl(a, c) == [a EXCEPT !.control = c]

Current == EnsureAuthorityCurrent(auth, host)

MayAct == auth.control.claimGeneration < MaxGeneration

-----------------------------------------------------------------------------
(* Popup: grant.  The tabs the user picked are looked up one by one.       *)

GrantStart(p, a, mode, acts, bg, picked, confirmClock) ==
    LET rebinding == Granted(Current) /\ ~Bound(Current)
    IN  /\ call[p].kind = "idle"
        /\ HostReady(host)
        /\ ~(Granted(Current) /\ Bound(Current))
        /\ rebinding <=> mode = "none"   \* a rebind message names no duration
        /\ rebinding => ~bg              \* and no control mode
        /\ (rebinding /\ Current.consent.deadline = "untrusted") => confirmClock
        /\ picked # {}
        /\ auth' = Current
        /\ call' = [call EXCEPT ![p] =
               [kind |-> "grant", rebinding |-> rebinding, mode |-> mode, audience |-> a,
                actions |-> acts \cup {"inspect"}, background |-> bg,
                todo |-> picked, read |-> NoScope]]
        /\ UNCHANGED <<host, site, events, switching>>

\* buildConsent: a rebind keeps the grant, the deadline and the control mode.
BuildConsent(a, c) ==
    IF c.rebinding
    THEN [a.consent EXCEPT !.audience = c.audience, !.actions = c.actions,
                           !.deadline = IF @ = "untrusted" THEN "ahead" ELSE @]
    ELSE [mode |-> c.mode, grant |-> a.lastId + 1, audience |-> c.audience,
          actions |-> c.actions, background |-> c.background, deadline |-> "ahead"]

ReadScope(c) == [t \in Tabs |-> IF c.read[t] \in Origins THEN c.read[t] ELSE "unshared"]

BindTo(a, h, c) ==
    LET consent == BuildConsent(a, c) IN
    [consent |-> consent,
     binding |-> [instance |-> a.lastId + 1, grant |-> consent.grant,
                  session |-> h.session, audience |-> c.audience,
                  actions |-> consent.actions, background |-> consent.background,
                  scope |-> ReadScope(c)],
     control |-> Grant(a.control),
     pending |-> NonePending,
     lastId |-> a.lastId + 1]

\* A grant of no web page fails; a rebind whose consent is gone throws.
Shareable(a, c) == ReadScope(c) # NoScope /\ (c.rebinding => Granted(a))

GrantCommit(p) ==
    /\ call[p].kind = "grant" /\ call[p].todo = {}
    /\ call' = [call EXCEPT ![p] = IdleCall]
    /\ auth' = IF Shareable(auth, call[p]) THEN BindTo(auth, host, call[p]) ELSE auth
    /\ UNCHANGED <<host, site, events, switching>>

-----------------------------------------------------------------------------
(* Popup: confirm a new origin; add a tab; the segments that read a tab.   *)

ConfirmStart(p, t) ==
    /\ call[p].kind = "idle"
    /\ Bound(auth) /\ auth.pending[t] # "none"
    /\ call' = [call EXCEPT ![p] = TabCall("confirm", NoAudience, t)]
    /\ UNCHANGED <<auth, host, site, events, switching>>

AddStart(p, t) ==
    /\ call[p].kind = "idle"
    /\ Bound(Current)
    /\ auth' = Current
    /\ call' = [call EXCEPT ![p] = TabCall("add", NoAudience, t)]
    /\ UNCHANGED <<host, site, events, switching>>

\* tabs.get (with windows.get): the call learns what the tab shows now.
ReadTab(p, t) ==
    /\ t \in call[p].todo
    /\ call' = [call EXCEPT ![p].todo = @ \ {t}, ![p].read[t] = site[t]]
    /\ UNCHANGED <<auth, host, site, events, switching>>

\* The tab a finished single-tab call looked up.
ReadTabs(c) == {t \in Tabs : c.read[t] # "unshared"}

\* The lookup's result is written to whatever binding is live now.
ConfirmOrigin(a, t, shows) ==
    IF Bound(a) /\ shows \in Origins
    THEN [a EXCEPT !.binding.scope[t] = shows, !.pending[t] = "none"] ELSE a

ConfirmCommit(p) ==
    /\ call[p].kind = "confirm" /\ call[p].todo = {}
    /\ call' = [call EXCEPT ![p] = IdleCall]
    /\ \E t \in ReadTabs(call[p]) : auth' = ConfirmOrigin(auth, t, call[p].read[t])
    /\ UNCHANGED <<host, site, events, switching>>

\* Mutant: a tab that is not a web page (any more) is added.
AddCommit_AnyPage(p) ==
    LET c == call[p] IN
    /\ c.kind = "add" /\ c.todo = {}
    /\ call' = [call EXCEPT ![p] = IdleCall]
    /\ \E t \in ReadTabs(c) :
          IF Bound(auth) /\ auth.binding.scope[t] = "unshared"
          THEN auth' = [auth EXCEPT !.binding.scope[t] = c.read[t]]
          ELSE UNCHANGED auth
    /\ UNCHANGED <<host, site, events, switching>>

AddCommit(p) ==
    LET c == call[p] IN
    /\ c.kind = "add" /\ c.todo = {}
    /\ call' = [call EXCEPT ![p] = IdleCall]
    /\ \E t \in ReadTabs(c) :
          IF Bound(auth) /\ c.read[t] \in Origins /\ auth.binding.scope[t] = "unshared"
          THEN auth' = [auth EXCEPT !.binding.scope[t] = c.read[t]]
          ELSE UNCHANGED auth
    /\ UNCHANGED <<host, site, events, switching>>

-----------------------------------------------------------------------------
(* Popup: handlers that finish in one segment.                             *)

\* The shrunk binding has an identity of its own.
Narrowed(b, instance, keep, acts, bg) ==
    [instance |-> instance, grant |-> b.grant, session |-> b.session,
     audience |-> b.audience, actions |-> acts, background |-> bg,
     scope |-> [t \in Tabs |-> IF t \in keep THEN b.scope[t] ELSE "unshared"]]

\* keep and acts are subsets of what is shared; background may only be given up.
ManageAccess(keep, acts, bg) ==
    LET a == Current IN
    /\ Bound(a)
    /\ keep \subseteq Shared(a)
    /\ acts \subseteq a.binding.actions /\ "inspect" \in acts
    /\ bg => a.binding.background
    /\ auth' =
         IF keep = {} THEN EndAuthority(a)
         ELSE IF keep = Shared(a) /\ acts = a.binding.actions /\ bg = a.binding.background
         THEN a
         ELSE [consent |-> [a.consent EXCEPT !.actions = acts, !.background = bg],
               binding |-> Narrowed(a.binding, a.lastId + 1, keep, acts, bg),
               control |-> ScopeReduced(a.control),
               pending |-> NonePending,
               lastId |-> a.lastId + 1]
    /\ UNCHANGED <<host, site, events, switching, call>>

ExcludeTab(t) ==
    /\ Bound(auth)
    /\ auth' = RemoveTabFromScope(auth, t)
    /\ UNCHANGED <<host, site, events, switching, call>>

RevokeByUser ==
    /\ auth' = EndAuthority(auth)
    /\ UNCHANGED <<host, site, events, switching, call>>

UserTakeover ==
    /\ HasAccess(auth.control)
    /\ auth' = ApplyControl(auth, Takeover(auth.control))
    /\ UNCHANGED <<host, site, events, switching, call>>

UserResume ==
    /\ auth.control.state = "user_control"
    /\ auth' = ApplyControl(auth, Resume(auth.control))
    /\ UNCHANGED <<host, site, events, switching, call>>

-----------------------------------------------------------------------------
(* The browser: the user moves tabs on, the companion hears of it later.   *)

Navigate(t, s) ==
    /\ site[t] \in OpenSites
    /\ s \in OpenSites
    /\ site' = [site EXCEPT ![t] = s]
    /\ events' = events \cup {<<t, s>>}
    /\ UNCHANGED <<auth, host, switching, call>>

CloseTab(t) ==
    /\ site[t] \in OpenSites
    /\ site' = [site EXCEPT ![t] = "closed"]
    /\ events' = events \cup {<<t, "closed">>}
    /\ UNCHANGED <<auth, host, switching, call>>

\* A navigation soon after an agent mutation is attributed to the agent.
UrlChanged(t, s, byAgent) ==
    /\ <<t, s>> \in events /\ s # "closed"
    /\ events' = events \ {<<t, s>>}
    /\ auth' =
         IF auth.binding.scope[t] = "unshared" THEN auth
         ELSE IF auth.binding.scope[t] # s
         THEN [auth EXCEPT !.pending[t] = s,
                 !.control = IF ClaimedHere(auth, t) THEN Takeover(@) ELSE @]
         ELSE [auth EXCEPT
                 !.control = IF /\ ClaimedHere(auth, t)
                                /\ ~auth.binding.background /\ ~byAgent
                             THEN Takeover(@) ELSE @]
    /\ UNCHANGED <<host, site, switching, call>>

TabRemoved(t) ==
    /\ <<t, "closed">> \in events
    /\ events' = events \ {<<t, "closed">>}
    /\ auth' = IF auth.binding.scope[t] # "unshared" THEN RemoveTabFromScope(auth, t) ELSE auth
    /\ UNCHANGED <<host, site, switching, call>>

\* A trusted gesture reported by the content script of the claimed tab.
UserGesture(t) ==
    /\ ClaimedHere(auth, t) /\ ~auth.binding.background
    /\ auth' = ApplyControl(auth, Takeover(auth.control))
    /\ UNCHANGED <<host, site, events, switching, call>>

\* onActivated / onFocusChanged look the claimed tab up before they take over.
TabSwitched ==
    /\ auth.control.state = "agent_claimed" /\ ~auth.binding.background
    /\ switching' = TRUE
    /\ UNCHANGED <<auth, host, site, events, call>>

TabSwitchConfirmed ==
    /\ switching
    /\ switching' = FALSE
    /\ auth' = ApplyControl(auth, Takeover(auth.control))
    /\ UNCHANGED <<host, site, events, call>>

TabSwitchDismissed ==
    /\ switching
    /\ switching' = FALSE
    /\ UNCHANGED <<auth, host, site, events, call>>

-----------------------------------------------------------------------------
(* Native host, clock, restart.                                            *)

HostStatus(ok) ==
    /\ host.session = 0 /\ host.runs < MaxRuns
    /\ host' = [session |-> host.runs + 1, protocolOk |-> ok, runs |-> host.runs + 1]
    /\ auth' = EnsureAuthorityCurrent(auth, host')
    /\ UNCHANGED <<site, events, switching, call>>

HostDisconnected ==
    /\ host.session # 0
    /\ host' = [host EXCEPT !.session = 0, !.protocolOk = FALSE]
    /\ auth' = IF Bound(auth) THEN DropBinding(auth) ELSE auth
    /\ UNCHANGED <<site, events, switching, call>>

ClockMoves(verdict) ==
    /\ auth.consent.mode = "fixed"
    /\ auth.consent.deadline # "passed"
    /\ auth.consent.deadline # verdict
    /\ auth' = [auth EXCEPT !.consent.deadline = verdict]
    /\ UNCHANGED <<host, site, events, switching, call>>

\* setInterval(authorityTick), and every handler that only reads the status.
AuthorityTick ==
    /\ auth' = Current
    /\ UNCHANGED <<host, site, events, switching, call>>

\* Extension reload or browser restart: only an unexpired fixed consent is left.
Restart ==
    /\ auth' =
         [consent |-> IF auth.consent.mode = "fixed" /\ auth.consent.deadline # "passed"
                      THEN auth.consent ELSE NoConsent,
          binding |-> NoBinding,
          control |-> IF auth.consent.mode = "fixed" /\ auth.consent.deadline # "passed"
                      THEN RebindRequired(CreateControl) ELSE CreateControl,
          pending |-> NonePending,
          lastId |-> auth.lastId]
    /\ host' = [host EXCEPT !.session = 0, !.protocolOk = FALSE]
    /\ events' = {}
    /\ switching' = FALSE
    /\ call' = [p \in Calls |-> IdleCall]
    /\ UNCHANGED site

-----------------------------------------------------------------------------
(* The agent's control operations.                                         *)

\* authorizeRequest: the audience must hold the live binding.
Authorized(a, audience) == Bound(a) /\ a.binding.audience = audience

ClaimStart(p, audience, t) ==
    /\ call[p].kind = "idle"
    /\ HostReady(host)
    /\ Authorized(Current, audience)
    /\ auth' = Current
    /\ call' = [call EXCEPT ![p] = TabCall("claim", audience, t)]
    /\ UNCHANGED <<host, site, events, switching>>

\* contextAuthorization after its tabs.get: what it leaves of the authority state.
AfterContextAuthorization(a, t, shows) ==
    IF Bound(a) /\ shows = "closed" /\ a.binding.scope[t] # "unshared"
    THEN RemoveTabFromScope(a, t) ELSE a

ContextAuthorized(a, t, shows, action) ==
    /\ Bound(a)
    /\ EvaluateTabAccess(a.binding.scope, a.binding.actions, a.pending, shows, t, action)

\* controlClaim and tryClaim: the claim is taken for the audience of the request.
ClaimCommit(p) ==
    LET c == call[p] IN
    /\ c.kind = "claim" /\ c.todo = {}
    /\ call' = [call EXCEPT ![p] = IdleCall]
    /\ \E t \in ReadTabs(c) :
          LET a == IF c.read[t] = "closed" THEN auth ELSE Current
          IN  auth' = IF ContextAuthorized(a, t, c.read[t], "interact")
                      THEN ApplyControl(a, Claim(a.control, t, c.audience))
                      ELSE AfterContextAuthorization(a, t, c.read[t])
    /\ UNCHANGED <<host, site, events, switching>>

AgentRelease(audience) ==
    /\ HostReady(host) /\ Authorized(Current, audience)
    /\ auth' = IF Current.control.claimedAudience = audience
               THEN ApplyControl(Current, Release(Current.control)) ELSE Current
    /\ UNCHANGED <<host, site, events, switching, call>>

AgentTakeover(audience) ==
    /\ HostReady(host) /\ Authorized(Current, audience)
    /\ auth' = ApplyControl(Current, Takeover(Current.control))
    /\ UNCHANGED <<host, site, events, switching, call>>

AgentRequestResume(audience) ==
    /\ HostReady(host) /\ Authorized(Current, audience)
    /\ auth' = ApplyControl(Current, RequestResume(Current.control))
    /\ UNCHANGED <<host, site, events, switching, call>>

-----------------------------------------------------------------------------
Init ==
    /\ auth = [consent |-> NoConsent, binding |-> NoBinding, control |-> CreateControl,
               pending |-> NonePending, lastId |-> 0]
    /\ host = [session |-> 0, protocolOk |-> FALSE, runs |-> 0]
    /\ site \in [Tabs -> Origins]
    /\ events = {}
    /\ switching = FALSE
    /\ call = [p \in Calls |-> IdleCall]

Popup ==
    /\ MayAct
    /\ \/ /\ auth.lastId < MaxId
          /\ \/ \E p \in Calls, a \in Audiences, mode \in {"none", "session", "fixed"},
                   acts \in SUBSET Actions, bg \in BOOLEAN, picked \in SUBSET Tabs,
                   confirmClock \in BOOLEAN :
                     GrantStart(p, a, mode, acts, bg, picked, confirmClock)
             \/ \E p \in Calls : GrantCommit(p)
             \/ \E keep \in SUBSET Tabs, acts \in SUBSET Actions, bg \in BOOLEAN :
                  ManageAccess(keep, acts, bg)
       \/ \E p \in Calls, t \in Tabs : ConfirmStart(p, t) \/ AddStart(p, t)
       \/ \E p \in Calls : ConfirmCommit(p) \/ AddCommit(p)
       \/ \E t \in Tabs : ExcludeTab(t)
       \/ RevokeByUser
       \/ UserTakeover
       \/ UserResume

Browser ==
    /\ MayAct
    /\ \/ \E t \in Tabs : CloseTab(t) \/ TabRemoved(t) \/ UserGesture(t)
       \/ Cardinality(events) < MaxEvents /\ \E t \in Tabs, s \in OpenSites : Navigate(t, s)
       \/ \E t \in Tabs, s \in OpenSites, byAgent \in BOOLEAN : UrlChanged(t, s, byAgent)
       \/ TabSwitched
       \/ TabSwitchConfirmed
       \/ TabSwitchDismissed

Environment ==
    \/ MayAct /\ \E ok \in BOOLEAN : HostStatus(ok)
    \/ MayAct /\ HostDisconnected
    \/ MayAct /\ Restart
    \/ MayAct /\ \E v \in {"ahead", "passed", "untrusted"} : ClockMoves(v)
    \/ (MayAct \/ auth.consent.deadline = "passed") /\ AuthorityTick

Agent ==
    /\ MayAct
    /\ \/ \E p \in Calls, a \in Audiences, t \in Tabs : ClaimStart(p, a, t)
       \/ \E p \in Calls : ClaimCommit(p)
       \/ \E a \in Audiences : AgentRelease(a) \/ AgentTakeover(a) \/ AgentRequestResume(a)

Next ==
    \/ Popup
    \/ Browser
    \/ Environment
    \/ Agent
    \/ \E p \in Calls, t \in Tabs : ReadTab(p, t)

\* The tick is a timer of the background page: it keeps firing.
Fairness == WF_vars(auth.consent.deadline = "passed" /\ AuthorityTick)

Spec == Init /\ [][Next]_vars /\ Fairness

-----------------------------------------------------------------------------
(* Properties.                                                             *)

Coherent(a) ==
    /\ Bound(a) =>
         /\ Granted(a) /\ Shared(a) # {}
         /\ a.binding.grant = a.consent.grant
         /\ a.binding.audience = a.consent.audience
         /\ a.binding.actions = a.consent.actions
         /\ a.binding.background = a.consent.background
    /\ ~Bound(a) => a.binding = NoBinding /\ a.pending = NonePending
    /\ HasAccess(a.control) <=> Bound(a)
    /\ a.control.state = "no_access" <=> ~Granted(a)

ClaimInScope(a) ==
    a.control.state = "agent_claimed" =>
        /\ a.control.claimedTab \in Shared(a)
        /\ "interact" \in a.binding.actions
        /\ a.pending[a.control.claimedTab] = "none"

\* Consent, binding and control never tell different stories: a binding belongs
\* to the consent in force (grant, audience, actions, control mode) and shares at
\* least one tab; the control state says exactly whether there is a binding, only
\* a consent, or nothing; pending origin changes need a binding.
AuthorityCoherent == Coherent(auth)

\* The claimed tab is shared, may be interacted with and waits for no origin
\* confirmation, whatever handler removed, withdrew or reduced it.
ClaimWithinScope == ClaimInScope(auth)

\* A connected companion never keeps a binding made for another host process.
BindingOfLiveHost ==
    Bound(auth) /\ host.session # 0 => auth.binding.session = host.session

\* Within one run of the companion the claim generation only grows, and it grows
\* whenever the claim changes: an observation can never match a later claim.
GenerationNamesClaim ==
    [][\/ Restart
       \/ auth'.control.claimGeneration > auth.control.claimGeneration
       \/ auth'.control = [auth.control EXCEPT !.resumeRequested = auth'.control.resumeRequested]
      ]_vars

\* While the human drives, only the user's Resume or a new grant gives control
\* back; no agent operation, browser event or clock movement does.
UserControlHeld ==
    [][auth.control.state = "user_control"
         /\ auth'.control.state \in {"shared_idle", "agent_claimed"}
       => UserResume \/ \E p \in Calls : GrantCommit(p)]_vars

\* After the deadline nothing claims a tab under the grant that has expired.
ExpiredGrantsNothing ==
    [][auth.consent.deadline = "passed" /\ auth'.consent.grant = auth.consent.grant
       => \/ auth'.control.state # "agent_claimed"
          \/ auth'.control = auth.control]_vars

\* A passed deadline ends the consent although no request ever arrives.
ExpiryEndsAuthority ==
    auth.consent.deadline = "passed" ~> auth.consent.deadline # "passed"
=============================================================================
