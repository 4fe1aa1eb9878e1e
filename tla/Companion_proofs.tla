------------------------- MODULE Companion_proofs -------------------------
(***************************************************************************)
(* Theorems about Companion, for every set of tabs, origins, audiences,    *)
(* actions and handlers and every bound.                                   *)
(***************************************************************************)
EXTENDS Companion, TLAPS

-----------------------------------------------------------------------------
(* The control machine stays within its type and its generation never drops. *)

\* Dropping a claim yields a control record (policy.js next()).
LEMMA UnclaimedType ==
    ASSUME NEW c \in Controls, NEW s \in ControlStates, NEW r \in BOOLEAN
    PROVE  Unclaimed(c, s, r) \in Controls
  BY DEF Controls, Unclaimed

\* Every transition of policy.js keeps the control record in its type.
LEMMA ControlSteps ==
    ASSUME NEW c \in Controls
    PROVE  /\ Grant(c) \in Controls /\ RebindRequired(c) \in Controls
           /\ Revoke(c) \in Controls /\ Release(c) \in Controls
           /\ ScopeReduced(c) \in Controls /\ Takeover(c) \in Controls
           /\ RequestResume(c) \in Controls /\ Resume(c) \in Controls
           /\ \A t \in Tabs : ContextGone(c, t) \in Controls
           /\ \A t \in Tabs, a \in Audiences : Claim(c, t, a) \in Controls
  <1>1. Grant(c) \in Controls /\ RebindRequired(c) \in Controls /\ Revoke(c) \in Controls
    BY UnclaimedType DEF Grant, RebindRequired, Revoke, ControlStates
  <1>2. c.resumeRequested \in BOOLEAN
    BY DEF Controls
  <1>3. Release(c) \in Controls /\ \A t \in Tabs : ContextGone(c, t) \in Controls
    BY <1>2, UnclaimedType DEF Release, ContextGone, ControlStates
  <1>4. ScopeReduced(c) \in Controls
    BY UnclaimedType DEF ScopeReduced, ControlStates
  <1>5. Takeover(c) \in Controls /\ RequestResume(c) \in Controls /\ Resume(c) \in Controls
    <2>1. [c EXCEPT !.resumeRequested = TRUE] \in Controls
      BY DEF Controls
    <2> QED
      BY <2>1, UnclaimedType DEF Takeover, RequestResume, Resume, ControlStates
  <1>6. ASSUME NEW t \in Tabs, NEW a \in Audiences
        PROVE  Claim(c, t, a) \in Controls
    BY DEF Claim, Controls, ControlStates
  <1> QED
    BY <1>1, <1>3, <1>4, <1>5, <1>6

\* The empty consent, binding, pending map, scope and call are of their types.
LEMMA NullTypes ==
    /\ NoConsent \in Consents /\ NoBinding \in Bindings /\ NonePending \in Pendings
    /\ NoScope \in Scopes /\ IdleCall \in CallRecords /\ CreateControl \in Controls
  BY DEF NoConsent, Consents, NoBinding, Bindings, NonePending, Pendings, NoScope, Scopes,
         IdleCall, CallRecords, CallKinds, CreateControl, Controls, ControlStates

\* endAuthority keeps the authority in its type.
LEMMA EndAuthorityType ==
    ASSUME NEW a \in Auths
    PROVE  EndAuthority(a) \in Auths
  BY NullTypes DEF EndAuthority, Auths, Revoke, Unclaimed, Controls, ControlStates

\* dropBinding keeps the authority in its type.
LEMMA DropBindingType ==
    ASSUME NEW a \in Auths
    PROVE  DropBinding(a) \in Auths
  BY NullTypes, EndAuthorityType
  DEF DropBinding, Auths, RebindRequired, Unclaimed, Controls, ControlStates

\* ensureAuthorityCurrent keeps the authority in its type.
LEMMA EnsureType ==
    ASSUME NEW a \in Auths, NEW h
    PROVE  EnsureAuthorityCurrent(a, h) \in Auths
  BY EndAuthorityType, DropBindingType DEF EnsureAuthorityCurrent

\* removeTabFromScope keeps the authority in its type.
LEMMA RemoveTabType ==
    ASSUME NEW a \in Auths, NEW t \in Tabs
    PROVE  RemoveTabFromScope(a, t) \in Auths
  <1> DEFINE b == [a EXCEPT !.binding.scope[t] = "unshared", !.pending[t] = "none",
                            !.control = ContextGone(a.control, t)]
  <1>1. ContextGone(a.control, t) \in Controls
    BY DEF Auths, ContextGone, Unclaimed, Controls, ControlStates
  <1>2. [a.binding EXCEPT !.scope[t] = "unshared"] \in Bindings
    BY DEF Auths, Bindings, Scopes
  <1>3. [a.pending EXCEPT ![t] = "none"] \in Pendings
    BY DEF Auths, Pendings
  <1>4. b \in Auths
    BY <1>1, <1>2, <1>3 DEF Auths
  <1> QED
    BY <1>4, EndAuthorityType DEF RemoveTabFromScope

\* A handler that looks one tab up is a call record.
LEMMA TabCallType ==
    ASSUME NEW kind \in CallKinds, NEW a \in Audiences \cup {NoAudience}, NEW t \in Tabs
    PROVE  TabCall(kind, a, t) \in CallRecords
  <1>1. NoScope \in [Tabs -> Sites \cup {"unshared"}]
    BY DEF NoScope
  <1> QED
    BY <1>1 DEF TabCall, CallRecords

\* Popup handlers that wait for the browser keep the types.
LEMMA PopupCallsType ==
    ASSUME TypeOK, NEW p \in Calls,
           \/ \E a \in Audiences, mode \in {"none", "session", "fixed"},
                 acts \in SUBSET Actions, bg \in BOOLEAN, picked \in SUBSET Tabs,
                 cc \in BOOLEAN : GrantStart(p, a, mode, acts, bg, picked, cc)
           \/ GrantCommit(p)
           \/ \E t \in Tabs : ConfirmStart(p, t) \/ AddStart(p, t) \/ ReadTab(p, t)
           \/ ConfirmCommit(p) \/ AddCommit(p)
    PROVE  TypeOK'
  <1> USE DEF TypeOK
  <1>a. Current \in Auths
    BY EnsureType DEF Current
  <1>b. IdleCall \in CallRecords
    BY NullTypes
  <1>c. call[p] \in CallRecords
    OBVIOUS
  <1>1. ASSUME NEW a \in Audiences, NEW mode \in {"none", "session", "fixed"},
               NEW acts \in SUBSET Actions, NEW bg \in BOOLEAN, NEW picked \in SUBSET Tabs,
               NEW cc \in BOOLEAN, GrantStart(p, a, mode, acts, bg, picked, cc)
        PROVE  TypeOK'
    <2> DEFINE r == [kind |-> "grant", rebinding |-> Granted(Current) /\ ~Bound(Current),
                     mode |-> mode, audience |-> a,
                     actions |-> acts \cup {"inspect"}, background |-> bg,
                     todo |-> picked, read |-> NoScope]
    <2>1. acts \cup {"inspect"} \subseteq Actions
      BY CompanionAssumption
    <2>2. NoScope \in [Tabs -> Sites \cup {"unshared"}]
      BY DEF NoScope
    <2>3. r \in CallRecords
      BY <2>1, <2>2 DEF CallRecords, CallKinds
    <2>4. call' = [call EXCEPT ![p] = r]
      BY <1>1 DEF GrantStart
    <2>5. call' \in [Calls -> CallRecords]
      BY <2>3, <2>4
    <2> QED
      BY <1>1, <1>a, <2>5 DEF GrantStart
  <1>2. CASE GrantCommit(p)
    <2> DEFINE scope == ReadScope(call[p])
               consent == BuildConsent(auth, call[p])
               binding == [instance |-> auth.lastId + 1, grant |-> consent.grant,
                           session |-> host.session, audience |-> call[p].audience,
                           actions |-> consent.actions, background |-> consent.background,
                           scope |-> scope]
    <2>1. scope \in Scopes
      BY DEF Scopes, ReadScope
    <2>2. auth.lastId \in Nat /\ host.session \in Nat
      BY DEF Auths, Hosts
    <2>3. consent \in Consents
      <3>1. CASE call[p].rebinding
        BY <1>c, <3>1 DEF BuildConsent, Auths, Consents, CallRecords
      <3>2. CASE ~call[p].rebinding
        BY <1>c, <2>2, <3>2 DEF BuildConsent, Consents, CallRecords
      <3> QED
        BY <3>1, <3>2
    <2>4. binding \in Bindings
      BY <1>c, <2>1, <2>2, <2>3 DEF Bindings, Consents, CallRecords
    <2>5. Grant(auth.control) \in Controls
      BY ControlSteps DEF Auths
    <2>6. BindTo(auth, host, call[p]) \in Auths
      BY <2>2, <2>3, <2>4, <2>5, NullTypes DEF Auths, BindTo
    <2>7. auth' \in Auths
      BY <1>2, <2>6 DEF GrantCommit
    <2> QED
      BY <1>2, <1>b, <2>7 DEF GrantCommit
  <1>3. ASSUME NEW t \in Tabs, ConfirmStart(p, t)
        PROVE  TypeOK'
    <2>1. TabCall("confirm", NoAudience, t) \in CallRecords
      BY TabCallType DEF CallKinds
    <2> QED
      BY <1>3, <2>1 DEF ConfirmStart
  <1>4. ASSUME NEW t \in Tabs, AddStart(p, t)
        PROVE  TypeOK'
    <2>1. TabCall("add", NoAudience, t) \in CallRecords
      BY TabCallType DEF CallKinds
    <2> QED
      BY <1>4, <1>a, <2>1 DEF AddStart
  <1>5. ASSUME NEW t \in Tabs, ReadTab(p, t)
        PROVE  TypeOK'
    <2>1. [call[p] EXCEPT !.todo = @ \ {t}, !.read[t] = site[t]] \in CallRecords
      BY <1>c DEF CallRecords
    <2>2. call' = [call EXCEPT ![p] =
                     [call[p] EXCEPT !.todo = @ \ {t}, !.read[t] = site[t]]]
      BY <1>5 DEF ReadTab
    <2> QED
      BY <1>5, <2>1, <2>2 DEF ReadTab
  <1>6. CASE ConfirmCommit(p)
    <2>1. ASSUME NEW t \in Tabs, call[p].read[t] \in Origins
          PROVE  [auth EXCEPT !.binding.scope[t] = call[p].read[t],
                              !.pending[t] = "none"] \in Auths
      BY <2>1 DEF Auths, Bindings, Scopes, Pendings
    <2>2. auth' \in Auths
      BY <1>6, <2>1 DEF ConfirmCommit, ConfirmOrigin, ReadTabs
    <2> QED
      BY <1>6, <1>b, <2>2 DEF ConfirmCommit
  <1>7. CASE AddCommit(p)
    <2>1. ASSUME NEW t \in Tabs, call[p].read[t] \in Origins
          PROVE  [auth EXCEPT !.binding.scope[t] = call[p].read[t]] \in Auths
      BY <2>1 DEF Auths, Bindings, Scopes
    <2>2. auth' \in Auths
      BY <1>7, <2>1 DEF AddCommit, ReadTabs
    <2> QED
      BY <1>7, <1>b, <2>2 DEF AddCommit
  <1> HIDE DEF TypeOK
  <1> QED
    BY <1>1, <1>2, <1>3, <1>4, <1>5, <1>6, <1>7

\* applyControl keeps the authority in its type.
LEMMA ApplyControlType ==
    ASSUME NEW a \in Auths, NEW c \in Controls
    PROVE  ApplyControl(a, c) \in Auths
  BY DEF ApplyControl, Auths

\* Popup handlers of one segment keep the types.
LEMMA PopupType ==
    ASSUME TypeOK,
           \/ \E keep \in SUBSET Tabs, acts \in SUBSET Actions, bg \in BOOLEAN :
                 ManageAccess(keep, acts, bg)
           \/ \E t \in Tabs : ExcludeTab(t)
           \/ RevokeByUser \/ UserTakeover \/ UserResume
    PROVE  TypeOK'
  <1> USE DEF TypeOK
  <1>a. Current \in Auths
    BY EnsureType DEF Current
  <1>1. ASSUME NEW keep \in SUBSET Tabs, NEW acts \in SUBSET Actions, NEW bg \in BOOLEAN,
               ManageAccess(keep, acts, bg)
        PROVE  TypeOK'
    <2> DEFINE a == Current
               consent == [a.consent EXCEPT !.actions = acts, !.background = bg]
               binding == Narrowed(a.binding, a.lastId + 1, keep, acts, bg)
    <2>1. a.consent \in Consents /\ a.binding \in Bindings /\ a.lastId \in Nat
          /\ a.control \in Controls
      BY <1>a DEF Auths
    <2>2. consent \in Consents
      BY <2>1 DEF Consents
    <2>3. [t \in Tabs |-> IF t \in keep THEN a.binding.scope[t] ELSE "unshared"] \in Scopes
      BY <2>1 DEF Bindings, Scopes
    <2>4. binding \in Bindings
      BY <2>1, <2>3 DEF Bindings, Narrowed
    <2>5. ScopeReduced(a.control) \in Controls
      BY <2>1, ControlSteps
    <2>6. [consent |-> consent, binding |-> binding, control |-> ScopeReduced(a.control),
           pending |-> NonePending, lastId |-> a.lastId + 1] \in Auths
      BY <2>1, <2>2, <2>4, <2>5, NullTypes DEF Auths
    <2>7. auth' \in Auths
      BY <1>1, <1>a, <2>6, EndAuthorityType DEF ManageAccess
    <2> QED
      BY <1>1, <2>7 DEF ManageAccess
  <1>2. ASSUME NEW t \in Tabs, ExcludeTab(t)
        PROVE  TypeOK'
    BY <1>2, RemoveTabType DEF ExcludeTab
  <1>3. CASE RevokeByUser
    BY <1>3, EndAuthorityType DEF RevokeByUser
  <1>4. auth.control \in Controls
    BY DEF Auths
  <1>5. CASE UserTakeover
    BY <1>4, <1>5, ControlSteps, ApplyControlType DEF UserTakeover
  <1>6. CASE UserResume
    BY <1>4, <1>6, ControlSteps, ApplyControlType DEF UserResume
  <1> QED
    BY <1>1, <1>2, <1>3, <1>5, <1>6

\* What the browser does and reports keeps the types.
LEMMA BrowserType ==
    ASSUME TypeOK, Browser
    PROVE  TypeOK'
  <1> USE DEF TypeOK
  <1>a. auth.control \in Controls
    BY DEF Auths
  <1>1. ASSUME NEW t \in Tabs, CloseTab(t)
        PROVE  TypeOK'
    BY <1>1 DEF CloseTab, Sites
  <1>2. ASSUME NEW t \in Tabs, TabRemoved(t)
        PROVE  TypeOK'
    BY <1>2, RemoveTabType DEF TabRemoved
  <1>3. ASSUME NEW t \in Tabs, UserGesture(t)
        PROVE  TypeOK'
    BY <1>3, <1>a, ControlSteps, ApplyControlType DEF UserGesture
  <1>4. ASSUME NEW t \in Tabs, NEW s \in OpenSites, Navigate(t, s)
        PROVE  TypeOK'
    BY <1>4 DEF Navigate, Sites, OpenSites
  <1>5. ASSUME NEW t \in Tabs, NEW s \in OpenSites, NEW byAgent \in BOOLEAN,
               UrlChanged(t, s, byAgent)
        PROVE  TypeOK'
    <2> DEFINE c1 == IF ClaimedHere(auth, t) THEN Takeover(auth.control) ELSE auth.control
               c2 == IF ClaimedHere(auth, t) /\ ~auth.binding.background /\ ~byAgent
                     THEN Takeover(auth.control) ELSE auth.control
    <2>1. c1 \in Controls /\ c2 \in Controls
      BY <1>a, ControlSteps
    <2> HIDE DEF c1, c2
    <2>2. [auth EXCEPT !.pending[t] = s, !.control = c1] \in Auths
      BY <2>1 DEF Auths, Pendings
    <2>3. [auth EXCEPT !.control = c2] \in Auths
      BY <2>1 DEF Auths
    <2>4. \/ auth' = auth
          \/ auth' = [auth EXCEPT !.pending[t] = s, !.control = c1]
          \/ auth' = [auth EXCEPT !.control = c2]
      BY <1>5 DEF UrlChanged, c1, c2
    <2> QED
      BY <1>5, <2>2, <2>3, <2>4 DEF UrlChanged
  <1>6. CASE TabSwitched
    BY <1>6 DEF TabSwitched
  <1>7. CASE TabSwitchConfirmed
    BY <1>7, <1>a, ControlSteps, ApplyControlType DEF TabSwitchConfirmed
  <1>8. CASE TabSwitchDismissed
    BY <1>8 DEF TabSwitchDismissed
  <1> QED
    BY <1>1, <1>2, <1>3, <1>4, <1>5, <1>6, <1>7, <1>8 DEF Browser

\* The native host, the clock and a restart keep the types.
LEMMA EnvironmentType ==
    ASSUME TypeOK, Environment
    PROVE  TypeOK'
  <1> USE DEF TypeOK
  <1>1. ASSUME NEW ok \in BOOLEAN, HostStatus(ok)
        PROVE  TypeOK'
    BY <1>1, EnsureType DEF HostStatus, Hosts
  <1>2. CASE HostDisconnected
    BY <1>2, DropBindingType DEF HostDisconnected, Hosts
  <1>3. ASSUME NEW v \in {"ahead", "passed", "untrusted"}, ClockMoves(v)
        PROVE  TypeOK'
    BY <1>3 DEF ClockMoves, Auths, Consents
  <1>4. CASE AuthorityTick
    BY <1>4, EnsureType DEF AuthorityTick, Current
  <1>5. CASE Restart
    <2>1. auth.consent \in Consents /\ auth.lastId \in Nat
      BY DEF Auths
    <2>2. RebindRequired(CreateControl) \in Controls
      BY NullTypes, ControlSteps
    <2>3. auth' \in Auths
      BY <1>5, <2>1, <2>2, NullTypes DEF Restart, Auths
    <2>4. host' \in Hosts
      BY <1>5 DEF Restart, Hosts
    <2> QED
      BY <1>5, <2>3, <2>4, NullTypes DEF Restart
  <1> QED
    BY <1>1, <1>2, <1>3, <1>4, <1>5 DEF Environment

\* The agent's control operations keep the types.
LEMMA AgentType ==
    ASSUME TypeOK, Agent
    PROVE  TypeOK'
  <1> USE DEF TypeOK
  <1>a. Current \in Auths /\ Current.control \in Controls
    BY EnsureType DEF Current, Auths
  <1>1. ASSUME NEW p \in Calls, NEW a \in Audiences, NEW t \in Tabs, ClaimStart(p, a, t)
        PROVE  TypeOK'
    <2>1. TabCall("claim", a, t) \in CallRecords
      BY TabCallType DEF CallKinds
    <2> QED
      BY <1>1, <1>a, <2>1 DEF ClaimStart
  <1>2. ASSUME NEW p \in Calls, ClaimCommit(p)
        PROVE  TypeOK'
    <2>1. PICK t \in ReadTabs(call[p]) :
             LET a == IF call[p].read[t] = "closed" THEN auth ELSE Current
             IN  auth' = IF ContextAuthorized(a, t, call[p].read[t], "interact")
                         THEN ApplyControl(a, Claim(a.control, t, call[p].audience))
                         ELSE AfterContextAuthorization(a, t, call[p].read[t])
      BY <1>2 DEF ClaimCommit
    <2> DEFINE a == IF call[p].read[t] = "closed" THEN auth ELSE Current
    <2>2. a \in Auths /\ a.control \in Controls /\ t \in Tabs
      BY <1>a DEF ReadTabs, Auths
    <2>3. AfterContextAuthorization(a, t, call[p].read[t]) \in Auths
      BY <2>2, RemoveTabType DEF AfterContextAuthorization
    <2>4. Claim(a.control, t, call[p].audience) \in Controls
      BY <2>2 DEF Claim, Controls, ControlStates, CallRecords
    <2>5. ApplyControl(a, Claim(a.control, t, call[p].audience)) \in Auths
      BY <2>2, <2>4, ApplyControlType
    <2>6. auth' \in Auths
      BY <2>1, <2>3, <2>5
    <2> QED
      BY <1>2, <2>6, NullTypes DEF ClaimCommit
  <1>3. ASSUME NEW a \in Audiences, AgentRelease(a)
        PROVE  TypeOK'
    BY <1>3, <1>a, ControlSteps, ApplyControlType DEF AgentRelease
  <1>4. ASSUME NEW a \in Audiences, AgentTakeover(a)
        PROVE  TypeOK'
    BY <1>4, <1>a, ControlSteps, ApplyControlType DEF AgentTakeover
  <1>5. ASSUME NEW a \in Audiences, AgentRequestResume(a)
        PROVE  TypeOK'
    BY <1>5, <1>a, ControlSteps, ApplyControlType DEF AgentRequestResume
  <1> QED
    BY <1>1, <1>2, <1>3, <1>4, <1>5 DEF Agent

\* A freshly loaded background page is well typed.
LEMMA InitType == ASSUME Init PROVE TypeOK
  BY NullTypes DEF Init, TypeOK, Auths, Hosts, Sites

\* No step leaves the types.
LEMMA NextType == ASSUME TypeOK, [Next]_vars PROVE TypeOK'
  <1>1. CASE UNCHANGED vars
    BY <1>1 DEF TypeOK, vars
  <1>2. CASE Popup
    BY <1>2, PopupCallsType, PopupType DEF Popup
  <1>3. CASE \E p \in Calls, t \in Tabs : ReadTab(p, t)
    BY <1>3, PopupCallsType
  <1> QED
    BY <1>1, <1>2, <1>3, BrowserType, EnvironmentType, AgentType DEF Next

\* Every reachable state is well typed, whatever the interleaving of handlers.
THEOREM TypeCorrect == Spec => []TypeOK
  <1>1. Init => TypeOK
    BY InitType
  <1>2. TypeOK /\ [Next]_vars => TypeOK'
    BY NextType
  <1> QED
    BY <1>1, <1>2, PTL DEF Spec

-----------------------------------------------------------------------------
(* Authority is coherent and the claim stays within scope.  The two need   *)
(* each other: dropping a claim with the tab it was on needs the control   *)
(* state to say whether there is a binding, and an empty scope ends both.  *)

Good(a) == a \in Auths /\ Coherent(a) /\ ClaimInScope(a)

\* A grant message that is not a rebind names how long the grant lasts.
GrantCallsNameMode ==
    \A p \in Calls : call[p].kind = "grant" /\ ~call[p].rebinding => call[p].mode # "none"

IndInv == TypeOK /\ GrantCallsNameMode /\ Good(auth)

\* endAuthority leaves an authority that is coherent: none at all.
LEMMA EndAuthorityGood ==
    ASSUME NEW a \in Auths
    PROVE  Good(EndAuthority(a))
  <1>1. EndAuthority(a) \in Auths
    BY EndAuthorityType
  <1> QED
    BY <1>1 DEF Good, Coherent, ClaimInScope, EndAuthority, Revoke, Unclaimed, NoConsent,
                NoBinding, Bound, Granted, HasAccess

\* dropBinding leaves a consent that waits for a rebind, or nothing.
LEMMA DropBindingGood ==
    ASSUME NEW a \in Auths
    PROVE  Good(DropBinding(a))
  <1>1. DropBinding(a) \in Auths
    BY DropBindingType
  <1>2. CASE a.consent.mode = "fixed" /\ a.consent.deadline # "passed"
    BY <1>1, <1>2 DEF DropBinding, Good, Coherent, ClaimInScope, RebindRequired, Unclaimed,
                      NoBinding, Bound, Granted, HasAccess
  <1> QED
    BY <1>2, EndAuthorityGood DEF DropBinding

\* ensureAuthorityCurrent keeps authority good.
LEMMA EnsureGood ==
    ASSUME NEW a, Good(a), NEW h
    PROVE  Good(EnsureAuthorityCurrent(a, h))
  BY EndAuthorityGood, DropBindingGood DEF EnsureAuthorityCurrent, Good

\* Replacing the control record keeps authority good when access does not change and
\* a claim is either the old one or on a tab that may be claimed.
LEMMA ApplyControlGood ==
    ASSUME NEW a, Good(a), NEW c \in Controls,
           HasAccess(c) <=> HasAccess(a.control),
           c.state = "no_access" <=> a.control.state = "no_access",
           c.state = "agent_claimed" =>
             \/ a.control.state = "agent_claimed" /\ c.claimedTab = a.control.claimedTab
             \/ /\ c.claimedTab \in Shared(a) /\ "interact" \in a.binding.actions
                /\ a.pending[c.claimedTab] = "none"
    PROVE  Good(ApplyControl(a, c))
  <1>1. ApplyControl(a, c) \in Auths
    BY ApplyControlType DEF Good
  <1> QED
    BY <1>1 DEF Good, ApplyControl, Coherent, ClaimInScope, Bound, Granted, Shared, Auths

\* removeTabFromScope keeps authority good: it ends a claim on the removed tab, and
\* all authority with the last tab.
LEMMA RemoveTabGood ==
    ASSUME NEW a, Good(a), NEW t \in Tabs
    PROVE  Good(RemoveTabFromScope(a, t))
  <1> DEFINE c == ContextGone(a.control, t)
             b == [a EXCEPT !.binding.scope[t] = "unshared", !.pending[t] = "none",
                            !.control = c]
  <1>1. b \in Auths
    <2>1. c \in Controls
      BY ControlSteps DEF Good, Auths
    <2> HIDE DEF c
    <2> QED
      BY <2>1 DEF Good, Auths, Bindings, Scopes, Pendings
  <1>2. /\ b.consent = a.consent /\ b.control = c
        /\ b.pending = [a.pending EXCEPT ![t] = "none"]
        /\ b.binding = [a.binding EXCEPT !.scope[t] = "unshared"]
    BY DEF Good, Auths
  <1>3. /\ HasAccess(c) <=> HasAccess(a.control)
        /\ c.state = "no_access" <=> a.control.state = "no_access"
        /\ c.state = "agent_claimed" =>
              a.control.state = "agent_claimed" /\ c.claimedTab = a.control.claimedTab
              /\ c.claimedTab # t
    BY DEF ContextGone, Unclaimed, HasAccess
  <1> HIDE DEF c, b
  <1>4. ASSUME Bound(a), Shared(b) # {}
        PROVE  Good(b)
    <2>1. /\ b.binding.instance = a.binding.instance /\ b.binding.grant = a.binding.grant
          /\ b.binding.audience = a.binding.audience
          /\ b.binding.actions = a.binding.actions
          /\ b.binding.background = a.binding.background
          /\ b.binding.scope = [a.binding.scope EXCEPT ![t] = "unshared"]
      BY <1>2 DEF Good, Auths, Bindings
    <2>2. Coherent(b)
      BY <1>2, <1>3, <1>4, <2>1 DEF Good, Coherent, Bound, Granted
    <2>3. ASSUME b.control.state = "agent_claimed"
          PROVE  /\ b.control.claimedTab \in Shared(b)
                 /\ "interact" \in b.binding.actions
                 /\ b.pending[b.control.claimedTab] = "none"
      BY <1>2, <1>3, <2>1, <2>3 DEF Good, ClaimInScope, Shared, Auths, Bindings, Scopes, Pendings
    <2> QED
      BY <1>1, <2>2, <2>3 DEF Good, ClaimInScope
  <1>5. RemoveTabFromScope(a, t) =
          IF ~Bound(a) THEN a ELSE IF Shared(b) = {} THEN EndAuthority(b) ELSE b
    BY DEF RemoveTabFromScope, b, c
  <1> QED
    BY <1>1, <1>4, <1>5, EndAuthorityGood

\* What each operation of the control machine does to access and to a claim.
LEMMA ControlEffects ==
    ASSUME NEW c, HasAccess(c)
    PROVE  /\ HasAccess(Takeover(c)) /\ Takeover(c).state = "user_control"
           /\ HasAccess(Resume(c)) /\ HasAccess(ScopeReduced(c)) /\ HasAccess(Release(c))
           /\ ScopeReduced(c).state # "agent_claimed" /\ Release(c).state # "agent_claimed"
           /\ Resume(c).state = "agent_claimed" => Resume(c) = c
  BY DEF Takeover, Resume, ScopeReduced, Release, HasAccess, Unclaimed

\* A takeover keeps authority good.
LEMMA TakeoverGood ==
    ASSUME NEW a, Good(a)
    PROVE  Good(ApplyControl(a, Takeover(a.control)))
  <1>1. Takeover(a.control) \in Controls
    BY ControlSteps DEF Good, Auths
  <1>2. CASE HasAccess(a.control)
    BY <1>1, <1>2, ControlEffects, ApplyControlGood DEF HasAccess
  <1>3. CASE ~HasAccess(a.control)
    <2>1. Takeover(a.control) = a.control
      BY <1>3 DEF Takeover
    <2> QED
      BY <1>1, <2>1, ApplyControlGood
  <1> QED
    BY <1>2, <1>3

\* A scope other than the empty one shares a tab.
LEMMA SomeTabShared ==
    ASSUME NEW scope \in Scopes, scope # NoScope
    PROVE  \E t \in Tabs : scope[t] # "unshared"
  BY DEF Scopes, NoScope

\* A grant or rebind committed after its lookups makes a good authority of whatever
\* it finds then.
LEMMA GrantCommitGood ==
    ASSUME IndInv, NEW p \in Calls, GrantCommit(p)
    PROVE  Good(auth')
  <1> DEFINE scope == ReadScope(call[p])
             consent == BuildConsent(auth, call[p])
             new == [consent |-> consent,
                     binding |-> [instance |-> auth.lastId + 1, grant |-> consent.grant,
                                  session |-> host.session, audience |-> call[p].audience,
                                  actions |-> consent.actions,
                                  background |-> consent.background, scope |-> scope],
                     control |-> Grant(auth.control), pending |-> NonePending,
                     lastId |-> auth.lastId + 1]
  <1>1. auth' \in Auths
    BY PopupCallsType DEF IndInv, TypeOK
  <1>2. CASE ~Shareable(auth, call[p])
    BY <1>2 DEF GrantCommit, IndInv
  <1>3. CASE Shareable(auth, call[p])
    <2>1. auth' = new
      BY <1>3 DEF GrantCommit, BindTo
    <2>2. consent.mode # "none" /\ consent.audience = call[p].audience
      <3>1. call[p].kind = "grant"
        BY DEF GrantCommit
      <3>2. call[p] \in CallRecords /\ auth.consent \in Consents
        BY DEF IndInv, TypeOK, Auths
      <3>3. CASE call[p].rebinding
        BY <1>3, <3>2, <3>3 DEF BuildConsent, Shareable, Granted, Consents
      <3>4. CASE ~call[p].rebinding
        BY <3>1, <3>2, <3>4 DEF BuildConsent, IndInv, GrantCallsNameMode
      <3> QED
        BY <3>3, <3>4
    <2>3. \E t \in Tabs : scope[t] # "unshared"
      <3>1. scope \in Scopes /\ scope # NoScope
        BY <1>3 DEF Shareable, ReadScope, Scopes
      <3> QED
        BY <3>1, SomeTabShared
    <2>4. auth.lastId \in Nat
      BY DEF IndInv, TypeOK, Auths
    <2>5. Grant(auth.control).state = "shared_idle"
      BY DEF Grant, Unclaimed
    <2> HIDE DEF consent, scope
    <2>6. Coherent(new)
      BY <2>2, <2>3, <2>4, <2>5 DEF Coherent, Bound, Granted, Shared, HasAccess
    <2>7. ClaimInScope(new)
      BY <2>5 DEF ClaimInScope
    <2> QED
      BY <1>1, <2>1, <2>6, <2>7 DEF Good
  <1> QED
    BY <1>2, <1>3

\* Confirming an origin after its lookup keeps authority good.
LEMMA ConfirmCommitGood ==
    ASSUME IndInv, NEW p \in Calls, ConfirmCommit(p)
    PROVE  Good(auth')
  <1>1. PICK t \in ReadTabs(call[p]) :
          IF Bound(auth) /\ call[p].read[t] \in Origins
          THEN auth' = [auth EXCEPT !.binding.scope[t] = call[p].read[t],
                                    !.pending[t] = "none"]
          ELSE UNCHANGED auth
    BY DEF ConfirmCommit, ConfirmOrigin
  <1>2. CASE Bound(auth) /\ call[p].read[t] \in Origins
    <2>1. t \in Tabs /\ auth \in Auths /\ call[p].read[t] # "unshared"
      BY <1>2, PolicyAssumption DEF ReadTabs, IndInv, Good
    <2>2. auth' \in Auths
      BY PopupCallsType DEF IndInv, TypeOK
    <2>3. /\ auth'.consent = auth.consent /\ auth'.control = auth.control
          /\ auth'.pending = [auth.pending EXCEPT ![t] = "none"]
          /\ auth'.binding = [auth.binding EXCEPT !.scope[t] = call[p].read[t]]
      BY <1>1, <1>2, <2>1 DEF Auths
    <2>4. /\ auth'.binding.instance = auth.binding.instance
          /\ auth'.binding.grant = auth.binding.grant
          /\ auth'.binding.audience = auth.binding.audience
          /\ auth'.binding.actions = auth.binding.actions
          /\ auth'.binding.background = auth.binding.background
          /\ auth'.binding.scope = [auth.binding.scope EXCEPT ![t] = call[p].read[t]]
      BY <2>1, <2>3 DEF Auths, Bindings
    <2>5. auth.binding.scope \in Scopes /\ auth.pending \in Pendings
      BY <2>1 DEF Auths, Bindings
    <2>6. t \in Shared(auth')
      BY <2>1, <2>4, <2>5 DEF Shared, Scopes
    <2>7. Coherent(auth')
      BY <1>2, <2>3, <2>4, <2>6 DEF IndInv, Good, Coherent, Bound, Granted
    <2>8. ClaimInScope(auth')
      BY <2>1, <2>3, <2>4, <2>5, <2>6
      DEF IndInv, Good, ClaimInScope, Shared, Scopes, Pendings
    <2> QED
      BY <2>2, <2>7, <2>8 DEF Good
  <1> QED
    BY <1>1, <1>2 DEF IndInv

\* Adding a tab after its lookup keeps authority good.
LEMMA AddCommitGood ==
    ASSUME IndInv, NEW p \in Calls, AddCommit(p)
    PROVE  Good(auth')
  <1>1. PICK t \in ReadTabs(call[p]) :
          IF /\ Bound(auth) /\ call[p].read[t] \in Origins
             /\ auth.binding.scope[t] = "unshared"
          THEN auth' = [auth EXCEPT !.binding.scope[t] = call[p].read[t]]
          ELSE UNCHANGED auth
    BY DEF AddCommit
  <1>2. CASE /\ Bound(auth) /\ call[p].read[t] \in Origins
             /\ auth.binding.scope[t] = "unshared"
    <2>1. t \in Tabs /\ auth \in Auths /\ call[p].read[t] # "unshared"
      BY <1>2, PolicyAssumption DEF ReadTabs, IndInv, Good
    <2>2. auth' \in Auths
      BY PopupCallsType DEF IndInv, TypeOK
    <2>3. /\ auth'.consent = auth.consent /\ auth'.control = auth.control
          /\ auth'.pending = auth.pending
          /\ auth'.binding = [auth.binding EXCEPT !.scope[t] = call[p].read[t]]
      BY <1>1, <1>2, <2>1 DEF Auths
    <2>4. /\ auth'.binding.instance = auth.binding.instance
          /\ auth'.binding.grant = auth.binding.grant
          /\ auth'.binding.audience = auth.binding.audience
          /\ auth'.binding.actions = auth.binding.actions
          /\ auth'.binding.background = auth.binding.background
          /\ auth'.binding.scope = [auth.binding.scope EXCEPT ![t] = call[p].read[t]]
      BY <2>1, <2>3 DEF Auths, Bindings
    <2>5. auth.binding.scope \in Scopes
      BY <2>1 DEF Auths, Bindings
    <2>6. Shared(auth) \subseteq Shared(auth') /\ t \in Shared(auth')
      BY <2>1, <2>4, <2>5 DEF Shared, Scopes
    <2>7. Coherent(auth')
      BY <1>2, <2>3, <2>4, <2>6 DEF IndInv, Good, Coherent, Bound, Granted
    <2>8. ClaimInScope(auth')
      BY <2>3, <2>4, <2>6 DEF IndInv, Good, ClaimInScope
    <2> QED
      BY <2>2, <2>7, <2>8 DEF Good
  <1> QED
    BY <1>1, <1>2 DEF IndInv

\* Shrinking the scope, the actions or background control keeps authority good.
LEMMA ManageAccessGood ==
    ASSUME IndInv, NEW keep \in SUBSET Tabs, NEW acts \in SUBSET Actions, NEW bg \in BOOLEAN,
           ManageAccess(keep, acts, bg)
    PROVE  Good(auth')
  <1> DEFINE a == Current
             binding == Narrowed(a.binding, a.lastId + 1, keep, acts, bg)
             new == [consent |-> [a.consent EXCEPT !.actions = acts, !.background = bg],
                     binding |-> binding, control |-> ScopeReduced(a.control),
                     pending |-> NonePending, lastId |-> a.lastId + 1]
  <1>1. Good(a)
    BY EnsureGood DEF IndInv, Current
  <1>2. auth' \in Auths
    BY PopupType DEF IndInv, TypeOK
  <1>3. CASE keep # {} /\ auth' = new
    <2>1. Bound(a) /\ keep \subseteq Shared(a) /\ HasAccess(a.control)
      BY <1>1 DEF ManageAccess, Good, Coherent
    <2>2. /\ new.consent.mode = a.consent.mode /\ new.consent.grant = a.consent.grant
          /\ new.consent.audience = a.consent.audience
          /\ new.consent.actions = acts /\ new.consent.background = bg
      BY <1>1 DEF Good, Auths, Consents
    <2>3. a.lastId + 1 # 0
      BY <1>1 DEF Good, Auths
    <2>4. Shared(new) = keep
      BY <2>1 DEF Shared, Narrowed
    <2>5. HasAccess(new.control) /\ new.control.state # "agent_claimed"
      BY <2>1, ControlEffects
    <2>6. Coherent(new)
      BY <1>1, <1>3, <2>1, <2>2, <2>3, <2>4, <2>5
      DEF Good, Coherent, Bound, Granted, Narrowed, HasAccess
    <2> QED
      BY <1>2, <1>3, <2>5, <2>6 DEF Good, ClaimInScope
  <1> QED
    BY <1>1, <1>3, EndAuthorityGood DEF ManageAccess, Good

\* A reported navigation withdraws the tab and ends a claim on it.
LEMMA UrlChangedGood ==
    ASSUME IndInv, NEW t \in Tabs, NEW s \in OpenSites, NEW byAgent \in BOOLEAN,
           UrlChanged(t, s, byAgent)
    PROVE  Good(auth')
  <1> DEFINE c == IF ClaimedHere(auth, t) THEN Takeover(auth.control) ELSE auth.control
  <1>1. auth \in Auths /\ auth.control \in Controls
    BY DEF IndInv, Good, Auths
  <1>2. CASE auth' = [auth EXCEPT !.pending[t] = s, !.control = c]
             /\ auth.binding.scope[t] # "unshared"
    <2>1. c \in Controls
      BY <1>1, ControlSteps
    <2>2. /\ HasAccess(c) <=> HasAccess(auth.control)
          /\ c.state = "no_access" <=> auth.control.state = "no_access"
          /\ c.state = "agent_claimed" =>
                c = auth.control /\ ~ClaimedHere(auth, t)
      BY ControlEffects DEF Takeover, ClaimedHere, HasAccess
    <2> HIDE DEF c
    <2>3. auth' \in Auths
      BY <1>1, <1>2, <2>1 DEF Auths, Pendings
    <2>4. /\ auth'.consent = auth.consent /\ auth'.binding = auth.binding
          /\ auth'.control = c /\ auth'.pending = [auth.pending EXCEPT ![t] = s]
      BY <1>1, <1>2 DEF Auths
    <2>5. Bound(auth)
      BY <1>2 DEF IndInv, Good, Coherent, NoBinding, NoScope
    <2>6. Coherent(auth')
      BY <2>2, <2>4, <2>5 DEF IndInv, Good, Coherent, Bound, Granted, Shared
    <2>7. ClaimInScope(auth')
      BY <1>1, <2>2, <2>4 DEF IndInv, Good, ClaimInScope, Shared, ClaimedHere, Auths, Pendings
    <2> QED
      BY <2>3, <2>6, <2>7 DEF Good
  <1>3. CASE auth' = [auth EXCEPT !.control = Takeover(auth.control)]
    BY <1>3, TakeoverGood DEF IndInv, ApplyControl
  <1>4. CASE auth' = auth
    BY <1>4 DEF IndInv
  <1>5. auth = [auth EXCEPT !.control = auth.control]
    BY <1>1 DEF Auths
  <1> QED
    BY <1>2, <1>3, <1>4, <1>5 DEF UrlChanged

\* A claim taken after its lookup is on a tab that may be claimed.
LEMMA ClaimCommitGood ==
    ASSUME IndInv, NEW p \in Calls, ClaimCommit(p)
    PROVE  Good(auth')
  <1>1. PICK t \in ReadTabs(call[p]) :
           LET a == IF call[p].read[t] = "closed" THEN auth ELSE Current
           IN  auth' = IF ContextAuthorized(a, t, call[p].read[t], "interact")
                       THEN ApplyControl(a, Claim(a.control, t, call[p].audience))
                       ELSE AfterContextAuthorization(a, t, call[p].read[t])
    BY DEF ClaimCommit
  <1> DEFINE a == IF call[p].read[t] = "closed" THEN auth ELSE Current
             c == Claim(a.control, t, call[p].audience)
  <1>2. Good(a) /\ t \in Tabs
    BY EnsureGood DEF IndInv, Current, ReadTabs
  <1>3. CASE ContextAuthorized(a, t, call[p].read[t], "interact")
    <2>1. c \in Controls
      BY <1>2 DEF IndInv, Good, TypeOK, Auths, Claim, Controls, ControlStates, CallRecords
    <2>2. /\ HasAccess(c) <=> HasAccess(a.control)
          /\ c.state = "no_access" <=> a.control.state = "no_access"
          /\ c.state = "agent_claimed" => c.claimedTab = t \/ c = a.control
      BY DEF Claim, MayClaim, HasAccess
    <2>3. t \in Shared(a) /\ "interact" \in a.binding.actions /\ a.pending[t] = "none"
      BY <1>2, <1>3 DEF ContextAuthorized, EvaluateTabAccess, Shared
    <2> HIDE DEF a, c
    <2>4. Good(ApplyControl(a, c))
      BY <1>2, <2>1, <2>2, <2>3, ApplyControlGood
    <2> QED
      BY <1>1, <1>3, <2>4 DEF a, c
  <1>4. CASE ~ContextAuthorized(a, t, call[p].read[t], "interact")
    BY <1>1, <1>2, <1>4, RemoveTabGood DEF AfterContextAuthorization
  <1> QED
    BY <1>3, <1>4

\* No step leaves the authority state anything but good.
LEMMA NextGood ==
    ASSUME IndInv, [Next]_vars
    PROVE  Good(auth')
  <1> USE DEF IndInv
  <1>c. Good(Current)
    BY EnsureGood DEF Current
  <1>1. CASE UNCHANGED auth
    BY <1>1
  <1>2. CASE Popup
    <2>1. ASSUME NEW p \in Calls, NEW a \in Audiences, NEW mode \in {"none", "session", "fixed"},
                 NEW acts \in SUBSET Actions, NEW bg \in BOOLEAN, NEW picked \in SUBSET Tabs,
                 NEW cc \in BOOLEAN, GrantStart(p, a, mode, acts, bg, picked, cc)
          PROVE  Good(auth')
      BY <2>1, <1>c DEF GrantStart
    <2>2. ASSUME NEW p \in Calls, NEW t \in Tabs, ConfirmStart(p, t) \/ AddStart(p, t)
          PROVE  Good(auth')
      BY <2>2, <1>c DEF ConfirmStart, AddStart
    <2>3. ASSUME NEW t \in Tabs, ExcludeTab(t)
          PROVE  Good(auth')
      BY <2>3, RemoveTabGood DEF ExcludeTab
    <2>4. CASE RevokeByUser
      BY <2>4, EndAuthorityGood DEF RevokeByUser, Good
    <2>5. CASE UserTakeover
      BY <2>5, TakeoverGood DEF UserTakeover
    <2>6. CASE UserResume
      <3>1. Resume(auth.control) \in Controls
        BY ControlSteps DEF Good, Auths
      <3>2. HasAccess(auth.control)
        BY <2>6 DEF UserResume, HasAccess
      <3>3. Good(ApplyControl(auth, Resume(auth.control)))
        BY <3>1, <3>2, ControlEffects, ApplyControlGood DEF HasAccess
      <3> QED
        BY <2>6, <3>3 DEF UserResume
    <2> QED
      BY <1>2, <2>1, <2>2, <2>3, <2>4, <2>5, <2>6, GrantCommitGood, ConfirmCommitGood,
         AddCommitGood, ManageAccessGood DEF Popup
  <1>3. CASE Browser
    <2>1. ASSUME NEW t \in Tabs, TabRemoved(t)
          PROVE  Good(auth')
      BY <2>1, RemoveTabGood DEF TabRemoved
    <2>2. ASSUME NEW t \in Tabs, UserGesture(t)
          PROVE  Good(auth')
      BY <2>2, TakeoverGood DEF UserGesture
    <2>3. CASE TabSwitchConfirmed
      BY <2>3, TakeoverGood DEF TabSwitchConfirmed
    <2> QED
      BY <1>1, <1>3, <2>1, <2>2, <2>3, UrlChangedGood
      DEF Browser, CloseTab, Navigate, TabSwitched, TabSwitchDismissed
  <1>4. CASE Environment
    <2>1. ASSUME NEW ok \in BOOLEAN, HostStatus(ok)
          PROVE  Good(auth')
      BY <2>1, EnsureGood DEF HostStatus
    <2>2. CASE HostDisconnected
      BY <2>2, DropBindingGood DEF HostDisconnected, Good
    <2>3. ASSUME NEW v \in {"ahead", "passed", "untrusted"}, ClockMoves(v)
          PROVE  Good(auth')
      <3>1. auth' \in Auths
        BY <2>3, EnvironmentType, <1>4 DEF TypeOK
      <3>2. auth' = [auth EXCEPT !.consent = [auth.consent EXCEPT !.deadline = v]]
        BY <2>3 DEF ClockMoves, Good, Auths
      <3>3. /\ auth'.binding = auth.binding /\ auth'.control = auth.control
            /\ auth'.pending = auth.pending
            /\ auth'.consent = [auth.consent EXCEPT !.deadline = v]
        BY <3>2 DEF Good, Auths
      <3>4. /\ auth'.consent.mode = auth.consent.mode
            /\ auth'.consent.grant = auth.consent.grant
            /\ auth'.consent.audience = auth.consent.audience
            /\ auth'.consent.actions = auth.consent.actions
            /\ auth'.consent.background = auth.consent.background
        BY <3>3 DEF Good, Auths, Consents
      <3> QED
        BY <3>1, <3>3, <3>4 DEF Good, Coherent, ClaimInScope, Bound, Granted, Shared
    <2>4. CASE AuthorityTick
      BY <2>4, <1>c DEF AuthorityTick
    <2>5. CASE Restart
      <3>1. auth' \in Auths
        BY <1>4, EnvironmentType DEF TypeOK
      <3>2. CreateControl.state = "no_access"
            /\ RebindRequired(CreateControl).state = "rebinding"
        BY DEF CreateControl, RebindRequired, Unclaimed
      <3> QED
        BY <2>5, <3>1, <3>2 DEF Restart, Good, Coherent, ClaimInScope, Bound, Granted,
                               NoBinding, NoConsent, HasAccess
    <2> QED
      BY <1>4, <2>1, <2>2, <2>3, <2>4, <2>5 DEF Environment
  <1>5. CASE Agent
    <2>a. Current \in Auths /\ Current.control \in Controls
      BY <1>c DEF Good, Auths
    <2>1. ASSUME NEW p \in Calls, NEW a \in Audiences, NEW t \in Tabs, ClaimStart(p, a, t)
          PROVE  Good(auth')
      BY <2>1, <1>c DEF ClaimStart
    <2>2. ASSUME NEW a \in Audiences, AgentRelease(a)
          PROVE  Good(auth')
      <3>1. HasAccess(Current.control)
        BY <2>2, <1>c DEF AgentRelease, Authorized, Good, Coherent
      <3>2. Release(Current.control) \in Controls
        BY <2>a, ControlSteps
      <3>3. Good(ApplyControl(Current, Release(Current.control)))
        BY <1>c, <3>1, <3>2, ControlEffects, ApplyControlGood DEF HasAccess
      <3> QED
        BY <2>2, <1>c, <3>3 DEF AgentRelease
    <2>3. ASSUME NEW a \in Audiences, AgentTakeover(a)
          PROVE  Good(auth')
      BY <2>3, <1>c, TakeoverGood DEF AgentTakeover
    <2>4. ASSUME NEW a \in Audiences, AgentRequestResume(a)
          PROVE  Good(auth')
      <3>1. RequestResume(Current.control) \in Controls
        BY <2>a, ControlSteps
      <3>2. /\ RequestResume(Current.control).state = Current.control.state
            /\ RequestResume(Current.control).claimedTab = Current.control.claimedTab
        BY <2>a DEF RequestResume, Controls
      <3>3. Good(ApplyControl(Current, RequestResume(Current.control)))
        BY <1>c, <3>1, <3>2, ApplyControlGood DEF HasAccess
      <3> QED
        BY <2>4, <3>3 DEF AgentRequestResume
    <2> QED
      BY <1>5, <2>1, <2>2, <2>3, <2>4, ClaimCommitGood DEF Agent
  <1>6. CASE \E p \in Calls, t \in Tabs : ReadTab(p, t)
    BY <1>1, <1>6 DEF ReadTab
  <1> QED
    BY <1>1, <1>2, <1>3, <1>4, <1>5, <1>6 DEF Next, vars

\* Only GrantStart starts a grant call, and it names a duration unless it rebinds.
LEMMA NextGrantCalls ==
    ASSUME IndInv, [Next]_vars
    PROVE  GrantCallsNameMode'
  <1> USE DEF IndInv, GrantCallsNameMode, TypeOK
  <1>1. ASSUME NEW p \in Calls, NEW a \in Audiences, NEW mode \in {"none", "session", "fixed"},
               NEW acts \in SUBSET Actions, NEW bg \in BOOLEAN, NEW picked \in SUBSET Tabs,
               NEW cc \in BOOLEAN, GrantStart(p, a, mode, acts, bg, picked, cc)
        PROVE  GrantCallsNameMode'
    BY <1>1 DEF GrantStart
  <1>2. ASSUME NEW p \in Calls, NEW t \in Tabs, ReadTab(p, t)
        PROVE  GrantCallsNameMode'
    <2>1. call[p] \in CallRecords /\ call'[p] = [call[p] EXCEPT !.todo = @ \ {t}, !.read[t] = site[t]]
      BY <1>2 DEF ReadTab
    <2>2. /\ call'[p].kind = call[p].kind /\ call'[p].rebinding = call[p].rebinding
          /\ call'[p].mode = call[p].mode
      BY <2>1 DEF CallRecords
    <2>3. \A q \in Calls : q # p => call'[q] = call[q]
      BY <1>2 DEF ReadTab
    <2> QED
      BY <2>2, <2>3
  <1>3. ASSUME NEW p \in Calls, NEW r, r.kind # "grant", call' = [call EXCEPT ![p] = r]
        PROVE  GrantCallsNameMode'
    BY <1>3
  <1>4. IdleCall.kind # "grant"
    BY DEF IdleCall
  <1>5. CASE \E p \in Calls : \/ GrantCommit(p) \/ ConfirmCommit(p) \/ AddCommit(p)
                              \/ ClaimCommit(p)
    BY <1>3, <1>4, <1>5 DEF GrantCommit, ConfirmCommit, AddCommit, ClaimCommit
  <1>6. CASE \E p \in Calls, t \in Tabs :
               \/ ConfirmStart(p, t) \/ AddStart(p, t)
               \/ \E a \in Audiences : ClaimStart(p, a, t)
    BY <1>3, <1>6 DEF ConfirmStart, AddStart, ClaimStart, TabCall
  <1>7. CASE Restart
    BY <1>4, <1>7 DEF Restart
  <1>8. CASE UNCHANGED call
    BY <1>8
  <1>9. CASE Browser
    BY <1>8, <1>9 DEF Browser, CloseTab, TabRemoved, UserGesture, Navigate, UrlChanged,
                      TabSwitched, TabSwitchConfirmed, TabSwitchDismissed
  <1>10. CASE Environment
    BY <1>7, <1>8, <1>10 DEF Environment, HostStatus, HostDisconnected, ClockMoves, AuthorityTick
  <1>11. CASE Agent
    BY <1>5, <1>6, <1>8, <1>11 DEF Agent, AgentRelease, AgentTakeover, AgentRequestResume
  <1>12. CASE Popup
    <2>1. CASE \E keep \in SUBSET Tabs, acts \in SUBSET Actions, bg \in BOOLEAN :
                 ManageAccess(keep, acts, bg)
      BY <1>8, <2>1 DEF ManageAccess
    <2>2. CASE (\E t \in Tabs : ExcludeTab(t)) \/ RevokeByUser \/ UserTakeover \/ UserResume
      BY <1>8, <2>2 DEF ExcludeTab, RevokeByUser, UserTakeover, UserResume
    <2> QED
      BY <1>1, <1>5, <1>6, <1>12, <2>1, <2>2 DEF Popup
  <1> QED
    BY <1>2, <1>8, <1>9, <1>10, <1>11, <1>12 DEF Next, vars

\* The inductive invariant holds in every reachable state: types, grants in flight
\* that name their duration, and a coherent authority.
THEOREM Invariance == Spec => []IndInv
  <1>1. Init => IndInv
    <2>1. SUFFICES ASSUME Init PROVE IndInv
      OBVIOUS
    <2>2. TypeOK /\ auth \in Auths
      BY <2>1, InitType DEF TypeOK
    <2> QED
      BY <2>1, <2>2 DEF Init, IndInv, GrantCallsNameMode, IdleCall, Good, Coherent, ClaimInScope,
         NoConsent, NoBinding, CreateControl, Bound, Granted, HasAccess
  <1>2. IndInv /\ [Next]_vars => IndInv'
    BY NextType, NextGood, NextGrantCalls DEF IndInv
  <1> QED
    BY <1>1, <1>2, PTL DEF Spec

\* Consent, binding and control tell one story in every reachable state.
THEOREM Coherence == Spec => []AuthorityCoherent
  <1>1. IndInv => AuthorityCoherent
    BY DEF IndInv, Good, AuthorityCoherent
  <1> QED
    BY <1>1, Invariance, PTL

\* The agent's claim never outlives the scope that allowed it.
THEOREM ClaimStaysInScope == Spec => []ClaimWithinScope
  <1>1. IndInv => ClaimWithinScope
    BY DEF IndInv, Good, ClaimWithinScope
  <1> QED
    BY <1>1, Invariance, PTL

-----------------------------------------------------------------------------
(* What one step may do to the control machine and to the binding's host.  *)

\* A claim generation that is not left has the same claim.
Renamed(c, d) ==
    \/ d.claimGeneration > c.claimGeneration
    \/ d = [c EXCEPT !.resumeRequested = d.resumeRequested]

\* The agent may act only after an idle or claimed state.
Held(c) == c.state \notin {"shared_idle", "agent_claimed"}

\* What every operation on control keeps, but for a grant and the user's Resume.
Kept(c, d) == Renamed(c, d) /\ (Held(c) => Held(d))

\* Only a claim makes a claim.
ClaimFree(c, d) == d.state = "agent_claimed" => d = c

\* A binding that is there was there, for the same host process.
SameHost(a, b) == Bound(b) => Bound(a) /\ b.binding.session = a.binding.session

\* What the helpers of background.js keep from one authority state to the next.
Quiet(a, b) ==
    Kept(a.control, b.control) /\ ClaimFree(a.control, b.control) /\ SameHost(a, b)

\* Kept composes.
LEMMA KeptTransitive ==
    ASSUME NEW c \in Controls, NEW d \in Controls, NEW e \in Controls, Kept(c, d), Kept(d, e)
    PROVE  Kept(c, e)
  <1>1. Held(c) => Held(e)
    BY DEF Kept
  <1>2. CASE d.claimGeneration > c.claimGeneration
    <2>1. e.claimGeneration >= d.claimGeneration
      BY DEF Kept, Renamed, Controls
    <2> QED
      BY <1>1, <1>2, <2>1 DEF Kept, Renamed, Controls
  <1>3. CASE d = [c EXCEPT !.resumeRequested = d.resumeRequested]
    <2>1. CASE e.claimGeneration > d.claimGeneration
      BY <1>1, <1>3, <2>1 DEF Kept, Renamed, Controls
    <2>2. CASE e = [d EXCEPT !.resumeRequested = e.resumeRequested]
      <3>1. e = [c EXCEPT !.resumeRequested = e.resumeRequested]
        BY <1>3, <2>2 DEF Controls
      <3> QED
        BY <1>1, <3>1 DEF Kept, Renamed
    <2> QED
      BY <2>1, <2>2 DEF Kept, Renamed
  <1> QED
    BY <1>2, <1>3 DEF Kept, Renamed

\* What the helpers keep composes.
LEMMA QuietTransitive ==
    ASSUME NEW a \in Auths, NEW b \in Auths, NEW c \in Auths, Quiet(a, b), Quiet(b, c)
    PROVE  Quiet(a, c)
  <1>1. a.control \in Controls /\ b.control \in Controls /\ c.control \in Controls
    BY DEF Auths
  <1>2. Kept(a.control, c.control)
    BY <1>1, KeptTransitive DEF Quiet
  <1> QED
    BY <1>2 DEF Quiet, ClaimFree, SameHost

\* The operations of policy.js that every handler but grant and resume uses.
LEMMA KeptByPolicy ==
    ASSUME NEW c \in Controls
    PROVE  /\ Kept(c, c) /\ ClaimFree(c, c)
           /\ Kept(c, Revoke(c)) /\ ClaimFree(c, Revoke(c))
           /\ Kept(c, RebindRequired(c)) /\ ClaimFree(c, RebindRequired(c))
           /\ Kept(c, Takeover(c)) /\ ClaimFree(c, Takeover(c))
           /\ Kept(c, Release(c)) /\ ClaimFree(c, Release(c))
           /\ Kept(c, ScopeReduced(c)) /\ ClaimFree(c, ScopeReduced(c))
           /\ Kept(c, RequestResume(c)) /\ ClaimFree(c, RequestResume(c))
           /\ \A t \in Tabs : Kept(c, ContextGone(c, t)) /\ ClaimFree(c, ContextGone(c, t))
           /\ \A t \in Tabs, a \in Audiences \cup {NoAudience} : Kept(c, Claim(c, t, a))
  <1>1. c.claimGeneration + 1 > c.claimGeneration
    BY DEF Controls
  <1>2. \A s \in ControlStates, r \in BOOLEAN : Renamed(c, Unclaimed(c, s, r))
    BY <1>1 DEF Renamed, Unclaimed
  <1>3. c = [c EXCEPT !.resumeRequested = c.resumeRequested]
    BY DEF Controls
  <1>4. Kept(c, c) /\ ClaimFree(c, c)
    BY <1>3 DEF Kept, Renamed, ClaimFree
  <1>5. /\ Kept(c, Revoke(c)) /\ ClaimFree(c, Revoke(c))
        /\ Kept(c, RebindRequired(c)) /\ ClaimFree(c, RebindRequired(c))
    BY <1>1 DEF Kept, Renamed, Held, ClaimFree, Revoke, RebindRequired, Unclaimed
  <1>6. /\ Kept(c, Takeover(c)) /\ ClaimFree(c, Takeover(c))
        /\ Kept(c, Release(c)) /\ ClaimFree(c, Release(c))
    BY <1>1, <1>4 DEF Kept, Renamed, Held, ClaimFree, Takeover, Release, Unclaimed
  <1>7. Kept(c, ScopeReduced(c)) /\ ClaimFree(c, ScopeReduced(c))
    <2>1. CASE HasAccess(c)
      <3> DEFINE s == IF c.state = "user_control" THEN "user_control" ELSE "shared_idle"
      <3>1. ScopeReduced(c) = Unclaimed(c, s, FALSE) /\ s \in ControlStates
        BY <2>1 DEF ScopeReduced, ControlStates
      <3>2. Unclaimed(c, s, FALSE).state = s
        BY DEF Unclaimed
      <3>3. Held(c) => Held(ScopeReduced(c))
        BY <2>1, <3>1, <3>2 DEF Held, HasAccess, Controls, ControlStates
      <3>4. ClaimFree(c, ScopeReduced(c))
        BY <3>1, <3>2 DEF ClaimFree
      <3> QED
        BY <1>2, <3>1, <3>3, <3>4 DEF Kept
    <2> QED
      BY <1>4, <2>1 DEF ScopeReduced
  <1>8. Kept(c, RequestResume(c)) /\ ClaimFree(c, RequestResume(c))
    <2>1. CASE c.state = "user_control"
      <3>1. [c EXCEPT !.resumeRequested = TRUE].resumeRequested = TRUE
        BY DEF Controls
      <3>2. [c EXCEPT !.resumeRequested = TRUE].state = "user_control"
        BY <2>1 DEF Controls
      <3> QED
        BY <2>1, <3>1, <3>2 DEF RequestResume, Kept, Renamed, Held, ClaimFree
    <2>2. CASE c.state # "user_control"
      BY <1>4, <2>2 DEF RequestResume
    <2> QED
      BY <2>1, <2>2
  <1>9. ASSUME NEW t \in Tabs
        PROVE  Kept(c, ContextGone(c, t)) /\ ClaimFree(c, ContextGone(c, t))
    BY <1>1, <1>4 DEF Kept, Renamed, Held, ClaimFree, ContextGone, Unclaimed
  <1>10. ASSUME NEW t \in Tabs, NEW a \in Audiences \cup {NoAudience}
         PROVE  Kept(c, Claim(c, t, a))
    BY <1>1, <1>4 DEF Kept, Renamed, Held, Claim, MayClaim
  <1> QED
    BY <1>4, <1>5, <1>6, <1>7, <1>8, <1>9, <1>10

\* Nothing moved, or only control did, by an operation of policy.js.
LEMMA ControlQuiet ==
    ASSUME NEW a \in Auths, NEW c \in Controls, Kept(a.control, c), ClaimFree(a.control, c)
    PROVE  Quiet(a, ApplyControl(a, c))
  BY DEF Quiet, SameHost, Bound, ApplyControl, Auths

LEMMA SameQuiet ==
    ASSUME NEW a \in Auths
    PROVE  Quiet(a, a)
  BY KeptByPolicy DEF Quiet, SameHost, Auths

\* endAuthority, dropBinding and ensureAuthorityCurrent.
LEMMA EnsureQuiet ==
    ASSUME NEW a \in Auths, NEW h
    PROVE  /\ Quiet(a, EndAuthority(a))
           /\ Quiet(a, DropBinding(a))
           /\ Quiet(a, EnsureAuthorityCurrent(a, h))
  <1>1. a.control \in Controls
    BY DEF Auths
  <1>2. Quiet(a, EndAuthority(a))
    BY <1>1, KeptByPolicy DEF Quiet, SameHost, Bound, NoBinding, EndAuthority
  <1>3. Quiet(a, DropBinding(a))
    BY <1>1, <1>2, KeptByPolicy DEF Quiet, SameHost, Bound, NoBinding, DropBinding
  <1> QED
    BY <1>2, <1>3, SameQuiet DEF EnsureAuthorityCurrent

\* removeTabFromScope.
LEMMA RemoveTabQuiet ==
    ASSUME NEW a \in Auths, NEW t \in Tabs
    PROVE  Quiet(a, RemoveTabFromScope(a, t))
  <1> DEFINE b == [a EXCEPT !.binding.scope[t] = "unshared", !.pending[t] = "none",
                            !.control = ContextGone(a.control, t)]
  <1>1. ContextGone(a.control, t) \in Controls
    BY DEF Auths, ContextGone, Unclaimed, Controls, ControlStates
  <1>2. [a.binding EXCEPT !.scope[t] = "unshared"] \in Bindings
    BY DEF Auths, Bindings, Scopes
  <1>3. [a.pending EXCEPT ![t] = "none"] \in Pendings
    BY DEF Auths, Pendings
  <1>4. /\ b \in Auths /\ b.control = ContextGone(a.control, t)
        /\ b.binding = [a.binding EXCEPT !.scope[t] = "unshared"]
    BY <1>1, <1>2, <1>3 DEF Auths
  <1>5. b.binding.instance = a.binding.instance /\ b.binding.session = a.binding.session
    BY <1>4 DEF Auths, Bindings
  <1>6. Quiet(a, b)
    BY <1>4, <1>5, KeptByPolicy DEF Quiet, SameHost, Bound, Auths
  <1>7. Quiet(a, EndAuthority(b))
    BY <1>4, <1>6, EnsureQuiet, EndAuthorityType, QuietTransitive
  <1> QED
    BY <1>6, <1>7, SameQuiet DEF RemoveTabFromScope

\* Current, which most entry points begin with.
LEMMA CurrentQuiet ==
    ASSUME TypeOK
    PROVE  Current \in Auths /\ Quiet(auth, Current)
  BY EnsureType, EnsureQuiet DEF TypeOK, Current

\* A control operation on the current authority.
LEMMA CurrentControlQuiet ==
    ASSUME TypeOK, NEW c \in Controls,
           Kept(Current.control, c), ClaimFree(Current.control, c)
    PROVE  Quiet(auth, ApplyControl(Current, c))
  <1>1. auth \in Auths /\ Current \in Auths /\ Quiet(auth, Current)
    BY CurrentQuiet DEF TypeOK
  <1>2. ApplyControl(Current, c) \in Auths
    BY <1>1, ApplyControlType
  <1>3. Quiet(Current, ApplyControl(Current, c))
    BY <1>1, ControlQuiet
  <1> QED
    BY <1>1, <1>2, <1>3, QuietTransitive

\* A change of what is shared or pending that leaves control and the binding's identity.
LEMMA ScopeQuiet ==
    ASSUME NEW a \in Auths, NEW b, b.control = a.control,
           b.binding.instance = a.binding.instance, b.binding.session = a.binding.session
    PROVE  Quiet(a, b)
  BY KeptByPolicy DEF Quiet, SameHost, Bound, Auths

\* The popup handlers, but for the grant and the user's Resume.
LEMMA PopupQuiet ==
    ASSUME TypeOK, Popup
    PROVE  \/ Quiet(auth, auth') \/ UserResume
           \/ \E p \in Calls : GrantCommit(p)
  <1>1. auth \in Auths /\ Current \in Auths /\ Quiet(auth, Current) /\ Quiet(auth, auth)
    BY CurrentQuiet, SameQuiet DEF TypeOK
  <1>2. ASSUME NEW p \in Calls, NEW t \in Tabs, ConfirmStart(p, t) \/ AddStart(p, t)
        PROVE  Quiet(auth, auth')
    BY <1>1, <1>2 DEF ConfirmStart, AddStart
  <1>3. ASSUME NEW p \in Calls, NEW a \in Audiences, NEW mode \in {"none", "session", "fixed"},
               NEW acts \in SUBSET Actions, NEW bg \in BOOLEAN, NEW picked \in SUBSET Tabs,
               NEW cc \in BOOLEAN, GrantStart(p, a, mode, acts, bg, picked, cc)
        PROVE  Quiet(auth, auth')
    BY <1>1, <1>3 DEF GrantStart
  <1>4. ASSUME NEW p \in Calls, ConfirmCommit(p)
        PROVE  Quiet(auth, auth')
    <2>1. PICK t \in Tabs : auth' = ConfirmOrigin(auth, t, call[p].read[t])
      BY <1>4 DEF ConfirmCommit, ReadTabs
    <2> DEFINE b == [auth EXCEPT !.binding.scope[t] = call[p].read[t], !.pending[t] = "none"]
    <2>2. /\ b.control = auth.control /\ b.binding.instance = auth.binding.instance
          /\ b.binding.session = auth.binding.session
      BY <1>1 DEF Auths, Bindings
    <2>3. Quiet(auth, b)
      BY <1>1, <2>2, ScopeQuiet
    <2> QED
      BY <1>1, <2>1, <2>3 DEF ConfirmOrigin
  <1>5. ASSUME NEW p \in Calls, AddCommit(p)
        PROVE  Quiet(auth, auth')
    <2>1. PICK t \in Tabs : \/ auth' = auth
                            \/ auth' = [auth EXCEPT !.binding.scope[t] = call[p].read[t]]
      BY <1>5 DEF AddCommit, ReadTabs
    <2> DEFINE b == [auth EXCEPT !.binding.scope[t] = call[p].read[t]]
    <2>2. /\ b.control = auth.control /\ b.binding.instance = auth.binding.instance
          /\ b.binding.session = auth.binding.session
      BY <1>1 DEF Auths, Bindings
    <2>3. Quiet(auth, b)
      BY <1>1, <2>2, ScopeQuiet
    <2> QED
      BY <1>1, <2>1, <2>3
  <1>6. ASSUME NEW keep \in SUBSET Tabs, NEW acts \in SUBSET Actions, NEW bg \in BOOLEAN,
               ManageAccess(keep, acts, bg)
        PROVE  Quiet(auth, auth')
    <2> DEFINE a == Current
               b == [consent |-> [a.consent EXCEPT !.actions = acts, !.background = bg],
                     binding |-> Narrowed(a.binding, a.lastId + 1, keep, acts, bg),
                     control |-> ScopeReduced(a.control),
                     pending |-> NonePending,
                     lastId |-> a.lastId + 1]
    <2>1. Bound(a) /\ (auth' = EndAuthority(a) \/ auth' = a \/ auth' = b)
      BY <1>6 DEF ManageAccess
    <2>2. Quiet(auth, EndAuthority(a))
      BY <1>1, EnsureQuiet, EndAuthorityType, QuietTransitive
    <2>3. SameHost(a, b)
      BY <2>1 DEF SameHost, Narrowed
    <2>4. Quiet(a, b)
      BY <1>1, <2>3, KeptByPolicy DEF Quiet, Auths
    <2>5. auth' = b => Quiet(auth, b)
      <3> HAVE auth' = b
      <3>1. auth' \in Auths
        BY <1>6, PopupType DEF TypeOK
      <3> QED
        BY <1>1, <2>4, <3>1, QuietTransitive
    <2> QED
      BY <1>1, <2>1, <2>2, <2>5
  <1>7. ASSUME NEW t \in Tabs, ExcludeTab(t)
        PROVE  Quiet(auth, auth')
    BY <1>1, <1>7, RemoveTabQuiet DEF ExcludeTab
  <1>8. CASE RevokeByUser
    BY <1>1, <1>8, EnsureQuiet DEF RevokeByUser
  <1>9. CASE UserTakeover
    <2>1. Takeover(auth.control) \in Controls /\ auth.control \in Controls
      BY <1>1, ControlSteps DEF Auths
    <2> QED
      BY <1>1, <1>9, <2>1, KeptByPolicy, ControlQuiet DEF UserTakeover
  <1> QED
    BY <1>2, <1>3, <1>4, <1>5, <1>6, <1>7, <1>8, <1>9 DEF Popup

\* The browser's events.
LEMMA BrowserQuiet ==
    ASSUME TypeOK, Browser
    PROVE  Quiet(auth, auth')
  <1>1. auth \in Auths /\ Quiet(auth, auth) /\ auth.control \in Controls
    BY SameQuiet DEF TypeOK, Auths
  <1>2. Takeover(auth.control) \in Controls
    BY <1>1, ControlSteps
  <1>3. Quiet(auth, ApplyControl(auth, Takeover(auth.control)))
    BY <1>1, <1>2, KeptByPolicy, ControlQuiet
  <1>4. ASSUME NEW t \in Tabs, NEW s \in OpenSites, NEW byAgent \in BOOLEAN,
               UrlChanged(t, s, byAgent)
        PROVE  Quiet(auth, auth')
    <2>1. \/ auth' = auth
          \/ auth'.control = auth.control /\ auth'.binding = auth.binding
          \/ auth'.control = Takeover(auth.control) /\ auth'.binding = auth.binding
      BY <1>1, <1>4 DEF UrlChanged, Auths
    <2> QED
      BY <1>1, <2>1, KeptByPolicy, ScopeQuiet DEF Quiet, SameHost, Bound
  <1>5. ASSUME NEW t \in Tabs, TabRemoved(t)
        PROVE  Quiet(auth, auth')
    BY <1>1, <1>5, RemoveTabQuiet DEF TabRemoved
  <1> QED
    BY <1>1, <1>3, <1>4, <1>5 DEF Browser, CloseTab, UserGesture, Navigate, TabSwitched,
       TabSwitchConfirmed, TabSwitchDismissed

\* The agent's operations: nothing but a claim on a current grant makes a claim.
LEMMA AgentQuiet ==
    ASSUME TypeOK, Agent
    PROVE  /\ Kept(auth.control, auth'.control) /\ SameHost(auth, auth')
           /\ ClaimFree(auth.control, auth'.control) \/ auth.consent.deadline # "passed"
                \/ ~Granted(auth)
  <1>1. auth \in Auths /\ Current \in Auths /\ Quiet(auth, Current) /\ Current.control \in Controls
    BY CurrentQuiet DEF TypeOK, Auths
  <1>2. ASSUME NEW p \in Calls, NEW a \in Audiences, NEW t \in Tabs, ClaimStart(p, a, t)
        PROVE  Quiet(auth, auth')
    BY <1>1, <1>2 DEF ClaimStart
  <1>3. ASSUME NEW a \in Audiences, AgentRelease(a) \/ AgentTakeover(a) \/ AgentRequestResume(a)
        PROVE  Quiet(auth, auth')
    <2>1. /\ Quiet(auth, ApplyControl(Current, Release(Current.control)))
          /\ Quiet(auth, ApplyControl(Current, Takeover(Current.control)))
          /\ Quiet(auth, ApplyControl(Current, RequestResume(Current.control)))
      BY <1>1, ControlSteps, KeptByPolicy, CurrentControlQuiet
    <2> QED
      BY <1>1, <1>3, <2>1 DEF AgentRelease, AgentTakeover, AgentRequestResume
  <1>4. ASSUME NEW p \in Calls, ClaimCommit(p)
        PROVE  /\ Kept(auth.control, auth'.control) /\ SameHost(auth, auth')
               /\ ClaimFree(auth.control, auth'.control) \/ auth.consent.deadline # "passed"
                    \/ ~Granted(auth)
    <2> DEFINE c == call[p]
    <2>1. PICK t \in Tabs : LET a == IF c.read[t] = "closed" THEN auth ELSE Current
                            IN  auth' = IF ContextAuthorized(a, t, c.read[t], "interact")
                                        THEN ApplyControl(a, Claim(a.control, t, c.audience))
                                        ELSE AfterContextAuthorization(a, t, c.read[t])
      BY <1>4 DEF ClaimCommit, ReadTabs
    <2> DEFINE a == IF c.read[t] = "closed" THEN auth ELSE Current
    <2>2. a \in Auths /\ Quiet(auth, a)
      BY <1>1, SameQuiet
    <2>3. CASE ContextAuthorized(a, t, c.read[t], "interact")
      <3>1. auth' = ApplyControl(a, Claim(a.control, t, c.audience))
        BY <2>1, <2>3
      <3>2. c.read[t] # "closed"
        BY <2>3, PolicyAssumption DEF ContextAuthorized, EvaluateTabAccess
      <3>3. auth.consent.deadline = "passed" /\ Granted(auth) => ~Bound(Current)
        BY DEF Current, EnsureAuthorityCurrent, EndAuthority, Bound, NoBinding
      <3>4. auth.consent.deadline # "passed" \/ ~Granted(auth)
        BY <2>3, <3>2, <3>3 DEF ContextAuthorized
      <3>5. Kept(a.control, Claim(a.control, t, c.audience))
        <4>1. c.audience \in Audiences \cup {NoAudience}
          BY DEF TypeOK, CallRecords
        <4>2. a.control \in Controls
          BY <2>2 DEF Auths
        <4> QED
          BY <4>1, <4>2, KeptByPolicy
      <3>6. auth' \in Auths /\ auth'.control = Claim(a.control, t, c.audience) /\ SameHost(a, auth')
        <4>1. auth'.control = Claim(a.control, t, c.audience) /\ auth'.binding = a.binding
          BY <2>2, <3>1 DEF ApplyControl, Auths
        <4>2. auth' \in Auths
          BY AgentType DEF TypeOK
        <4> QED
          BY <4>1, <4>2 DEF SameHost, Bound
      <3>7. Kept(auth.control, auth'.control)
        BY <1>1, <2>2, <3>5, <3>6, KeptTransitive DEF Quiet, Auths
      <3> QED
        BY <2>2, <3>4, <3>6, <3>7 DEF Quiet, SameHost
    <2>4. CASE ~ContextAuthorized(a, t, c.read[t], "interact")
      <3>1. auth' = AfterContextAuthorization(a, t, c.read[t])
        BY <2>1, <2>4
      <3>2. Quiet(a, auth') /\ auth' \in Auths
        BY <2>2, <3>1, RemoveTabQuiet, RemoveTabType, SameQuiet DEF AfterContextAuthorization
      <3>3. Quiet(auth, auth')
        BY <1>1, <2>2, <3>2, QuietTransitive
      <3> QED
        BY <3>3 DEF Quiet
    <2> QED
      BY <2>3, <2>4
  <1> QED
    BY <1>2, <1>3, <1>4 DEF Agent, Quiet

\* What the clock, the host and a restart do; only a restart begins the generations anew.
LEMMA EnvironmentQuiet ==
    ASSUME TypeOK, Environment
    PROVE  \/ Quiet(auth, auth')
           \/ Restart /\ Held(auth'.control) /\ ~Bound(auth')
  <1>1. auth \in Auths /\ Quiet(auth, auth) /\ Quiet(auth, Current)
    BY CurrentQuiet, SameQuiet DEF TypeOK
  <1>2. ASSUME NEW ok \in BOOLEAN, HostStatus(ok)
        PROVE  Quiet(auth, auth')
    BY <1>1, <1>2, EnsureQuiet DEF HostStatus
  <1>3. CASE HostDisconnected
    BY <1>1, <1>3, EnsureQuiet DEF HostDisconnected
  <1>4. ASSUME NEW v \in {"ahead", "passed", "untrusted"}, ClockMoves(v)
        PROVE  Quiet(auth, auth')
    <2>1. auth'.control = auth.control /\ auth'.binding = auth.binding
      BY <1>1, <1>4 DEF ClockMoves, Auths
    <2> QED
      BY <1>1, <2>1, ScopeQuiet
  <1>5. CASE AuthorityTick
    BY <1>1, <1>5 DEF AuthorityTick
  <1>6. CASE Restart
    BY <1>6 DEF Restart, Held, CreateControl, RebindRequired, Unclaimed, Bound, NoBinding
  <1> QED
    BY <1>2, <1>3, <1>4, <1>5, <1>6 DEF Environment

\* Every step, by what it may do to control and to the binding.
LEMMA StepKinds ==
    ASSUME TypeOK, [Next]_vars
    PROVE  \/ Quiet(auth, auth') \/ UserResume \/ Agent
           \/ \E p \in Calls : GrantCommit(p)
           \/ Restart /\ Held(auth'.control) /\ ~Bound(auth')
  <1>1. UNCHANGED auth => Quiet(auth, auth')
    BY SameQuiet DEF TypeOK
  <1> QED
    BY <1>1, PopupQuiet, BrowserQuiet, EnvironmentQuiet DEF Next, ReadTab, vars

\* A grant or a resume gives the claim generation a new number.
LEMMA GrantedAnew ==
    ASSUME TypeOK, UserResume \/ \E p \in Calls : GrantCommit(p)
    PROVE  /\ Renamed(auth.control, auth'.control)
           /\ ClaimFree(auth.control, auth'.control)
  <1>1. auth \in Auths /\ auth.control \in Controls
    BY DEF TypeOK, Auths
  <1>2. Renamed(auth.control, auth.control) /\ ClaimFree(auth.control, auth.control)
    BY <1>1, KeptByPolicy DEF Kept
  <1>3. CASE UserResume
    <2>1. auth'.control = Unclaimed(auth.control, "shared_idle", FALSE)
      BY <1>1, <1>3 DEF UserResume, ApplyControl, Resume, Auths
    <2> QED
      BY <1>1, <2>1 DEF Renamed, ClaimFree, Unclaimed, Controls
  <1>4. ASSUME NEW p \in Calls, GrantCommit(p)
        PROVE  /\ Renamed(auth.control, auth'.control)
               /\ ClaimFree(auth.control, auth'.control)
    <2>1. \/ auth' = auth
          \/ auth'.control = Unclaimed(auth.control, "shared_idle", FALSE)
      BY <1>4 DEF GrantCommit, BindTo, Grant
    <2> QED
      BY <1>1, <1>2, <2>1 DEF Renamed, ClaimFree, Unclaimed, Controls
  <1> QED
    BY <1>3, <1>4

\* Within one run of the companion no two claims have the same generation.
THEOREM ClaimsAreNamed == Spec => GenerationNamesClaim
  <1>1. TypeOK /\ [Next]_vars =>
          [\/ Restart
           \/ auth'.control.claimGeneration > auth.control.claimGeneration
           \/ auth'.control = [auth.control EXCEPT !.resumeRequested = auth'.control.resumeRequested]
          ]_vars
    BY StepKinds, AgentQuiet, GrantedAnew DEF Quiet, Kept, Renamed
  <1> QED
    BY <1>1, TypeCorrect, PTL DEF Spec, GenerationNamesClaim

\* Only the user's Resume or a grant ends user control in the agent's favour.
THEOREM UserKeepsControl == Spec => UserControlHeld
  <1>1. TypeOK /\ [Next]_vars =>
          [auth.control.state = "user_control"
             /\ auth'.control.state \in {"shared_idle", "agent_claimed"}
           => UserResume \/ \E p \in Calls : GrantCommit(p)]_vars
    BY StepKinds, AgentQuiet DEF Quiet, Kept, Held
  <1> QED
    BY <1>1, TypeCorrect, PTL DEF Spec, UserControlHeld

\* After the deadline nothing claims a tab under the grant that has expired.
THEOREM ExpiredMakesNoClaim == Spec => ExpiredGrantsNothing
  <1>1. IndInv /\ [Next]_vars =>
          [auth.consent.deadline = "passed" /\ auth'.consent.grant = auth.consent.grant
           => \/ auth'.control.state # "agent_claimed"
              \/ auth'.control = auth.control]_vars
    <2> SUFFICES ASSUME IndInv, [Next]_vars, auth.consent.deadline = "passed",
                        auth'.control.state = "agent_claimed"
                 PROVE  auth'.control = auth.control
      OBVIOUS
    <2>1. TypeOK
      BY DEF IndInv
    <2>2. CASE Agent
      <3>1. CASE Granted(auth)
        BY <2>1, <2>2, <3>1, AgentQuiet DEF ClaimFree
      <3>2. CASE ~Granted(auth)
        BY <2>1, <2>2, <3>2, AgentQuiet DEF Kept, Held, IndInv, Good, Coherent
      <3> QED
        BY <3>1, <3>2
    <2> QED
      BY <2>1, <2>2, StepKinds, GrantedAnew DEF Quiet, ClaimFree, Held
  <1> QED
    BY <1>1, Invariance, PTL DEF Spec, ExpiredGrantsNothing

\* A connected companion is bound, if at all, to the host process it talks to.
THEOREM BoundToLiveHost == Spec => []BindingOfLiveHost
  <1>1. Init => BindingOfLiveHost
    BY DEF Init, BindingOfLiveHost
  <1>2. IndInv /\ BindingOfLiveHost /\ [Next]_vars => BindingOfLiveHost'
    <2> SUFFICES ASSUME IndInv, BindingOfLiveHost, [Next]_vars
                 PROVE  BindingOfLiveHost'
      OBVIOUS
    <2>1. TypeOK /\ (Bound(auth) => Granted(auth))
      BY DEF IndInv, Good, Coherent
    <2>2. SameHost(auth, auth') /\ UNCHANGED host => BindingOfLiveHost'
      BY DEF SameHost, BindingOfLiveHost
    <2>3. CASE \E p \in Calls : GrantCommit(p)
      BY <2>3 DEF GrantCommit, BindTo, BindingOfLiveHost, Bound
    <2>4. ASSUME NEW ok \in BOOLEAN, HostStatus(ok)
          PROVE  BindingOfLiveHost'
      <3>1. auth' = EnsureAuthorityCurrent(auth, host')
        BY <2>4 DEF HostStatus
      <3>2. Bound(auth') => auth' = auth /\ auth.binding.session = host'.session
        BY <2>1, <3>1 DEF EnsureAuthorityCurrent, Bound, EndAuthority, DropBinding, NoBinding
      <3> QED
        BY <3>2 DEF BindingOfLiveHost
    <2>5. CASE HostDisconnected
      BY <2>1, <2>5 DEF HostDisconnected, BindingOfLiveHost, TypeOK, Hosts
    <2>6. CASE Restart
      BY <2>6 DEF Restart, BindingOfLiveHost, Bound, NoBinding
    <2>7. CASE UserResume
      <3>1. auth'.binding = auth.binding /\ UNCHANGED host
        BY <2>1, <2>7 DEF UserResume, ApplyControl, TypeOK, Auths
      <3> QED
        BY <3>1 DEF BindingOfLiveHost, Bound
    <2>8. CASE Agent
      <3>1. UNCHANGED host
        BY <2>8 DEF Agent, ClaimStart, ClaimCommit, AgentRelease, AgentTakeover, AgentRequestResume
      <3> QED
        BY <2>1, <2>2, <2>8, <3>1, AgentQuiet
    <2>9. CASE Quiet(auth, auth') /\ UNCHANGED host
      BY <2>2, <2>9 DEF Quiet
    <2>10. \/ UNCHANGED host \/ HostDisconnected \/ Restart \/ \E ok \in BOOLEAN : HostStatus(ok)
      <3>1. Popup => UNCHANGED host
        BY DEF Popup, GrantStart, GrantCommit, ManageAccess, ConfirmStart, AddStart,
               ConfirmCommit, AddCommit, ExcludeTab, RevokeByUser, UserTakeover, UserResume
      <3>2. Browser => UNCHANGED host
        BY DEF Browser, CloseTab, TabRemoved, UserGesture, Navigate, UrlChanged, TabSwitched,
               TabSwitchConfirmed, TabSwitchDismissed
      <3>3. Agent => UNCHANGED host
        BY DEF Agent, ClaimStart, ClaimCommit, AgentRelease, AgentTakeover, AgentRequestResume
      <3> QED
        BY <3>1, <3>2, <3>3 DEF Next, Environment, ClockMoves, AuthorityTick, ReadTab, vars
    <2> QED
      BY <2>1, <2>3, <2>4, <2>5, <2>6, <2>7, <2>8, <2>9, <2>10, StepKinds
  <1> QED
    BY <1>1, <1>2, Invariance, PTL DEF Spec

=============================================================================
