----------------------------- MODULE GroupScope -----------------------------
(***************************************************************************)
(* The scope of a live binding as tabs and groups move: the tab and group  *)
(* operations of companion/control-ops.js, createOwnedTab and              *)
(* closeOwnedTab of background.js, and reconcileGroupsAfterEvent, which    *)
(* every topology event starts and which several events may run at once.   *)
(*                                                                         *)
(* An agent call and a reconcile run are processes that give way at every  *)
(* await and find, when they go on, another scope, another binding or      *)
(* none.  The popup and the browser act in between, each in one step: what *)
(* can go wrong inside a grant, a confirmation or a claim is the subject   *)
(* of Companion.  Abstracted: windows, pinned tabs, titles, colours and    *)
(* positions of groups, revisions, and which actions a grant names.        *)
(***************************************************************************)
EXTENDS Naturals, FiniteSets

CONSTANTS
    Tabs,         \* tab ids
    Sites,        \* origins
    Groups,       \* native groups
    NoGroup,      \* groupId -1
    NoTab,        \* no claimed context
    Calls,        \* requests of the agent that may be in flight together
    Runs,         \* runs of reconcileGroupsAfterEvent that may overlap
    MaxBindings,  \* bound: grants and reductions of access
    MaxUser,      \* bound: other actions of the user and of pages
    MaxCalls,     \* bound: requests of the agent
    MaxRuns,      \* bound: topology events
    MaxWork       \* bound: all of these together

ASSUME GroupScopeAssumption ==
    /\ NoGroup \notin Groups /\ NoTab \notin Tabs /\ Sites # {}
    /\ MaxBindings \in Nat /\ MaxUser \in Nat /\ MaxCalls \in Nat
    /\ MaxRuns \in Nat /\ MaxWork \in Nat

VARIABLES
    auth,     \* binding, its scope, pendingOriginChanges and control
    tab,      \* the tabs of the browser
    owned,    \* ownedTabIds
    moved,    \* agentMovedTabs
    shared,   \* history: the tabs the user shares, by choice or as frozen members
    created,  \* history: the tabs the agent opened
    call,     \* the agent's requests
    run,      \* the reconcile runs
    spent     \* how much of the bounds and which native groups are used up

vars == <<auth, tab, owned, moved, shared, created, call, run, spent>>

-----------------------------------------------------------------------------
(* A group is named by a handle that no other record of a group ever has: one for
   every binding that grants the group, and one, numbered 0, for the request of the
   agent that made it.  Direct marks a tab that was shared by itself. *)
Handles == (0..MaxBindings) \X Groups
Direct  == <<0, NoGroup>>
Policies == {"membership_snapshot", "follow_group"}

Entries      == [site : Sites, via : Handles \cup {Direct}]
ScopedGroups == [handle : Handles, native : Groups, policy : Policies, excluded : SUBSET Tabs]
Unscoped     == [handle |-> Direct, native |-> NoGroup, policy |-> "membership_snapshot",
                 excluded |-> {}]

(* scope.tabs is a function on the tabs in the scope. *)
Scopes == UNION {[S -> Entries] : S \in SUBSET Tabs}

Auths == [instance : 0..MaxBindings, live : BOOLEAN, tabs : Scopes, groups : SUBSET ScopedGroups,
          pending : SUBSET Tabs, claim : Tabs \cup {NoTab}, driving : BOOLEAN]

NoTabs  == [t \in {} |-> [site |-> CHOOSE s \in Sites : TRUE, via |-> Direct]]
Scope   == DOMAIN auth.tabs

BrowserTabs == [is : {"unborn", "open", "closed"}, site : Sites, group : Groups \cup {NoGroup}]
Members(g)  == {t \in Tabs : tab[t].is = "open" /\ tab[t].group = g}

(* The browser never gives the id of a group that is gone to another. *)
Unused(g)   == g \notin spent.groups

CallKinds == {"navigate", "reload", "create", "close", "group", "ungroup", "reshape", "new_group"}
CallStates ==
    [kind : CallKinds, tab : Tabs \cup {NoTab}, site : Sites, handle : Handles \cup {Direct},
     stage : {"idle", "observing", "looking", "focusing", "running", "resolved"},
     before : Sites,        \* previousOrigin of an owned tab that is navigated
     wasOwned : BOOLEAN]    \* owned, as navigateTab remembers it

RunStates ==
    [stage : {"idle", "looking", "looked", "asking", "asked", "weighing", "weighed"},
     check : SUBSET (Tabs \X Handles),     \* entries of the first loop still to come
     at : Tabs \cup {NoTab},               \* the tab that is looked at
     native : Groups \cup {NoGroup},       \* the group it should be in
     gone : BOOLEAN,                       \* what was read: it left, or it may not join
     site : Sites,                         \* its origin then
     todo : SUBSET ScopedGroups,           \* groups of the second loop still to come
     scoped : ScopedGroups \cup {Unscoped},
     found : SUBSET Tabs]                  \* members still to come

(* evaluateTabAccess: the entry, the group, a pending change, the origin. *)
InItsGroup(a, t) == \/ a.tabs[t].via = Direct
                    \/ \E g \in a.groups : g.handle = a.tabs[t].via /\ tab[t].group = g.native

Accessible(t) ==
    /\ auth.live /\ t \in Scope /\ tab[t].is = "open"
    /\ InItsGroup(auth, t)
    /\ t \notin auth.pending /\ auth.tabs[t].site = tab[t].site

-----------------------------------------------------------------------------
(* What changes the scope *)

(* endAuthority. *)
Ended(a) == [a EXCEPT !.live = FALSE, !.tabs = NoTabs, !.groups = {}, !.pending = {},
                      !.claim = NoTab, !.driving = FALSE]

(* MUTANT of Without: the claim stays with the tab that left. *)
Without_ClaimKept(a, gone) ==
    IF ~a.live THEN a
    ELSE IF DOMAIN a.tabs \ gone = {} THEN Ended(a)
    ELSE [a EXCEPT !.tabs = [t \in DOMAIN a.tabs \ gone |-> a.tabs[t]]]

(* Tabs leave: the claim goes with its tab, the authority with the last one. *)
Without(a, gone) ==
    IF ~a.live THEN a
    ELSE IF DOMAIN a.tabs \ gone = {} THEN Ended(a)
    ELSE [a EXCEPT !.tabs = [t \in DOMAIN a.tabs \ gone |-> a.tabs[t]],
                   !.claim = IF @ \in gone THEN NoTab ELSE @]

(* A tab leaves with the change that waits for the user; one that is not in the
   scope, or leaves with its group, keeps it. *)
WithoutTab(a, t) ==
    [Without(a, {t}) EXCEPT !.pending = IF t \in DOMAIN a.tabs THEN @ \ {t} ELSE @]

(* MUTANT of RemoveTab: the tab stays the agent's own. *)
RemoveTab_KeepOwned(t) ==
    /\ auth' = WithoutTab(auth, t)
    /\ owned' = owned
    /\ shared' = shared \ {t}

(* removeTabFromScope: from whatever binding is live. *)
RemoveTab(t) ==
    /\ auth' = WithoutTab(auth, t)
    /\ owned' = IF auth.live THEN owned \ {t} ELSE owned
    /\ shared' = shared \ {t}

(* removeGroupFromScope. *)
RemoveGroup(handle) ==
    LET via == {t \in Scope : auth.tabs[t].via = handle}
        known == auth.live /\ \E g \in auth.groups : g.handle = handle
    IN IF known
       THEN /\ auth' = Without([auth EXCEPT !.groups = {g \in @ : g.handle # handle}], via)
            /\ owned' = owned \ via
            /\ shared' = shared \ via
       ELSE UNCHANGED <<auth, owned, shared>>

With(a, t, entry) ==
    [a EXCEPT !.tabs = [u \in DOMAIN a.tabs \cup {t} |-> IF u = t THEN entry ELSE a.tabs[u]]]

(* MUTANT of NewHandle: a group is called by its native id. *)
NewHandle_Native(instance, g) == <<1, g>>

NewHandle(instance, g) == <<instance, g>>

MayWork == spent.user + spent.calls + spent.runs < MaxWork

Spend(what) == spent' = [spent EXCEPT ![what] = @ + 1]

-----------------------------------------------------------------------------
(* The popup *)

MayUser == spent.user < MaxUser /\ MayWork

(* A grant: the tabs that were picked and the members the picked groups have now. *)
UserGrants ==
    /\ ~auth.live /\ auth.instance < MaxBindings
    /\ \E picked \in SUBSET {t \in Tabs : tab[t].is = "open"}, chosen \in SUBSET Groups,
          policy \in Policies :
         LET inst == auth.instance + 1
             frozen == {t \in UNION {Members(g) : g \in chosen} : t \notin picked}
             Entry(t) == [site |-> tab[t].site,
                          via |-> IF t \in picked THEN Direct ELSE NewHandle(inst, tab[t].group)]
         IN /\ picked \cup frozen # {} /\ \A g \in chosen : Members(g) # {}
            /\ auth' = [instance |-> inst, live |-> TRUE,
                        tabs |-> [t \in picked \cup frozen |-> Entry(t)],
                        groups |-> {[handle |-> NewHandle(inst, g), native |-> g,
                                     policy |-> policy, excluded |-> {}] : g \in chosen},
                        pending |-> {}, claim |-> NoTab, driving |-> FALSE]
            /\ shared' = picked \cup frozen
    /\ owned' = {} /\ moved' = {}
    /\ UNCHANGED <<tab, created, call, run, spent>>

UserRevokes ==
    /\ auth.live
    /\ auth' = Ended(auth) /\ shared' = {}
    /\ UNCHANGED <<tab, owned, moved, created, call, run, spent>>

(* "Stop sharing this tab". *)
UserExcludes(t) ==
    /\ MayUser /\ auth.live /\ t \in Scope
    /\ RemoveTab(t)
    /\ Spend("user")
    /\ UNCHANGED <<tab, moved, created, call, run>>

(* "Manage access" keeps some tabs and groups; a member that is taken out of a
   group is written down in a new record of the group, and the binding gets a
   new identity. *)
UserManages ==
    /\ MayUser /\ auth.live /\ auth.instance < MaxBindings
    /\ \E keep \in SUBSET Scope, groups \in SUBSET auth.groups :
         LET Kept(t) == t \in keep /\ \/ auth.tabs[t].via = Direct
                                      \/ \E g \in groups : g.handle = auth.tabs[t].via
             gone == {t \in Scope : ~Kept(t)}
             Out(g) == {t \in Scope \ keep : auth.tabs[t].via = g.handle}
             new == [auth EXCEPT !.groups = {[g EXCEPT !.excluded = @ \cup Out(g)] : g \in groups},
                                 !.instance = @ + 1, !.pending = {}]
         IN /\ gone # {} \/ groups # auth.groups
            /\ auth' = [Without(new, gone) EXCEPT !.claim = NoTab]
            /\ owned' = owned \ gone
            /\ shared' = shared \ gone
    /\ Spend("user") /\ UNCHANGED <<tab, moved, created, call, run>>

(* "Add tabs": an explicit choice makes access through a group direct. *)
UserAdds(t) ==
    /\ MayUser /\ auth.live /\ tab[t].is = "open"
    /\ t \in Scope => auth.tabs[t].via # Direct
    /\ auth' = With(auth, t, [site |-> tab[t].site, via |-> Direct])
    /\ shared' = shared \cup {t}
    /\ Spend("user")
    /\ UNCHANGED <<tab, owned, moved, created, call, run>>

(* confirmOrigin: the site the tab shows now is approved.  A change that outlived
   its entry brings the tab back into the scope. *)
UserConfirms(t) ==
    /\ auth.live /\ t \in auth.pending /\ tab[t].is = "open"
    /\ LET via == IF t \in Scope THEN auth.tabs[t].via ELSE Direct
       IN auth' = [With(auth, t, [site |-> tab[t].site, via |-> via]) EXCEPT !.pending = @ \ {t}]
    /\ shared' = shared \cup {t}
    /\ UNCHANGED <<tab, owned, moved, created, call, run, spent>>

(* Take over and Resume. *)
UserDrives ==
    /\ MayUser /\ auth.live
    /\ auth' = [auth EXCEPT !.driving = ~@, !.claim = NoTab]
    /\ Spend("user")
    /\ UNCHANGED <<tab, owned, moved, shared, created, call, run>>

AgentClaims(t) ==
    /\ Accessible(t) /\ ~auth.driving /\ auth.claim = NoTab
    /\ spent.calls < MaxCalls /\ MayWork
    /\ auth' = [auth EXCEPT !.claim = t]
    /\ Spend("calls")
    /\ UNCHANGED <<tab, owned, moved, shared, created, call, run>>

-----------------------------------------------------------------------------
(* The browser, moved by the user, by pages or by the agent *)

(* tabs.onUpdated with another address: an origin that is not the recorded one
   waits for the user and ends a claim on the tab. *)
Shown(a, t, site) ==
    IF ~a.live \/ t \notin DOMAIN a.tabs \/ a.tabs[t].site = site THEN a
    ELSE [a EXCEPT !.pending = @ \cup {t},
                   !.driving = @ \/ a.claim = t,
                   !.claim = IF @ = t THEN NoTab ELSE @]

PageNavigates(t) ==
    /\ MayUser /\ tab[t].is = "open"
    /\ \E s \in Sites \ {tab[t].site} :
         /\ tab' = [tab EXCEPT ![t].site = s]
         /\ auth' = Shown(auth, t, s)
    /\ Spend("user")
    /\ UNCHANGED <<owned, moved, shared, created, call, run>>

(* A human drags a tab into a group or out of it. *)
UserMovesTab(t) ==
    /\ MayUser /\ tab[t].is = "open"
    /\ \E g \in Groups \cup {NoGroup} :
         /\ g # tab[t].group /\ (g # NoGroup => Members(g) # {} \/ Unused(g))
         /\ tab' = [tab EXCEPT ![t].group = g]
         /\ spent' = [spent EXCEPT !.user = @ + 1, !.groups = @ \cup ({g} \ {NoGroup})]
    /\ UNCHANGED <<auth, owned, moved, shared, created, call, run>>

(* tabs.onRemoved. *)
UserCloses(t) ==
    /\ MayUser /\ tab[t].is = "open"
    /\ tab' = [tab EXCEPT ![t].is = "closed", ![t].group = NoGroup]
    /\ auth' = WithoutTab(auth, t)
    /\ owned' = owned \ {t} /\ shared' = shared \ {t}
    /\ Spend("user")
    /\ UNCHANGED <<moved, created, call, run>>

-----------------------------------------------------------------------------
(* The agent's requests *)

IdleCall == [kind |-> "reload", tab |-> NoTab, site |-> CHOOSE s \in Sites : TRUE,
             handle |-> Direct, stage |-> "idle", before |-> CHOOSE s \in Sites : TRUE,
             wasOwned |-> FALSE]

Goes(c, stage) == call' = [call EXCEPT ![c].stage = stage]
Answered(c)    == call' = [call EXCEPT ![c] = IdleCall]

GroupKinds == {"group", "ungroup", "reshape"}

(* The first segment: create needs the binding, the group operations a group of
   the scope; writes to groups are refused while the user drives. *)
CallStarts(c) ==
    /\ call[c].stage = "idle" /\ auth.live
    /\ \E kind \in CallKinds, t \in Tabs \cup {NoTab}, s \in Sites,
          handle \in {g.handle : g \in auth.groups} \cup {Direct} :
         /\ kind \in GroupKinds <=> handle # Direct
         /\ kind \in GroupKinds \cup {"new_group"} => ~auth.driving
         /\ kind \in {"navigate", "create"} \/ s = IdleCall.site
         /\ kind = "create" <=> t = NoTab
         /\ IF kind = "create" THEN UNCHANGED spent ELSE spent.calls < MaxCalls /\ MayWork /\ Spend("calls")
         /\ call' = [call EXCEPT ![c] = [IdleCall EXCEPT
                !.kind = kind, !.tab = t, !.site = s, !.handle = handle,
                !.stage = CASE kind = "create" -> "running"
                            [] kind \in GroupKinds -> "observing"
                            [] OTHER -> "looking"]]
    /\ UNCHANGED <<auth, tab, owned, moved, shared, created, run>>

(* observeGroup: a group that is gone leaves the scope; a change of the whole
   group needs every member to be shared (requireCompleteMembership). *)
GroupObserved(c) ==
    LET g == call[c].handle[2] IN
    /\ call[c].stage = "observing"
    /\ IF Members(g) = {}
       THEN RemoveGroup(call[c].handle) /\ Answered(c)
       ELSE /\ UNCHANGED <<auth, owned, shared>>
            /\ IF call[c].kind = "reshape" /\ ~(\A t \in Members(g) : Accessible(t))
               THEN Answered(c) ELSE Goes(c, "looking")
    /\ UNCHANGED <<tab, moved, created, run, spent>>

(* contextAuthorization refuses a tab; one that is closed or has left its group
   loses its entry for good. *)
Refused(c) ==
    LET t == call[c].tab IN
    /\ call[c].stage = "looking" /\ ~Accessible(t)
    /\ IF auth.live /\ t \in Scope /\ (tab[t].is # "open" \/ ~InItsGroup(auth, t))
       THEN RemoveTab(t) ELSE UNCHANGED <<auth, owned, shared>>
    /\ Answered(c)
    /\ UNCHANGED <<tab, moved, created, run, spent>>

(* ownedOrClaimedForWrite. *)
MayWrite(t) == ~auth.driving /\ (t \in owned \/ auth.claim = t)

(* The tab may be touched: the request is sent, or waits for the focused window
   (a tab of the user), or is refused. *)
Looked(c) ==
    LET t == call[c].tab  kind == call[c].kind IN
    /\ call[c].stage = "looking" /\ Accessible(t)
    /\ \/ /\ kind = "navigate" /\ MayWrite(t) /\ t \in owned
          /\ auth' = [auth EXCEPT !.tabs[t].site = call[c].site, !.pending = @ \ {t}]
          /\ call' = [call EXCEPT ![c].stage = "running", ![c].before = auth.tabs[t].site,
                                  ![c].wasOwned = TRUE]
       \/ kind \in {"navigate", "reload"} /\ MayWrite(t) /\ t \notin owned
          /\ Goes(c, "focusing") /\ UNCHANGED auth
       \/ kind = "reload" /\ MayWrite(t) /\ t \in owned /\ Goes(c, "running") /\ UNCHANGED auth
       \/ kind = "close" /\ t \in owned /\ Goes(c, "running") /\ UNCHANGED auth
       \/ kind \in GroupKinds \cup {"new_group"} /\ Goes(c, "running") /\ UNCHANGED auth
       \/ /\ \/ kind \in {"navigate", "reload"} /\ ~MayWrite(t)
             \/ kind = "close" /\ t \notin owned
          /\ Answered(c) /\ UNCHANGED auth
    /\ UNCHANGED <<tab, owned, moved, shared, created, run, spent>>

(* The window has the focus, or control is in the background: the binding and
   the entry are read again, claim and control are not. *)
Focused(c) ==
    LET t == call[c].tab IN
    /\ call[c].stage = "focusing"
    /\ IF auth.live /\ (call[c].kind = "navigate" => t \in Scope /\ auth.tabs[t].site = call[c].site)
       THEN Goes(c, "running") ELSE Answered(c)
    /\ UNCHANGED <<auth, tab, owned, moved, shared, created, run, spent>>

NotFocused(c) ==
    /\ call[c].stage = "focusing" /\ Answered(c)
    /\ UNCHANGED <<auth, tab, owned, moved, shared, created, run, spent>>

(* tabs.update, tabs.remove. *)
TabObeys(c) ==
    LET t == call[c].tab  kind == call[c].kind IN
    /\ call[c].stage = "running" /\ kind # "create" /\ tab[t].is = "open"
    /\ \/ /\ kind = "navigate"
          /\ tab' = [tab EXCEPT ![t].site = call[c].site]
          /\ auth' = Shown(auth, t, call[c].site)
          /\ UNCHANGED <<owned, shared>>
       \/ /\ kind = "close"
          /\ tab' = [tab EXCEPT ![t].is = "closed", ![t].group = NoGroup]
          /\ auth' = WithoutTab(auth, t)
          /\ owned' = owned \ {t} /\ shared' = shared \ {t}
       \/ kind \in {"reload", "reshape"} /\ UNCHANGED <<tab, auth, owned, shared>>
    /\ Answered(c)
    /\ UNCHANGED <<moved, created, run, spent>>

(* tabs.group, tabs.ungroup: the browser moves the tab, the answer is still to come. *)
TabRegrouped(c) ==
    LET t == call[c].tab  kind == call[c].kind IN
    /\ call[c].stage = "running" /\ kind # "create" /\ tab[t].is = "open"
    /\ \/ kind = "group" /\ Members(call[c].handle[2]) # {}
          /\ tab' = [tab EXCEPT ![t].group = call[c].handle[2]]
          /\ Goes(c, "resolved") /\ UNCHANGED spent
       \/ /\ kind = "ungroup" /\ tab' = [tab EXCEPT ![t].group = NoGroup]
          /\ Goes(c, "resolved") /\ UNCHANGED spent
       \/ /\ kind = "new_group"
          /\ \E g \in Groups :
               /\ Unused(g)
               /\ tab' = [tab EXCEPT ![t].group = g]
               /\ spent' = [spent EXCEPT !.groups = @ \cup {g}]
               /\ call' = [call EXCEPT ![c].stage = "resolved", ![c].handle = NewHandle(0, g)]
    /\ UNCHANGED <<auth, owned, moved, shared, created, run>>

(* tabs.create. *)
TabCreated(c) ==
    /\ call[c].stage = "running" /\ call[c].kind = "create"
    /\ \E t \in Tabs :
         /\ tab[t].is = "unborn"
         /\ tab' = [tab EXCEPT ![t] = [is |-> "open", site |-> call[c].site, group |-> NoGroup]]
         /\ call' = [call EXCEPT ![c].stage = "resolved", ![c].tab = t]
         /\ created' = created \cup {t}
    /\ UNCHANGED <<auth, owned, moved, shared, run, spent>>

(* The browser refuses: an owned tab gets back the entry it had, in whatever
   scope there is now; without a binding that throws. *)
BrowserRefuses(c) ==
    LET t == call[c].tab IN
    /\ call[c].stage = "running"
    /\ auth' = IF call[c].wasOwned /\ auth.live
               THEN With(auth, t, [site |-> call[c].before, via |-> Direct]) ELSE auth
    /\ Answered(c)
    /\ UNCHANGED <<tab, owned, moved, shared, created, run, spent>>

(* registerOwnedTab, with the binding of that moment. *)
TabRegistered(c) ==
    LET t == call[c].tab IN
    /\ call[c].stage = "resolved" /\ call[c].kind = "create"
    /\ owned' = owned \cup {t}
    /\ auth' = IF auth.live THEN With(auth, t, [site |-> call[c].site, via |-> Direct]) ELSE auth
    /\ shared' = shared \ {t}
    /\ Answered(c)
    /\ UNCHANGED <<tab, moved, created, run, spent>>

(* The answer of tabs.group: from now on the tab counts as moved by the agent;
   a new group becomes a group of the scope, with no authority of its own. *)
RegroupResolved(c) ==
    LET t == call[c].tab  kind == call[c].kind  g == call[c].handle[2] IN
    /\ call[c].stage = "resolved"
    /\ \/ kind = "group" /\ moved' = moved \cup {t} /\ UNCHANGED <<auth, owned, shared>>
       \/ /\ kind = "ungroup"
          /\ IF Members(g) = {} THEN RemoveGroup(call[c].handle) ELSE UNCHANGED <<auth, owned, shared>>
          /\ UNCHANGED moved
       \/ /\ kind = "new_group"
          /\ auth' = IF auth.live
                     THEN [auth EXCEPT !.groups = @ \cup {[handle |-> call[c].handle,
                              native |-> g, policy |-> "membership_snapshot", excluded |-> {}]}]
                     ELSE auth
          /\ UNCHANGED <<owned, shared, moved>>
    /\ Answered(c)
    /\ UNCHANGED <<tab, created, run, spent>>

-----------------------------------------------------------------------------
(* reconcileGroupsAfterEvent.  The operators give the places where a run can
   be next, after it went on under the authority a. *)

IdleRun == [stage |-> "idle", check |-> {}, at |-> NoTab, native |-> NoGroup, gone |-> FALSE,
            site |-> CHOOSE s \in Sites : TRUE, todo |-> {}, scoped |-> Unscoped, found |-> {}]

NextGroup(x) ==
    IF x.todo = {} THEN {IdleRun}
    ELSE {[IdleRun EXCEPT !.stage = "asking", !.scoped = g, !.todo = x.todo \ {g}] : g \in x.todo}

(* A member joins if it is not in the scope, was not moved by the agent and not
   taken out; without a binding the loop throws. *)
MayJoin(x, a, t) == t \notin DOMAIN a.tabs /\ t \notin moved /\ t \notin x.scoped.excluded

NextMember(x, a) ==
    LET joining == {t \in x.found : MayJoin(x, a, t)} IN
    IF ~a.live /\ x.found # {} THEN {IdleRun}
    ELSE IF joining = {} THEN NextGroup(x)
    ELSE {[x EXCEPT !.stage = "weighing", !.at = t, !.found = @ \ {t}] : t \in joining}

NativeOf(a, handle) ==
    IF \E g \in a.groups : g.handle = handle
    THEN (CHOOSE g \in a.groups : g.handle = handle).native ELSE NoGroup

NextCheck(x, a) ==
    IF ~a.live THEN {IdleRun}
    ELSE IF x.check = {} THEN NextGroup([x EXCEPT !.todo = a.groups])
    ELSE {[x EXCEPT !.stage = "looking", !.at = p[1], !.native = NativeOf(a, p[2]),
                    !.check = @ \ {p}] : p \in x.check}

(* A topology event of any tab, group or window. *)
RunBegins(r) ==
    /\ run[r].stage = "idle" /\ auth.live /\ spent.runs < MaxRuns /\ MayWork
    /\ LET check == {<<t, auth.tabs[t].via>> : t \in {u \in Scope : auth.tabs[u].via # Direct}}
       IN \E x \in NextCheck([IdleRun EXCEPT !.check = check], auth) : run' = [run EXCEPT ![r] = x]
    /\ Spend("runs")
    /\ UNCHANGED <<auth, tab, owned, moved, shared, created, call>>

(* The browser answers tabs.get, tabs.query or eligibleTabForGrant. *)
RunReads(r) ==
    LET x == run[r] IN
    /\ \/ /\ x.stage = "looking"
          /\ run' = [run EXCEPT ![r].stage = "looked",
                                ![r].gone = \/ tab[x.at].is # "open" \/ x.native = NoGroup
                                            \/ tab[x.at].group # x.native]
       \/ /\ x.stage = "asking"
          /\ run' = [run EXCEPT ![r].stage = "asked", ![r].found = Members(x.scoped.native)]
       \/ /\ x.stage = "weighing"
          /\ run' = [run EXCEPT ![r].stage = "weighed", ![r].gone = tab[x.at].is # "open",
                                ![r].site = tab[x.at].site]
    /\ UNCHANGED <<auth, tab, owned, moved, shared, created, call, spent>>

(* The first loop goes on: a tab that was outside its group leaves the scope. *)
RunRemoves(r) ==
    /\ run[r].stage = "looked"
    /\ IF run[r].gone THEN RemoveTab(run[r].at) ELSE UNCHANGED <<auth, owned, shared>>
    /\ \E x \in NextCheck(run[r], auth') : run' = [run EXCEPT ![r] = x]
    /\ UNCHANGED <<tab, moved, created, call, spent>>

(* The second loop: a group that is gone leaves; only a followed one takes members in. *)
RunAsked(r) ==
    LET x == run[r] IN
    /\ x.stage = "asked"
    /\ IF x.found = {} THEN RemoveGroup(x.scoped.handle) ELSE UNCHANGED <<auth, owned, shared>>
    /\ \E y \in IF x.found # {} /\ x.scoped.policy = "follow_group"
                 THEN NextMember(x, auth') ELSE NextGroup(x) : run' = [run EXCEPT ![r] = y]
    /\ UNCHANGED <<tab, moved, created, call, spent>>

(* A member that was eligible joins the scope of this moment. *)
RunJoins(r) ==
    LET x == run[r] IN
    /\ x.stage = "weighed"
    /\ auth' = IF x.gone \/ ~auth.live THEN auth
               ELSE With(auth, x.at, [site |-> x.site, via |-> x.scoped.handle])
    /\ \E y \in IF ~x.gone /\ ~auth.live THEN {IdleRun} ELSE NextMember(x, auth') :
          run' = [run EXCEPT ![r] = y]
    /\ UNCHANGED <<tab, owned, moved, shared, created, call, spent>>

-----------------------------------------------------------------------------
Init ==
    /\ auth = [instance |-> 0, live |-> FALSE, tabs |-> NoTabs, groups |-> {}, pending |-> {},
               claim |-> NoTab, driving |-> FALSE]
    /\ tab \in [Tabs -> {b \in BrowserTabs : b.is # "closed" /\ b.site = IdleCall.site
                                           /\ (b.is = "unborn" => b.group = NoGroup)}]
    /\ owned = {} /\ moved = {} /\ shared = {} /\ created = {}
    /\ call = [c \in Calls |-> IdleCall]
    /\ run = [r \in Runs |-> IdleRun]
    /\ spent = [user |-> 0, calls |-> 0, runs |-> 0, groups |-> {g \in Groups : Members(g) # {}}]

User ==
    \/ UserGrants \/ UserRevokes \/ UserManages \/ UserDrives
    \/ \E t \in Tabs : \/ UserExcludes(t) \/ UserAdds(t) \/ UserConfirms(t) \/ AgentClaims(t)
                       \/ PageNavigates(t) \/ UserMovesTab(t) \/ UserCloses(t)

Agent == \E c \in Calls :
    \/ CallStarts(c) \/ GroupObserved(c) \/ Refused(c) \/ Looked(c) \/ Focused(c) \/ NotFocused(c)
    \/ TabObeys(c) \/ TabRegrouped(c) \/ TabCreated(c) \/ BrowserRefuses(c)
    \/ TabRegistered(c) \/ RegroupResolved(c)

Reconcile == \E r \in Runs :
    RunBegins(r) \/ RunReads(r) \/ RunRemoves(r) \/ RunAsked(r) \/ RunJoins(r)

Next == User \/ Agent \/ Reconcile

Spec == Init /\ [][Next]_vars

-----------------------------------------------------------------------------
(* Types, and the record that is kept beside a scope: what is claimed is in it. *)
TypeOK ==
    /\ auth \in Auths /\ auth.claim \in Scope \cup {NoTab}
    /\ tab \in [Tabs -> BrowserTabs]
    /\ owned \subseteq Tabs /\ moved \subseteq Tabs /\ shared \subseteq Tabs /\ created \subseteq Tabs
    /\ call \in [Calls -> CallStates] /\ run \in [Runs -> RunStates]

(* What the agent may do with a tab of its own (take it anywhere, close it,
   write without a claim) ends when the tab leaves the scope, on every one of
   the paths it can leave by: one that comes back by the user's choice is the
   user's, whatever call or run still remembers it as owned. *)
OwnedTabsAreShared == auth.live => owned \subseteq Scope

(* However many reconcile runs of however many bindings overlap, a tab can be
   touched only if the user shares it under the live binding, the agent opened
   it, or it is in a group the user chose to follow under this binding: what an
   earlier binding's run still writes opens nothing. *)
AccessIsConsented ==
    \A t \in Tabs : Accessible(t) =>
        \/ t \in shared \/ t \in created
        \/ \E g \in auth.groups : g.handle = auth.tabs[t].via /\ g.policy = "follow_group"
=============================================================================
