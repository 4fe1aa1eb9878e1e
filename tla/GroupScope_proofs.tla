------------------------- MODULE GroupScope_proofs -------------------------
(***************************************************************************)
(* Theorems about GroupScope, for every set of tabs, sites, groups, calls  *)
(* and reconcile runs and every bound: what the agent owns is shared, and  *)
(* what it can touch was consented to.                                     *)
(*                                                                         *)
(* The argument is about handles.  A handle stands for one group and one   *)
(* policy for good, in the scope and in every record a reconcile run still *)
(* holds; a new binding grants its groups under handles nobody holds yet,  *)
(* and the handles of groups the agent makes never follow their group.  So *)
(* an entry that a run writes late names a followed group of the live      *)
(* binding, or no group of it at all.                                      *)
(***************************************************************************)
EXTENDS GroupScope, TLAPS

-----------------------------------------------------------------------------
(* The inductive invariant                                                 *)

\* What is kept beside a scope is about the tabs in it; without a binding there is none.
AuthOK(a) ==
    /\ a \in Auths
    /\ a.claim \in DOMAIN a.tabs \cup {NoTab}
    /\ ~a.live => DOMAIN a.tabs = {} /\ a.groups = {}

\* What a request is about, according to its kind; an owned tab is among those the
\* agent opened, mine.
CallOK(x, mine) ==
    /\ x.stage # "idle" /\ x.kind # "create" => x.tab \in Tabs
    /\ x.stage # "idle" /\ x.kind \in GroupKinds => x.handle \in Handles
    /\ x.stage = "resolved" /\ x.kind = "create" => x.tab \in mine
    /\ x.stage = "resolved" /\ x.kind = "new_group" => x.handle \in {0} \X Groups
    /\ x.wasOwned => x.tab \in mine

\* A run looks at a tab, and takes members only into a followed group.
RunOK(x) ==
    /\ x.stage \in {"looking", "looked", "weighing", "weighed"} => x.at \in Tabs
    /\ x.stage \in {"weighing", "weighed"} => x.scoped.policy = "follow_group"

Typed ==
    /\ AuthOK(auth)
    /\ tab \in [Tabs -> BrowserTabs]
    /\ owned \subseteq created /\ moved \subseteq Tabs /\ shared \subseteq Tabs /\ created \subseteq Tabs
    /\ call \in [Calls -> CallStates] /\ \A c \in Calls : CallOK(call[c], created)
    /\ run \in [Runs -> RunStates] /\ \A r \in Runs : RunOK(run[r])

\* The records of groups, in the scope and in the hands of the runs.
Held(x) == x.todo \cup {x.scoped}
Records == auth.groups \cup UNION {Held(run[r]) : r \in Runs}

Alike(g, h) == g.handle = h.handle => g.policy = h.policy
Dated(g, n) == g.handle[1] <= n /\ (g.handle[1] = 0 => g.policy = "membership_snapshot")

Handled ==
    /\ \A g \in Records : Dated(g, auth.instance)
    /\ \A g, h \in Records : Alike(g, h)

\* Every tab in the scope is there by the user's choice, by the agent's opening it,
\* or as a member of a group the user lets the agent follow.
Followed(a, t) ==
    /\ a.tabs[t].via[1] # 0
    /\ \A g \in a.groups : g.handle = a.tabs[t].via => g.policy = "follow_group"

Chosen == \A t \in Scope : t \in shared \/ t \in created \/ Followed(auth, t)

IndInv == Typed /\ OwnedTabsAreShared /\ Handled /\ Chosen

-----------------------------------------------------------------------------
(* The operators on an authority                                           *)

LEMMA ScopeFunctions ==
  ASSUME NEW f
  PROVE  f \in Scopes <=> DOMAIN f \subseteq Tabs /\ f \in [DOMAIN f -> Entries]
  BY DEF Scopes

LEMMA Constants ==
  /\ IdleCall \in CallStates /\ IdleRun \in RunStates /\ NoTab \notin Tabs
  /\ NoTabs \in Scopes /\ DOMAIN NoTabs = {}
  /\ MaxBindings \in Nat
  <1>1. (CHOOSE s \in Sites : TRUE) \in Sites
    BY GroupScopeAssumption
  <1>2. IdleCall \in CallStates
    BY <1>1 DEF IdleCall, CallStates, CallKinds
  <1>3. IdleRun \in RunStates
    BY <1>1 DEF IdleRun, RunStates
  <1>4. NoTabs \in Scopes /\ DOMAIN NoTabs = {}
    BY ScopeFunctions DEF NoTabs
  <1> QED BY <1>2, <1>3, <1>4, GroupScopeAssumption

LEMMA EndedOK ==
  ASSUME NEW a, AuthOK(a)
  PROVE  /\ AuthOK(Ended(a)) /\ Ended(a).instance = a.instance /\ ~Ended(a).live
         /\ DOMAIN Ended(a).tabs = {} /\ Ended(a).groups = {}
  BY Constants DEF AuthOK, Auths, Ended

\* Tabs leave: the others keep their entries.
LEMMA WithoutOK ==
  ASSUME NEW a, AuthOK(a), NEW gone
  PROVE  /\ AuthOK(Without(a, gone)) /\ Without(a, gone).instance = a.instance
         /\ DOMAIN Without(a, gone).tabs = DOMAIN a.tabs \ gone
         /\ \A t \in DOMAIN a.tabs \ gone : Without(a, gone).tabs[t] = a.tabs[t]
         /\ Without(a, gone).groups \subseteq a.groups
         /\ Without(a, gone).live => a.live
  <1> DEFINE left == DOMAIN a.tabs \ gone
             b == [a EXCEPT !.tabs = [t \in left |-> a.tabs[t]],
                            !.claim = IF @ \in gone THEN NoTab ELSE @]
  <1>1. CASE ~a.live
    BY <1>1 DEF Without, AuthOK
  <1>2. CASE a.live /\ left = {}
    BY <1>2, EndedOK DEF Without
  <1>3. CASE a.live /\ left # {}
    <2>1. Without(a, gone) = b
      BY <1>3 DEF Without
    <2>2. a.tabs \in Scopes /\ a.claim \in DOMAIN a.tabs \cup {NoTab}
      BY DEF AuthOK, Auths
    <2>3. [t \in left |-> a.tabs[t]] \in Scopes
      BY <2>2, ScopeFunctions
    <2>4. /\ b.instance = a.instance /\ b.live = a.live /\ b.groups = a.groups /\ b.driving = a.driving
          /\ b.tabs = [t \in left |-> a.tabs[t]]
          /\ b.claim = IF a.claim \in gone THEN NoTab ELSE a.claim
      BY DEF AuthOK, Auths
    <2>5. b \in Auths
      BY <2>2, <2>3 DEF AuthOK, Auths
    <2> HIDE DEF b
    <2>6. AuthOK(b)
      BY <1>3, <2>2, <2>4, <2>5 DEF AuthOK
    <2> QED BY <2>1, <2>4, <2>6
  <1> QED BY <1>1, <1>2, <1>3

\* Other changes wait for the user: nobody enters or leaves the scope.
LEMMA PendingOK ==
  ASSUME NEW a, AuthOK(a), NEW P \in SUBSET Tabs
  PROVE  LET b == [a EXCEPT !.pending = P]
         IN  /\ AuthOK(b) /\ b.instance = a.instance /\ b.tabs = a.tabs /\ b.groups = a.groups
             /\ b.live = a.live
  BY DEF AuthOK, Auths

\* A tab leaves with its change.
LEMMA WithoutTabOK ==
  ASSUME NEW a, AuthOK(a), NEW t
  PROVE  /\ AuthOK(WithoutTab(a, t)) /\ WithoutTab(a, t).instance = a.instance
         /\ DOMAIN WithoutTab(a, t).tabs = DOMAIN a.tabs \ {t}
         /\ \A u \in DOMAIN a.tabs \ {t} : WithoutTab(a, t).tabs[u] = a.tabs[u]
         /\ WithoutTab(a, t).groups \subseteq a.groups
         /\ WithoutTab(a, t).live => a.live
  <1> DEFINE b == Without(a, {t})
             P == IF t \in DOMAIN a.tabs THEN b.pending \ {t} ELSE b.pending
  <1>1. AuthOK(b)
    BY WithoutOK
  <1>2. P \in SUBSET Tabs
    BY <1>1 DEF AuthOK, Auths
  <1> HIDE DEF b
  <1>3. WithoutTab(a, t) = [b EXCEPT !.pending = P]
    BY DEF WithoutTab, b
  <1> HIDE DEF P
  <1>4. /\ AuthOK(WithoutTab(a, t)) /\ WithoutTab(a, t).instance = b.instance
        /\ WithoutTab(a, t).tabs = b.tabs /\ WithoutTab(a, t).groups = b.groups
        /\ WithoutTab(a, t).live = b.live
    BY <1>1, <1>2, <1>3, PendingOK
  <1> QED BY <1>4, WithoutOK DEF b

\* A tab gets an entry: the others keep theirs.
LEMMA WithOK ==
  ASSUME NEW a, AuthOK(a), a.live, NEW t \in Tabs, NEW entry \in Entries
  PROVE  /\ AuthOK(With(a, t, entry))
         /\ With(a, t, entry) = [a EXCEPT !.tabs = With(a, t, entry).tabs]
         /\ With(a, t, entry).instance = a.instance /\ With(a, t, entry).groups = a.groups
         /\ With(a, t, entry).live
         /\ DOMAIN With(a, t, entry).tabs = DOMAIN a.tabs \cup {t}
         /\ With(a, t, entry).tabs[t] = entry
         /\ \A u \in DOMAIN a.tabs \ {t} : With(a, t, entry).tabs[u] = a.tabs[u]
  <1> DEFINE f == [u \in DOMAIN a.tabs \cup {t} |-> IF u = t THEN entry ELSE a.tabs[u]]
  <1>1. a.tabs \in Scopes /\ a.claim \in DOMAIN a.tabs \cup {NoTab}
    BY DEF AuthOK, Auths
  <1>2. f \in Scopes /\ DOMAIN f = DOMAIN a.tabs \cup {t}
    BY <1>1, ScopeFunctions
  <1>3. f[t] = entry /\ \A u \in DOMAIN a.tabs \ {t} : f[u] = a.tabs[u]
    OBVIOUS
  <1> HIDE DEF f
  <1>4. With(a, t, entry) = [a EXCEPT !.tabs = f]
    BY DEF With, f
  <1>5. AuthOK([a EXCEPT !.tabs = f])
    BY <1>1, <1>2 DEF AuthOK, Auths
  <1> QED BY <1>2, <1>3, <1>4, <1>5 DEF AuthOK, Auths

\* A page shows another site: nobody enters or leaves the scope.
LEMMA ShownOK ==
  ASSUME NEW a, AuthOK(a), NEW t, NEW site
  PROVE  /\ AuthOK(Shown(a, t, site)) /\ Shown(a, t, site).instance = a.instance
         /\ Shown(a, t, site).tabs = a.tabs /\ Shown(a, t, site).groups = a.groups
         /\ Shown(a, t, site).live = a.live
  <1>1. CASE ~a.live \/ t \notin DOMAIN a.tabs \/ a.tabs[t].site = site
    BY <1>1 DEF Shown
  <1>2. CASE a.live /\ t \in DOMAIN a.tabs /\ a.tabs[t].site # site
    <2>1. Shown(a, t, site) =
            [a EXCEPT !.pending = @ \cup {t}, !.driving = @ \/ a.claim = t,
                      !.claim = IF @ = t THEN NoTab ELSE @]
      BY <1>2 DEF Shown
    <2>2. t \in Tabs
      BY <1>2, ScopeFunctions DEF AuthOK, Auths
    <2> DEFINE d == a.driving \/ a.claim = t
               k == IF a.claim = t THEN NoTab ELSE a.claim
    <2>3. Shown(a, t, site) = [a EXCEPT !.pending = a.pending \cup {t}, !.driving = d, !.claim = k]
      BY <2>1 DEF AuthOK, Auths
    <2>4. d \in BOOLEAN /\ k \in DOMAIN a.tabs \cup {NoTab} /\ k \in Tabs \cup {NoTab}
      BY DEF AuthOK, Auths
    <2> HIDE DEF d, k
    <2> DEFINE b == [a EXCEPT !.pending = a.pending \cup {t}, !.driving = d, !.claim = k]
    <2>5. /\ b.instance = a.instance /\ b.tabs = a.tabs /\ b.groups = a.groups /\ b.live = a.live
          /\ b.pending = a.pending \cup {t} /\ b.claim = k
      BY DEF AuthOK, Auths
    <2>6. b \in Auths
      BY <2>2, <2>4 DEF AuthOK, Auths
    <2>7. AuthOK(b)
      <3> HIDE DEF b
      <3> QED BY <1>2, <2>4, <2>5, <2>6 DEF AuthOK
    <2> QED BY <2>3, <2>5, <2>7
  <1> QED BY <1>1, <1>2

-----------------------------------------------------------------------------
(* The places of a run                                                     *)

Plain(g) == g.handle[1] = 0 /\ g.policy = "membership_snapshot"

LEMMA UnscopedPlain == Plain(Unscoped) /\ Unscoped.policy # "follow_group"
  BY DEF Plain, Unscoped, Direct

LEMMA IdleRunOK == IdleRun \in RunStates /\ RunOK(IdleRun) /\ Held(IdleRun) = {Unscoped}
  BY Constants DEF IdleRun, RunOK, Held

LEMMA NextGroupOK ==
  ASSUME NEW x \in RunStates, NEW y \in NextGroup(x)
  PROVE  y \in RunStates /\ RunOK(y) /\ Held(y) \subseteq x.todo \cup {Unscoped}
  <1>1. CASE y = IdleRun
    BY <1>1, IdleRunOK
  <1>2. CASE y # IdleRun
    <2>1. PICK g \in x.todo : y = [IdleRun EXCEPT !.stage = "asking", !.scoped = g, !.todo = x.todo \ {g}]
      BY <1>2 DEF NextGroup
    <2>2. y \in RunStates /\ y.stage = "asking" /\ y.scoped = g /\ y.todo = x.todo \ {g}
      BY <2>1, Constants DEF RunStates
    <2> QED BY <2>2 DEF RunOK, Held
  <1> QED BY <1>1, <1>2

LEMMA NextMemberOK ==
  ASSUME NEW x \in RunStates, x.scoped.policy = "follow_group", NEW a, NEW y \in NextMember(x, a)
  PROVE  y \in RunStates /\ RunOK(y) /\ Held(y) \subseteq Held(x) \cup {Unscoped}
  <1>1. CASE y = IdleRun
    BY <1>1, IdleRunOK
  <1>2. CASE y \in NextGroup(x)
    BY <1>2, NextGroupOK DEF Held
  <1>3. CASE y # IdleRun /\ y \notin NextGroup(x)
    <2>1. PICK t \in x.found : y = [x EXCEPT !.stage = "weighing", !.at = t, !.found = @ \ {t}]
      BY <1>3 DEF NextMember
    <2>2. /\ y \in RunStates /\ y.stage = "weighing" /\ y.at = t /\ y.scoped = x.scoped /\ y.todo = x.todo
          /\ t \in Tabs
      BY <2>1 DEF RunStates
    <2> QED BY <2>2 DEF RunOK, Held
  <1> QED BY <1>1, <1>2, <1>3

LEMMA NextCheckOK ==
  ASSUME NEW x \in RunStates, NEW a, AuthOK(a), NEW y \in NextCheck(x, a)
  PROVE  y \in RunStates /\ RunOK(y) /\ Held(y) \subseteq Held(x) \cup a.groups \cup {Unscoped}
  <1>1. CASE ~a.live
    BY <1>1, IdleRunOK DEF NextCheck
  <1>2. CASE a.live /\ x.check = {}
    <2> DEFINE z == [x EXCEPT !.todo = a.groups]
    <2>1. z \in RunStates /\ z.todo = a.groups
      BY DEF RunStates, AuthOK, Auths
    <2>2. y \in NextGroup(z)
      BY <1>2 DEF NextCheck
    <2> HIDE DEF z
    <2> QED BY <2>1, <2>2, NextGroupOK
  <1>3. CASE a.live /\ x.check # {}
    <2>1. PICK p \in x.check : y = [x EXCEPT !.stage = "looking", !.at = p[1], !.native = NativeOf(a, p[2]),
                                             !.check = @ \ {p}]
      BY <1>3 DEF NextCheck
    <2>2. NativeOf(a, p[2]) \in Groups \cup {NoGroup}
      BY DEF NativeOf, AuthOK, Auths, ScopedGroups
    <2>3. p[1] \in Tabs
      BY <2>1 DEF RunStates
    <2>4. y \in RunStates
      BY <2>1, <2>2, <2>3 DEF RunStates
    <2>5. y.stage = "looking" /\ y.at = p[1] /\ y.scoped = x.scoped /\ y.todo = x.todo
      BY <2>1 DEF RunStates
    <2> QED BY <2>3, <2>4, <2>5 DEF RunOK, Held
  <1> QED BY <1>1, <1>2, <1>3

-----------------------------------------------------------------------------
(* A scope goes on                                                         *)

Same(g, h) == g.handle = h.handle /\ g.policy = h.policy

\* What every step but a grant does: handles and policies stay, tabs keep what they
\* are in the scope for, or come in by a choice, an opening, or a followed group.
Continues ==
    /\ AuthOK(auth') /\ auth.instance <= auth'.instance
    /\ \A g \in auth'.groups : Plain(g) \/ \E h \in auth.groups : Same(g, h)
    /\ \A t \in DOMAIN auth'.tabs :
          \/ t \in shared' \/ t \in created'
          \/ t \in Scope /\ auth'.tabs[t].via = auth.tabs[t].via /\ (t \in shared => t \in shared')
          \/ \E h \in Records : auth'.tabs[t].via = h.handle /\ h.policy = "follow_group"
    /\ auth'.live => owned' \subseteq DOMAIN auth'.tabs
    /\ shared' \subseteq Tabs /\ owned' \subseteq created'
    /\ created \subseteq created' /\ created' \subseteq Tabs

\* What the runs hold afterwards is what they or the scope held.
Carried == \A r \in Runs : Held(run'[r]) \subseteq Records \cup auth'.groups \cup {Unscoped}

LEMMA RecordsTyped ==
  ASSUME Typed
  PROVE  \A g \in Records : g \in ScopedGroups \cup {Unscoped} /\ g.handle[1] \in Nat
  <1>1. \A g \in Records : g \in ScopedGroups \cup {Unscoped}
    BY DEF Records, Typed, AuthOK, Auths, RunStates, Held
  <1>2. Unscoped.handle[1] = 0
    BY DEF Unscoped, Direct
  <1>3. \A g \in ScopedGroups : g.handle[1] \in Nat
    BY Constants DEF ScopedGroups, Handles
  <1> QED BY <1>1, <1>2, <1>3

LEMMA ContinuesHandled ==
  ASSUME Typed, Handled, Continues, Carried
  PROVE  Handled'
  <1>0. auth.instance \in Nat /\ auth'.instance \in Nat
    BY Constants DEF Typed, Continues, AuthOK, Auths
  <1>1. \A g \in Records' : Plain(g) \/ \E h \in Records : Same(g, h)
    <2>1. \A g \in auth'.groups : Plain(g) \/ \E h \in Records : Same(g, h)
      BY DEF Continues, Records
    <2>2. \A g \in Records' : g \in auth'.groups \/ g \in Records \/ g = Unscoped
      BY DEF Records, Carried
    <2> QED BY <2>1, <2>2, UnscopedPlain DEF Same
  <1>2. ASSUME NEW g \in Records' PROVE Dated(g, auth'.instance)
    <2>1. CASE Plain(g)
      BY <1>0, <2>1 DEF Plain, Dated
    <2>2. ASSUME NEW h \in Records, Same(g, h) PROVE Dated(g, auth'.instance)
      BY <1>0, <2>2, RecordsTyped DEF Same, Dated, Handled, Continues
    <2> QED BY <1>1, <2>1, <2>2
  <1>3. ASSUME NEW g \in Records', NEW h \in Records' PROVE Alike(g, h)
    <2>1. CASE Plain(g) /\ Plain(h)
      BY <2>1 DEF Plain, Alike
    <2>2. ASSUME NEW i \in Records, Same(g, i), Plain(h) PROVE Alike(g, h)
      BY <2>2 DEF Same, Dated, Handled, Plain, Alike
    <2>3. ASSUME NEW i \in Records, Same(h, i), Plain(g) PROVE Alike(g, h)
      BY <2>3 DEF Same, Dated, Handled, Plain, Alike
    <2>4. ASSUME NEW i \in Records, NEW j \in Records, Same(g, i), Same(h, j) PROVE Alike(g, h)
      BY <2>4 DEF Same, Handled, Alike
    <2> QED BY <1>1, <2>1, <2>2, <2>3, <2>4
  <1> QED BY <1>2, <1>3 DEF Handled

\* A group of the scope afterwards with the handle of a followed record follows too.
LEMMA FollowedOn ==
  ASSUME Typed, Handled, Continues, NEW t \in DOMAIN auth'.tabs, NEW h \in Records,
         auth'.tabs[t].via = h.handle, h.policy = "follow_group"
  PROVE  Followed(auth', t)
  <1>1. h.handle[1] # 0
    BY DEF Handled, Dated
  <1>2. ASSUME NEW g \in auth'.groups, g.handle = auth'.tabs[t].via PROVE g.policy = "follow_group"
    <2>1. ~Plain(g)
      BY <1>1, <1>2 DEF Plain
    <2>2. PICK i \in auth.groups : Same(g, i)
      BY <2>1 DEF Continues
    <2> QED BY <1>2, <2>2 DEF Same, Handled, Alike, Records
  <1> QED BY <1>1, <1>2 DEF Followed

LEMMA ContinuesChosen ==
  ASSUME Typed, Handled, Chosen, Continues
  PROVE  Chosen'
  <1> SUFFICES ASSUME NEW t \in DOMAIN auth'.tabs, t \notin shared', t \notin created'
               PROVE  Followed(auth', t)
    BY DEF Chosen, Scope, Followed
  <1>1. ASSUME NEW h \in Records, auth'.tabs[t].via = h.handle, h.policy = "follow_group"
        PROVE  Followed(auth', t)
    BY <1>1, FollowedOn
  <1>2. CASE t \in Scope /\ auth'.tabs[t].via = auth.tabs[t].via /\ (t \in shared => t \in shared')
    <2>1. Followed(auth, t)
      BY <1>2 DEF Chosen, Continues
    <2>2. ASSUME NEW g \in auth'.groups, g.handle = auth'.tabs[t].via PROVE g.policy = "follow_group"
      <3>1. ~Plain(g)
        BY <1>2, <2>1, <2>2 DEF Plain, Followed
      <3>2. PICK i \in auth.groups : Same(g, i)
        BY <3>1 DEF Continues
      <3> QED BY <1>2, <2>1, <2>2, <3>2 DEF Same, Followed
    <2> QED BY <1>2, <2>1, <2>2 DEF Followed
  <1> QED BY <1>1, <1>2 DEF Continues

-----------------------------------------------------------------------------
(* What the steps do to the scope                                          *)

LEMMA AuthFacts ==
  ASSUME Typed, OwnedTabsAreShared
  PROVE  /\ AuthOK(auth) /\ auth.instance \in Nat /\ auth.instance <= auth.instance
         /\ shared \subseteq Tabs /\ created \subseteq Tabs /\ owned \subseteq created
         /\ Scope = DOMAIN auth.tabs /\ Scope \subseteq Tabs
         /\ \A g \in auth.groups : Same(g, g)
         /\ auth.live => owned \subseteq DOMAIN auth.tabs
  BY Constants, ScopeFunctions DEF Typed, AuthOK, Auths, Scope, Same, OwnedTabsAreShared

\* Tabs may leave, and nothing else happens to the scope.
LEMMA Leaving ==
  ASSUME Typed, OwnedTabsAreShared, AuthOK(auth'), auth'.instance = auth.instance,
         auth'.groups \subseteq auth.groups, DOMAIN auth'.tabs \subseteq Scope,
         \A t \in DOMAIN auth'.tabs : auth'.tabs[t].via = auth.tabs[t].via /\ (t \in shared => t \in shared'),
         auth'.live => auth.live /\ owned' \subseteq DOMAIN auth'.tabs,
         shared' \subseteq shared, owned' \subseteq owned, created' = created
  PROVE  Continues
  BY AuthFacts DEF Continues

LEMMA Standing ==
  ASSUME Typed, OwnedTabsAreShared, UNCHANGED <<auth, owned, shared, created>>
  PROVE  Continues
  BY AuthFacts DEF Continues

LEMMA TabLeaves ==
  ASSUME Typed, OwnedTabsAreShared, NEW t, RemoveTab(t), created' = created
  PROVE  Continues
  <1>1. auth' = WithoutTab(auth, t) /\ shared' = shared \ {t}
        /\ owned' = IF auth.live THEN owned \ {t} ELSE owned
    BY DEF RemoveTab
  <1>2. /\ AuthOK(auth') /\ auth'.instance = auth.instance /\ DOMAIN auth'.tabs = Scope \ {t}
        /\ \A u \in DOMAIN auth'.tabs : auth'.tabs[u] = auth.tabs[u]
        /\ auth'.groups \subseteq auth.groups /\ (auth'.live => auth.live)
    BY <1>1, AuthFacts, WithoutTabOK
  <1>3. auth'.live => auth.live /\ owned' \subseteq DOMAIN auth'.tabs
    BY <1>1, <1>2, AuthFacts
  <1>4. shared' \subseteq shared /\ owned' \subseteq owned /\ \A u \in DOMAIN auth'.tabs : u \in shared => u \in shared'
    BY <1>1, <1>2
  <1> QED BY <1>2, <1>3, <1>4, Leaving, AuthFacts

LEMMA TabCloses ==
  ASSUME Typed, OwnedTabsAreShared, NEW t, auth' = WithoutTab(auth, t), owned' = owned \ {t},
         shared' = shared \ {t}, created' = created
  PROVE  Continues
  <1>1. /\ AuthOK(auth') /\ auth'.instance = auth.instance /\ DOMAIN auth'.tabs = Scope \ {t}
        /\ \A u \in DOMAIN auth'.tabs : auth'.tabs[u] = auth.tabs[u]
        /\ auth'.groups \subseteq auth.groups /\ (auth'.live => auth.live)
    BY AuthFacts, WithoutTabOK
  <1>2. auth'.live => auth.live /\ owned' \subseteq DOMAIN auth'.tabs
    BY <1>1, AuthFacts
  <1>3. shared' \subseteq shared /\ owned' \subseteq owned /\ \A u \in DOMAIN auth'.tabs : u \in shared => u \in shared'
    BY <1>1
  <1> QED BY <1>1, <1>2, <1>3, Leaving, AuthFacts

\* A group leaves with its members.
LEMMA GroupLeaves ==
  ASSUME Typed, OwnedTabsAreShared, NEW handle, RemoveGroup(handle), created' = created
  PROVE  Continues
  <1> DEFINE via == {t \in Scope : auth.tabs[t].via = handle}
             rest == {g \in auth.groups : g.handle # handle}
             a == [auth EXCEPT !.groups = rest]
  <1>1. CASE UNCHANGED <<auth, owned, shared>>
    BY <1>1, Standing
  <1>2. CASE ~UNCHANGED <<auth, owned, shared>>
    <2>1. auth.live /\ auth' = Without(a, via) /\ owned' = owned \ via /\ shared' = shared \ via
      BY <1>2 DEF RemoveGroup
    <2>2. AuthOK(a) /\ a.instance = auth.instance /\ a.tabs = auth.tabs /\ a.groups = rest
      BY <2>1 DEF Typed, AuthOK, Auths
    <2>3. rest \subseteq auth.groups
      OBVIOUS
    <2> HIDE DEF a, rest, via
    <2>4. /\ AuthOK(auth') /\ auth'.instance = auth.instance /\ DOMAIN auth'.tabs = Scope \ via
          /\ \A u \in DOMAIN auth'.tabs : auth'.tabs[u] = auth.tabs[u]
          /\ auth'.groups \subseteq auth.groups
      BY <2>1, <2>2, <2>3, AuthFacts, WithoutOK
    <2>5. owned' \subseteq DOMAIN auth'.tabs
      BY <2>1, <2>4, AuthFacts
    <2>6. shared' \subseteq shared /\ owned' \subseteq owned /\ \A u \in DOMAIN auth'.tabs : u \in shared => u \in shared'
      BY <2>1, <2>4
    <2> QED BY <2>1, <2>4, <2>5, <2>6, Leaving, AuthFacts
  <1> QED BY <1>1, <1>2

\* Only the claim, the control, the sites or the pending changes move.
LEMMA Within ==
  ASSUME Typed, OwnedTabsAreShared, UNCHANGED <<owned, shared, created>>, AuthOK(auth'),
         auth'.instance = auth.instance, auth'.groups = auth.groups, auth'.live => auth.live,
         DOMAIN auth'.tabs = Scope, \A t \in Scope : auth'.tabs[t].via = auth.tabs[t].via
  PROVE  Continues
  <1>1. auth'.live => auth.live /\ owned' \subseteq DOMAIN auth'.tabs
    BY AuthFacts
  <1> QED BY <1>1, Leaving, AuthFacts

\* A tab comes in: by choice, by an opening, or with a followed record.
LEMMA Joining ==
  ASSUME Typed, OwnedTabsAreShared, auth.live, NEW t \in Tabs, NEW entry \in Entries,
         \/ auth' = With(auth, t, entry)
         \/ \E P \in SUBSET Tabs : auth' = [With(auth, t, entry) EXCEPT !.pending = P],
         t \in shared' \/ t \in created' \/ (\E h \in Records : entry.via = h.handle /\ h.policy = "follow_group"),
         \A u \in shared \ {t} : u \in shared', shared' \subseteq Tabs,
         owned' \subseteq owned \cup {t}, owned' \subseteq created', created' = created
  PROVE  Continues
  <1>1. /\ AuthOK(auth') /\ auth'.instance = auth.instance /\ auth'.groups = auth.groups
        /\ DOMAIN auth'.tabs = Scope \cup {t} /\ auth'.tabs[t] = entry
        /\ \A u \in Scope \ {t} : auth'.tabs[u] = auth.tabs[u]
    <2> DEFINE a == With(auth, t, entry)
    <2>1. /\ AuthOK(a) /\ a.instance = auth.instance /\ a.groups = auth.groups
          /\ DOMAIN a.tabs = Scope \cup {t} /\ a.tabs[t] = entry
          /\ \A u \in Scope \ {t} : a.tabs[u] = auth.tabs[u]
      BY AuthFacts, WithOK
    <2> HIDE DEF a
    <2>2. CASE auth' = a
      BY <2>1, <2>2
    <2>3. ASSUME NEW P \in SUBSET Tabs, auth' = [a EXCEPT !.pending = P]
          PROVE  AuthOK(auth') /\ auth'.instance = a.instance /\ auth'.tabs = a.tabs /\ auth'.groups = a.groups
      BY <2>1, <2>3, PendingOK
    <2> QED BY <2>1, <2>2, <2>3 DEF a
  <1>2. owned' \subseteq DOMAIN auth'.tabs
    BY <1>1, AuthFacts
  <1>3. ASSUME NEW u \in DOMAIN auth'.tabs
        PROVE  \/ u \in shared' \/ u \in created'
               \/ u \in Scope /\ auth'.tabs[u].via = auth.tabs[u].via /\ (u \in shared => u \in shared')
               \/ \E h \in Records : auth'.tabs[u].via = h.handle /\ h.policy = "follow_group"
    BY <1>1, <1>3
  <1> QED BY <1>1, <1>2, <1>3, AuthFacts DEF Continues

-----------------------------------------------------------------------------
(* The user and the browser                                                *)

\* The calls and the runs are where they were.
CallsWait == call' = call /\ moved' = moved /\ created' = created
RunsWait == run' = run

LEMMA WaitingCarried ==
  ASSUME RunsWait
  PROVE  Carried
  BY DEF RunsWait, Carried, Records

UserButGrants ==
    \/ UserRevokes \/ UserManages \/ UserDrives
    \/ \E t \in Tabs : \/ UserExcludes(t) \/ UserAdds(t) \/ UserConfirms(t) \/ AgentClaims(t)
                       \/ PageNavigates(t) \/ UserMovesTab(t) \/ UserCloses(t)

LEMMA UserTabs ==
  ASSUME Typed, UserButGrants
  PROVE  CallsWait /\ RunsWait /\ tab' \in [Tabs -> BrowserTabs]
  <1>1. ASSUME NEW t \in Tabs, PageNavigates(t) \/ UserMovesTab(t) \/ UserCloses(t)
        PROVE  CallsWait /\ RunsWait /\ tab' \in [Tabs -> BrowserTabs]
    <2>1. CASE PageNavigates(t)
      BY <2>1 DEF PageNavigates, Typed, BrowserTabs, CallsWait, RunsWait
    <2>2. CASE UserMovesTab(t)
      BY <2>2 DEF UserMovesTab, Typed, BrowserTabs, CallsWait, RunsWait
    <2>3. CASE UserCloses(t)
      BY <2>3 DEF UserCloses, Typed, BrowserTabs, CallsWait, RunsWait
    <2> QED BY <1>1, <2>1, <2>2, <2>3
  <1>2. ASSUME \/ UserRevokes \/ UserManages \/ UserDrives
               \/ \E t \in Tabs : UserExcludes(t) \/ UserAdds(t) \/ UserConfirms(t) \/ AgentClaims(t)
        PROVE  UNCHANGED <<tab, moved, created, call, run>>
    BY <1>2 DEF UserRevokes, UserManages, UserDrives, UserExcludes, UserAdds, UserConfirms, AgentClaims
  <1> QED BY <1>1, <1>2 DEF UserButGrants, Typed, CallsWait, RunsWait

\* "Manage access" writes its own records of the groups that stay, under their handles.
LEMMA ManagesContinues ==
  ASSUME Typed, OwnedTabsAreShared, UserManages
  PROVE  Continues
  <1>1. PICK keep \in SUBSET Scope, groups \in SUBSET auth.groups :
         LET Kept(t) == t \in keep /\ \/ auth.tabs[t].via = Direct
                                      \/ \E g \in groups : g.handle = auth.tabs[t].via
             gone == {t \in Scope : ~Kept(t)}
             Out(g) == {t \in Scope \ keep : auth.tabs[t].via = g.handle}
             new == [auth EXCEPT !.groups = {[g EXCEPT !.excluded = @ \cup Out(g)] : g \in groups},
                                 !.instance = @ + 1, !.pending = {}]
         IN /\ auth' = [Without(new, gone) EXCEPT !.claim = NoTab]
            /\ owned' = owned \ gone
            /\ shared' = shared \ gone
    BY DEF UserManages
  <1> DEFINE Kept(t) == t \in keep /\ \/ auth.tabs[t].via = Direct
                                      \/ \E g \in groups : g.handle = auth.tabs[t].via
             gone == {t \in Scope : ~Kept(t)}
             Out(g) == {t \in Scope \ keep : auth.tabs[t].via = g.handle}
             Now(g) == [g EXCEPT !.excluded = @ \cup Out(g)]
             records == {Now(g) : g \in groups}
             new == [auth EXCEPT !.groups = records, !.instance = @ + 1, !.pending = {}]
  <1>2. auth' = [Without(new, gone) EXCEPT !.claim = NoTab] /\ owned' = owned \ gone /\ shared' = shared \ gone
    BY <1>1
  <1>3. auth.live /\ auth.instance + 1 \in 0..MaxBindings /\ created' = created
    <2>1. auth.live /\ auth.instance < MaxBindings /\ created' = created
      BY DEF UserManages
    <2>2. auth.instance \in 0..MaxBindings /\ MaxBindings \in Nat
      BY Constants DEF Typed, AuthOK, Auths
    <2> QED BY <2>1, <2>2
  <1>4. \A g \in groups : Now(g) \in ScopedGroups /\ Same(Now(g), g)
    <2> TAKE g \in groups
    <2>1. g \in ScopedGroups /\ Out(g) \subseteq Tabs
      BY AuthFacts DEF Typed, AuthOK, Auths
    <2> HIDE DEF Out
    <2> QED BY <2>1 DEF ScopedGroups, Same
  <1>5. records \subseteq ScopedGroups /\ \A g \in records : \E h \in auth.groups : Same(g, h)
    <2> HIDE DEF Now
    <2> QED BY <1>4
  <1>6. AuthOK(new) /\ new.groups = records /\ new.tabs = auth.tabs /\ new.instance = auth.instance + 1
    <2> HIDE DEF records
    <2>1. new.groups = records /\ new.tabs = auth.tabs /\ new.instance = auth.instance + 1 /\ new.pending = {}
          /\ new.live = auth.live /\ new.claim = auth.claim /\ new \in Auths
      BY <1>3, <1>5 DEF Typed, AuthOK, Auths
    <2> QED BY <1>3, <2>1, AuthFacts DEF AuthOK
  <1> HIDE DEF new, gone, records
  <1> DEFINE b == Without(new, gone)
  <1>7. /\ AuthOK(b) /\ b.instance = auth.instance + 1 /\ DOMAIN b.tabs = Scope \ gone
        /\ \A t \in Scope \ gone : b.tabs[t] = auth.tabs[t]
        /\ b.groups \subseteq records
    BY <1>6, AuthFacts, WithoutOK
  <1>8. /\ AuthOK(auth') /\ auth'.instance = b.instance /\ auth'.tabs = b.tabs /\ auth'.groups = b.groups
        /\ auth'.live = b.live
    <2> HIDE DEF b
    <2> QED BY <1>2, <1>7 DEF AuthOK, Auths, b
  <1> HIDE DEF b
  <1>9. owned' \subseteq DOMAIN auth'.tabs
    BY <1>2, <1>3, <1>7, <1>8, AuthFacts
  <1>10. \A t \in DOMAIN auth'.tabs :
            t \in Scope /\ auth'.tabs[t].via = auth.tabs[t].via /\ (t \in shared => t \in shared')
    BY <1>2, <1>7, <1>8
  <1> QED BY <1>2, <1>3, <1>5, <1>7, <1>8, <1>9, <1>10, AuthFacts DEF Continues

LEMMA UserContinues ==
  ASSUME Typed, OwnedTabsAreShared, UserButGrants
  PROVE  Continues
  <1>0. created' = created
    BY UserTabs DEF CallsWait
  <1>1. CASE UserRevokes
    <2>1. auth' = Ended(auth) /\ shared' = {} /\ owned' = owned
      BY <1>1 DEF UserRevokes
    <2> QED BY <1>0, <2>1, AuthFacts, EndedOK, Leaving
  <1>2. CASE UserManages
    BY <1>2, ManagesContinues
  <1>3. CASE UserDrives
    <2>1. auth' = [auth EXCEPT !.driving = ~@, !.claim = NoTab] /\ UNCHANGED <<owned, shared>> /\ auth.live
      BY <1>3 DEF UserDrives
    <2>2. /\ AuthOK(auth') /\ auth'.instance = auth.instance /\ auth'.groups = auth.groups
          /\ auth'.tabs = auth.tabs
      BY <2>1 DEF Typed, AuthOK, Auths
    <2> QED BY <1>0, <2>1, <2>2, Within DEF Scope
  <1>4. ASSUME NEW t \in Tabs, UserExcludes(t) PROVE Continues
    BY <1>0, <1>4, TabLeaves DEF UserExcludes
  <1>5. ASSUME NEW t \in Tabs, UserAdds(t) PROVE Continues
    <2>1. [site |-> tab[t].site, via |-> Direct] \in Entries
      BY DEF Typed, BrowserTabs, Entries
    <2>2. /\ auth.live /\ auth' = With(auth, t, [site |-> tab[t].site, via |-> Direct])
          /\ shared' = shared \cup {t} /\ owned' = owned
      BY <1>5 DEF UserAdds
    <2> QED BY <1>0, <2>1, <2>2, Joining, AuthFacts
  <1>6. ASSUME NEW t \in Tabs, AgentClaims(t) PROVE Continues
    <2>1. auth' = [auth EXCEPT !.claim = t] /\ UNCHANGED <<owned, shared>> /\ auth.live /\ t \in Scope
      BY <1>6 DEF AgentClaims, Accessible
    <2>2. /\ AuthOK(auth') /\ auth'.instance = auth.instance /\ auth'.groups = auth.groups
          /\ auth'.tabs = auth.tabs
      BY <2>1 DEF Typed, AuthOK, Auths, Scope
    <2> QED BY <1>0, <2>1, <2>2, Within DEF Scope
  <1>7. ASSUME NEW t \in Tabs, PageNavigates(t) PROVE Continues
    <2>1. PICK s \in Sites : auth' = Shown(auth, t, s)
      BY <1>7 DEF PageNavigates
    <2>2. UNCHANGED <<owned, shared>>
      BY <1>7 DEF PageNavigates
    <2> QED BY <1>0, <2>1, <2>2, ShownOK, AuthFacts, Within
  <1>8. ASSUME NEW t \in Tabs, UserMovesTab(t) PROVE Continues
    BY <1>0, <1>8, Standing DEF UserMovesTab
  <1>9. ASSUME NEW t \in Tabs, UserCloses(t) PROVE Continues
    BY <1>0, <1>9, TabCloses DEF UserCloses
  <1>10. ASSUME NEW t \in Tabs, UserConfirms(t) PROVE Continues
    <2> DEFINE via == IF t \in Scope THEN auth.tabs[t].via ELSE Direct
               entry == [site |-> tab[t].site, via |-> via]
               P == With(auth, t, entry).pending \ {t}
    <2>1. /\ auth.live /\ auth' = [With(auth, t, entry) EXCEPT !.pending = P]
          /\ shared' = shared \cup {t} /\ owned' = owned
      BY <1>10 DEF UserConfirms
    <2>2. auth.tabs \in Scopes
      BY DEF Typed, AuthOK, Auths
    <2>3. t \in Scope => auth.tabs[t] \in Entries
      BY <2>2, ScopeFunctions DEF Scope
    <2>4. tab[t].site \in Sites
      BY DEF Typed, BrowserTabs
    <2>5. entry \in Entries
      BY <2>3, <2>4 DEF Entries
    <2> HIDE DEF via, entry
    <2>6. AuthOK(With(auth, t, entry))
      BY <2>1, <2>5, WithOK DEF Typed
    <2>7. P \in SUBSET Tabs
      BY <2>6 DEF AuthOK, Auths
    <2> HIDE DEF P
    <2> QED BY <1>0, <2>1, <2>5, <2>7, Joining, AuthFacts
  <1> QED BY <1>1, <1>2, <1>3, <1>4, <1>5, <1>6, <1>7, <1>8, <1>9, <1>10 DEF UserButGrants

-----------------------------------------------------------------------------
(* A grant                                                                 *)

LEMMA GrantStep ==
  ASSUME Typed, Handled, UserGrants
  PROVE  /\ AuthOK(auth') /\ owned' = {} /\ moved' = {} /\ shared' = DOMAIN auth'.tabs
         /\ UNCHANGED <<tab, created, call, run>>
         /\ Handled'
  <1>1. PICK picked \in SUBSET {t \in Tabs : tab[t].is = "open"}, chosen \in SUBSET Groups,
             policy \in Policies :
         LET inst == auth.instance + 1
             frozen == {t \in UNION {Members(g) : g \in chosen} : t \notin picked}
             Entry(t) == [site |-> tab[t].site,
                          via |-> IF t \in picked THEN Direct ELSE NewHandle(inst, tab[t].group)]
         IN /\ auth' = [instance |-> inst, live |-> TRUE,
                        tabs |-> [t \in picked \cup frozen |-> Entry(t)],
                        groups |-> {[handle |-> NewHandle(inst, g), native |-> g,
                                     policy |-> policy, excluded |-> {}] : g \in chosen},
                        pending |-> {}, claim |-> NoTab, driving |-> FALSE]
            /\ shared' = picked \cup frozen
    BY DEF UserGrants
  <1> DEFINE inst == auth.instance + 1
             frozen == {t \in UNION {Members(g) : g \in chosen} : t \notin picked}
             Entry(t) == [site |-> tab[t].site,
                          via |-> IF t \in picked THEN Direct ELSE NewHandle(inst, tab[t].group)]
             tabs == [t \in picked \cup frozen |-> Entry(t)]
             Record(g) == [handle |-> NewHandle(inst, g), native |-> g, policy |-> policy, excluded |-> {}]
             groups == {Record(g) : g \in chosen}
  <1>2. auth' = [instance |-> inst, live |-> TRUE, tabs |-> tabs, groups |-> groups,
                 pending |-> {}, claim |-> NoTab, driving |-> FALSE]
        /\ shared' = picked \cup frozen
    BY <1>1
  <1>3. inst \in 0..MaxBindings /\ auth.instance \in Nat /\ inst = auth.instance + 1 /\ inst # 0
    <2>1. auth.instance < MaxBindings
      BY DEF UserGrants
    <2>2. auth.instance \in 0..MaxBindings /\ MaxBindings \in Nat
      BY Constants DEF Typed, AuthOK, Auths
    <2> QED BY <2>1, <2>2
  <1>4. \A g \in chosen : Record(g) \in ScopedGroups /\ Record(g).handle[1] = inst /\ Record(g).policy = policy
    BY <1>3 DEF ScopedGroups, NewHandle, Handles
  <1>5. tabs \in Scopes
    <2>1. \A t \in frozen : t \in Tabs /\ tab[t].group \in Groups
      BY DEF Members
    <2>2. \A t \in picked \cup frozen : t \in Tabs /\ tab[t].site \in Sites
      BY <2>1 DEF Typed, BrowserTabs
    <2>3. \A t \in picked \cup frozen : Entry(t) \in Entries
      <3> TAKE t \in picked \cup frozen
      <3>1. CASE t \in picked
        BY <2>2, <3>1 DEF Entries
      <3>2. CASE t \notin picked
        BY <1>3, <2>1, <2>2, <3>2 DEF Entries, NewHandle, Handles
      <3> QED BY <3>1, <3>2
    <2> HIDE DEF Entry, frozen
    <2>4. DOMAIN tabs = picked \cup frozen /\ tabs \in [picked \cup frozen -> Entries]
      BY <2>3
    <2> HIDE DEF tabs
    <2> QED BY <2>2, <2>4, ScopeFunctions
  <1>6. groups \subseteq ScopedGroups /\ \A g \in groups : g.handle[1] = inst /\ g.policy = policy
    <2> HIDE DEF Record
    <2> QED BY <1>4
  <1>7. DOMAIN tabs = picked \cup frozen
    OBVIOUS
  <1> HIDE DEF tabs, groups, inst, frozen
  <1>8. AuthOK(auth') /\ shared' = DOMAIN auth'.tabs /\ auth'.instance = inst /\ auth'.groups = groups
    BY <1>2, <1>3, <1>5, <1>6, <1>7 DEF AuthOK, Auths
  <1>9. owned' = {} /\ moved' = {} /\ UNCHANGED <<tab, created, call, run>>
    BY DEF UserGrants
  <1>10. \A g \in Records' : g \in groups \/ g \in Records
    BY <1>8, <1>9 DEF Records
  <1>11. \A g \in Records : g.handle[1] \in Nat /\ g.handle[1] <= auth.instance /\ Dated(g, inst)
    BY <1>3, RecordsTyped DEF Handled, Dated
  <1>12. \A g \in groups : Dated(g, inst)
    BY <1>3, <1>6 DEF Dated
  <1>13. \A g \in groups, h \in Records : g.handle # h.handle
    BY <1>3, <1>6, <1>11
  <1>14. \A g, h \in groups : Alike(g, h)
    BY <1>6 DEF Alike
  <1>15. Handled'
    BY <1>8, <1>10, <1>11, <1>12, <1>13, <1>14 DEF Handled, Alike
  <1> QED BY <1>8, <1>9, <1>15

-----------------------------------------------------------------------------
(* The requests of the agent                                               *)

AgentSteps(c) ==
    \/ CallStarts(c) \/ GroupObserved(c) \/ Refused(c) \/ Looked(c) \/ Focused(c) \/ NotFocused(c)
    \/ TabObeys(c) \/ TabRegrouped(c) \/ TabCreated(c) \/ BrowserRefuses(c)
    \/ TabRegistered(c) \/ RegroupResolved(c)

\* One call moves, to a state it may be in.
CallMoves(c) ==
    /\ \A d \in Calls \ {c} : call'[d] = call[d]
    /\ call' \in [Calls -> CallStates] /\ CallOK(call'[c], created')

LEMMA CallFacts ==
  ASSUME Typed, NEW c \in Calls
  PROVE  call[c] \in CallStates /\ CallOK(call[c], created) /\ CallOK(IdleCall, created)
  BY Constants DEF Typed, CallOK, IdleCall

LEMMA AnsweredMoves ==
  ASSUME Typed, NEW c \in Calls, Answered(c), created' = created
  PROVE  CallMoves(c)
  BY CallFacts, Constants DEF Typed, CallMoves, Answered

LEMMA GoesMoves ==
  ASSUME Typed, NEW c \in Calls, NEW stage \in {"looking", "focusing", "running", "resolved"}, Goes(c, stage),
         stage = "resolved" => call[c].kind \in {"group", "ungroup"},
         call[c].stage # "idle", created' = created
  PROVE  CallMoves(c)
  <1>1. call'[c] = [call[c] EXCEPT !.stage = stage] /\ call' \in [Calls -> CallStates]
        /\ \A d \in Calls \ {c} : call'[d] = call[d]
    BY DEF Goes, Typed, CallStates
  <1>2. /\ call'[c].kind = call[c].kind /\ call'[c].tab = call[c].tab /\ call'[c].handle = call[c].handle
        /\ call'[c].wasOwned = call[c].wasOwned /\ call'[c].stage = stage
    BY <1>1, CallFacts DEF CallStates
  <1> QED BY <1>1, <1>2, CallFacts DEF CallMoves, CallOK

LEMMA StartsMoves ==
  ASSUME Typed, NEW c \in Calls, CallStarts(c)
  PROVE  CallMoves(c)
  <1>1. PICK kind \in CallKinds, t \in Tabs \cup {NoTab}, s \in Sites,
             handle \in {g.handle : g \in auth.groups} \cup {Direct} :
         /\ kind \in GroupKinds <=> handle # Direct
         /\ kind \in GroupKinds \cup {"new_group"} => ~auth.driving
         /\ kind \in {"navigate", "create"} \/ s = IdleCall.site
         /\ kind = "create" <=> t = NoTab
         /\ IF kind = "create" THEN UNCHANGED spent ELSE spent.calls < MaxCalls /\ MayWork /\ Spend("calls")
         /\ call' = [call EXCEPT ![c] = [IdleCall EXCEPT
                !.kind = kind, !.tab = t, !.site = s, !.handle = handle,
                !.stage = CASE kind = "create" -> "running"
                            [] kind \in GroupKinds -> "observing"
                            [] OTHER -> "looking"]]
    BY Zenon DEF CallStarts
  <1>2. handle \in Handles \cup {Direct}
    BY DEF Typed, AuthOK, Auths, ScopedGroups
  <1> DEFINE stage == CASE kind = "create" -> "running"
                        [] kind \in GroupKinds -> "observing"
                        [] OTHER -> "looking"
             x == [IdleCall EXCEPT !.kind = kind, !.tab = t, !.site = s, !.handle = handle, !.stage = stage]
  <1>3. stage \in {"running", "observing", "looking"}
    OBVIOUS
  <1>4. call' = [call EXCEPT ![c] = x] /\ created' = created
    BY <1>1 DEF CallStarts
  <1> HIDE DEF stage
  <1>5. x \in CallStates /\ x.kind = kind /\ x.tab = t /\ x.handle = handle /\ x.stage = stage /\ x.wasOwned = FALSE
    BY <1>2, <1>3, Constants DEF CallStates, IdleCall
  <1>6. CallOK(x, created)
    BY <1>1, <1>2, <1>3, <1>5 DEF CallOK
  <1> HIDE DEF x
  <1> QED BY <1>4, <1>5, <1>6 DEF CallMoves, Typed

\* What a step of a request keeps.
AgentKeeps(c) ==
    /\ Continues /\ CallMoves(c) /\ RunsWait
    /\ tab' \in [Tabs -> BrowserTabs] /\ moved' \subseteq Tabs

LEMMA ObservedKeeps ==
  ASSUME Typed, OwnedTabsAreShared, NEW c \in Calls,
         CallStarts(c) \/ GroupObserved(c) \/ Refused(c) \/ Focused(c) \/ NotFocused(c)
  PROVE  AgentKeeps(c)
  <1>1. created' = created /\ RunsWait /\ tab' \in [Tabs -> BrowserTabs] /\ moved' \subseteq Tabs
    BY DEF CallStarts, GroupObserved, Refused, Focused, NotFocused, RunsWait, Typed
  <1>2. CASE CallStarts(c)
    BY <1>1, <1>2, StartsMoves, Standing DEF CallStarts, AgentKeeps
  <1>3. CASE GroupObserved(c)
    <2>1. Answered(c) \/ Goes(c, "looking")
      BY <1>3 DEF GroupObserved
    <2>2. CallMoves(c)
      BY <1>1, <1>3, <2>1, AnsweredMoves, GoesMoves DEF GroupObserved
    <2>3. RemoveGroup(call[c].handle) \/ UNCHANGED <<auth, owned, shared>>
      BY <1>3 DEF GroupObserved
    <2> QED BY <1>1, <2>2, <2>3, GroupLeaves, Standing DEF AgentKeeps
  <1>4. CASE Refused(c)
    <2>1. Answered(c) /\ (RemoveTab(call[c].tab) \/ UNCHANGED <<auth, owned, shared>>)
      BY <1>4 DEF Refused
    <2> QED BY <1>1, <2>1, AnsweredMoves, TabLeaves, Standing DEF AgentKeeps
  <1>5. CASE Focused(c) \/ NotFocused(c)
    <2>1. (Answered(c) \/ Goes(c, "running")) /\ call[c].stage = "focusing" /\ UNCHANGED <<auth, owned, shared>>
      BY <1>5 DEF Focused, NotFocused
    <2> QED BY <1>1, <2>1, AnsweredMoves, GoesMoves, Standing DEF AgentKeeps
  <1> QED BY <1>2, <1>3, <1>4, <1>5

LEMMA LookedKeeps ==
  ASSUME Typed, OwnedTabsAreShared, NEW c \in Calls, Looked(c)
  PROVE  AgentKeeps(c)
  <1> DEFINE t == call[c].tab
  <1>1. UNCHANGED <<owned, shared, created>> /\ RunsWait /\ tab' \in [Tabs -> BrowserTabs] /\ moved' \subseteq Tabs
        /\ call[c].stage = "looking" /\ Accessible(t)
    BY DEF Looked, RunsWait, Typed
  <1>2. CASE auth' = auth /\ (Answered(c) \/ Goes(c, "focusing") \/ Goes(c, "running"))
    BY <1>1, <1>2, AnsweredMoves, GoesMoves, Standing DEF AgentKeeps
  <1>3. CASE /\ t \in owned
             /\ auth' = [auth EXCEPT !.tabs[t].site = call[c].site, !.pending = @ \ {t}]
             /\ call' = [call EXCEPT ![c].stage = "running", ![c].before = auth.tabs[t].site,
                                     ![c].wasOwned = TRUE]
    <2>1. t \in Scope /\ t \in Tabs /\ t \in created /\ auth.live /\ auth.tabs[t] \in Entries /\ call[c].site \in Sites
      BY <1>1, <1>3, AuthFacts, ScopeFunctions, CallFacts DEF Accessible, Typed, AuthOK, Auths, CallStates
    <2> DEFINE f == [auth.tabs EXCEPT ![t].site = call[c].site]
    <2>2. auth.tabs \in Scopes /\ auth.pending \subseteq Tabs
      BY DEF Typed, AuthOK, Auths
    <2>3. f \in Scopes /\ DOMAIN f = Scope /\ \A u \in Scope : f[u].via = auth.tabs[u].via
      <3>1. auth.tabs \in [Scope -> Entries]
        BY <2>2, ScopeFunctions DEF Scope
      <3>2. DOMAIN f = Scope /\ f \in [Scope -> Entries] /\ \A u \in Scope : f[u].via = auth.tabs[u].via
        BY <2>1, <3>1 DEF Entries
      <3> HIDE DEF f
      <3> QED BY <3>2, AuthFacts, ScopeFunctions
    <2>4. auth' = [auth EXCEPT !.tabs = f, !.pending = auth.pending \ {t}]
      BY <1>3 DEF Typed, AuthOK, Auths
    <2> HIDE DEF f
    <2>5. AuthOK(auth') /\ auth'.instance = auth.instance /\ auth'.groups = auth.groups /\ auth'.tabs = f
      BY <2>1, <2>2, <2>3, <2>4 DEF Typed, AuthOK, Auths, Scope
    <2>6. Continues
      BY <1>1, <2>1, <2>3, <2>5, Within
    <2>7. call'[c] = [call[c] EXCEPT !.stage = "running", !.before = auth.tabs[t].site, !.wasOwned = TRUE]
          /\ \A d \in Calls \ {c} : call'[d] = call[d]
      BY <1>3 DEF Typed
    <2>8. auth.tabs[t].site \in Sites
      BY <2>1 DEF Entries
    <2>9. /\ call'[c] \in CallStates /\ call'[c].stage = "running" /\ call'[c].kind = call[c].kind
          /\ call'[c].tab = t /\ call'[c].handle = call[c].handle
      BY <2>7, <2>8, CallFacts DEF CallStates
    <2>10. CallOK(call'[c], created')
      BY <1>1, <2>1, <2>9, CallFacts DEF CallOK
    <2>11. call' \in [Calls -> CallStates]
      BY <1>3, <2>7, <2>9 DEF Typed
    <2> QED BY <1>1, <2>6, <2>7, <2>10, <2>11 DEF AgentKeeps, CallMoves
  <1> QED BY <1>2, <1>3 DEF Looked

LEMMA ObeyedKeeps ==
  ASSUME Typed, OwnedTabsAreShared, NEW c \in Calls, TabObeys(c)
  PROVE  AgentKeeps(c)
  <1> DEFINE t == call[c].tab
  <1>1. created' = created /\ RunsWait /\ moved' \subseteq Tabs /\ Answered(c) /\ call[c].stage = "running"
        /\ call[c].kind # "create"
    BY DEF TabObeys, RunsWait, Typed
  <1>2. CallMoves(c)
    BY <1>1, AnsweredMoves
  <1>3. t \in Tabs /\ call[c].site \in Sites
    BY <1>1, CallFacts DEF CallOK, CallStates
  <1>4. CASE call[c].kind = "navigate"
    <2>1. auth' = Shown(auth, t, call[c].site) /\ UNCHANGED <<owned, shared>>
          /\ tab' = [tab EXCEPT ![t].site = call[c].site]
      BY <1>4 DEF TabObeys
    <2>2. tab' \in [Tabs -> BrowserTabs]
      BY <1>3, <2>1 DEF Typed, BrowserTabs
    <2>3. Continues
      BY <1>1, <2>1, ShownOK, AuthFacts, Within
    <2> QED BY <1>1, <1>2, <2>2, <2>3 DEF AgentKeeps
  <1>5. CASE call[c].kind = "close"
    <2>1. auth' = WithoutTab(auth, t) /\ owned' = owned \ {t} /\ shared' = shared \ {t}
          /\ tab' = [tab EXCEPT ![t].is = "closed", ![t].group = NoGroup]
      BY <1>5 DEF TabObeys
    <2>2. tab' \in [Tabs -> BrowserTabs]
      BY <1>3, <2>1 DEF Typed, BrowserTabs
    <2>3. Continues
      BY <1>1, <2>1, TabCloses
    <2> QED BY <1>1, <1>2, <2>2, <2>3 DEF AgentKeeps
  <1>6. CASE UNCHANGED <<tab, auth, owned, shared>>
    BY <1>1, <1>2, <1>6, Standing DEF AgentKeeps, Typed
  <1> QED BY <1>4, <1>5, <1>6 DEF TabObeys

LEMMA RegroupedKeeps ==
  ASSUME Typed, OwnedTabsAreShared, NEW c \in Calls, TabRegrouped(c)
  PROVE  AgentKeeps(c)
  <1> DEFINE t == call[c].tab
  <1>1. UNCHANGED <<auth, owned, shared, created>> /\ RunsWait /\ moved' \subseteq Tabs /\ call[c].stage = "running"
        /\ call[c].kind # "create"
    BY DEF TabRegrouped, RunsWait, Typed
  <1>2. Continues
    BY <1>1, Standing
  <1>3. t \in Tabs
    BY <1>1, CallFacts DEF CallOK
  <1>4. CASE call[c].kind \in {"group", "ungroup"}
    <2>1. Goes(c, "resolved") /\ \E g \in Groups \cup {NoGroup} : tab' = [tab EXCEPT ![t].group = g]
      <3>1. call[c].handle[2] \in Groups
        BY <1>1, <1>4, CallFacts DEF CallOK, GroupKinds, Handles
      <3> QED BY <1>4, <3>1 DEF TabRegrouped
    <2>2. tab' \in [Tabs -> BrowserTabs]
      BY <1>3, <2>1 DEF Typed, BrowserTabs
    <2> QED BY <1>1, <1>2, <1>4, <2>1, <2>2, GoesMoves DEF AgentKeeps
  <1>5. CASE call[c].kind = "new_group"
    <2>1. PICK g \in Groups : /\ tab' = [tab EXCEPT ![t].group = g]
                              /\ call' = [call EXCEPT ![c].stage = "resolved", ![c].handle = NewHandle(0, g)]
      BY <1>5 DEF TabRegrouped
    <2>2. tab' \in [Tabs -> BrowserTabs]
      BY <1>3, <2>1 DEF Typed, BrowserTabs
    <2>3. NewHandle(0, g) \in {0} \X Groups /\ NewHandle(0, g) \in Handles
      BY Constants DEF NewHandle, Handles
    <2>4. call'[c] = [call[c] EXCEPT !.stage = "resolved", !.handle = NewHandle(0, g)]
          /\ \A d \in Calls \ {c} : call'[d] = call[d]
      BY <2>1 DEF Typed
    <2>5. /\ call'[c] \in CallStates /\ call'[c].kind = "new_group" /\ call'[c].handle = NewHandle(0, g)
          /\ call'[c].tab = t /\ call'[c].wasOwned = call[c].wasOwned /\ call'[c].stage = "resolved"
      BY <1>5, <2>3, <2>4, CallFacts DEF CallStates
    <2>6. CallOK(call'[c], created')
      BY <1>1, <1>3, <2>3, <2>5, CallFacts DEF CallOK, GroupKinds
    <2>7. call' \in [Calls -> CallStates]
      BY <2>1, <2>4, <2>5 DEF Typed
    <2> QED BY <1>1, <1>2, <2>2, <2>4, <2>6, <2>7 DEF AgentKeeps, CallMoves
  <1> QED BY <1>4, <1>5 DEF TabRegrouped

LEMMA CreatedKeeps ==
  ASSUME Typed, OwnedTabsAreShared, NEW c \in Calls, TabCreated(c)
  PROVE  AgentKeeps(c)
  <1>1. UNCHANGED <<auth, owned, shared>> /\ RunsWait /\ moved' \subseteq Tabs /\ call[c].stage = "running"
        /\ call[c].kind = "create"
    BY DEF TabCreated, RunsWait, Typed
  <1>2. PICK t \in Tabs :
          /\ tab' = [tab EXCEPT ![t] = [is |-> "open", site |-> call[c].site, group |-> NoGroup]]
          /\ call' = [call EXCEPT ![c].stage = "resolved", ![c].tab = t]
          /\ created' = created \cup {t}
    BY DEF TabCreated
  <1>3. Continues
    <2>1. created \subseteq created' /\ created' \subseteq Tabs /\ owned' \subseteq created'
      BY <1>1, <1>2, AuthFacts
    <2> QED BY <1>1, <2>1, AuthFacts DEF Continues
  <1>4. tab' \in [Tabs -> BrowserTabs]
    BY <1>2, CallFacts DEF Typed, BrowserTabs, CallStates
  <1>5. call'[c] = [call[c] EXCEPT !.stage = "resolved", !.tab = t] /\ \A d \in Calls \ {c} : call'[d] = call[d]
    BY <1>2 DEF Typed
  <1>6. /\ call'[c] \in CallStates /\ call'[c].kind = "create" /\ call'[c].tab = t /\ call'[c].stage = "resolved"
    <2>1. call[c] \in CallStates /\ t \in Tabs \cup {NoTab}
      BY <1>2, CallFacts
    <2>2. call'[c].kind = call[c].kind /\ call'[c].tab = t /\ call'[c].stage = "resolved"
      BY <1>5, <2>1 DEF CallStates
    <2>3. call'[c] \in CallStates
      BY <1>5, <2>1 DEF CallStates
    <2> QED BY <1>1, <2>2, <2>3
  <1>7. CallOK(call'[c], created')
    BY <1>2, <1>6 DEF CallOK, GroupKinds
  <1>8. call' \in [Calls -> CallStates]
    BY <1>2, <1>5, <1>6 DEF Typed
  <1> QED BY <1>1, <1>3, <1>4, <1>5, <1>7, <1>8 DEF AgentKeeps, CallMoves

LEMMA RefusedKeeps ==
  ASSUME Typed, OwnedTabsAreShared, NEW c \in Calls, BrowserRefuses(c)
  PROVE  AgentKeeps(c)
  <1> DEFINE t == call[c].tab
             entry == [site |-> call[c].before, via |-> Direct]
  <1>1. UNCHANGED <<tab, owned, shared, created>> /\ RunsWait /\ moved' \subseteq Tabs /\ Answered(c)
    BY DEF BrowserRefuses, RunsWait, Typed
  <1>2. CallMoves(c)
    BY <1>1, AnsweredMoves
  <1>3. CASE auth' = auth
    BY <1>1, <1>2, <1>3, Standing DEF AgentKeeps, Typed
  <1>4. CASE auth.live /\ call[c].wasOwned /\ auth' = With(auth, t, entry)
    <2>1. t \in created /\ t \in Tabs /\ entry \in Entries
      BY <1>4, AuthFacts, CallFacts DEF CallOK, CallStates, Entries
    <2> HIDE DEF entry
    <2>2. Continues
      BY <1>1, <1>4, <2>1, Joining, AuthFacts
    <2> QED BY <1>1, <1>2, <2>2 DEF AgentKeeps, Typed
  <1> QED BY <1>3, <1>4 DEF BrowserRefuses

LEMMA RegisteredKeeps ==
  ASSUME Typed, OwnedTabsAreShared, NEW c \in Calls, TabRegistered(c)
  PROVE  AgentKeeps(c)
  <1> DEFINE t == call[c].tab
             entry == [site |-> call[c].site, via |-> Direct]
  <1>1. /\ UNCHANGED <<tab, created>> /\ RunsWait /\ moved' \subseteq Tabs /\ Answered(c)
        /\ owned' = owned \cup {t} /\ shared' = shared \ {t}
        /\ call[c].stage = "resolved" /\ call[c].kind = "create"
        /\ auth' = IF auth.live THEN With(auth, t, entry) ELSE auth
    BY DEF TabRegistered, RunsWait, Typed
  <1>2. CallMoves(c)
    BY <1>1, AnsweredMoves
  <1>3. t \in created /\ t \in Tabs /\ entry \in Entries
    BY <1>1, AuthFacts, CallFacts DEF CallOK, CallStates, Entries
  <1>4. owned' \subseteq created' /\ shared' \subseteq Tabs
    BY <1>1, <1>3, AuthFacts
  <1>5. CASE auth.live
    <2> HIDE DEF entry
    <2>1. Continues
      BY <1>1, <1>3, <1>4, <1>5, Joining
    <2> QED BY <1>1, <1>2, <2>1 DEF AgentKeeps, Typed
  <1>6. CASE ~auth.live
    <2>1. auth' = auth /\ DOMAIN auth.tabs = {}
      BY <1>1, <1>6, AuthFacts DEF AuthOK
    <2>2. Continues
      BY <1>1, <1>4, <1>6, <2>1, AuthFacts DEF Continues
    <2> QED BY <1>1, <1>2, <2>2 DEF AgentKeeps, Typed
  <1> QED BY <1>5, <1>6

\* A new group has no authority of its own: its record is plain.
LEMMA ResolvedKeeps ==
  ASSUME Typed, OwnedTabsAreShared, NEW c \in Calls, RegroupResolved(c)
  PROVE  AgentKeeps(c)
  <1>1. /\ UNCHANGED <<tab, created>> /\ RunsWait /\ Answered(c) /\ call[c].stage = "resolved"
    BY DEF RegroupResolved, RunsWait
  <1>2. CallMoves(c)
    BY <1>1, AnsweredMoves
  <1>3. CASE UNCHANGED <<auth, owned, shared>> /\ moved' \subseteq Tabs
    BY <1>1, <1>2, <1>3, Standing DEF AgentKeeps, Typed
  <1>4. CASE call[c].kind = "group"
    <2>1. call[c].tab \in Tabs
      BY <1>1, <1>4, CallFacts DEF CallOK
    <2> QED BY <1>3, <1>4, <2>1 DEF RegroupResolved, Typed
  <1>5. CASE call[c].kind = "ungroup"
    <2>1. moved' = moved /\ (RemoveGroup(call[c].handle) \/ UNCHANGED <<auth, owned, shared>>)
      BY <1>5 DEF RegroupResolved
    <2> QED BY <1>1, <1>2, <2>1, GroupLeaves, Standing DEF AgentKeeps, Typed
  <1>6. CASE call[c].kind = "new_group" /\ auth.live
    <2> DEFINE g == [handle |-> call[c].handle, native |-> call[c].handle[2],
                     policy |-> "membership_snapshot", excluded |-> {}]
    <2>1. auth' = [auth EXCEPT !.groups = @ \cup {g}] /\ UNCHANGED <<owned, shared, moved>>
      BY <1>6 DEF RegroupResolved
    <2>2. call[c].handle \in {0} \X Groups
      BY <1>1, <1>6, CallFacts DEF CallOK
    <2>3. g \in ScopedGroups /\ Plain(g)
      BY <2>2, Constants DEF ScopedGroups, Plain, Handles, Policies
    <2> HIDE DEF g
    <2>4. /\ AuthOK(auth') /\ auth'.instance = auth.instance /\ auth'.groups = auth.groups \cup {g}
          /\ auth'.tabs = auth.tabs /\ auth'.live = auth.live
      BY <1>6, <2>1, <2>3 DEF Typed, AuthOK, Auths
    <2>5. Continues
      BY <1>1, <2>1, <2>3, <2>4, AuthFacts DEF Continues
    <2> QED BY <1>1, <1>2, <2>1, <2>5 DEF AgentKeeps, Typed
  <1>7. CASE call[c].kind = "new_group" /\ ~auth.live
    BY <1>3, <1>7 DEF RegroupResolved, Typed
  <1> QED BY <1>4, <1>5, <1>6, <1>7 DEF RegroupResolved

LEMMA AgentStep ==
  ASSUME Typed, OwnedTabsAreShared, NEW c \in Calls, AgentSteps(c)
  PROVE  AgentKeeps(c)
  BY ObservedKeeps, LookedKeeps, ObeyedKeeps, RegroupedKeeps, CreatedKeeps, RefusedKeeps, RegisteredKeeps,
     ResolvedKeeps DEF AgentSteps

-----------------------------------------------------------------------------
(* The reconcile runs                                                      *)

ReconcileSteps(r) == RunBegins(r) \/ RunReads(r) \/ RunRemoves(r) \/ RunAsked(r) \/ RunJoins(r)

\* One run moves to a place it may be in, and holds no record it did not have before.
RunMoves(r) ==
    /\ \A q \in Runs \ {r} : run'[q] = run[q]
    /\ run' \in [Runs -> RunStates] /\ RunOK(run'[r])
    /\ Held(run'[r]) \subseteq Records \cup auth'.groups \cup {Unscoped}

ReconcileKeeps(r) == Continues /\ RunMoves(r) /\ CallsWait /\ tab' = tab

LEMMA RunFacts ==
  ASSUME Typed, NEW r \in Runs
  PROVE  run[r] \in RunStates /\ RunOK(run[r]) /\ Held(run[r]) \subseteq Records
  BY DEF Typed, Records

LEMMA MovesTo ==
  ASSUME Typed, NEW r \in Runs, NEW y \in RunStates, run' = [run EXCEPT ![r] = y], RunOK(y),
         Held(y) \subseteq Records \cup auth'.groups \cup {Unscoped}
  PROVE  RunMoves(r)
  BY DEF Typed, RunMoves

LEMMA BeginsKeeps ==
  ASSUME Typed, OwnedTabsAreShared, NEW r \in Runs, RunBegins(r)
  PROVE  ReconcileKeeps(r)
  <1> DEFINE check == {<<t, auth.tabs[t].via>> : t \in {u \in Scope : auth.tabs[u].via # Direct}}
             x == [IdleRun EXCEPT !.check = check]
  <1>1. UNCHANGED <<auth, tab, owned, moved, shared, created, call>>
        /\ \E y \in NextCheck(x, auth) : run' = [run EXCEPT ![r] = y]
    BY DEF RunBegins
  <1>2. check \subseteq Tabs \X Handles
    BY ScopeFunctions DEF Typed, AuthOK, Auths, Scope, Entries
  <1>3. x \in RunStates /\ Held(x) = {Unscoped}
    BY <1>2, IdleRunOK DEF RunStates, Held
  <1> HIDE DEF check, x
  <1>4. PICK y \in NextCheck(x, auth) : run' = [run EXCEPT ![r] = y]
    BY <1>1
  <1>5. RunMoves(r)
    BY <1>1, <1>3, <1>4, NextCheckOK, MovesTo, AuthFacts
  <1> QED BY <1>1, <1>5, Standing DEF ReconcileKeeps, CallsWait

LEMMA ReadsKeeps ==
  ASSUME Typed, OwnedTabsAreShared, NEW r \in Runs, RunReads(r)
  PROVE  ReconcileKeeps(r)
  <1> DEFINE x == run[r]
  <1>1. UNCHANGED <<auth, tab, owned, moved, shared, created, call>>
    BY DEF RunReads
  <1>2. x \in RunStates /\ RunOK(x) /\ Held(x) \subseteq Records
    BY RunFacts
  <1>3. CASE /\ x.stage = "looking"
             /\ run' = [run EXCEPT ![r].stage = "looked",
                                   ![r].gone = \/ tab[x.at].is # "open" \/ x.native = NoGroup
                                               \/ tab[x.at].group # x.native]
    <2> DEFINE gone == \/ tab[x.at].is # "open" \/ x.native = NoGroup \/ tab[x.at].group # x.native
    <2>1. gone \in BOOLEAN
      OBVIOUS
    <2>2. run' = [run EXCEPT ![r] = [x EXCEPT !.stage = "looked", !.gone = gone]]
      BY <1>3 DEF Typed
    <2> HIDE DEF gone
    <2> DEFINE y == [x EXCEPT !.stage = "looked", !.gone = gone]
    <2>3. y \in RunStates /\ RunOK(y) /\ Held(y) = Held(x)
      BY <1>2, <1>3, <2>1 DEF RunStates, RunOK, Held
    <2> HIDE DEF y
    <2> QED BY <1>1, <1>2, <2>2, <2>3, MovesTo, Standing DEF ReconcileKeeps, CallsWait, y
  <1>4. CASE x.stage = "asking" /\ run' = [run EXCEPT ![r].stage = "asked", ![r].found = Members(x.scoped.native)]
    <2> DEFINE y == [x EXCEPT !.stage = "asked", !.found = Members(x.scoped.native)]
    <2>1. Members(x.scoped.native) \subseteq Tabs
      BY DEF Members
    <2>2. y \in RunStates /\ RunOK(y) /\ Held(y) = Held(x)
      BY <1>2, <2>1 DEF RunStates, RunOK, Held
    <2>3. run' = [run EXCEPT ![r] = y]
      BY <1>4 DEF Typed
    <2> HIDE DEF y
    <2> QED BY <1>1, <1>2, <2>2, <2>3, MovesTo, Standing DEF ReconcileKeeps, CallsWait
  <1>5. CASE /\ x.stage = "weighing"
             /\ run' = [run EXCEPT ![r].stage = "weighed", ![r].gone = tab[x.at].is # "open",
                                   ![r].site = tab[x.at].site]
    <2> DEFINE gone == tab[x.at].is # "open"
               y == [x EXCEPT !.stage = "weighed", !.gone = gone, !.site = tab[x.at].site]
    <2>1. gone \in BOOLEAN /\ tab[x.at].site \in Sites
      BY <1>2, <1>5 DEF RunOK, Typed, BrowserTabs
    <2>2. run' = [run EXCEPT ![r] = y]
      BY <1>5 DEF Typed
    <2> HIDE DEF gone
    <2>3. y \in RunStates /\ RunOK(y) /\ Held(y) = Held(x)
      BY <1>2, <1>5, <2>1 DEF RunStates, RunOK, Held
    <2> HIDE DEF y
    <2> QED BY <1>1, <1>2, <2>2, <2>3, MovesTo, Standing DEF ReconcileKeeps, CallsWait
  <1> QED BY <1>3, <1>4, <1>5 DEF RunReads

\* The first loop: a tab that was outside its group leaves.
LEMMA RemovesKeeps ==
  ASSUME Typed, OwnedTabsAreShared, NEW r \in Runs, RunRemoves(r)
  PROVE  ReconcileKeeps(r)
  <1>1. UNCHANGED <<tab, moved, created, call>>
        /\ (RemoveTab(run[r].at) \/ UNCHANGED <<auth, owned, shared>>)
    BY DEF RunRemoves
  <1>2. Continues
    BY <1>1, TabLeaves, Standing
  <1>3. PICK y \in NextCheck(run[r], auth') : run' = [run EXCEPT ![r] = y]
    BY DEF RunRemoves
  <1>4. y \in RunStates /\ RunOK(y) /\ Held(y) \subseteq Held(run[r]) \cup auth'.groups \cup {Unscoped}
    BY <1>2, <1>3, RunFacts, NextCheckOK DEF Continues
  <1>5. RunMoves(r)
    BY <1>3, <1>4, RunFacts, MovesTo
  <1> QED BY <1>1, <1>2, <1>5 DEF ReconcileKeeps, CallsWait

\* The second loop: a group that is gone leaves; members are taken only of a followed one.
LEMMA AsksKeeps ==
  ASSUME Typed, OwnedTabsAreShared, NEW r \in Runs, RunAsked(r)
  PROVE  ReconcileKeeps(r)
  <1> DEFINE x == run[r]
  <1>1. UNCHANGED <<tab, moved, created, call>>
        /\ (RemoveGroup(x.scoped.handle) \/ UNCHANGED <<auth, owned, shared>>)
    BY DEF RunAsked
  <1>2. Continues
    BY <1>1, GroupLeaves, Standing
  <1>3. PICK y \in IF x.found # {} /\ x.scoped.policy = "follow_group"
                   THEN NextMember(x, auth') ELSE NextGroup(x) : run' = [run EXCEPT ![r] = y]
    BY DEF RunAsked
  <1>4. y \in RunStates /\ RunOK(y) /\ Held(y) \subseteq Held(x) \cup {Unscoped}
    <2>1. CASE x.scoped.policy = "follow_group" /\ y \in NextMember(x, auth')
      BY <2>1, RunFacts, NextMemberOK
    <2>2. CASE y \in NextGroup(x)
      BY <2>2, RunFacts, NextGroupOK DEF Held
    <2> QED BY <1>3, <2>1, <2>2
  <1>5. RunMoves(r)
    BY <1>3, <1>4, RunFacts, MovesTo
  <1> QED BY <1>1, <1>2, <1>5 DEF ReconcileKeeps, CallsWait

\* A member joins with the handle of the followed record the run holds.
LEMMA JoinsKeeps ==
  ASSUME Typed, OwnedTabsAreShared, NEW r \in Runs, RunJoins(r)
  PROVE  ReconcileKeeps(r)
  <1> DEFINE x == run[r]
             entry == [site |-> x.site, via |-> x.scoped.handle]
  <1>1. /\ UNCHANGED <<tab, owned, moved, shared, created, call>> /\ x.stage = "weighed"
        /\ auth' = IF x.gone \/ ~auth.live THEN auth ELSE With(auth, x.at, entry)
    BY DEF RunJoins
  <1>2. x \in RunStates /\ x.at \in Tabs /\ x.scoped \in Records /\ x.scoped.policy = "follow_group"
    BY <1>1, RunFacts DEF RunOK, Held
  <1>3. entry \in Entries /\ entry.via = x.scoped.handle
    <2>1. x.scoped \in ScopedGroups
      BY <1>2, UnscopedPlain DEF RunStates
    <2> QED BY <1>2, <2>1 DEF Entries, ScopedGroups, RunStates
  <1> HIDE DEF entry
  <1>4. Continues
    <2>1. CASE auth' = auth
      BY <1>1, <2>1, Standing
    <2>2. CASE auth.live /\ auth' = With(auth, x.at, entry)
      BY <1>1, <1>2, <1>3, <2>2, Joining, AuthFacts
    <2> QED BY <1>1, <2>1, <2>2
  <1>5. PICK y \in IF ~x.gone /\ ~auth.live THEN {IdleRun} ELSE NextMember(x, auth') :
          run' = [run EXCEPT ![r] = y]
    BY DEF RunJoins
  <1>6. y \in RunStates /\ RunOK(y) /\ Held(y) \subseteq Held(x) \cup {Unscoped}
    BY <1>2, <1>5, IdleRunOK, NextMemberOK
  <1>7. RunMoves(r)
    BY <1>5, <1>6, RunFacts, MovesTo
  <1> QED BY <1>1, <1>4, <1>7 DEF ReconcileKeeps, CallsWait

LEMMA ReconcileStep ==
  ASSUME Typed, OwnedTabsAreShared, NEW r \in Runs, ReconcileSteps(r)
  PROVE  ReconcileKeeps(r)
  BY BeginsKeeps, ReadsKeeps, RemovesKeeps, AsksKeeps, JoinsKeeps DEF ReconcileSteps

-----------------------------------------------------------------------------
(* The invariant                                                           *)

\* What a step that continues the scope has to leave of the rest.
Sound ==
    /\ Continues /\ Carried
    /\ tab' \in [Tabs -> BrowserTabs] /\ moved' \subseteq Tabs
    /\ call' \in [Calls -> CallStates] /\ \A c \in Calls : CallOK(call'[c], created')
    /\ run' \in [Runs -> RunStates] /\ \A r \in Runs : RunOK(run'[r])

LEMMA SoundInd ==
  ASSUME IndInv, Sound
  PROVE  IndInv'
  <1>1. Typed'
    BY DEF Sound, Continues, Typed
  <1>2. OwnedTabsAreShared'
    BY DEF Sound, Continues, OwnedTabsAreShared, Scope
  <1>3. Handled' /\ Chosen'
    BY ContinuesHandled, ContinuesChosen DEF IndInv, Sound
  <1> QED BY <1>1, <1>2, <1>3 DEF IndInv

\* A call or a run that waits is still sound: the agent has opened no tab less.
LEMMA CallsKeep ==
  ASSUME Typed, NEW c \in Calls, created \subseteq created'
  PROVE  CallOK(call[c], created')
  BY DEF Typed, CallOK

LEMMA UserSound ==
  ASSUME IndInv, UserButGrants
  PROVE  Sound
  <1>1. Continues /\ CallsWait /\ RunsWait /\ tab' \in [Tabs -> BrowserTabs]
    BY UserContinues, UserTabs DEF IndInv
  <1> QED BY <1>1, WaitingCarried DEF Sound, CallsWait, RunsWait, IndInv, Typed

LEMMA AgentSound ==
  ASSUME IndInv, NEW c \in Calls, AgentSteps(c)
  PROVE  Sound
  <1>1. AgentKeeps(c)
    BY AgentStep DEF IndInv
  <1>2. \A d \in Calls : CallOK(call'[d], created')
    BY <1>1, CallsKeep DEF AgentKeeps, CallMoves, IndInv, Continues
  <1> QED BY <1>1, <1>2, WaitingCarried DEF Sound, AgentKeeps, CallMoves, RunsWait, IndInv, Typed

LEMMA ReconcileSound ==
  ASSUME IndInv, NEW r \in Runs, ReconcileSteps(r)
  PROVE  Sound
  <1>1. ReconcileKeeps(r)
    BY ReconcileStep DEF IndInv
  <1>2. Carried
    BY <1>1, RunFacts DEF ReconcileKeeps, RunMoves, Carried, IndInv
  <1>3. \A q \in Runs : RunOK(run'[q])
    BY <1>1, RunFacts DEF ReconcileKeeps, RunMoves, IndInv
  <1> QED BY <1>1, <1>2, <1>3 DEF Sound, ReconcileKeeps, RunMoves, CallsWait, IndInv, Typed

LEMMA StutterSound ==
  ASSUME IndInv, UNCHANGED vars
  PROVE  Sound
  <1>1. Continues /\ RunsWait
    BY Standing DEF vars, RunsWait, IndInv
  <1> QED BY <1>1, WaitingCarried DEF Sound, vars, IndInv, Typed

\* A grant starts from nothing: everything in the new scope is shared.
LEMMA GrantInd ==
  ASSUME IndInv, UserGrants
  PROVE  IndInv'
  <1>1. /\ AuthOK(auth') /\ owned' = {} /\ moved' = {} /\ shared' = DOMAIN auth'.tabs
        /\ UNCHANGED <<tab, created, call, run>> /\ Handled'
    BY GrantStep DEF IndInv
  <1>2. shared' \subseteq Tabs
    BY <1>1, ScopeFunctions DEF AuthOK, Auths
  <1>3. Typed'
    BY <1>1, <1>2 DEF IndInv, Typed
  <1>4. OwnedTabsAreShared' /\ Chosen'
    BY <1>1 DEF OwnedTabsAreShared, Chosen, Scope
  <1> QED BY <1>1, <1>3, <1>4 DEF IndInv

LEMMA Steps ==
  ASSUME [Next]_vars
  PROVE  \/ UserGrants \/ UserButGrants \/ (\E c \in Calls : AgentSteps(c))
         \/ (\E r \in Runs : ReconcileSteps(r)) \/ UNCHANGED vars
  BY DEF Next, User, Agent, Reconcile, UserButGrants, AgentSteps, ReconcileSteps

LEMMA InitInd == Init => IndInv
  <1> SUFFICES ASSUME Init PROVE IndInv
    OBVIOUS
  <1>1. /\ auth = [instance |-> 0, live |-> FALSE, tabs |-> NoTabs, groups |-> {}, pending |-> {},
                   claim |-> NoTab, driving |-> FALSE]
        /\ tab \in [Tabs -> BrowserTabs]
        /\ owned = {} /\ moved = {} /\ shared = {} /\ created = {}
        /\ call = [c \in Calls |-> IdleCall] /\ run = [r \in Runs |-> IdleRun]
    BY DEF Init
  <1>2. AuthOK(auth) /\ auth.groups = {} /\ auth.instance = 0 /\ Scope = {} /\ ~auth.live
    BY <1>1, Constants DEF AuthOK, Auths, Scope
  <1>3. \A c \in Calls : CallOK(call[c], created)
    BY <1>1 DEF CallOK, IdleCall
  <1>4. Typed
    BY <1>1, <1>2, <1>3, Constants, IdleRunOK DEF Typed
  <1>5. \A g \in Records : g = Unscoped
    BY <1>1, <1>2, IdleRunOK DEF Records
  <1>6. Handled
    BY <1>2, <1>5, UnscopedPlain DEF Handled, Dated, Alike, Plain
  <1> QED BY <1>2, <1>4, <1>6 DEF IndInv, OwnedTabsAreShared, Chosen

LEMMA StepInd == IndInv /\ [Next]_vars => IndInv'
  <1> SUFFICES ASSUME IndInv, [Next]_vars PROVE IndInv'
    OBVIOUS
  <1>1. CASE UserGrants
    BY <1>1, GrantInd
  <1>2. CASE UserButGrants
    BY <1>2, UserSound, SoundInd
  <1>3. CASE \E c \in Calls : AgentSteps(c)
    BY <1>3, AgentSound, SoundInd
  <1>4. CASE \E r \in Runs : ReconcileSteps(r)
    BY <1>4, ReconcileSound, SoundInd
  <1>5. CASE UNCHANGED vars
    BY <1>5, StutterSound, SoundInd
  <1> QED BY <1>1, <1>2, <1>3, <1>4, <1>5, Steps

-----------------------------------------------------------------------------
(* The theorems                                                            *)

(* The inductive invariant holds throughout: the types, what is owned is in the
   scope, handles stand for one group and one policy, and every tab in the scope was
   chosen, opened or followed there. *)
THEOREM ScopeInvariant == Spec => []IndInv
  BY InitInd, StepInd, PTL DEF Spec

(* Every variable has its type, whatever calls and reconcile runs overlap, and the
   claim is on a tab in the scope (claimedContextId of background.js). *)
THEOREM TypeCorrect == Spec => []TypeOK
  <1>1. IndInv => TypeOK
    BY AuthFacts DEF IndInv, Typed, TypeOK, AuthOK, Scope
  <1> QED BY <1>1, ScopeInvariant, PTL

(* ownedTabIds of background.js never outlives the entry of its tab: with any number
   of overlapping calls, reconcile runs, grants and reductions of access, a tab the
   agent may close or write to without a claim is in the scope of the live binding. *)
THEOREM OwnedAreShared == Spec => []OwnedTabsAreShared
  BY ScopeInvariant, PTL DEF IndInv

(* Whatever reconcileGroupsAfterEvent still writes for an earlier binding, a tab that
   evaluateTabAccess lets the agent touch is shared by the user, was opened by the
   agent, or is in a group that the live binding follows. *)
THEOREM AccessConsented == Spec => []AccessIsConsented
  <1>1. IndInv => AccessIsConsented
    <2> SUFFICES ASSUME IndInv, NEW t \in Tabs, Accessible(t), t \notin shared, t \notin created
                 PROVE  \E g \in auth.groups : g.handle = auth.tabs[t].via /\ g.policy = "follow_group"
      BY DEF AccessIsConsented
    <2>1. t \in Scope /\ InItsGroup(auth, t)
      BY DEF Accessible
    <2>2. Followed(auth, t)
      BY <2>1 DEF IndInv, Chosen
    <2>3. auth.tabs[t].via # Direct
      BY <2>2 DEF Followed, Direct
    <2>4. PICK g \in auth.groups : g.handle = auth.tabs[t].via
      BY <2>1, <2>3 DEF InItsGroup
    <2> QED BY <2>2, <2>4 DEF Followed
  <1> QED BY <1>1, ScopeInvariant, PTL

=============================================================================
