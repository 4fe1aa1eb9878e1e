---------------------------- MODULE ActRequests ----------------------------
(***************************************************************************)
(* The companion's write path (companion/background.js, content.js): an    *)
(* agent observes a page with a snapshot, and asks for writes that name an *)
(* element of that observation.  A write waits in the queue of its tab,    *)
(* then proves authority, claim, document and gestures again, is sent to   *)
(* the content script and is answered; a second request with its id joins  *)
(* it or is given its recorded answer.                                     *)
(*                                                                         *)
(* One action is what runs between two awaits.  Around the write path, at  *)
(* any moment, the user takes over, resumes, narrows, ends and renews      *)
(* access, the human touches the page, the page navigates and the content  *)
(* script's messages arrive late.                                          *)
(*                                                                         *)
(* Abstracted: the consumer (requests of any other are refused before this *)
(* path; Companion has several); scope and origins (a tab that may not be  *)
(* touched makes a request unavailable, and the claim on a tab found       *)
(* closed ends as in AgentReleases or AuthorityEnds); what the answers     *)
(* say, but for the outcome that is recorded; a request whose id is known  *)
(* with other parameters, and a replayed one (answered, nothing changes);  *)
(* node ids; the url hash (a document that changes its url is a new one);  *)
(* the test hooks.                                                         *)
(***************************************************************************)
EXTENDS ControlPolicy, FiniteSets, Sequences

CONSTANTS
    Agent,         \* the consumer that holds the binding
    Ids,           \* request ids
    MaxCompleted,  \* MAX_COMPLETED_REQUESTS
    MaxGeneration, \* bound: nobody acts on the control machine at this generation
    MaxBindings,   \* bound: binding instances created
    MaxPage,       \* bound: documents a tab has shown and gestures in the last one
    MaxObserved,   \* bound: observations the agent has been given of a tab
    MaxCancels     \* bound: ids in cancelledRequests

ASSUME ActAssumption ==
    /\ Agent \in Audiences
    /\ MaxCompleted \in Nat \ {0}
    /\ {MaxGeneration, MaxBindings, MaxPage, MaxObserved, MaxCancels} \subseteq Nat

VARIABLES
    control,    \* the human <-> agent control machine
    live,       \* the live binding
    page,       \* per tab: its document, gestures counted there, content script armed
    gestured,   \* tabs whose armed content script has reported a gesture
    navigated,  \* tabs with a tabs.onUpdated not handled yet
    snapshot,   \* the snapshot request in flight
    observed,   \* the element references the agent has been given, per tab
    act,        \* per id: the write request
    queue,      \* mutationTails: the writes of a tab, the running one first
    cancelled,  \* cancelledRequests
    completed,  \* completedRequests, oldest first
    applied,    \* history: how often the write took effect, counted up to 2
    evicted,    \* history: ids completedRequests had to let go
    unreviewed  \* history: unknown outcomes the user has not decided about

user      == <<control, live>>
browser   == <<page, gestured, navigated>>
reading   == <<snapshot, observed>>
answering == <<act, queue, cancelled, completed, evicted>>
vars      == <<user, browser, reading, answering, applied, unreviewed>>

-----------------------------------------------------------------------------
Bindings == [bound : BOOLEAN, instance : Nat, grant : Nat, background : BOOLEAN]

Readings == [doc : Nat, gestures : Nat]
NoReading == [doc |-> 0, gestures |-> 0]

\* A reference carries what its observation saw and the grant and claim of then.
Refs  == [read : Readings, claim : Nat, grant : Nat]
NoRef == [read |-> NoReading, claim |-> 0, grant |-> 0]

Pages == [doc : Nat, gestures : Nat, armed : BOOLEAN]

Snapshots ==
    [stage : {"idle", "lookup", "read", "export"}, tab : Tabs \cup {NoTab},
     claim : BOOLEAN, instance : Nat, read : Readings]

NoSnapshot == [stage |-> "idle", tab |-> NoTab, claim |-> FALSE,
               instance |-> 0, read |-> NoReading]

Acts ==
    [stage    : {"idle", "queued", "lookup", "ping", "verify", "sent"},
     tab      : Tabs \cup {NoTab},
     ref      : Refs,
     instance : Nat,          \* lineage: the binding the request was authorised under
     joined   : SUBSET Nat,   \* lineages of the requests that joined it
     read     : Readings,     \* what the page answered to the ping
     pageDid  : {"nothing", "applied", "refused", "credential"}]

\* "refused" is an answer with ok:true whose outcome is not_started.
Outcomes == {"completed", "refused", "not_started", "outcome_unknown"}

TypeOK ==
    /\ control \in Controls
    /\ live \in Bindings
    /\ page \in [Tabs -> Pages]
    /\ gestured \subseteq Tabs /\ navigated \subseteq Tabs
    /\ snapshot \in Snapshots
    /\ observed \in [Tabs -> SUBSET Refs]
    /\ act \in [Ids -> Acts]
    /\ queue \in [Tabs -> Seq(Ids)]
    /\ cancelled \subseteq Ids
    /\ completed \in Seq([id : Ids, outcome : Outcomes]) /\ Len(completed) <= MaxCompleted
    /\ applied \in [Ids -> 0..2]
    /\ evicted \subseteq Ids /\ unreviewed \subseteq Ids

MayAct == control.claimGeneration < MaxGeneration

ReadingOf(t) == [doc |-> page[t].doc, gestures |-> page[t].gestures]
ClaimedHere(t) == control.state = "agent_claimed" /\ control.claimedTab = t
LineageCurrent(instance) == live.bound /\ live.instance = instance

-----------------------------------------------------------------------------
(* The user: grants, rebinds, narrows and ends access, takes over, resumes *)

\* grantFromPopup: a rebind keeps the grant and the control mode.
UserBinds(background) ==
    /\ MayAct /\ ~live.bound /\ live.instance < MaxBindings
    /\ LET rebinding == control.state = "rebinding" IN
       live' = [bound |-> TRUE, instance |-> live.instance + 1,
                grant |-> IF rebinding THEN live.grant ELSE live.grant + 1,
                background |-> IF rebinding THEN live.background ELSE background]
    /\ control' = Grant(control)
    /\ completed' = << >>
    /\ unreviewed' = {}
    /\ UNCHANGED <<browser, reading, act, queue, cancelled, evicted, applied>>

\* manageAccessFromPopup: a reduction makes the binding a new instance.
UserNarrows(background) ==
    /\ MayAct /\ live.bound /\ live.instance < MaxBindings
    /\ background => live.background
    /\ live' = [live EXCEPT !.instance = @ + 1, !.background = background]
    /\ control' = ScopeReduced(control)
    /\ completed' = << >>
    /\ UNCHANGED <<browser, reading, act, queue, cancelled, evicted, applied, unreviewed>>

\* endAuthority, and dropBinding when a fixed consent stays.
AuthorityEnds(keepsConsent) ==
    /\ MayAct /\ live.bound
    /\ live' = [live EXCEPT !.bound = FALSE]
    /\ control' = IF keepsConsent THEN RebindRequired(control) ELSE Revoke(control)
    /\ completed' = << >>
    /\ UNCHANGED <<browser, reading, act, queue, cancelled, evicted, applied, unreviewed>>

\* By the user, a tab or window switch, or the agent's own control_takeover.
TakenOver ==
    /\ MayAct /\ live.bound
    /\ control' = Takeover(control)
    /\ UNCHANGED <<live, browser, reading, answering, applied, unreviewed>>

UserResumes ==
    /\ MayAct /\ control.state = "user_control"
    /\ control' = Resume(control)
    /\ unreviewed' = {}
    /\ UNCHANGED <<live, browser, reading, answering, applied>>

\* control_claim; arming the content script may fail.
AgentClaims(t) ==
    /\ MayAct /\ live.bound /\ MayClaim(control, Agent)
    /\ control' = Claim(control, t, Agent)
    /\ \E armed \in {page[t].armed, TRUE} : page' = [page EXCEPT ![t].armed = armed]
    /\ UNCHANGED <<live, gestured, navigated, reading, answering, applied, unreviewed>>

AgentReleases ==
    /\ MayAct /\ live.bound /\ control.state = "agent_claimed"
    /\ control' = Release(control)
    /\ UNCHANGED <<live, browser, reading, answering, applied, unreviewed>>

-----------------------------------------------------------------------------
(* The page: gestures, navigations, and when the companion hears of them   *)

\* A trusted gesture is counted; an armed content script reports one and disarms.
HumanGesture(t) ==
    /\ page[t].doc + page[t].gestures < MaxPage
    /\ page' = [page EXCEPT ![t].gestures = @ + 1, ![t].armed = FALSE]
    /\ gestured' = IF page[t].armed THEN gestured \cup {t} ELSE gestured
    /\ UNCHANGED <<user, navigated, reading, answering, applied, unreviewed>>

GestureReported(t) ==
    /\ t \in gestured
    /\ gestured' = gestured \ {t}
    /\ control' = IF ClaimedHere(t) /\ ~live.background THEN Takeover(control) ELSE control
    /\ UNCHANGED <<live, page, navigated, reading, answering, applied, unreviewed>>

\* A new document starts with a content script of its own.
PageNavigates(t) ==
    /\ page[t].doc + page[t].gestures < MaxPage
    /\ page' = [page EXCEPT ![t] = [doc |-> @.doc + 1, gestures |-> 0, armed |-> FALSE]]
    /\ navigated' = navigated \cup {t}
    /\ UNCHANGED <<user, gestured, reading, answering, applied, unreviewed>>

\* A navigation soon after a write of the agent is taken for the agent's.
NavigationReported(t, byAgent) ==
    /\ t \in navigated
    /\ navigated' = navigated \ {t}
    /\ control' = IF ClaimedHere(t) /\ ~live.background /\ ~byAgent
                  THEN Takeover(control) ELSE control
    /\ UNCHANGED <<live, page, gestured, reading, answering, applied, unreviewed>>

-----------------------------------------------------------------------------
(* snapshotContext                                                         *)

SnapshotRequested(t, claim) ==
    /\ snapshot.stage = "idle" /\ live.bound
    /\ Cardinality(observed[t]) < MaxObserved
    /\ snapshot' = [stage |-> "lookup", tab |-> t, claim |-> claim,
                    instance |-> live.instance, read |-> NoReading]
    /\ UNCHANGED <<user, browser, observed, answering, applied, unreviewed>>

\* contextAuthorization has answered: the claim is taken, or refused and reported.
SnapshotAuthorized ==
    /\ snapshot.stage = "lookup" /\ live.bound
    /\ snapshot.claim => MayAct
    /\ control' = IF snapshot.claim THEN Claim(control, snapshot.tab, Agent) ELSE control
    /\ snapshot' = [snapshot EXCEPT !.stage = "read",
                      !.claim = control'.state = "agent_claimed"
                                /\ control'.claimedTab = snapshot.tab]
    /\ UNCHANGED <<live, browser, observed, answering, applied, unreviewed>>

\* The content script reads the page, and is armed if the tab was claimed.
PageRead ==
    LET t == snapshot.tab IN
    /\ snapshot.stage = "read"
    /\ snapshot' = [snapshot EXCEPT !.stage = "export", !.read = ReadingOf(t)]
    /\ page' = [page EXCEPT ![t].armed = @ \/ snapshot.claim]
    /\ UNCHANGED <<user, gestured, navigated, observed, answering, applied, unreviewed>>

\* The references get the grant and the claim generation of the end of the read.
SnapshotExported ==
    LET t == snapshot.tab
        ref == [read |-> snapshot.read, claim |-> control.claimGeneration, grant |-> live.grant]
    IN
    /\ snapshot.stage = "export" /\ live.bound
    /\ observed' = IF LineageCurrent(snapshot.instance)
                   THEN [observed EXCEPT ![t] = @ \cup {ref}] ELSE observed
    /\ snapshot' = NoSnapshot
    /\ UNCHANGED <<user, browser, answering, applied, unreviewed>>

\* The tab is gone or withdrawn, its document changed, or the binding ended.
SnapshotFails ==
    /\ snapshot.stage # "idle"
    /\ snapshot' = NoSnapshot
    /\ UNCHANGED <<user, browser, observed, answering, applied, unreviewed>>

-----------------------------------------------------------------------------
(* The end of a request: handleRequest after its execution, postDelivery   *)

\* Mutant: only an outcome that is known is recorded.
NeverStarted_Unknown(outcome) == outcome \in {"not_started", "outcome_unknown"}

\* A request that never started is not recorded: its id may be tried again.
NeverStarted(outcome) == outcome = "not_started"

\* Mutant: nothing is ever let go.
RememberCompleted_All(i, outcome) == Append(completed, [id |-> i, outcome |-> outcome])

RememberCompleted(i, outcome) ==
    LET grown == Append(completed, [id |-> i, outcome |-> outcome])
    IN  IF Len(grown) > MaxCompleted THEN Tail(grown) ELSE grown

IdsIn(records) == {records[n].id : n \in DOMAIN records}
Recorded(i)    == i \in IdsIn(completed)

\* The write, which is the first of its queue, leaves it; all who asked are answered.
Settle(i, outcome) ==
    LET askers == act[i].joined \cup {act[i].instance} IN
    /\ act' = [act EXCEPT ![i] = [@ EXCEPT !.stage = "idle", !.joined = {}, !.instance = 0,
                                           !.read = NoReading, !.pageDid = "nothing"]]
    /\ queue' = [queue EXCEPT ![act[i].tab] = Tail(@)]
    /\ cancelled' = cancelled \ {i}
    /\ completed' = IF ~NeverStarted(outcome) /\ \E l \in askers : LineageCurrent(l)
                    THEN RememberCompleted(i, outcome) ELSE completed
    /\ evicted' = evicted \cup (IdsIn(completed) \ IdsIn(completed'))

-----------------------------------------------------------------------------
(* The write path: handleRequest, actOnContext                             *)

\* Mutant: an id with a recorded outcome runs as a new one.
Fresh_NoReplay(i) == act[i].stage = "idle"

Fresh(i) == act[i].stage = "idle" /\ ~Recorded(i)

ActRequested(i, t, ref) ==
    /\ live.bound
    /\ Fresh(i)
    /\ act[i].tab \in {NoTab, t} /\ act[i].ref \in {NoRef, ref}   \* an id keeps its parameters
    /\ act' = [act EXCEPT ![i] = [@ EXCEPT !.stage = "queued", !.tab = t, !.ref = ref,
                                           !.instance = live.instance]]
    /\ queue' = [queue EXCEPT ![t] = Append(@, i)]
    /\ UNCHANGED <<user, browser, reading, cancelled, completed, evicted, applied, unreviewed>>

\* inFlightRequests: the same id again, perhaps authorised by a later binding.
ActJoined(i) ==
    /\ live.bound
    /\ act[i].stage # "idle"
    /\ act' = [act EXCEPT ![i].joined = @ \cup ({live.instance} \ {act[i].instance})]
    /\ UNCHANGED <<user, browser, reading, queue, cancelled, completed, evicted, applied, unreviewed>>

CancelArrives(i) ==
    /\ act[i].ref # NoRef /\ Cardinality(cancelled) < MaxCancels
    /\ cancelled' = cancelled \cup {i}
    /\ UNCHANGED <<user, browser, reading, act, queue, completed, evicted, applied, unreviewed>>

\* Mutant: a write does not wait for the one before it.
MyTurn_Any(i) == TRUE

\* queueMutation: a write runs when everything queued before it has ended.
MyTurn(i) == Head(queue[act[i].tab]) = i

MoveTo(i, stage) ==
    /\ act' = [act EXCEPT ![i].stage = stage]
    /\ UNCHANGED <<queue, cancelled, completed, evicted>>

ActBegins(i) ==
    /\ act[i].stage = "queued" /\ MyTurn(i)
    /\ IF i \in cancelled \/ ~LineageCurrent(act[i].instance)
       THEN Settle(i, "not_started") ELSE MoveTo(i, "lookup")
    /\ UNCHANGED <<user, browser, reading, applied, unreviewed>>

ClaimCovers(i) ==
    CheckWriteClaim(control, act[i].tab, Agent, act[i].ref.claim)

\* tabs.get has answered.
ActChecked(i) ==
    /\ act[i].stage = "lookup"
    /\ IF live.bound /\ act[i].ref.grant = live.grant /\ ClaimCovers(i)
       THEN MoveTo(i, "ping") ELSE Settle(i, "not_started")
    /\ UNCHANGED <<user, browser, reading, applied, unreviewed>>

\* The tab is gone, withdrawn, not focused, or its content script unreachable.
ActUnavailable(i) ==
    /\ act[i].stage \in {"lookup", "ping"}
    /\ Settle(i, "not_started")
    /\ UNCHANGED <<user, browser, reading, applied, unreviewed>>

PageAnswersPing(i) ==
    /\ act[i].stage = "ping"
    /\ act' = [act EXCEPT ![i].stage = "verify", ![i].read = ReadingOf(act[i].tab)]
    /\ page' = [page EXCEPT ![act[i].tab].armed = TRUE]
    /\ UNCHANGED <<user, gestured, navigated, reading, queue, cancelled, completed,
                   evicted, applied, unreviewed>>

\* Mutant: authority and claim are not looked at again after the ping.
ActDispatched_NoRecheck(i) ==
    LET gesture == act[i].read.doc = act[i].ref.read.doc
                   /\ act[i].read.gestures # act[i].ref.read.gestures
    IN
    /\ act[i].stage = "verify"
    /\ control' = IF gesture /\ ~live.background THEN Takeover(control) ELSE control
    /\ IF act[i].read = act[i].ref.read THEN MoveTo(i, "sent") ELSE Settle(i, "not_started")
    /\ UNCHANGED <<live, browser, reading, applied, unreviewed>>

\* The ping has answered: the last checks before the write is sent.
ActDispatched(i) ==
    LET gesture == act[i].read.doc = act[i].ref.read.doc
                   /\ act[i].read.gestures # act[i].ref.read.gestures
    IN
    /\ act[i].stage = "verify"
    /\ control' = IF gesture /\ ~live.background THEN Takeover(control) ELSE control
    /\ IF act[i].read = act[i].ref.read /\ LineageCurrent(act[i].instance) /\ ClaimCovers(i)
       THEN MoveTo(i, "sent") ELSE Settle(i, "not_started")
    /\ UNCHANGED <<live, browser, reading, applied, unreviewed>>

\* Mutant: the element is looked up in whatever document the tab shows.
PageApplies_AnyDocument(i) ==
    /\ act[i].stage = "sent" /\ act[i].pageDid = "nothing"
    /\ act' = [act EXCEPT ![i].pageDid = "applied"]
    /\ applied' = [applied EXCEPT ![i] = IF @ < 2 THEN @ + 1 ELSE 2]
    /\ UNCHANGED <<user, browser, reading, queue, cancelled, completed, evicted, unreviewed>>

\* The content script finds the element in the document it was observed in.
PageApplies(i) ==
    /\ act[i].stage = "sent" /\ act[i].pageDid = "nothing"
    /\ page[act[i].tab].doc = act[i].ref.read.doc
    /\ act' = [act EXCEPT ![i].pageDid = "applied"]
    /\ applied' = [applied EXCEPT ![i] = IF @ < 2 THEN @ + 1 ELSE 2]
    /\ UNCHANGED <<user, browser, reading, queue, cancelled, completed, evicted, unreviewed>>

\* Another document, a node that is gone, an input it does not do, a credential.
PageRefuses(i, why) ==
    /\ act[i].stage = "sent" /\ act[i].pageDid = "nothing"
    /\ act' = [act EXCEPT ![i].pageDid = why]
    /\ UNCHANGED <<user, browser, reading, queue, cancelled, completed, evicted, applied,
                   unreviewed>>

ActAnswered(i) ==
    /\ act[i].stage = "sent" /\ act[i].pageDid # "nothing"
    /\ control' = IF act[i].pageDid = "credential" THEN Takeover(control) ELSE control
    /\ Settle(i, IF act[i].pageDid = "applied" THEN "completed" ELSE "refused")
    /\ UNCHANGED <<live, browser, reading, applied, unreviewed>>

\* The channel to the page broke: the effect may or may not have happened.
ActAnswerLost(i) ==
    /\ act[i].stage = "sent"
    /\ control' = Takeover(control)
    /\ Settle(i, "outcome_unknown")
    /\ unreviewed' = unreviewed \cup {i}
    /\ UNCHANGED <<live, browser, reading, applied>>

-----------------------------------------------------------------------------
Init ==
    /\ control = CreateControl
    /\ live = [bound |-> FALSE, instance |-> 0, grant |-> 0, background |-> FALSE]
    /\ page = [t \in Tabs |-> [doc |-> 1, gestures |-> 0, armed |-> FALSE]]
    /\ gestured = {} /\ navigated = {}
    /\ snapshot = NoSnapshot
    /\ observed = [t \in Tabs |-> {}]
    /\ act = [i \in Ids |-> [stage |-> "idle", tab |-> NoTab, ref |-> NoRef, instance |-> 0,
                             joined |-> {}, read |-> NoReading, pageDid |-> "nothing"]]
    /\ queue = [t \in Tabs |-> << >>]
    /\ cancelled = {} /\ completed = << >>
    /\ applied = [i \in Ids |-> 0]
    /\ evicted = {} /\ unreviewed = {}

Authority ==
    \/ \E background \in BOOLEAN : UserBinds(background) \/ UserNarrows(background)
    \/ \E keepsConsent \in BOOLEAN : AuthorityEnds(keepsConsent)
    \/ TakenOver \/ UserResumes \/ AgentReleases
    \/ \E t \in Tabs : AgentClaims(t)

Page ==
    \E t \in Tabs :
        \/ HumanGesture(t) \/ GestureReported(t) \/ PageNavigates(t)
        \/ \E byAgent \in BOOLEAN : NavigationReported(t, byAgent)

Observation ==
    \/ \E t \in Tabs, claim \in BOOLEAN : SnapshotRequested(t, claim)
    \/ SnapshotAuthorized \/ PageRead \/ SnapshotExported \/ SnapshotFails

Write ==
    \E i \in Ids :
        \/ \E t \in Tabs : \E ref \in observed[t] : ActRequested(i, t, ref)
        \/ ActJoined(i) \/ CancelArrives(i)
        \/ ActBegins(i) \/ ActChecked(i) \/ ActUnavailable(i) \/ PageAnswersPing(i)
        \/ ActDispatched(i) \/ PageApplies(i) \/ ActAnswered(i) \/ ActAnswerLost(i)
        \/ \E why \in {"refused", "credential"} : PageRefuses(i, why)

Next == Authority \/ Page \/ Observation \/ Write

Spec == Init /\ [][Next]_vars

-----------------------------------------------------------------------------
(* Properties                                                              *)

\* The writes to a tab are run one after the other: whatever ends a write, the
\* next one starts then and not before (queueMutation).
OneWriteAtATime ==
    \A i, j \in Ids :
        act[i].stage \notin {"idle", "queued"} /\ act[j].stage \notin {"idle", "queued"}
        /\ act[i].tab = act[j].tab => i = j

\* An id takes effect in the page a second time only after its record was pushed
\* out of completedRequests: neither joins, nor replays, nor records cleared by a
\* change of authority, nor unknown outcomes lead to a second effect.
OneEffect == \A i \in Ids : applied[i] > 1 => i \in evicted

\* An attempt that took effect in the page is never taken for one that never
\* started: when it ends and one of its askers may still be answered, its id is
\* recorded, and so never run again as new.
EffectIsRecorded ==
    [][\A i \in Ids : act[i].pageDid = "applied" /\ act'[i].stage = "idle"
         => \/ i \in IdsIn(completed')
            \/ \A l \in act[i].joined \cup {act[i].instance} : ~LineageCurrent(l)]_vars

\* A write is sent under the binding it was asked under and the claim its element
\* reference names, and never while an unknown outcome waits for the user: "The
\* human reviews before the agent writes again" (actOnContext).
SentUnderItsClaim ==
    [][\A i \in Ids : act[i].stage # "sent" /\ act'[i].stage = "sent"
         => /\ unreviewed = {}
            /\ control.state = "agent_claimed" /\ control.claimedTab = act[i].tab
            /\ control.claimGeneration = act[i].ref.claim
            /\ LineageCurrent(act[i].instance)]_vars

\* An effect lands in the document that was observed, and nobody had touched that
\* document between its observation and the ping before the write.
LandsWhereObserved ==
    [][\A i \in Ids : act[i].pageDid = "nothing" /\ act'[i].pageDid = "applied"
         => /\ page[act[i].tab].doc = act[i].ref.read.doc
            /\ act[i].read = act[i].ref.read]_vars
=============================================================================
