------------------------ MODULE ActRequests_proofs ------------------------
(***************************************************************************)
(* Theorems about ActRequests, for every set of tabs and ids, every cache  *)
(* size and every bound.                                                   *)
(***************************************************************************)
EXTENDS ActRequests, SequenceTheorems, TLAPS

-----------------------------------------------------------------------------
(* The inductive invariant                                                 *)

\* A queue holds each of its tab's pending writes once, and a running one first.
QueueOK ==
    /\ \A t \in Tabs : \A m, n \in 1..Len(queue[t]) : queue[t][m] = queue[t][n] => m = n
    /\ \A t \in Tabs : \A n \in 1..Len(queue[t]) :
          act[queue[t][n]].stage # "idle" /\ act[queue[t][n]].tab = t
    /\ \A i \in Ids : act[i].stage # "idle" =>
          act[i].tab \in Tabs /\ \E n \in 1..Len(queue[act[i].tab]) : queue[act[i].tab][n] = i
    /\ \A i \in Ids : act[i].stage \notin {"idle", "queued"} => Head(queue[act[i].tab]) = i

\* While an unknown outcome waits for the user, nobody holds or may take a claim.
Reviewed ==
    unreviewed # {} => control.state \in {"user_control", "no_access", "rebinding"}

\* A snapshot in flight names a tab.
Aimed == snapshot.stage # "idle" => snapshot.tab \in Tabs

IInv == TypeOK /\ QueueOK /\ Aimed /\ Reviewed

-----------------------------------------------------------------------------
(* Control machine and sequences                                           *)

\* Every transition used here keeps the control record in its type (policy.js).
LEMMA ControlType ==
    ASSUME NEW c \in Controls
    PROVE  /\ Grant(c) \in Controls /\ RebindRequired(c) \in Controls
           /\ Revoke(c) \in Controls /\ Release(c) \in Controls
           /\ ScopeReduced(c) \in Controls /\ Takeover(c) \in Controls
           /\ Resume(c) \in Controls
           /\ \A t \in Tabs : Claim(c, t, Agent) \in Controls
  BY ActAssumption DEF Controls, ControlStates, Unclaimed, HasAccess, Grant, RebindRequired,
     Revoke, Release, ScopeReduced, Takeover, Resume, Claim, MayClaim

\* Without a claim or the right to one, only a grant or a resume brings it back.
LEMMA ControlWithheld ==
    ASSUME NEW c \in Controls, c.state \in {"user_control", "no_access", "rebinding"}
    PROVE  /\ RebindRequired(c).state = "rebinding" /\ Revoke(c).state = "no_access"
           /\ Release(c) = c
           /\ ScopeReduced(c).state \in {"user_control", "no_access", "rebinding"}
           /\ Takeover(c).state \in {"user_control", "no_access", "rebinding"}
           /\ \A t \in Tabs : Claim(c, t, Agent) = c
  BY DEF Controls, Unclaimed, HasAccess, RebindRequired, Revoke, Release, ScopeReduced,
     Takeover, Claim, MayClaim

\* A takeover leaves no claim, whatever the state it finds (policy.js transition).
LEMMA TakeoverWithholds ==
    ASSUME NEW c \in Controls
    PROVE  Takeover(c).state \in {"user_control", "no_access", "rebinding"}
  BY DEF Controls, ControlStates, Unclaimed, HasAccess, Takeover

\* The outcome cache stays within its size (rememberCompleted).
LEMMA RememberType ==
    ASSUME TypeOK, NEW i \in Ids, NEW outcome \in Outcomes
    PROVE  /\ RememberCompleted(i, outcome) \in Seq([id : Ids, outcome : Outcomes])
           /\ Len(RememberCompleted(i, outcome)) <= MaxCompleted
  <1> DEFINE Records == [id : Ids, outcome : Outcomes]
             grown == Append(completed, [id |-> i, outcome |-> outcome])
  <1>1. completed \in Seq(Records) /\ Len(completed) <= MaxCompleted /\ MaxCompleted \in Nat
    BY ActAssumption DEF TypeOK
  <1>2. [id |-> i, outcome |-> outcome] \in Records
    OBVIOUS
  <1>3. grown \in Seq(Records) /\ Len(grown) = Len(completed) + 1
    BY <1>1, <1>2
  <1>4. grown # << >> /\ Len(completed) \in Nat
    BY <1>1, <1>3
  <1>5. Tail(grown) \in Seq(Records) /\ Len(Tail(grown)) = Len(completed)
    BY <1>3, <1>4
  <1>6. RememberCompleted(i, outcome) = IF Len(grown) > MaxCompleted THEN Tail(grown) ELSE grown
    BY DEF RememberCompleted
  <1> HIDE DEF Records, grown
  <1>7. CASE Len(grown) > MaxCompleted
    BY <1>1, <1>3, <1>4, <1>5, <1>6, <1>7 DEF Records
  <1>8. CASE ~(Len(grown) > MaxCompleted)
    BY <1>1, <1>3, <1>4, <1>6, <1>8 DEF Records
  <1> QED BY <1>7, <1>8

-----------------------------------------------------------------------------
(* Settle: the first write of a queue leaves it                            *)

\* What ends a write keeps every type it touches.
LEMMA SettleType ==
    ASSUME TypeOK, NEW i \in Ids, NEW outcome \in Outcomes, Settle(i, outcome),
           act[i].tab \in Tabs, queue[act[i].tab] # << >>
    PROVE  /\ act' \in [Ids -> Acts] /\ queue' \in [Tabs -> Seq(Ids)]
           /\ cancelled' \subseteq Ids /\ evicted' \subseteq Ids
           /\ completed' \in Seq([id : Ids, outcome : Outcomes]) /\ Len(completed') <= MaxCompleted
  <1> DEFINE ended == [act[i] EXCEPT !.stage = "idle", !.joined = {}, !.instance = 0,
                                     !.read = NoReading, !.pageDid = "nothing"]
  <1>1. act \in [Ids -> Acts] /\ act[i] \in Acts
    BY DEF TypeOK
  <1>2. ended \in Acts
    BY <1>1 DEF Acts, NoReading, Readings
  <1>3. act' = [act EXCEPT ![i] = ended]
    BY DEF Settle
  <1>4. act' \in [Ids -> Acts]
    BY <1>1, <1>2, <1>3
  <1>5. queue' \in [Tabs -> Seq(Ids)]
    <2>1. queue \in [Tabs -> Seq(Ids)] /\ queue[act[i].tab] \in Seq(Ids)
      BY DEF TypeOK
    <2>2. Tail(queue[act[i].tab]) \in Seq(Ids)
      BY <2>1, HeadTailProperties
    <2> QED BY <2>1, <2>2 DEF Settle
  <1>6. cancelled' \subseteq Ids
    BY DEF TypeOK, Settle
  <1>7. completed' \in Seq([id : Ids, outcome : Outcomes]) /\ Len(completed') <= MaxCompleted
    <2>1. completed' = RememberCompleted(i, outcome) \/ completed' = completed
      BY DEF Settle
    <2> QED BY <2>1, RememberType DEF TypeOK
  <1>8. evicted' \subseteq Ids
    <2>1. IdsIn(completed) \subseteq Ids
      <3>1. SUFFICES ASSUME NEW n \in DOMAIN completed
                     PROVE  completed[n].id \in Ids
        BY DEF IdsIn
      <3> DEFINE Records == [id : Ids, outcome : Outcomes]
      <3>2. completed \in Seq(Records)
        BY DEF TypeOK
      <3>3. \A r \in Records : r.id \in Ids
        OBVIOUS
      <3> HIDE DEF Records
      <3>4. completed[n] \in Records
        BY <3>1, <3>2, ElementOfSeq, LenProperties
      <3> QED BY <3>3, <3>4
    <2> QED BY <2>1 DEF TypeOK, Settle
  <1> QED BY <1>4, <1>5, <1>6, <1>7, <1>8

\* The queues stay in order when their first write ends (queueMutation).
LEMMA SettleQueue ==
    ASSUME TypeOK, QueueOK, NEW i \in Ids, NEW outcome \in Outcomes, Settle(i, outcome),
           act[i].stage # "idle", Head(queue[act[i].tab]) = i
    PROVE  QueueOK'
  <1> DEFINE home == act[i].tab
             q == queue[home]
  <1>1. home \in Tabs /\ q \in Seq(Ids) /\ queue \in [Tabs -> Seq(Ids)]
    BY DEF TypeOK, QueueOK
  <1>2. Len(q) \in Nat /\ q # << >>
    BY <1>1 DEF QueueOK
  <1>3. /\ Tail(q) \in Seq(Ids) /\ Len(Tail(q)) = Len(q) - 1
        /\ \A n \in 1..Len(Tail(q)) : Tail(q)[n] = q[n + 1]
    BY <1>1, <1>2, HeadTailProperties
  <1>4. q[1] = i
    BY <1>1, <1>2
  <1>5. /\ queue'[home] = Tail(q)
        /\ \A t \in Tabs \ {home} : queue'[t] = queue[t]
    BY <1>1 DEF Settle
  <1>6. /\ act'[i].stage = "idle"
        /\ \A j \in Ids \ {i} : act'[j] = act[j]
    BY DEF TypeOK, Settle, Acts
  <1>7. \A n \in 1..Len(q) : n # 1 => q[n] # i
    BY <1>1, <1>2, <1>4 DEF QueueOK
  <1> HIDE DEF home, q
  <1>8. \A t \in Tabs : \A m, n \in 1..Len(queue'[t]) : queue'[t][m] = queue'[t][n] => m = n
    <2>1. SUFFICES ASSUME NEW t \in Tabs, NEW m \in 1..Len(queue'[t]), NEW n \in 1..Len(queue'[t]),
                          queue'[t][m] = queue'[t][n]
                   PROVE  m = n
      OBVIOUS
    <2>2. CASE t # home
      BY <2>1, <2>2, <1>5 DEF QueueOK
    <2>3. CASE t = home
      <3>1. q[m + 1] = q[n + 1] /\ m + 1 \in 1..Len(q) /\ n + 1 \in 1..Len(q)
        BY <2>1, <2>3, <1>2, <1>3, <1>5
      <3>2. m + 1 = n + 1
        BY <3>1, <1>1 DEF QueueOK, q
      <3> QED BY <3>2
    <2> QED BY <2>2, <2>3
  <1>9. \A t \in Tabs : \A n \in 1..Len(queue'[t]) :
           act'[queue'[t][n]].stage # "idle" /\ act'[queue'[t][n]].tab = t
    <2>1. SUFFICES ASSUME NEW t \in Tabs, NEW n \in 1..Len(queue'[t])
                   PROVE  act'[queue'[t][n]].stage # "idle" /\ act'[queue'[t][n]].tab = t
      OBVIOUS
    <2>2. CASE t # home
      <3>1. queue'[t] = queue[t] /\ queue[t] \in Seq(Ids)
        BY <2>2, <1>1, <1>5
      <3>2. queue[t][n] \in Ids /\ act[queue[t][n]].stage # "idle" /\ act[queue[t][n]].tab = t
        BY <2>1, <3>1 DEF QueueOK
      <3>3. queue[t][n] # i
        BY <2>2, <3>2 DEF home
      <3> QED BY <3>1, <3>2, <3>3, <1>6
    <2>3. CASE t = home
      <3>1. queue'[t][n] = q[n + 1] /\ n + 1 \in 1..Len(q) /\ n + 1 # 1
        BY <2>1, <2>3, <1>2, <1>3, <1>5
      <3>2. q[n + 1] \in Ids /\ q[n + 1] # i
        BY <3>1, <1>1, <1>7
      <3>3. act[q[n + 1]].stage # "idle" /\ act[q[n + 1]].tab = t
        BY <3>1, <2>3, <1>1 DEF QueueOK, q
      <3> QED BY <3>1, <3>2, <3>3, <1>6
    <2> QED BY <2>2, <2>3
  <1>10. \A j \in Ids : act'[j].stage # "idle" =>
            act'[j].tab \in Tabs /\ \E n \in 1..Len(queue'[act'[j].tab]) : queue'[act'[j].tab][n] = j
    <2>1. SUFFICES ASSUME NEW j \in Ids, j # i, act[j].stage # "idle", act'[j] = act[j]
                   PROVE  act[j].tab \in Tabs /\ \E n \in 1..Len(queue'[act[j].tab]) : queue'[act[j].tab][n] = j
      BY <1>6
    <2>2. PICK n \in 1..Len(queue[act[j].tab]) : queue[act[j].tab][n] = j
      BY <2>1 DEF QueueOK
    <2>3. act[j].tab \in Tabs
      BY <2>1 DEF QueueOK
    <2>4. CASE act[j].tab # home
      BY <2>2, <2>3, <2>4, <1>5
    <2>5. CASE act[j].tab = home
      <3>1. n \in 1..Len(q) /\ q[n] = j /\ n # 1
        BY <2>1, <2>2, <2>5, <1>4 DEF q
      <3>2. n - 1 \in 1..Len(Tail(q)) /\ Tail(q)[n - 1] = j
        BY <3>1, <1>2, <1>3
      <3> QED BY <2>3, <2>5, <3>2, <1>5
    <2> QED BY <2>4, <2>5
  <1>11. \A j \in Ids : act'[j].stage \notin {"idle", "queued"} => Head(queue'[act'[j].tab]) = j
    <2>1. SUFFICES ASSUME NEW j \in Ids, j # i, act[j].stage \notin {"idle", "queued"}, act'[j] = act[j]
                   PROVE  Head(queue'[act[j].tab]) = j
      BY <1>6
    <2>2. act[j].tab \in Tabs /\ Head(queue[act[j].tab]) = j
      BY <2>1 DEF QueueOK
    <2>3. act[j].tab # home
      BY <2>1, <2>2 DEF home
    <2> QED BY <2>2, <2>3, <1>5
  <1> QED BY <1>8, <1>9, <1>10, <1>11 DEF QueueOK

-----------------------------------------------------------------------------
(* The steps                                                               *)

\* Nothing is queued, claimed or unknown when the companion starts.
LEMMA InitOK == Init => IInv
  <1> SUFFICES ASSUME Init PROVE IInv
    OBVIOUS
  <1>1. TypeOK
    BY ActAssumption DEF Init, TypeOK, CreateControl, Controls, ControlStates, Bindings, Pages,
       NoSnapshot, Snapshots, NoReading, Readings, NoRef, Refs, Acts, Outcomes
  <1>2. QueueOK
    BY DEF Init, QueueOK
  <1>3. Reviewed
    BY DEF Init, Reviewed
  <1>4. Aimed
    BY DEF Init, Aimed, NoSnapshot
  <1> QED BY <1>1, <1>2, <1>3, <1>4 DEF IInv

\* Changing fields of a binding keeps its type.
LEMMA BindingFields ==
    ASSUME NEW b \in Bindings, NEW g \in BOOLEAN
    PROVE  /\ [b EXCEPT !.instance = @ + 1, !.background = g] \in Bindings
           /\ [b EXCEPT !.bound = FALSE] \in Bindings
  <1>1. [b EXCEPT !.bound = FALSE] \in Bindings
    BY DEF Bindings
  <1>2. b.instance + 1 \in Nat
    BY DEF Bindings
  <1>3. [b EXCEPT !.instance = @ + 1] \in Bindings
    BY <1>2 DEF Bindings
  <1> QED BY <1>1, <1>3 DEF Bindings

\* Changing fields of a page keeps its type.
LEMMA PageFields ==
    ASSUME NEW p \in Pages
    PROVE  /\ \A armed \in BOOLEAN : [p EXCEPT !.armed = armed] \in Pages
           /\ [p EXCEPT !.gestures = @ + 1, !.armed = FALSE] \in Pages
           /\ [doc |-> p.doc + 1, gestures |-> 0, armed |-> FALSE] \in Pages
           /\ [doc |-> p.doc, gestures |-> p.gestures] \in Readings
  <1>1. p.doc \in Nat /\ p.gestures \in Nat
    BY DEF Pages
  <1>2. \A armed \in BOOLEAN : [p EXCEPT !.armed = armed] \in Pages
    BY DEF Pages
  <1>3. [p EXCEPT !.gestures = @ + 1] \in Pages
    BY <1>1 DEF Pages
  <1>4. [p EXCEPT !.gestures = @ + 1, !.armed = FALSE] \in Pages
    BY <1>3 DEF Pages
  <1> QED BY <1>1, <1>2, <1>4 DEF Pages, Readings

\* A step of the user, the agent's claims, the page or a snapshot keeps the types.
LEMMA AroundType ==
    ASSUME TypeOK, Aimed, Authority \/ Page \/ Observation
    PROVE  TypeOK' /\ Aimed' /\ UNCHANGED <<act, queue>>
  <1>1. ASSUME NEW background \in BOOLEAN, UserBinds(background)
        PROVE  TypeOK' /\ Aimed' /\ UNCHANGED <<act, queue>>
    BY <1>1, ControlType, ActAssumption DEF TypeOK, Aimed, UserBinds, Bindings, browser, reading
  <1>2. ASSUME NEW background \in BOOLEAN, UserNarrows(background)
        PROVE  TypeOK' /\ Aimed' /\ UNCHANGED <<act, queue>>
    <2>1. live' \in Bindings /\ control' \in Controls
      BY <1>2, ControlType, BindingFields DEF TypeOK, UserNarrows
    <2> QED BY <1>2, <2>1, ActAssumption DEF TypeOK, Aimed, UserNarrows, browser, reading
  <1>3. ASSUME NEW keepsConsent \in BOOLEAN, AuthorityEnds(keepsConsent)
        PROVE  TypeOK' /\ Aimed' /\ UNCHANGED <<act, queue>>
    <2>1. live' \in Bindings /\ control' \in Controls
      BY <1>3, ControlType, BindingFields DEF TypeOK, AuthorityEnds
    <2> QED BY <1>3, <2>1, ActAssumption DEF TypeOK, Aimed, AuthorityEnds, browser, reading
  <1>4. CASE TakenOver
    BY <1>4, ControlType DEF TypeOK, Aimed, TakenOver, browser, reading, answering
  <1>5. CASE UserResumes
    BY <1>5, ControlType DEF TypeOK, Aimed, UserResumes, browser, reading, answering
  <1>6. CASE AgentReleases
    BY <1>6, ControlType DEF TypeOK, Aimed, AgentReleases, browser, reading, answering
  <1>7. ASSUME NEW t \in Tabs, AgentClaims(t)
        PROVE  TypeOK' /\ Aimed' /\ UNCHANGED <<act, queue>>
    <2>1. PICK armed \in {page[t].armed, TRUE} : page' = [page EXCEPT ![t].armed = armed]
      BY <1>7 DEF AgentClaims
    <2>2. page[t] \in Pages /\ armed \in BOOLEAN
      BY <2>1 DEF TypeOK, Pages
    <2>3. page' \in [Tabs -> Pages]
      BY <2>1, <2>2, PageFields DEF TypeOK
    <2> QED BY <1>7, <2>3, ControlType DEF TypeOK, Aimed, AgentClaims, reading, answering
  <1>8. ASSUME NEW t \in Tabs, HumanGesture(t)
        PROVE  TypeOK' /\ Aimed' /\ UNCHANGED <<act, queue>>
    <2>1. page' \in [Tabs -> Pages]
      BY <1>8, PageFields DEF TypeOK, HumanGesture
    <2> QED BY <1>8, <2>1 DEF TypeOK, Aimed, HumanGesture, user, reading, answering
  <1>9. ASSUME NEW t \in Tabs, GestureReported(t)
        PROVE  TypeOK' /\ Aimed' /\ UNCHANGED <<act, queue>>
    BY <1>9, ControlType DEF TypeOK, Aimed, GestureReported, reading, answering
  <1>10. ASSUME NEW t \in Tabs, PageNavigates(t)
         PROVE  TypeOK' /\ Aimed' /\ UNCHANGED <<act, queue>>
    <2>1. page' \in [Tabs -> Pages]
      BY <1>10, PageFields DEF TypeOK, PageNavigates
    <2> QED BY <1>10, <2>1 DEF TypeOK, Aimed, PageNavigates, user, reading, answering
  <1>11. ASSUME NEW t \in Tabs, NEW byAgent \in BOOLEAN, NavigationReported(t, byAgent)
         PROVE  TypeOK' /\ Aimed' /\ UNCHANGED <<act, queue>>
    BY <1>11, ControlType DEF TypeOK, Aimed, NavigationReported, reading, answering
  <1>12. ASSUME NEW t \in Tabs, NEW claim \in BOOLEAN, SnapshotRequested(t, claim)
         PROVE  TypeOK' /\ Aimed' /\ UNCHANGED <<act, queue>>
    BY <1>12 DEF TypeOK, Aimed, SnapshotRequested, Snapshots, NoReading, Readings, Bindings,
       user, browser, answering
  <1>13. CASE SnapshotAuthorized
    <2>1. snapshot.tab \in Tabs
      BY <1>13 DEF Aimed, SnapshotAuthorized
    <2>2. control' \in Controls
      BY <1>13, <2>1, ControlType DEF TypeOK, SnapshotAuthorized
    <2>3. snapshot' \in Snapshots /\ snapshot'.tab = snapshot.tab
      BY <1>13 DEF TypeOK, SnapshotAuthorized, Snapshots
    <2> QED BY <1>13, <2>1, <2>2, <2>3 DEF TypeOK, Aimed, SnapshotAuthorized, browser, answering
  <1>14. CASE PageRead
    <2>1. snapshot.tab \in Tabs
      BY <1>14 DEF Aimed, PageRead
    <2>2. page[snapshot.tab] \in Pages /\ page[snapshot.tab].armed \in BOOLEAN
          /\ snapshot.claim \in BOOLEAN
      BY <2>1 DEF TypeOK, Pages, Snapshots
    <2>3. page' \in [Tabs -> Pages]
      BY <1>14, <2>1, <2>2, PageFields DEF TypeOK, PageRead
    <2>4. ReadingOf(snapshot.tab) \in Readings
      BY <2>2, PageFields DEF ReadingOf
    <2>5. snapshot' \in Snapshots /\ snapshot'.tab = snapshot.tab
      BY <1>14, <2>4 DEF TypeOK, PageRead, Snapshots
    <2> QED BY <1>14, <2>1, <2>3, <2>5 DEF TypeOK, Aimed, PageRead, user, answering
  <1>15. CASE SnapshotExported
    <2> DEFINE ref == [read |-> snapshot.read, claim |-> control.claimGeneration, grant |-> live.grant]
    <2>1. ref \in Refs
      BY DEF TypeOK, Snapshots, Refs, Bindings, Controls
    <2>2. /\ observed \in [Tabs -> SUBSET Refs]
          /\ observed' = observed \/ observed' = [observed EXCEPT ![snapshot.tab] = @ \cup {ref}]
      BY <1>15 DEF TypeOK, SnapshotExported
    <2> HIDE DEF ref
    <2>3. observed' \in [Tabs -> SUBSET Refs]
      BY <2>1, <2>2
    <2>4. NoSnapshot \in Snapshots
      BY DEF NoSnapshot, Snapshots, NoReading, Readings
    <2> QED BY <1>15, <2>3, <2>4 DEF TypeOK, Aimed, SnapshotExported, NoSnapshot, user, browser,
               answering
  <1>16. CASE SnapshotFails
    BY <1>16 DEF TypeOK, Aimed, SnapshotFails, Snapshots, NoSnapshot, NoReading, Readings, user,
       browser, answering
  <1> QED BY <1>1, <1>2, <1>3, <1>4, <1>5, <1>6, <1>7, <1>8, <1>9, <1>10, <1>11, <1>12, <1>13,
             <1>14, <1>15, <1>16 DEF Authority, Page, Observation

-----------------------------------------------------------------------------
(* The steps of a write                                                    *)

\* A pending write is in the queue of its tab (handleRequest, queueMutation).
LEMMA Pending ==
    ASSUME TypeOK, QueueOK, NEW i \in Ids, act[i].stage # "idle"
    PROVE  /\ act[i] \in Acts /\ act[i].tab \in Tabs
           /\ queue[act[i].tab] \in Seq(Ids) /\ queue[act[i].tab] # << >>
  <1>1. act[i] \in Acts /\ act[i].tab \in Tabs /\ queue[act[i].tab] \in Seq(Ids)
    BY DEF TypeOK, QueueOK
  <1>2. PICK n \in 1..Len(queue[act[i].tab]) : queue[act[i].tab][n] = i
    BY DEF QueueOK
  <1> QED BY <1>1, <1>2

\* A write that goes on stays in its queue, and is its first once it runs.
LEMMA StaysQueued ==
    ASSUME TypeOK, QueueOK, NEW i \in Ids, NEW a \in Acts,
           act' = [act EXCEPT ![i] = a], queue' = queue,
           act[i].stage # "idle", a.stage # "idle", a.tab = act[i].tab,
           a.stage = "queued" \/ Head(queue[act[i].tab]) = i
    PROVE  act' \in [Ids -> Acts] /\ QueueOK'
  <1>1. act' \in [Ids -> Acts]
    BY DEF TypeOK
  <1>2. /\ act'[i] = a
        /\ \A j \in Ids \ {i} : act'[j] = act[j]
        /\ \A j \in Ids : act'[j].tab = act[j].tab
    BY DEF TypeOK
  <1>3. \A t \in Tabs : \A n \in 1..Len(queue'[t]) :
           act'[queue'[t][n]].stage # "idle" /\ act'[queue'[t][n]].tab = t
    <2>1. SUFFICES ASSUME NEW t \in Tabs, NEW n \in 1..Len(queue[t])
                   PROVE  act'[queue[t][n]].stage # "idle" /\ act'[queue[t][n]].tab = t
      OBVIOUS
    <2>2. queue[t] \in Seq(Ids)
      BY DEF TypeOK
    <2>3. queue[t][n] \in Ids
      BY <2>1, <2>2
    <2>4. act[queue[t][n]].stage # "idle" /\ act[queue[t][n]].tab = t
      BY <2>1 DEF QueueOK
    <2> QED BY <2>3, <2>4, <1>2
  <1>4. \A j \in Ids : act'[j].stage # "idle" =>
           act'[j].tab \in Tabs /\ \E n \in 1..Len(queue'[act'[j].tab]) : queue'[act'[j].tab][n] = j
    BY <1>2 DEF QueueOK
  <1>5. \A j \in Ids : act'[j].stage \notin {"idle", "queued"} => Head(queue'[act'[j].tab]) = j
    BY <1>2 DEF QueueOK
  <1> QED BY <1>1, <1>3, <1>4, <1>5 DEF QueueOK

\* Changing fields of a write keeps its type.
LEMMA ActFields ==
    ASSUME NEW a \in Acts, NEW s \in {"idle", "queued", "lookup", "ping", "verify", "sent"}
    PROVE  /\ [a EXCEPT !.stage = s] \in Acts
           /\ \A r \in Readings : [a EXCEPT !.stage = s, !.read = r] \in Acts
           /\ \A l \in SUBSET Nat : [a EXCEPT !.joined = l] \in Acts
           /\ \A d \in {"nothing", "applied", "refused", "credential"} :
                 [a EXCEPT !.pageDid = d] \in Acts
           /\ \A t \in Tabs, ref \in Refs, l \in Nat :
                 [a EXCEPT !.stage = s, !.tab = t, !.ref = ref, !.instance = l] \in Acts
  <1>1. [a EXCEPT !.stage = s] \in Acts
    BY DEF Acts
  <1>2. \A r \in Readings : [a EXCEPT !.stage = s, !.read = r] \in Acts
    BY <1>1 DEF Acts
  <1>3. \A l \in SUBSET Nat : [a EXCEPT !.joined = l] \in Acts
    BY DEF Acts
  <1>4. \A d \in {"nothing", "applied", "refused", "credential"} : [a EXCEPT !.pageDid = d] \in Acts
    BY DEF Acts
  <1>5. \A t \in Tabs, ref \in Refs, l \in Nat :
           [a EXCEPT !.stage = s, !.tab = t, !.ref = ref, !.instance = l] \in Acts
    BY DEF Acts
  <1> QED BY <1>1, <1>2, <1>3, <1>4, <1>5

\* A new write goes to the end of the queue of its tab (actOnContext, queueMutation).
LEMMA Enqueues ==
    ASSUME TypeOK, QueueOK, NEW i \in Ids, NEW t \in Tabs, NEW ref \in observed[t],
           ActRequested(i, t, ref)
    PROVE  TypeOK' /\ QueueOK'
  <1> DEFINE a == [act[i] EXCEPT !.stage = "queued", !.tab = t, !.ref = ref,
                                 !.instance = live.instance]
             q == queue[t]
  <1>1. act[i] \in Acts /\ act[i].stage = "idle" /\ ref \in Refs /\ live.instance \in Nat
    BY DEF TypeOK, ActRequested, Fresh, Bindings
  <1>2. a \in Acts /\ a.stage = "queued" /\ a.tab = t
    <2>1. a \in Acts
      BY <1>1, ActFields
    <2> QED BY <1>1, <2>1 DEF Acts
  <1>3. act' = [act EXCEPT ![i] = a] /\ queue' = [queue EXCEPT ![t] = Append(q, i)]
    BY DEF ActRequested
  <1>4. q \in Seq(Ids) /\ queue \in [Tabs -> Seq(Ids)]
    BY DEF TypeOK
  <1>5. /\ Append(q, i) \in Seq(Ids) /\ Len(q) \in Nat /\ Len(Append(q, i)) = Len(q) + 1
        /\ Append(q, i)[Len(q) + 1] = i
        /\ \A n \in 1..Len(q) : Append(q, i)[n] = q[n]
    BY <1>4
  <1> HIDE DEF a
  <1>6. /\ act' \in [Ids -> Acts]
        /\ act'[i] = a
        /\ \A j \in Ids \ {i} : act'[j] = act[j]
    BY <1>2, <1>3 DEF TypeOK
  <1>7. /\ queue' \in [Tabs -> Seq(Ids)]
        /\ queue'[t] = Append(q, i)
        /\ \A u \in Tabs \ {t} : queue'[u] = queue[u]
    BY <1>3, <1>4, <1>5
  <1>8. \A u \in Tabs : \A n \in 1..Len(queue[u]) : queue[u][n] \in Ids \ {i}
    <2>1. SUFFICES ASSUME NEW u \in Tabs, NEW n \in 1..Len(queue[u])
                   PROVE  queue[u][n] \in Ids \ {i}
      OBVIOUS
    <2>2. queue[u] \in Seq(Ids)
      BY <1>4
    <2> QED BY <2>2, <1>1 DEF QueueOK
  <1>9. TypeOK'
    BY <1>6, <1>7 DEF TypeOK, ActRequested, user, browser, reading
  <1> HIDE DEF q
  <1>10. \A u \in Tabs : \A m, n \in 1..Len(queue'[u]) : queue'[u][m] = queue'[u][n] => m = n
    <2>1. SUFFICES ASSUME NEW u \in Tabs, NEW m \in 1..Len(queue'[u]), NEW n \in 1..Len(queue'[u]),
                          queue'[u][m] = queue'[u][n]
                   PROVE  m = n
      OBVIOUS
    <2>2. CASE u # t
      BY <2>1, <2>2, <1>7 DEF QueueOK
    <2>3. CASE u = t
      <3>1. \A k, l \in 1..Len(q) : q[k] = q[l] => k = l
        BY DEF QueueOK, q
      <3>2. \A k \in 1..Len(q) : q[k] # i
        BY <1>8 DEF q
      <3> QED BY <2>1, <2>3, <3>1, <3>2, <1>5, <1>7
    <2> QED BY <2>2, <2>3
  <1>11. \A u \in Tabs : \A n \in 1..Len(queue'[u]) :
            act'[queue'[u][n]].stage # "idle" /\ act'[queue'[u][n]].tab = u
    <2>1. SUFFICES ASSUME NEW u \in Tabs, NEW n \in 1..Len(queue'[u])
                   PROVE  act'[queue'[u][n]].stage # "idle" /\ act'[queue'[u][n]].tab = u
      OBVIOUS
    <2>2. CASE n \in 1..Len(queue[u]) /\ queue'[u][n] = queue[u][n]
      BY <2>2, <1>6, <1>8 DEF QueueOK
    <2>3. CASE u # t
      BY <2>1, <2>2, <2>3, <1>7
    <2>4. CASE u = t
      <3>1. n \in 1..Len(q) \/ n = Len(q) + 1
        BY <2>1, <2>4, <1>5, <1>7
      <3>2. CASE n \in 1..Len(q)
        BY <2>2, <2>4, <3>2, <1>5, <1>7 DEF q
      <3>3. CASE n = Len(q) + 1
        BY <2>4, <3>3, <1>2, <1>5, <1>6, <1>7
      <3> QED BY <3>1, <3>2, <3>3
    <2> QED BY <2>3, <2>4
  <1>12. \A j \in Ids : act'[j].stage # "idle" =>
            act'[j].tab \in Tabs /\ \E n \in 1..Len(queue'[act'[j].tab]) : queue'[act'[j].tab][n] = j
    <2>1. SUFFICES ASSUME NEW j \in Ids, act'[j].stage # "idle"
                   PROVE  act'[j].tab \in Tabs /\ \E n \in 1..Len(queue'[act'[j].tab]) : queue'[act'[j].tab][n] = j
      OBVIOUS
    <2>2. CASE j = i
      <3>1. Len(q) + 1 \in 1..Len(queue'[t]) /\ queue'[t][Len(q) + 1] = i
        BY <1>5, <1>7
      <3> QED BY <2>2, <3>1, <1>2, <1>6
    <2>3. CASE j # i
      <3>1. act'[j] = act[j] /\ act[j].tab \in Tabs
        BY <2>1, <2>3, <1>6 DEF QueueOK
      <3>2. PICK n \in 1..Len(queue[act[j].tab]) : queue[act[j].tab][n] = j
        BY <2>1, <3>1 DEF QueueOK
      <3>3. n \in 1..Len(queue'[act[j].tab]) /\ queue'[act[j].tab][n] = j
        <4>1. CASE act[j].tab = t
          <5>1. n \in 1..Len(q) /\ q[n] = j
            BY <3>2, <4>1 DEF q
          <5> QED BY <5>1, <4>1, <1>5, <1>7
        <4>2. CASE act[j].tab # t
          BY <3>1, <3>2, <4>2, <1>7
        <4> QED BY <4>1, <4>2
      <3> QED BY <3>1, <3>3
    <2> QED BY <2>2, <2>3
  <1>13. \A j \in Ids : act'[j].stage \notin {"idle", "queued"} => Head(queue'[act'[j].tab]) = j
    <2>1. SUFFICES ASSUME NEW j \in Ids, act'[j].stage \notin {"idle", "queued"}
                   PROVE  Head(queue'[act'[j].tab]) = j
      OBVIOUS
    <2>2. j # i /\ act'[j] = act[j]
      BY <2>1, <1>2, <1>6
    <2>3. act[j].tab \in Tabs /\ Head(queue[act[j].tab]) = j
      BY <2>1, <2>2 DEF QueueOK
    <2>4. Len(queue[act[j].tab]) >= 1
      <3>1. PICK n \in 1..Len(queue[act[j].tab]) : queue[act[j].tab][n] = j
        BY <2>1, <2>2 DEF QueueOK
      <3>2. Len(queue[act[j].tab]) \in Nat
        BY <2>3, <1>4
      <3> QED BY <3>1, <3>2
    <2>5. CASE act[j].tab = t
      <3>1. Head(q) = j /\ 1 \in 1..Len(q)
        BY <2>3, <2>4, <2>5, <1>5 DEF q
      <3>2. q[1] = j /\ queue'[t][1] = q[1]
        BY <3>1, <1>4, <1>5, <1>7 DEF q
      <3> QED BY <2>2, <2>5, <3>2, <1>7
    <2> QED BY <2>2, <2>3, <2>5, <1>7
  <1> QED BY <1>9, <1>10, <1>11, <1>12, <1>13 DEF QueueOK

\* What ends a write keeps every type and the queues (handleRequest).
LEMMA Settles ==
    ASSUME TypeOK, QueueOK, NEW i \in Ids, NEW outcome \in Outcomes, Settle(i, outcome),
           act[i].stage # "idle", Head(queue[act[i].tab]) = i,
           control' \in Controls, live' = live, page' = page, gestured' = gestured,
           navigated' = navigated, snapshot' = snapshot, observed' = observed,
           applied' = applied, unreviewed' \subseteq Ids
    PROVE  TypeOK' /\ QueueOK'
  <1>1. act[i].tab \in Tabs /\ queue[act[i].tab] # << >>
    BY Pending
  <1>2. /\ act' \in [Ids -> Acts] /\ queue' \in [Tabs -> Seq(Ids)]
        /\ cancelled' \subseteq Ids /\ evicted' \subseteq Ids
        /\ completed' \in Seq([id : Ids, outcome : Outcomes]) /\ Len(completed') <= MaxCompleted
    BY <1>1, SettleType
  <1>3. TypeOK'
    BY <1>2 DEF TypeOK
  <1> QED BY <1>3, SettleQueue

\* Going on to the next stage keeps every type and the queues.
LEMMA Moves ==
    ASSUME TypeOK, QueueOK, NEW i \in Ids, NEW s \in {"lookup", "ping", "sent"}, MoveTo(i, s),
           act[i].stage # "idle", Head(queue[act[i].tab]) = i,
           control' \in Controls, live' = live, page' = page, gestured' = gestured,
           navigated' = navigated, snapshot' = snapshot, observed' = observed,
           applied' = applied, unreviewed' \subseteq Ids
    PROVE  TypeOK' /\ QueueOK'
  <1> DEFINE a == [act[i] EXCEPT !.stage = s]
  <1>1. act[i] \in Acts
    BY DEF TypeOK
  <1>2. a \in Acts /\ a.stage = s /\ a.tab = act[i].tab
    BY <1>1 DEF Acts
  <1>3. act' = [act EXCEPT ![i] = a] /\ queue' = queue
    BY DEF MoveTo
  <1> HIDE DEF a
  <1>4. act' \in [Ids -> Acts] /\ QueueOK'
    BY <1>2, <1>3, StaysQueued
  <1>5. TypeOK'
    BY <1>3, <1>4 DEF TypeOK, MoveTo
  <1> QED BY <1>4, <1>5

\* A change of fields other than the stage, by a joiner or by the page, keeps both.
LEMMA Marks ==
    ASSUME TypeOK, QueueOK, NEW i \in Ids, NEW a \in Acts, act' = [act EXCEPT ![i] = a],
           act[i].stage # "idle", a.stage # "idle", a.tab = act[i].tab,
           a.stage = "queued" \/ Head(queue[act[i].tab]) = i,
           UNCHANGED <<user, gestured, navigated, reading, queue, cancelled, completed, evicted,
                       unreviewed>>,
           page' \in [Tabs -> Pages], applied' \in [Ids -> 0..2]
    PROVE  TypeOK' /\ QueueOK'
  <1>1. queue' = queue
    OBVIOUS
  <1>2. act' \in [Ids -> Acts] /\ QueueOK'
    BY <1>1, StaysQueued
  <1>3. TypeOK'
    BY <1>2 DEF TypeOK, user, reading
  <1> QED BY <1>2, <1>3

\* A step of a write keeps the types and the queues (background.js, content.js).
LEMMA WriteStep ==
    ASSUME TypeOK, QueueOK, Write
    PROVE  TypeOK' /\ QueueOK'
  <1> USE DEF user, browser, reading
  <1>1. PICK i \in Ids :
           \/ \E t \in Tabs : \E ref \in observed[t] : ActRequested(i, t, ref)
           \/ ActJoined(i) \/ CancelArrives(i)
           \/ ActBegins(i) \/ ActChecked(i) \/ ActUnavailable(i) \/ PageAnswersPing(i)
           \/ ActDispatched(i) \/ PageApplies(i) \/ ActAnswered(i) \/ ActAnswerLost(i)
           \/ \E why \in {"refused", "credential"} : PageRefuses(i, why)
    BY DEF Write
  <1>2. /\ control \in Controls /\ Takeover(control) \in Controls
        /\ {"completed", "refused", "not_started", "outcome_unknown"} = Outcomes
        /\ unreviewed \subseteq Ids /\ act[i] \in Acts
    BY ControlType DEF TypeOK, Outcomes
  <1>3. act[i].stage \notin {"idle", "queued"} => Head(queue[act[i].tab]) = i
    BY DEF QueueOK
  <1>4. ASSUME NEW t \in Tabs, NEW ref \in observed[t], ActRequested(i, t, ref)
        PROVE  TypeOK' /\ QueueOK'
    BY <1>4, Enqueues
  <1>5. CASE ActJoined(i)
    <2> DEFINE l == act[i].joined \cup ({live.instance} \ {act[i].instance})
               a == [act[i] EXCEPT !.joined = l]
    <2>1. l \in SUBSET Nat
      BY <1>2 DEF TypeOK, Acts, Bindings
    <2> HIDE DEF l
    <2>2. a \in Acts
      BY <1>2, <2>1 DEF Acts
    <2>3. a.stage = act[i].stage /\ a.tab = act[i].tab
      BY <1>2 DEF Acts
    <2>4. act' = [act EXCEPT ![i] = a] /\ act[i].stage # "idle"
      BY <1>5 DEF ActJoined, l
    <2>5. page' \in [Tabs -> Pages] /\ applied' \in [Ids -> 0..2]
      BY <1>5 DEF ActJoined, TypeOK
    <2> HIDE DEF a
    <2> QED BY <1>3, <1>5, <2>2, <2>3, <2>4, <2>5, Marks DEF ActJoined
  <1>6. CASE CancelArrives(i)
    BY <1>6 DEF CancelArrives, TypeOK, QueueOK
  <1>7. CASE ActBegins(i)
    <2>1. act[i].stage # "idle" /\ Head(queue[act[i].tab]) = i
      BY <1>7 DEF ActBegins, MyTurn
    <2>2. Settle(i, "not_started") \/ MoveTo(i, "lookup")
      BY <1>7 DEF ActBegins
    <2> QED BY <1>2, <1>7, <2>1, <2>2, Settles, Moves DEF ActBegins
  <1>8. CASE ActChecked(i)
    <2>1. act[i].stage # "idle" /\ Head(queue[act[i].tab]) = i
      BY <1>3, <1>8 DEF ActChecked
    <2>2. Settle(i, "not_started") \/ MoveTo(i, "ping")
      BY <1>8 DEF ActChecked
    <2> QED BY <1>2, <1>8, <2>1, <2>2, Settles, Moves DEF ActChecked
  <1>9. CASE ActUnavailable(i)
    <2>1. act[i].stage # "idle" /\ Head(queue[act[i].tab]) = i
      BY <1>3, <1>9 DEF ActUnavailable
    <2> QED BY <1>2, <1>9, <2>1, Settles DEF ActUnavailable
  <1>10. CASE PageAnswersPing(i)
    <2> DEFINE r == ReadingOf(act[i].tab)
               a == [act[i] EXCEPT !.stage = "verify", !.read = r]
    <2>1. act[i].stage # "idle" /\ Head(queue[act[i].tab]) = i /\ act[i].tab \in Tabs
      BY <1>3, <1>10, Pending DEF PageAnswersPing
    <2>2. page[act[i].tab] \in Pages
      BY <2>1 DEF TypeOK
    <2>3. r \in Readings /\ [page[act[i].tab] EXCEPT !.armed = TRUE] \in Pages
      BY <2>2, PageFields DEF ReadingOf
    <2>4. page' \in [Tabs -> Pages] /\ applied' \in [Ids -> 0..2]
      BY <1>10, <2>3 DEF PageAnswersPing, TypeOK
    <2> HIDE DEF r
    <2>5. a \in Acts
      BY <1>2, <2>3, ActFields
    <2>6. a.stage = "verify" /\ a.tab = act[i].tab
      BY <1>2 DEF Acts
    <2>7. act' = [act EXCEPT ![i] = a]
      BY <1>10 DEF PageAnswersPing, r
    <2> HIDE DEF a
    <2> QED BY <1>10, <2>1, <2>4, <2>5, <2>6, <2>7, Marks DEF PageAnswersPing
  <1>11. CASE ActDispatched(i)
    <2>1. act[i].stage # "idle" /\ Head(queue[act[i].tab]) = i
      BY <1>3, <1>11 DEF ActDispatched
    <2>2. control' \in Controls
      BY <1>2, <1>11 DEF ActDispatched
    <2>3. Settle(i, "not_started") \/ MoveTo(i, "sent")
      BY <1>11 DEF ActDispatched
    <2> QED BY <1>2, <1>11, <2>1, <2>2, <2>3, Settles, Moves DEF ActDispatched
  <1>12. ASSUME NEW d \in {"nothing", "applied", "refused", "credential"},
                act[i].stage = "sent", act' = [act EXCEPT ![i].pageDid = d],
                UNCHANGED <<user, browser, reading, queue, cancelled, completed, evicted, unreviewed>>,
                applied' \in [Ids -> 0..2]
         PROVE  TypeOK' /\ QueueOK'
    <2> DEFINE a == [act[i] EXCEPT !.pageDid = d]
    <2>1. a \in Acts
      BY <1>2, ActFields
    <2>2. a.stage = "sent" /\ a.tab = act[i].tab
      BY <1>2, <1>12 DEF Acts
    <2>3. act' = [act EXCEPT ![i] = a]
      BY <1>12
    <2>4. page' \in [Tabs -> Pages]
      BY <1>12 DEF TypeOK
    <2> HIDE DEF a
    <2> QED BY <1>3, <1>12, <2>1, <2>2, <2>3, <2>4, Marks
  <1>13. CASE PageApplies(i)
    <2>1. applied \in [Ids -> 0..2]
      BY DEF TypeOK
    <2>2. applied' \in [Ids -> 0..2]
      <3> DEFINE times == IF applied[i] < 2 THEN applied[i] + 1 ELSE 2
      <3>1. times \in 0..2
        BY <2>1
      <3>2. applied' = [applied EXCEPT ![i] = times]
        BY <1>13 DEF PageApplies
      <3> HIDE DEF times
      <3> QED BY <2>1, <3>1, <3>2
    <2> QED BY <1>12, <1>13, <2>2 DEF PageApplies
  <1>14. ASSUME NEW why \in {"refused", "credential"}, PageRefuses(i, why)
         PROVE  TypeOK' /\ QueueOK'
    <2>1. applied' \in [Ids -> 0..2]
      BY <1>14 DEF PageRefuses, TypeOK
    <2> QED BY <1>12, <1>14, <2>1 DEF PageRefuses
  <1>15. CASE ActAnswered(i)
    <2>1. act[i].stage # "idle" /\ Head(queue[act[i].tab]) = i
      BY <1>3, <1>15 DEF ActAnswered
    <2>2. control' \in Controls
      BY <1>2, <1>15 DEF ActAnswered
    <2>3. Settle(i, "completed") \/ Settle(i, "refused")
      BY <1>15 DEF ActAnswered
    <2> QED BY <1>2, <1>15, <2>1, <2>2, <2>3, Settles DEF ActAnswered
  <1>16. CASE ActAnswerLost(i)
    <2>1. act[i].stage # "idle" /\ Head(queue[act[i].tab]) = i
      BY <1>3, <1>16 DEF ActAnswerLost
    <2>2. control' \in Controls /\ unreviewed' \subseteq Ids /\ Settle(i, "outcome_unknown")
      BY <1>2, <1>16 DEF ActAnswerLost
    <2> QED BY <1>2, <1>16, <2>1, <2>2, Settles DEF ActAnswerLost
  <1> QED BY <1>1, <1>4, <1>5, <1>6, <1>7, <1>8, <1>9, <1>10, <1>11, <1>13, <1>14, <1>15, <1>16

\* While an unknown outcome waits, no step brings the claim back but the user's.
LEMMA ReviewedStep ==
    ASSUME TypeOK, Aimed, Reviewed, Next
    PROVE  Reviewed'
  <1> DEFINE Withheld == {"user_control", "no_access", "rebinding"}
  <1>1. control \in Controls
    BY DEF TypeOK
  <1>2. Takeover(control).state \in Withheld
    BY <1>1, TakeoverWithholds
  <1>3. ASSUME control.state \in Withheld
        PROVE  /\ RebindRequired(control).state \in Withheld /\ Revoke(control).state \in Withheld
               /\ Release(control).state \in Withheld /\ ScopeReduced(control).state \in Withheld
               /\ \A t \in Tabs : Claim(control, t, Agent).state \in Withheld
    BY <1>1, <1>3, ControlWithheld
  <1>4. CASE unreviewed' = {}
    BY <1>4 DEF Reviewed
  <1>5. CASE \E i \in Ids : ActAnswerLost(i)
    BY <1>2, <1>5 DEF Reviewed, ActAnswerLost
  <1>6. CASE unreviewed' = unreviewed
             /\ (control.state \in Withheld => control'.state \in Withheld)
    BY <1>6 DEF Reviewed
  <1> HIDE DEF Withheld
  <1>7. CASE Authority
    <2>1. ASSUME NEW background \in BOOLEAN, UserBinds(background) PROVE Reviewed'
      BY <2>1, <1>4 DEF UserBinds
    <2>2. ASSUME NEW background \in BOOLEAN, UserNarrows(background) PROVE Reviewed'
      BY <2>2, <1>3, <1>6 DEF UserNarrows
    <2>3. ASSUME NEW keepsConsent \in BOOLEAN, AuthorityEnds(keepsConsent) PROVE Reviewed'
      BY <2>3, <1>3, <1>6 DEF AuthorityEnds
    <2>4. CASE TakenOver
      BY <2>4, <1>2, <1>6 DEF TakenOver
    <2>5. CASE UserResumes
      BY <2>5, <1>4 DEF UserResumes
    <2>6. CASE AgentReleases
      BY <2>6, <1>3, <1>6 DEF AgentReleases
    <2>7. ASSUME NEW t \in Tabs, AgentClaims(t) PROVE Reviewed'
      BY <2>7, <1>3, <1>6 DEF AgentClaims
    <2> QED BY <1>7, <2>1, <2>2, <2>3, <2>4, <2>5, <2>6, <2>7 DEF Authority
  <1>8. CASE Page
    <2>1. unreviewed' = unreviewed /\ control' \in {control, Takeover(control)}
      BY <1>8 DEF Page, HumanGesture, GestureReported, PageNavigates, NavigationReported, user
    <2> QED BY <2>1, <1>2, <1>6
  <1>9. CASE Observation
    <2>1. CASE SnapshotAuthorized
      <3>1. snapshot.tab \in Tabs
        BY <2>1 DEF Aimed, SnapshotAuthorized
      <3> QED BY <2>1, <3>1, <1>3, <1>6 DEF SnapshotAuthorized
    <2>2. CASE ~SnapshotAuthorized
      <3>1. unreviewed' = unreviewed /\ control' = control
        BY <1>9, <2>2 DEF Observation, SnapshotRequested, PageRead, SnapshotExported, SnapshotFails, user
      <3> QED BY <3>1, <1>6
    <2> QED BY <2>1, <2>2
  <1>10. CASE Write /\ ~(\E i \in Ids : ActAnswerLost(i))
    <2>1. unreviewed' = unreviewed /\ control' \in {control, Takeover(control)}
      BY <1>10 DEF Write, ActRequested, ActJoined, CancelArrives, ActBegins, ActChecked,
         ActUnavailable, PageAnswersPing, ActDispatched, PageApplies, PageRefuses, ActAnswered, user
    <2> QED BY <2>1, <1>2, <1>6
  <1> QED BY <1>5, <1>7, <1>8, <1>9, <1>10 DEF Next

\* Every step keeps the inductive invariant.
LEMMA Step == IInv /\ [Next]_vars => IInv'
  <1> SUFFICES ASSUME IInv, [Next]_vars PROVE IInv'
    OBVIOUS
  <1>1. CASE UNCHANGED vars
    BY <1>1 DEF IInv, TypeOK, QueueOK, Aimed, Reviewed, vars, user, browser, reading, answering
  <1>2. CASE Authority \/ Page \/ Observation
    <2>1. TypeOK' /\ Aimed' /\ UNCHANGED <<act, queue>>
      BY <1>2, AroundType DEF IInv
    <2>2. QueueOK'
      BY <2>1 DEF IInv, QueueOK
    <2> QED BY <1>2, <2>1, <2>2, ReviewedStep DEF IInv, Next
  <1>3. CASE Write
    <2>1. TypeOK' /\ QueueOK'
      BY <1>3, WriteStep DEF IInv
    <2>2. snapshot' = snapshot
      BY <1>3 DEF Write, ActRequested, ActJoined, CancelArrives, ActBegins, ActChecked,
         ActUnavailable, PageAnswersPing, ActDispatched, PageApplies, PageRefuses, ActAnswered,
         ActAnswerLost, reading
    <2> QED BY <1>3, <2>1, <2>2, ReviewedStep DEF IInv, Next, Aimed
  <1> QED BY <1>1, <1>2, <1>3 DEF Next

\* The inductive invariant holds in every behaviour of the write path.
THEOREM Invariant == Spec => []IInv
  BY InitOK, Step, PTL DEF Spec

-----------------------------------------------------------------------------
(* What follows                                                            *)

\* The write path keeps its state in its types.
THEOREM TypeCorrect == Spec => []TypeOK
  BY Invariant, PTL DEF IInv

\* For every number of tabs and requests, and whatever ends a write, two writes to
\* the same tab never run at the same time (queueMutation).
THEOREM Serial == Spec => []OneWriteAtATime
  <1>1. IInv => OneWriteAtATime
    BY DEF IInv, QueueOK, OneWriteAtATime
  <1> QED BY <1>1, Invariant, PTL

\* For every behaviour, a write is sent to the page only under the binding it was
\* asked under and the claim its reference names, and never while an unknown
\* outcome waits for the user (actOnContext).
THEOREM Sent == Spec => SentUnderItsClaim
  <1> DEFINE A == \A i \in Ids : act[i].stage # "sent" /\ act'[i].stage = "sent"
                    => /\ unreviewed = {}
                       /\ control.state = "agent_claimed" /\ control.claimedTab = act[i].tab
                       /\ control.claimGeneration = act[i].ref.claim
                       /\ LineageCurrent(act[i].instance)
  <1>1. ASSUME IInv, NEW i \in Ids, ActDispatched(i) PROVE A
    <2>1. SUFFICES ASSUME NEW j \in Ids, act[j].stage # "sent", act'[j].stage = "sent"
                   PROVE  /\ unreviewed = {}
                          /\ control.state = "agent_claimed" /\ control.claimedTab = act[j].tab
                          /\ control.claimGeneration = act[j].ref.claim
                          /\ LineageCurrent(act[j].instance)
      OBVIOUS
    <2>2. act \in [Ids -> Acts]
      BY <1>1 DEF IInv, TypeOK
    <2>3. j = i /\ MoveTo(i, "sent")
      <3>1. CASE MoveTo(i, "sent")
        BY <2>1, <2>2, <3>1 DEF MoveTo
      <3>2. CASE Settle(i, "not_started")
        <4>1. act'[i].stage = "idle" /\ \A k \in Ids \ {i} : act'[k] = act[k]
          BY <2>2, <3>2 DEF Settle, Acts
        <4> QED BY <2>1, <4>1
      <3> QED BY <1>1, <3>1, <3>2 DEF ActDispatched
    <2>4. act[i].stage = "verify" /\ act'[i].stage = "sent"
      BY <1>1, <2>1, <2>3 DEF ActDispatched
    <2>5. ~Settle(i, "not_started")
      <3>1. SUFFICES ASSUME Settle(i, "not_started") PROVE FALSE
        OBVIOUS
      <3>2. act'[i].stage = "idle"
        BY <2>2, <3>1 DEF Settle, Acts
      <3> QED BY <2>4, <3>2
    <2>6. LineageCurrent(act[i].instance) /\ ClaimCovers(i)
      BY <1>1, <2>5 DEF ActDispatched
    <2>7. /\ control.state = "agent_claimed" /\ control.claimedTab = act[i].tab
          /\ control.claimGeneration = act[i].ref.claim
      BY <2>6 DEF ClaimCovers, CheckWriteClaim
    <2> QED BY <1>1, <2>3, <2>6, <2>7 DEF IInv, Reviewed
  <1>2. ASSUME IInv, [Next]_vars, ~(\E i \in Ids : ActDispatched(i))
        PROVE  \A j \in Ids : act'[j].stage = "sent" => act[j].stage = "sent"
    <2>1. act \in [Ids -> Acts]
      BY <1>2 DEF IInv, TypeOK
    <2>2. ASSUME act' = act PROVE \A j \in Ids : act'[j].stage = "sent" => act[j].stage = "sent"
      BY <2>2
    <2>3. ASSUME NEW i \in Ids, NEW outcome, Settle(i, outcome)
          PROVE  \A j \in Ids : act'[j].stage = "sent" => act[j].stage = "sent"
      <3>1. act'[i].stage = "idle" /\ \A k \in Ids \ {i} : act'[k] = act[k]
        BY <2>1, <2>3 DEF Settle, Acts
      <3> QED BY <3>1
    <2>4. ASSUME NEW i \in Ids, NEW s \in {"lookup", "ping"}, MoveTo(i, s)
          PROVE  \A j \in Ids : act'[j].stage = "sent" => act[j].stage = "sent"
      <3>1. act'[i].stage = s /\ \A k \in Ids \ {i} : act'[k] = act[k]
        BY <2>1, <2>4 DEF MoveTo, Acts
      <3> QED BY <3>1
    <2>5. CASE UNCHANGED vars
      BY <2>2, <2>5 DEF vars, answering
    <2>6. CASE Authority \/ Page \/ Observation
      BY <1>2, <2>2, <2>6, AroundType DEF IInv
    <2>7. CASE Write
      <3>1. PICK i \in Ids :
               \/ \E t \in Tabs : \E ref \in observed[t] : ActRequested(i, t, ref)
               \/ ActJoined(i) \/ CancelArrives(i)
               \/ ActBegins(i) \/ ActChecked(i) \/ ActUnavailable(i) \/ PageAnswersPing(i)
               \/ PageApplies(i) \/ ActAnswered(i) \/ ActAnswerLost(i)
               \/ \E why \in {"refused", "credential"} : PageRefuses(i, why)
        BY <1>2, <2>7 DEF Write
      <3>2. act[i] \in Acts
        BY <2>1
      <3>3. ASSUME NEW t \in Tabs, NEW ref \in observed[t], ActRequested(i, t, ref)
            PROVE  \A j \in Ids : act'[j].stage = "sent" => act[j].stage = "sent"
        <4>1. act'[i].stage = "queued" /\ \A k \in Ids \ {i} : act'[k] = act[k]
          BY <2>1, <3>2, <3>3 DEF ActRequested, Acts
        <4> QED BY <4>1
      <3>4. CASE ActJoined(i)
        BY <2>1, <3>2, <3>4 DEF ActJoined, Acts
      <3>5. CASE CancelArrives(i)
        BY <2>2, <3>5 DEF CancelArrives
      <3>6. CASE ActBegins(i) \/ ActChecked(i) \/ ActUnavailable(i)
        BY <2>3, <2>4, <3>6 DEF ActBegins, ActChecked, ActUnavailable
      <3>7. CASE PageAnswersPing(i)
        <4>1. act'[i].stage = "verify" /\ \A k \in Ids \ {i} : act'[k] = act[k]
          BY <2>1, <3>2, <3>7 DEF PageAnswersPing, Acts
        <4> QED BY <4>1
      <3>8. CASE PageApplies(i)
        BY <2>1, <3>2, <3>8 DEF PageApplies, Acts
      <3>9. ASSUME NEW why \in {"refused", "credential"}, PageRefuses(i, why)
            PROVE  \A j \in Ids : act'[j].stage = "sent" => act[j].stage = "sent"
        BY <2>1, <3>2, <3>9 DEF PageRefuses, Acts
      <3>10. CASE ActAnswered(i) \/ ActAnswerLost(i)
        BY <2>3, <3>10 DEF ActAnswered, ActAnswerLost
      <3> QED BY <3>1, <3>3, <3>4, <3>5, <3>6, <3>7, <3>8, <3>9, <3>10
    <2> QED BY <1>2, <2>5, <2>6, <2>7 DEF Next
  <1>3. IInv /\ [Next]_vars => A
    BY <1>1, <1>2
  <1>4. IInv /\ [Next]_vars => [A]_vars
    BY <1>3
  <1> QED BY <1>4, Invariant, PTL DEF Spec, SentUnderItsClaim

-----------------------------------------------------------------------------
(***************************************************************************)
(* What the writes do to the page: an id acts once, and an effect is       *)
(* recorded and lands where it was observed.                               *)
(*                                                                         *)
(* The argument is about claim generations.  They only grow, and every     *)
(* change that empties the record of outcomes makes a new one: so a        *)
(* request whose record was cleared names a claim that never comes back,   *)
(* and is turned away by the check before the write is sent.               *)
(***************************************************************************)

-----------------------------------------------------------------------------
(* The inductive invariant                                                 *)

Generation == control.claimGeneration

\* The claim that the reference of i names is gone, and never comes back.
Barred(i) ==
    \/ act[i].ref.claim < Generation
    \/ act[i].ref.claim = Generation /\ control.state # "agent_claimed"

\* References name claims of the past, and a request has one once it is made.
Past ==
    /\ live.bound => Generation > 0
    /\ \A t \in Tabs : \A ref \in observed[t] : ref.claim > 0 /\ ref.claim <= Generation
    /\ \A i \in Ids : act[i].ref.claim <= Generation
    /\ \A i \in Ids : act[i].ref.claim = 0 => act[i].stage = "idle" /\ applied[i] = 0

\* The page does something for a write only while it is sent, and a write that is
\* sent saw what its reference saw, under a binding that ends with its claim.
Sending ==
    \A i \in Ids :
        /\ act[i].pageDid # "nothing" => act[i].stage = "sent"
        /\ act[i].stage = "sent" => act[i].read = act[i].ref.read
        /\ act[i].stage = "sent" => Barred(i) \/ LineageCurrent(act[i].instance)

\* An id that has taken effect, and was not let go, is being answered, is
\* recorded, or names a claim that is gone.
Remembered(i) ==
    \/ act[i].stage = "sent" /\ act[i].pageDid = "applied"
    \/ act[i].stage = "idle" /\ Recorded(i)
    \/ act[i].stage # "sent" /\ Barred(i)

Kept ==
    \A i \in Ids : i \notin evicted => /\ applied[i] > 0 => Remembered(i)
                                       /\ applied[i] <= 1

EInv == IInv /\ Past /\ Sending /\ Kept

-----------------------------------------------------------------------------
(* What a step may change                                                  *)

\* The parts of a step that a request i takes, seen from its own record.
Asks(i) ==
    /\ act[i].stage = "idle" /\ ~Recorded(i) /\ act[i].ref \in {NoRef, act'[i].ref}
    /\ \E t \in Tabs : act'[i].ref \in observed[t]
    /\ act'[i].stage = "queued" /\ act'[i].pageDid = act[i].pageDid
    /\ UNCHANGED <<control, applied, completed, evicted>>

Goes(i) ==
    /\ act[i].stage # "idle" /\ act'[i].stage # "idle" /\ act'[i].ref = act[i].ref
    /\ act'[i].stage = "sent" <=> act[i].stage = "sent"
    /\ act[i].stage = "sent" => act'[i].read = act[i].read /\ act'[i].instance = act[i].instance
    /\ act'[i].pageDid = act[i].pageDid
    /\ UNCHANGED <<control, applied, completed, evicted>>

IsSent(i) ==
    /\ act[i].stage = "verify" /\ act[i].read = act[i].ref.read
    /\ LineageCurrent(act[i].instance) /\ ClaimCovers(i)
    /\ act' = [act EXCEPT ![i].stage = "sent"]
    /\ UNCHANGED <<applied, completed, evicted>>

Meets(i) ==
    /\ act[i].stage = "sent" /\ act[i].pageDid = "nothing"
    /\ act'[i].pageDid # "nothing"
    /\ act'[i].stage = "sent" /\ act'[i].ref = act[i].ref
    /\ act'[i].read = act[i].read /\ act'[i].instance = act[i].instance
    /\ UNCHANGED <<control, completed, evicted>>
    /\ \/ PageApplies(i)
       \/ act'[i].pageDid # "applied" /\ applied' = applied

Ends(i) ==
    /\ act[i].stage # "idle"
    /\ applied' = applied
    /\ \E outcome \in Outcomes :
          /\ Settle(i, outcome)
          /\ act[i].stage = "sent" /\ act[i].pageDid = "applied" => ~NeverStarted(outcome)

Takes(i) == Asks(i) \/ Goes(i) \/ IsSent(i) \/ Meets(i) \/ Ends(i)

\* A step of a write is one of these parts, of one request (background.js, content.js).
LEMMA WriteShape ==
    ASSUME TypeOK, Sending, Write
    PROVE  /\ UNCHANGED <<live, observed>>
           /\ \E i \in Ids : /\ UNCHANGED <<control, act, applied, completed, evicted>> \/ Takes(i)
                             /\ \A j \in Ids \ {i} : act'[j] = act[j]
  <1> USE DEF user, browser, reading
  <1>1. PICK i \in Ids :
           \/ \E t \in Tabs : \E ref \in observed[t] : ActRequested(i, t, ref)
           \/ ActJoined(i) \/ CancelArrives(i)
           \/ ActBegins(i) \/ ActChecked(i) \/ ActUnavailable(i) \/ PageAnswersPing(i)
           \/ ActDispatched(i) \/ PageApplies(i) \/ ActAnswered(i) \/ ActAnswerLost(i)
           \/ \E why \in {"refused", "credential"} : PageRefuses(i, why)
    BY DEF Write
  <1> DEFINE Shape == /\ UNCHANGED <<live, observed>>
                      /\ UNCHANGED <<control, act, applied, completed, evicted>> \/ Takes(i)
                      /\ \A j \in Ids \ {i} : act'[j] = act[j]
  <1> SUFFICES Shape
    OBVIOUS
  <1>2. act \in [Ids -> Acts] /\ act[i] \in Acts
    BY DEF TypeOK
  <1>3. "not_started" \in Outcomes /\ "completed" \in Outcomes /\ "refused" \in Outcomes
        /\ "outcome_unknown" \in Outcomes
    BY DEF Outcomes
  <1>4. ASSUME NEW outcome \in Outcomes, Settle(i, outcome), act[i].stage # "idle",
               UNCHANGED <<live, observed, applied>>,
               act[i].stage = "sent" /\ act[i].pageDid = "applied" => ~NeverStarted(outcome)
        PROVE  Shape
    <2>1. \A j \in Ids \ {i} : act'[j] = act[j]
      BY <1>2, <1>4 DEF Settle
    <2> QED BY <1>4, <2>1 DEF Takes, Ends
  <1>5. ASSUME NEW s \in {"lookup", "ping"}, MoveTo(i, s), act[i].stage \notin {"idle", "sent"},
               UNCHANGED <<control, live, observed, applied>>
        PROVE  Shape
    <2>1. /\ act'[i].stage = s /\ act'[i].ref = act[i].ref /\ act'[i].pageDid = act[i].pageDid
          /\ \A j \in Ids \ {i} : act'[j] = act[j]
      BY <1>2, <1>5 DEF MoveTo, Acts
    <2> QED BY <1>5, <2>1 DEF Takes, Goes, MoveTo
  <1>6. ASSUME NEW t \in Tabs, NEW ref \in observed[t], ActRequested(i, t, ref) PROVE Shape
    <2>1. /\ act'[i].stage = "queued" /\ act'[i].ref = ref /\ act'[i].pageDid = act[i].pageDid
          /\ \A j \in Ids \ {i} : act'[j] = act[j]
      BY <1>2, <1>6 DEF ActRequested, Acts
    <2> QED BY <1>6, <2>1 DEF ActRequested, Fresh, Takes, Asks
  <1>7. CASE ActJoined(i)
    <2>1. /\ act'[i].stage = act[i].stage /\ act'[i].ref = act[i].ref
          /\ act'[i].read = act[i].read /\ act'[i].instance = act[i].instance
          /\ act'[i].pageDid = act[i].pageDid
          /\ \A j \in Ids \ {i} : act'[j] = act[j]
      BY <1>2, <1>7 DEF ActJoined, Acts
    <2> QED BY <1>7, <2>1 DEF ActJoined, Takes, Goes
  <1>8. CASE CancelArrives(i)
    BY <1>8 DEF CancelArrives
  <1>9. CASE ActBegins(i)
    BY <1>3, <1>4, <1>5, <1>9 DEF ActBegins
  <1>10. CASE ActChecked(i)
    BY <1>3, <1>4, <1>5, <1>10 DEF ActChecked
  <1>11. CASE ActUnavailable(i)
    BY <1>3, <1>4, <1>11 DEF ActUnavailable
  <1>12. CASE PageAnswersPing(i)
    <2>1. /\ act'[i].stage = "verify" /\ act'[i].ref = act[i].ref /\ act'[i].pageDid = act[i].pageDid
          /\ \A j \in Ids \ {i} : act'[j] = act[j]
      BY <1>2, <1>12 DEF PageAnswersPing, Acts
    <2> QED BY <1>12, <2>1 DEF PageAnswersPing, Takes, Goes
  <1>13. CASE ActDispatched(i)
    <2>1. CASE act[i].read = act[i].ref.read /\ LineageCurrent(act[i].instance) /\ ClaimCovers(i)
      <3>1. MoveTo(i, "sent")
        BY <1>13, <2>1 DEF ActDispatched
      <3>2. act' = [act EXCEPT ![i].stage = "sent"] /\ \A j \in Ids \ {i} : act'[j] = act[j]
        BY <1>2, <3>1 DEF MoveTo
      <3> QED BY <1>13, <2>1, <3>1, <3>2 DEF ActDispatched, MoveTo, Takes, IsSent
    <2>2. CASE ~(act[i].read = act[i].ref.read /\ LineageCurrent(act[i].instance) /\ ClaimCovers(i))
      BY <1>3, <1>4, <1>13, <2>2 DEF ActDispatched
    <2> QED BY <2>1, <2>2
  <1>14. CASE PageApplies(i)
    <2>1. /\ act'[i].stage = act[i].stage /\ act'[i].ref = act[i].ref
          /\ act'[i].read = act[i].read /\ act'[i].instance = act[i].instance
          /\ act'[i].pageDid = "applied"
          /\ \A j \in Ids \ {i} : act'[j] = act[j]
      BY <1>2, <1>14 DEF PageApplies, Acts
    <2>2. act[i].stage = "sent" /\ act[i].pageDid = "nothing"
          /\ UNCHANGED <<control, live, observed, completed, evicted>>
      BY <1>14 DEF PageApplies
    <2> QED BY <1>14, <2>1, <2>2 DEF Takes, Meets
  <1>15. ASSUME NEW why \in {"refused", "credential"}, PageRefuses(i, why) PROVE Shape
    <2>1. /\ act'[i].stage = act[i].stage /\ act'[i].ref = act[i].ref
          /\ act'[i].read = act[i].read /\ act'[i].instance = act[i].instance
          /\ act'[i].pageDid = why
          /\ \A j \in Ids \ {i} : act'[j] = act[j]
      BY <1>2, <1>15 DEF PageRefuses, Acts
    <2> QED BY <1>15, <2>1 DEF PageRefuses, Takes, Meets
  <1>16. CASE ActAnswered(i)
    <2>1. ~NeverStarted("completed") /\ ~NeverStarted("refused")
      BY DEF NeverStarted
    <2> QED BY <1>3, <1>4, <1>16, <2>1 DEF ActAnswered
  <1>17. CASE ActAnswerLost(i)
    <2>1. ~NeverStarted("outcome_unknown")
      BY DEF NeverStarted
    <2> QED BY <1>3, <1>4, <1>17, <2>1 DEF ActAnswerLost
  <1> HIDE DEF Shape
  <1> QED
    BY <1>1, <1>6, <1>7, <1>8, <1>9, <1>10, <1>11, <1>12, <1>13, <1>14, <1>15, <1>16, <1>17

\* A transition of the control machine makes a new generation or changes nothing.
LEMMA Transitions ==
    ASSUME NEW c \in Controls
    PROVE  /\ c.claimGeneration \in Nat
           /\ \A d \in {Grant(c), RebindRequired(c), Revoke(c)} :
                 d.claimGeneration = c.claimGeneration + 1
           /\ \A d \in {Release(c), Takeover(c), Resume(c)} \cup {Claim(c, t, Agent) : t \in Tabs} :
                 d = c \/ d.claimGeneration = c.claimGeneration + 1
           /\ \/ ScopeReduced(c) = c /\ c.state # "agent_claimed"
              \/ ScopeReduced(c).claimGeneration = c.claimGeneration + 1
  BY DEF Controls, Unclaimed, HasAccess, Grant, RebindRequired, Revoke, Release, ScopeReduced,
     Takeover, Resume, Claim

\* The claim generation never goes back (applyControl).
Forward == control' = control \/ Generation' = Generation + 1

\* What is known of a tab was known before, or was seen under the claim of now.
RefsAt(t) ==
    \A ref \in observed'[t] : ref \in observed[t] \/ (live.bound /\ ref.claim = Generation)

\* What the user, the page and a snapshot change of what the writes look at.
Around ==
    /\ UNCHANGED <<act, applied, evicted>>
    /\ Forward
    /\ \/ UNCHANGED <<live, completed>>
       \/ /\ completed' = << >>
          /\ Generation' = Generation + 1 \/ control.state # "agent_claimed"
          /\ live'.bound => live.bound \/ Generation' = Generation + 1
    /\ \A t \in Tabs : RefsAt(t)

\* A step of the user, the agent's claims, the page or a snapshot is of that form.
LEMMA AroundShape ==
    ASSUME TypeOK, Aimed, Authority \/ Page \/ Observation
    PROVE  Around
  <1> USE DEF user, browser, reading, answering
  <1>1. control \in Controls /\ live \in Bindings
    BY DEF TypeOK
  <1>2. ASSUME observed' = observed PROVE \A t \in Tabs : RefsAt(t)
    <2>1. SUFFICES ASSUME NEW t \in Tabs, NEW ref \in observed'[t] PROVE ref \in observed[t]
      BY DEF RefsAt
    <2> QED BY <1>2
  <1>3. ASSUME UNCHANGED <<act, applied, evicted, live, completed, observed>>,
               control' \in {control, Release(control), Takeover(control), Resume(control)}
                              \cup {Claim(control, t, Agent) : t \in Tabs}
        PROVE  Around
    <2>1. Forward
      BY <1>1, <1>3, Transitions DEF Forward, Generation
    <2> QED BY <1>2, <1>3, <2>1 DEF Around
  <1>4. ASSUME NEW background \in BOOLEAN, UserBinds(background) PROVE Around
    <2>1. Generation' = Generation + 1
      BY <1>1, <1>4, Transitions DEF UserBinds, Generation
    <2> QED BY <1>2, <1>4, <2>1 DEF UserBinds, Around, Forward
  <1>5. ASSUME NEW background \in BOOLEAN, UserNarrows(background) PROVE Around
    <2>1. live'.bound = live.bound
      BY <1>1, <1>5 DEF UserNarrows, Bindings
    <2>2. control' = ScopeReduced(control)
      BY <1>5 DEF UserNarrows
    <2>3. \/ ScopeReduced(control) = control /\ control.state # "agent_claimed"
          \/ ScopeReduced(control).claimGeneration = control.claimGeneration + 1
      BY <1>1, Transitions
    <2>4. Generation' = Generation + 1 \/ (control' = control /\ control.state # "agent_claimed")
      BY <2>2, <2>3 DEF Generation
    <2> QED BY <1>2, <1>5, <2>1, <2>4 DEF UserNarrows, Around, Forward
  <1>15. ASSUME NEW keepsConsent \in BOOLEAN, AuthorityEnds(keepsConsent) PROVE Around
    <2>1. Generation' = Generation + 1
      BY <1>1, <1>15, Transitions DEF AuthorityEnds, Generation
    <2> QED BY <1>2, <1>15, <2>1 DEF AuthorityEnds, Around, Forward
  <1>6. CASE TakenOver
    BY <1>3, <1>6 DEF TakenOver
  <1>7. CASE UserResumes
    BY <1>3, <1>7 DEF UserResumes
  <1>8. CASE AgentReleases
    BY <1>3, <1>8 DEF AgentReleases
  <1>9. ASSUME NEW t \in Tabs, AgentClaims(t) PROVE Around
    BY <1>3, <1>9 DEF AgentClaims
  <1>10. CASE Page
    BY <1>3, <1>10 DEF Page, HumanGesture, GestureReported, PageNavigates, NavigationReported
  <1>11. CASE SnapshotAuthorized
    <2>1. snapshot.tab \in Tabs
      BY <1>11 DEF Aimed, SnapshotAuthorized
    <2> QED BY <1>3, <1>11, <2>1 DEF SnapshotAuthorized
  <1>12. ASSUME NEW t \in Tabs, NEW claim \in BOOLEAN, SnapshotRequested(t, claim) PROVE Around
    BY <1>3, <1>12 DEF SnapshotRequested
  <1>13. CASE PageRead \/ SnapshotFails
    BY <1>3, <1>13 DEF PageRead, SnapshotFails
  <1>14. CASE SnapshotExported
    <2> DEFINE ref == [read |-> snapshot.read, claim |-> Generation, grant |-> live.grant]
    <2>1. /\ live.bound /\ UNCHANGED <<act, applied, evicted, live, completed, control>>
          /\ observed' \in {observed, [observed EXCEPT ![snapshot.tab] = @ \cup {ref}]}
      BY <1>14 DEF SnapshotExported, Generation
    <2>2. ref.claim = Generation
      OBVIOUS
    <2> HIDE DEF ref
    <2>3. \A t \in Tabs : observed'[t] \subseteq observed[t] \cup {ref}
      BY <2>1 DEF TypeOK
    <2>4. ASSUME NEW t \in Tabs, NEW old \in observed'[t]
          PROVE  old \in observed[t] \/ (live.bound /\ old.claim = Generation)
      BY <2>1, <2>2, <2>3
    <2>5. \A t \in Tabs : RefsAt(t)
      BY <2>4 DEF RefsAt
    <2> QED BY <2>1, <2>5 DEF Around, Forward
  <1> QED BY <1>4, <1>5, <1>6, <1>7, <1>8, <1>9, <1>10, <1>11, <1>12, <1>13, <1>14, <1>15
          DEF Authority, Observation

\* A step of a write never takes the claim generation back.
LEMMA WriteForward ==
    ASSUME TypeOK, Write
    PROVE  Forward
  <1>1. control' \in {control, Takeover(control)}
    BY DEF Write, ActRequested, ActJoined, CancelArrives, ActBegins, ActChecked, ActUnavailable,
       PageAnswersPing, ActDispatched, PageApplies, PageRefuses, ActAnswered, ActAnswerLost, user
  <1>2. control \in Controls
    BY DEF TypeOK
  <1> QED BY <1>1, <1>2, Transitions DEF Forward, Generation

\* A claim that is gone stays gone (policy.js next).
LEMMA BarredStays ==
    ASSUME TypeOK, Forward, NEW i \in Ids, act[i].ref.claim <= Generation,
           act'[i].ref = act[i].ref
    PROVE  /\ Barred(i) => Barred(i)'
           /\ Generation' = Generation + 1 => Barred(i)'
           /\ act'[i].ref.claim <= Generation'
  <1>1. Generation \in Nat /\ act[i].ref.claim \in Nat
    BY DEF TypeOK, Generation, Controls, Acts, Refs
  <1> QED BY <1>1 DEF Forward, Barred, Generation

-----------------------------------------------------------------------------
(* The record of outcomes                                                  *)

\* What is put into the record is in it (rememberCompleted).
LEMMA RemembersNewest ==
    ASSUME TypeOK, NEW i \in Ids, NEW outcome \in Outcomes
    PROVE  i \in IdsIn(RememberCompleted(i, outcome))
  <1> DEFINE Records == [id : Ids, outcome : Outcomes]
             new == [id |-> i, outcome |-> outcome]
             grown == Append(completed, new)
  <1>1. completed \in Seq(Records) /\ new \in Records /\ new.id = i
    BY DEF TypeOK
  <1> HIDE DEF Records, new
  <1>2. /\ grown \in Seq(Records) /\ Len(completed) \in Nat
        /\ Len(grown) = Len(completed) + 1 /\ grown[Len(grown)] = new
    BY <1>1
  <1>3. CASE Len(grown) > MaxCompleted
    <2>1. Len(grown) > 1
      BY <1>2, <1>3, ActAssumption
    <2>2. /\ Tail(grown) \in Seq(Records) /\ Len(Tail(grown)) = Len(grown) - 1
          /\ \A n \in 1..Len(Tail(grown)) : Tail(grown)[n] = grown[n + 1]
      BY <1>2, <2>1, HeadTailProperties
    <2>3. Len(completed) \in DOMAIN Tail(grown) /\ Tail(grown)[Len(completed)] = new
      BY <1>2, <2>1, <2>2
    <2>4. RememberCompleted(i, outcome) = Tail(grown)
      BY <1>3 DEF RememberCompleted, new
    <2> QED BY <1>1, <2>3, <2>4 DEF IdsIn
  <1>4. CASE ~(Len(grown) > MaxCompleted)
    <2>1. Len(grown) \in DOMAIN grown
      BY <1>2
    <2>2. RememberCompleted(i, outcome) = grown
      BY <1>4 DEF RememberCompleted, new
    <2> QED BY <1>1, <1>2, <2>1, <2>2 DEF IdsIn
  <1> QED BY <1>3, <1>4

\* The end of a write: its request is idle and keeps its reference, who was
\* recorded still is or was let go, and an outcome is recorded if someone may
\* still be answered (handleRequest).
LEMMA SettleEffect ==
    ASSUME TypeOK, NEW i \in Ids, NEW outcome \in Outcomes, Settle(i, outcome)
    PROVE  /\ act'[i].stage = "idle" /\ act'[i].pageDid = "nothing" /\ act'[i].ref = act[i].ref
           /\ \A j \in Ids \ {i} : act'[j] = act[j]
           /\ \A j \in Ids : Recorded(j) => Recorded(j)' \/ j \in evicted'
           /\ evicted \subseteq evicted'
           /\ ~NeverStarted(outcome) /\ (\E l \in act[i].joined \cup {act[i].instance} : LineageCurrent(l))
                => Recorded(i)'
  <1>1. act \in [Ids -> Acts] /\ act[i] \in Acts
    BY DEF TypeOK
  <1>2. /\ act'[i].stage = "idle" /\ act'[i].pageDid = "nothing" /\ act'[i].ref = act[i].ref
        /\ \A j \in Ids \ {i} : act'[j] = act[j]
    BY <1>1 DEF Settle, Acts
  <1>3. evicted' = evicted \cup (IdsIn(completed) \ IdsIn(completed'))
    BY DEF Settle
  <1>4. evicted \subseteq evicted' /\ \A j \in Ids : Recorded(j) => Recorded(j)' \/ j \in evicted'
    BY <1>3 DEF Recorded, IdsIn
  <1>5. ASSUME ~NeverStarted(outcome), \E l \in act[i].joined \cup {act[i].instance} : LineageCurrent(l)
        PROVE  Recorded(i)'
    <2>1. completed' = RememberCompleted(i, outcome)
      BY <1>5 DEF Settle
    <2> QED BY <2>1, RemembersNewest DEF Recorded, IdsIn
  <1> QED BY <1>2, <1>4, <1>5

\* What a part of request i leaves to the others.
LEMMA TakesOfOthers ==
    ASSUME TypeOK, NEW i \in Ids, Takes(i)
    PROVE  /\ \A j \in Ids \ {i} : applied'[j] = applied[j]
           /\ \A j \in Ids : Recorded(j) => Recorded(j)' \/ j \in evicted'
           /\ evicted \subseteq evicted'
  <1>1. CASE Ends(i)
    BY <1>1, SettleEffect DEF Ends
  <1>2. CASE ~Ends(i)
    <2>1. completed' = completed /\ evicted' = evicted
      BY <1>2 DEF Takes, Asks, Goes, IsSent, Meets
    <2>2. \A j \in Ids \ {i} : applied'[j] = applied[j]
      BY <1>2 DEF Takes, Asks, Goes, IsSent, Meets, PageApplies, TypeOK
    <2> QED BY <2>1, <2>2 DEF Recorded, IdsIn
  <1> QED BY <1>1, <1>2

-----------------------------------------------------------------------------
(* The steps                                                               *)

\* Before any request there is nothing to remember.
LEMMA EffectsInit == Init => Past /\ Sending /\ Kept
  BY DEF Init, Past, Sending, Kept, NoRef, NoReading, Generation, CreateControl

\* References and requests name claims of the past after every step.
LEMMA PastStep ==
    ASSUME TypeOK, Aimed, Sending, Past, Next
    PROVE  Past'
  <1>1. Generation \in Nat /\ Forward
    <2>1. Forward
      BY AroundShape, WriteForward DEF Next, Around
    <2> QED BY <2>1 DEF TypeOK, Generation, Controls
  <1>2. Generation' \in Nat /\ Generation <= Generation'
    BY <1>1 DEF Forward, Generation
  <1>3. CASE Authority \/ Page \/ Observation
    <2>1. Around
      BY <1>3, AroundShape
    <2>2. live'.bound => Generation' > 0
      BY <1>1, <1>2, <2>1 DEF Around, Past
    <2>3. ASSUME NEW t \in Tabs, NEW ref \in observed'[t]
          PROVE  ref.claim > 0 /\ ref.claim <= Generation'
      <3>1. ref \in observed[t] \/ (live.bound /\ ref.claim = Generation)
        BY <2>1, <2>3 DEF Around, RefsAt
      <3>2. CASE ref \in observed[t]
        <4>1. ref.claim \in Nat
          BY <3>2 DEF TypeOK, Refs
        <4> QED BY <1>1, <1>2, <3>2, <4>1 DEF Past
      <3>3. CASE live.bound /\ ref.claim = Generation
        BY <1>1, <1>2, <3>3 DEF Past
      <3> QED BY <3>1, <3>2, <3>3
    <2>4. ASSUME NEW j \in Ids
          PROVE  /\ act'[j].ref.claim <= Generation'
                 /\ act'[j].ref.claim = 0 => act'[j].stage = "idle" /\ applied'[j] = 0
      <3>1. act' = act /\ applied' = applied
        BY <2>1 DEF Around
      <3>2. act[j].ref.claim \in Nat
        BY DEF TypeOK, Acts, Refs
      <3> QED BY <1>1, <1>2, <3>1, <3>2 DEF Past
    <2> QED BY <2>2, <2>3, <2>4 DEF Past, Generation
  <1>4. CASE Write
    <2>1. UNCHANGED <<live, observed>>
      BY <1>4, WriteShape
    <2>2. PICK i \in Ids : /\ UNCHANGED <<control, act, applied, completed, evicted>> \/ Takes(i)
                           /\ \A j \in Ids \ {i} : act'[j] = act[j]
      BY <1>4, WriteShape
    <2>3. ASSUME NEW j \in Ids, act'[j].ref = act[j].ref,
                 act'[j].stage = "idle" \/ act[j].stage # "idle",
                 applied'[j] = applied[j] \/ act[j].stage # "idle"
          PROVE  /\ act'[j].ref.claim <= Generation'
                 /\ act'[j].ref.claim = 0 => act'[j].stage = "idle" /\ applied'[j] = 0
      <3>1. act[j].ref.claim \in Nat
        BY DEF TypeOK, Acts, Refs
      <3> QED BY <1>1, <1>2, <2>3, <3>1 DEF Past
    <2>4. ASSUME NEW j \in Ids
          PROVE  /\ act'[j].ref.claim <= Generation'
                 /\ act'[j].ref.claim = 0 => act'[j].stage = "idle" /\ applied'[j] = 0
      <3>1. CASE j # i
        BY <2>2, <2>3, <3>1, TakesOfOthers
      <3>2. CASE UNCHANGED <<control, act, applied, completed, evicted>>
        BY <2>3, <3>2
      <3>3. CASE j = i /\ Asks(i)
        <4>1. PICK t \in Tabs : act'[i].ref \in observed[t]
          BY <3>3 DEF Asks
        <4>2. act'[i].ref.claim > 0 /\ act'[i].ref.claim <= Generation /\ act'[i].ref.claim \in Nat
          BY <4>1 DEF Past, TypeOK, Refs
        <4> QED BY <1>1, <1>2, <3>3, <4>2
      <3>4. CASE j = i /\ (Goes(i) \/ Meets(i))
        BY <2>3, <3>4 DEF Goes, Meets
      <3>5. CASE j = i /\ IsSent(i)
        <4>1. act'[i].ref = act[i].ref
          BY <3>5 DEF IsSent, TypeOK, Acts
        <4> QED BY <2>3, <3>5, <4>1 DEF IsSent
      <3>6. CASE j = i /\ Ends(i)
        <4>1. act'[i].ref = act[i].ref /\ act'[i].stage = "idle" /\ applied' = applied
          BY <3>6, SettleEffect DEF Ends
        <4> QED BY <2>3, <3>6, <4>1
      <3> QED BY <2>2, <3>1, <3>2, <3>3, <3>4, <3>5, <3>6 DEF Takes
    <2>5. live'.bound => Generation' > 0
      BY <1>1, <1>2, <2>1 DEF Past
    <2>6. ASSUME NEW t \in Tabs, NEW ref \in observed'[t]
          PROVE  ref.claim > 0 /\ ref.claim <= Generation'
      <3>1. ref \in observed[t]
        BY <2>1, <2>6
      <3>2. ref.claim \in Nat
        BY <3>1 DEF TypeOK, Refs
      <3> QED BY <1>1, <1>2, <3>1, <3>2 DEF Past
    <2> QED BY <2>4, <2>5, <2>6 DEF Past, Generation
  <1> QED BY <1>3, <1>4 DEF Next

\* A write that is sent keeps what it saw, and its binding while its claim lives.
LEMMA SendingStep ==
    ASSUME TypeOK, Aimed, Sending, Past, Next
    PROVE  Sending'
  <1> DEFINE Well(j) == /\ act[j].pageDid # "nothing" => act[j].stage = "sent"
                        /\ act[j].stage = "sent" => act[j].read = act[j].ref.read
                        /\ act[j].stage = "sent" => Barred(j) \/ LineageCurrent(act[j].instance)
  <1>1. \A j \in Ids : Well(j)
    BY DEF Sending
  <1>2. \A j \in Ids : act[j].ref.claim <= Generation
    BY DEF Past
  <1>3. SUFFICES ASSUME NEW j \in Ids PROVE Well(j)'
    BY DEF Sending
  <1>4. Forward
    BY AroundShape, WriteForward DEF Next, Around
  <1>5. ASSUME act'[j] = act[j], live' = live PROVE Well(j)'
    <2>1. Barred(j) => Barred(j)'
      BY <1>2, <1>4, <1>5, BarredStays
    <2> QED BY <1>1, <1>5, <2>1 DEF LineageCurrent
  <1>6. CASE Authority \/ Page \/ Observation
    <2>1. Around
      BY <1>6, AroundShape
    <2>2. CASE live' = live
      BY <1>5, <2>1, <2>2 DEF Around
    <2>3. CASE Generation' = Generation + 1
      <3>1. act' = act
        BY <2>1 DEF Around
      <3>2. Barred(j)'
        BY <1>2, <1>4, <2>3, <3>1, BarredStays
      <3> QED BY <1>1, <3>1, <3>2
    <2>4. CASE control' = control /\ control.state # "agent_claimed"
      <3>1. act' = act
        BY <2>1 DEF Around
      <3>2. act[j].ref.claim \in Nat /\ Generation \in Nat
        BY DEF TypeOK, Acts, Refs, Generation, Controls
      <3>3. Barred(j)
        BY <1>2, <2>4, <3>2 DEF Barred
      <3>4. Barred(j)'
        BY <1>2, <1>4, <3>1, <3>3, BarredStays
      <3> QED BY <1>1, <3>1, <3>4
    <2> QED BY <1>4, <2>1, <2>2, <2>3, <2>4 DEF Around, Forward
  <1>7. CASE Write
    <2>1. live' = live
      BY <1>7, WriteShape
    <2>2. PICK i \in Ids : /\ UNCHANGED <<control, act, applied, completed, evicted>> \/ Takes(i)
                           /\ \A k \in Ids \ {i} : act'[k] = act[k]
      BY <1>7, WriteShape
    <2>3. CASE j # i \/ act' = act
      BY <1>5, <2>1, <2>2, <2>3
    <2>4. CASE j = i /\ Asks(i)
      BY <1>1, <2>4 DEF Asks
    <2>5. CASE j = i /\ Goes(i)
      <3>1. Barred(j) => Barred(j)'
        BY <1>2, <1>4, <2>5, BarredStays DEF Goes
      <3> QED BY <1>1, <2>1, <2>5, <3>1 DEF Goes, LineageCurrent
    <2>6. CASE j = i /\ IsSent(i)
      <3>1. /\ act'[i].stage = "sent" /\ act'[i].read = act[i].read /\ act'[i].ref = act[i].ref
            /\ act'[i].instance = act[i].instance
        BY <2>6 DEF IsSent, TypeOK, Acts
      <3> QED BY <2>1, <2>6, <3>1 DEF IsSent, LineageCurrent
    <2>7. CASE j = i /\ Meets(i)
      <3>1. Barred(j) => Barred(j)'
        BY <1>2, <1>4, <2>7, BarredStays DEF Meets
      <3> QED BY <1>1, <2>1, <2>7, <3>1 DEF Meets, LineageCurrent
    <2>8. CASE j = i /\ Ends(i)
      <3>1. act'[i].stage = "idle" /\ act'[i].pageDid = "nothing"
        BY <2>8, SettleEffect DEF Ends
      <3> QED BY <2>8, <3>1
    <2> QED BY <2>2, <2>3, <2>4, <2>5, <2>6, <2>7, <2>8 DEF Takes
  <1> QED BY <1>6, <1>7 DEF Next

\* An id that has taken effect goes on being remembered until it is let go.
LEMMA KeptStep ==
    ASSUME TypeOK, Aimed, Sending, Past, Kept, Next
    PROVE  Kept'
  <1>1. Forward
    BY AroundShape, WriteForward DEF Next, Around
  <1>2. \A j \in Ids : act[j].ref.claim <= Generation /\ act[j].ref.claim \in Nat
    BY DEF Past, TypeOK, Acts, Refs
  <1>3. SUFFICES ASSUME NEW j \in Ids, j \notin evicted'
                 PROVE  (applied'[j] > 0 => Remembered(j)') /\ applied'[j] <= 1
    BY DEF Kept
  <1>4. applied[j] \in 0..2 /\ Generation \in Nat
    BY DEF TypeOK, Generation, Controls
  <1>5. CASE Authority \/ Page \/ Observation
    <2>1. Around /\ act' = act /\ applied' = applied /\ j \notin evicted
      BY <1>3, <1>5, AroundShape DEF Around
    <2>2. applied'[j] <= 1
      BY <2>1 DEF Kept
    <2>3. ASSUME applied[j] > 0 PROVE Remembered(j)'
      <3>1. Remembered(j)
        BY <2>1, <2>3 DEF Kept
      <3>2. Barred(j) => Barred(j)'
        BY <1>1, <1>2, <2>1, BarredStays
      <3>3. CASE completed' = completed
        <4>1. Recorded(j)' <=> Recorded(j)
          BY <3>3 DEF Recorded, IdsIn
        <4> QED BY <2>1, <3>1, <3>2, <4>1 DEF Remembered
      <3>4. CASE completed' # completed
        <4>1. Generation' = Generation + 1 \/ control.state # "agent_claimed"
          BY <2>1, <3>4 DEF Around
        <4>2. Barred(j)'
          <5>1. CASE Generation' = Generation + 1
            BY <1>1, <1>2, <2>1, <5>1, BarredStays
          <5>2. CASE control.state # "agent_claimed"
            <6>1. Barred(j)
              BY <1>2, <1>4, <5>2 DEF Barred
            <6> QED BY <3>2, <6>1
          <5> QED BY <4>1, <5>1, <5>2
        <4> QED BY <2>1, <3>1, <4>2 DEF Remembered
      <3> QED BY <3>3, <3>4
    <2> QED BY <2>1, <2>2, <2>3
  <1>6. CASE Write
    <2>1. live' = live
      BY <1>6, WriteShape
    <2>2. PICK i \in Ids : /\ UNCHANGED <<control, act, applied, completed, evicted>> \/ Takes(i)
                           /\ \A k \in Ids \ {i} : act'[k] = act[k]
      BY <1>6, WriteShape
    <2>3. j \notin evicted
      BY <1>3, <2>2, TakesOfOthers
    <2>4. applied[j] <= 1 /\ (applied[j] > 0 => Remembered(j))
      BY <2>3 DEF Kept
    <2>5. Recorded(j) => Recorded(j)'
      <3>1. CASE UNCHANGED <<control, act, applied, completed, evicted>>
        BY <3>1 DEF Recorded, IdsIn
      <3> QED BY <1>3, <2>2, <3>1, TakesOfOthers
    <2>6. act'[j].ref = act[j].ref => (Barred(j) => Barred(j)')
      BY <1>1, <1>2, BarredStays
    <2>7. ASSUME act'[j] = act[j], applied'[j] = applied[j]
          PROVE  (applied'[j] > 0 => Remembered(j)') /\ applied'[j] <= 1
      BY <2>4, <2>5, <2>6, <2>7 DEF Remembered
    <2>8. CASE j # i \/ UNCHANGED <<control, act, applied, completed, evicted>>
      BY <2>2, <2>7, <2>8, TakesOfOthers
    <2>9. CASE j = i /\ Asks(i)
      <3>1. ASSUME applied[j] > 0 PROVE Remembered(j)'
        <4>1. Remembered(j) /\ act[j].stage = "idle" /\ ~Recorded(j)
          BY <2>4, <2>9, <3>1 DEF Asks
        <4>2. act[j].ref # NoRef
          <5>1. act[j].ref.claim # 0
            BY <1>4, <3>1 DEF Past
          <5> QED BY <5>1 DEF NoRef
        <4>3. act'[j].ref = act[j].ref /\ act'[j].stage = "queued"
          BY <2>9, <4>2 DEF Asks
        <4> QED BY <2>6, <4>1, <4>3 DEF Remembered
      <3>2. applied' = applied
        BY <2>9 DEF Asks
      <3> QED BY <2>4, <3>1, <3>2
    <2>10. CASE j = i /\ Goes(i)
      <3>1. /\ act'[j].ref = act[j].ref /\ applied' = applied /\ act[j].stage # "idle"
            /\ act'[j].stage = "sent" <=> act[j].stage = "sent"
            /\ act'[j].pageDid = act[j].pageDid
        BY <2>10 DEF Goes
      <3> QED BY <2>4, <2>6, <3>1 DEF Remembered
    <2>11. CASE j = i /\ IsSent(i)
      <3>1. control.state = "agent_claimed" /\ control.claimGeneration = act[j].ref.claim
        BY <2>11 DEF IsSent, ClaimCovers, CheckWriteClaim
      <3>2. ~Barred(j)
        BY <1>2, <1>4, <3>1 DEF Barred, Generation
      <3>3. act[j].stage = "verify"
        BY <2>11 DEF IsSent
      <3>4. applied[j] = 0 /\ applied' = applied
        BY <1>4, <2>4, <2>11, <3>2, <3>3 DEF Remembered, IsSent
      <3> QED BY <3>4
    <2>12. CASE j = i /\ Meets(i)
      <3>1. act[j].stage = "sent" /\ act[j].pageDid = "nothing" /\ act'[j].stage = "sent"
        BY <2>12 DEF Meets
      <3>2. applied[j] = 0
        BY <1>4, <2>4, <3>1 DEF Remembered
      <3>3. CASE PageApplies(i)
        <4>1. applied'[j] = 1 /\ act'[j].pageDid = "applied"
          BY <2>12, <3>2, <3>3 DEF PageApplies, TypeOK, Acts
        <4> QED BY <3>1, <4>1 DEF Remembered
      <3>4. CASE applied' = applied
        BY <3>2, <3>4
      <3> QED BY <2>12, <3>3, <3>4 DEF Meets
    <2>13. CASE j = i /\ Ends(i)
      <3>1. PICK outcome \in Outcomes :
               /\ Settle(i, outcome)
               /\ act[i].stage = "sent" /\ act[i].pageDid = "applied" => ~NeverStarted(outcome)
        BY <2>13 DEF Ends
      <3>2. /\ act'[j].stage = "idle" /\ act'[j].ref = act[j].ref
            /\ ~NeverStarted(outcome) /\ LineageCurrent(act[j].instance) => Recorded(j)'
        BY <2>13, <3>1, SettleEffect
      <3>3. act[j].stage # "idle" /\ applied' = applied
        BY <2>13 DEF Ends
      <3>4. ASSUME applied[j] > 0 PROVE Remembered(j)'
        <4>1. CASE act[j].stage = "sent" /\ act[j].pageDid = "applied"
          <5>1. Barred(j) \/ LineageCurrent(act[j].instance)
            BY <4>1 DEF Sending
          <5>2. Barred(j)' \/ Recorded(j)'
            BY <2>6, <2>13, <3>1, <3>2, <4>1, <5>1
          <5> QED BY <3>2, <5>2 DEF Remembered
        <4>2. CASE act[j].stage # "sent" /\ Barred(j)
          BY <2>6, <3>2, <4>2 DEF Remembered
        <4> QED BY <2>4, <3>3, <3>4, <4>1, <4>2 DEF Remembered
      <3> QED BY <2>4, <3>3, <3>4
    <2> QED BY <2>2, <2>8, <2>9, <2>10, <2>11, <2>12, <2>13 DEF Takes
  <1> QED BY <1>5, <1>6 DEF Next

\* Every step keeps what the theorems rest on.
LEMMA EffectsStep == EInv /\ [Next]_vars => EInv'
  <1> SUFFICES ASSUME EInv, [Next]_vars PROVE EInv'
    OBVIOUS
  <1>1. IInv'
    BY Step DEF EInv
  <1>2. CASE Next
    BY <1>1, <1>2, PastStep, SendingStep, KeptStep DEF EInv, IInv
  <1>3. CASE UNCHANGED vars
    <2>1. UNCHANGED <<control, live, observed, act, completed, evicted, applied>>
      BY <1>3 DEF vars, user, reading, answering
    <2>2. Past'
      BY <2>1 DEF EInv, Past, Generation
    <2>3. Sending'
      BY <2>1 DEF EInv, Sending, Barred, Generation, LineageCurrent
    <2>4. Kept'
      BY <2>1 DEF EInv, Kept, Remembered, Recorded, IdsIn, Barred, Generation
    <2> QED BY <1>1, <2>2, <2>3, <2>4 DEF EInv
  <1> QED BY <1>2, <1>3

\* What the theorems rest on holds in every behaviour of the write path.
THEOREM EffectsInvariant == Spec => []EInv
  <1>1. Init => EInv
    BY InitOK, EffectsInit DEF EInv
  <1> QED BY <1>1, EffectsStep, PTL DEF Spec

-----------------------------------------------------------------------------
(* What follows                                                            *)

\* An id takes effect in the page once, until its record is pushed out of
\* completedRequests: neither a record cleared by a change of authority, nor an
\* unknown outcome, nor a request that joins leads to a second effect.
THEOREM Once == Spec => []OneEffect
  <1>1. EInv => OneEffect
    <2>1. SUFFICES ASSUME EInv, NEW i \in Ids, i \notin evicted PROVE ~(applied[i] > 1)
      BY DEF OneEffect
    <2>2. applied[i] \in 0..2 /\ applied[i] <= 1
      BY <2>1 DEF EInv, IInv, TypeOK, Kept
    <2> QED BY <2>2
  <1> QED BY <1>1, EffectsInvariant, PTL

\* What took effect is recorded when its request ends, if one of those who asked
\* may still be answered: it is never taken for something that never started.
THEOREM Remembers == Spec => EffectIsRecorded
  <1> DEFINE A == \A i \in Ids : act[i].pageDid = "applied" /\ act'[i].stage = "idle"
                    => \/ i \in IdsIn(completed')
                       \/ \A l \in act[i].joined \cup {act[i].instance} : ~LineageCurrent(l)
  <1>1. ASSUME EInv, [Next]_vars PROVE A
    <2>1. SUFFICES ASSUME NEW j \in Ids, act[j].pageDid = "applied", act'[j].stage = "idle",
                          NEW l \in act[j].joined \cup {act[j].instance}, LineageCurrent(l)
                   PROVE  j \in IdsIn(completed')
      OBVIOUS
    <2>2. act[j].stage = "sent"
      BY <1>1, <2>1 DEF EInv, Sending
    <2>3. act'[j] # act[j]
      BY <2>1, <2>2
    <2>4. CASE Authority \/ Page \/ Observation
      BY <1>1, <2>3, <2>4, AroundShape DEF EInv, IInv, Around
    <2>5. CASE UNCHANGED vars
      BY <2>3, <2>5 DEF vars, answering
    <2>6. CASE Write
      <3>1. PICK i \in Ids : /\ UNCHANGED <<control, act, applied, completed, evicted>> \/ Takes(i)
                             /\ \A k \in Ids \ {i} : act'[k] = act[k]
        BY <1>1, <2>6, WriteShape DEF EInv, IInv
      <3>2. i = j /\ Takes(j)
        BY <2>3, <3>1
      <3>3. Ends(j)
        <4>1. ~Asks(j) /\ ~Goes(j) /\ ~Meets(j)
          BY <2>1, <2>2 DEF Asks, Goes, Meets
        <4>2. ~IsSent(j)
          BY <2>2 DEF IsSent
        <4> QED BY <3>2, <4>1, <4>2 DEF Takes
      <3>4. PICK outcome \in Outcomes : Settle(j, outcome) /\ ~NeverStarted(outcome)
        BY <2>1, <2>2, <3>3 DEF Ends
      <3>5. Recorded(j)'
        BY <1>1, <2>1, <3>4, SettleEffect DEF EInv, IInv
      <3> QED BY <3>5 DEF Recorded, IdsIn
    <2> QED BY <1>1, <2>4, <2>5, <2>6 DEF Next
  <1>2. EInv /\ [Next]_vars => [A]_vars
    BY <1>1
  <1> QED BY <1>2, EffectsInvariant, PTL DEF Spec, EffectIsRecorded

\* An effect lands in the document its reference was observed in, and between the
\* observation and the ping before the write nobody had touched that document.
THEOREM Lands == Spec => LandsWhereObserved
  <1> DEFINE A == \A i \in Ids : act[i].pageDid = "nothing" /\ act'[i].pageDid = "applied"
                    => /\ page[act[i].tab].doc = act[i].ref.read.doc
                       /\ act[i].read = act[i].ref.read
  <1>1. ASSUME EInv, [Next]_vars PROVE A
    <2>1. SUFFICES ASSUME NEW j \in Ids, act[j].pageDid = "nothing", act'[j].pageDid = "applied"
                   PROVE  /\ page[act[j].tab].doc = act[j].ref.read.doc
                          /\ act[j].read = act[j].ref.read
      OBVIOUS
    <2>2. act'[j] # act[j]
      BY <2>1
    <2>3. CASE Authority \/ Page \/ Observation
      BY <1>1, <2>2, <2>3, AroundShape DEF EInv, IInv, Around
    <2>4. CASE UNCHANGED vars
      BY <2>2, <2>4 DEF vars, answering
    <2>5. CASE Write
      <3>1. PICK i \in Ids : /\ UNCHANGED <<control, act, applied, completed, evicted>> \/ Takes(i)
                             /\ \A k \in Ids \ {i} : act'[k] = act[k]
        BY <1>1, <2>5, WriteShape DEF EInv, IInv
      <3>2. i = j /\ Takes(j)
        BY <2>2, <3>1
      <3>3. ~Asks(j) /\ ~Goes(j)
        BY <2>1 DEF Asks, Goes
      <3>4. ~IsSent(j)
        BY <1>1, <2>1 DEF IsSent, EInv, IInv, TypeOK, Acts
      <3>5. ~Ends(j)
        BY <1>1, <2>1, SettleEffect DEF Ends, EInv, IInv
      <3>6. Meets(j) /\ PageApplies(j)
        BY <2>1, <3>2, <3>3, <3>4, <3>5 DEF Takes, Meets
      <3>7. act[j].stage = "sent" /\ page[act[j].tab].doc = act[j].ref.read.doc
        BY <3>6 DEF PageApplies
      <3> QED BY <1>1, <3>7 DEF EInv, Sending
    <2> QED BY <1>1, <2>3, <2>4, <2>5 DEF Next
  <1>2. EInv /\ [Next]_vars => [A]_vars
    BY <1>1
  <1> QED BY <1>2, EffectsInvariant, PTL DEF Spec, LandsWhereObserved
=============================================================================
