------------------------ MODULE AssetTransfer_proofs ------------------------
(***************************************************************************)
(* Theorems about AssetTransfer, for every number of requests, items,      *)
(* transfers and changes: the handles the agent holds belong to the live   *)
(* binding, chunks answer the position they were asked for, and lane A1    *)
(* keeps to its limit.                                                     *)
(***************************************************************************)
EXTENDS AssetTransfer, FiniteSetTheorems, TLAPS

-----------------------------------------------------------------------------
(* The inductive invariant.                                                *)

\* TypeOK without its last part, and the bindings and documents that are counted.
Typed ==
    /\ lane \in Lanes /\ changes \in 0..MaxChanges /\ binding \in 0..changes /\ page \in 0..changes
    /\ transfer \in [Handles -> Transfers] /\ refs \subseteq 0..MaxChanges
    /\ lapsed \subseteq registry /\ known \subseteq registry /\ registry \subseteq Handles
    /\ req \in [Requests -> Asked] /\ work \in [Requests -> Works]

\* The page works only on requests that were sent to it, each according to its
\* kind, and what is read or closed was opened before.
PlacedAt(r) ==
    /\ req[r].stage \in {"idle", "checking"} => work[r] = NoWork
    /\ work[r].is = "fetching" => req[r].kind = "open"
    /\ work[r].is = "reading" => req[r].kind = "read"
    /\ req[r].kind # "open" => req[r].on \in Handles /\ transfer[req[r].on].is # "unborn"

Placed == \A r \in Requests : PlacedAt(r)

BusyIsRead ==
    \A h \in Open : transfer[h].busy =>
        \E r \in Requests : work[r].is = "reading" /\ req[r].on = h

Born(h, by) == h \in Handles /\ transfer[h].is # "unborn" /\ transfer[h].by = by

\* What was opened for a request was opened under its binding.
Opened ==
    \A r \in Requests : work[r].is = "answered" /\ req[r].kind = "open" =>
        Born(work[r].handle, req[r].lineage)

Honoured == \A h \in known : Born(h, binding)

\* In the newer lane the reader, the next position and the repeated chunk go together.
Steady(t) ==
    /\ t.next = t.taken /\ (t.replay # 0 => t.replay = t.taken)
    /\ t.terminal <=> t.taken = Eof

\* One read of a transfer at a time, for the position that is next.
Reading(r) == work[r].is = "reading" /\ req[r].on \in Open

Streams ==
    lane = "v1" =>
        /\ \A h \in Open : Steady(transfer[h])
        /\ \A r \in Requests : Reading(r) =>
             /\ req[r].pos = transfer[req[r].on].next
             /\ transfer[req[r].on].busy /\ ~transfer[req[r].on].terminal
        /\ \A r, q \in Requests : Reading(r) /\ Reading(q) /\ req[r].on = req[q].on => r = q

IndInv ==
    /\ Typed /\ Placed /\ BusyIsRead /\ Opened /\ Honoured /\ Streams
    /\ StreamInOrder /\ A1CapHolds

-----------------------------------------------------------------------------
(* Transfers only close, but for the one that is opened or read.           *)

\* Nothing is born, and what is still open has not been read of.
Kept(t, u) ==
    /\ u.is = t.is /\ u.taken = t.taken /\ u.next = t.next /\ u.replay = t.replay
    /\ u.terminal = t.terminal /\ u.busy = t.busy

Shrinks ==
    \A h \in Handles :
        /\ transfer'[h].by = transfer[h].by
        /\ transfer'[h].is = "unborn" <=> transfer[h].is = "unborn"
        /\ transfer'[h].is = "open" => Kept(transfer[h], transfer'[h])

\* The parameters of a transfer are natural numbers.
LEMMA Bounds == Eof \in Nat /\ Eof = Length + 1 /\ MaxChanges \in Nat /\ MaxOpens \in Nat
  BY AssetTransferAssumption DEF Eof

\* There are finitely many open transfers.
LEMMA FiniteOpen == IsFiniteSet(Open)
  <1>1. IsFiniteSet(Handles)
    BY Bounds, FS_Interval DEF Handles
  <1> QED
    BY <1>1, FS_Subset DEF Open

\* A transfer nothing has been read of.
LEMMA TransferTyped ==
    ASSUME NEW is \in {"unborn", "open", "closed"}, NEW by \in 0..MaxChanges, NEW doc \in 0..MaxChanges
    PROVE  LET t == Transfer(is, by, doc) IN
             /\ t \in Transfers /\ t.is = is /\ t.by = by /\ t.doc = doc
             /\ t.taken = 0 /\ t.next = 0 /\ t.replay = 0 /\ ~t.terminal /\ ~t.busy /\ ~t.late
  BY Bounds DEF Transfer, Transfers

\* closeTransfer closes what it is given and leaves the rest.
LEMMA ClosedFacts ==
    ASSUME Typed, NEW hs
    PROVE  /\ Closed(hs) \in [Handles -> Transfers]
           /\ \A h \in Handles :
                /\ Closed(hs)[h].by = transfer[h].by
                /\ Closed(hs)[h].is = "unborn" <=> transfer[h].is = "unborn"
                /\ Closed(hs)[h].is = "open" => Closed(hs)[h] = transfer[h] /\ h \notin hs
  <1> DEFINE c(h) == Transfer("closed", transfer[h].by, transfer[h].doc)
  <1>1. ASSUME NEW h \in Handles
        PROVE  c(h) \in Transfers /\ c(h).is = "closed" /\ c(h).by = transfer[h].by
    <2>1. transfer[h].by \in 0..MaxChanges /\ transfer[h].doc \in 0..MaxChanges
      BY DEF Typed, Transfers
    <2> QED
      BY <2>1, TransferTyped
  <1>2. ASSUME NEW h \in Handles
        PROVE  Closed(hs)[h] = IF h \in hs /\ transfer[h].is = "open" THEN c(h) ELSE transfer[h]
    BY DEF Closed
  <1>3. Closed(hs) = [h \in Handles |-> Closed(hs)[h]]
    BY DEF Closed
  <1> HIDE DEF c
  <1>4. \A h \in Handles : Closed(hs)[h] \in Transfers
    BY <1>1, <1>2 DEF Typed
  <1> QED
    BY <1>1, <1>2, <1>3, <1>4

\* Every use of closeTransfer, and leaving the transfers alone, shrinks them.
LEMMA ClosedShrinks ==
    ASSUME Typed, NEW hs, transfer' = Closed(hs) \/ transfer' = transfer
    PROVE  /\ transfer' \in [Handles -> Transfers] /\ Shrinks
           /\ transfer' = Closed(hs) => \A h \in hs : h \notin Open'
  <1>1. transfer' \in [Handles -> Transfers] /\ Shrinks
    BY ClosedFacts DEF Shrinks, Kept, Typed
  <1>2. transfer' = Closed(hs) => \A h \in hs : h \notin Open'
    BY ClosedFacts DEF Open
  <1> QED
    BY <1>1, <1>2

\* The number of open transfers does not grow.
LEMMA CapKept ==
    ASSUME A1CapHolds, Open' \subseteq Open, lane' = lane
    PROVE  A1CapHolds'
  <1>1. IsFiniteSet(Open)
    BY FiniteOpen
  <1>2. IsFiniteSet(Open') /\ Cardinality(Open') <= Cardinality(Open)
    BY <1>1, FS_Subset
  <1>3. Cardinality(Open) \in Nat /\ Cardinality(Open') \in Nat
    BY <1>1, <1>2, FS_CardinalityType
  <1> QED
    BY <1>2, <1>3, AssetTransferAssumption DEF A1CapHolds

\* What a step that opens and reads nothing keeps.
LEMMA ShrinksKeeps ==
    ASSUME Typed, Shrinks, A1CapHolds, lane' = lane
    PROVE  /\ Open' \subseteq Open
           /\ \A h \in Open' : Kept(transfer[h], transfer'[h])
           /\ \A h, by : Born(h, by) => h \in Handles /\ transfer'[h].is # "unborn" /\ transfer'[h].by = by
           /\ A1CapHolds'
  <1>1. Open' \subseteq Open /\ \A h \in Open' : Kept(transfer[h], transfer'[h])
    BY DEF Shrinks, Open, Kept
  <1>4. A1CapHolds'
    BY <1>1, CapKept
  <1>5. \A h, by : Born(h, by) => h \in Handles /\ transfer'[h].is # "unborn" /\ transfer'[h].by = by
    BY DEF Born, Shrinks
  <1> QED
    BY <1>1, <1>4, <1>5

-----------------------------------------------------------------------------
(* Steps that neither open a transfer nor touch its stream.                *)

\* The request and the page's work on it stay what they were.
Continues(r) ==
    /\ work'[r] = work[r] /\ req'[r].kind = req[r].kind /\ req'[r].on = req[r].on
    /\ req'[r].pos = req[r].pos /\ req'[r].lineage = req[r].lineage

\* Nothing is at work, and what was read is no longer open.
Stops(r) ==
    /\ work'[r].is \in {"none", "fetching", "failed"}
    /\ work[r].is = "reading" => req[r].on \notin Open'

\* A close, or a chunk that was read before, is answered at once.
AnswersAtOnce(r) ==
    /\ work[r].is # "reading" /\ work'[r].is = "answered" /\ req'[r].kind # "open"
    /\ lane = "v1" /\ req'[r].kind = "read" => work'[r].item = req'[r].pos + 1

Quiet ==
    /\ lane' = lane /\ Shrinks
    /\ \A r \in Requests : Continues(r) \/ Stops(r) \/ AnswersAtOnce(r)

\* A quiet step keeps the parts of the invariant that relate requests and transfers.
LEMMA QuietKeeps ==
    ASSUME IndInv, Quiet
    PROVE  BusyIsRead' /\ Opened' /\ Streams' /\ StreamInOrder' /\ A1CapHolds'
  <1>1. /\ Open' \subseteq Open /\ A1CapHolds'
        /\ \A h \in Open' : Kept(transfer[h], transfer'[h])
        /\ \A h, by : Born(h, by) => h \in Handles /\ transfer'[h].is # "unborn" /\ transfer'[h].by = by
    BY ShrinksKeeps DEF IndInv, Quiet
  <1>2. \A r \in Requests : work[r].is = "reading" /\ req[r].on \in Open' =>
            work'[r].is = "reading" /\ req'[r].on = req[r].on
    BY DEF Quiet, Continues, Stops, AnswersAtOnce
  <1>3. \A r \in Requests : work'[r].is = "reading" =>
            work[r].is = "reading" /\ req'[r].on = req[r].on /\ req'[r].pos = req[r].pos
    BY DEF Quiet, Continues, Stops, AnswersAtOnce
  <1>4. BusyIsRead'
    BY <1>1, <1>2 DEF IndInv, BusyIsRead, Kept
  <1>5. Opened'
    <2> SUFFICES ASSUME NEW r \in Requests, work'[r].is = "answered", req'[r].kind = "open"
                 PROVE  Born(work[r].handle, req[r].lineage) /\ work'[r].handle = work[r].handle
                        /\ req'[r].lineage = req[r].lineage
      BY <1>1 DEF Opened, Born
    <2> QED
      BY DEF Quiet, Continues, Stops, AnswersAtOnce, IndInv, Opened
  <1>6. Streams'
    BY <1>1, <1>3 DEF IndInv, Streams, Steady, Reading, Kept, Quiet
  <1>7. StreamInOrder'
    BY DEF Quiet, Continues, Stops, AnswersAtOnce, IndInv, StreamInOrder
  <1> QED
    BY <1>1, <1>4, <1>5, <1>6, <1>7

\* Handles are only forgotten, or the binding they belong to stays.
LEMMA HonouredKept ==
    ASSUME IndInv, Quiet, known' \subseteq known, known' = {} \/ binding' = binding
    PROVE  Honoured'
  BY ShrinksKeeps DEF IndInv, Honoured, Born, Quiet

\* A request that goes on in the same stage, or farther, stays in its place.
LEMMA PlacedKept ==
    ASSUME IndInv, Shrinks, NEW r \in Requests, Continues(r),
           req'[r].stage = req[r].stage \/ req'[r].stage \in {"calling", "abandoned"}
    PROVE  PlacedAt(r)'
  BY DEF IndInv, Placed, PlacedAt, Shrinks, Continues

\* What the remaining actions have to show.
LEMMA QuietStep ==
    ASSUME IndInv, Quiet, Typed', Placed', known' \subseteq known, known' = {} \/ binding' = binding
    PROVE  IndInv'
  BY QuietKeeps, HonouredKept DEF IndInv

-----------------------------------------------------------------------------
(* What the helpers of the actions assign.                                 *)

\* A request is asked for.
LEMMA AsksFacts ==
    ASSUME Typed, NEW r \in Requests, NEW kind \in {"open", "read", "close"}, NEW on \in 0..MaxOpens,
           NEW doc \in 0..MaxChanges, NEW pos \in Position, Asks(r, kind, on, doc, pos)
    PROVE  /\ req' \in [Requests -> Asked]
           /\ \A q \in Requests : q # r => req'[q] = req[q]
           /\ req'[r].kind = kind /\ req'[r].on = on /\ req'[r].stage = "checking"
  <1>1. binding \in 0..MaxChanges
    BY Bounds DEF Typed
  <1> DEFINE new == [kind |-> kind, on |-> on, doc |-> doc, pos |-> pos, lineage |-> binding,
                     cancelled |-> FALSE, reached |-> FALSE, stage |-> "checking"]
  <1>2. new \in Asked /\ new.kind = kind /\ new.on = on /\ new.stage = "checking"
    BY <1>1 DEF Asked
  <1>3. req' = [req EXCEPT ![r] = new]
    BY DEF Asks
  <1> HIDE DEF new
  <1> QED
    BY <1>2, <1>3 DEF Typed

\* A request enters another stage.
LEMMA StageFacts ==
    ASSUME Typed, NEW r \in Requests, NEW b \in BOOLEAN, NEW s \in {"idle", "checking", "calling", "abandoned"},
           Moves(r, s, b)
    PROVE  /\ req' \in [Requests -> Asked]
           /\ \A q \in Requests : q # r => req'[q] = req[q]
           /\ req'[r].stage = s /\ req'[r].kind = req[r].kind /\ req'[r].on = req[r].on
           /\ req'[r].pos = req[r].pos /\ req'[r].lineage = req[r].lineage
  <1> DEFINE mid == [req[r] EXCEPT !.stage = s]
             new == [mid EXCEPT !.reached = b]
  <1>1. req[r] \in Asked
    BY DEF Typed
  <1>2. /\ mid \in Asked /\ mid.stage = s /\ mid.kind = req[r].kind /\ mid.on = req[r].on
        /\ mid.pos = req[r].pos /\ mid.lineage = req[r].lineage
    BY <1>1 DEF Asked
  <1> HIDE DEF mid
  <1>3. /\ new \in Asked /\ new.stage = s /\ new.kind = req[r].kind /\ new.on = req[r].on
        /\ new.pos = req[r].pos /\ new.lineage = req[r].lineage
    BY <1>2 DEF Asked
  <1>4. req' = [req EXCEPT ![r] = new]
    BY DEF Moves, mid
  <1> HIDE DEF new
  <1> QED
    BY <1>3, <1>4 DEF Typed

\* A request is over.
LEMMA EndFacts ==
    ASSUME Typed, NEW r \in Requests, Ends(r)
    PROVE  /\ req' \in [Requests -> Asked]
           /\ \A q \in Requests : q # r => req'[q] = req[q]
           /\ req'[r] = NoRequest
           /\ NoRequest.kind = "open" /\ NoRequest.stage = "idle"
  <1>1. NoRequest \in Asked /\ NoRequest.kind = "open" /\ NoRequest.stage = "idle"
    BY Bounds, AssetTransferAssumption DEF Asked, NoRequest, Position
  <1> QED
    BY <1>1 DEF Typed, Ends

\* The page's work on a request changes its state only.
LEMMA BecomesFacts ==
    ASSUME Typed, NEW r \in Requests, NEW what \in {"none", "fetching", "reading", "answered", "failed"},
           Becomes(r, what)
    PROVE  /\ work' \in [Requests -> Works]
           /\ \A q \in Requests : q # r => work'[q] = work[q]
           /\ work'[r].is = what
  BY DEF Typed, Works, Becomes

\* The page answers with an item.
LEMMA GivesFacts ==
    ASSUME Typed, NEW r \in Requests, NEW item \in 0..Eof, Gives(r, item)
    PROVE  /\ work' \in [Requests -> Works]
           /\ \A q \in Requests : q # r => work'[q] = work[q]
           /\ work'[r].is = "answered" /\ work'[r].item = item
  BY DEF Typed, Works, Gives

\* The state in which nothing is at work.
LEMMA NoWorkFacts == NoWork \in Works /\ NoWork.is = "none"
  BY Bounds DEF NoWork, Works

\* The parts a request does not touch.
Still == lane' = lane /\ changes' = changes /\ binding' = binding /\ page' = page /\ refs' = refs

\* Handles are only forgotten.
Lessens ==
    /\ registry' \subseteq registry /\ lapsed' \subseteq registry'
    /\ known' \subseteq registry' /\ known' \subseteq known

-----------------------------------------------------------------------------
(* The steps of the background page.                                       *)

\* Asking, with the clean-up that comes first.
LEMMA AskKeeps ==
    ASSUME IndInv, NEW r \in Requests, NEW kind \in {"open", "read", "close"}, NEW on \in 0..MaxOpens,
           NEW doc \in 0..MaxChanges, NEW pos \in Position, Asks(r, kind, on, doc, pos),
           Idle(r), Cleanup, kind # "open" => on \in known',
           UNCHANGED <<lane, changes, binding, page, refs, work>>
    PROVE  IndInv'
  <1>1. Typed
    BY DEF IndInv
  <1>2. /\ req' \in [Requests -> Asked] /\ req'[r].kind = kind /\ req'[r].on = on
        /\ req'[r].stage = "checking" /\ \A q \in Requests : q # r => req'[q] = req[q]
    BY <1>1, AsksFacts
  <1>3. transfer' = Closed(lapsed) \/ transfer' = transfer
    BY DEF Cleanup, V1Cleanup, A1Cleanup
  <1>4. transfer' \in [Handles -> Transfers] /\ Shrinks
    BY <1>1, <1>3, ClosedShrinks
  <1>5. Cleaned
    BY DEF Cleanup, V1Cleanup, A1Cleanup
  <1>6. known' \subseteq known /\ Typed'
    BY <1>1, <1>2, <1>4, <1>5 DEF Typed, Cleaned
  <1>7. work[r] = NoWork /\ work' = work
    BY DEF Idle
  <1>8. Quiet
    BY <1>2, <1>4, <1>7, NoWorkFacts DEF Quiet, Continues, Stops
  <1>9. Placed'
    <2>1. ASSUME NEW q \in Requests, q # r
          PROVE  PlacedAt(q)'
      BY <1>2, <1>4, <1>7, <2>1, PlacedKept DEF Continues
    <2>2. PlacedAt(r)'
      <3>1. kind # "open" => on \in Handles /\ transfer'[on].is # "unborn"
        BY <1>4, <1>6 DEF IndInv, Honoured, Born, Shrinks
      <3> QED
        BY <1>2, <1>7, <3>1, NoWorkFacts DEF PlacedAt
    <2> QED
      BY <2>1, <2>2 DEF Placed
  <1> QED
    BY <1>6, <1>8, <1>9, QuietStep

\* A quiet step of one request.
LEMMA OneQuiet ==
    ASSUME IndInv, NEW r \in Requests, Still, Lessens, Shrinks,
           transfer' \in [Handles -> Transfers], req' \in [Requests -> Asked], work' \in [Requests -> Works],
           \A q \in Requests : q # r => req'[q] = req[q] /\ work'[q] = work[q],
           Continues(r) \/ Stops(r) \/ AnswersAtOnce(r), PlacedAt(r)'
    PROVE  IndInv'
  <1>1. Typed'
    BY DEF IndInv, Typed, Still, Lessens
  <1>2. \A q \in Requests : q # r => Continues(q)
    BY DEF Continues
  <1>3. Quiet
    BY <1>2 DEF Quiet, Still
  <1>4. ASSUME NEW q \in Requests, q # r
        PROVE  PlacedAt(q)'
    BY <1>2, <1>4, PlacedKept
  <1>5. Placed'
    BY <1>4 DEF Placed
  <1> QED
    BY <1>1, <1>3, <1>5, QuietStep DEF Still, Lessens

\* A request that was only being checked has no work, and its handle was opened.
LEMMA CheckingFacts ==
    ASSUME IndInv, NEW r \in Requests, req[r].stage = "checking"
    PROVE  /\ work[r] = NoWork /\ work[r].is = "none"
           /\ req[r].kind # "open" => req[r].on \in Handles /\ transfer[req[r].on].is # "unborn"
  BY NoWorkFacts DEF IndInv, Placed, PlacedAt

\* A request is refused on the way.
LEMMA RefusesKeeps ==
    ASSUME IndInv, NEW r \in Requests, req[r].stage = "checking", Refuses(r), Still, Lessens
    PROVE  IndInv'
  <1>1. Typed
    BY DEF IndInv
  <1>2. /\ req' \in [Requests -> Asked] /\ \A q \in Requests : q # r => req'[q] = req[q]
        /\ req'[r].kind = "open" /\ req'[r].stage = "idle"
    BY <1>1, EndFacts DEF Refuses
  <1>3. work[r] = NoWork /\ work'[r] = NoWork /\ work[r].is = "none" /\ work' = work /\ transfer' = transfer
    BY CheckingFacts DEF Refuses
  <1>4. transfer' \in [Handles -> Transfers] /\ Shrinks
    BY <1>1, <1>3, ClosedShrinks
  <1>5. Stops(r)
    BY <1>3 DEF Stops
  <1>6. PlacedAt(r)'
    BY <1>2, <1>3 DEF PlacedAt
  <1>7. work' \in [Requests -> Works]
    BY <1>1, <1>3 DEF Typed
  <1> QED
    BY <1>2, <1>3, <1>4, <1>5, <1>6, <1>7, OneQuiet

\* A request enters its call, and the page refuses, fetches or closes.
LEMMA CallKeeps ==
    ASSUME IndInv, NEW r \in Requests, req[r].stage = "checking", Moves(r, "calling", TRUE), Still, Lessens,
           NEW hs, transfer' = Closed(hs) \/ transfer' = transfer,
           \/ Fails(r)
           \/ req[r].kind = "open" /\ Becomes(r, "fetching")
           \/ req[r].kind = "close" /\ Gives(r, 0)
           \/ /\ req[r].kind = "read"
              /\ \E item \in 0..Eof : Gives(r, item) /\ (lane = "v1" => item = req[r].pos + 1)
    PROVE  IndInv'
  <1>1. Typed
    BY DEF IndInv
  <1>2. /\ req' \in [Requests -> Asked] /\ \A q \in Requests : q # r => req'[q] = req[q]
        /\ req'[r].stage = "calling" /\ req'[r].kind = req[r].kind /\ req'[r].on = req[r].on
        /\ req'[r].pos = req[r].pos
    BY <1>1, StageFacts
  <1>3. transfer' \in [Handles -> Transfers] /\ Shrinks
    BY <1>1, ClosedShrinks
  <1>4. work[r].is = "none" /\ (req[r].kind # "open" => req[r].on \in Handles /\ transfer[req[r].on].is # "unborn")
    BY CheckingFacts
  <1>5. /\ work' \in [Requests -> Works] /\ \A q \in Requests : q # r => work'[q] = work[q]
        /\ Stops(r) \/ AnswersAtOnce(r)
        /\ work'[r].is \in {"fetching", "failed", "answered"}
        /\ work'[r].is = "fetching" => req[r].kind = "open"
    <2>1. CASE Fails(r)
      BY <1>1, <1>4, <2>1, BecomesFacts DEF Fails, Stops
    <2>2. CASE req[r].kind = "open" /\ Becomes(r, "fetching")
      BY <1>1, <1>4, <2>2, BecomesFacts DEF Stops
    <2>3. CASE req[r].kind = "close" /\ Gives(r, 0)
      <3>1. 0 \in 0..Eof
        BY Bounds
      <3> QED
        BY <1>1, <1>2, <1>4, <2>3, <3>1, GivesFacts DEF AnswersAtOnce
    <2>4. CASE /\ req[r].kind = "read"
               /\ \E item \in 0..Eof : Gives(r, item) /\ (lane = "v1" => item = req[r].pos + 1)
      BY <1>1, <1>2, <1>4, <2>4, GivesFacts DEF AnswersAtOnce
    <2> QED
      BY <2>1, <2>2, <2>3, <2>4
  <1>6. PlacedAt(r)'
    <2>1. req[r].kind # "open" => transfer'[req[r].on].is # "unborn"
      BY <1>3, <1>4 DEF Shrinks
    <2> QED
      BY <1>2, <1>4, <1>5, <2>1 DEF PlacedAt
  <1> QED
    BY <1>2, <1>3, <1>5, <1>6, OneQuiet

\* A read of the stream begins.
LEMMA ReadingKeeps ==
    ASSUME IndInv, NEW r \in Requests, Checking(r, "read"), Moves(r, "calling", TRUE), Still,
           UNCHANGED <<registry, lapsed, known>>, Becomes(r, "reading"),
           NEW h, h = req[r].on, ~Busy(h), NEW t, t = Closed(Late)[h],
           t.is = "open", ~t.terminal, req[r].pos = t.next,
           transfer' = [Closed(Late) EXCEPT ![h] = [@ EXCEPT !.busy = TRUE, !.replay = 0]]
    PROVE  IndInv'
  <1>1. Typed
    BY DEF IndInv
  <1>2. /\ req' \in [Requests -> Asked] /\ \A q \in Requests : q # r => req'[q] = req[q]
        /\ req'[r].stage = "calling" /\ req'[r].kind = "read" /\ req'[r].on = h
        /\ req'[r].pos = req[r].pos
    BY <1>1, StageFacts DEF Checking
  <1>3. work[r].is = "none" /\ h \in Handles /\ transfer[h].is # "unborn"
    BY CheckingFacts DEF Checking
  <1>4. /\ work' \in [Requests -> Works] /\ \A q \in Requests : q # r => work'[q] = work[q]
        /\ work'[r].is = "reading"
    BY <1>1, BecomesFacts
  <1>5. /\ Closed(Late) \in [Handles -> Transfers]
        /\ \A k \in Handles : /\ Closed(Late)[k].by = transfer[k].by
                              /\ Closed(Late)[k].is = "unborn" <=> transfer[k].is = "unborn"
                              /\ Closed(Late)[k].is = "open" => Closed(Late)[k] = transfer[k]
    BY <1>1, ClosedFacts
  <1>6. t = transfer[h] /\ t \in Transfers /\ h \in Open
    BY <1>1, <1>3, <1>5 DEF Open, Typed
  <1> DEFINE mid == [t EXCEPT !.busy = TRUE]
             new == [mid EXCEPT !.replay = 0]
  <1>7. /\ mid \in Transfers /\ mid.is = t.is /\ mid.by = t.by /\ mid.busy /\ mid.next = t.next
        /\ mid.taken = t.taken /\ mid.terminal = t.terminal
    BY <1>6 DEF Transfers
  <1>17. /\ new \in Transfers /\ new.is = t.is /\ new.by = t.by /\ new.busy /\ new.next = t.next
         /\ new.taken = t.taken /\ new.terminal = t.terminal /\ new.replay = 0
    <2> HIDE DEF mid
    <2> QED
      BY <1>7, Bounds DEF Transfers
  <1>18. transfer' = [Closed(Late) EXCEPT ![h] = new]
    OBVIOUS
  <1> HIDE DEF new, mid
  <1>8. /\ transfer' \in [Handles -> Transfers]
        /\ \A k \in Handles : k # h => transfer'[k] = Closed(Late)[k]
        /\ transfer'[h].is = "open" /\ transfer'[h].busy /\ transfer'[h].replay = 0
        /\ transfer'[h].by = t.by /\ transfer'[h].next = t.next /\ transfer'[h].taken = t.taken
        /\ transfer'[h].terminal = t.terminal
    BY <1>3, <1>5, <1>17, <1>18
  <1>9. Open' \subseteq Open /\ \A k \in Open' : k # h => transfer'[k] = transfer[k]
    BY <1>5, <1>6, <1>8 DEF Open
  <1>10. \A k, by : Born(k, by) => k \in Handles /\ transfer'[k].is # "unborn" /\ transfer'[k].by = by
    BY <1>3, <1>5, <1>6, <1>8 DEF Born
  <1>11. Typed'
    BY <1>1, <1>2, <1>4, <1>8 DEF Typed, Still
  <1>12. Placed'
    <2>1. \A q \in Requests : q # r => PlacedAt(q)'
      BY <1>2, <1>3, <1>4, <1>5, <1>8 DEF IndInv, Placed, PlacedAt
    <2>2. PlacedAt(r)'
      BY <1>2, <1>3, <1>4, <1>8 DEF PlacedAt
    <2> QED
      BY <2>1, <2>2 DEF Placed
  <1>13. BusyIsRead'
    <2>1. ASSUME NEW k \in Open', transfer'[k].busy, k # h
          PROVE  \E q \in Requests : work'[q].is = "reading" /\ req'[q].on = k
      <3>1. PICK q \in Requests : work[q].is = "reading" /\ req[q].on = k
        BY <1>9, <2>1 DEF IndInv, BusyIsRead
      <3> QED
        BY <1>2, <1>3, <1>4, <3>1
    <2> QED
      BY <1>2, <1>4, <2>1 DEF BusyIsRead
  <1>14. Opened' /\ Honoured'
    <2>1. Opened'
      <3> SUFFICES ASSUME NEW q \in Requests, work'[q].is = "answered", req'[q].kind = "open"
                   PROVE  Born(work[q].handle, req[q].lineage) /\ work'[q] = work[q] /\ req'[q] = req[q]
        BY <1>10 DEF Opened, Born
      <3> QED
        BY <1>2, <1>4 DEF IndInv, Opened
    <2>2. Honoured'
      BY <1>10 DEF IndInv, Honoured, Born, Still
    <2> QED
      BY <2>1, <2>2
  <1>15. Streams'
    <2> SUFFICES ASSUME lane = "v1"
                 PROVE  /\ \A k \in Open' : Steady(transfer'[k])
                        /\ \A q \in Requests : Reading(q)' =>
                             /\ req'[q].pos = transfer'[req'[q].on].next
                             /\ transfer'[req'[q].on].busy /\ ~transfer'[req'[q].on].terminal
                        /\ \A p, q \in Requests : Reading(p)' /\ Reading(q)' /\ req'[p].on = req'[q].on => p = q
      BY DEF Streams, Still, Steady
    <2>1. \A k \in Open' : Steady(transfer'[k])
      <3>1. \A k \in Open : Steady(transfer[k])
        BY DEF IndInv, Streams
      <3>2. Steady(transfer'[h])
        BY <3>1, <1>6, <1>8 DEF Steady
      <3> QED
        BY <3>1, <3>2, <1>9
    <2>2. \A q \in Requests : q # r /\ Reading(q)' => Reading(q) /\ req'[q] = req[q] /\ req[q].on # h
      BY <1>2, <1>4, <1>6, <1>9 DEF IndInv, Streams, Reading, Busy
    <2>3. \A q \in Requests : Reading(q)' =>
             /\ req'[q].pos = transfer'[req'[q].on].next
             /\ transfer'[req'[q].on].busy /\ ~transfer'[req'[q].on].terminal
      <3>1. \A q \in Requests : q # r /\ Reading(q)' =>
               /\ req'[q].pos = transfer'[req'[q].on].next
               /\ transfer'[req'[q].on].busy /\ ~transfer'[req'[q].on].terminal
        BY <1>9, <2>2 DEF IndInv, Streams, Reading
      <3> QED
        BY <1>2, <1>8, <3>1
    <2>4. \A p, q \in Requests : Reading(p)' /\ Reading(q)' /\ req'[p].on = req'[q].on => p = q
      BY <1>2, <2>2 DEF IndInv, Streams
    <2> QED
      BY <2>1, <2>3, <2>4
  <1>16. StreamInOrder' /\ A1CapHolds'
    <2>1. StreamInOrder'
      BY <1>2, <1>4 DEF IndInv, StreamInOrder, Still
    <2>2. A1CapHolds'
      BY <1>9, CapKept DEF IndInv, Still
    <2> QED
      BY <2>1, <2>2
  <1> QED
    BY <1>11, <1>12, <1>13, <1>14, <1>15, <1>16 DEF IndInv

\* The requests that are asked for.
LEMMA AskingKeeps ==
    ASSUME IndInv, NEW r \in Requests, AskOpen(r) \/ AskRead(r) \/ AskClose(r)
    PROVE  IndInv'
  <1>1. Typed /\ 0 \in 0..MaxOpens /\ 0 \in 0..MaxChanges /\ 0 \in Position
    BY Bounds, AssetTransferAssumption DEF IndInv, Position
  <1>2. Cleanup => known' \subseteq 0..MaxOpens
    <2>1. Cleanup => known' \subseteq known
      BY DEF Cleanup, V1Cleanup, A1Cleanup, Cleaned
    <2>2. known \subseteq Handles
      BY <1>1 DEF Typed
    <2>3. Handles \subseteq 0..MaxOpens
      BY Bounds DEF Handles
    <2> QED
      BY <2>1, <2>2, <2>3
  <1>3. CASE AskOpen(r)
    BY <1>1, <1>3, AskKeeps DEF AskOpen, Typed
  <1>4. CASE AskRead(r)
    BY <1>1, <1>2, <1>4, AskKeeps DEF AskRead
  <1>5. CASE AskClose(r)
    BY <1>1, <1>2, <1>5, AskKeeps DEF AskClose
  <1> QED
    BY <1>3, <1>4, <1>5

\* Opening: refused by the background page or the page, or the fetch begins.
LEMMA OpeningKeeps ==
    ASSUME IndInv, NEW r \in Requests, AccessRefused(r) \/ V1Open(r) \/ A1Open(r)
    PROVE  IndInv'
  <1>1. Lessens /\ Still /\ req[r].stage = "checking"
    BY DEF Lessens, Still, AccessRefused, V1Open, A1Open, Checking, IndInv, Typed
  <1>2. CASE Refuses(r)
    BY <1>1, <1>2, RefusesKeeps
  <1>3. CASE V1Open(r) /\ ~Refuses(r)
    <2>1. Moves(r, "calling", TRUE) /\ V1OpenBegins(r) /\ req[r].kind = "open"
      BY <1>3 DEF V1Open, Calls, Checking
    <2>2. transfer' = transfer /\ (Fails(r) \/ Becomes(r, "fetching"))
      BY <2>1 DEF V1OpenBegins
    <2> QED
      BY <1>1, <2>1, <2>2, CallKeeps
  <1>4. CASE A1Open(r) /\ ~Refuses(r)
    <2>1. Moves(r, "calling", TRUE) /\ A1OpenBegins(r) /\ req[r].kind = "open"
      BY <1>4 DEF A1Open, Calls, Checking
    <2>2. transfer' = Closed(Late) /\ Becomes(r, "fetching")
      BY <2>1 DEF A1OpenBegins
    <2> QED
      BY <1>1, <2>1, <2>2, CallKeeps
  <1> QED
    BY <1>2, <1>3, <1>4 DEF AccessRefused

\* Closing.
LEMMA ClosingKeeps ==
    ASSUME IndInv, NEW r \in Requests, Close(r)
    PROVE  IndInv'
  <1>1. Lessens /\ Still /\ req[r].stage = "checking" /\ req[r].kind = "close"
    BY DEF Lessens, Still, Close, Checking, Forgets, IndInv, Typed
  <1>2. CASE Refuses(r)
    BY <1>1, <1>2, RefusesKeeps
  <1>3. CASE ~Refuses(r)
    <2>1. Moves(r, "calling", TRUE) /\ CloseBegins(r)
      BY <1>3 DEF Close, Calls
    <2>2. transfer' = Closed({req[r].on}) /\ Gives(r, 0)
      BY <2>1 DEF CloseBegins
    <2> QED
      BY <1>1, <2>1, <2>2, CallKeeps
  <1> QED
    BY <1>2, <1>3

\* Reading: the last chunk is repeated, the page refuses, or the read begins.
LEMMA ReadKeeps ==
    ASSUME IndInv, NEW r \in Requests, Read(r)
    PROVE  IndInv'
  <1>1. Lessens /\ Still /\ req[r].stage = "checking" /\ req[r].kind = "read" /\ Checking(r, "read")
    BY DEF Lessens, Still, Read, Checking, Forgets, IndInv, Typed
  <1>2. CASE Refuses(r)
    BY <1>1, <1>2, RefusesKeeps
  <1>3. CASE ~Refuses(r)
    <2> DEFINE h == req[r].on
               t == Closed(Late)[h]
               again == t.is = "open" /\ t.replay # 0 /\ req[r].pos = t.next - 1
               reads == t.is = "open" /\ ~again /\ ~Busy(h) /\ ~t.terminal
    <2>1. Moves(r, "calling", TRUE) /\ ReadBegins(r) /\ UNCHANGED <<registry, lapsed, known>>
      BY <1>3 DEF Read, Calls
    <2>2. \/ again /\ Gives(r, t.replay) /\ transfer' = Closed(Late)
          \/ Fails(r) /\ transfer' = Closed(Late)
          \/ Fails(r) /\ transfer' = Closed(Late \cup {h})
          \/ /\ reads /\ req[r].pos = t.next /\ Becomes(r, "reading")
             /\ transfer' = [Closed(Late) EXCEPT ![h] = [@ EXCEPT !.busy = TRUE, !.replay = 0]]
      BY <2>1 DEF ReadBegins
    <2>3. CASE again /\ Gives(r, t.replay) /\ transfer' = Closed(Late)
      <3>1. h \in Handles
        BY <1>1, CheckingFacts
      <3>2. t = transfer[h] /\ h \in Open /\ t \in Transfers
        BY <2>3, <3>1, ClosedFacts DEF IndInv, Open, Typed
      <3>3. t.replay \in 0..Eof /\ t.next \in 0..Eof /\ req[r].pos \in 0..Length
        BY <3>2 DEF Transfers, IndInv, Typed, Asked, Position
      <3>4. lane = "v1" => t.replay = req[r].pos + 1
        <4>1. lane = "v1" => Steady(t)
          BY <3>2 DEF IndInv, Streams
        <4> QED
          BY <2>3, <3>3, <4>1, Bounds, AssetTransferAssumption DEF Steady
      <3> QED
        BY <1>1, <2>1, <2>3, <3>3, <3>4, CallKeeps
    <2>4. CASE Fails(r) /\ transfer' = Closed(Late)
      BY <1>1, <2>1, <2>4, CallKeeps
    <2>5. CASE Fails(r) /\ transfer' = Closed(Late \cup {h})
      BY <1>1, <2>1, <2>5, CallKeeps
    <2>6. CASE /\ reads /\ req[r].pos = t.next /\ Becomes(r, "reading")
               /\ transfer' = [Closed(Late) EXCEPT ![h] = [@ EXCEPT !.busy = TRUE, !.replay = 0]]
      BY <1>1, <2>1, <2>6, ReadingKeeps
    <2> QED
      BY <2>2, <2>3, <2>4, <2>5, <2>6
  <1> QED
    BY <1>2, <1>3

\* The answer of the page is back.
LEMMA AnsweredKeeps ==
    ASSUME IndInv, NEW r \in Requests, Answered(r)
    PROVE  IndInv'
  <1>1. Typed /\ Still /\ work[r].is \in {"answered", "failed"} /\ transfer' = transfer
    BY DEF IndInv, Answered, Still
  <1>2. /\ req' \in [Requests -> Asked] /\ \A q \in Requests : q # r => req'[q] = req[q]
        /\ req'[r].kind = "open" /\ req'[r].stage = "idle"
    BY <1>1, EndFacts DEF Answered
  <1>3. /\ work' \in [Requests -> Works] /\ \A q \in Requests : q # r => work'[q] = work[q]
        /\ work'[r] = NoWork
    BY <1>1, NoWorkFacts DEF Answered, Typed
  <1>4. transfer' \in [Handles -> Transfers] /\ Shrinks
    BY <1>1, ClosedShrinks
  <1>5. Quiet
    <2>1. \A q \in Requests : q # r => Continues(q)
      BY <1>2, <1>3 DEF Continues
    <2>2. Stops(r)
      BY <1>1, <1>3, NoWorkFacts DEF Stops
    <2> QED
      BY <1>1, <1>4, <2>1, <2>2 DEF Quiet, Still
  <1>6. work[r].is = "answered" /\ req[r].kind = "open" => Born(work[r].handle, req[r].lineage)
    BY DEF IndInv, Opened
  <1>7. Typed'
    <2>1. registry' \subseteq Handles /\ known' \subseteq registry' /\ lapsed' \subseteq registry'
      BY <1>1, <1>6 DEF Answered, Typed, Born
    <2> QED
      BY <1>1, <1>2, <1>3, <1>4, <2>1 DEF Typed, Still
  <1>8. Honoured'
    <2>1. \A h \in known' : Born(h, binding)
      BY <1>6 DEF Answered, Delivered, IndInv, Honoured
    <2> QED
      BY <1>1, <2>1 DEF Honoured, Born, Still
  <1>9. Placed'
    <2>1. \A q \in Requests : q # r => PlacedAt(q)'
      BY <1>1, <1>2, <1>3 DEF IndInv, Placed, PlacedAt
    <2>2. PlacedAt(r)'
      BY <1>2, <1>3, NoWorkFacts DEF PlacedAt
    <2> QED
      BY <2>1, <2>2 DEF Placed
  <1> QED
    BY <1>5, <1>7, <1>8, <1>9, QuietKeeps DEF IndInv

\* A call that is given up, its answer that comes late, and a cancellation.
LEMMA AbandonKeeps ==
    ASSUME IndInv, NEW r \in Requests, CallTimesOut(r) \/ Forgotten(r) \/ Cancel(r) \/ StreamFails(r)
    PROVE  IndInv'
  <1>1. Typed /\ Still /\ Lessens
    BY DEF IndInv, CallTimesOut, Forgotten, Cancel, StreamFails, Still, Lessens, Typed
  <1>2. PlacedAt(r)
    BY DEF IndInv, Placed
  <1>3. CASE CallTimesOut(r)
    <2>1. /\ req' \in [Requests -> Asked] /\ \A q \in Requests : q # r => req'[q] = req[q]
          /\ req'[r].stage = "abandoned" /\ Continues(r)
      BY <1>1, <1>3, StageFacts DEF CallTimesOut, Continues
    <2>2. transfer' \in [Handles -> Transfers] /\ Shrinks /\ work' = work
      BY <1>1, <1>3, ClosedShrinks DEF CallTimesOut
    <2>3. PlacedAt(r)'
      BY <2>1, <2>2, PlacedKept
    <2> QED
      BY <1>1, <2>1, <2>2, <2>3, OneQuiet DEF Typed
  <1>4. CASE Forgotten(r)
    <2>1. /\ req' \in [Requests -> Asked] /\ \A q \in Requests : q # r => req'[q] = req[q]
          /\ req'[r].kind = "open" /\ req'[r].stage = "idle"
      BY <1>1, <1>4, EndFacts DEF Forgotten
    <2>2. /\ work' \in [Requests -> Works] /\ \A q \in Requests : q # r => work'[q] = work[q]
          /\ work'[r] = NoWork
      BY <1>1, <1>4, NoWorkFacts DEF Forgotten, Typed
    <2>3. transfer' \in [Handles -> Transfers] /\ Shrinks
      BY <1>1, <1>4, ClosedShrinks DEF Forgotten
    <2>4. Stops(r) /\ PlacedAt(r)'
      BY <1>4, <2>1, <2>2, NoWorkFacts DEF Forgotten, Stops, PlacedAt
    <2> QED
      BY <1>1, <2>1, <2>2, <2>3, <2>4, OneQuiet
  <1>5. CASE /\ req[r].stage = "checking" /\ req' = [req EXCEPT ![r].cancelled = TRUE]
             /\ work' = work /\ transfer' = transfer
    <2>1. /\ req' \in [Requests -> Asked] /\ \A q \in Requests : q # r => req'[q] = req[q]
          /\ req'[r].stage = req[r].stage /\ Continues(r)
      BY <1>1, <1>5 DEF Typed, Asked, Continues
    <2>2. transfer' \in [Handles -> Transfers] /\ Shrinks
      BY <1>1, <1>5, ClosedShrinks
    <2>3. PlacedAt(r)'
      BY <2>1, <2>2, PlacedKept
    <2> QED
      BY <1>1, <1>5, <2>1, <2>2, <2>3, OneQuiet DEF Typed
  <1>6. CASE /\ Fails(r) /\ req' = req
             /\ \/ work[r].is = "fetching" /\ transfer' = transfer
                \/ work[r].is = "reading" /\ transfer' = Closed({req[r].on})
    <2>1. /\ work' \in [Requests -> Works] /\ \A q \in Requests : q # r => work'[q] = work[q]
          /\ work'[r].is = "failed"
      BY <1>1, <1>6, BecomesFacts DEF Fails
    <2>2. /\ transfer' \in [Handles -> Transfers] /\ Shrinks
          /\ transfer' = Closed({req[r].on}) => req[r].on \notin Open'
      BY <1>1, <1>6, ClosedShrinks
    <2>3. Stops(r)
      BY <1>6, <2>1, <2>2 DEF Stops
    <2>4. PlacedAt(r)'
      BY <1>2, <1>6, <2>1, <2>2, NoWorkFacts DEF PlacedAt, Shrinks
    <2> QED
      BY <1>1, <1>6, <2>1, <2>2, <2>3, <2>4, OneQuiet DEF Typed
  <1> QED
    BY <1>3, <1>4, <1>5, <1>6 DEF Cancel, StreamFails

-----------------------------------------------------------------------------
(* Discovery, time, the user and the host.                                 *)

\* A step that touches no request: the transfers shrink, handles are forgotten.
LEMMA CalmKeeps ==
    ASSUME IndInv, lane' = lane, changes' \in 0..MaxChanges, binding' \in 0..changes', page' \in 0..changes',
           refs' \subseteq 0..MaxChanges, Lessens, known' = {} \/ binding' = binding,
           transfer' \in [Handles -> Transfers], Shrinks,
           req' \in [Requests -> Asked], work' \in [Requests -> Works],
           \A r \in Requests : /\ Continues(r) \/ (Stops(r) /\ work'[r].is = "failed"
                                                   /\ req'[r] = req[r] /\ work[r].is # "none")
                               /\ req'[r].stage = req[r].stage
    PROVE  IndInv'
  <1>1. Typed'
    BY DEF IndInv, Typed, Lessens
  <1>2. Quiet
    BY DEF Quiet
  <1>3. Placed'
    <2> SUFFICES ASSUME NEW r \in Requests
                 PROVE  PlacedAt(r)'
      BY DEF Placed
    <2>1. CASE Continues(r)
      BY <2>1, PlacedKept
    <2>2. CASE work'[r].is = "failed" /\ req'[r] = req[r] /\ work[r].is # "none"
      BY <2>2, NoWorkFacts DEF IndInv, Placed, PlacedAt, Shrinks
    <2> QED
      BY <2>1, <2>2
  <1> QED
    BY <1>1, <1>2, <1>3, QuietStep DEF Lessens

\* The registries are cleared: every request forgets that it is in the page.
LEMMA ClearFacts ==
    ASSUME Typed, ClearRegistries
    PROVE  /\ req' \in [Requests -> Asked] /\ Lessens /\ known' = {} /\ refs' = {}
           /\ \A r \in Requests :
                /\ req'[r].kind = req[r].kind /\ req'[r].on = req[r].on /\ req'[r].pos = req[r].pos
                /\ req'[r].lineage = req[r].lineage /\ req'[r].stage = req[r].stage
  <1> DEFINE gone(r) == [req[r] EXCEPT !.reached = FALSE]
  <1>1. ASSUME NEW r \in Requests
        PROVE  /\ gone(r) \in Asked
               /\ gone(r).kind = req[r].kind /\ gone(r).on = req[r].on /\ gone(r).pos = req[r].pos
               /\ gone(r).lineage = req[r].lineage /\ gone(r).stage = req[r].stage
    <2>1. req[r] \in Asked
      BY DEF Typed
    <2> QED
      BY <2>1 DEF Asked
  <1>2. req' = [r \in Requests |-> gone(r)]
    BY DEF ClearRegistries
  <1>3. Lessens /\ known' = {} /\ refs' = {}
    BY DEF ClearRegistries, Lessens
  <1> HIDE DEF gone
  <1> QED
    BY <1>1, <1>2, <1>3

\* Discovery and time.
LEMMA TimeKeeps ==
    ASSUME IndInv,
           \/ V1Discover \/ A1Discover
           \/ \E h \in Handles : TransferLapses(h) \/ EntryLapses(h)
    PROVE  IndInv'
  <1>1. Typed /\ page \in 0..MaxChanges
    BY Bounds DEF IndInv, Typed
  <1>2. CASE V1Discover
    <2>1. transfer' \in [Handles -> Transfers] /\ Shrinks
      BY <1>1, <1>2, ClosedShrinks DEF V1Discover
    <2>2. Lessens /\ refs' \subseteq 0..MaxChanges
      BY <1>1, <1>2 DEF V1Discover, Discovered, Lessens, Typed
    <2> QED
      BY <1>1, <1>2, <2>1, <2>2, CalmKeeps DEF V1Discover, Typed, Continues
  <1>3. CASE A1Discover
    <2>1. transfer' \in [Handles -> Transfers] /\ Shrinks
      BY <1>1, <1>3, ClosedShrinks DEF A1Discover
    <2>2. Lessens /\ refs' \subseteq 0..MaxChanges
      BY <1>1, <1>3 DEF A1Discover, Discovered, Cleaned, Lessens, Typed
    <2> QED
      BY <1>1, <1>3, <2>1, <2>2, CalmKeeps DEF A1Discover, Typed, Continues
  <1>4. ASSUME NEW h \in Handles, TransferLapses(h)
        PROVE  IndInv'
    <2>1. transfer' \in [Handles -> Transfers] /\ Shrinks
      BY <1>1, <1>4 DEF TransferLapses, Typed, Transfers, Shrinks, Kept
    <2>2. Lessens
      BY <1>1, <1>4 DEF TransferLapses, Lessens, Typed
    <2> QED
      BY <1>1, <1>4, <2>1, <2>2, CalmKeeps DEF TransferLapses, Typed, Continues
  <1>5. ASSUME NEW h \in Handles, EntryLapses(h)
        PROVE  IndInv'
    <2>1. transfer' \in [Handles -> Transfers] /\ Shrinks
      BY <1>1, <1>5, ClosedShrinks DEF EntryLapses
    <2>2. Lessens
      BY <1>1, <1>5 DEF EntryLapses, Lessens, Typed
    <2> QED
      BY <1>1, <1>5, <2>1, <2>2, CalmKeeps DEF EntryLapses, Typed, Continues
  <1> QED
    BY <1>2, <1>3, <1>4, <1>5

\* The user, the host and the page.
LEMMA ChangeKeeps ==
    ASSUME IndInv, UserRebinds \/ UserReduces \/ HostDisconnects \/ PageNavigates
    PROVE  IndInv'
  <1>1. Typed /\ changes' \in 0..MaxChanges /\ changes' = changes + 1 /\ changes \in Nat
    BY Bounds DEF IndInv, Typed, UserRebinds, UserReduces, HostDisconnects, PageNavigates, Changes
  <1>2. /\ binding' \in 0..changes' /\ page' \in 0..changes' /\ lane' = lane
    BY <1>1 DEF Typed, UserRebinds, UserReduces, HostDisconnects, PageNavigates
  <1>3. CASE UserRebinds \/ UserReduces \/ HostDisconnects
    <2>1. ClearRegistries /\ work' = work
      BY <1>3 DEF UserRebinds, UserReduces, HostDisconnects
    <2>2. transfer' = Closed(Open) \/ transfer' = transfer
      BY <1>3 DEF UserRebinds, UserReduces, HostDisconnects
    <2>3. transfer' \in [Handles -> Transfers] /\ Shrinks
      BY <1>1, <2>2, ClosedShrinks
    <2>4. /\ req' \in [Requests -> Asked] /\ Lessens /\ known' = {} /\ refs' = {}
          /\ \A r \in Requests : Continues(r) /\ req'[r].stage = req[r].stage
      BY <1>1, <2>1, ClearFacts DEF Continues
    <2> QED
      BY <1>1, <1>2, <2>1, <2>3, <2>4, CalmKeeps DEF Typed
  <1>4. CASE PageNavigates
    <2>1. transfer' \in [Handles -> Transfers] /\ Shrinks
      BY <1>1, <1>4, ClosedShrinks DEF PageNavigates
    <2>2. Open' = {}
      <3>1. \A h \in Open : h \notin Open'
        BY <1>1, <1>4, ClosedShrinks DEF PageNavigates
      <3> QED
        BY <2>1, <3>1 DEF Open, Shrinks, Kept
    <2>3. /\ work' \in [Requests -> Works]
          /\ \A r \in Requests : Continues(r) \/ (Stops(r) /\ work'[r].is = "failed"
                                                   /\ req'[r] = req[r] /\ work[r].is # "none")
      <3> SUFFICES ASSUME NEW r \in Requests
                   PROVE  /\ work'[r] \in Works
                          /\ Continues(r) \/ (Stops(r) /\ work'[r].is = "failed"
                                               /\ req'[r] = req[r] /\ work[r].is # "none")
        BY <1>4 DEF PageNavigates
      <3>1. CASE work[r].is \in {"fetching", "reading"}
        <4>1. work'[r] = [work[r] EXCEPT !.is = "failed"] /\ req'[r] = req[r]
          BY <1>4, <3>1 DEF PageNavigates
        <4>2. work'[r] \in Works /\ work'[r].is = "failed"
          BY <1>1, <4>1 DEF Typed, Works
        <4> QED
          BY <2>2, <3>1, <4>1, <4>2 DEF Stops
      <3>2. CASE work[r].is \notin {"fetching", "reading"}
        <4>1. work'[r] = work[r] /\ req'[r] = req[r]
          BY <1>4, <3>2 DEF PageNavigates
        <4> QED
          BY <1>1, <4>1 DEF Typed, Continues
      <3> QED
        BY <3>1, <3>2
    <2>4. Lessens
      BY <1>1, <1>4 DEF PageNavigates, Lessens, Typed
    <2> QED
      BY <1>1, <1>2, <1>4, <2>1, <2>3, <2>4, CalmKeeps DEF PageNavigates, Typed
  <1> QED
    BY <1>3, <1>4

-----------------------------------------------------------------------------
(* A transfer is opened, or its stream gives an item.                      *)

\* A fetch that opens a transfer: nothing was asked of it before.
LEMMA OpenedKeeps ==
    ASSUME IndInv, NEW r \in Requests, work[r].is = "fetching", NEW h \in Handles, A1Room,
           transfer[h].is = "unborn", transfer' = [transfer EXCEPT ![h] = Transfer("open", req[r].lineage, page)],
           work' = [work EXCEPT ![r].is = "answered", ![r].handle = h],
           UNCHANGED <<lane, changes, binding, page, refs, registry, lapsed, known, req>>
    PROVE  IndInv'
  <1> DEFINE new == Transfer("open", req[r].lineage, page)
  <1>1. Typed /\ req[r].lineage \in 0..MaxChanges /\ page \in 0..MaxChanges
    BY Bounds DEF IndInv, Typed, Asked
  <1>2. /\ new \in Transfers /\ new.is = "open" /\ new.by = req[r].lineage /\ new.taken = 0
        /\ new.next = 0 /\ new.replay = 0 /\ ~new.terminal /\ ~new.busy
    BY <1>1, TransferTyped
  <1> HIDE DEF new
  <1>3. /\ transfer' \in [Handles -> Transfers] /\ transfer'[h] = new
        /\ \A k \in Handles : k # h => transfer'[k] = transfer[k]
    BY <1>1, <1>2 DEF Typed, new
  <1>4. /\ work' \in [Requests -> Works] /\ work'[r].is = "answered" /\ work'[r].handle = h
        /\ \A q \in Requests : q # r => work'[q] = work[q]
    <2>1. h \in 0..MaxOpens
      BY Bounds DEF Handles
    <2> QED
      BY <1>1, <2>1 DEF Typed, Works
  <1>5. Open' = Open \cup {h} /\ h \notin Open
    BY <1>2, <1>3 DEF Open
  <1>6. \A k, by : Born(k, by) => k \in Handles /\ k # h /\ transfer'[k] = transfer[k]
    BY <1>3 DEF Born
  <1>7. req[r].kind = "open"
    BY DEF IndInv, Placed, PlacedAt
  <1>8. Typed'
    BY <1>1, <1>3, <1>4 DEF Typed
  <1>9. Placed'
    <2>1. \A q \in Requests : q # r => PlacedAt(q)'
      BY <1>2, <1>3, <1>4 DEF IndInv, Placed, PlacedAt
    <2>2. PlacedAt(r)'
      BY <1>4, <1>7, NoWorkFacts DEF IndInv, Placed, PlacedAt
    <2> QED
      BY <2>1, <2>2 DEF Placed
  <1>10. BusyIsRead'
    <2> SUFFICES ASSUME NEW k \in Open', transfer'[k].busy
                 PROVE  \E q \in Requests : work'[q].is = "reading" /\ req[q].on = k
      BY DEF BusyIsRead
    <2>1. k \in Open /\ transfer[k].busy
      BY <1>2, <1>3, <1>5 DEF Open
    <2>2. PICK q \in Requests : work[q].is = "reading" /\ req[q].on = k
      BY <2>1 DEF IndInv, BusyIsRead
    <2> QED
      BY <1>4, <2>2
  <1>11. Opened'
    <2> SUFFICES ASSUME NEW q \in Requests, work'[q].is = "answered", req[q].kind = "open"
                 PROVE  /\ work'[q].handle \in Handles /\ transfer'[work'[q].handle].is # "unborn"
                        /\ transfer'[work'[q].handle].by = req[q].lineage
      BY DEF Opened, Born
    <2>1. CASE q = r
      BY <1>2, <1>3, <1>4, <2>1
    <2>2. CASE q # r
      BY <1>4, <1>6, <2>2 DEF IndInv, Opened, Born
    <2> QED
      BY <2>1, <2>2
  <1>12. Honoured'
    BY <1>6 DEF IndInv, Honoured, Born
  <1>13. Streams'
    <2>1. \A q \in Requests : Reading(q)' => Reading(q) /\ req[q].on # h
      BY <1>4, <1>5 DEF IndInv, Placed, PlacedAt, Reading
    <2>2. lane = "v1" => \A k \in Open' : Steady(transfer'[k])
      <3>1. Steady(new)
        BY <1>2, Bounds, AssetTransferAssumption DEF Steady
      <3> QED
        BY <1>3, <1>5, <3>1 DEF IndInv, Streams, Open
    <2>3. lane = "v1" => \A q \in Requests : Reading(q)' =>
              /\ req[q].pos = transfer'[req[q].on].next
              /\ transfer'[req[q].on].busy /\ ~transfer'[req[q].on].terminal
      <3>1. \A q \in Requests : Reading(q)' => transfer'[req[q].on] = transfer[req[q].on]
        BY <1>3, <2>1 DEF Reading, Open
      <3> QED
        BY <2>1, <3>1 DEF IndInv, Streams
    <2>4. lane = "v1" => \A p, q \in Requests :
              Reading(p)' /\ Reading(q)' /\ req[p].on = req[q].on => p = q
      BY <2>1 DEF IndInv, Streams
    <2> QED
      BY <2>2, <2>3, <2>4 DEF Streams, Steady
  <1>14. StreamInOrder'
    BY <1>4, <1>7 DEF IndInv, StreamInOrder
  <1>15. A1CapHolds'
    <2>1. IsFiniteSet(Open)
      BY FiniteOpen
    <2>2. Cardinality(Open') = Cardinality(Open) + 1 /\ Cardinality(Open) \in Nat
      BY <1>5, <2>1, FS_AddElement, FS_CardinalityType
    <2> QED
      BY <2>2, AssetTransferAssumption DEF A1CapHolds, A1Room
  <1> QED
    BY <1>8, <1>9, <1>10, <1>11, <1>12, <1>13, <1>14, <1>15 DEF IndInv

\* The fetch is over.
LEMMA FetchKeeps ==
    ASSUME IndInv, NEW r \in Requests, FetchEnds(r)
    PROVE  IndInv'
  <1>1. CASE Fails(r) /\ transfer' = transfer
    <2>1. Typed /\ Still /\ Lessens /\ work[r].is = "fetching" /\ req' = req
      BY DEF IndInv, FetchEnds, Still, Lessens, Typed
    <2>2. /\ work' \in [Requests -> Works] /\ \A q \in Requests : q # r => work'[q] = work[q]
          /\ work'[r].is = "failed"
      BY <1>1, <2>1, BecomesFacts DEF Fails
    <2>3. transfer' \in [Handles -> Transfers] /\ Shrinks
      BY <1>1, <2>1, ClosedShrinks
    <2>4. Stops(r) /\ PlacedAt(r)'
      BY <1>1, <2>1, <2>2, NoWorkFacts DEF Stops, IndInv, Placed, PlacedAt
    <2> QED
      BY <2>1, <2>2, <2>3, <2>4, OneQuiet DEF Typed
  <1>2. CASE ~(Fails(r) /\ transfer' = transfer)
    BY <1>2, OpenedKeeps DEF FetchEnds
  <1> QED
    BY <1>1, <1>2

\* The stream gives an item: the next one, for the position it was asked for.
LEMMA GiveKeeps ==
    ASSUME IndInv, NEW r \in Requests, StreamGives(r)
    PROVE  IndInv'
  <1> DEFINE h == req[r].on
             t == transfer[h]
             item == IF t.taken < Eof THEN t.taken + 1 ELSE Eof
             new == [is |-> "open", by |-> t.by, doc |-> t.doc, taken |-> item, next |-> req[r].pos + 1,
                     replay |-> item, terminal |-> (item = Eof), busy |-> FALSE, late |-> FALSE]
  <1>1. Typed /\ work[r].is = "reading" /\ t.is = "open" /\ req[r].kind = "read" /\ h \in Handles
        /\ req[r].stage \notin {"idle", "checking"}
    BY NoWorkFacts DEF IndInv, StreamGives, Placed, PlacedAt
  <1>2. transfer' = [transfer EXCEPT ![h] = new] /\ Gives(r, item)
    BY DEF StreamGives
  <1>3. t \in Transfers /\ t.taken \in 0..Eof /\ req[r].pos \in 0..Length /\ h \in Open
    BY <1>1 DEF Typed, Transfers, Asked, Position, Open
  <1>4. item \in 0..Eof /\ req[r].pos + 1 \in 0..Eof /\ (t.taken # Eof => item = t.taken + 1)
    BY <1>3, Bounds, AssetTransferAssumption
  <1>5. lane = "v1" => item = req[r].pos + 1 /\ t.next = req[r].pos
    <2>1. lane = "v1" => Steady(t) /\ t.next = req[r].pos /\ ~t.terminal
      BY <1>1, <1>3 DEF IndInv, Streams, Reading
    <2> QED
      BY <1>4, <2>1 DEF Steady
  <1>6. /\ new \in Transfers /\ new.is = "open" /\ new.by = t.by /\ new.taken = item
        /\ new.next = req[r].pos + 1 /\ new.replay = item /\ (new.terminal <=> item = Eof) /\ ~new.busy
    BY <1>3, <1>4 DEF Transfers
  <1> HIDE DEF item, new, t
  <1>7. /\ transfer' \in [Handles -> Transfers] /\ transfer'[h] = new
        /\ \A k \in Handles : k # h => transfer'[k] = transfer[k]
    BY <1>1, <1>2, <1>6 DEF Typed
  <1>8. /\ work' \in [Requests -> Works] /\ work'[r].is = "answered" /\ work'[r].item = item
        /\ \A q \in Requests : q # r => work'[q] = work[q]
    BY <1>1, <1>2, <1>4, GivesFacts
  <1>9. Open' = Open /\ \A k \in Handles : transfer'[k].by = transfer[k].by
                             /\ (transfer'[k].is = "unborn" <=> transfer[k].is = "unborn")
    BY <1>1, <1>6, <1>7 DEF Open, t
  <1>10. lane' = lane /\ req' = req /\ known' = known /\ binding' = binding
    BY DEF StreamGives
  <1>11. Typed'
    BY <1>1, <1>7, <1>8 DEF StreamGives, Typed
  <1>12. Placed'
    <2>1. \A q \in Requests : q # r => PlacedAt(q)'
      BY <1>8, <1>9, <1>10 DEF IndInv, Placed, PlacedAt
    <2>2. PlacedAt(r)'
      BY <1>1, <1>8, <1>9, <1>10 DEF IndInv, Placed, PlacedAt
    <2> QED
      BY <2>1, <2>2 DEF Placed
  <1>13. BusyIsRead'
    <2> SUFFICES ASSUME NEW k \in Open', transfer'[k].busy
                 PROVE  \E q \in Requests : work'[q].is = "reading" /\ req[q].on = k
      BY <1>10 DEF BusyIsRead
    <2>1. k # h /\ k \in Open /\ transfer[k].busy
      BY <1>6, <1>7, <1>9 DEF Open
    <2>2. PICK q \in Requests : work[q].is = "reading" /\ req[q].on = k
      BY <2>1 DEF IndInv, BusyIsRead
    <2> QED
      BY <1>8, <2>1, <2>2
  <1>14. Opened' /\ Honoured'
    <2>1. Opened'
      BY <1>1, <1>8, <1>9, <1>10 DEF IndInv, Opened, Born
    <2>2. Honoured'
      BY <1>9, <1>10 DEF IndInv, Honoured, Born
    <2> QED
      BY <2>1, <2>2
  <1>15. Streams'
    <2> SUFFICES ASSUME lane = "v1"
                 PROVE  /\ \A k \in Open' : Steady(transfer'[k])
                        /\ \A q \in Requests : Reading(q)' =>
                             /\ req[q].pos = transfer'[req[q].on].next
                             /\ transfer'[req[q].on].busy /\ ~transfer'[req[q].on].terminal
                        /\ \A p, q \in Requests : Reading(p)' /\ Reading(q)' /\ req[p].on = req[q].on => p = q
      BY <1>10 DEF Streams, Steady
    <2>1. \A k \in Open' : Steady(transfer'[k])
      <3>1. Steady(new)
        BY <1>5, <1>6 DEF Steady
      <3> QED
        BY <1>7, <1>9, <3>1 DEF IndInv, Streams, Open
    <2>2. \A q \in Requests : Reading(q)' => Reading(q) /\ q # r /\ req[q].on # h
      BY <1>1, <1>3, <1>8, <1>9, <1>10 DEF IndInv, Streams, Reading
    <2>3. \A q \in Requests : Reading(q)' => transfer'[req[q].on] = transfer[req[q].on]
      BY <1>7, <2>2 DEF Reading, Open
    <2> QED
      BY <2>1, <2>2, <2>3 DEF IndInv, Streams
  <1>16. StreamInOrder'
    BY <1>5, <1>8, <1>10 DEF IndInv, StreamInOrder
  <1>17. A1CapHolds'
    BY <1>9, <1>10 DEF IndInv, A1CapHolds
  <1> QED
    BY <1>11, <1>12, <1>13, <1>14, <1>15, <1>16, <1>17 DEF IndInv

-----------------------------------------------------------------------------
(* The theorems.                                                           *)

\* The invariant holds at the start.
LEMMA InitIndInv == Init => IndInv
  <1> SUFFICES ASSUME Init PROVE IndInv
    OBVIOUS
  <1>1. Unborn \in Transfers /\ Unborn.is = "unborn"
    BY TransferTyped, Bounds DEF Unborn
  <1>2. NoRequest \in Asked /\ NoRequest.kind = "open" /\ NoRequest.stage = "idle"
    BY Bounds, AssetTransferAssumption DEF Asked, NoRequest, Position
  <1>3. Typed
    BY <1>1, <1>2, NoWorkFacts, Bounds DEF Init, Typed
  <1>4. Placed
    BY <1>2, NoWorkFacts DEF Init, Placed, PlacedAt
  <1>5. Open = {} /\ \A r \in Requests : work[r].is = "none"
    BY <1>1, NoWorkFacts DEF Init, Open
  <1>6. A1CapHolds
    BY <1>5, FS_EmptySet, AssetTransferAssumption DEF A1CapHolds
  <1> QED
    BY <1>3, <1>4, <1>5, <1>6
    DEF IndInv, BusyIsRead, Opened, Honoured, Streams, StreamInOrder, Reading, Init

\* Every step keeps it.
LEMMA NextIndInv == IndInv /\ [Next]_vars => IndInv'
  <1> SUFFICES ASSUME IndInv, [Next]_vars PROVE IndInv'
    OBVIOUS
  <1>1. ASSUME NEW r \in Requests,
               \/ AskOpen(r) \/ AskRead(r) \/ AskClose(r)
               \/ AccessRefused(r) \/ V1Open(r) \/ A1Open(r)
               \/ V1Read(r) \/ A1Read(r) \/ V1Close(r) \/ A1Close(r)
        PROVE  IndInv'
    BY <1>1, AskingKeeps, OpeningKeeps, ReadKeeps, ClosingKeeps DEF V1Read, A1Read, V1Close, A1Close
  <1>2. ASSUME NEW r \in Requests,
               \/ Answered(r) \/ CallTimesOut(r) \/ Forgotten(r) \/ Cancel(r)
               \/ FetchEnds(r) \/ StreamGives(r) \/ StreamFails(r)
        PROVE  IndInv'
    BY <1>2, AnsweredKeeps, AbandonKeeps, FetchKeeps, GiveKeeps
  <1>3. CASE \/ V1Discover \/ A1Discover
             \/ \E h \in Handles : TransferLapses(h) \/ EntryLapses(h)
    BY <1>3, TimeKeeps
  <1>4. CASE UserRebinds \/ UserReduces \/ HostDisconnects \/ PageNavigates
    BY <1>4, ChangeKeeps
  <1>5. CASE UNCHANGED vars
    BY <1>5 DEF vars, IndInv, Typed, Placed, PlacedAt, BusyIsRead, Opened, Born, Honoured,
                Streams, Steady, Reading, StreamInOrder, A1CapHolds, Open
  <1> QED
    BY <1>1, <1>2, <1>3, <1>4, <1>5 DEF Next

\* The inductive invariant, for every number of requests, items, transfers and changes.
THEOREM Inductive == Spec => []IndInv
  BY InitIndInv, NextIndInv, PTL DEF Spec

\* Types; and no failure leaves a transfer marked busy that no request reads.
THEOREM TypeCorrect == Spec => []TypeOK
  <1>1. IndInv => TypeOK
    BY Bounds DEF IndInv, Typed, BusyIsRead, TypeOK
  <1> QED
    BY <1>1, Inductive, PTL

\* The chunk that is answered for a position is the item of that position, however
\* many requests overlap (readChunk and its busy mark).
THEOREM ChunksInOrder == Spec => []StreamInOrder
  <1>1. IndInv => StreamInOrder
    BY DEF IndInv
  <1> QED
    BY <1>1, Inductive, PTL

\* A handle the agent holds and the background page honours was opened under the
\* live binding (postDelivery, clearCachesForAuthorityChange).
THEOREM HandlesOfOneBinding == Spec => []OneBinding
  <1>1. IndInv => OneBinding
    BY DEF IndInv, Honoured, Born, OneBinding
  <1> QED
    BY <1>1, Inductive, PTL

\* Lane A1 keeps to its limit, because it counts when the fetch is over.
THEOREM LimitOfLaneA1 == Spec => []A1CapHolds
  <1>1. IndInv => A1CapHolds
    BY DEF IndInv
  <1> QED
    BY <1>1, Inductive, PTL
=============================================================================
