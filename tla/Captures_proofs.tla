-------------------------- MODULE Captures_proofs --------------------------
(***************************************************************************)
(* Theorems about Captures, for every number of tabs and screenshot        *)
(* requests in flight: one capture holds the slot, and a picture that is   *)
(* kept was taken while the page was the one first seen, or away from it   *)
(* and back, under one binding and without overlay.                        *)
(***************************************************************************)
EXTENDS Captures, FiniteSetTheorems, SequenceTheorems, TLAPS

-----------------------------------------------------------------------------
(* The inductive invariant.                                                *)

Early == {"idle", "authorizing", "pinging"}

\* What a tab showed at a is what it showed at b, or a was an earlier visit.
Upto(a, b) == a.visit <= b.visit /\ (a.visit = b.visit => a = b)

\* TypeOK without the length of the table.
Typed ==
    /\ auth \in [instance : 0..MaxBindings, live : BOOLEAN, covers : SUBSET Tabs]
    /\ page \in [Tabs -> Pages]
    /\ slot \in Captures \cup {NoCapture}
    /\ capture \in [Captures -> CaptureStates]
    /\ artifacts \in Seq(Captures)

\* What a capture has read of its page, in the order in which it did.
SeenInOrder(r, now) ==
    /\ Upto(r.before, now) /\ Upto(r.read, now) /\ Upto(r.picture, now)
    /\ r.stage = "idle" => r.read = NoIdentity
    /\ r.stage \in Early => r.before = NoIdentity
    /\ r.stage \in Early \cup {"suppressing", "confirming", "reauthorizing", "repinging"}
         => r.picture = NoIdentity
    /\ r.stage \in {"rendering", "proving"} => r.read = NoIdentity
    /\ r.stage \in {"proving", "comparing", "hashing"} => r.picture # NoIdentity
    /\ r.picture # NoIdentity => Upto(r.before, r.picture)
    /\ r.stage = "comparing" /\ r.read # NoIdentity => Upto(r.picture, r.read)
    /\ r.stage = "hashing" => SamePage(r.after, r.before) /\ Upto(r.picture, r.after)

Ordered ==
    /\ \A t \in Tabs : page[t].is.visit # 0
    /\ \A c \in Captures : SeenInOrder(capture[c], page[capture[c].tab].is)

\* The bindings a capture names are of the past or live, in the order it met them.
UnderBindings(r, now) ==
    /\ r.asked <= now /\ r.lineage <= now /\ r.stamp <= now
    /\ r.stage \in Holding \ {"releasing"} => r.asked <= r.lineage
    /\ r.answer = "ok" => r.stage \in {"releasing", "done"}
    /\ r.stage = "releasing" /\ r.answer = "ok" => r.asked <= r.lineage /\ r.lineage <= r.stamp
    /\ r.stage = "done" /\ r.answer = "ok" => r.asked = r.lineage /\ r.lineage = r.stamp

Bound ==
    /\ auth.live => auth.instance # 0
    /\ \A c \in Captures : UnderBindings(capture[c], auth.instance)

\* Messages are in the inbox of the document their capture saw first, and the release
\* is the last of them.
PostOf(r, t, m, shown) ==
    /\ r.tab = t /\ r.stage \notin Early
    /\ m.kind = "release" => r.stage \in {"releasing", "done"}
    /\ r.stage \notin {"releasing", "done"} => r.before.document = shown

Posted ==
    \A t \in Tabs : \A i \in DOMAIN page[t].inbox :
        PostOf(capture[page[t].inbox[i].of], t, page[t].inbox[i], page[t].is.document)

\* Until its picture is taken, a token that was confirmed stays with the document first
\* seen, wherever the tab goes.
TokenOf(c) == [of |-> c, document |-> capture[c].before.document]

HiddenFor(c) ==
    capture[c].stage \in {"reauthorizing", "repinging", "rendering"} /\ ~capture[c].expired
    => TokenOf(c) \in page[capture[c].tab].tokens

Hidden == \A c \in Captures : HiddenFor(c)

\* A picture that may still be kept and shows the first document is clean.
CleanSoFar(r) ==
    r.stage \in {"rendering", "proving", "comparing", "hashing"} /\ r.picture # NoIdentity
    /\ r.picture.document = r.before.document => r.clean \/ r.expired

Cleaned == \A c \in Captures : CleanSoFar(capture[c])

\* What is kept was accepted.
AcceptedPicture(r) ==
    /\ r.stage \in {"releasing", "done"} /\ r.stamp # 0
    /\ SamePage(r.after, r.before) /\ Upto(r.before, r.picture) /\ Upto(r.picture, r.after)
    /\ r.clean \/ r.expired \/ r.picture.document # r.before.document

KeptWell == \A i \in DOMAIN artifacts : AcceptedPicture(capture[artifacts[i]])

\* Room is made once: only the holder of the slot adds a picture.
Room ==
    /\ Len(artifacts) <= MaxArtifacts
    /\ \A c \in Captures : capture[c].stage = "hashing" => Len(artifacts) < MaxArtifacts

IInv ==
    /\ Typed /\ SlotHeld /\ Ordered /\ Bound /\ Posted /\ Hidden /\ Cleaned /\ KeptWell /\ Room

-----------------------------------------------------------------------------
(* Types.                                                                  *)

LEMMA Numbers == MaxBindings \in Nat /\ MaxPage \in Nat /\ MaxArtifacts \in Nat \ {0}
  BY CapturesAssumption

LEMMA NoOneTyped == NoIdentity \in Identities
  BY DEF NoIdentity, Identities

LEMMA BlankTyped == \A t \in Tabs : Blank(t) \in CaptureStates
  BY NoOneTyped DEF Blank, CaptureStates, Stages

LEMMA OverTyped ==
  ASSUME Typed, NEW c \in Captures, NEW a \in {"none", "ok", "failed", "denied"}
  PROVE  Over(c, a) \in CaptureStates
  <1>1. capture[c] \in CaptureStates
    BY DEF Typed
  <1>2. Blank(capture[c].tab) \in CaptureStates
    BY <1>1, BlankTyped DEF CaptureStates
  <1> QED BY <1>1, <1>2 DEF Over, CaptureStates, Stages

LEMMA SentTyped ==
  ASSUME Typed, NEW c \in Captures, NEW k \in {"suppress", "confirm", "release"}
  PROVE  Sent(c, k) \in [Tabs -> Pages]
  <1>1. capture[c].tab \in Tabs
    BY DEF Typed, CaptureStates
  <1>2. [kind |-> k, of |-> c] \in Messages
    BY DEF Messages
  <1>3. page[capture[c].tab] \in Pages
    BY <1>1 DEF Typed
  <1>4. Append(page[capture[c].tab].inbox, [kind |-> k, of |-> c]) \in Seq(Messages)
    BY <1>2, <1>3, AppendProperties DEF Pages
  <1> QED BY <1>1, <1>3, <1>4 DEF Sent, Typed, Pages

LEMMA PrunedTyped ==
  ASSUME Typed
  PROVE  /\ Pruned \in Seq(Captures) /\ Len(Pruned) <= Len(artifacts)
         /\ \E k \in Nat : \A i \in DOMAIN Pruned : i + k \in DOMAIN artifacts /\ Pruned[i] = artifacts[i + k]
  <1> DEFINE others == {i \in DOMAIN artifacts : capture[artifacts[i]].stamp # auth.instance}
             k == Cardinality(others)
  <1>1. artifacts \in Seq(Captures) /\ DOMAIN artifacts = 1..Len(artifacts) /\ Len(artifacts) \in Nat
    BY LenProperties DEF Typed
  <1>2. IsFiniteSet(1..Len(artifacts)) /\ Cardinality(1..Len(artifacts)) = Len(artifacts)
    BY <1>1, FS_Interval
  <1>3. k \in Nat /\ k <= Len(artifacts)
    BY <1>1, <1>2, FS_Subset, FS_CardinalityType
  <1>4. Pruned = SubSeq(artifacts, k + 1, Len(artifacts))
    BY DEF Pruned
  <1> HIDE DEF k
  <1>5. /\ Pruned \in Seq(Captures) /\ Len(Pruned) <= Len(artifacts)
        /\ \A i \in DOMAIN Pruned : i + k \in DOMAIN artifacts /\ Pruned[i] = artifacts[i + k]
    BY <1>1, <1>3, <1>4
  <1> QED BY <1>3, <1>5

LEMMA MakeRoomTyped ==
  ASSUME Typed, Len(artifacts) <= MaxArtifacts
  PROVE  /\ MakeRoom(artifacts) \in Seq(Captures) /\ Len(MakeRoom(artifacts)) < MaxArtifacts
         /\ \E k \in Nat : \A i \in DOMAIN MakeRoom(artifacts) :
              i + k \in DOMAIN artifacts /\ MakeRoom(artifacts)[i] = artifacts[i + k]
  <1>1. artifacts \in Seq(Captures) /\ Len(artifacts) \in Nat /\ MaxArtifacts \in Nat \ {0}
    BY Numbers DEF Typed
  <1>2. CASE Len(artifacts) >= MaxArtifacts
    <2>1. Len(artifacts) = MaxArtifacts
      BY <1>1, <1>2
    <2>2. MakeRoom(artifacts) = SubSeq(artifacts, 2, Len(artifacts))
      BY <1>1, <2>1 DEF MakeRoom
    <2>3. /\ SubSeq(artifacts, 2, Len(artifacts)) \in Seq(Captures)
          /\ Len(SubSeq(artifacts, 2, Len(artifacts))) = Len(artifacts) - 1
          /\ \A i \in 1..(Len(artifacts) - 1) : SubSeq(artifacts, 2, Len(artifacts))[i] = artifacts[i + 1]
      BY <1>1, <2>1
    <2>4. DOMAIN MakeRoom(artifacts) = 1..(Len(artifacts) - 1) /\ DOMAIN artifacts = 1..Len(artifacts)
      BY <1>1, <2>2, <2>3, LenProperties
    <2>5. \A i \in DOMAIN MakeRoom(artifacts) :
            i + 1 \in DOMAIN artifacts /\ MakeRoom(artifacts)[i] = artifacts[i + 1]
      BY <1>1, <2>2, <2>3, <2>4
    <2> QED BY <1>1, <2>1, <2>2, <2>3, <2>5
  <1>3. CASE ~(Len(artifacts) >= MaxArtifacts)
    <2>1. MakeRoom(artifacts) = artifacts /\ Len(artifacts) < MaxArtifacts
      BY <1>1, <1>3 DEF MakeRoom
    <2>2. \A i \in DOMAIN artifacts : i + 0 = i
      BY <1>1
    <2> QED BY <1>1, <2>1, <2>2
  <1> QED BY <1>2, <1>3

Fields == {"stage", "tab", "asked", "lineage", "before", "read", "after", "expired", "picture",
           "clean", "stamp", "answer"}

\* Two records of captures that differ in the fields F only.
Alike(q, r, F) == \A f \in Fields \ F : q[f] = r[f]

\* One capture changes, in the fields F only.
Turned(c, F) ==
    /\ capture' \in [Captures -> CaptureStates]
    /\ \A d \in Captures \ {c} : capture'[d] = capture[d]
    /\ Alike(capture'[c], capture[c], F)

LEMMA Replaced ==
  ASSUME Typed, NEW c \in Captures, NEW r \in CaptureStates, NEW F,
         capture' = [capture EXCEPT ![c] = r], Alike(r, capture[c], F)
  PROVE  Turned(c, F) /\ capture'[c] = r
  BY DEF Typed, Turned

LEMMA StageTurns ==
  ASSUME Typed, NEW c \in Captures, NEW s \in Stages,
         capture' = [capture EXCEPT ![c].stage = s]
  PROVE  Turned(c, {"stage"}) /\ capture'[c].stage = s
  <1> DEFINE r == [capture[c] EXCEPT !.stage = s]
  <1>1. capture' = [capture EXCEPT ![c] = r]
    BY DEF Typed
  <1>2. r \in CaptureStates /\ r.stage = s
    BY DEF Typed, CaptureStates
  <1>3. Alike(r, capture[c], {"stage"})
    BY DEF Typed, CaptureStates, Alike, Fields
  <1> HIDE DEF r
  <1> QED BY <1>1, <1>2, <1>3, Replaced

LEMMA ReadTurns ==
  ASSUME Typed, NEW c \in Captures, NEW s \in Stages, NEW i \in Identities,
         capture' = [capture EXCEPT ![c].stage = s, ![c].read = i]
  PROVE  Turned(c, {"stage", "read"}) /\ capture'[c].stage = s /\ capture'[c].read = i
  <1> DEFINE r == [capture[c] EXCEPT !.stage = s, !.read = i]
  <1>1. capture' = [capture EXCEPT ![c] = r]
    BY DEF Typed
  <1>2. r \in CaptureStates /\ r.stage = s /\ r.read = i
    BY DEF Typed, CaptureStates
  <1>3. Alike(r, capture[c], {"stage", "read"})
    BY DEF Typed, CaptureStates, Alike, Fields
  <1> HIDE DEF r
  <1> QED BY <1>1, <1>2, <1>3, Replaced

LEMMA RequestTurns ==
  ASSUME Typed, NEW c \in Captures, NEW s \in Stages, NEW t \in Tabs, NEW n \in Nat,
         capture' = [capture EXCEPT ![c].stage = s, ![c].tab = t, ![c].asked = n]
  PROVE  Turned(c, {"stage", "tab", "asked"}) /\ capture'[c].stage = s /\ capture'[c].tab = t /\ capture'[c].asked = n
  <1> DEFINE r == [capture[c] EXCEPT !.stage = s, !.tab = t, !.asked = n]
  <1>1. capture' = [capture EXCEPT ![c] = r]
    BY DEF Typed
  <1>2. r \in CaptureStates /\ r.stage = s /\ r.tab = t /\ r.asked = n
    BY DEF Typed, CaptureStates
  <1>3. Alike(r, capture[c], {"stage", "tab", "asked"})
    BY DEF Typed, CaptureStates, Alike, Fields
  <1> HIDE DEF r
  <1> QED BY <1>1, <1>2, <1>3, Replaced

LEMMA SlotTurns ==
  ASSUME Typed, NEW c \in Captures, NEW s \in Stages, NEW n \in Nat,
         capture' = [capture EXCEPT ![c].stage = s, ![c].lineage = n]
  PROVE  Turned(c, {"stage", "lineage"}) /\ capture'[c].stage = s /\ capture'[c].lineage = n
  <1> DEFINE r == [capture[c] EXCEPT !.stage = s, !.lineage = n]
  <1>1. capture' = [capture EXCEPT ![c] = r]
    BY DEF Typed
  <1>2. r \in CaptureStates /\ r.stage = s /\ r.lineage = n
    BY DEF Typed, CaptureStates
  <1>3. Alike(r, capture[c], {"stage", "lineage"})
    BY DEF Typed, CaptureStates, Alike, Fields
  <1> HIDE DEF r
  <1> QED BY <1>1, <1>2, <1>3, Replaced

LEMMA FirstReadTurns ==
  ASSUME Typed, NEW c \in Captures, NEW s \in Stages, NEW i \in Identities, NEW j \in Identities,
         capture' = [capture EXCEPT ![c].stage = s, ![c].before = i, ![c].read = j]
  PROVE  Turned(c, {"stage", "before", "read"}) /\ capture'[c].stage = s /\ capture'[c].before = i /\ capture'[c].read = j
  <1> DEFINE r == [capture[c] EXCEPT !.stage = s, !.before = i, !.read = j]
  <1>1. capture' = [capture EXCEPT ![c] = r]
    BY DEF Typed
  <1>2. r \in CaptureStates /\ r.stage = s /\ r.before = i /\ r.read = j
    BY DEF Typed, CaptureStates
  <1>3. Alike(r, capture[c], {"stage", "before", "read"})
    BY DEF Typed, CaptureStates, Alike, Fields
  <1> HIDE DEF r
  <1> QED BY <1>1, <1>2, <1>3, Replaced

LEMMA AnswerTurns ==
  ASSUME Typed, NEW c \in Captures, NEW i \in Identities,
         capture' = [capture EXCEPT ![c].read = i]
  PROVE  Turned(c, {"read"}) /\ capture'[c].read = i
  <1> DEFINE r == [capture[c] EXCEPT !.read = i]
  <1>1. capture' = [capture EXCEPT ![c] = r]
    BY DEF Typed
  <1>2. r \in CaptureStates /\ r.read = i
    BY DEF Typed, CaptureStates
  <1>3. Alike(r, capture[c], {"read"})
    BY DEF Typed, CaptureStates, Alike, Fields
  <1> HIDE DEF r
  <1> QED BY <1>1, <1>2, <1>3, Replaced

LEMMA ExpiryTurns ==
  ASSUME Typed, NEW c \in Captures, NEW b \in BOOLEAN,
         capture' = [capture EXCEPT ![c].expired = b]
  PROVE  Turned(c, {"expired"}) /\ capture'[c].expired = b
  <1> DEFINE r == [capture[c] EXCEPT !.expired = b]
  <1>1. capture' = [capture EXCEPT ![c] = r]
    BY DEF Typed
  <1>2. r \in CaptureStates /\ r.expired = b
    BY DEF Typed, CaptureStates
  <1>3. Alike(r, capture[c], {"expired"})
    BY DEF Typed, CaptureStates, Alike, Fields
  <1> HIDE DEF r
  <1> QED BY <1>1, <1>2, <1>3, Replaced

LEMMA RenderTurns ==
  ASSUME Typed, NEW c \in Captures, NEW i \in Identities, NEW b \in BOOLEAN,
         capture' = [capture EXCEPT ![c].picture = i, ![c].clean = b]
  PROVE  Turned(c, {"picture", "clean"}) /\ capture'[c].picture = i /\ capture'[c].clean = b
  <1> DEFINE r == [capture[c] EXCEPT !.picture = i, !.clean = b]
  <1>1. capture' = [capture EXCEPT ![c] = r]
    BY DEF Typed
  <1>2. r \in CaptureStates /\ r.picture = i /\ r.clean = b
    BY DEF Typed, CaptureStates
  <1>3. Alike(r, capture[c], {"picture", "clean"})
    BY DEF Typed, CaptureStates, Alike, Fields
  <1> HIDE DEF r
  <1> QED BY <1>1, <1>2, <1>3, Replaced

LEMMA KeptTurns ==
  ASSUME Typed, NEW c \in Captures, NEW s \in Stages, NEW n \in Nat,
         NEW a \in {"none", "ok", "failed", "denied"},
         capture' = [capture EXCEPT ![c].stage = s, ![c].stamp = n, ![c].answer = a]
  PROVE  Turned(c, {"stage", "stamp", "answer"}) /\ capture'[c].stage = s /\ capture'[c].stamp = n /\ capture'[c].answer = a
  <1> DEFINE r == [capture[c] EXCEPT !.stage = s, !.stamp = n, !.answer = a]
  <1>1. capture' = [capture EXCEPT ![c] = r]
    BY DEF Typed
  <1>2. r \in CaptureStates /\ r.stage = s /\ r.stamp = n /\ r.answer = a
    BY DEF Typed, CaptureStates
  <1>3. Alike(r, capture[c], {"stage", "stamp", "answer"})
    BY DEF Typed, CaptureStates, Alike, Fields
  <1> HIDE DEF r
  <1> QED BY <1>1, <1>2, <1>3, Replaced

LEMMA AcceptTurns ==
  ASSUME Typed, NEW c \in Captures, NEW s \in Stages, NEW i \in Identities, NEW j \in Identities,
         capture' = [capture EXCEPT ![c].stage = s, ![c].after = i, ![c].read = j]
  PROVE  Turned(c, {"stage", "after", "read"}) /\ capture'[c].stage = s /\ capture'[c].after = i /\ capture'[c].read = j
  <1> DEFINE r == [capture[c] EXCEPT !.stage = s, !.after = i, !.read = j]
  <1>1. capture' = [capture EXCEPT ![c] = r]
    BY DEF Typed
  <1>2. r \in CaptureStates /\ r.stage = s /\ r.after = i /\ r.read = j
    BY DEF Typed, CaptureStates
  <1>3. Alike(r, capture[c], {"stage", "after", "read"})
    BY DEF Typed, CaptureStates, Alike, Fields
  <1> HIDE DEF r
  <1> QED BY <1>1, <1>2, <1>3, Replaced

LEMMA LateTurns ==
  ASSUME Typed, NEW c \in Captures, NEW s \in Stages, NEW i \in Identities, NEW b \in BOOLEAN,
         NEW a \in {"none", "ok", "failed", "denied"},
         capture' = [capture EXCEPT ![c].stage = s, ![c].picture = i, ![c].clean = b, ![c].answer = a]
  PROVE  /\ Turned(c, {"stage", "picture", "clean", "answer"})
         /\ capture'[c].stage = s /\ capture'[c].picture = i /\ capture'[c].answer = a
  <1> DEFINE r == [capture[c] EXCEPT !.stage = s, !.picture = i, !.clean = b, !.answer = a]
  <1>1. capture' = [capture EXCEPT ![c] = r]
    BY DEF Typed
  <1>2. r \in CaptureStates /\ r.stage = s /\ r.picture = i /\ r.answer = a
    BY DEF Typed, CaptureStates
  <1>3. Alike(r, capture[c], {"stage", "picture", "clean", "answer"})
    BY DEF Typed, CaptureStates, Alike, Fields
  <1> HIDE DEF r
  <1>4. Turned(c, {"stage", "picture", "clean", "answer"}) /\ capture'[c] = r
    BY <1>1, <1>2, <1>3, Replaced
  <1> QED BY <1>2, <1>4

\* A capture that is over keeps its picture or is blank but for its tab and token.
OverAs(q, r, a) ==
    /\ q.stage = "done" /\ q.answer = a /\ q.tab = r.tab /\ q.expired = r.expired
    /\ r.stamp # 0 => Alike(q, r, {"stage", "answer"})
    /\ r.stamp = 0 => /\ q.asked = 0 /\ q.lineage = 0 /\ q.stamp = 0
                      /\ q.before = NoIdentity /\ q.read = NoIdentity /\ q.picture = NoIdentity

LEMMA OverKeeps ==
  ASSUME Typed, NEW c \in Captures, NEW a
  PROVE  OverAs(Over(c, a), capture[c], a)
  <1>1. CASE capture[c].stamp # 0
    BY <1>1 DEF Over, OverAs, Alike, Fields, Typed, CaptureStates
  <1>2. CASE capture[c].stamp = 0
    BY <1>2 DEF Over, OverAs, Blank, Typed, CaptureStates
  <1> QED BY <1>1, <1>2

LEMMA OverTurns ==
  ASSUME Typed, NEW c \in Captures, NEW a \in {"none", "ok", "failed", "denied"},
         capture' = [capture EXCEPT ![c] = Over(c, a)]
  PROVE  Turned(c, Fields) /\ OverAs(capture'[c], capture[c], a)
  <1>1. Over(c, a) \in CaptureStates
    BY OverTyped
  <1>2. OverAs(Over(c, a), capture[c], a)
    BY OverKeeps
  <1>3. Alike(Over(c, a), capture[c], Fields)
    BY DEF Alike
  <1> QED BY <1>1, <1>2, <1>3, Replaced

\* A capture that fails goes the same way, but for its slot, its release and the binding
\* its answer is given under.
LEMMA FailTurns ==
  ASSUME Typed, NEW c \in Captures, Fails(c)
  PROVE  /\ Turned(c, Fields) /\ capture'[c].stage = "releasing" /\ capture'[c].answer = "failed"
         /\ capture'[c].tab = capture[c].tab /\ capture'[c].expired = capture[c].expired
         /\ capture'[c].asked = capture[c].asked
         /\ \/ Alike(capture'[c], capture[c], {"stage", "answer"})
            \/ /\ capture'[c].lineage = 0 /\ capture'[c].stamp = 0 /\ capture'[c].before = NoIdentity
               /\ capture'[c].read = NoIdentity /\ capture'[c].picture = NoIdentity
  <1> DEFINE o == Over(c, "failed")
             r == [o EXCEPT !.stage = "releasing", !.asked = capture[c].asked]
  <1>1. o \in CaptureStates /\ OverAs(o, capture[c], "failed")
    BY OverTyped, OverKeeps
  <1>2. capture' = [capture EXCEPT ![c] = r]
    BY DEF Fails
  <1> HIDE DEF o
  <1>3. /\ r \in CaptureStates /\ r.stage = "releasing" /\ r.asked = capture[c].asked
        /\ Alike(r, o, {"stage", "asked"})
    BY <1>1 DEF Typed, CaptureStates, Stages, Alike, Fields
  <1> HIDE DEF r
  <1>4. Turned(c, Fields) /\ capture'[c] = r
    BY <1>2, <1>3, Replaced DEF Alike
  <1>5. /\ r.answer = "failed" /\ r.tab = capture[c].tab /\ r.expired = capture[c].expired
        /\ \/ Alike(r, capture[c], {"stage", "answer"})
           \/ /\ r.lineage = 0 /\ r.stamp = 0 /\ r.before = NoIdentity
              /\ r.read = NoIdentity /\ r.picture = NoIdentity
    BY <1>1, <1>3 DEF OverAs, Alike, Fields
  <1> QED BY <1>3, <1>4, <1>5

LEMMA InitTyped == Init => Typed
  <1> SUFFICES ASSUME Init PROVE Typed
    OBVIOUS
  <1>1. capture \in [Captures -> CaptureStates]
    BY BlankTyped DEF Init
  <1>2. page \in [Tabs -> Pages]
    <2> DEFINE i == [document |-> CHOOSE d \in Documents : TRUE,
                     address |-> CHOOSE a \in Addresses : TRUE, visit |-> 1]
    <2>1. (CHOOSE d \in Documents : TRUE) \in Nat /\ (CHOOSE a \in Addresses : TRUE) \in Nat
      BY CapturesAssumption
    <2>2. i \in Identities
      BY <2>1 DEF Identities
    <2>3. page = [t \in Tabs |-> [is |-> i, tokens |-> {}, inbox |-> <<>>]]
      BY DEF Init
    <2> HIDE DEF i
    <2> QED BY <2>2, <2>3 DEF Pages
  <1> QED BY <1>1, <1>2, Numbers DEF Init, Typed

-----------------------------------------------------------------------------
(* What each action does to the record of its capture.                     *)

\* A capture leaves one of the stages S for the stage s and changes in the fields F.
Moves(c, S, s, F) ==
    Turned(c, F) /\ capture[c].stage \in S /\ capture'[c].stage = s

\* The capture is over: it had the stage S and the answer a, as far as it may be given.
Finishes(c, S, a) ==
    /\ Turned(c, Fields) /\ capture[c].stage \in S
    /\ OverAs(capture'[c], capture[c], a)

LEMMA DoesCaptureRequested ==
  ASSUME Typed, NEW c \in Captures, CaptureRequested(c)
  PROVE  /\ Moves(c, {"idle"}, "authorizing", {"stage", "tab", "asked"})
         /\ capture'[c].asked = auth.instance
  <1>1. auth.instance \in Nat /\ capture[c] \in CaptureStates /\ "authorizing" \in Stages
    BY Numbers DEF Typed, Stages
  <1>2. PICK t \in Tabs : capture' = [capture EXCEPT ![c].stage = "authorizing", ![c].tab = t, ![c].asked = auth.instance]
    BY DEF CaptureRequested
  <1>3. Turned(c, {"stage", "tab", "asked"}) /\ capture'[c].stage = "authorizing"
        /\ capture'[c].asked = auth.instance
    BY <1>1, <1>2, NoOneTyped, RequestTurns
  <1> QED BY <1>3 DEF CaptureRequested, Moves

LEMMA DoesSlotTaken ==
  ASSUME Typed, NEW c \in Captures, SlotTaken(c)
  PROVE  /\ Moves(c, {"authorizing"}, "pinging", {"stage", "lineage"})
         /\ capture'[c].lineage = auth.instance
  <1>1. auth.instance \in Nat /\ capture[c] \in CaptureStates /\ "pinging" \in Stages
    BY Numbers DEF Typed, Stages
  <1>2. capture' = [capture EXCEPT ![c].stage = "pinging", ![c].lineage = auth.instance]
    BY DEF SlotTaken
  <1>3. Turned(c, {"stage", "lineage"}) /\ capture'[c].stage = "pinging"
        /\ capture'[c].lineage = auth.instance
    BY <1>1, <1>2, NoOneTyped, SlotTurns
  <1> QED BY <1>3 DEF SlotTaken, Moves

LEMMA DoesSuppressionBegins ==
  ASSUME Typed, NEW c \in Captures, SuppressionBegins(c)
  PROVE  /\ Moves(c, {"pinging"}, "suppressing", {"stage", "before", "read"})
         /\ capture'[c].before = capture[c].read
         /\ capture'[c].read = NoIdentity
  <1>1. auth.instance \in Nat /\ capture[c] \in CaptureStates /\ "suppressing" \in Stages
    BY Numbers DEF Typed, Stages
  <1>2. capture' = [capture EXCEPT ![c].stage = "suppressing", ![c].before = capture[c].read,
                                      ![c].read = NoIdentity]
    BY DEF SuppressionBegins
  <1>3. Turned(c, {"stage", "before", "read"}) /\ capture'[c].stage = "suppressing"
        /\ capture'[c].before = capture[c].read /\ capture'[c].read = NoIdentity
    BY <1>1, <1>2, NoOneTyped, FirstReadTurns DEF CaptureStates
  <1> QED BY <1>3 DEF SuppressionBegins, Moves

LEMMA DoesReauthorized ==
  ASSUME Typed, NEW c \in Captures, Reauthorized(c)
  PROVE  /\ Moves(c, {"reauthorizing"}, "repinging", {"stage"})
  <1>1. auth.instance \in Nat /\ capture[c] \in CaptureStates /\ "repinging" \in Stages
    BY Numbers DEF Typed, Stages
  <1> QED BY <1>1, StageTurns DEF Reauthorized, Moves, CaptureStates, Step

LEMMA DoesCaptureDispatched ==
  ASSUME Typed, NEW c \in Captures, CaptureDispatched(c)
  PROVE  /\ Moves(c, {"repinging"}, "rendering", {"stage", "read"})
         /\ capture'[c].read = NoIdentity
  <1>1. auth.instance \in Nat /\ capture[c] \in CaptureStates /\ "rendering" \in Stages
    BY Numbers DEF Typed, Stages
  <1> QED BY <1>1, ReadTurns, NoOneTyped DEF CaptureDispatched, Moves, CaptureStates

LEMMA DoesPictureArrives ==
  ASSUME Typed, NEW c \in Captures, PictureArrives(c)
  PROVE  /\ Moves(c, {"rendering"}, "proving", {"stage"})
         /\ capture[c].picture # NoIdentity
  <1>1. auth.instance \in Nat /\ capture[c] \in CaptureStates /\ "proving" \in Stages
    BY Numbers DEF Typed, Stages
  <1> QED BY <1>1, StageTurns DEF PictureArrives, Moves, CaptureStates, Step

LEMMA DoesAuthorityProved ==
  ASSUME Typed, NEW c \in Captures, AuthorityProved(c)
  PROVE  /\ Moves(c, {"proving"}, "comparing", {"stage"})
  <1>1. auth.instance \in Nat /\ capture[c] \in CaptureStates /\ "comparing" \in Stages
    BY Numbers DEF Typed, Stages
  <1> QED BY <1>1, StageTurns DEF AuthorityProved, Moves, CaptureStates, Step

LEMMA DoesPictureAccepted ==
  ASSUME Typed, NEW c \in Captures, PictureAccepted(c)
  PROVE  /\ Moves(c, {"comparing"}, "hashing", {"stage", "after", "read"})
         /\ SamePage(capture[c].read, capture[c].before)
         /\ capture[c].read # NoIdentity
         /\ capture'[c].after = capture[c].read
         /\ capture'[c].read = NoIdentity
  <1>1. auth.instance \in Nat /\ capture[c] \in CaptureStates /\ "hashing" \in Stages
    BY Numbers DEF Typed, Stages
  <1>2. capture' = [capture EXCEPT ![c].stage = "hashing", ![c].after = capture[c].read,
                                   ![c].read = NoIdentity]
    BY DEF PictureAccepted
  <1>3. Turned(c, {"stage", "after", "read"}) /\ capture'[c].stage = "hashing"
        /\ capture'[c].after = capture[c].read /\ capture'[c].read = NoIdentity
    BY <1>1, <1>2, NoOneTyped, AcceptTurns DEF CaptureStates
  <1> QED BY <1>3 DEF PictureAccepted, Moves, SameDocument

LEMMA DoesPictureKept ==
  ASSUME Typed, NEW c \in Captures, PictureKept(c)
  PROVE  /\ Moves(c, {"hashing"}, "releasing", {"stage", "stamp", "answer"})
         /\ capture'[c].stamp = auth.instance
         /\ capture'[c].answer = "ok"
         /\ auth.live
  <1>1. auth.instance \in Nat /\ capture[c] \in CaptureStates /\ "releasing" \in Stages
    BY Numbers DEF Typed, Stages
  <1> QED BY <1>1, KeptTurns DEF PictureKept, Moves, CaptureStates

LEMMA DoesHardExpiry ==
  ASSUME Typed, NEW c \in Captures, HardExpiry(c)
  PROVE  /\ Moves(c, {"late"}, "abandoned", {"stage"})
  <1>1. auth.instance \in Nat /\ capture[c] \in CaptureStates /\ "abandoned" \in Stages
    BY Numbers DEF Typed, Stages
  <1> QED BY <1>1, StageTurns DEF HardExpiry, Moves, CaptureStates, Step

LEMMA DoesCaptureFails ==
  ASSUME Typed, NEW c \in Captures, CaptureFails(c) \/ BrowserFails(c)
  PROVE  /\ Moves(c, {"reauthorizing", "repinging", "rendering", "proving", "comparing", "hashing"},
                  "releasing", Fields)
         /\ capture'[c].answer = "failed"
         /\ capture'[c].tab = capture[c].tab /\ capture'[c].expired = capture[c].expired
         /\ capture'[c].asked = capture[c].asked
         /\ \/ Alike(capture'[c], capture[c], {"stage", "answer"})
            \/ /\ capture'[c].lineage = 0 /\ capture'[c].stamp = 0 /\ capture'[c].before = NoIdentity
               /\ capture'[c].read = NoIdentity /\ capture'[c].picture = NoIdentity
  <1>1. Fails(c)
    BY DEF CaptureFails, BrowserFails
  <1> QED BY <1>1, FailTurns DEF CaptureFails, BrowserFails, Moves

LEMMA DoesCaptureTimesOut ==
  ASSUME Typed, NEW c \in Captures, CaptureTimesOut(c)
  PROVE  /\ Moves(c, {"rendering"}, "late", {"stage", "picture", "clean", "answer"})
         /\ capture'[c].answer # "ok" /\ capture'[c].picture = NoIdentity
  <1>1. auth.instance \in Nat /\ capture[c] \in CaptureStates /\ "late" \in Stages
    BY Numbers DEF Typed, Stages
  <1>2. Delivered(c, "failed") \in {"failed", "denied"}
    BY DEF Delivered
  <1>3. capture' = [capture EXCEPT ![c].stage = "late", ![c].picture = NoIdentity,
                                   ![c].clean = FALSE, ![c].answer = Delivered(c, "failed")]
    BY DEF CaptureTimesOut
  <1>4. /\ Turned(c, {"stage", "picture", "clean", "answer"})
        /\ capture'[c].stage = "late" /\ capture'[c].picture = NoIdentity
        /\ capture'[c].answer = Delivered(c, "failed")
    BY <1>1, <1>2, <1>3, LateTurns, NoOneTyped
  <1> QED BY <1>2, <1>4 DEF CaptureTimesOut, Moves

LEMMA DoesPageAnswersPing ==
  ASSUME Typed, NEW c \in Captures, PageAnswersPing(c)
  PROVE  /\ Turned(c, {"read"}) /\ capture'[c].read = page[capture[c].tab].is
         /\ capture[c].stage \in {"pinging", "repinging", "comparing"}
  <1>1. page[capture[c].tab].is \in Identities
    BY DEF Typed, CaptureStates, Pages
  <1> QED BY <1>1, AnswerTurns DEF PageAnswersPing

LEMMA DoesTokenExpires ==
  ASSUME Typed, NEW c \in Captures, TokenExpires(c)
  PROVE  Turned(c, {"expired"}) /\ capture'[c].expired /\ capture[c].stage \notin Early \cup {"done", "abandoned"}
  BY ExpiryTurns DEF TokenExpires, Early

LEMMA DoesBrowserRenders ==
  ASSUME Typed, NEW c \in Captures, BrowserRenders(c)
  PROVE  /\ Turned(c, {"picture", "clean"})
         /\ capture[c].picture = NoIdentity /\ capture'[c].picture = page[capture[c].tab].is
         /\ capture'[c].clean <=> Shown(capture[c].tab) # {}
         /\ capture[c].stage = "rendering"
  <1>1. page[capture[c].tab].is \in Identities
    BY DEF Typed, CaptureStates, Pages
  <1> QED BY <1>1, RenderTurns DEF BrowserRenders

LEMMA DoesEnd ==
  ASSUME Typed, NEW c \in Captures
  PROVE  /\ CaptureRefused(c) => Finishes(c, {"authorizing"}, Delivered(c, "failed"))
         /\ PageUnavailable(c) => Finishes(c, {"pinging"}, Delivered(c, "failed"))
         /\ SuppressionFails(c) => Finishes(c, {"suppressing", "confirming"}, Delivered(c, "failed"))
         /\ CaptureEnds(c) => Finishes(c, {"releasing"}, Delivered(c, capture[c].answer))
         /\ LateCaptureSettles(c) => Finishes(c, {"late", "abandoned"}, capture[c].answer)
  <1>1. capture[c].answer \in {"none", "ok", "failed", "denied"}
    BY DEF Typed, CaptureStates
  <1>2. \A a \in {"none", "ok", "failed", "denied"} : Delivered(c, a) \in {"none", "ok", "failed", "denied"}
    BY DEF Delivered
  <1>3. \A a \in {"none", "ok", "failed", "denied"} :
          Ended(c, a) => Turned(c, Fields) /\ OverAs(capture'[c], capture[c], Delivered(c, a))
    BY <1>2, OverTurns DEF Ended
  <1>4. LateCaptureSettles(c) => Finishes(c, {"late", "abandoned"}, capture[c].answer)
    BY <1>1, OverTurns DEF LateCaptureSettles, Finishes
  <1> QED BY <1>1, <1>3, <1>4 DEF CaptureRefused, PageUnavailable, SuppressionFails, CaptureEnds, Finishes

\* The page turns a capture only from stage to stage.
LEMMA DoesPage ==
  ASSUME Typed, NEW t \in Tabs, PageSuppresses(t) \/ PageConfirms(t)
  PROVE  LET c == Head(page[t].inbox).of IN
         /\ c \in Captures
         /\ \/ capture' = capture
            \/ PageSuppresses(t) /\ Moves(c, {"suppressing"}, "confirming", {"stage"})
            \/ PageConfirms(t) /\ Token(c, t) \in LiveTokens(t) /\ Moves(c, {"confirming"}, "reauthorizing", {"stage"})
  <1> DEFINE c == Head(page[t].inbox).of
  <1>1. c \in Captures
    <2>1. page[t].inbox \in Seq(Messages) /\ page[t].inbox # <<>>
      BY DEF Typed, Pages, PageSuppresses, PageConfirms
    <2>2. Head(page[t].inbox) \in Messages
      BY <2>1, HeadTailProperties
    <2> QED BY <2>2 DEF Messages
  <1>2. [capture EXCEPT ![c].stage = @] = capture
    <2>1. [capture EXCEPT ![c].stage = @] = [capture EXCEPT ![c] = [capture[c] EXCEPT !.stage = capture[c].stage]]
      OBVIOUS
    <2>2. [capture[c] EXCEPT !.stage = capture[c].stage] = capture[c]
      BY <1>1 DEF Typed, CaptureStates
    <2> QED BY <1>1, <2>1, <2>2 DEF Typed
  <1>3. CASE PageSuppresses(t)
    <2>1. CASE capture[c].stage = "suppressing"
      <3>1. capture' = [capture EXCEPT ![c].stage = "confirming"]
        BY <1>3, <2>1 DEF PageSuppresses
      <3> QED BY <1>1, <1>3, <2>1, <3>1, StageTurns DEF Moves, Stages
    <2>2. CASE capture[c].stage # "suppressing"
      BY <1>1, <1>2, <1>3, <2>2 DEF PageSuppresses
    <2> QED BY <2>1, <2>2
  <1>4. CASE PageConfirms(t)
    <2>1. CASE Token(c, t) \in LiveTokens(t) /\ capture[c].stage = "confirming"
      <3>1. capture' = [capture EXCEPT ![c].stage = "reauthorizing"]
        BY <1>4, <2>1 DEF PageConfirms
      <3> QED BY <1>1, <1>4, <2>1, <3>1, StageTurns DEF Moves, Stages
    <2>2. CASE ~(Token(c, t) \in LiveTokens(t) /\ capture[c].stage = "confirming")
      BY <1>1, <1>2, <1>4, <2>2 DEF PageConfirms
    <2> QED BY <2>1, <2>2
  <1> QED BY <1>3, <1>4

-----------------------------------------------------------------------------
(* Types are kept, and no visit comes back.                                *)

\* What the tabs show: only the page itself changes it.
Forward == \A t \in Tabs : Upto(page[t].is, page'[t].is)

Standing == \A t \in Tabs : page'[t].is = page[t].is /\ page'[t].tokens = page[t].tokens

LEMMA InboxGrows ==
  ASSUME Typed, NEW t \in Tabs, NEW m \in Messages, page' = [page EXCEPT ![t].inbox = Append(@, m)]
  PROVE  page' \in [Tabs -> Pages] /\ Standing
  <1> DEFINE p == [page[t] EXCEPT !.inbox = Append(@, m)]
  <1>1. page[t] \in Pages /\ Append(page[t].inbox, m) \in Seq(Messages)
    BY AppendProperties DEF Typed, Pages
  <1>2. page' = [page EXCEPT ![t] = p]
    OBVIOUS
  <1>3. p \in Pages /\ p.is = page[t].is /\ p.tokens = page[t].tokens
    BY <1>1 DEF Pages
  <1> HIDE DEF p
  <1> QED BY <1>2, <1>3 DEF Typed, Standing

LEMMA SentStands ==
  ASSUME Typed, NEW c \in Captures, NEW k \in {"suppress", "confirm", "release"}, page' = Sent(c, k)
  PROVE  page' \in [Tabs -> Pages] /\ Standing
  <1>1. capture[c].tab \in Tabs /\ [kind |-> k, of |-> c] \in Messages
    BY DEF Typed, CaptureStates, Messages
  <1>2. page' = page \/ page' = [page EXCEPT ![capture[c].tab].inbox = Append(@, [kind |-> k, of |-> c])]
    BY DEF Sent
  <1>3. CASE page' = page
    BY <1>3 DEF Typed, Standing
  <1> QED BY <1>1, <1>2, <1>3, InboxGrows

LEMMA SuppressionStands ==
  ASSUME Typed, NEW c \in Captures, SuppressionBegins(c)
  PROVE  page' \in [Tabs -> Pages] /\ Standing
  <1>1. capture[c].tab \in Tabs /\ [kind |-> "suppress", of |-> c] \in Messages
    BY DEF Typed, CaptureStates, Messages
  <1>2. page' = page \/ page' = [page EXCEPT ![capture[c].tab].inbox = Append(@, [kind |-> "suppress", of |-> c])]
    BY DEF SuppressionBegins
  <1>3. CASE page' = page
    BY <1>3 DEF Typed, Standing
  <1> QED BY <1>1, <1>2, <1>3, InboxGrows

LEMMA StandsForward == Typed /\ Standing => Forward
  BY DEF Standing, Forward, Upto, Typed, Pages, Identities

\* The page of t handles the first message: it stays what it is, and so do the others.
LEMMA PageActs ==
  ASSUME Typed, NEW t \in Tabs, PageSuppresses(t) \/ PageConfirms(t) \/ PageReleases(t)
  PROVE  /\ page' \in [Tabs -> Pages] /\ \A u \in Tabs : page'[u].is = page[u].is
         /\ \A u \in Tabs \ {t} : page'[u] = page[u]
         /\ page[t].inbox \in Seq(Messages) /\ page[t].inbox # <<>>
         /\ Head(page[t].inbox) \in Messages
         /\ PageSuppresses(t) => page'[t].tokens = LiveTokens(t) \cup {Token(Head(page[t].inbox).of, t)}
         /\ PageConfirms(t) => page'[t].tokens = LiveTokens(t)
         /\ PageReleases(t) => page'[t].tokens = LiveTokens(t) \ {Token(Head(page[t].inbox).of, t)}
  <1>1. page[t] \in Pages /\ page[t].inbox # <<>> /\ page[t].inbox \in Seq(Messages)
    BY DEF Typed, Pages, PageSuppresses, PageConfirms, PageReleases
  <1>2. Head(page[t].inbox) \in Messages /\ Tail(page[t].inbox) \in Seq(Messages)
    BY <1>1, HeadTailProperties
  <1> DEFINE c == Head(page[t].inbox).of
             asks == IF capture[c].stage = "suppressing"
                     THEN <<[kind |-> "confirm", of |-> c]>> ELSE <<>>
  <1>3. c \in Captures /\ LiveTokens(t) \subseteq Tokens /\ Token(c, t) \in Tokens
    BY <1>1, <1>2 DEF Messages, LiveTokens, Pages, Token, Tokens, Identities
  <1>4. asks \in Seq(Messages)
    <2>1. [kind |-> "confirm", of |-> c] \in Messages
      BY <1>3 DEF Messages
    <2> QED BY <2>1
  <1>5. Tail(page[t].inbox) \o asks \in Seq(Messages)
    BY <1>2, <1>4, ConcatProperties
  <1>6. PICK tokens \in SUBSET Tokens, inbox \in Seq(Messages) :
          /\ page' = [page EXCEPT ![t].tokens = tokens, ![t].inbox = inbox]
          /\ PageSuppresses(t) => tokens = LiveTokens(t) \cup {Token(c, t)}
          /\ PageConfirms(t) => tokens = LiveTokens(t)
          /\ PageReleases(t) => tokens = LiveTokens(t) \ {Token(c, t)}
    <2>1. CASE PageSuppresses(t)
      <3>1. page' = [page EXCEPT ![t].tokens = LiveTokens(t) \cup {Token(c, t)},
                                 ![t].inbox = Tail(page[t].inbox) \o asks]
        BY <2>1, <1>1 DEF PageSuppresses
      <3>2. ~PageConfirms(t) /\ ~PageReleases(t)
        BY <2>1 DEF PageSuppresses, PageConfirms, PageReleases
      <3> HIDE DEF asks
      <3> QED BY <1>3, <1>5, <3>1, <3>2
    <2>2. CASE PageConfirms(t)
      <3>1. page' = [page EXCEPT ![t].tokens = LiveTokens(t), ![t].inbox = Tail(page[t].inbox)]
        BY <2>2, <1>1 DEF PageConfirms
      <3>2. ~PageSuppresses(t) /\ ~PageReleases(t)
        BY <2>2 DEF PageSuppresses, PageConfirms, PageReleases
      <3> QED BY <1>2, <1>3, <3>1, <3>2
    <2>3. CASE PageReleases(t)
      <3>1. page' = [page EXCEPT ![t].tokens = LiveTokens(t) \ {Token(c, t)}, ![t].inbox = Tail(page[t].inbox)]
        BY <2>3, <1>1 DEF PageReleases
      <3>2. ~PageConfirms(t) /\ ~PageSuppresses(t)
        BY <2>3 DEF PageSuppresses, PageConfirms, PageReleases
      <3> QED BY <1>2, <1>3, <3>1, <3>2
    <2> QED BY <2>1, <2>2, <2>3
  <1>7. /\ page' \in [Tabs -> Pages] /\ \A u \in Tabs : page'[u].is = page[u].is
        /\ \A u \in Tabs \ {t} : page'[u] = page[u]
        /\ page'[t].tokens = tokens
    BY <1>1, <1>6 DEF Typed, Pages
  <1> QED BY <1>1, <1>2, <1>6, <1>7

\* Only the page of t changes, to p.
LEMMA OnePage ==
  ASSUME Typed, NEW t \in Tabs, NEW p \in Pages, Upto(page[t].is, p.is), page' = [page EXCEPT ![t] = p]
  PROVE  /\ page' \in [Tabs -> Pages] /\ Forward /\ page'[t] = p
         /\ \A u \in Tabs \ {t} : page'[u] = page[u]
  <1>1. \A u \in Tabs : page[u].is.visit \in Nat
    BY DEF Typed, Pages, Identities
  <1>2. page' \in [Tabs -> Pages] /\ page'[t] = p /\ \A u \in Tabs \ {t} : page'[u] = page[u]
    BY DEF Typed
  <1> QED BY <1>1, <1>2 DEF Forward, Upto

\* A new visit is after the one before it.
LEMMA Visited ==
  ASSUME Typed, NEW t \in Tabs, NEW d \in Nat, NEW a \in Nat
  PROVE  /\ Visits(t, d, a) \in Identities /\ Visits(t, d, a).document = d
         /\ Upto(page[t].is, Visits(t, d, a))
  <1>1. page[t].is.visit \in Nat
    BY DEF Typed, Pages, Identities
  <1> QED BY <1>1 DEF Visits, Identities, Upto

LEMMA PageLeaves ==
  ASSUME Typed, NEW t \in Tabs, PageNavigates(t)
  PROVE  /\ page' \in [Tabs -> Pages] /\ Forward
         /\ \A u \in Tabs \ {t} : page'[u] = page[u]
         /\ page'[t].tokens = page[t].tokens /\ page'[t].inbox = <<>>
  <1>1. page[t] \in Pages /\ page[t].is.address \in Nat
    BY DEF Typed, Pages, Identities
  <1>2. PICK d \in Nat : page' = [page EXCEPT ![t].is = Visits(t, d, @.address), ![t].inbox = <<>>]
    BY CapturesAssumption DEF PageNavigates
  <1> DEFINE i == Visits(t, d, page[t].is.address)
             p == [page[t] EXCEPT !.is = i, !.inbox = <<>>]
  <1>3. i \in Identities /\ Upto(page[t].is, i)
    BY <1>1, Visited
  <1>4. page' = [page EXCEPT ![t] = p]
    BY <1>2
  <1> HIDE DEF i
  <1>5. p \in Pages /\ p.is = i /\ p.tokens = page[t].tokens /\ p.inbox = <<>>
    <2>1. <<>> \in Seq(Messages)
      OBVIOUS
    <2> QED BY <1>1, <1>3, <2>1 DEF Pages
  <1> HIDE DEF p
  <1> QED BY <1>3, <1>4, <1>5, OnePage

LEMMA PageStays ==
  ASSUME Typed, NEW t \in Tabs, AddressChanges(t) \/ TokenTimerFires(t)
  PROVE  /\ page' \in [Tabs -> Pages] /\ Forward
         /\ \A u \in Tabs \ {t} : page'[u] = page[u]
         /\ page'[t].inbox = page[t].inbox /\ LiveTokens(t) \subseteq page'[t].tokens
         /\ page'[t].is.document = page[t].is.document
  <1>1. page[t] \in Pages /\ page[t].is \in Identities
    BY DEF Typed, Pages
  <1>2. PICK p \in Pages :
          /\ page' = [page EXCEPT ![t] = p] /\ Upto(page[t].is, p.is)
          /\ p.is.document = page[t].is.document
          /\ p.inbox = page[t].inbox /\ LiveTokens(t) \subseteq p.tokens
    <2>1. CASE AddressChanges(t)
      <3>1. PICK a \in Nat : page' = [page EXCEPT ![t].is = Visits(t, @.document, a)]
        BY <2>1, CapturesAssumption DEF AddressChanges
      <3> DEFINE i == Visits(t, page[t].is.document, a)
                 p == [page[t] EXCEPT !.is = i]
      <3>2. i \in Identities /\ i.document = page[t].is.document /\ Upto(page[t].is, i)
        BY <1>1, Visited DEF Identities
      <3>3. page' = [page EXCEPT ![t] = p]
        BY <3>1
      <3> HIDE DEF i
      <3>4. p \in Pages /\ p.is = i /\ p.inbox = page[t].inbox /\ p.tokens = page[t].tokens
        BY <1>1, <3>2 DEF Pages
      <3> HIDE DEF p
      <3> QED BY <3>2, <3>3, <3>4 DEF LiveTokens
    <2>2. CASE TokenTimerFires(t)
      <3> DEFINE p == [page[t] EXCEPT !.tokens = LiveTokens(t)]
      <3>1. page' = [page EXCEPT ![t] = p] /\ LiveTokens(t) \in SUBSET Tokens
        BY <1>1, <2>2 DEF TokenTimerFires, LiveTokens, Pages
      <3>2. p \in Pages /\ p.is = page[t].is /\ p.inbox = page[t].inbox /\ p.tokens = LiveTokens(t)
        BY <1>1, <3>1 DEF Pages
      <3> HIDE DEF p
      <3>3. Upto(page[t].is, p.is)
        BY <1>1, <3>2 DEF Upto, Identities
      <3> QED BY <3>1, <3>2, <3>3
    <2> QED BY <2>1, <2>2
  <1> QED BY <1>2, OnePage

CaptureActs(c) ==
    \/ CaptureRequested(c) \/ CaptureProceeds(c) \/ PageAnswersPing(c) \/ PageUnavailable(c)
    \/ TokenExpires(c) \/ BrowserRenders(c) \/ BrowserFails(c) \/ LateCaptureSettles(c)
    \/ HardExpiry(c)

UserActs == UserBinds \/ AuthorityEnds \/ AccessWithdrawn \/ AccessConfirmed

LEMMA UserFrame ==
  ASSUME Typed, UserActs
  PROVE  /\ auth' \in [instance : 0..MaxBindings, live : BOOLEAN, covers : SUBSET Tabs]
         /\ auth.instance <= auth'.instance
         /\ (auth.live => auth.instance # 0) => (auth'.live => auth'.instance # 0)
         /\ UNCHANGED <<page, slot, capture>>
         /\ artifacts' \in {artifacts, <<>>}
  <1>1. auth.instance \in 0..MaxBindings /\ MaxBindings \in Nat
    BY Numbers DEF Typed
  <1>2. CASE UserBinds
    <2>1. PICK covers \in SUBSET Tabs :
            auth' = [instance |-> auth.instance + 1, live |-> TRUE, covers |-> covers]
      BY <1>2 DEF UserBinds
    <2>2. auth.instance < MaxBindings /\ artifacts' = <<>> /\ UNCHANGED <<page, slot, capture>>
      BY <1>2 DEF UserBinds
    <2>3. auth'.instance = auth.instance + 1 /\ auth' \in [instance : 0..MaxBindings, live : BOOLEAN, covers : SUBSET Tabs]
      BY <1>1, <2>1, <2>2
    <2> QED BY <1>1, <2>2, <2>3
  <1>3. CASE AuthorityEnds
    <2>1. auth' = [auth EXCEPT !.live = FALSE, !.covers = {}] /\ {} \in SUBSET Tabs
      BY <1>3 DEF AuthorityEnds
    <2>2. auth'.instance = auth.instance /\ ~auth'.live
          /\ auth' \in [instance : 0..MaxBindings, live : BOOLEAN, covers : SUBSET Tabs]
      BY <2>1 DEF Typed
    <2> QED BY <1>1, <1>3, <2>2 DEF AuthorityEnds
  <1>4. CASE AccessWithdrawn \/ AccessConfirmed
    <2>1. PICK covers \in SUBSET Tabs : auth' = [auth EXCEPT !.covers = covers]
      BY <1>4 DEF AccessWithdrawn, AccessConfirmed, Typed
    <2>2. auth'.instance = auth.instance /\ auth'.live = auth.live
          /\ auth' \in [instance : 0..MaxBindings, live : BOOLEAN, covers : SUBSET Tabs]
      BY <2>1 DEF Typed
    <2> QED BY <1>1, <1>4, <2>2 DEF AccessWithdrawn, AccessConfirmed
  <1> QED BY <1>2, <1>3, <1>4 DEF UserActs

LEMMA CaptureFrame ==
  ASSUME Typed, NEW c \in Captures, CaptureActs(c)
  PROVE  /\ auth' = auth /\ page' \in [Tabs -> Pages] /\ Standing
         /\ capture' \in [Captures -> CaptureStates]
         /\ \A d \in Captures \ {c} : capture'[d] = capture[d]
  <1>1. page' = page => page' \in [Tabs -> Pages] /\ Standing
    BY DEF Typed, Standing
  <1>2. \A F : Turned(c, F) => capture' \in [Captures -> CaptureStates]
                               /\ \A d \in Captures \ {c} : capture'[d] = capture[d]
    BY DEF Turned
  <1>3. \A S, s, F : Moves(c, S, s, F) => Turned(c, F)
    BY DEF Moves
  <1>4. \A S, a : Finishes(c, S, a) => Turned(c, Fields)
    BY DEF Finishes
  <1>5. CASE CaptureRequested(c) \/ Reauthorized(c) \/ CaptureDispatched(c) \/ PictureArrives(c)
             \/ AuthorityProved(c) \/ CaptureTimesOut(c) \/ HardExpiry(c) \/ SlotTaken(c) \/ PictureAccepted(c)
    <2>1. auth' = auth /\ page' = page
      BY <1>5 DEF CaptureRequested, Reauthorized, CaptureDispatched, PictureArrives, AuthorityProved,
         CaptureTimesOut, HardExpiry, SlotTaken, PictureAccepted
    <2>2. \E F : Turned(c, F)
      BY <1>3, <1>5, DoesCaptureRequested, DoesReauthorized, DoesCaptureDispatched, DoesPictureArrives,
         DoesAuthorityProved, DoesCaptureTimesOut, DoesHardExpiry, DoesSlotTaken, DoesPictureAccepted
    <2> QED BY <1>1, <1>2, <2>1, <2>2
  <1>6. CASE PageAnswersPing(c) \/ TokenExpires(c) \/ BrowserRenders(c)
    <2>1. auth' = auth /\ page' = page
      BY <1>6 DEF PageAnswersPing, TokenExpires, BrowserRenders
    <2> QED BY <1>1, <1>2, <1>6, <2>1, DoesPageAnswersPing, DoesTokenExpires, DoesBrowserRenders
  <1>7. CASE CaptureRefused(c) \/ PageUnavailable(c)
    <2>1. auth' = auth /\ page' = page
      BY <1>7 DEF CaptureRefused, PageUnavailable
    <2> QED BY <1>1, <1>2, <1>4, <1>7, <2>1, DoesEnd
  <1>8. CASE SuppressionFails(c) \/ LateCaptureSettles(c)
    <2>1. auth' = auth /\ page' = Sent(c, "release")
      BY <1>8 DEF SuppressionFails, LateCaptureSettles
    <2> QED BY <1>2, <1>4, <1>8, <2>1, DoesEnd, SentStands
  <1>9. CASE CaptureEnds(c)
    <2>1. auth' = auth /\ page' = page
      BY <1>9 DEF CaptureEnds
    <2> QED BY <1>1, <1>2, <1>4, <1>9, <2>1, DoesEnd
  <1>10. CASE PictureKept(c) \/ CaptureFails(c) \/ BrowserFails(c)
    <2>1. auth' = auth /\ page' = Sent(c, "release")
      BY <1>10 DEF PictureKept, CaptureFails, BrowserFails, Fails
    <2> QED BY <1>2, <1>3, <1>10, <2>1, DoesPictureKept, DoesCaptureFails, SentStands
  <1>11. CASE SuppressionBegins(c)
    <2>1. auth' = auth
      BY <1>11 DEF SuppressionBegins
    <2> QED BY <1>2, <1>3, <1>11, <2>1, DoesSuppressionBegins, SuppressionStands
  <1> QED BY <1>5, <1>6, <1>7, <1>8, <1>9, <1>10, <1>11 DEF CaptureActs, CaptureProceeds

\* The slot is taken by a capture that finds it free, or given back.
LEMMA SlotFrame ==
  ASSUME Typed, NEW c \in Captures, CaptureActs(c)
  PROVE  slot' \in {slot, NoCapture, c}
  BY DEF CaptureActs, CaptureProceeds, CaptureRequested, SlotTaken, CaptureRefused, SuppressionBegins,
     SuppressionFails, Reauthorized, CaptureDispatched, PictureArrives, AuthorityProved, PictureAccepted,
     PictureKept, CaptureFails, BrowserFails, Fails, CaptureEnds, CaptureTimesOut, PageAnswersPing, PageUnavailable,
     TokenExpires, BrowserRenders, LateCaptureSettles, HardExpiry, ReleaseSlot

LEMMA TableFrame ==
  ASSUME Typed, Len(artifacts) <= MaxArtifacts, NEW c \in Captures, CaptureActs(c)
  PROVE  artifacts' \in Seq(Captures)
  <1>1. CASE SlotTaken(c)
    BY <1>1, PrunedTyped DEF SlotTaken
  <1>2. CASE PictureAccepted(c)
    BY <1>2, MakeRoomTyped DEF PictureAccepted
  <1>3. CASE PictureKept(c)
    BY <1>3, AppendProperties DEF PictureKept, Typed
  <1>4. CASE artifacts' = artifacts
    BY <1>4 DEF Typed
  <1>5. SlotTaken(c) \/ PictureAccepted(c) \/ PictureKept(c) \/ artifacts' = artifacts
    BY DEF CaptureActs, CaptureProceeds, CaptureRequested, CaptureRefused, SuppressionBegins,
     SuppressionFails, Reauthorized, CaptureDispatched, PictureArrives, AuthorityProved,
     CaptureFails, BrowserFails, Fails, CaptureEnds, CaptureTimesOut, PageAnswersPing, PageUnavailable,
     TokenExpires, BrowserRenders, LateCaptureSettles, HardExpiry
  <1> QED BY <1>1, <1>2, <1>3, <1>4, <1>5

\* A step of the page that turns no capture, or one from stage to stage.
LEMMA PageFrame ==
  ASSUME Typed, NEW t \in Tabs,
         \/ PageNavigates(t) \/ AddressChanges(t) \/ TokenTimerFires(t)
         \/ PageSuppresses(t) \/ PageConfirms(t) \/ PageReleases(t)
  PROVE  /\ UNCHANGED <<auth, slot, artifacts>> /\ page' \in [Tabs -> Pages] /\ Forward
         /\ capture' \in [Captures -> CaptureStates]
  <1>1. UNCHANGED <<auth, slot, artifacts>>
    BY DEF PageNavigates, AddressChanges, TokenTimerFires, PageSuppresses, PageConfirms, PageReleases
  <1>2. \A u \in Tabs : Upto(page[u].is, page[u].is)
    BY DEF Upto, Typed, Pages, Identities
  <1>3. page' \in [Tabs -> Pages] /\ Forward
    <2>1. CASE PageSuppresses(t) \/ PageConfirms(t) \/ PageReleases(t)
      BY <1>2, <2>1, PageActs DEF Forward
    <2> QED BY <2>1, PageLeaves, PageStays
  <1>4. capture' \in [Captures -> CaptureStates]
    <2>1. CASE PageSuppresses(t) \/ PageConfirms(t)
      BY <2>1, DoesPage DEF Moves, Turned, Typed
    <2>2. CASE capture' = capture
      BY <2>2 DEF Typed
    <2> QED BY <2>1, <2>2 DEF PageNavigates, AddressChanges, TokenTimerFires, PageReleases
  <1> QED BY <1>1, <1>3, <1>4

LEMMA Steps ==
  ASSUME [Next]_vars
  PROVE  \/ UNCHANGED vars \/ UserActs
         \/ \E t \in Tabs : \/ PageNavigates(t) \/ AddressChanges(t) \/ TokenTimerFires(t)
                            \/ PageSuppresses(t) \/ PageConfirms(t) \/ PageReleases(t)
         \/ \E c \in Captures : CaptureActs(c)
  BY DEF Next, UserActs, CaptureActs

LEMMA StepTyped == Typed /\ Len(artifacts) <= MaxArtifacts /\ [Next]_vars => Typed'
  <1> SUFFICES ASSUME Typed, Len(artifacts) <= MaxArtifacts, [Next]_vars PROVE Typed'
    OBVIOUS
  <1>1. CASE UNCHANGED vars
    BY <1>1 DEF Typed, vars
  <1>2. CASE UserActs
    <2>1. artifacts' \in Seq(Captures)
      <3>1. <<>> \in Seq(Captures) /\ artifacts \in Seq(Captures)
        BY DEF Typed
      <3> QED BY <1>2, <3>1, UserFrame
    <2> QED BY <1>2, <2>1, UserFrame DEF Typed
  <1>3. ASSUME NEW t \in Tabs,
               \/ PageNavigates(t) \/ AddressChanges(t) \/ TokenTimerFires(t)
               \/ PageSuppresses(t) \/ PageConfirms(t) \/ PageReleases(t)
        PROVE Typed'
    BY <1>3, PageFrame DEF Typed
  <1>4. ASSUME NEW c \in Captures, CaptureActs(c)
        PROVE Typed'
    BY <1>4, CaptureFrame, SlotFrame, TableFrame DEF Typed
  <1> QED BY <1>1, <1>2, <1>3, <1>4, Steps

-----------------------------------------------------------------------------
(* One capture holds the slot.                                             *)

LEMMA SlotStep == Typed /\ SlotHeld /\ [Next]_vars => SlotHeld'
  <1> SUFFICES ASSUME Typed, SlotHeld, [Next]_vars PROVE SlotHeld'
    OBVIOUS
  <1>1. CASE UNCHANGED vars
    BY <1>1 DEF SlotHeld, In, vars
  <1>2. CASE UserActs
    BY <1>2, UserFrame DEF SlotHeld, In
  <1>3. ASSUME NEW t \in Tabs,
               \/ PageNavigates(t) \/ AddressChanges(t) \/ TokenTimerFires(t)
               \/ PageSuppresses(t) \/ PageConfirms(t) \/ PageReleases(t)
        PROVE SlotHeld'
    <2>1. slot' = slot
      BY <1>3, PageFrame
    <2>2. CASE capture' = capture
      BY <2>1, <2>2 DEF SlotHeld, In
    <2>3. CASE capture' # capture
      <3>0. PICK c \in Captures : \E S, s, F : Moves(c, S, s, F) /\ S \subseteq Holding
        BY <1>3, <2>3, DoesPage DEF PageNavigates, AddressChanges, TokenTimerFires, PageReleases, Holding
      <3>1. PICK S, s, F : Moves(c, S, s, F) /\ S \subseteq Holding
        BY <3>0
      <3> QED BY <2>1, <3>0, <3>1 DEF SlotHeld, In, Moves, Turned
    <2> QED BY <2>2, <2>3
  <1>4. ASSUME NEW c \in Captures, CaptureActs(c)
        PROVE SlotHeld'
    <2>1. \A d \in Captures \ {c} : capture'[d] = capture[d]
      BY <1>4, CaptureFrame
    <2>2. CASE SlotTaken(c)
      <3>1. slot = NoCapture /\ slot' = c
        BY <2>2 DEF SlotTaken
      <3>2. \A d \in Captures : ~In(d, Holding)
        BY <3>1, CapturesAssumption DEF SlotHeld
      <3> QED BY <2>1, <3>1, <3>2 DEF SlotHeld, In
    <2>3. CASE slot' = ReleaseSlot(c) /\ ~In(c, Holding)'
      BY <2>1, <2>3 DEF SlotHeld, In, ReleaseSlot
    <2>4. CASE slot' = slot /\ (In(c, Holding)' => In(c, Holding))
      BY <2>1, <2>4 DEF SlotHeld, In
    <2>5. CASE CaptureRequested(c) \/ Reauthorized(c) \/ CaptureDispatched(c) \/ PictureArrives(c)
               \/ AuthorityProved(c) \/ PictureAccepted(c) \/ SuppressionBegins(c)
      <3>1. slot' = slot
        BY <2>5 DEF CaptureRequested, Reauthorized, CaptureDispatched, PictureArrives, AuthorityProved,
           PictureAccepted, SuppressionBegins
      <3>2. In(c, Holding)' => In(c, Holding)
        BY <2>5, DoesCaptureRequested, DoesReauthorized, DoesCaptureDispatched, DoesPictureArrives,
           DoesAuthorityProved, DoesPictureAccepted, DoesSuppressionBegins DEF In, Holding, Moves
      <3> QED BY <2>4, <3>1, <3>2
    <2>6. CASE PictureKept(c) \/ CaptureFails(c) \/ BrowserFails(c) \/ CaptureTimesOut(c)
      <3>1. slot' = slot
        BY <2>6 DEF PictureKept, CaptureFails, BrowserFails, Fails, CaptureTimesOut
      <3>2. In(c, Holding)' => In(c, Holding)
        BY <2>6, DoesPictureKept, DoesCaptureFails, DoesCaptureTimesOut DEF In, Holding, Moves
      <3> QED BY <2>4, <3>1, <3>2
    <2>7. CASE PageAnswersPing(c) \/ TokenExpires(c) \/ BrowserRenders(c)
      <3>1. slot' = slot
        BY <2>7 DEF PageAnswersPing, TokenExpires, BrowserRenders
      <3>2. capture'[c].stage = capture[c].stage
        BY <2>7, DoesPageAnswersPing, DoesTokenExpires, DoesBrowserRenders DEF Turned, Alike, Fields
      <3> QED BY <2>4, <3>1, <3>2 DEF In
    <2>8. CASE PageUnavailable(c) \/ SuppressionFails(c) \/ CaptureEnds(c) \/ LateCaptureSettles(c)
      <3>1. slot' = ReleaseSlot(c)
        BY <2>8 DEF PageUnavailable, SuppressionFails, CaptureEnds, LateCaptureSettles
      <3>2. capture'[c].stage = "done"
        BY <2>8, DoesEnd DEF Finishes, OverAs
      <3> QED BY <2>3, <3>1, <3>2 DEF In, Holding
    <2>9. CASE CaptureRefused(c)
      <3>1. slot' = slot /\ capture'[c].stage = "done"
        BY <2>9, DoesEnd DEF Finishes, OverAs, CaptureRefused
      <3> QED BY <2>4, <3>1 DEF In, Holding
    <2>10. CASE HardExpiry(c)
      <3>1. slot' = ReleaseSlot(c) /\ capture'[c].stage = "abandoned"
        BY <2>10, DoesHardExpiry DEF HardExpiry, Moves
      <3> QED BY <2>3, <3>1 DEF In, Holding
    <2> QED BY <1>4, <2>2, <2>5, <2>6, <2>7, <2>8, <2>9, <2>10 DEF CaptureActs, CaptureProceeds
  <1> QED BY <1>1, <1>2, <1>3, <1>4, Steps

-----------------------------------------------------------------------------
(* What a capture has seen of its page is in order.                        *)

LEMMA Numerals ==
  ASSUME Typed, NEW c \in Captures
  PROVE  /\ capture[c] \in CaptureStates /\ capture[c].tab \in Tabs
         /\ page[capture[c].tab].is \in Identities
         /\ capture[c].before \in Identities /\ capture[c].read \in Identities
         /\ capture[c].picture \in Identities
  BY DEF Typed, CaptureStates, Pages

LEMMA SeenLater ==
  ASSUME Typed, NEW c \in Captures, NEW now \in Identities, NEW later \in Identities,
         SeenInOrder(capture[c], now), Upto(now, later)
  PROVE  SeenInOrder(capture[c], later)
  <1>1. \A i \in Identities : Upto(i, now) => Upto(i, later)
    BY DEF Upto, Identities
  <1> QED BY <1>1, Numerals DEF SeenInOrder

LEMMA InitOrdered == Init => Ordered
  <1> SUFFICES ASSUME Init PROVE Ordered
    OBVIOUS
  <1>1. \A t \in Tabs : page[t].is.visit = 1
    BY DEF Init
  <1>2. ASSUME NEW c \in Captures PROVE SeenInOrder(capture[c], page[capture[c].tab].is)
    <2>1. PICK t \in Tabs : capture[c] = Blank(t)
      BY DEF Init
    <2> QED BY <1>1, <2>1 DEF Blank, SeenInOrder, Upto, NoIdentity, Early
  <1> QED BY <1>1, <1>2 DEF Ordered

LEMMA ActsInOrder ==
  ASSUME Typed, Ordered, NEW c \in Captures, CaptureActs(c)
  PROVE  SeenInOrder(capture'[c], page'[capture'[c].tab].is)
  <1> DEFINE r == capture[c]
             q == capture'[c]
             now == page[r.tab].is
  <1>1. /\ r \in CaptureStates /\ r.tab \in Tabs /\ now \in Identities
        /\ r.before \in Identities /\ r.read \in Identities /\ r.picture \in Identities
    BY Numerals
  <1>2. SeenInOrder(r, now)
    BY DEF Ordered
  <1>3. q \in CaptureStates /\ q.tab \in Tabs /\ page'[q.tab].is = page[q.tab].is
        /\ page[q.tab].is \in Identities /\ page[q.tab].is.visit # 0 /\ now.visit # 0
    BY CaptureFrame DEF CaptureStates, Standing, Typed, Pages, Ordered
  <1>4. \A i, j, k \in Identities : /\ Upto(i, i) /\ (i.visit # 0 => Upto(NoIdentity, i))
                                    /\ Upto(i, j) /\ Upto(j, k) => Upto(i, k)
    BY DEF Upto, Identities, NoIdentity
  <1> SUFFICES SeenInOrder(q, page[q.tab].is)
    BY <1>3
  <1>5. CASE CaptureRequested(c)
    <2>1. r.stage = "idle" /\ q.stage = "authorizing" /\ Alike(q, r, {"stage", "tab", "asked"})
      BY <1>5, DoesCaptureRequested DEF Moves, Turned
    <2>2. q.before = NoIdentity /\ q.read = NoIdentity /\ q.picture = NoIdentity
      BY <1>2, <2>1 DEF SeenInOrder, Alike, Fields, Early
    <2> QED BY <1>3, <1>4, <2>1, <2>2 DEF SeenInOrder, Early
  <1>6. CASE SlotTaken(c)
    <2>1. r.stage = "authorizing" /\ q.stage = "pinging" /\ Alike(q, r, {"stage", "lineage"})
      BY <1>6, DoesSlotTaken DEF Moves, Turned
    <2> QED BY <1>2, <2>1 DEF SeenInOrder, Alike, Fields, Early
  <1>7. CASE SuppressionBegins(c)
    <2>1. /\ r.stage = "pinging" /\ q.stage = "suppressing" /\ Alike(q, r, {"stage", "before", "read"})
          /\ q.before = r.read /\ q.read = NoIdentity
      BY <1>7, DoesSuppressionBegins DEF Moves, Turned
    <2> QED BY <1>1, <1>2, <1>4, <2>1 DEF SeenInOrder, Alike, Fields, Early
  <1>8. CASE Reauthorized(c)
    <2>1. r.stage = "reauthorizing" /\ q.stage = "repinging" /\ Alike(q, r, {"stage"})
      BY <1>8, DoesReauthorized DEF Moves, Turned
    <2> QED BY <1>2, <2>1 DEF SeenInOrder, Alike, Fields, Early
  <1>9. CASE CaptureDispatched(c)
    <2>1. /\ r.stage = "repinging" /\ q.stage = "rendering" /\ Alike(q, r, {"stage", "read"})
          /\ q.read = NoIdentity
      BY <1>9, DoesCaptureDispatched DEF Moves, Turned
    <2> QED BY <1>1, <1>2, <1>4, <2>1 DEF SeenInOrder, Alike, Fields, Early
  <1>10. CASE PictureArrives(c)
    <2>1. /\ r.stage = "rendering" /\ q.stage = "proving" /\ Alike(q, r, {"stage"})
          /\ r.picture # NoIdentity
      BY <1>10, DoesPictureArrives DEF Moves, Turned
    <2> QED BY <1>2, <2>1 DEF SeenInOrder, Alike, Fields, Early
  <1>11. CASE AuthorityProved(c)
    <2>1. r.stage = "proving" /\ q.stage = "comparing" /\ Alike(q, r, {"stage"})
      BY <1>11, DoesAuthorityProved DEF Moves, Turned
    <2> QED BY <1>2, <2>1 DEF SeenInOrder, Alike, Fields, Early
  <1>12. CASE PictureAccepted(c)
    <2>1. /\ r.stage = "comparing" /\ q.stage = "hashing" /\ Alike(q, r, {"stage", "after", "read"})
          /\ SamePage(q.after, r.before) /\ q.after = r.read /\ r.read # NoIdentity /\ q.read = NoIdentity
      BY <1>12, DoesPictureAccepted DEF Moves, Turned
    <2>2. Upto(r.picture, q.after)
      BY <1>2, <2>1 DEF SeenInOrder
    <2> QED BY <1>1, <1>2, <1>3, <1>4, <2>1, <2>2 DEF SeenInOrder, Alike, Fields, Early
  <1>13. CASE PictureKept(c)
    <2>1. r.stage = "hashing" /\ q.stage = "releasing" /\ Alike(q, r, {"stage", "stamp", "answer"})
      BY <1>13, DoesPictureKept DEF Moves, Turned
    <2> QED BY <1>2, <2>1 DEF SeenInOrder, Alike, Fields, Early
  <1>14. CASE CaptureFails(c) \/ BrowserFails(c)
    <2>1. /\ r.stage \notin Early /\ q.stage = "releasing" /\ q.tab = r.tab
          /\ \/ Alike(q, r, {"stage", "answer"})
             \/ q.before = NoIdentity /\ q.read = NoIdentity /\ q.picture = NoIdentity
      BY <1>14, DoesCaptureFails DEF Moves, Early
    <2>2. CASE Alike(q, r, {"stage", "answer"})
      BY <1>2, <2>1, <2>2 DEF SeenInOrder, Alike, Fields, Early
    <2>3. CASE q.before = NoIdentity /\ q.read = NoIdentity /\ q.picture = NoIdentity
      BY <1>1, <1>3, <1>4, <2>1, <2>3 DEF SeenInOrder, Early
    <2> QED BY <2>1, <2>2, <2>3
  <1>15. CASE CaptureTimesOut(c)
    <2>1. /\ r.stage = "rendering" /\ q.stage = "late" /\ q.picture = NoIdentity
          /\ Alike(q, r, {"stage", "picture", "clean", "answer"})
      BY <1>15, DoesCaptureTimesOut DEF Moves, Turned
    <2> QED BY <1>1, <1>2, <1>3, <1>4, <2>1 DEF SeenInOrder, Alike, Fields, Early
  <1>16. CASE HardExpiry(c)
    <2>1. q.stage = "abandoned" /\ Alike(q, r, {"stage"})
      BY <1>16, DoesHardExpiry DEF Moves, Turned
    <2> QED BY <1>2, <2>1 DEF SeenInOrder, Alike, Fields, Early
  <1>17. CASE PageAnswersPing(c)
    <2>1. /\ r.stage \in {"pinging", "repinging", "comparing"}
          /\ Alike(q, r, {"read"}) /\ q.read = now
      BY <1>17, DoesPageAnswersPing DEF Turned
    <2> QED BY <1>1, <1>2, <1>4, <2>1 DEF SeenInOrder, Alike, Fields, Early
  <1>18. CASE TokenExpires(c)
    <2>1. Alike(q, r, {"expired"})
      BY <1>18, DoesTokenExpires DEF Turned
    <2> QED BY <1>2, <2>1 DEF SeenInOrder, Alike, Fields, Early
  <1>19. CASE BrowserRenders(c)
    <2>1. /\ r.stage = "rendering"
          /\ Alike(q, r, {"picture", "clean"}) /\ q.picture = now
      BY <1>19, DoesBrowserRenders DEF Turned
    <2> QED BY <1>1, <1>2, <1>4, <2>1 DEF SeenInOrder, Alike, Fields, Early
  <1>20. CASE CaptureRefused(c) \/ PageUnavailable(c) \/ SuppressionFails(c) \/ CaptureEnds(c)
              \/ LateCaptureSettles(c)
    <2>1. PICK a : OverAs(q, r, a)
      BY <1>20, DoesEnd DEF Finishes
    <2>2. q.stage = "done" /\ q.tab = r.tab
      BY <2>1 DEF OverAs
    <2>3. CASE r.stamp # 0
      BY <1>2, <2>1, <2>2, <2>3 DEF OverAs, SeenInOrder, Alike, Fields, Early
    <2>4. CASE r.stamp = 0
      BY <1>1, <1>3, <1>4, <2>1, <2>2, <2>4 DEF OverAs, SeenInOrder, Early
    <2> QED BY <2>3, <2>4
  <1> QED BY <1>5, <1>6, <1>7, <1>8, <1>9, <1>10, <1>11, <1>12, <1>13, <1>14, <1>15, <1>16, <1>17,
             <1>18, <1>19, <1>20 DEF CaptureActs, CaptureProceeds

LEMMA VisitStep ==
  ASSUME Typed, Typed', Ordered, [Next]_vars, NEW t \in Tabs
  PROVE  page'[t].is.visit # 0
  <1>1. page[t].is.visit \in Nat /\ page'[t].is.visit \in Nat /\ page[t].is.visit # 0
    BY DEF Typed, Pages, Identities, Ordered
  <1>2. CASE Forward
    BY <1>1, <1>2 DEF Forward, Upto
  <1>3. CASE page' = page
    BY <1>1, <1>3
  <1>4. CASE \E e \in Captures : CaptureActs(e)
    BY <1>2, <1>4, CaptureFrame, StandsForward
  <1> QED BY <1>2, <1>3, <1>4, UserFrame, PageFrame, Steps DEF vars

LEMMA OrderedStep == Typed /\ Typed' /\ Ordered /\ [Next]_vars => Ordered'
  <1> SUFFICES ASSUME Typed, Typed', Ordered, [Next]_vars, NEW c \in Captures
               PROVE  SeenInOrder(capture'[c], page'[capture'[c].tab].is)
    BY VisitStep DEF Ordered
  <1>1. /\ capture[c].tab \in Tabs /\ page[capture[c].tab].is \in Identities
        /\ page'[capture[c].tab].is \in Identities
        /\ SeenInOrder(capture[c], page[capture[c].tab].is)
    BY Numerals DEF Ordered, Typed, Pages
  <1>2. CASE capture'[c] = capture[c] /\ Forward
    BY <1>1, <1>2, SeenLater DEF Forward
  <1>3. \A t \in Tabs : Upto(page[t].is, page[t].is)
    BY DEF Upto, Typed, Pages, Identities
  <1>4. CASE UNCHANGED vars
    BY <1>2, <1>3, <1>4 DEF vars, Forward
  <1>5. CASE UserActs
    BY <1>2, <1>3, <1>5, UserFrame DEF Forward
  <1>6. ASSUME NEW t \in Tabs,
               \/ PageNavigates(t) \/ AddressChanges(t) \/ TokenTimerFires(t)
               \/ PageSuppresses(t) \/ PageConfirms(t) \/ PageReleases(t)
        PROVE SeenInOrder(capture'[c], page'[capture'[c].tab].is)
    <2>1. Forward
      BY <1>6, PageFrame
    <2>2. CASE capture' = capture
      BY <1>2, <2>1, <2>2
    <2>3. CASE capture' # capture
      <3>0. PICK e \in Captures, s \in {"confirming", "reauthorizing"} :
                \E S : Moves(e, S, s, {"stage"}) /\ S \subseteq {"suppressing", "confirming"}
        BY <1>6, <2>3, DoesPage DEF PageNavigates, AddressChanges, TokenTimerFires, PageReleases
      <3>1. PICK S : Moves(e, S, s, {"stage"}) /\ S \subseteq {"suppressing", "confirming"}
        BY <3>0
      <3>2. CASE e # c
        BY <1>2, <2>1, <3>0, <3>1, <3>2 DEF Moves, Turned
      <3>3. CASE e = c
        <4>1. SeenInOrder(capture[c], page'[capture[c].tab].is)
          BY <1>1, <2>1, SeenLater DEF Forward
        <4>2. /\ capture[c].stage \in {"suppressing", "confirming"} /\ capture'[c].stage = s
              /\ Alike(capture'[c], capture[c], {"stage"})
          BY <3>0, <3>1, <3>3 DEF Moves, Turned
        <4> QED BY <4>1, <4>2 DEF SeenInOrder, Alike, Fields, Early
      <3> QED BY <3>2, <3>3
    <2> QED BY <2>2, <2>3
  <1>7. ASSUME NEW e \in Captures, CaptureActs(e)
        PROVE SeenInOrder(capture'[c], page'[capture'[c].tab].is)
    <2>1. CASE e = c
      BY <1>7, <2>1, ActsInOrder
    <2>2. CASE e # c
      BY <1>2, <1>7, <2>2, CaptureFrame, StandsForward
    <2> QED BY <2>1, <2>2
  <1> QED BY <1>4, <1>5, <1>6, <1>7, Steps

-----------------------------------------------------------------------------
(* The bindings a capture names follow each other.                         *)

LEMMA Bindings ==
  ASSUME Typed, NEW c \in Captures
  PROVE  /\ capture[c].asked \in Nat /\ capture[c].lineage \in Nat /\ capture[c].stamp \in Nat
         /\ auth.instance \in Nat
  BY Numbers DEF Typed, CaptureStates

LEMMA InitBound == Init => Bound
  <1> SUFFICES ASSUME Init PROVE Bound
    OBVIOUS
  <1>1. auth.live = FALSE /\ auth.instance = 0
    BY DEF Init
  <1>2. \A c \in Captures : UnderBindings(capture[c], auth.instance)
    BY <1>1 DEF Init, Blank, UnderBindings, Holding
  <1> QED BY <1>1, <1>2 DEF Bound

\* A capture that goes on without an answer and names the same bindings.
LEMMA GoesOn ==
  ASSUME NEW r, NEW q, NEW now, UnderBindings(r, now),
         q.asked = r.asked, q.lineage = r.lineage, q.stamp = r.stamp,
         q.stage \in Holding \ {"releasing"} => r.stage \in Holding \ {"releasing"}, q.answer # "ok"
  PROVE  UnderBindings(q, now)
  BY DEF UnderBindings

LEMMA ActsBound ==
  ASSUME Typed, Bound, NEW c \in Captures, CaptureActs(c)
  PROVE  UnderBindings(capture'[c], auth.instance)
  <1> DEFINE r == capture[c]
             q == capture'[c]
             now == auth.instance
  <1>1. r.asked \in Nat /\ r.lineage \in Nat /\ r.stamp \in Nat /\ now \in Nat
    BY Bindings
  <1>2. UnderBindings(r, now)
    BY DEF Bound
  <1>3. r.stage \notin {"releasing", "done"} => r.answer # "ok"
    BY <1>2 DEF UnderBindings
  <1>4. CASE CaptureRequested(c)
    <2>1. /\ r.stage = "idle" /\ q.stage = "authorizing" /\ Alike(q, r, {"stage", "tab", "asked"})
          /\ q.asked = now
      BY <1>4, DoesCaptureRequested DEF Moves, Turned
    <2> QED BY <1>1, <1>2, <1>3, <2>1 DEF UnderBindings, Alike, Fields, Holding
  <1>5. CASE SlotTaken(c)
    <2>1. /\ r.stage = "authorizing" /\ q.stage = "pinging" /\ Alike(q, r, {"stage", "lineage"})
          /\ q.lineage = now
      BY <1>5, DoesSlotTaken DEF Moves, Turned
    <2> QED BY <1>1, <1>2, <1>3, <2>1 DEF UnderBindings, Alike, Fields, Holding
  <1>6. CASE SuppressionBegins(c) \/ Reauthorized(c) \/ CaptureDispatched(c) \/ PictureArrives(c)
             \/ AuthorityProved(c) \/ PictureAccepted(c) \/ HardExpiry(c)
    <2>1. /\ r.stage \in {"pinging", "reauthorizing", "repinging", "rendering", "proving", "comparing", "late"}
          /\ q.stage \notin {"releasing", "done"}
          /\ Alike(q, r, {"stage", "before", "after", "read"})
      BY <1>6, DoesSuppressionBegins, DoesReauthorized, DoesCaptureDispatched, DoesPictureArrives,
         DoesAuthorityProved, DoesPictureAccepted, DoesHardExpiry DEF Moves, Turned, Alike
    <2>2. /\ q.asked = r.asked /\ q.lineage = r.lineage /\ q.stamp = r.stamp /\ q.answer # "ok"
          /\ r.stage \in Holding \ {"releasing"}
      BY <1>3, <2>1 DEF Alike, Fields, Holding
    <2> QED BY <1>2, <2>2, GoesOn
  <1>7. CASE PictureKept(c)
    <2>1. /\ r.stage = "hashing" /\ q.stage = "releasing" /\ Alike(q, r, {"stage", "stamp", "answer"})
          /\ q.stamp = now /\ q.answer = "ok"
      BY <1>7, DoesPictureKept DEF Moves, Turned
    <2> QED BY <1>1, <1>2, <2>1 DEF UnderBindings, Alike, Fields, Holding
  <1>8. CASE CaptureTimesOut(c)
    <2>1. /\ r.stage = "rendering" /\ Alike(q, r, {"stage", "picture", "clean", "answer"})
          /\ q.stage = "late" /\ q.answer # "ok"
      BY <1>8, DoesCaptureTimesOut DEF Moves, Turned
    <2>2. q.asked = r.asked /\ q.lineage = r.lineage /\ q.stamp = r.stamp
      BY <2>1 DEF Alike, Fields
    <2> QED BY <1>2, <2>1, <2>2, GoesOn DEF Holding
  <1>12. CASE CaptureFails(c) \/ BrowserFails(c)
    <2>1. /\ q.stage = "releasing" /\ q.answer = "failed" /\ q.asked = r.asked
          /\ \/ Alike(q, r, {"stage", "answer"})
             \/ q.lineage = 0 /\ q.stamp = 0
      BY <1>12, DoesCaptureFails DEF Moves
    <2>2. (q.lineage = r.lineage /\ q.stamp = r.stamp) \/ (q.lineage = 0 /\ q.stamp = 0)
      BY <2>1 DEF Alike, Fields
    <2> QED BY <1>1, <1>2, <2>1, <2>2 DEF UnderBindings
  <1>9. CASE PageAnswersPing(c) \/ TokenExpires(c) \/ BrowserRenders(c)
    <2>1. Alike(q, r, {"read", "expired", "picture", "clean"})
      BY <1>9, DoesPageAnswersPing, DoesTokenExpires, DoesBrowserRenders DEF Turned, Alike
    <2>2. /\ q.asked = r.asked /\ q.lineage = r.lineage /\ q.stamp = r.stamp /\ q.stage = r.stage
          /\ q.answer = r.answer
      BY <2>1 DEF Alike, Fields
    <2> QED BY <1>2, <2>2 DEF UnderBindings
  <1>10. CASE CaptureRefused(c) \/ PageUnavailable(c) \/ SuppressionFails(c) \/ LateCaptureSettles(c)
    <2>1. PICK a : OverAs(q, r, a) /\ a # "ok"
      <3>1. CASE LateCaptureSettles(c)
        BY <1>3, <3>1, DoesEnd DEF Finishes
      <3>2. Delivered(c, "failed") # "ok"
        BY DEF Delivered
      <3> QED BY <1>10, <3>1, <3>2, DoesEnd DEF Finishes
    <2>2. q.stage = "done" /\ q.answer # "ok"
      BY <2>1 DEF OverAs
    <2>3. \/ q.asked = r.asked /\ q.lineage = r.lineage /\ q.stamp = r.stamp
          \/ q.asked = 0 /\ q.lineage = 0 /\ q.stamp = 0
      BY <2>1 DEF OverAs, Alike, Fields
    <2> QED BY <1>1, <1>2, <2>2, <2>3 DEF UnderBindings, Holding
  <1>11. CASE CaptureEnds(c)
    <2> DEFINE a == Delivered(c, r.answer)
    <2>1. r.stage = "releasing" /\ OverAs(q, r, a)
      BY <1>11, DoesEnd DEF Finishes
    <2>2. a = "ok" => r.answer = "ok" /\ r.asked = now
      BY DEF Delivered
    <2>3. a = "ok" => r.asked <= r.lineage /\ r.lineage <= r.stamp /\ r.stamp <= now
      BY <1>2, <2>1, <2>2 DEF UnderBindings, Holding
    <2>4. a = "ok" => r.asked = r.lineage /\ r.lineage = r.stamp
      BY <1>1, <2>2, <2>3
    <2>5. q.stage = "done" /\ q.answer = a
      BY <2>1 DEF OverAs
    <2>6. \/ q.asked = r.asked /\ q.lineage = r.lineage /\ q.stamp = r.stamp
          \/ q.asked = 0 /\ q.lineage = 0 /\ q.stamp = 0
      BY <2>1 DEF OverAs, Alike, Fields
    <2> HIDE DEF a
    <2> QED BY <1>1, <1>2, <2>4, <2>5, <2>6 DEF UnderBindings, Holding
  <1> QED BY <1>4, <1>5, <1>6, <1>7, <1>8, <1>9, <1>10, <1>11, <1>12 DEF CaptureActs, CaptureProceeds

LEMMA BoundStep == Typed /\ Bound /\ [Next]_vars => Bound'
  <1> SUFFICES ASSUME Typed, Bound, [Next]_vars PROVE Bound'
    OBVIOUS
  <1>1. CASE UNCHANGED vars
    BY <1>1 DEF Bound, vars
  <1>2. CASE UserActs
    <2>1. /\ auth.instance <= auth'.instance /\ (auth'.live => auth'.instance # 0) /\ capture' = capture
          /\ auth'.instance \in Nat /\ auth.instance \in Nat
      BY <1>2, UserFrame, Numbers DEF Bound, Typed
    <2>2. ASSUME NEW c \in Captures PROVE UnderBindings(capture[c], auth'.instance)
      <3>1. UnderBindings(capture[c], auth.instance)
        BY DEF Bound
      <3> QED BY <2>1, <3>1, Bindings DEF UnderBindings
    <2> QED BY <2>1, <2>2 DEF Bound
  <1>3. ASSUME NEW t \in Tabs,
               \/ PageNavigates(t) \/ AddressChanges(t) \/ TokenTimerFires(t)
               \/ PageSuppresses(t) \/ PageConfirms(t) \/ PageReleases(t)
        PROVE Bound'
    <2>1. auth' = auth
      BY <1>3, PageFrame
    <2>2. CASE capture' = capture
      BY <2>1, <2>2 DEF Bound
    <2>3. CASE capture' # capture
      <3>0. PICK e \in Captures, s \in {"confirming", "reauthorizing"} :
                \E S : Moves(e, S, s, {"stage"}) /\ S \subseteq {"suppressing", "confirming"}
        BY <1>3, <2>3, DoesPage DEF PageNavigates, AddressChanges, TokenTimerFires, PageReleases
      <3>1. PICK S : Moves(e, S, s, {"stage"}) /\ S \subseteq {"suppressing", "confirming"}
        BY <3>0
      <3>2. UnderBindings(capture[e], auth.instance)
        BY DEF Bound
      <3>3. /\ capture[e].stage \in {"suppressing", "confirming"}
            /\ Alike(capture'[e], capture[e], {"stage"})
        BY <3>0, <3>1 DEF Moves, Turned
      <3>4. UnderBindings(capture'[e], auth.instance)
        BY <3>2, <3>3, GoesOn DEF Alike, Fields, UnderBindings, Holding
      <3>5. \A d \in Captures \ {e} : capture'[d] = capture[d]
        BY <3>0, <3>1 DEF Moves, Turned
      <3> QED BY <2>1, <3>4, <3>5 DEF Bound
    <2> QED BY <2>2, <2>3
  <1>4. ASSUME NEW c \in Captures, CaptureActs(c) PROVE Bound'
    <2>1. auth' = auth /\ \A d \in Captures \ {c} : capture'[d] = capture[d]
      BY <1>4, CaptureFrame
    <2>2. UnderBindings(capture'[c], auth.instance)
      BY <1>4, ActsBound
    <2> QED BY <2>1, <2>2 DEF Bound
  <1> QED BY <1>1, <1>2, <1>3, <1>4, Steps

-----------------------------------------------------------------------------
(* Captures do not turn back.                                              *)

Onward(r, q) ==
    /\ r.stage \notin Early => q.stage \notin Early /\ q.tab = r.tab
    /\ r.stage \in {"releasing", "done"} => q.stage \in {"releasing", "done"}
    /\ r.expired => q.expired
    /\ r.stage \notin Early /\ q.stage \notin {"releasing", "done"} => q.before = r.before
    /\ AcceptedPicture(r) => AcceptedPicture(q)

LEMMA ActsOnward ==
  ASSUME Typed, NEW c \in Captures, CaptureActs(c)
  PROVE  Onward(capture[c], capture'[c])
  <1> DEFINE r == capture[c]
             q == capture'[c]
  <1>1. CASE CaptureRequested(c)
    <2>1. r.stage = "idle" /\ Alike(q, r, {"stage", "tab", "asked"})
      BY <1>1, DoesCaptureRequested DEF Moves, Turned
    <2> QED BY <2>1 DEF Onward, Alike, Fields, Early, AcceptedPicture
  <1>2. CASE SlotTaken(c) \/ SuppressionBegins(c)
    <2>1. r.stage \in {"authorizing", "pinging"} /\ Alike(q, r, {"stage", "lineage", "before", "read"})
      BY <1>2, DoesSlotTaken, DoesSuppressionBegins DEF Moves, Turned, Alike
    <2> QED BY <2>1 DEF Onward, Alike, Fields, Early, AcceptedPicture
  <1>3. CASE Reauthorized(c) \/ CaptureDispatched(c) \/ PictureArrives(c) \/ AuthorityProved(c)
             \/ PictureAccepted(c) \/ PictureKept(c) \/ CaptureTimesOut(c) \/ HardExpiry(c)
    <2>1. /\ r.stage \in {"reauthorizing", "repinging", "rendering", "proving", "comparing", "hashing", "late"}
          /\ q.stage \in {"repinging", "rendering", "proving", "comparing", "hashing", "releasing", "late",
                          "abandoned"}
          /\ Alike(q, r, {"stage", "read", "after", "picture", "clean", "stamp", "answer"})
      BY <1>3, DoesReauthorized, DoesCaptureDispatched, DoesPictureArrives, DoesAuthorityProved,
         DoesPictureAccepted, DoesPictureKept, DoesCaptureTimesOut, DoesHardExpiry
         DEF Moves, Turned, Alike
    <2> QED BY <2>1 DEF Onward, Alike, Fields, Early, AcceptedPicture
  <1>8. CASE CaptureFails(c) \/ BrowserFails(c)
    <2>1. /\ r.stage \in {"reauthorizing", "repinging", "rendering", "proving", "comparing", "hashing"}
          /\ q.stage = "releasing" /\ q.tab = r.tab /\ q.expired = r.expired
      BY <1>8, DoesCaptureFails DEF Moves
    <2> QED BY <2>1 DEF Onward, Early, AcceptedPicture
  <1>4. CASE PageAnswersPing(c)
    <2>1. Alike(q, r, {"read"})
      BY <1>4, DoesPageAnswersPing DEF Turned
    <2> QED BY <2>1 DEF Onward, Alike, Fields, Early, AcceptedPicture
  <1>5. CASE TokenExpires(c)
    <2>1. Alike(q, r, {"expired"}) /\ q.expired
      BY <1>5, DoesTokenExpires DEF Turned
    <2> QED BY <2>1 DEF Onward, Alike, Fields, Early, AcceptedPicture
  <1>6. CASE BrowserRenders(c)
    <2>1. Alike(q, r, {"picture", "clean"}) /\ r.stage = "rendering"
      BY <1>6, DoesBrowserRenders DEF Turned
    <2> QED BY <2>1 DEF Onward, Alike, Fields, Early, AcceptedPicture
  <1>7. CASE CaptureRefused(c) \/ PageUnavailable(c) \/ SuppressionFails(c) \/ CaptureEnds(c)
             \/ LateCaptureSettles(c)
    <2>1. PICK a : OverAs(q, r, a)
      BY <1>7, DoesEnd DEF Finishes
    <2> QED BY <2>1 DEF OverAs, Onward, Alike, Fields, Early, AcceptedPicture
  <1> QED BY <1>1, <1>2, <1>3, <1>4, <1>5, <1>6, <1>7, <1>8 DEF CaptureActs, CaptureProceeds

LEMMA StepsOnward ==
  ASSUME Typed, [Next]_vars
  PROVE  \A c \in Captures : Onward(capture[c], capture'[c])
  <1> SUFFICES ASSUME NEW c \in Captures PROVE Onward(capture[c], capture'[c])
    OBVIOUS
  <1>1. CASE capture'[c] = capture[c]
    BY <1>1 DEF Onward
  <1>2. ASSUME NEW t \in Tabs, PageSuppresses(t) \/ PageConfirms(t) PROVE Onward(capture[c], capture'[c])
    <2>1. CASE capture' # capture
      <3>0. PICK e \in Captures, s \in {"confirming", "reauthorizing"} :
                \E S : Moves(e, S, s, {"stage"}) /\ S \subseteq {"suppressing", "confirming"}
        BY <1>2, <2>1, DoesPage
      <3>1. PICK S : Moves(e, S, s, {"stage"}) /\ S \subseteq {"suppressing", "confirming"}
        BY <3>0
      <3>2. CASE e = c
        <4>1. /\ capture[c].stage \in {"suppressing", "confirming"} /\ capture'[c].stage = s
              /\ Alike(capture'[c], capture[c], {"stage"})
          BY <3>0, <3>1, <3>2 DEF Moves, Turned
        <4> QED BY <4>1 DEF Onward, Alike, Fields, Early, AcceptedPicture
      <3>3. CASE e # c
        BY <1>1, <3>0, <3>1, <3>3 DEF Moves, Turned
      <3> QED BY <3>2, <3>3
    <2> QED BY <1>1, <2>1
  <1>3. ASSUME NEW e \in Captures, CaptureActs(e) PROVE Onward(capture[c], capture'[c])
    BY <1>1, <1>3, ActsOnward, CaptureFrame
  <1>4. CASE UNCHANGED vars \/ UserActs
    BY <1>1, <1>4, UserFrame DEF vars
  <1>5. ASSUME NEW t \in Tabs, PageNavigates(t) \/ AddressChanges(t) \/ TokenTimerFires(t) \/ PageReleases(t)
        PROVE Onward(capture[c], capture'[c])
    BY <1>1, <1>5 DEF PageNavigates, AddressChanges, TokenTimerFires, PageReleases
  <1> QED BY <1>2, <1>3, <1>4, <1>5, Steps

-----------------------------------------------------------------------------
(* What is in the inboxes.                                                 *)

\* The inbox of t held m before.
OldPost(t, m) == \E j \in DOMAIN page[t].inbox : m = page[t].inbox[j]

\* The only new messages are those for t and among M.
NewPost(t, M) ==
    \A u \in Tabs : \A i \in DOMAIN page'[u].inbox :
        OldPost(u, page'[u].inbox[i]) \/ (u = t /\ page'[u].inbox[i] \in M)

LEMMA Appended ==
  ASSUME Typed, NEW t \in Tabs, NEW m \in Messages, page' = [page EXCEPT ![t].inbox = Append(@, m)]
  PROVE  NewPost(t, {m})
  <1>1. page[t].inbox \in Seq(Messages)
    BY DEF Typed, Pages
  <1>2. page'[t].inbox = Append(page[t].inbox, m) /\ \A u \in Tabs \ {t} : page'[u].inbox = page[u].inbox
    BY DEF Typed, Pages
  <1>3. \A i \in DOMAIN Append(page[t].inbox, m) :
          \/ i \in DOMAIN page[t].inbox /\ Append(page[t].inbox, m)[i] = page[t].inbox[i]
          \/ Append(page[t].inbox, m)[i] = m
    BY <1>1, AppendProperties, LenProperties
  <1> QED BY <1>2, <1>3 DEF NewPost, OldPost

LEMMA NothingNew ==
  ASSUME NEW t \in Tabs, \A u \in Tabs : page'[u].inbox = page[u].inbox
  PROVE  NewPost(t, {})
  BY DEF NewPost, OldPost

LEMMA PagePost ==
  ASSUME Typed, NEW t \in Tabs, PageSuppresses(t) \/ PageConfirms(t) \/ PageReleases(t)
  PROVE  NewPost(t, {[kind |-> "confirm", of |-> Head(page[t].inbox).of]})
  <1> DEFINE c == Head(page[t].inbox).of
             m == [kind |-> "confirm", of |-> c]
  <1>1. page[t].inbox \in Seq(Messages) /\ page[t].inbox # <<>>
    BY PageActs
  <1>2. /\ Tail(page[t].inbox) \in Seq(Messages)
        /\ \A i \in DOMAIN Tail(page[t].inbox) :
             i + 1 \in DOMAIN page[t].inbox /\ Tail(page[t].inbox)[i] = page[t].inbox[i + 1]
    <2>1. /\ Len(Tail(page[t].inbox)) = Len(page[t].inbox) - 1 /\ Tail(page[t].inbox) \in Seq(Messages)
          /\ \A i \in 1..Len(Tail(page[t].inbox)) : Tail(page[t].inbox)[i] = page[t].inbox[i + 1]
      BY <1>1, HeadTailProperties
    <2> QED BY <1>1, <2>1, LenProperties
  <1>3. m \in Messages
    BY PageActs DEF Messages
  <1>4. page'[t].inbox \in {Tail(page[t].inbox), Append(Tail(page[t].inbox), m)}
    <2>1. CASE PageSuppresses(t)
      <3> DEFINE asks == IF capture[c].stage = "suppressing" THEN <<m>> ELSE <<>>
      <3>1. page' = [page EXCEPT ![t].tokens = LiveTokens(t) \cup {Token(c, t)},
                                 ![t].inbox = Tail(page[t].inbox) \o asks]
        BY <2>1 DEF PageSuppresses, Typed
      <3> HIDE DEF asks
      <3>2. page'[t].inbox = Tail(page[t].inbox) \o asks
        BY <3>1 DEF Typed, Pages
      <3>3. asks \in {<<m>>, <<>>}
        BY DEF asks
      <3>4. Tail(page[t].inbox) \o <<m>> = Append(Tail(page[t].inbox), m)
            /\ Tail(page[t].inbox) \o <<>> = Tail(page[t].inbox)
        BY <1>2, <1>3, AppendIsConcat, ConcatEmptySeq
      <3> QED BY <3>2, <3>3, <3>4
    <2>2. CASE PageConfirms(t)
      BY <2>2 DEF PageConfirms, Typed, Pages
    <2>3. CASE PageReleases(t)
      BY <2>3 DEF PageReleases, Typed, Pages
    <2> QED BY <2>1, <2>2, <2>3
  <1>5. \A u \in Tabs \ {t} : page'[u].inbox = page[u].inbox
    BY PageActs
  <1>6. \A i \in DOMAIN page'[t].inbox : OldPost(t, page'[t].inbox[i]) \/ page'[t].inbox[i] = m
    <2>1. CASE page'[t].inbox = Tail(page[t].inbox)
      BY <1>2, <2>1 DEF OldPost
    <2>2. CASE page'[t].inbox = Append(Tail(page[t].inbox), m)
      <3>1. \A i \in DOMAIN Append(Tail(page[t].inbox), m) :
              \/ /\ i \in DOMAIN Tail(page[t].inbox)
                 /\ Append(Tail(page[t].inbox), m)[i] = Tail(page[t].inbox)[i]
              \/ Append(Tail(page[t].inbox), m)[i] = m
        BY <1>2, <1>3, AppendProperties, LenProperties
      <3> QED BY <1>2, <2>2, <3>1 DEF OldPost
    <2> QED BY <1>4, <2>1, <2>2
  <1> QED BY <1>5, <1>6 DEF NewPost, OldPost

\* What an action of a capture posts, and in which stage it leaves the capture.
LEMMA ActsPost ==
  ASSUME Typed, NEW c \in Captures, CaptureActs(c)
  PROVE  \E m \in Messages :
           /\ NewPost(capture[c].tab, {m}) \/ \A u \in Tabs : page'[u].inbox = page[u].inbox
           /\ m.of = c
           /\ NewPost(capture[c].tab, {m}) =>
                \/ page' = page
                \/ m.kind = "suppress" /\ capture'[c].stage \notin Early /\ capture'[c].tab = capture[c].tab
                   /\ capture'[c].before.document = page[capture[c].tab].is.document
                \/ m.kind = "release" /\ capture'[c].stage \in {"releasing", "done"}
                   /\ capture'[c].tab = capture[c].tab
  <1> DEFINE t == capture[c].tab
             sup == [kind |-> "suppress", of |-> c]
             rel == [kind |-> "release", of |-> c]
  <1>1. t \in Tabs /\ sup \in Messages /\ rel \in Messages
    BY Numerals DEF Messages
  <1>2. CASE SuppressionBegins(c)
    <2>1. \/ page' = page
          \/ /\ page' = [page EXCEPT ![t].inbox = Append(@, sup)]
             /\ page[t].is.document = capture[c].read.document
      BY <1>2 DEF SuppressionBegins
    <2>2. NewPost(t, {sup}) \/ \A u \in Tabs : page'[u].inbox = page[u].inbox
      BY <1>1, <2>1, Appended
    <2>3. /\ capture'[c].stage = "suppressing" /\ capture'[c].tab = capture[c].tab
          /\ capture'[c].before = capture[c].read
      BY <1>2, DoesSuppressionBegins DEF Moves, Turned, Alike, Fields
    <2> QED BY <1>1, <2>1, <2>2, <2>3 DEF Early
  <1>3. CASE PictureKept(c) \/ CaptureFails(c) \/ BrowserFails(c) \/ SuppressionFails(c)
             \/ LateCaptureSettles(c)
    <2>1. page' = Sent(c, "release")
      BY <1>3 DEF PictureKept, CaptureFails, BrowserFails, Fails, SuppressionFails, LateCaptureSettles
    <2>2. page' = page \/ page' = [page EXCEPT ![t].inbox = Append(@, rel)]
      BY <2>1 DEF Sent
    <2>3. NewPost(t, {rel}) \/ \A u \in Tabs : page'[u].inbox = page[u].inbox
      BY <1>1, <2>2, Appended
    <2>4. capture'[c].stage \in {"releasing", "done"} /\ capture'[c].tab = capture[c].tab
      <3>1. CASE PictureKept(c) \/ CaptureFails(c) \/ BrowserFails(c)
        BY <3>1, DoesPictureKept, DoesCaptureFails DEF Moves, Turned, Alike, Fields
      <3>2. CASE SuppressionFails(c) \/ LateCaptureSettles(c)
        BY <3>2, DoesEnd DEF Finishes, OverAs
      <3> QED BY <1>3, <3>1, <3>2
    <2> QED BY <1>1, <2>3, <2>4
  <1>4. CASE page' = page
    BY <1>1, <1>4
  <1>5. \/ page' = page \/ SuppressionBegins(c) \/ PictureKept(c) \/ CaptureFails(c) \/ BrowserFails(c)
        \/ SuppressionFails(c) \/ LateCaptureSettles(c)
    BY DEF CaptureActs, CaptureProceeds, CaptureRequested, SlotTaken, CaptureRefused, Reauthorized,
       CaptureDispatched, PictureArrives, AuthorityProved, PictureAccepted, CaptureEnds, CaptureTimesOut,
       PageAnswersPing, PageUnavailable, TokenExpires, BrowserRenders, HardExpiry
  <1> QED BY <1>2, <1>3, <1>4, <1>5

\* Messages that were there stay true to their captures.
LEMMA OldPostTrue ==
  ASSUME Typed, Posted, [Next]_vars, NEW u \in Tabs, NEW m, OldPost(u, m)
  PROVE  PostOf(capture'[m.of], u, m, page[u].is.document)
  <1>1. m \in Messages /\ PostOf(capture[m.of], u, m, page[u].is.document)
    <2>1. PICK j \in DOMAIN page[u].inbox : m = page[u].inbox[j]
      BY DEF OldPost
    <2>2. page[u].inbox \in Seq(Messages)
      BY DEF Typed, Pages
    <2>3. page[u].inbox[j] \in Messages
      BY <2>2
    <2> QED BY <2>1, <2>3 DEF Posted
  <1>2. m.of \in Captures
    BY <1>1 DEF Messages
  <1>3. Onward(capture[m.of], capture'[m.of])
    BY <1>2, StepsOnward
  <1> QED BY <1>1, <1>3 DEF PostOf, Onward

\* The first message of an inbox is one of them.
LEMMA FirstPost ==
  ASSUME Typed, Posted, NEW t \in Tabs, page[t].inbox # <<>>
  PROVE  PostOf(capture[Head(page[t].inbox).of], t, Head(page[t].inbox), page[t].is.document)
         /\ OldPost(t, Head(page[t].inbox))
  <1>1. page[t].inbox \in Seq(Messages)
    BY DEF Typed, Pages
  <1>2. 1 \in DOMAIN page[t].inbox /\ Head(page[t].inbox) = page[t].inbox[1]
    BY <1>1, HeadTailProperties, LenProperties
  <1> QED BY <1>2 DEF Posted, OldPost

LEMMA PostedStep == Typed /\ Posted /\ [Next]_vars => Posted'
  <1> DEFINE GoodPost(v, k) ==
        PostOf(capture'[page'[v].inbox[k].of], v, page'[v].inbox[k], page'[v].is.document)
  <1> SUFFICES ASSUME Typed, Posted, [Next]_vars, NEW u \in Tabs, NEW i \in DOMAIN page'[u].inbox
               PROVE  GoodPost(u, i)
    BY DEF Posted
  <1>1. CASE OldPost(u, page'[u].inbox[i]) /\ page'[u].is.document = page[u].is.document
    BY <1>1, OldPostTrue
  <1>2. CASE UNCHANGED vars \/ UserActs
    <2>1. page' = page
      BY <1>2, UserFrame DEF vars
    <2> QED BY <1>1, <2>1 DEF OldPost
  <1>3. ASSUME NEW t \in Tabs, PageNavigates(t) PROVE GoodPost(u, i)
    <2>1. (u # t => page'[u] = page[u]) /\ page'[t].inbox = <<>>
      BY <1>3, PageLeaves
    <2> QED BY <1>1, <2>1 DEF OldPost
  <1>4. ASSUME NEW t \in Tabs, AddressChanges(t) \/ TokenTimerFires(t) PROVE GoodPost(u, i)
    <2>1. (u # t => page'[u] = page[u]) /\ page'[t].inbox = page[t].inbox
          /\ page'[t].is.document = page[t].is.document
      BY <1>4, PageStays
    <2> QED BY <1>1, <2>1 DEF OldPost
  <1>5. ASSUME NEW t \in Tabs, PageSuppresses(t) \/ PageConfirms(t) \/ PageReleases(t)
        PROVE GoodPost(u, i)
    <2> DEFINE h == Head(page[t].inbox)
    <2>1. page[t].inbox # <<>>
      BY <1>5, PageActs
    <2>2. PostOf(capture'[h.of], t, h, page[t].is.document)
      BY <2>1, FirstPost, OldPostTrue
    <2>3. page'[u].is.document = page[u].is.document
      BY <1>5, PageActs
    <2>4. CASE u = t /\ page'[u].inbox[i] = [kind |-> "confirm", of |-> h.of]
      BY <2>2, <2>3, <2>4 DEF PostOf
    <2> QED BY <1>1, <1>5, <2>3, <2>4, PagePost DEF NewPost
  <1>6. ASSUME NEW c \in Captures, CaptureActs(c) PROVE GoodPost(u, i)
    <2>1. PICK m \in Messages :
           /\ NewPost(capture[c].tab, {m}) \/ \A v \in Tabs : page'[v].inbox = page[v].inbox
           /\ m.of = c
           /\ NewPost(capture[c].tab, {m}) =>
                \/ page' = page
                \/ m.kind = "suppress" /\ capture'[c].stage \notin Early /\ capture'[c].tab = capture[c].tab
                   /\ capture'[c].before.document = page[capture[c].tab].is.document
                \/ m.kind = "release" /\ capture'[c].stage \in {"releasing", "done"}
                   /\ capture'[c].tab = capture[c].tab
      BY <1>6, ActsPost
    <2>4. page'[u].is.document = page[u].is.document
      BY <1>6, CaptureFrame DEF Standing
    <2>2. CASE ~OldPost(u, page'[u].inbox[i])
      <3>1. page'[u].inbox # page[u].inbox /\ page' # page
        BY <2>2 DEF OldPost
      <3>2. u = capture[c].tab /\ page'[u].inbox[i] = m /\ NewPost(capture[c].tab, {m})
        BY <2>1, <2>2, <3>1 DEF NewPost
      <3>3. PostOf(capture'[m.of], u, m, page[u].is.document)
        BY <2>1, <3>1, <3>2 DEF PostOf, Early
      <3> QED BY <2>4, <3>2, <3>3
    <2> QED BY <1>1, <2>2, <2>4
  <1> QED BY <1>2, <1>3, <1>4, <1>5, <1>6, Steps

-----------------------------------------------------------------------------
(* The overlay stays hidden until the picture is taken.                    *)

Hiding == {"reauthorizing", "repinging", "rendering"}

LEMMA HiddenStep == Typed /\ Posted /\ Hidden /\ [Next]_vars => Hidden'
  <1> DEFINE k(c) == [of |-> c, document |-> capture'[c].before.document]
  <1> SUFFICES ASSUME Typed, Posted, Hidden, [Next]_vars, NEW c \in Captures,
                      capture'[c].stage \in Hiding, ~capture'[c].expired
               PROVE  k(c) \in page'[capture'[c].tab].tokens
    BY DEF Hidden, HiddenFor, TokenOf, Hiding
  <1> DEFINE t == capture[c].tab
  <1>1. t \in Tabs
    BY Numerals
  <1>2. ~capture[c].expired
    BY StepsOnward DEF Onward
  <1>3. CASE capture[c].stage \in Hiding
    <2>1. capture'[c].tab = t /\ capture'[c].before = capture[c].before
      BY <1>3, StepsOnward DEF Onward, Hiding, Early
    <2>2. k(c) \in page[t].tokens /\ (k(c)).of = c
      BY <1>2, <1>3, <2>1 DEF Hidden, HiddenFor, TokenOf, Hiding
    <2> HIDE DEF k
    <2>3. CASE page'[t].tokens = page[t].tokens
      BY <2>1, <2>2, <2>3
    <2>4. CASE UNCHANGED vars \/ UserActs
      BY <2>3, <2>4, UserFrame DEF vars
    <2>5. ASSUME NEW e \in Captures, CaptureActs(e) PROVE k(c) \in page'[t].tokens
      BY <1>1, <2>1, <2>3, <2>5, CaptureFrame DEF Standing
    <2>6. ASSUME NEW u \in Tabs, PageNavigates(u) PROVE k(c) \in page'[t].tokens
      <3>1. page'[t].tokens = page[t].tokens
        BY <1>1, <2>6, PageLeaves
      <3> QED BY <2>1, <2>3, <3>1
    <2>7. ASSUME NEW u \in Tabs, AddressChanges(u) \/ TokenTimerFires(u) PROVE k(c) \in page'[t].tokens
      <3>1. CASE u = t
        <4>1. LiveTokens(t) \subseteq page'[t].tokens
          BY <2>7, <3>1, PageStays
        <4> QED BY <1>2, <2>2, <4>1 DEF LiveTokens, Shown
      <3>2. CASE u # t
        BY <1>1, <2>1, <2>3, <2>7, <3>2, PageStays
      <3> QED BY <3>1, <3>2
    <2>8. ASSUME NEW u \in Tabs, PageSuppresses(u) \/ PageConfirms(u) \/ PageReleases(u)
          PROVE k(c) \in page'[t].tokens
      <3>1. CASE u = t
        <4>1. page[t].inbox # <<>>
              /\ LiveTokens(t) \ {Token(Head(page[t].inbox).of, t)} \subseteq page'[t].tokens
              /\ (~PageReleases(t) => LiveTokens(t) \subseteq page'[t].tokens)
          BY <1>1, <2>8, <3>1, PageActs
        <4>2. k(c) \in LiveTokens(t)
          BY <1>2, <2>2 DEF LiveTokens, Shown
        <4>3. CASE PageReleases(t)
          <5>1. /\ Head(page[t].inbox).kind = "release"
                /\ PostOf(capture[Head(page[t].inbox).of], t, Head(page[t].inbox), page[t].is.document)
            BY <1>1, <4>1, <4>3, FirstPost DEF PageReleases
          <5>2. Head(page[t].inbox).of # c
            BY <1>3, <5>1 DEF PostOf, Hiding
          <5>3. Token(Head(page[t].inbox).of, t) # k(c)
            BY <2>2, <5>2 DEF Token
          <5> QED BY <4>1, <4>2, <5>3
        <4> QED BY <4>1, <4>2, <4>3
      <3>2. CASE u # t
        BY <1>1, <2>1, <2>3, <2>8, <3>2, PageActs
      <3> QED BY <3>1, <3>2
    <2> QED BY <2>1, <2>4, <2>5, <2>6, <2>7, <2>8, Steps
  <1>4. CASE capture[c].stage \notin Hiding
    <2>1. \A e \in Captures : ~CaptureActs(e)
      <3>1. SUFFICES ASSUME NEW e \in Captures, CaptureActs(e) PROVE FALSE
        OBVIOUS
      <3>2. e = c
        BY <1>4, <3>1, CaptureFrame
      <3>3. CASE \/ CaptureRequested(c) \/ SlotTaken(c) \/ SuppressionBegins(c) \/ PictureArrives(c)
                 \/ AuthorityProved(c) \/ PictureAccepted(c) \/ PictureKept(c) \/ CaptureFails(c) \/ BrowserFails(c)
                 \/ CaptureTimesOut(c) \/ HardExpiry(c)
        BY <3>3, DoesCaptureRequested, DoesSlotTaken, DoesSuppressionBegins, DoesPictureArrives,
           DoesAuthorityProved, DoesPictureAccepted, DoesPictureKept, DoesCaptureFails, DoesCaptureTimesOut,
           DoesHardExpiry DEF Moves, Hiding
      <3>4. CASE Reauthorized(c) \/ CaptureDispatched(c)
        BY <1>4, <3>4, DoesReauthorized, DoesCaptureDispatched DEF Moves, Hiding
      <3>5. CASE PageAnswersPing(c) \/ TokenExpires(c) \/ BrowserRenders(c)
        <4>1. capture'[c].stage = capture[c].stage
          BY <3>5, DoesPageAnswersPing, DoesTokenExpires, DoesBrowserRenders DEF Turned, Alike, Fields
        <4> QED BY <1>4, <4>1
      <3>6. CASE CaptureRefused(c) \/ PageUnavailable(c) \/ SuppressionFails(c) \/ CaptureEnds(c)
                 \/ LateCaptureSettles(c)
        BY <3>6, DoesEnd DEF Finishes, OverAs, Hiding
      <3> QED BY <3>1, <3>2, <3>3, <3>4, <3>5, <3>6 DEF CaptureActs, CaptureProceeds
    <2>2. PICK u \in Tabs : PageSuppresses(u) \/ PageConfirms(u)
      BY <1>4, <2>1, Steps, UserFrame DEF vars, PageNavigates, AddressChanges, TokenTimerFires, PageReleases
    <2> DEFINE h == Head(page[u].inbox).of
    <2>3. /\ h \in Captures /\ capture' # capture
          /\ \/ Moves(h, {"suppressing"}, "confirming", {"stage"})
             \/ /\ PageConfirms(u) /\ Token(h, u) \in LiveTokens(u)
                /\ Moves(h, {"confirming"}, "reauthorizing", {"stage"})
      BY <1>4, <2>2, DoesPage
    <2>4. /\ h = c /\ PageConfirms(u) /\ Token(c, u) \in LiveTokens(u)
          /\ capture[c].stage = "confirming" /\ Alike(capture'[c], capture[c], {"stage"})
      <3>1. h = c
        BY <1>4, <2>3 DEF Moves, Turned
      <3> QED BY <2>3, <3>1 DEF Moves, Turned, Hiding
    <2>5. page[u].inbox # <<>> /\ page'[u].tokens = LiveTokens(u)
      BY <2>4, PageActs
    <2>6. /\ capture[c].tab = u /\ capture'[c].tab = u
          /\ capture'[c].before.document = page[u].is.document
      BY <2>4, <2>5, FirstPost DEF PostOf, Alike, Fields
    <2> QED BY <2>4, <2>5, <2>6 DEF Token
  <1> QED BY <1>3, <1>4

-----------------------------------------------------------------------------
(* A picture that may be kept is clean.                                    *)

LEMMA ActsClean ==
  ASSUME Typed, Ordered, Hidden, Cleaned, NEW c \in Captures, CaptureActs(c)
  PROVE  CleanSoFar(capture'[c])
  <1> DEFINE r == capture[c]
             q == capture'[c]
  <1>1. CleanSoFar(r) /\ SeenInOrder(r, page[r.tab].is)
    BY DEF Cleaned, Ordered
  <1>2. CASE BrowserRenders(c)
    <2>1. /\ Alike(q, r, {"picture", "clean"}) /\ q.picture = page[r.tab].is
          /\ q.clean <=> Shown(r.tab) # {}
          /\ r.stage = "rendering"
      BY <1>2, DoesBrowserRenders DEF Turned
    <2>2. q.stage = r.stage /\ q.before = r.before /\ q.expired = r.expired
      BY <2>1 DEF Alike, Fields
    <2>3. CASE ~r.expired /\ page[r.tab].is.document = r.before.document
      <3>1. TokenOf(c) \in page[r.tab].tokens
        BY <2>1, <2>3 DEF Hidden, HiddenFor
      <3>2. TokenOf(c) \in Shown(r.tab)
        BY <2>3, <3>1 DEF TokenOf, Shown
      <3> QED BY <2>1, <3>2 DEF CleanSoFar
    <2> QED BY <2>1, <2>2, <2>3 DEF CleanSoFar
  <1>3. CASE PictureArrives(c) \/ AuthorityProved(c) \/ PictureAccepted(c)
    <2>1. /\ r.stage \in {"rendering", "proving", "comparing"} /\ Alike(q, r, {"stage", "after", "read"})
      BY <1>3, DoesPictureArrives, DoesAuthorityProved, DoesPictureAccepted DEF Moves, Turned, Alike
    <2> QED BY <1>1, <2>1 DEF CleanSoFar, Alike, Fields
  <1>4. CASE CaptureDispatched(c)
    <2>1. r.stage = "repinging" /\ Alike(q, r, {"stage", "read"})
      BY <1>4, DoesCaptureDispatched DEF Moves, Turned
    <2>2. q.picture = NoIdentity
      BY <1>1, <2>1 DEF SeenInOrder, Alike, Fields, Early
    <2> QED BY <2>2 DEF CleanSoFar
  <1>5. CASE PageAnswersPing(c) \/ TokenExpires(c)
    <2>1. Alike(q, r, {"read", "expired"}) /\ (r.expired => q.expired)
      BY <1>5, DoesPageAnswersPing, DoesTokenExpires, ActsOnward DEF Turned, Alike, Onward
    <2> QED BY <1>1, <2>1 DEF CleanSoFar, Alike, Fields
  <1>6. CASE \/ CaptureRequested(c) \/ SlotTaken(c) \/ SuppressionBegins(c) \/ Reauthorized(c)
             \/ PictureKept(c) \/ CaptureFails(c) \/ BrowserFails(c) \/ CaptureTimesOut(c) \/ HardExpiry(c)
    BY <1>6, DoesCaptureRequested, DoesSlotTaken, DoesSuppressionBegins, DoesReauthorized,
       DoesPictureKept, DoesCaptureFails, DoesCaptureTimesOut, DoesHardExpiry DEF Moves, CleanSoFar
  <1>7. CASE CaptureRefused(c) \/ PageUnavailable(c) \/ SuppressionFails(c) \/ CaptureEnds(c)
             \/ LateCaptureSettles(c)
    BY <1>7, DoesEnd DEF Finishes, OverAs, CleanSoFar
  <1> QED BY <1>2, <1>3, <1>4, <1>5, <1>6, <1>7 DEF CaptureActs, CaptureProceeds

\* The page turns a capture into one of two stages only.
LEMMA PageTurns ==
  ASSUME Typed, NEW t \in Tabs,
         \/ PageNavigates(t) \/ AddressChanges(t) \/ TokenTimerFires(t)
         \/ PageSuppresses(t) \/ PageConfirms(t) \/ PageReleases(t),
         NEW c \in Captures
  PROVE  \/ capture'[c] = capture[c]
         \/ capture'[c].stage \in {"confirming", "reauthorizing"}
  <1>1. CASE capture' # capture
    <2>0. PICK e \in Captures, s \in {"confirming", "reauthorizing"} :
              \E S : Moves(e, S, s, {"stage"})
      BY <1>1, DoesPage DEF PageNavigates, AddressChanges, TokenTimerFires, PageReleases
    <2>1. PICK S : Moves(e, S, s, {"stage"})
      BY <2>0
    <2> QED BY <2>0, <2>1 DEF Moves, Turned
  <1> QED BY <1>1

LEMMA CleanedStep == Typed /\ Ordered /\ Hidden /\ Cleaned /\ [Next]_vars => Cleaned'
  <1> SUFFICES ASSUME Typed, Ordered, Hidden, Cleaned, [Next]_vars, NEW c \in Captures
               PROVE  CleanSoFar(capture'[c])
    BY DEF Cleaned
  <1>1. CASE capture'[c] = capture[c]
    BY <1>1 DEF Cleaned
  <1>2. CASE capture'[c].stage \in {"confirming", "reauthorizing"}
    BY <1>2 DEF CleanSoFar
  <1>3. CASE UNCHANGED vars \/ UserActs
    BY <1>1, <1>3, UserFrame DEF vars
  <1>4. ASSUME NEW e \in Captures, CaptureActs(e) PROVE CleanSoFar(capture'[c])
    BY <1>1, <1>4, ActsClean, CaptureFrame
  <1> QED BY <1>1, <1>2, <1>3, <1>4, PageTurns, Steps

-----------------------------------------------------------------------------
(* The pictures that are kept.                                             *)

LEMMA KeptStep ==
  Typed /\ Len(artifacts) <= MaxArtifacts /\ Ordered /\ Bound /\ Cleaned /\ KeptWell /\ [Next]_vars => KeptWell'
  <1> SUFFICES ASSUME Typed, Len(artifacts) <= MaxArtifacts, Ordered, Bound, Cleaned, KeptWell, [Next]_vars
               PROVE  KeptWell'
    OBVIOUS
  <1>1. \A i \in DOMAIN artifacts : artifacts[i] \in Captures /\ AcceptedPicture(capture'[artifacts[i]])
    BY StepsOnward DEF KeptWell, Onward, Typed
  <1>2. CASE artifacts' = artifacts
    BY <1>1, <1>2 DEF KeptWell
  <1>3. CASE artifacts' = <<>>
    BY <1>3 DEF KeptWell
  <1>4. CASE \E k \in Nat : \A i \in DOMAIN artifacts' :
               i + k \in DOMAIN artifacts /\ artifacts'[i] = artifacts[i + k]
    BY <1>1, <1>4 DEF KeptWell
  <1>5. ASSUME NEW c \in Captures, PictureKept(c) PROVE KeptWell'
    <2>1. /\ Moves(c, {"hashing"}, "releasing", {"stage", "stamp", "answer"})
          /\ capture'[c].stamp = auth.instance /\ auth.live
      BY <1>5, DoesPictureKept
    <2>2. capture[c].stage = "hashing" /\ Alike(capture'[c], capture[c], {"stage", "stamp", "answer"})
      BY <2>1 DEF Moves, Turned
    <2>3. /\ SeenInOrder(capture[c], page[capture[c].tab].is) /\ CleanSoFar(capture[c])
          /\ auth.instance # 0
      BY <2>1 DEF Ordered, Cleaned, Bound
    <2>4. /\ SamePage(capture[c].after, capture[c].before)
          /\ Upto(capture[c].before, capture[c].picture) /\ Upto(capture[c].picture, capture[c].after)
          /\ \/ capture[c].clean \/ capture[c].expired
             \/ capture[c].picture.document # capture[c].before.document
      BY <2>2, <2>3 DEF SeenInOrder, CleanSoFar
    <2>5. AcceptedPicture(capture'[c])
      BY <2>1, <2>2, <2>3, <2>4 DEF AcceptedPicture, Alike, Fields, Moves
    <2>6. artifacts' = Append(artifacts, c) /\ artifacts \in Seq(Captures)
      BY <1>5 DEF PictureKept, Typed
    <2>7. \A i \in DOMAIN Append(artifacts, c) :
            \/ i \in DOMAIN artifacts /\ Append(artifacts, c)[i] = artifacts[i]
            \/ Append(artifacts, c)[i] = c
      BY <2>6, AppendProperties, LenProperties
    <2> QED BY <1>1, <2>5, <2>6, <2>7 DEF KeptWell
  <1>6. CASE UNCHANGED vars \/ UserActs
    BY <1>2, <1>3, <1>6, UserFrame DEF vars
  <1>7. ASSUME NEW c \in Captures, CaptureActs(c), ~PictureKept(c) PROVE KeptWell'
    <2>1. CASE SlotTaken(c)
      BY <1>4, <2>1, PrunedTyped DEF SlotTaken
    <2>2. CASE PictureAccepted(c)
      BY <1>4, <2>2, MakeRoomTyped DEF PictureAccepted
    <2>3. SlotTaken(c) \/ PictureAccepted(c) \/ artifacts' = artifacts
      BY <1>7 DEF CaptureActs, CaptureProceeds, CaptureRequested, CaptureRefused, SuppressionBegins,
       SuppressionFails, Reauthorized, CaptureDispatched, PictureArrives, AuthorityProved,
       CaptureFails, BrowserFails, Fails, CaptureEnds, CaptureTimesOut, PageAnswersPing, PageUnavailable,
       TokenExpires, BrowserRenders, LateCaptureSettles, HardExpiry
    <2> QED BY <1>2, <2>1, <2>2, <2>3
  <1>8. ASSUME NEW t \in Tabs,
               \/ PageNavigates(t) \/ AddressChanges(t) \/ TokenTimerFires(t)
               \/ PageSuppresses(t) \/ PageConfirms(t) \/ PageReleases(t)
        PROVE KeptWell'
    BY <1>2, <1>8, PageFrame
  <1> QED BY <1>5, <1>6, <1>7, <1>8, Steps

LEMMA RoomStep == Typed /\ SlotHeld /\ Room /\ [Next]_vars => Room'
  <1> SUFFICES ASSUME Typed, SlotHeld, Room, [Next]_vars PROVE Room'
    OBVIOUS
  <1>1. artifacts \in Seq(Captures) /\ Len(artifacts) \in Nat /\ MaxArtifacts \in Nat \ {0}
        /\ Len(artifacts) <= MaxArtifacts
    BY Numbers DEF Typed, Room
  <1>2. CASE Len(artifacts') < MaxArtifacts /\ Len(artifacts') \in Nat
    BY <1>1, <1>2 DEF Room
  <1>3. CASE /\ Len(artifacts') <= Len(artifacts) /\ Len(artifacts') \in Nat
             /\ \A c \in Captures : capture'[c].stage = "hashing" => capture[c].stage = "hashing"
    BY <1>1, <1>3 DEF Room
  <1>4. CASE UNCHANGED vars
    BY <1>1, <1>3, <1>4 DEF vars
  <1>5. CASE UserActs
    <2>1. capture' = capture /\ artifacts' \in {artifacts, <<>>}
      BY <1>5, UserFrame
    <2>2. Len(artifacts') <= Len(artifacts) /\ Len(artifacts') \in Nat
      BY <1>1, <2>1
    <2> QED BY <1>3, <2>1, <2>2
  <1>6. ASSUME NEW t \in Tabs,
               \/ PageNavigates(t) \/ AddressChanges(t) \/ TokenTimerFires(t)
               \/ PageSuppresses(t) \/ PageConfirms(t) \/ PageReleases(t)
        PROVE Room'
    BY <1>1, <1>3, <1>6, PageFrame, PageTurns
  <1>7. ASSUME NEW c \in Captures, CaptureActs(c) PROVE Room'
    <2>1. \A d \in Captures \ {c} : capture'[d] = capture[d]
      BY <1>7, CaptureFrame
    <2>2. CASE PictureAccepted(c)
      <3>1. artifacts' = MakeRoom(artifacts)
        BY <2>2 DEF PictureAccepted
      <3>2. Len(artifacts') < MaxArtifacts /\ Len(artifacts') \in Nat
        BY <1>1, <3>1, MakeRoomTyped
      <3> QED BY <1>2, <3>2
    <2>3. CASE PictureKept(c)
      <3>1. capture[c].stage = "hashing" /\ capture'[c].stage = "releasing" /\ artifacts' = Append(artifacts, c)
        BY <2>3, DoesPictureKept DEF Moves, PictureKept
      <3>2. Len(artifacts) < MaxArtifacts /\ Len(artifacts') = Len(artifacts) + 1
        BY <1>1, <3>1, AppendProperties DEF Room
      <3>3. \A d \in Captures : capture'[d].stage # "hashing"
        <4>1. SUFFICES ASSUME NEW d \in Captures \ {c}, capture[d].stage = "hashing" PROVE FALSE
          BY <2>1, <3>1
        <4>2. In(d, Holding) /\ In(c, Holding)
          BY <3>1, <4>1 DEF In, Holding
        <4> QED BY <4>1, <4>2 DEF SlotHeld
      <3> QED BY <1>1, <3>2, <3>3 DEF Room
    <2>4. CASE ~PictureAccepted(c) /\ ~PictureKept(c)
      <3>1. Len(artifacts') <= Len(artifacts) /\ Len(artifacts') \in Nat
        <4>1. CASE SlotTaken(c)
          BY <1>1, <4>1, PrunedTyped DEF SlotTaken
        <4>2. SlotTaken(c) \/ artifacts' = artifacts
          BY <1>7, <2>4 DEF CaptureActs, CaptureProceeds, CaptureRequested, CaptureRefused, SuppressionBegins,
           SuppressionFails, Reauthorized, CaptureDispatched, PictureArrives, AuthorityProved,
           CaptureFails, BrowserFails, Fails, CaptureEnds, CaptureTimesOut, PageAnswersPing, PageUnavailable,
           TokenExpires, BrowserRenders, LateCaptureSettles, HardExpiry
        <4> QED BY <1>1, <4>1, <4>2
      <3>2. capture'[c].stage = "hashing" => capture[c].stage = "hashing"
        <4>1. CASE \/ CaptureRequested(c) \/ SlotTaken(c) \/ SuppressionBegins(c) \/ PictureArrives(c)
                   \/ AuthorityProved(c) \/ CaptureFails(c) \/ BrowserFails(c) \/ Reauthorized(c) \/ CaptureDispatched(c)
                   \/ CaptureTimesOut(c) \/ HardExpiry(c)
          BY <4>1, DoesCaptureRequested, DoesSlotTaken, DoesSuppressionBegins, DoesPictureArrives,
             DoesAuthorityProved, DoesCaptureFails, DoesReauthorized, DoesCaptureDispatched,
             DoesCaptureTimesOut, DoesHardExpiry DEF Moves
        <4>2. CASE PageAnswersPing(c) \/ TokenExpires(c) \/ BrowserRenders(c)
          BY <4>2, DoesPageAnswersPing, DoesTokenExpires, DoesBrowserRenders DEF Turned, Alike, Fields
        <4>3. CASE CaptureRefused(c) \/ PageUnavailable(c) \/ SuppressionFails(c) \/ CaptureEnds(c)
                   \/ LateCaptureSettles(c)
          BY <4>3, DoesEnd DEF Finishes, OverAs
        <4> QED BY <1>7, <2>4, <4>1, <4>2, <4>3 DEF CaptureActs, CaptureProceeds
      <3> QED BY <1>3, <2>1, <3>1, <3>2
    <2> QED BY <2>2, <2>3, <2>4
  <1> QED BY <1>4, <1>5, <1>6, <1>7, Steps

-----------------------------------------------------------------------------
(* The theorems.                                                           *)

LEMMA InitIInv == Init => IInv
  <1> SUFFICES ASSUME Init PROVE IInv
    OBVIOUS
  <1>1. \A c \in Captures : /\ capture[c].stage = "idle" /\ capture[c].picture = NoIdentity
    BY DEF Init, Blank
  <1>2. artifacts = <<>> /\ \A t \in Tabs : page[t].inbox = <<>>
    BY DEF Init
  <1>3. SlotHeld /\ Hidden /\ Cleaned
    BY <1>1 DEF SlotHeld, In, Holding, Hidden, HiddenFor, Cleaned, CleanSoFar
  <1>4. Posted /\ KeptWell
    BY <1>2 DEF Posted, KeptWell
  <1>5. Room
    BY <1>1, <1>2, Numbers DEF Room
  <1> QED BY <1>3, <1>4, <1>5, InitTyped, InitOrdered, InitBound DEF IInv

\* The inductive invariant: types, the slot, what a capture has seen of its page in
\* order, the bindings it names in order, its messages, its token, its picture, and
\* room in the table for the one picture that is being made.
THEOREM CapturesInvariant == Spec => []IInv
  <1>1. IInv /\ [Next]_vars => IInv'
    <2> SUFFICES ASSUME IInv, [Next]_vars PROVE IInv'
      OBVIOUS
    <2>1. Typed'
      BY StepTyped DEF IInv, Room
    <2>2. SlotHeld' /\ Ordered' /\ Bound' /\ Posted'
      BY <2>1, SlotStep, OrderedStep, BoundStep, PostedStep DEF IInv
    <2>3. Hidden' /\ Cleaned' /\ KeptWell' /\ Room'
      BY HiddenStep, CleanedStep, KeptStep, RoomStep DEF IInv, Room
    <2> QED BY <2>1, <2>2, <2>3 DEF IInv
  <1> QED BY <1>1, InitIInv, PTL DEF Spec

\* The types of the state, with the limit on the pictures that are kept.
THEOREM TypeCorrect == Spec => []TypeOK
  <1>1. IInv => TypeOK
    BY DEF IInv, Typed, Room, TypeOK
  <1> QED BY <1>1, CapturesInvariant, PTL

\* One capture holds the slot (captureInFlight), late renders and their hard expiry included.
THEOREM OneHolder == Spec => []SlotHeld
  <1>1. IInv => SlotHeld
    BY DEF IInv
  <1> QED BY <1>1, CapturesInvariant, PTL

\* A picture that is kept shows the document and address first seen, or was taken on a
\* visit elsewhere between two at that page (sameCapturedDocument).
THEOREM TheRightPage == Spec => []PictureOfItsPage
  <1>1. ASSUME IInv, NEW c \in ToSet(artifacts)
        PROVE  LET r == capture[c] IN
               /\ SamePage(r.after, r.before)
               /\ \/ SamePage(r.picture, r.before)
                  \/ r.before.visit < r.picture.visit /\ r.picture.visit < r.after.visit
    <2> DEFINE r == capture[c]
    <2>1. c \in Captures /\ AcceptedPicture(r)
      BY <1>1 DEF IInv, KeptWell, Typed, ToSet
    <2>2. r.before.visit \in Nat /\ r.picture.visit \in Nat /\ r.after.visit \in Nat
      BY <1>1, <2>1 DEF IInv, Typed, CaptureStates, Identities
    <2>3. CASE r.before.visit = r.picture.visit \/ r.picture.visit = r.after.visit
      BY <2>1, <2>3 DEF AcceptedPicture, Upto, SamePage
    <2>4. CASE r.before.visit # r.picture.visit /\ r.picture.visit # r.after.visit
      BY <2>1, <2>2, <2>4 DEF AcceptedPicture, Upto
    <2> QED BY <2>1, <2>3, <2>4 DEF AcceptedPicture
  <1>2. IInv => PictureOfItsPage
    BY <1>1 DEF PictureOfItsPage
  <1> QED BY <1>2, CapturesInvariant, PTL

\* A picture that is kept has no overlay in it, unless its suppression had run out.
THEOREM NoOverlay == Spec => []PictureIsClean
  <1>1. IInv => PictureIsClean
    BY DEF IInv, KeptWell, AcceptedPicture, PictureIsClean, ToSet
  <1> QED BY <1>1, CapturesInvariant, PTL

\* A picture is delivered only if one binding was live throughout (postDelivery).
THEOREM OneAuthority == Spec => []DeliveredUnderOneBinding
  <1>1. IInv => DeliveredUnderOneBinding
    BY DEF IInv, Bound, UnderBindings, DeliveredUnderOneBinding
  <1> QED BY <1>1, CapturesInvariant, PTL
=============================================================================
