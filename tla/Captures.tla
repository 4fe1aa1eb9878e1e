------------------------------ MODULE Captures ------------------------------
(***************************************************************************)
(* Screenshots in the companion: captureScreenshot of companion/           *)
(* artifacts.js with the overlay suppression of agent-presence.js, from    *)
(* the request to the descriptor that is answered.  A capture waits nine   *)
(* times (for the tab, the page, the browser's renderer, the digest) and   *)
(* proves its authority and its document again after the waits that        *)
(* matter; one capture runs at a time, held by a slot.                     *)
(*                                                                         *)
(* One action is one segment between two awaits.  The page is a separate   *)
(* actor: it reads its messages in order, when it likes, and navigates at  *)
(* any moment.  Abstracted: rectangles, formats and byte counts; the three *)
(* attempts of a release (a message is lost only with its document, and a  *)
(* release is idempotent, so one stands for three); the TTL of pictures;   *)
(* the audience, which a binding determines.                               *)
(***************************************************************************)
EXTENDS Naturals, Sequences, FiniteSets, SequencesExt

CONSTANTS
    Tabs,          \* browser tabs
    Captures,      \* screenshot requests, each made at most once
    NoCapture,     \* the free slot
    MaxBindings,   \* bound: bindings the user creates
    Documents,     \* documents a tab may show
    Addresses,     \* addresses a page may show
    MaxPage,       \* bound: navigations and address changes of a tab
    MaxArtifacts   \* SHOT_MAX_ARTIFACTS: pictures kept

ASSUME CapturesAssumption ==
    /\ NoCapture \notin Captures
    /\ Documents \subseteq Nat /\ Documents # {} /\ Addresses \subseteq Nat /\ Addresses # {}
    /\ MaxBindings \in Nat /\ MaxPage \in Nat /\ MaxArtifacts \in Nat \ {0}

VARIABLES
    auth,      \* the live binding (0: none) and the tabs a capture may be taken of
    page,      \* what each tab shows, the suppression tokens of its documents, unread messages
    slot,      \* captureInFlight
    capture,   \* the screenshot requests
    artifacts  \* the pictures kept, oldest first

vars == <<auth, page, slot, capture, artifacts>>

-----------------------------------------------------------------------------
(* A page is known by its document and its address: history.pushState      *)
(* changes the second only, and a tab may go back to either.  The code     *)
(* does not see the visit, which no two stays at a page share.             *)
Identities == [document : Nat, address : Nat, visit : Nat]
NoIdentity == [document |-> 0, address |-> 0, visit |-> 0]
Messages   == [kind : {"suppress", "confirm", "release"}, of : Captures]
Tokens     == [of : Captures, document : Nat]
Pages      == [is : Identities, tokens : SUBSET Tokens, inbox : Seq(Messages)]

Stages == {"idle", "authorizing", "pinging", "suppressing", "confirming", "reauthorizing",
           "repinging", "rendering", "proving", "comparing", "hashing", "releasing",
           "late", "abandoned", "done"}

CaptureStates ==
    [stage : Stages, tab : Tabs,
     asked : Nat,                     \* the binding handleRequest authorized
     lineage : Nat,                   \* the binding captureScreenshot started under
     before : Identities,             \* the first answer of the page
     read : Identities,               \* an answer of the page not yet looked at
     after : Identities,              \* history: its last answer, once compared
     expired : BOOLEAN,               \* the 30 s of the suppression token are over
     picture : Identities,            \* what the renderer saw
     clean : BOOLEAN,                 \* no agent overlay in it
     stamp : Nat,                     \* bindingInstanceId of the picture
     answer : {"none", "ok", "failed", "denied"}]

(* The stages in which a capture has taken the slot and not yet given it back. *)
Holding == {"pinging", "suppressing", "confirming", "reauthorizing", "repinging",
            "rendering", "proving", "comparing", "hashing", "releasing", "late"}

In(c, stages) == capture[c].stage \in stages

(* contextAuthorizationCurrent for "capture", with the scope of this moment. *)
Covered(c) == auth.live /\ capture[c].tab \in auth.covers

LineageCurrent(c) == auth.live /\ auth.instance = capture[c].lineage

SamePage(i, j) == i.document = j.document /\ i.address = j.address

(* sameCapturedDocument: the page that answered is the page first seen. *)
SameDocument(c) == SamePage(capture[c].read, capture[c].before)

-----------------------------------------------------------------------------
(* releaseSlot gives the slot back only if it is still this capture's. *)
ReleaseSlot(c) == IF slot = c THEN NoCapture ELSE slot

(* MUTANT of Delivered: the authority is not looked at again. *)
Delivered_Unchecked(c, result) == result

(* postDelivery: a result leaves only under the binding of its request. *)
Delivered(c, result) ==
    IF auth.live /\ auth.instance = capture[c].asked THEN result ELSE "denied"

(* The messages to the page of a capture; a document that is gone gets none,
   and releaseOverlaySuppression sends nothing once the token has run out. *)
Sent(c, kind) ==
    LET t == capture[c].tab IN
    IF page[t].is.document # capture[c].before.document
       \/ (kind = "release" /\ capture[c].expired)
    THEN page
    ELSE [page EXCEPT ![t].inbox = Append(@, [kind |-> kind, of |-> c])]

-----------------------------------------------------------------------------
(* The user and the page *)

(* A grant or a rebind: a new binding; every change of authority drops the
   pictures (clearCachesForAuthorityChange). *)
UserBinds ==
    /\ auth.instance < MaxBindings
    /\ \E covers \in SUBSET Tabs \ {{}} :
         auth' = [instance |-> auth.instance + 1, live |-> TRUE, covers |-> covers]
    /\ artifacts' = <<>>
    /\ UNCHANGED <<page, slot, capture>>

(* Revocation, expiry, loss of the host. *)
AuthorityEnds ==
    /\ auth.live
    /\ auth' = [auth EXCEPT !.live = FALSE, !.covers = {}]
    /\ artifacts' = <<>>
    /\ UNCHANGED <<page, slot, capture>>

(* A tab leaves the scope, or shows a site the user has to confirm. *)
AccessWithdrawn ==
    /\ \E t \in auth.covers : auth' = [auth EXCEPT !.covers = @ \ {t}]
    /\ UNCHANGED <<page, slot, capture, artifacts>>

AccessConfirmed ==
    /\ auth.live
    /\ \E t \in Tabs \ auth.covers : auth' = [auth EXCEPT !.covers = @ \cup {t}]
    /\ UNCHANGED <<page, slot, capture, artifacts>>

Visits(t, d, a) == [document |-> d, address |-> a, visit |-> page[t].is.visit + 1]

(* A new document, or one the tab goes back to, as it was left (back-forward
   cache); no message meant for the old one reaches it.  The addresses of two
   documents are never compared, so this one keeps the other's. *)
PageNavigates(t) ==
    /\ page[t].is.visit <= MaxPage
    /\ \E d \in Documents \ {page[t].is.document} :
         page' = [page EXCEPT ![t].is = Visits(t, d, @.address), ![t].inbox = <<>>]
    /\ UNCHANGED <<auth, slot, capture, artifacts>>

(* The same document shows another address: pushState, replaceState, back. *)
AddressChanges(t) ==
    /\ page[t].is.visit <= MaxPage
    /\ \E a \in Addresses \ {page[t].is.address} :
         page' = [page EXCEPT ![t].is = Visits(t, @.document, a)]
    /\ UNCHANGED <<auth, slot, capture, artifacts>>

-----------------------------------------------------------------------------
(* The presence runtime of the page (agent-presence.js) *)

Token(c, t)  == [of |-> c, document |-> page[t].is.document]
Shown(t)     == {k \in page[t].tokens : k.document = page[t].is.document}

(* removeExpiredTokens, which runs before every message is answered. *)
LiveTokens(t) == page[t].tokens \ {k \in Shown(t) : capture[k.of].expired}

(* suppress hides the overlay under the token of this capture; the answer
   takes the capture on to its confirmation. *)
PageSuppresses(t) ==
    /\ page[t].inbox # <<>> /\ Head(page[t].inbox).kind = "suppress"
    /\ LET c == Head(page[t].inbox).of
           asks == IF capture[c].stage = "suppressing"
                   THEN <<[kind |-> "confirm", of |-> c]>> ELSE <<>>
       IN /\ page' = [page EXCEPT ![t].tokens = LiveTokens(t) \cup {Token(c, t)},
                                  ![t].inbox = Tail(@) \o asks]
          /\ capture' = [capture EXCEPT ![c].stage = IF asks # <<>> THEN "confirming" ELSE @]
    /\ UNCHANGED <<auth, slot, artifacts>>

(* confirmSuppression answers after the page was painted, if the token is still there. *)
PageConfirms(t) ==
    /\ page[t].inbox # <<>> /\ Head(page[t].inbox).kind = "confirm"
    /\ LET c == Head(page[t].inbox).of
           confirmed == Token(c, t) \in LiveTokens(t) /\ capture[c].stage = "confirming"
       IN /\ page' = [page EXCEPT ![t].tokens = LiveTokens(t), ![t].inbox = Tail(@)]
          /\ capture' = [capture EXCEPT ![c].stage = IF confirmed THEN "reauthorizing" ELSE @]
    /\ UNCHANGED <<auth, slot, artifacts>>

(* release takes back the token of this capture and no other. *)
PageReleases(t) ==
    /\ page[t].inbox # <<>> /\ Head(page[t].inbox).kind = "release"
    /\ page' = [page EXCEPT ![t].tokens = LiveTokens(t) \ {Token(Head(page[t].inbox).of, t)},
                            ![t].inbox = Tail(@)]
    /\ UNCHANGED <<auth, slot, capture, artifacts>>

(* The timer of a token: the page shows the overlay again by itself. *)
TokenTimerFires(t) ==
    /\ LiveTokens(t) # page[t].tokens
    /\ page' = [page EXCEPT ![t].tokens = LiveTokens(t)]
    /\ UNCHANGED <<auth, slot, capture, artifacts>>

(* The 30 seconds of a suppression are over. *)
TokenExpires(c) ==
    /\ capture[c].stage \in {"suppressing", "confirming", "reauthorizing", "repinging",
                             "rendering", "proving", "comparing", "hashing", "releasing", "late"}
    /\ ~capture[c].expired
    /\ capture' = [capture EXCEPT ![c].expired = TRUE]
    /\ UNCHANGED <<auth, page, slot, artifacts>>

-----------------------------------------------------------------------------
(* captureScreenshot *)

Step(c, stage) == capture' = [capture EXCEPT ![c].stage = stage]

Blank(t) ==
    [stage |-> "idle", tab |-> t, asked |-> 0, lineage |-> 0, before |-> NoIdentity,
     read |-> NoIdentity, after |-> NoIdentity, expired |-> FALSE, picture |-> NoIdentity,
     clean |-> FALSE, stamp |-> 0, answer |-> "none"]

(* What is left of a capture that is over: of one that made no picture only its
   token, if it has one. *)
Over(c, answer) ==
    IF capture[c].stamp # 0 THEN [capture[c] EXCEPT !.stage = "done", !.answer = answer]
    ELSE [Blank(capture[c].tab) EXCEPT !.stage = "done", !.expired = capture[c].expired,
                                       !.answer = answer]

Ended(c, result) == capture' = [capture EXCEPT ![c] = Over(c, Delivered(c, result))]

(* handleRequest authorizes the request; contextAuthorization waits for the tab. *)
CaptureRequested(c) ==
    /\ capture[c].stage = "idle" /\ auth.live
    /\ \E t \in Tabs : capture' = [capture EXCEPT ![c].stage = "authorizing", ![c].tab = t,
                                                  ![c].asked = auth.instance]
    /\ UNCHANGED <<auth, page, slot, artifacts>>

(* pruneArtifacts: the pictures of other bindings leave.  Bindings only get
   newer, so these are the oldest pictures. *)
Pruned ==
    LET others == {i \in DOMAIN artifacts : capture[artifacts[i]].stamp # auth.instance}
    IN SubSeq(artifacts, Cardinality(others) + 1, Len(artifacts))

(* MUTANT of SlotTaken: the slot is looked at before the tab is waited for. *)
SlotTaken_Unchecked(c) ==
    /\ capture[c].stage = "authorizing"
    /\ Covered(c)
    /\ slot' = c
    /\ capture' = [capture EXCEPT ![c].stage = "pinging", ![c].lineage = auth.instance]
    /\ artifacts' = Pruned
    /\ UNCHANGED <<auth, page>>

(* The tab may be captured: take the slot, prune the pictures of other
   bindings, ask the page who it is. *)
SlotTaken(c) ==
    /\ capture[c].stage = "authorizing"
    /\ Covered(c) /\ slot = NoCapture
    /\ slot' = c
    /\ capture' = [capture EXCEPT ![c].stage = "pinging", ![c].lineage = auth.instance]
    /\ artifacts' = Pruned
    /\ UNCHANGED <<auth, page>>

(* Not shared, another capture runs (RESOURCE_BUSY). *)
CaptureRefused(c) ==
    /\ capture[c].stage = "authorizing"
    /\ ~Covered(c) \/ slot # NoCapture
    /\ Ended(c, "failed")
    /\ UNCHANGED <<auth, page, slot, artifacts>>

(* A ping is answered by the page of that moment; the answer is read later. *)
PageAnswersPing(c) ==
    /\ capture[c].stage \in {"pinging", "repinging", "comparing"}
    /\ capture[c].read = NoIdentity
    /\ capture' = [capture EXCEPT ![c].read = page[capture[c].tab].is]
    /\ UNCHANGED <<auth, page, slot, artifacts>>

(* MUTANT of SuppressionBegins: the answer of the page is not waited for. *)
SuppressionBegins_Unconfirmed(c) ==
    LET t == capture[c].tab  before == capture[c].read IN
    /\ capture[c].stage = "pinging" /\ before # NoIdentity
    /\ capture' = [capture EXCEPT ![c].stage = "reauthorizing", ![c].before = before,
                                  ![c].read = NoIdentity]
    /\ page' = IF page[t].is.document = before.document
               THEN [page EXCEPT ![t].inbox = Append(@, [kind |-> "suppress", of |-> c])] ELSE page
    /\ UNCHANGED <<auth, slot, artifacts>>

(* beginOverlaySuppression: the document that answered is asked to hide the overlay. *)
SuppressionBegins(c) ==
    LET t == capture[c].tab  before == capture[c].read IN
    /\ capture[c].stage = "pinging" /\ before # NoIdentity
    /\ capture' = [capture EXCEPT ![c].stage = "suppressing", ![c].before = before,
                                  ![c].read = NoIdentity]
    /\ page' = IF page[t].is.document = before.document
               THEN [page EXCEPT ![t].inbox = Append(@, [kind |-> "suppress", of |-> c])] ELSE page
    /\ UNCHANGED <<auth, slot, artifacts>>

(* An answer does not come in a second, or says no: the capture fails, and a
   release is sent without waiting for it. *)
SuppressionFails(c) ==
    /\ capture[c].stage \in {"suppressing", "confirming"}
    /\ page' = Sent(c, "release")
    /\ slot' = ReleaseSlot(c)
    /\ Ended(c, "failed")
    /\ UNCHANGED <<auth, artifacts>>

(* Confirmed: is the capture still allowed?  Then the page is asked once more. *)
Reauthorized(c) ==
    /\ capture[c].stage = "reauthorizing"
    /\ LineageCurrent(c) /\ Covered(c)
    /\ Step(c, "repinging")
    /\ UNCHANGED <<auth, page, slot, artifacts>>

(* The last checks and captureTab are one segment. *)
CaptureDispatched(c) ==
    /\ capture[c].stage = "repinging" /\ capture[c].read # NoIdentity
    /\ SameDocument(c) /\ LineageCurrent(c) /\ Covered(c)
    /\ capture' = [capture EXCEPT ![c].stage = "rendering", ![c].read = NoIdentity]
    /\ UNCHANGED <<auth, page, slot, artifacts>>

(* The browser renders what the tab shows then.  Of a late render nothing is
   read any more. *)
BrowserRenders(c) ==
    LET t == capture[c].tab IN
    /\ capture[c].stage = "rendering"
    /\ capture[c].picture = NoIdentity
    /\ capture' = [capture EXCEPT ![c].picture = page[t].is,
                                  ![c].clean = Shown(t) # {}]
    /\ UNCHANGED <<auth, page, slot, artifacts>>

(* The picture arrives in time; authority is proved again, which waits for the tab. *)
PictureArrives(c) ==
    /\ capture[c].stage = "rendering" /\ capture[c].picture # NoIdentity
    /\ LineageCurrent(c)
    /\ Step(c, "proving")
    /\ UNCHANGED <<auth, page, slot, artifacts>>

AuthorityProved(c) ==
    /\ capture[c].stage = "proving" /\ Covered(c)
    /\ Step(c, "comparing")
    /\ UNCHANGED <<auth, page, slot, artifacts>>

(* MUTANT of MakeRoom: nothing leaves when the table is full. *)
MakeRoom_None(kept) == kept

(* Pictures leave, oldest first, until there is room for one more. *)
MakeRoom(kept) ==
    IF Len(kept) >= MaxArtifacts THEN SubSeq(kept, Len(kept) - MaxArtifacts + 2, Len(kept)) ELSE kept

(* MUTANT of PictureAccepted: the answer of the page is not compared. *)
PictureAccepted_AnyDocument(c) ==
    /\ capture[c].stage = "comparing" /\ capture[c].read # NoIdentity
    /\ artifacts' = MakeRoom(artifacts)
    /\ capture' = [capture EXCEPT ![c].stage = "hashing", ![c].after = capture[c].read,
                                  ![c].read = NoIdentity]
    /\ UNCHANGED <<auth, page, slot>>

(* The page is still the one first seen: make room and wait for the digest. *)
PictureAccepted(c) ==
    /\ capture[c].stage = "comparing" /\ capture[c].read # NoIdentity
    /\ SameDocument(c)
    /\ artifacts' = MakeRoom(artifacts)
    /\ capture' = [capture EXCEPT ![c].stage = "hashing", ![c].after = capture[c].read,
                                  ![c].read = NoIdentity]
    /\ UNCHANGED <<auth, page, slot>>

(* The digest is there: the picture is stamped with the binding of this
   moment and kept. *)
PictureKept(c) ==
    /\ capture[c].stage = "hashing" /\ auth.live
    /\ capture' = [capture EXCEPT ![c].stage = "releasing", ![c].stamp = auth.instance,
                                  ![c].answer = "ok"]
    /\ artifacts' = Append(artifacts, c)
    /\ page' = Sent(c, "release")
    /\ UNCHANGED <<auth, slot>>

(* The overlay is released, then the slot. *)
Fails(c) ==
    /\ capture' = [capture EXCEPT ![c] = [Over(c, "failed") EXCEPT !.stage = "releasing",
                                                                   !.asked = capture[c].asked]]
    /\ page' = Sent(c, "release")
    /\ UNCHANGED <<auth, slot, artifacts>>

(* A ping or captureTab is rejected, or the picture is not a valid image. *)
BrowserFails(c) ==
    /\ capture[c].stage \in {"repinging", "rendering", "comparing"}
    /\ Fails(c)

(* A check of authority or of the page fails. *)
CaptureFails(c) ==
    /\ \/ capture[c].stage \in {"reauthorizing", "rendering"} /\ ~LineageCurrent(c)
       \/ capture[c].stage \in {"reauthorizing", "proving"} /\ ~Covered(c)
       \/ capture[c].stage = "repinging" /\ capture[c].read # NoIdentity
          /\ ~(SameDocument(c) /\ LineageCurrent(c) /\ Covered(c))
       \/ capture[c].stage = "comparing" /\ capture[c].read # NoIdentity /\ ~SameDocument(c)
       \/ capture[c].stage = "hashing" /\ ~auth.live
    /\ Fails(c)

(* The first ping is rejected, before the overlay is hidden: nothing to release. *)
PageUnavailable(c) ==
    /\ capture[c].stage = "pinging"
    /\ slot' = ReleaseSlot(c)
    /\ Ended(c, "failed")
    /\ UNCHANGED <<auth, page, artifacts>>

(* The release was answered or given up after its attempts. *)
CaptureEnds(c) ==
    /\ capture[c].stage = "releasing"
    /\ slot' = ReleaseSlot(c)
    /\ Ended(c, capture[c].answer)
    /\ UNCHANGED <<auth, page, artifacts>>

(* 20 seconds without a picture: the caller is answered, the slot and the
   suppression stay with the render that still runs. *)
CaptureTimesOut(c) ==
    /\ capture[c].stage = "rendering"
    /\ capture' = [capture EXCEPT ![c].stage = "late", ![c].picture = NoIdentity,
                                  ![c].clean = FALSE, ![c].answer = Delivered(c, "failed")]
    /\ UNCHANGED <<auth, page, slot, artifacts>>

(* settleLateCapture: a late render is over or rejected, its picture is dropped. *)
LateCaptureSettles(c) ==
    /\ capture[c].stage \in {"late", "abandoned"}
    /\ page' = Sent(c, "release")
    /\ slot' = ReleaseSlot(c)
    /\ capture' = [capture EXCEPT ![c] = Over(c, @.answer)]
    /\ UNCHANGED <<auth, artifacts>>

(* MUTANT of HardExpiry: only the renderer ends a late capture. *)
HardExpiry_Never(c) == FALSE /\ UNCHANGED vars

(* The hard expiry gives the slot back although the render still runs. *)
HardExpiry(c) ==
    /\ capture[c].stage = "late" /\ capture[c].expired
    /\ slot' = ReleaseSlot(c)
    /\ Step(c, "abandoned")
    /\ UNCHANGED <<auth, page, artifacts>>

-----------------------------------------------------------------------------
Init ==
    /\ auth = [instance |-> 0, live |-> FALSE, covers |-> {}]
    /\ page = [t \in Tabs |-> [is |-> [document |-> CHOOSE d \in Documents : TRUE,
                                       address |-> CHOOSE a \in Addresses : TRUE, visit |-> 1],
                               tokens |-> {}, inbox |-> <<>>]]
    /\ slot = NoCapture
    /\ capture \in [Captures -> {Blank(t) : t \in Tabs}]
    /\ artifacts = <<>>

CaptureProceeds(c) ==
    \/ SlotTaken(c) \/ CaptureRefused(c) \/ SuppressionBegins(c) \/ SuppressionFails(c)
    \/ Reauthorized(c) \/ CaptureDispatched(c) \/ PictureArrives(c) \/ AuthorityProved(c)
    \/ PictureAccepted(c) \/ PictureKept(c) \/ CaptureFails(c) \/ CaptureEnds(c)
    \/ CaptureTimesOut(c)

Next ==
    \/ UserBinds \/ AuthorityEnds \/ AccessWithdrawn \/ AccessConfirmed
    \/ \E t \in Tabs : \/ PageNavigates(t) \/ AddressChanges(t) \/ PageSuppresses(t)
                       \/ PageConfirms(t) \/ PageReleases(t) \/ TokenTimerFires(t)
    \/ \E c \in Captures : \/ CaptureRequested(c) \/ CaptureProceeds(c) \/ PageAnswersPing(c)
                           \/ PageUnavailable(c) \/ TokenExpires(c) \/ BrowserRenders(c)
                           \/ BrowserFails(c) \/ LateCaptureSettles(c) \/ HardExpiry(c)

(* The browser's own promises settle and timers fire.  Whether the renderer
   ever finishes, and whether a page ever answers a ping, is not assumed. *)
Fairness == \A c \in Captures :
    /\ WF_vars(CaptureProceeds(c))
    /\ WF_vars(TokenExpires(c))
    /\ WF_vars(HardExpiry(c))

Spec == Init /\ [][Next]_vars /\ Fairness

-----------------------------------------------------------------------------
TypeOK ==
    /\ auth \in [instance : 0..MaxBindings, live : BOOLEAN, covers : SUBSET Tabs]
    /\ page \in [Tabs -> Pages]
    /\ slot \in Captures \cup {NoCapture}
    /\ capture \in [Captures -> CaptureStates]
    /\ artifacts \in Seq(Captures) /\ Len(artifacts) <= MaxArtifacts

(* A capture that has not given back the slot has it: a late render, its hard
   expiry and the captures after it never take each other's slot, so two
   captures never coordinate the overlay of a page at once (releaseSlot
   compares the uuid of the capture). *)
SlotHeld == \A c \in Captures : In(c, Holding) => slot = c

(* A picture that is kept shows the document and the address first seen, or the
   page was left after the first answer and was back before the last, which is
   all that the three answers can tell apart (sameCapturedDocument). *)
PictureOfItsPage ==
    \A c \in ToSet(artifacts) :
        LET k == capture[c] IN
        /\ SamePage(k.after, k.before)
        /\ \/ SamePage(k.picture, k.before)
           \/ k.before.visit < k.picture.visit /\ k.picture.visit < k.after.visit

(* A picture of the document first seen is free of the agent's own overlay
   unless its suppression had run out: no other capture's release or failure,
   and no way the page goes and comes back, shows the overlay early. *)
PictureIsClean ==
    \A c \in ToSet(artifacts) :
        \/ capture[c].clean \/ capture[c].expired
        \/ capture[c].picture.document # capture[c].before.document

(* A caller is told of a picture only if one binding was live from its
   request through the capture to the stamp: the digest is waited for without
   another check, and it is the delivery that refuses what it let through. *)
DeliveredUnderOneBinding ==
    \A c \in Captures : capture[c].stage = "done" /\ capture[c].answer = "ok" =>
        capture[c].asked = capture[c].lineage /\ capture[c].lineage = capture[c].stamp

AwaitsPage(c) == In(c, {"pinging", "repinging", "comparing"}) /\ capture[c].read = NoIdentity

(* The slot comes back even if the browser never finishes a render; only a page
   that never answers a ping, which has no timeout, keeps it. *)
SlotComesBack == \A c \in Captures : []<>(slot # c) \/ <>[]AwaitsPage(c)
=============================================================================
