--------------------------- MODULE AssetTransfer ---------------------------
(***************************************************************************)
(* The bytes of an image leave the page in chunks.  A runtime in the page  *)
(* fetches and reads the stream (companion/asset-transfer-v1.js); the      *)
(* background page (background.js) checks access, gives the agent opaque   *)
(* handles and calls the runtime with a timeout.  The older lane A1        *)
(* (asset-a1-experimental.js and the a1 functions of background.js) does   *)
(* the same with other checks in other places: `lane` says which of the    *)
(* two a behaviour uses, and where they differ they have actions of their  *)
(* own.                                                                    *)
(*                                                                         *)
(* A stream is the items 1..Length and the end of file; a chunk is one     *)
(* item, so that sequence and offset are the same number.  Abstracted: the *)
(* bytes and their digest, labels and sizes of images, and the checks on   *)
(* the source of an image, which only refuse to open it.                   *)
(***************************************************************************)
EXTENDS Naturals, FiniteSets

CONSTANTS
    Requests,     \* requests that may be in flight together
    Length,       \* items of a stream
    Cap,          \* MAX_ACTIVE_TRANSFERS, of the page and of the background page
    MaxOpens,     \* bound: transfers the page opens
    MaxChanges    \* bound: navigations, reductions and ends of the binding

ASSUME AssetTransferAssumption ==
    /\ Length \in Nat /\ Cap \in Nat \ {0} /\ MaxOpens \in Nat
    /\ MaxChanges \in Nat

VARIABLES
    lane,         \* which of the two implementations is used
    changes,      \* bound: navigations, reductions and ends of the binding
    binding,      \* the number of the live binding
    page,         \* the number of the document in the tab
    transfer,     \* transfers, the map of the page, and what became of its members
    refs,         \* assetV1Refs: documents whose images have been discovered
    registry,     \* assetV1Transfers: handles the background page honours
    lapsed,       \* those of them whose two minutes are over
    known,        \* history: handles of the registry that were given to the agent
    req,          \* requests, in the background page
    work          \* what the page does for them

vars == <<lane, changes, binding, page, transfer, refs, registry, lapsed, known, req, work>>

-----------------------------------------------------------------------------
Lanes    == {"v1", "a1"}
Handles  == 1..MaxOpens
Eof      == Length + 1
Position == 0..Length     \* where a chunk is asked for

Transfers ==
    [is : {"unborn", "open", "closed"}, by : 0..MaxChanges, doc : 0..MaxChanges,
     taken : 0..Eof,        \* items the reader has given
     next : 0..Eof,         \* nextSequence and nextOffset
     replay : 0..Eof,       \* the item of the last chunk, or 0
     terminal : BOOLEAN, busy : BOOLEAN, late : BOOLEAN]

Asked == [kind : {"open", "read", "close"}, on : 0..MaxOpens, doc : 0..MaxChanges,
          pos : Position, lineage : 0..MaxChanges, cancelled : BOOLEAN,
          reached : BOOLEAN,     \* assetV1RequestContexts, a1RequestContexts
          stage : {"idle", "checking", "calling", "abandoned"}]

Works == [is : {"none", "fetching", "reading", "answered", "failed"},
          item : 0..Eof, handle : 0..MaxOpens]

Transfer(is, by, doc) ==
    [is |-> is, by |-> by, doc |-> doc, taken |-> 0, next |-> 0, replay |-> 0,
     terminal |-> FALSE, busy |-> FALSE, late |-> FALSE]
Unborn == Transfer("unborn", 0, 0)
NoRequest == [kind |-> "open", on |-> 0, doc |-> 0, pos |-> 0, lineage |-> 0,
              cancelled |-> FALSE, reached |-> FALSE, stage |-> "idle"]
NoWork == [is |-> "none", item |-> 0, handle |-> 0]

Open == {h \in Handles : transfer[h].is = "open"}
Late == {h \in Open : transfer[h].late}

(* closeTransfer: gone from the map, its fetch aborted and its reader cancelled;
   a read of it that is under way fails. *)
Closed(hs) == [h \in Handles |->
    IF h \in hs /\ transfer[h].is = "open" THEN Transfer("closed", transfer[h].by, transfer[h].doc)
    ELSE transfer[h]]

Becomes(r, what) == work' = [work EXCEPT ![r].is = what]
Fails(r)   == Becomes(r, "failed")
Gives(r, item) == work' = [work EXCEPT ![r].is = "answered", ![r].item = item]

-----------------------------------------------------------------------------
(* The background page *)

Ends(r) == req' = [req EXCEPT ![r] = NoRequest]

(* clearCachesForAuthorityChange; the page is told nothing, nor can a request
   that is in the page be cancelled there any more. *)
ClearRegistries ==
    /\ refs' = {} /\ registry' = {} /\ lapsed' = {} /\ known' = {}
    /\ req' = [r \in Requests |-> [req[r] EXCEPT !.reached = FALSE]]

(* cleanupAssetV1Registries tells the page, cleanupA1Registries does not. *)
Cleaned == registry' = registry \ lapsed /\ known' = known \ lapsed /\ lapsed' = {}
V1Cleanup == Cleaned /\ transfer' = Closed(lapsed)
A1Cleanup == Cleaned /\ UNCHANGED transfer
Cleanup == IF lane = "v1" THEN V1Cleanup ELSE A1Cleanup

Idle(r) == req[r] = NoRequest /\ work[r] = NoWork

(* discoverAssets: references to images of the document. *)
Discovered == refs \cup {page}

(* assetDiscoverV1: two calls must meet the same document. *)
V1Discover ==
    /\ lane = "v1" /\ refs' = Discovered
    /\ UNCHANGED <<lane, changes, binding, page, transfer, registry, lapsed, known, req, work>>

(* a1AssetDiscover: the page and the background page also forget what has lapsed. *)
A1Discover ==
    /\ lane = "a1" /\ refs' = Discovered
    /\ Cleaned /\ transfer' = Closed(Late)
    /\ UNCHANGED <<lane, changes, binding, page, req, work>>

Asks(r, kind, on, doc, pos) ==
    req' = [req EXCEPT ![r] = [kind |-> kind, on |-> on, doc |-> doc, pos |-> pos, lineage |-> binding,
                               cancelled |-> FALSE, reached |-> FALSE, stage |-> "checking"]]

AskOpen(r) ==
    /\ Idle(r) /\ Cleanup
    /\ \E d \in refs : Asks(r, "open", 0, d, 0)
    /\ UNCHANGED <<lane, changes, binding, page, refs, work>>

(* The agent reads on, reads the chunk again, or loses count. *)
AskRead(r) ==
    /\ Idle(r) /\ Cleanup
    /\ \E h \in known', pos \in Position : Asks(r, "read", h, 0, pos)
    /\ UNCHANGED <<lane, changes, binding, page, refs, work>>

AskClose(r) ==
    /\ Idle(r) /\ Cleanup
    /\ \E h \in known' : Asks(r, "close", h, 0, 0)
    /\ UNCHANGED <<lane, changes, binding, page, refs, work>>

Checking(r, kind) == req[r].stage = "checking" /\ req[r].kind = kind

(* openAsset, up to the fetch.  The newer lane counts its transfers first and
   never cleans up. *)
V1OpenBegins(r) ==
    /\ IF Cardinality(Open) >= Cap THEN Fails(r) ELSE Becomes(r, "fetching")
    /\ UNCHANGED transfer

(* The older lane cleans up first, and counts when the fetch is over. *)
A1OpenBegins(r) == transfer' = Closed(Late) /\ Becomes(r, "fetching")

(* MUTANT of Busy: nothing tells that a read is under way. *)
Busy_Never(h) == FALSE

(* Only the newer lane looks whether the transfer is being read. *)
Busy(h) == lane = "v1" /\ transfer[h].busy

(* readChunk, up to the read of the stream. *)
ReadBegins(r) ==
    LET h == req[r].on
        t == Closed(Late)[h]
        again == t.is = "open" /\ t.replay # 0 /\ req[r].pos = t.next - 1
        reads == t.is = "open" /\ ~again /\ ~Busy(h) /\ ~t.terminal
    IN \/ again /\ Gives(r, t.replay) /\ transfer' = Closed(Late)
       \/ ~again /\ ~reads /\ Fails(r) /\ transfer' = Closed(Late)
       \/ reads /\ req[r].pos # t.next /\ Fails(r) /\ transfer' = Closed(Late \cup {h})
       \/ /\ reads /\ req[r].pos = t.next /\ Becomes(r, "reading")
          /\ transfer' = [Closed(Late) EXCEPT ![h] = [@ EXCEPT !.busy = TRUE, !.replay = 0]]

(* closeAsset. *)
CloseBegins(r) == transfer' = Closed({req[r].on}) /\ Gives(r, 0)

(* A request enters its call, or leaves it unanswered (assetV1RequestContexts). *)
Moves(r, stage, inPage) ==
    req' = [req EXCEPT ![r] = [@ EXCEPT !.stage = stage, !.reached = inPage]]

Refuses(r) == Ends(r) /\ UNCHANGED <<work, transfer>>

(* withAssetV1Request: a request that was cancelled while it waited does not go
   on; the others reach the page, in the order they are sent. *)
Calls(r, begins) ==
    IF req[r].cancelled THEN Refuses(r)
    ELSE Moves(r, "calling", TRUE) /\ begins

(* contextAuthorization and the ping of the page: access is refused, or the page
   does not answer. *)
AccessRefused(r) ==
    /\ req[r].stage = "checking" /\ Refuses(r)
    /\ UNCHANGED <<lane, changes, binding, page, refs, registry, lapsed, known>>

(* validateForOpen of the newer lane, resolveAsset of the older: the image belongs
   to this document; what else they ask of it only refuses (FetchEnds may fail). *)
SameDocument(r) == req[r].doc = page

Openable(r) == SameDocument(r) /\ Cardinality(registry) < Cap

V1Open(r) ==
    /\ lane = "v1" /\ Checking(r, "open")
    /\ IF Openable(r) THEN Calls(r, V1OpenBegins(r)) ELSE Refuses(r)
    /\ UNCHANGED <<lane, changes, binding, page, refs, registry, lapsed, known>>

A1Open(r) ==
    /\ lane = "a1" /\ Checking(r, "open")
    /\ IF Openable(r) THEN Calls(r, A1OpenBegins(r)) ELSE Refuses(r)
    /\ UNCHANGED <<lane, changes, binding, page, refs, registry, lapsed, known>>

Forgets(h) == registry' = registry \ {h} /\ lapsed' = lapsed \ {h} /\ known' = known \ {h}

Read(r) ==
    LET h == req[r].on IN
    /\ Checking(r, "read")
    /\ IF transfer[h].doc # page THEN Refuses(r) /\ Forgets(h)
       ELSE Calls(r, ReadBegins(r)) /\ UNCHANGED <<registry, lapsed, known>>
    /\ UNCHANGED <<lane, changes, binding, page, refs>>

Close(r) ==
    /\ Checking(r, "close")
    /\ Forgets(req[r].on) /\ Calls(r, CloseBegins(r))
    /\ UNCHANGED <<lane, changes, binding, page, refs>>

V1Read(r)  == lane = "v1" /\ Read(r)
V1Close(r) == lane = "v1" /\ Close(r)
A1Read(r)  == lane = "a1" /\ Read(r)
A1Close(r) == lane = "a1" /\ Close(r)

(* MUTANT of Delivered: the result of a request is given to whoever asks. *)
Delivered_Unchecked(r) == TRUE

(* postDelivery: a read leaves the companion under the binding it was asked under. *)
Delivered(r) == req[r].lineage = binding

(* The page's answer is back: what was opened is entered under a handle of the
   background page, whatever happened to the authority meanwhile. *)
Answered(r) ==
    LET done == work[r].is = "answered" IN
    /\ req[r].stage = "calling" /\ work[r].is \in {"answered", "failed"}
    /\ IF done /\ req[r].kind = "open"
       THEN /\ registry' = registry \cup {work[r].handle} /\ UNCHANGED lapsed
            /\ known' = IF Delivered(r) THEN known \cup {work[r].handle} ELSE known
       ELSE /\ lapsed' = IF done THEN lapsed \ {req[r].on} ELSE lapsed
            /\ UNCHANGED <<registry, known>>
    /\ Ends(r) /\ work' = [work EXCEPT ![r] = NoWork]
    /\ UNCHANGED <<lane, changes, binding, page, transfer, refs>>

(* assetTransferContentCall gives up; the page goes on. *)
CallTimesOut(r) ==
    /\ req[r].stage = "calling" /\ work[r].is \in {"fetching", "reading"}
    /\ Moves(r, "abandoned", FALSE)
    /\ UNCHANGED <<lane, changes, binding, page, transfer, refs, registry, lapsed, known, work>>

Forgotten(r) ==
    /\ req[r].stage = "abandoned" /\ work[r].is \in {"answered", "failed"}
    /\ Ends(r) /\ work' = [work EXCEPT ![r] = NoWork]
    /\ UNCHANGED <<lane, changes, binding, page, transfer, refs, registry, lapsed, known>>

(* A cancel message finds the request before its call or in the page (cancelRequest). *)
Cancel(r) ==
    /\ \/ req[r].stage = "checking" /\ ~req[r].cancelled
          /\ req' = [req EXCEPT ![r].cancelled = TRUE] /\ UNCHANGED <<work, transfer>>
       \/ req[r].reached /\ work[r].is = "fetching"
          /\ Fails(r) /\ UNCHANGED <<req, transfer>>
       \/ req[r].reached /\ work[r].is = "reading"
          /\ transfer' = Closed({req[r].on}) /\ Fails(r) /\ UNCHANGED req
    /\ UNCHANGED <<lane, changes, binding, page, refs, registry, lapsed, known>>

-----------------------------------------------------------------------------
(* The page *)

(* MUTANT of A1Room: the transfers are counted no more. *)
A1Room_Any == TRUE

A1Room == lane = "a1" => Cardinality(Open) < Cap

FetchEnds(r) ==
    /\ work[r].is = "fetching"
    /\ \/ \E h \in Handles :
            /\ A1Room /\ transfer[h].is = "unborn" /\ \A k \in 1..(h - 1) : transfer[k].is # "unborn"
            /\ transfer' = [transfer EXCEPT ![h] = Transfer("open", req[r].lineage, page)]
            /\ work' = [work EXCEPT ![r].is = "answered", ![r].handle = h]
       \/ Fails(r) /\ UNCHANGED transfer    \* the network, a limit, or no room
    /\ UNCHANGED <<lane, changes, binding, page, refs, registry, lapsed, known, req>>

(* The reader gives the next item: the chunk, under the position it was asked for. *)
StreamGives(r) ==
    LET h == req[r].on
        item == IF transfer[h].taken < Eof THEN transfer[h].taken + 1 ELSE Eof
    IN /\ work[r].is = "reading" /\ transfer[h].is = "open"
       /\ transfer' = [transfer EXCEPT ![h] =
              [is |-> "open", by |-> @.by, doc |-> @.doc, taken |-> item, next |-> req[r].pos + 1,
               replay |-> item, terminal |-> (item = Eof), busy |-> FALSE, late |-> FALSE]]
       /\ Gives(r, item)
       /\ UNCHANGED <<lane, changes, binding, page, refs, registry, lapsed, known, req>>

(* MUTANT of StreamFails: a read that failed leaves the transfer as it was. *)
StreamFails_StaysOpen(r) ==
    /\ work[r].is = "reading" /\ Fails(r)
    /\ UNCHANGED <<lane, changes, binding, page, transfer, refs, registry, lapsed, known, req>>

(* The read fails, gives nothing sixteen times, gives too much, or takes longer
   than IO_TIMEOUT_MS; or the transfer was closed under it. *)
StreamFails(r) ==
    /\ work[r].is = "reading" /\ Fails(r)
    /\ transfer' = Closed({req[r].on})
    /\ UNCHANGED <<lane, changes, binding, page, refs, registry, lapsed, known, req>>

-----------------------------------------------------------------------------
(* Time, the user and the host *)

TransferLapses(h) ==
    /\ h \in Open \ Late
    /\ transfer' = [transfer EXCEPT ![h].late = TRUE]
    /\ UNCHANGED <<lane, changes, binding, page, refs, registry, lapsed, known, req, work>>

(* The entry was made or renewed after the page did the same, for as long. *)
EntryLapses(h) ==
    /\ h \in registry \ lapsed /\ h \notin Open \ Late
    /\ lapsed' = lapsed \cup {h}
    /\ UNCHANGED <<lane, changes, binding, page, transfer, refs, registry, known, req, work>>

Changes == changes < MaxChanges /\ changes' = changes + 1

(* The user ends the binding, or another one replaces it. *)
UserRebinds ==
    /\ Changes /\ binding' = binding + 1
    /\ ClearRegistries
    /\ UNCHANGED <<lane, page, transfer, work>>

(* Manage access takes something from the live binding. *)
UserReduces ==
    /\ Changes /\ ClearRegistries
    /\ UNCHANGED <<lane, binding, page, transfer, work>>

(* teardownAssetV1Transfers, when the native host goes away: the pages that have
   an entry are told to close everything; lane A1 has no such call. *)
HostDisconnects ==
    /\ Changes /\ binding' = binding + 1
    /\ transfer' = IF lane = "v1" /\ registry # {} THEN Closed(Open) ELSE transfer
    /\ ClearRegistries
    /\ UNCHANGED <<lane, page, work>>

(* Another document: the runtime starts anew, the calls to the old one fail. *)
PageNavigates ==
    /\ Changes /\ page' = page + 1
    /\ transfer' = Closed(Open)
    /\ work' = [r \in Requests |->
           IF work[r].is \in {"fetching", "reading"} THEN [work[r] EXCEPT !.is = "failed"]
           ELSE work[r]]
    /\ UNCHANGED <<lane, binding, refs, registry, lapsed, known, req>>

-----------------------------------------------------------------------------
Init ==
    /\ lane \in Lanes /\ changes = 0 /\ binding = 0 /\ page = 0
    /\ transfer = [h \in Handles |-> Unborn]
    /\ refs = {} /\ registry = {} /\ lapsed = {} /\ known = {}
    /\ req = [r \in Requests |-> NoRequest] /\ work = [r \in Requests |-> NoWork]

Next ==
    \/ V1Discover \/ A1Discover
    \/ \E r \in Requests :
        \/ AskOpen(r) \/ AskRead(r) \/ AskClose(r) \/ AccessRefused(r)
        \/ V1Open(r) \/ V1Read(r) \/ V1Close(r) \/ A1Open(r) \/ A1Read(r) \/ A1Close(r)
        \/ Answered(r) \/ CallTimesOut(r) \/ Forgotten(r) \/ Cancel(r)
        \/ FetchEnds(r) \/ StreamGives(r) \/ StreamFails(r)
    \/ \E h \in Handles : TransferLapses(h) \/ EntryLapses(h)
    \/ UserRebinds \/ UserReduces \/ HostDisconnects \/ PageNavigates

Spec == Init /\ [][Next]_vars

-----------------------------------------------------------------------------
(* Types; and a transfer is marked busy only while some request reads it, so that
   no failure leaves it refusing every read. *)
TypeOK ==
    /\ lane \in Lanes /\ changes \in 0..MaxChanges /\ binding \in 0..MaxChanges /\ page \in 0..MaxChanges
    /\ transfer \in [Handles -> Transfers] /\ refs \subseteq 0..MaxChanges
    /\ lapsed \subseteq registry /\ known \subseteq registry /\ registry \subseteq Handles
    /\ req \in [Requests -> Asked] /\ work \in [Requests -> Works]
    /\ \A h \in Open : transfer[h].busy =>
           \E r \in Requests : work[r].is = "reading" /\ req[r].on = h

(* However requests overlap, repeat a chunk, are cancelled or abandoned, the chunk
   that is answered for a position is the item of that position: nothing is
   skipped and nothing comes twice under two numbers.  Two requests for the same
   position while the first is read would each take an item; the busy mark of the
   newer lane is what prevents it (lane A1 has none, and does skip). *)
StreamInOrder ==
    lane = "v1" => \A r \in Requests :
        work[r].is = "answered" /\ req[r].kind = "read" => work[r].item = req[r].pos + 1

(* A handle the agent has been given and the background page honours was opened
   under the live binding, although an answer of the page may be entered after
   the binding it was asked under has ended. *)
OneBinding == \A h \in known : transfer[h].by = binding

(* Lane A1 never has more transfers open in a page than the limit, although any
   number of opens may be fetching when it counts. *)
A1CapHolds == lane = "a1" => Cardinality(Open) <= Cap
=============================================================================
