----------------------------- MODULE Artifacts -----------------------------
(***************************************************************************)
(* Screenshots outside the browser.  The provider (provider-v2.ts) asks    *)
(* the companion for a picture, reads it in chunks (companion/artifacts.js)*)
(* and keeps it in a directory of its own process (artifact-store.ts).     *)
(* Whoever reads it later has the access proved again, and a reaper        *)
(* removes the files whose access has ended.  The user changes the access  *)
(* meanwhile, other browsers come and go, and the process may close or die.*)
(*                                                                         *)
(* Artifacts are numbered in the order of their capture, which is the      *)
(* order of createdAt.  Abstracted: the picture and its digest, sizes      *)
(* (the cap on files stands for the caps), and the files of an artifact,   *)
(* which one synchronous call writes or removes.  Captures says how the    *)
(* companion makes the picture.                                            *)
(***************************************************************************)
EXTENDS Naturals, FiniteSets

CONSTANTS
    Shots,        \* screenshot calls
    Readers,      \* describe, read and materialize calls
    Reaps,        \* runs of the reaper, which may overlap
    MaxFiles,
    Chunks,       \* chunks of a picture
    Attempts,     \* READ_RETRY.attempts
    MaxArtifacts, \* bound: captures
    MaxBindings,  \* bound: bindings of this consumer
    MaxEvents     \* bound: browsers that come and go, losses, ends of the process

ASSUME ArtifactsAssumption ==
    /\ MaxFiles \in Nat \ {0} /\ Chunks \in Nat \ {0} /\ Attempts \in Nat \ {0}
    /\ MaxArtifacts \in Nat /\ MaxBindings \in Nat \ {0} /\ MaxEvents \in Nat

VARIABLES
    binding,      \* the live binding of this consumer, as its status tells
    sessions,     \* how many session receipts the provider finds
    made,         \* artifacts captured so far
    stamp,        \* bindingToken of each
    remote,       \* artifacts, the map of the companion
    store,        \* artifacts in the directory of this process
    stale,        \* those of them whose time is over
    provider,     \* the provider's process
    opened,       \* #artifacts is set
    orphans,      \* directories of dead processes hold files
    reaper,       \* #reaper
    shot, reader, reap,   \* the calls under way
    events

access == <<binding, sessions>>
files == <<store, stale, opened, orphans>>
calls == <<shot, reader, reap>>
vars == <<binding, sessions, made, stamp, remote, store, stale, provider, opened, orphans,
          reaper, shot, reader, reap, events>>

-----------------------------------------------------------------------------
Ids    == 1..MaxArtifacts
Tokens == 0..MaxBindings

(* What a status tells of the access: the token of a binding that allows capture,
   0 for any other state of the companion, or that no single browser was found. *)
Disconnected == MaxBindings + 1
Details == Tokens \cup {Disconnected}

Bindings == [token : Tokens, live : BOOLEAN, capture : BOOLEAN]

ShotStates == [stage : {"idle", "capturing", "reading", "answered"}, id : 0..MaxArtifacts,
               got : 0..Chunks, tries : 0..Attempts]
ReaderStates == [stage : {"idle", "asking", "answered", "given"}, id : 0..MaxArtifacts,
                 detail : Details,
                 covered : BOOLEAN]      \* history: there was access since the call
ReapStates == [stage : {"idle", "asking", "answered"}, listed : SUBSET Ids, detail : Details]

NoShot   == [stage |-> "idle", id |-> 0, got |-> 0, tries |-> 0]
NoReader == [stage |-> "idle", id |-> 0, detail |-> 0, covered |-> FALSE]
NoReap   == [stage |-> "idle", listed |-> {}, detail |-> 0]

Granted == binding.live /\ binding.capture
Covered(i) == Granted /\ stamp[i] = binding.token

(* authorizationDetail, once the companion has answered. *)
Detail == IF Granted THEN binding.token ELSE 0

(* MUTANT of Permits: any access will do. *)
Permits_AnyBinding(detail, i) == detail \in Tokens \ {0}

Permits(detail, i) == detail = stamp[i]

Event == events < MaxEvents /\ events' = events + 1

-----------------------------------------------------------------------------
(* The directory.  Its first use makes it and removes what dead processes left. *)

(* MUTANT of Kept: the new file is not counted. *)
Kept_OffByOne(ids) == {i \in ids : Cardinality({j \in ids : j > i}) < MaxFiles}

(* sweep, with room for one more: the oldest go. *)
Kept(ids) == {i \in ids : Cardinality({j \in ids : j > i}) < MaxFiles - 1}

Opens == opened' = TRUE /\ orphans' = (orphans /\ opened)

Holds(ids) == store' = ids /\ stale' = stale \cap ids

(* write, after which the reaper runs unless it has been set before. *)
Write(i) ==
    /\ Opens /\ Holds(Kept(store \ stale) \cup {i})
    /\ reaper' = IF reaper = "none" THEN "on" ELSE reaper

-----------------------------------------------------------------------------
(* screenshot *)

ShotStarts(s) ==
    /\ provider = "up" /\ sessions # "none" /\ shot[s] = NoShot
    /\ shot' = [shot EXCEPT ![s].stage = "capturing"]
    /\ UNCHANGED <<access, made, stamp, remote, files, provider, reaper, reader, reap, events>>

(* The companion makes the picture; its answer is the descriptor, or is lost. *)
ShotCaptured(s) ==
    /\ shot[s].stage = "capturing" /\ Granted /\ made < MaxArtifacts
    /\ made' = made + 1 /\ remote' = remote \cup {made + 1}
    /\ stamp' = [stamp EXCEPT ![made + 1] = binding.token]
    /\ \/ /\ shot' = [shot EXCEPT ![s].stage = "reading", ![s].id = made + 1]
          /\ UNCHANGED events
       \/ Event /\ shot' = [shot EXCEPT ![s] = NoShot]
    /\ UNCHANGED <<access, files, provider, reaper, reader, reap>>

ShotRefused(s) ==
    /\ shot[s].stage = "capturing" /\ shot' = [shot EXCEPT ![s] = NoShot]
    /\ UNCHANGED <<access, made, stamp, remote, files, provider, reaper, reader, reap, events>>

(* liveArtifact and readArtifactChunk: every chunk is read under the binding of the
   picture; the chunk asked for again is the same chunk. *)
ChunkAnswered(s) ==
    /\ shot[s].stage = "reading" /\ shot[s].id \in remote /\ Covered(shot[s].id)
    /\ shot' = [shot EXCEPT ![s].stage = "answered"]
    /\ UNCHANGED <<access, made, stamp, remote, files, provider, reaper, reader, reap, events>>

(* closeRemote is sent and not waited for: nobody asks for the picture again. *)
ClosesRemote(s) == remote' = remote \ {shot[s].id}

(* The companion refuses, the call is cancelled, or the chunk is not the one asked for. *)
ShotFails(s) ==
    /\ shot[s].stage \in {"reading", "answered"}
    /\ ClosesRemote(s) /\ shot' = [shot EXCEPT ![s] = NoShot]
    /\ UNCHANGED <<access, made, stamp, files, provider, reaper, reader, reap, events>>

(* A lost request or answer is tried again, with the same position. *)
ChunkLost(s) ==
    /\ shot[s].stage \in {"reading", "answered"} /\ Event
    /\ IF shot[s].tries + 1 < Attempts
       THEN /\ shot' = [shot EXCEPT ![s].stage = "reading", ![s].tries = @ + 1]
            /\ UNCHANGED remote
       ELSE ClosesRemote(s) /\ shot' = [shot EXCEPT ![s] = NoShot]
    /\ UNCHANGED <<access, made, stamp, files, provider, reaper, reader, reap>>

ChunkTaken(s) ==
    /\ shot[s].stage = "answered" /\ shot[s].got + 1 < Chunks
    /\ shot' = [shot EXCEPT ![s].stage = "reading", ![s].got = @ + 1, ![s].tries = 0]
    /\ UNCHANGED <<access, made, stamp, remote, files, provider, reaper, reader, reap, events>>

(* The last chunk: the digest is compared and the picture stored, in one go. *)
ShotStored(s) ==
    /\ shot[s].stage = "answered" /\ shot[s].got + 1 = Chunks
    /\ ClosesRemote(s) /\ Write(shot[s].id) /\ shot' = [shot EXCEPT ![s] = NoShot]
    /\ UNCHANGED <<access, made, stamp, provider, reader, reap, events>>

-----------------------------------------------------------------------------
(* describeArtifact, readArtifact, materializeArtifact *)

(* describe, and the status is asked for; without a single browser there is none. *)
ReadStarts(r) ==
    /\ provider = "up" /\ reader[r].stage \in {"idle", "given"} /\ Opens
    /\ \E i \in 1..made :
         IF i \in store \ stale
         THEN /\ reader' = [reader EXCEPT ![r] =
                    [stage |-> IF sessions = "one" THEN "asking" ELSE "answered", id |-> i,
                     detail |-> IF sessions = "one" THEN 0 ELSE Disconnected,
                     covered |-> Covered(i)]]
              /\ UNCHANGED <<store, stale>>
         ELSE Holds(store \ {i}) /\ reader' = [reader EXCEPT ![r] = NoReader]
    /\ UNCHANGED <<access, made, stamp, remote, provider, reaper, shot, reap, events>>

ReadStatus(r) ==
    /\ reader[r].stage = "asking"
    /\ reader' = [reader EXCEPT ![r].stage = "answered", ![r].detail = Detail]
    /\ UNCHANGED <<access, made, stamp, remote, files, provider, reaper, shot, reap, events>>

(* authority_unverifiable: the file stays. *)
ReadUnverified(r) ==
    /\ reader[r].stage = "asking" /\ reader' = [reader EXCEPT ![r] = NoReader]
    /\ UNCHANGED <<access, made, stamp, remote, files, provider, reaper, shot, reap, events>>

(* #requireArtifactAuthority removes what has lost its access; read describes again. *)
ReadEnds(r) ==
    LET i == reader[r].id
        permitted == Permits(reader[r].detail, i)
        given == permitted /\ i \in store \ stale
    IN /\ reader[r].stage = "answered"
       /\ IF given THEN UNCHANGED <<store, stale>> ELSE Holds(store \ {i})
       /\ reader' = [reader EXCEPT ![r] = IF given THEN [@ EXCEPT !.stage = "given"] ELSE NoReader]
       /\ UNCHANGED <<access, made, stamp, remote, opened, orphans, provider, reaper, shot, reap, events>>

(* closeArtifact. *)
Removed(i) ==
    /\ provider = "up" /\ i \in store /\ Holds(store \ {i})
    /\ UNCHANGED <<access, made, stamp, remote, opened, orphans, provider, reaper, calls, events>>

-----------------------------------------------------------------------------
(* reapArtifacts *)

(* MUTANT of ReaperFires: a reaper that finds nothing stops. *)
ReaperFires_StopsWhenEmpty(p) ==
    /\ provider # "down" /\ reaper = "on" /\ reap[p] = NoReap
    /\ Holds(store \ stale)
    /\ IF store' = {} THEN UNCHANGED reap /\ reaper' = "cleared"
       ELSE /\ reap' = [reap EXCEPT ![p] =
                  [stage |-> IF sessions = "one" THEN "asking" ELSE "answered",
                   listed |-> store', detail |-> IF sessions = "one" THEN 0 ELSE Disconnected]]
            /\ UNCHANGED reaper
    /\ UNCHANGED <<access, made, stamp, remote, opened, orphans, provider, shot, reader, events>>

(* The timer: sweep, list, and ask for the status. *)
ReaperFires(p) ==
    /\ provider # "down" /\ reaper = "on" /\ reap[p] = NoReap
    /\ Holds(store \ stale)
    /\ IF store' = {} THEN UNCHANGED reap
       ELSE reap' = [reap EXCEPT ![p] =
                [stage |-> IF sessions = "one" THEN "asking" ELSE "answered",
                 listed |-> store', detail |-> IF sessions = "one" THEN 0 ELSE Disconnected]]
    /\ UNCHANGED <<access, made, stamp, remote, opened, orphans, provider, reaper, shot, reader, events>>

ReapStatus(p) ==
    /\ reap[p].stage = "asking"
    /\ reap' = [reap EXCEPT ![p].stage = "answered", ![p].detail = Detail]
    /\ UNCHANGED <<access, made, stamp, remote, files, provider, reaper, shot, reader, events>>

(* It cannot verify: everything is kept until it expires. *)
ReapUnverified(p) ==
    /\ reap[p].stage = "asking" /\ reap' = [reap EXCEPT ![p] = NoReap]
    /\ UNCHANGED <<access, made, stamp, remote, files, provider, reaper, shot, reader, events>>

(* MUTANT of ReapDecides: the directory is listed when the answer is there. *)
ReapDecides_ListsLate(p) ==
    /\ reap[p].stage = "answered"
    /\ Holds({i \in store : Permits(reap[p].detail, i)})
    /\ reap' = [reap EXCEPT ![p] = NoReap]
    /\ UNCHANGED <<access, made, stamp, remote, opened, orphans, provider, reaper, shot, reader, events>>

ReapDecides(p) ==
    /\ reap[p].stage = "answered"
    /\ Holds({i \in store : i \in reap[p].listed => Permits(reap[p].detail, i)})
    /\ reap' = [reap EXCEPT ![p] = NoReap]
    /\ UNCHANGED <<access, made, stamp, remote, opened, orphans, provider, reaper, shot, reader, events>>

-----------------------------------------------------------------------------
(* The process *)

(* close clears the timer and the directory, and waits for nothing. *)
ProviderCloses ==
    /\ provider = "up" /\ provider' = "closed" /\ Event
    /\ reaper' = IF reaper = "on" THEN "cleared" ELSE reaper
    /\ Holds({})
    /\ UNCHANGED <<access, made, stamp, remote, opened, orphans, calls>>

(* The process ends, after close or without; its directory stays. *)
ProcessEnds ==
    /\ provider # "down" /\ provider' = "down" /\ Event
    /\ orphans' = (orphans \/ store # {}) /\ Holds({}) /\ opened' = FALSE /\ reaper' = "none"
    /\ shot' = [s \in Shots |-> NoShot] /\ reader' = [r \in Readers |-> NoReader]
    /\ reap' = [p \in Reaps |-> NoReap]
    /\ UNCHANGED <<access, made, stamp, remote>>

ProcessStarts ==
    /\ provider = "down" /\ provider' = "up"
    /\ UNCHANGED <<access, made, stamp, remote, files, reaper, calls, events>>

-----------------------------------------------------------------------------
(* The user, the browsers and time *)

(* What the readers remember of the access, for the properties. *)
Notes(b) ==
    reader' = [r \in Readers |-> [reader[r] EXCEPT !.covered =
        @ \/ (reader[r].id # 0 /\ b.live /\ b.capture /\ stamp[reader[r].id] = b.token)]]

(* The companion drops its artifacts with every change of the access. *)
AccessChanges(b) ==
    /\ binding' = b /\ remote' = {} /\ Notes(b)
    /\ UNCHANGED <<sessions, made, stamp, files, provider, reaper, shot, reap, events>>

UserBinds ==
    /\ binding.token < MaxBindings
    /\ \E c \in BOOLEAN :
         AccessChanges([token |-> binding.token + 1, live |-> TRUE, capture |-> c])

BindingEnds == binding.live /\ AccessChanges([binding EXCEPT !.live = FALSE])

(* Manage access may take the capture action away, and never gives one. *)
UserReduces ==
    /\ binding.live
    /\ \E c \in {FALSE, binding.capture} : AccessChanges([binding EXCEPT !.capture = c])

(* The companion makes room, or the picture's half hour is over. *)
RemoteEvicts(i) ==
    /\ i \in remote /\ remote' = remote \ {i}
    /\ UNCHANGED <<access, made, stamp, files, provider, reaper, calls, events>>

SessionsChange ==
    /\ Event /\ sessions' \in {"one", "many", "none"} \ {sessions}
    /\ UNCHANGED <<binding, made, stamp, remote, files, provider, reaper, calls>>

Expires(i) ==
    /\ i \in store \ stale /\ stale' = stale \cup {i}
    /\ UNCHANGED <<access, made, stamp, remote, store, opened, orphans, provider, reaper, calls, events>>

-----------------------------------------------------------------------------
Init ==
    /\ binding = [token |-> 0, live |-> FALSE, capture |-> FALSE] /\ sessions = "one"
    /\ made = 0 /\ stamp = [i \in Ids |-> 0] /\ remote = {}
    /\ store = {} /\ stale = {} /\ opened = FALSE /\ orphans = FALSE
    /\ provider = "up" /\ reaper = "none" /\ events = 0
    /\ shot = [s \in Shots |-> NoShot] /\ reader = [r \in Readers |-> NoReader]
    /\ reap = [p \in Reaps |-> NoReap]

Next ==
    \/ \E s \in Shots : \/ ShotStarts(s) \/ ShotCaptured(s) \/ ShotRefused(s)
                        \/ ChunkAnswered(s) \/ ShotFails(s) \/ ChunkLost(s)
                        \/ ChunkTaken(s) \/ ShotStored(s)
    \/ \E r \in Readers : ReadStarts(r) \/ ReadStatus(r) \/ ReadUnverified(r) \/ ReadEnds(r)
    \/ \E p \in Reaps : ReaperFires(p) \/ ReapStatus(p) \/ ReapUnverified(p) \/ ReapDecides(p)
    \/ \E i \in Ids : Removed(i) \/ RemoteEvicts(i) \/ Expires(i)
    \/ ProviderCloses \/ ProcessEnds \/ ProcessStarts
    \/ UserBinds \/ BindingEnds \/ UserReduces \/ SessionsChange

(* The timer fires for as long as it is set, a status that is asked for over and
   over is answered some time, and what follows the answer is not delayed.  Nothing
   is assumed of the expiry of the files. *)
Fairness ==
    \A p \in Reaps :
        /\ WF_vars(ReaperFires(p)) /\ WF_vars(ReapDecides(p))
        /\ WF_vars(ReapStatus(p) \/ ReapUnverified(p)) /\ SF_vars(ReapStatus(p))

Spec == Init /\ [][Next]_vars /\ Fairness

-----------------------------------------------------------------------------
(* Types; and the directory never holds more than MaxFiles, although it is swept
   before a file is written and readers and the reaper remove some in between. *)
TypeOK ==
    /\ binding \in Bindings /\ sessions \in {"one", "many", "none"}
    /\ made \in 0..MaxArtifacts /\ stamp \in [Ids -> Tokens] /\ remote \subseteq 1..made
    /\ store \subseteq 1..made /\ stale \subseteq store /\ Cardinality(store) <= MaxFiles
    /\ provider \in {"up", "closed", "down"} /\ opened \in BOOLEAN /\ orphans \in BOOLEAN
    /\ reaper \in {"none", "on", "cleared"} /\ events \in 0..MaxEvents
    /\ shot \in [Shots -> ShotStates] /\ reader \in [Readers -> ReaderStates]
    /\ reap \in [Reaps -> ReapStates]

(* "Artifacts live only while the access binding they were captured under does":
   bytes (or the path to them) are given only if the access of that very picture,
   its binding and the capture action, still existed at some moment of the call. *)
ReadWasCovered == \A r \in Readers : reader[r].stage = "given" => reader[r].covered

(* An answer that is out of date when the reaper gets it, and two runs that overlap,
   never make it remove a picture whose access is live (but see RemovesOnlyEnded). *)
SparesTheLive ==
    [][\A p \in Reaps : ReapDecides(p) /\ reap[p].detail # Disconnected =>
         \A i \in store \ store' : ~Covered(i)]_vars

(* A picture whose access has ended does not stay on disk while the provider is up,
   even if nobody reads it, its half hour is far away, and the binding ended between
   its last chunk and its file. *)
EndedGoes ==
    \A i \in Ids : i \in store /\ ~Covered(i) ~> i \notin store \/ provider # "up"

(* The reaper "removes expired ones and any whose binding ended", and no other. *)
RemovesOnlyEnded ==
    [][\A p \in Reaps : ReapDecides(p) => \A i \in store \ store' : ~Covered(i)]_vars
=============================================================================
