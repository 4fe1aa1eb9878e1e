------------------------- MODULE Artifacts_proofs -------------------------
(***************************************************************************)
(* Theorems about Artifacts, for every number of screenshots, readers and  *)
(* reapers, every cap on files and every bound: the directory keeps to its *)
(* cap, a picture is given only if its access was live during the call,    *)
(* and the reaper never takes one whose access is live.                    *)
(*                                                                         *)
(* The argument is about tokens: a new binding has a token of its own and  *)
(* an ended one is never live again, so an answer that is out of date can  *)
(* only name a binding that is gone, and what was captured since is not    *)
(* in the list that was made before.                                       *)
(***************************************************************************)
EXTENDS Artifacts, FiniteSetTheorems, TLAPS

-----------------------------------------------------------------------------
(* The inductive invariant                                                 *)

\* What the calls are about has been captured.
Captured ==
    /\ \A s \in Shots : shot[s].stage \in {"reading", "answered"} => shot[s].id \in 1..made
    /\ \A r \in Readers : reader[r].stage # "idle" => reader[r].id \in 1..made
    /\ \A p \in Reaps : reap[p].listed \subseteq 1..made

\* A picture is stamped with the token of the binding of its time.
Stamped ==
    /\ \A i \in 1..made : stamp[i] \in 1..binding.token
    /\ binding.live => binding.token # 0

\* A reader remembers the access there is, and one that is permitted had it.
Remembered ==
    \A r \in Readers : reader[r].stage # "idle" =>
        /\ Covered(reader[r].id) => reader[r].covered
        /\ reader[r].stage = "answered" /\ Permits(reader[r].detail, reader[r].id) => reader[r].covered
        /\ reader[r].stage = "given" => reader[r].covered

\* An answer permits every picture of the list that still has its access.
Permitting ==
    \A p \in Reaps : reap[p].stage = "answered" /\ reap[p].detail # Disconnected =>
        \A i \in reap[p].listed : Covered(i) => Permits(reap[p].detail, i)

IndInv == TypeOK /\ Captured /\ Stamped /\ Remembered /\ Permitting

-----------------------------------------------------------------------------
(* The directory                                                           *)

\* The sweep before a write leaves room for one more: two files that are kept
\* have different numbers of younger ones, and each has fewer than MaxFiles - 1.
LEMMA KeptLeavesRoom ==
  ASSUME NEW ids, NEW n \in Nat, ids \subseteq 1..n
  PROVE  /\ Kept(ids) \subseteq ids /\ IsFiniteSet(Kept(ids))
         /\ Cardinality(Kept(ids)) <= MaxFiles - 1
  <1> DEFINE Younger(i) == {j \in ids : j > i}
             younger == [i \in Kept(ids) |-> Cardinality(Younger(i))]
             places == 0..MaxFiles - 2
  <1>1. MaxFiles \in Nat \ {0}
    BY ArtifactsAssumption
  <1>2. IsFiniteSet(ids)
    <2>1. IsFiniteSet(1..n)
      BY FS_Interval
    <2> QED BY <2>1, FS_Subset
  <1>3. Kept(ids) \subseteq ids /\ IsFiniteSet(Kept(ids)) /\ Cardinality(Kept(ids)) \in Nat
    <2>1. Kept(ids) \subseteq ids
      BY DEF Kept
    <2> QED BY <1>2, <2>1, FS_Subset, FS_CardinalityType
  <1>0. \A i \in Kept(ids) : i \in ids /\ i \in Nat
    <2>1. \A i \in ids : i \in Nat
      OBVIOUS
    <2> QED BY <1>3, <2>1
  <1>4. \A i \in ids : IsFiniteSet(Younger(i)) /\ Cardinality(Younger(i)) \in Nat
    <2> TAKE i \in ids
    <2>1. Younger(i) \in SUBSET ids
      OBVIOUS
    <2> QED BY <1>2, <2>1, FS_Subset, FS_CardinalityType
  <1>5. ASSUME NEW i \in Kept(ids), NEW k \in Kept(ids), i < k
        PROVE  younger[i] # younger[k]
    <2>1. i \in ids /\ k \in ids /\ i \in Nat /\ k \in Nat
      BY <1>0
    <2>2. \A j \in ids : j \in Nat
      OBVIOUS
    <2>3. Younger(k) \in SUBSET Younger(i) /\ k \in Younger(i) /\ k \notin Younger(k)
      <3>1. k \in Younger(i) /\ k \notin Younger(k)
        BY <1>5, <2>1
      <3>2. \A j \in Younger(k) : j \in Younger(i)
        BY <1>5, <2>1, <2>2
      <3> QED BY <3>1, <3>2
    <2>4. Cardinality(Younger(i)) # Cardinality(Younger(k))
      <3> HIDE DEF Younger
      <3> QED BY <1>4, <2>1, <2>3, FS_Subset
    <2> QED BY <2>4
  <1>6. \A i \in Kept(ids) : Cardinality(Younger(i)) < MaxFiles - 1
    BY DEF Kept
  <1>7. younger \in [Kept(ids) -> places]
    <2>1. \A i \in Kept(ids) : Cardinality(Younger(i)) \in places
      <3> HIDE DEF Younger
      <3> QED BY <1>0, <1>1, <1>4, <1>6
    <2> HIDE DEF Younger, places
    <2> QED BY <2>1
  <1>8. IsFiniteSet(places) /\ Cardinality(places) = MaxFiles - 1
    BY <1>1, FS_Interval
  <1>9. \A i, k \in Kept(ids) : i # k => younger[i] # younger[k]
    <2> TAKE i, k \in Kept(ids)
    <2>1. i \in Nat /\ k \in Nat
      BY <1>0
    <2> QED BY <1>5, <2>1
  <1>10. ~(Cardinality(places) < Cardinality(Kept(ids)))
    <2> HIDE DEF younger, places
    <2> QED BY <1>3, <1>7, <1>8, <1>9, FS_PigeonHole
  <1> QED BY <1>1, <1>3, <1>8, <1>10

\* What a directory of numbered files keeps is again one within its cap.
LEMMA FewerFiles ==
  ASSUME TypeOK, NEW ids \in SUBSET store
  PROVE  IsFiniteSet(ids) /\ Cardinality(ids) <= MaxFiles
  <1>1. IsFiniteSet(store)
    <2>1. IsFiniteSet(1..made)
      BY FS_Interval DEF TypeOK
    <2> QED BY <2>1, FS_Subset DEF TypeOK
  <1>2. IsFiniteSet(ids) /\ Cardinality(ids) <= Cardinality(store)
    BY <1>1, FS_Subset
  <1>3. Cardinality(ids) \in Nat /\ Cardinality(store) \in Nat /\ MaxFiles \in Nat
    BY <1>1, <1>2, FS_CardinalityType, ArtifactsAssumption
  <1> QED BY <1>2, <1>3 DEF TypeOK

LEMMA WriteTyped ==
  ASSUME TypeOK, NEW i \in 1..made, Write(i)
  PROVE  /\ store' \subseteq 1..made /\ stale' \subseteq store' /\ Cardinality(store') <= MaxFiles
         /\ opened' \in BOOLEAN /\ orphans' \in BOOLEAN /\ reaper' \in {"none", "on", "cleared"}
  <1> DEFINE kept == Kept(store \ stale)
  <1>1. store \ stale \subseteq 1..made /\ made \in Nat
    BY DEF TypeOK
  <1>2. kept \subseteq store \ stale /\ IsFiniteSet(kept) /\ Cardinality(kept) <= MaxFiles - 1
    BY <1>1, KeptLeavesRoom
  <1>3. Cardinality(kept \cup {i}) <= MaxFiles
    <2> HIDE DEF kept
    <2>1. Cardinality(kept) \in Nat /\ MaxFiles \in Nat
      BY <1>2, FS_CardinalityType, ArtifactsAssumption
    <2> QED BY <1>2, <2>1, FS_AddElement
  <1>4. store' = kept \cup {i} /\ stale' = stale \cap store'
    BY DEF Write, Holds
  <1>5. opened' = TRUE /\ orphans' = (orphans /\ opened)
    BY DEF Write, Opens
  <1>6. reaper' \in {"none", "on", "cleared"}
    BY DEF Write, TypeOK
  <1> HIDE DEF kept
  <1> QED BY <1>1, <1>2, <1>3, <1>4, <1>5, <1>6

-----------------------------------------------------------------------------
(* Types                                                                   *)

\* The four groups of steps.
ShotSteps(s) ==
    \/ ShotStarts(s) \/ ShotCaptured(s) \/ ShotRefused(s) \/ ChunkAnswered(s) \/ ShotFails(s)
    \/ ChunkLost(s) \/ ChunkTaken(s) \/ ShotStored(s)

ReaderSteps(r) == ReadStarts(r) \/ ReadStatus(r) \/ ReadUnverified(r) \/ ReadEnds(r)

ReapSteps(p) == ReaperFires(p) \/ ReapStatus(p) \/ ReapUnverified(p) \/ ReapDecides(p)

OtherSteps ==
    \/ \E i \in Ids : Removed(i) \/ RemoteEvicts(i) \/ Expires(i)
    \/ ProviderCloses \/ ProcessEnds \/ ProcessStarts
    \/ UserBinds \/ BindingEnds \/ UserReduces \/ SessionsChange

LEMMA Steps ==
  [Next]_vars <=> \/ \E s \in Shots : ShotSteps(s)
                  \/ \E r \in Readers : ReaderSteps(r)
                  \/ \E p \in Reaps : ReapSteps(p)
                  \/ OtherSteps
                  \/ UNCHANGED vars
  BY Zenon DEF Next, ShotSteps, ReaderSteps, ReapSteps, OtherSteps

\* What a step may do to the directory.
DirectoryStands == store' = store /\ opened' \in BOOLEAN /\ orphans' \in BOOLEAN /\ stale' \subseteq store' /\ reaper' \in {"none", "on", "cleared"}

DirectoryLoses ==
    /\ \E ids \in SUBSET store : Holds(ids)
    /\ opened' \in BOOLEAN /\ orphans' \in BOOLEAN /\ reaper' \in {"none", "on", "cleared"}

LEMMA ShotsWrite ==
  ASSUME TypeOK, Captured, NEW s \in Shots, ShotSteps(s)
  PROVE  DirectoryStands \/ \E i \in 1..made : Write(i) /\ made' = made
  <1>1. CASE ShotStored(s)
    BY <1>1 DEF ShotStored, Captured
  <1>2. CASE ~ShotStored(s)
    BY <1>2 DEF ShotSteps, ShotStarts, ShotCaptured, ShotRefused, ChunkAnswered, ShotFails, ChunkLost,
       ChunkTaken, files, DirectoryStands, TypeOK
  <1> QED BY <1>1, <1>2

LEMMA ReadersRemove ==
  ASSUME TypeOK, NEW r \in Readers, ReaderSteps(r)
  PROVE  DirectoryStands \/ DirectoryLoses
  BY DEF ReaderSteps, ReadStarts, ReadStatus, ReadUnverified, ReadEnds, Opens, files, DirectoryStands,
     DirectoryLoses, TypeOK

LEMMA ReaperRemoves ==
  ASSUME TypeOK, NEW p \in Reaps, ReapSteps(p)
  PROVE  DirectoryStands \/ DirectoryLoses
  BY DEF ReapSteps, ReaperFires, ReapStatus, ReapUnverified, ReapDecides, files, DirectoryStands,
     DirectoryLoses, TypeOK

LEMMA OthersRemove ==
  ASSUME TypeOK, OtherSteps
  PROVE  DirectoryStands \/ DirectoryLoses
  BY DEF OtherSteps, Removed, RemoteEvicts, Expires, ProviderCloses, ProcessEnds, ProcessStarts, UserBinds,
     BindingEnds, UserReduces, SessionsChange, AccessChanges, files, DirectoryStands, DirectoryLoses, TypeOK

\* What a step may do to the calls, the access and the rest.
LEMMA Blanks == NoShot \in ShotStates /\ NoReader \in ReaderStates /\ NoReap \in ReapStates
  <1>1. MaxBindings \in Nat /\ MaxArtifacts \in Nat /\ Chunks \in Nat /\ Attempts \in Nat
    BY ArtifactsAssumption
  <1> QED BY <1>1 DEF NoShot, NoReader, NoReap, ShotStates, ReaderStates, ReapStates, Details, Tokens, Disconnected

LEMMA DetailTyped ==
  ASSUME TypeOK
  PROVE  Detail \in Details /\ 0 \in Details /\ Disconnected \in Details /\ \A i : Covered(i) \in BOOLEAN
  BY ArtifactsAssumption DEF TypeOK, Bindings, Detail, Granted, Covered, Details, Tokens, Disconnected
LEMMA ShotsTyped ==
  ASSUME TypeOK, NEW s \in Shots, ShotSteps(s)
  PROVE  /\ binding' = binding /\ sessions' = sessions /\ reader' = reader /\ reap' = reap /\ provider' = provider
         /\ made' \in made..MaxArtifacts /\ stamp' \in [Ids -> Tokens] /\ remote' \subseteq 1..made'
         /\ events' \in 0..MaxEvents /\ shot' \in [Shots -> ShotStates]
  <1> USE ArtifactsAssumption DEF TypeOK, access, files, ShotStates, NoShot, Event, ClosesRemote
  <1>1. CASE ShotCaptured(s)
    <2>1. made \in Nat /\ made + 1 \in Ids /\ made' = made + 1 /\ made' \in made..MaxArtifacts
      BY <1>1 DEF ShotCaptured, Ids
    <2>2. stamp' \in [Ids -> Tokens]
      BY <1>1, <2>1 DEF ShotCaptured, Bindings
    <2>3. remote' \subseteq 1..made'
      BY <1>1, <2>1 DEF ShotCaptured
    <2>4. shot' = [shot EXCEPT ![s].stage = "reading", ![s].id = made + 1] \/ shot' = [shot EXCEPT ![s] = NoShot]
      BY <1>1 DEF ShotCaptured
    <2>5. shot' \in [Shots -> ShotStates]
      <3>1. made + 1 \in 0..MaxArtifacts
        BY <2>1 DEF Ids
      <3> QED BY <2>4, <3>1, Blanks
    <2>6. events' \in 0..MaxEvents
      BY <1>1 DEF ShotCaptured
    <2> QED BY <1>1, <2>1, <2>2, <2>3, <2>5, <2>6 DEF ShotCaptured
  <1>2. CASE ~ShotCaptured(s)
    BY <1>2 DEF ShotSteps, ShotStarts, ShotRefused, ChunkAnswered, ShotFails, ChunkLost, ChunkTaken,
       ShotStored
  <1> QED BY <1>1, <1>2

LEMMA ReadersTyped ==
  ASSUME TypeOK, Captured, NEW r \in Readers, ReaderSteps(r)
  PROVE  /\ UNCHANGED <<binding, sessions, made, stamp, remote, shot, reap, provider, events>>
         /\ reader' \in [Readers -> ReaderStates]
         /\ \A q \in Readers \ {r} : reader'[q] = reader[q]
  <1> USE DetailTyped, Blanks DEF TypeOK, access, files
  <1>0. 0..made \subseteq 0..MaxArtifacts
    BY ArtifactsAssumption
  <1>1. CASE ReadStarts(r)
    <2>1. PICK i \in 1..made :
            \/ reader' = [reader EXCEPT ![r] = NoReader]
            \/ reader' = [reader EXCEPT ![r] =
                    [stage |-> IF sessions = "one" THEN "asking" ELSE "answered", id |-> i,
                     detail |-> IF sessions = "one" THEN 0 ELSE Disconnected,
                     covered |-> Covered(i)]]
      BY <1>1 DEF ReadStarts
    <2>2. i \in 0..MaxArtifacts
      BY <1>0, <2>1
    <2>3. reader' \in [Readers -> ReaderStates] /\ \A q \in Readers \ {r} : reader'[q] = reader[q]
      BY <2>1, <2>2 DEF ReaderStates
    <2> QED BY <1>1, <2>3 DEF ReadStarts
  <1>2. CASE ReadStatus(r)
    BY <1>2 DEF ReadStatus, ReaderStates
  <1>3. CASE ReadUnverified(r)
    BY <1>3 DEF ReadUnverified
  <1>4. CASE ReadEnds(r)
    <2>1. reader' = [reader EXCEPT ![r] = NoReader] \/ reader' = [reader EXCEPT ![r].stage = "given"]
      BY <1>4 DEF ReadEnds
    <2>2. reader' \in [Readers -> ReaderStates] /\ \A q \in Readers \ {r} : reader'[q] = reader[q]
      BY <2>1 DEF ReaderStates
    <2> QED BY <1>4, <2>2 DEF ReadEnds
  <1> QED BY <1>1, <1>2, <1>3, <1>4 DEF ReaderSteps

LEMMA ReaperTyped ==
  ASSUME TypeOK, NEW p \in Reaps, ReapSteps(p)
  PROVE  /\ UNCHANGED <<binding, sessions, made, stamp, remote, shot, reader, provider, events>>
         /\ reap' \in [Reaps -> ReapStates]
         /\ \A q \in Reaps \ {p} : reap'[q] = reap[q]
  <1> USE ArtifactsAssumption DEF TypeOK, access, files, ReapStates, NoReap, Details, Tokens, Disconnected
  <1>1. CASE ReaperFires(p)
    <2>1. store' \subseteq Ids
      BY <1>1 DEF ReaperFires, Holds, Ids
    <2> QED BY <1>1, <2>1 DEF ReaperFires
  <1>2. CASE ReapStatus(p)
    <2> HIDE DEF Details
    <2> QED BY <1>2, DetailTyped DEF ReapStatus
  <1>3. CASE ReapUnverified(p) \/ ReapDecides(p)
    BY <1>3 DEF ReapUnverified, ReapDecides
  <1> QED BY <1>1, <1>2, <1>3 DEF ReapSteps

\* A change of the access: a new binding, or less of the one there is.
Reduced ==
    /\ binding'.token = binding.token
    /\ binding'.live => binding.live
    /\ binding'.capture => binding.capture

Renewed == binding'.token = binding.token + 1

LEMMA AccessTyped ==
  ASSUME TypeOK, UserBinds \/ BindingEnds \/ UserReduces
  PROVE  /\ AccessChanges(binding') /\ binding' \in Bindings
         /\ Reduced \/ Renewed
  <1>1. CASE UserBinds
    <2>1. PICK c \in BOOLEAN :
            AccessChanges([token |-> binding.token + 1, live |-> TRUE, capture |-> c])
      BY <1>1 DEF UserBinds
    <2>2. binding' = [token |-> binding.token + 1, live |-> TRUE, capture |-> c]
      BY <2>1 DEF AccessChanges
    <2>3. binding.token + 1 \in Tokens
      BY <1>1, ArtifactsAssumption DEF UserBinds, TypeOK, Bindings, Tokens
    <2> QED BY <2>1, <2>2, <2>3 DEF Bindings, Renewed
  <1>2. CASE BindingEnds \/ UserReduces
    BY <1>2 DEF BindingEnds, UserReduces, AccessChanges, TypeOK, Bindings, Reduced
  <1> QED BY <1>1, <1>2

LEMMA NotesTyped ==
  ASSUME TypeOK, NEW b \in Bindings, Notes(b)
  PROVE  reader' \in [Readers -> ReaderStates]
  BY DEF TypeOK, Notes, ReaderStates, Bindings

LEMMA OthersTyped ==
  ASSUME TypeOK, OtherSteps
  PROVE  /\ binding' \in Bindings /\ sessions' \in {"one", "many", "none"}
         /\ made' = made /\ stamp' = stamp /\ remote' \subseteq 1..made
         /\ provider' \in {"up", "closed", "down"} /\ events' \in 0..MaxEvents
         /\ shot' \in [Shots -> ShotStates] /\ reader' \in [Readers -> ReaderStates]
         /\ reap' \in [Reaps -> ReapStates]
  <1> USE ArtifactsAssumption DEF TypeOK, access, files, calls, Event
  <1>1. CASE \E i \in Ids : Removed(i) \/ RemoteEvicts(i) \/ Expires(i)
    BY <1>1 DEF Removed, RemoteEvicts, Expires
  <1>2. CASE ProviderCloses
    BY <1>2 DEF ProviderCloses
  <1>5. CASE ProcessStarts
    BY <1>5 DEF ProcessStarts
  <1>6. CASE SessionsChange
    BY <1>6 DEF SessionsChange
  <1>3. CASE ProcessEnds
    BY <1>3, Blanks DEF ProcessEnds
  <1>4. CASE UserBinds \/ BindingEnds \/ UserReduces
    BY <1>4, AccessTyped, NotesTyped DEF AccessChanges
  <1> QED BY <1>1, <1>2, <1>3, <1>4, <1>5, <1>6 DEF OtherSteps

LEMMA TypeStep == TypeOK /\ Captured /\ [Next]_vars => TypeOK'
  <1> SUFFICES ASSUME TypeOK, Captured, [Next]_vars PROVE TypeOK'
    OBVIOUS
  <1>1. ASSUME NEW s \in Shots, ShotSteps(s) PROVE TypeOK'
    <2>1. made \in Nat /\ MaxArtifacts \in Nat
      BY ArtifactsAssumption DEF TypeOK
    <2>2. made' \in 0..MaxArtifacts /\ 1..made \subseteq 1..made'
      BY <1>1, <2>1, ShotsTyped
    <2>3. CASE DirectoryStands
      BY <1>1, <2>2, <2>3, ShotsTyped DEF TypeOK, DirectoryStands
    <2>4. ASSUME NEW i \in 1..made, Write(i), made' = made PROVE TypeOK'
      BY <1>1, <2>2, <2>4, ShotsTyped, WriteTyped DEF TypeOK
    <2> QED BY <1>1, <2>3, <2>4, ShotsWrite
  <1>2. ASSUME made' = made, DirectoryStands \/ DirectoryLoses
        PROVE  /\ store' \subseteq 1..made' /\ stale' \subseteq store' /\ Cardinality(store') <= MaxFiles
               /\ opened' \in BOOLEAN /\ orphans' \in BOOLEAN /\ reaper' \in {"none", "on", "cleared"}
    <2>1. CASE DirectoryStands
      BY <1>2, <2>1 DEF DirectoryStands, TypeOK
    <2>2. CASE DirectoryLoses
      BY <1>2, <2>2, FewerFiles DEF DirectoryLoses, Holds, TypeOK
    <2> QED BY <1>2, <2>1, <2>2
  <1>3. ASSUME NEW r \in Readers, ReaderSteps(r) PROVE TypeOK'
    BY <1>2, <1>3, ReadersTyped, ReadersRemove DEF TypeOK
  <1>4. ASSUME NEW p \in Reaps, ReapSteps(p) PROVE TypeOK'
    BY <1>2, <1>4, ReaperTyped, ReaperRemoves DEF TypeOK
  <1>5. CASE OtherSteps
    BY <1>2, <1>5, OthersTyped, OthersRemove DEF TypeOK
  <1>6. CASE UNCHANGED vars
    BY <1>6 DEF TypeOK, vars
  <1> QED BY <1>1, <1>3, <1>4, <1>5, <1>6, Steps

-----------------------------------------------------------------------------
(* Access is not regained                                                  *)

\* Pictures are captured under the binding of the moment, and keep their stamp.
LEMMA Stamps ==
  ASSUME TypeOK, Captured, Stamped, [Next]_vars
  PROVE  /\ made' \in Nat /\ made <= made' /\ \A i \in 1..made : i \in 1..made' /\ stamp'[i] = stamp[i]
         /\ Stamped'
  <1>0. made \in Nat /\ \A i \in 1..made : i \in Ids
    BY ArtifactsAssumption DEF TypeOK, Ids
  <1>1. ASSUME NEW s \in Shots, ShotCaptured(s)
        PROVE  /\ made' = made + 1 /\ binding' = binding /\ binding.live
               /\ stamp' = [stamp EXCEPT ![made + 1] = binding.token] /\ made + 1 \in Ids
    BY <1>0, <1>1, ArtifactsAssumption DEF ShotCaptured, access, Granted, Ids, TypeOK
  <1>2. CASE \E s \in Shots : ShotCaptured(s)
    <2>1. binding.token \in Nat
      BY ArtifactsAssumption DEF TypeOK, Bindings, Tokens
    <2>2. \A i \in 1..made : i \in 1..made' /\ i # made + 1 /\ stamp'[i] = stamp[i]
      BY <1>0, <1>1, <1>2 DEF TypeOK
    <2>3. \A i \in 1..made' : i \in 1..made \/ i = made + 1
      BY <1>0, <1>1, <1>2
    <2>4. stamp'[made + 1] \in 1..binding.token
      BY <1>1, <1>2, <2>1 DEF TypeOK, Stamped
    <2>5. Stamped'
      BY <1>1, <1>2, <2>2, <2>3, <2>4 DEF Stamped
    <2> QED BY <1>0, <1>1, <1>2, <2>2, <2>5
  <1>3. CASE made' = made /\ stamp' = stamp /\ binding' = binding
    BY <1>0, <1>3 DEF Stamped
  <1>4. CASE UserBinds \/ BindingEnds \/ UserReduces
    <2>1. made' = made /\ stamp' = stamp
      BY <1>4, AccessTyped DEF AccessChanges
    <2>2. binding.token \in Nat /\ binding'.token \in Nat
      BY <1>4, AccessTyped, ArtifactsAssumption DEF TypeOK, Bindings, Tokens
    <2>3. Stamped'
      BY <1>4, <2>1, <2>2, AccessTyped DEF Stamped, Reduced, Renewed
    <2> QED BY <1>0, <2>1, <2>3
  <1>5. ASSUME NEW s \in Shots, ShotSteps(s), ~ShotCaptured(s)
        PROVE  made' = made /\ stamp' = stamp /\ binding' = binding
    BY <1>5 DEF ShotSteps, ShotStarts, ShotRefused, ChunkAnswered, ShotFails, ChunkLost, ChunkTaken,
       ShotStored, access
  <1>6. ASSUME OtherSteps, ~(UserBinds \/ BindingEnds \/ UserReduces)
        PROVE  made' = made /\ stamp' = stamp /\ binding' = binding
    BY <1>6 DEF OtherSteps, Removed, RemoteEvicts, Expires, ProviderCloses, ProcessEnds, ProcessStarts,
       SessionsChange, access
  <1>7. CASE UNCHANGED vars
    BY <1>3, <1>7 DEF vars
  <1> QED BY <1>2, <1>3, <1>4, <1>5, <1>6, <1>7, Steps, ReadersTyped, ReaperTyped

\* A picture whose access has ended never has access again.
LEMMA NotRegained ==
  ASSUME TypeOK, Captured, Stamped, [Next]_vars, NEW i \in 1..made
  PROVE  Covered(i)' => Covered(i)
  <1>1. stamp'[i] = stamp[i] /\ stamp[i] \in 1..binding.token
    BY Stamps DEF Stamped
  <1>2. CASE binding' = binding
    BY <1>1, <1>2 DEF Covered, Granted
  <1>3. CASE UserBinds \/ BindingEnds \/ UserReduces
    <2>1. binding.token \in Nat
      BY ArtifactsAssumption DEF TypeOK, Bindings, Tokens
    <2>2. CASE Reduced
      BY <1>1, <2>2 DEF Covered, Granted, Reduced
    <2>3. CASE Renewed
      BY <1>1, <2>1, <2>3 DEF Covered, Renewed
    <2> QED BY <1>3, <2>2, <2>3, AccessTyped
  <1>4. ASSUME OtherSteps, ~(UserBinds \/ BindingEnds \/ UserReduces) PROVE binding' = binding
    BY <1>4 DEF OtherSteps, Removed, RemoteEvicts, Expires, ProviderCloses, ProcessEnds, ProcessStarts,
       SessionsChange, access
  <1> QED BY <1>2, <1>3, <1>4, Steps, ShotsTyped, ReadersTyped, ReaperTyped DEF vars

LEMMA CapturedStep == TypeOK /\ Captured /\ Stamped /\ [Next]_vars => Captured'
  <1> SUFFICES ASSUME TypeOK, Captured, Stamped, [Next]_vars PROVE Captured'
    OBVIOUS
  <1>0. made \in Nat /\ made' \in Nat /\ \A i \in 1..made : i \in 1..made'
    BY Stamps DEF TypeOK
  <1>1. ASSUME NEW s \in Shots, ShotSteps(s) PROVE Captured'
    <2>1. \A q \in Shots : shot'[q].stage \in {"reading", "answered"} => shot'[q].id \in 1..made'
      <3>1. CASE ShotCaptured(s)
        <4>1. made' = made + 1 /\ made + 1 \in 1..made'
          BY <1>0, <3>1 DEF ShotCaptured
        <4>2. \/ shot' = [shot EXCEPT ![s].stage = "reading", ![s].id = made + 1]
              \/ shot' = [shot EXCEPT ![s] = NoShot]
          BY <3>1 DEF ShotCaptured
        <4> QED BY <1>0, <4>1, <4>2 DEF Captured, TypeOK, ShotStates, NoShot
      <3>2. CASE ~ShotCaptured(s)
        BY <1>0, <1>1, <3>2 DEF ShotSteps, ShotStarts, ShotRefused, ChunkAnswered, ShotFails, ChunkLost,
           ChunkTaken, ShotStored, Captured, TypeOK, ShotStates, NoShot
      <3> QED BY <3>1, <3>2
    <2> QED BY <1>0, <1>1, <2>1, ShotsTyped DEF Captured
  <1>2. ASSUME NEW r \in Readers, ReaderSteps(r) PROVE Captured'
    <2>1. reader'[r].stage # "idle" => reader'[r].id \in 1..made'
      <3>1. CASE ReadStarts(r)
        BY <1>0, <3>1 DEF ReadStarts, TypeOK, NoReader
      <3>2. CASE ReadStatus(r)
        <4>1. reader'[r].id = reader[r].id /\ reader[r].stage # "idle"
          BY <3>2 DEF ReadStatus, TypeOK, ReaderStates
        <4> QED BY <1>0, <4>1 DEF Captured
      <3>3. CASE ReadUnverified(r)
        BY <3>3 DEF ReadUnverified, TypeOK, NoReader
      <3>4. CASE ReadEnds(r)
        <4>1. reader[r].stage # "idle" /\ (reader'[r].id = reader[r].id \/ reader'[r].stage = "idle")
          BY <3>4 DEF ReadEnds, TypeOK, ReaderStates, NoReader
        <4> QED BY <1>0, <4>1 DEF Captured
      <3> QED BY <1>2, <3>1, <3>2, <3>3, <3>4 DEF ReaderSteps
    <2> QED BY <1>0, <1>2, <2>1, ReadersTyped DEF Captured
  <1>3. ASSUME NEW p \in Reaps, ReapSteps(p) PROVE Captured'
    <2>1. store \subseteq 1..made
      BY DEF TypeOK
    <2>2. reap'[p].listed \subseteq 1..made'
      <3>1. CASE ReaperFires(p)
        <4>1. reap'[p] = reap[p] \/ reap'[p].listed = store \ stale
          BY <3>1 DEF ReaperFires, Holds, TypeOK
        <4> QED BY <1>0, <2>1, <4>1 DEF Captured
      <3>2. CASE ReapStatus(p) \/ ReapUnverified(p) \/ ReapDecides(p)
        BY <1>0, <3>2 DEF ReapStatus, ReapUnverified, ReapDecides, Captured, TypeOK, ReapStates, NoReap
      <3> QED BY <1>3, <3>1, <3>2 DEF ReapSteps
    <2> QED BY <1>0, <1>3, <2>2, ReaperTyped DEF Captured
  <1>4. CASE OtherSteps
    <2>1. CASE UserBinds \/ BindingEnds \/ UserReduces
      <3>1. shot' = shot /\ reap' = reap /\ made' = made
        BY <2>1, AccessTyped DEF AccessChanges
      <3>2. \A r \in Readers : reader'[r].stage = reader[r].stage /\ reader'[r].id = reader[r].id
        BY <2>1, AccessTyped DEF AccessChanges, Notes, TypeOK, ReaderStates
      <3> QED BY <3>1, <3>2 DEF Captured
    <2>2. CASE ProcessEnds
      BY <2>2 DEF ProcessEnds, Captured, NoShot, NoReader, NoReap
    <2>3. CASE ~(UserBinds \/ BindingEnds \/ UserReduces \/ ProcessEnds)
      <3>1. shot' = shot /\ reap' = reap /\ reader' = reader /\ made' = made
        BY <1>4, <2>3 DEF OtherSteps, Removed, RemoteEvicts, Expires, ProviderCloses, ProcessStarts,
           SessionsChange, calls
      <3> QED BY <3>1 DEF Captured
    <2> QED BY <2>1, <2>2, <2>3
  <1>5. CASE UNCHANGED vars
    BY <1>5 DEF Captured, vars
  <1> QED BY <1>1, <1>2, <1>3, <1>4, <1>5, Steps

-----------------------------------------------------------------------------
(* Answers that are out of date                                            *)

\* A reader that another step leaves alone, but for what it remembers.
LEMMA RememberedOn ==
  ASSUME TypeOK, Captured, Stamped, Remembered, [Next]_vars, NEW r \in Readers,
         reader'[r].stage = reader[r].stage, reader'[r].id = reader[r].id,
         reader'[r].detail = reader[r].detail, reader[r].covered => reader'[r].covered,
         reader'[r].stage # "idle"
  PROVE  /\ Covered(reader[r].id)' => reader'[r].covered
         /\ reader'[r].stage = "answered" /\ Permits(reader[r].detail, reader[r].id)' => reader'[r].covered
         /\ reader'[r].stage = "given" => reader'[r].covered
  <1>1. reader[r].id \in 1..made
    BY DEF Captured
  <1>2. stamp'[reader[r].id] = stamp[reader[r].id] /\ (Covered(reader[r].id)' => Covered(reader[r].id))
    BY <1>1, Stamps, NotRegained
  <1> QED BY <1>2 DEF Remembered, Permits, Covered, Granted

\* An answer the reader has just got permits the picture only if it has access.
LEMMA RememberedStep == TypeOK /\ Captured /\ Stamped /\ Remembered /\ [Next]_vars => Remembered'
  <1> SUFFICES ASSUME TypeOK, Captured, Stamped, Remembered, [Next]_vars,
                      NEW r \in Readers, reader'[r].stage # "idle"
               PROVE  /\ Covered(reader[r].id)' => reader'[r].covered
                      /\ reader'[r].stage = "answered" /\ Permits(reader[r].detail, reader[r].id)'
                           => reader'[r].covered
                      /\ reader'[r].stage = "given" => reader'[r].covered
    BY DEF Remembered
  <1>1. CASE reader'[r] = reader[r]
    BY <1>1, RememberedOn
  <1>2. CASE ReaderSteps(r)
    <2>0. stamp' = stamp /\ binding' = binding /\ made' = made
      BY <1>2, ReadersTyped
    <2>1. CASE ReadStarts(r)
      <3>1. PICK i \in 1..made : reader'[r] =
                    [stage |-> IF sessions = "one" THEN "asking" ELSE "answered", id |-> i,
                     detail |-> IF sessions = "one" THEN 0 ELSE Disconnected, covered |-> Covered(i)]
        BY <2>1 DEF ReadStarts, NoReader, TypeOK
      <3>2. stamp[i] # Disconnected
        BY ArtifactsAssumption DEF TypeOK, Ids, Tokens, Disconnected
      <3>3. reader'[r].id = i /\ reader'[r].covered = Covered(i)
            /\ (reader'[r].stage = "answered" => reader'[r].detail = Disconnected) /\ reader'[r].stage # "given"
        BY <3>1
      <3>4. Covered(i)' <=> Covered(i)
        BY <2>0 DEF Covered, Granted
      <3>5. Covered(reader[r].id)' => reader'[r].covered
        BY <3>3, <3>4
      <3>6. ~(reader'[r].stage = "answered" /\ Permits(reader[r].detail, reader[r].id)')
        BY <2>0, <3>2, <3>3 DEF Permits
      <3> QED BY <3>3, <3>5, <3>6
    <2>2. CASE ReadStatus(r)
      <3>1. reader'[r] = [reader[r] EXCEPT !.stage = "answered", !.detail = Detail] /\ reader[r].stage = "asking"
        BY <2>2 DEF ReadStatus, TypeOK
      <3>2. reader'[r].id = reader[r].id /\ reader'[r].covered = reader[r].covered
            /\ reader'[r].detail = Detail /\ reader'[r].stage = "answered"
        BY <3>1 DEF TypeOK, ReaderStates
      <3>3. reader[r].id \in 1..made
        BY <3>1 DEF Captured
      <3>4. Detail = stamp[reader[r].id] => Covered(reader[r].id)
        BY <3>3, ArtifactsAssumption DEF Detail, Covered, Stamped, TypeOK, Bindings, Tokens
      <3> QED BY <2>0, <3>1, <3>2, <3>4 DEF Remembered, Covered, Granted, Permits
    <2>3. CASE ReadUnverified(r)
      BY <2>3 DEF ReadUnverified, NoReader, TypeOK
    <2>4. CASE ReadEnds(r)
      <3>1. /\ reader'[r] = [reader[r] EXCEPT !.stage = "given"] /\ reader[r].stage = "answered"
            /\ Permits(reader[r].detail, reader[r].id)
        BY <2>4 DEF ReadEnds, NoReader, TypeOK
      <3>2. reader'[r].stage = "given" /\ reader'[r].covered = reader[r].covered /\ reader[r].covered
        BY <3>1 DEF Remembered, TypeOK, ReaderStates
      <3> QED BY <3>2
    <2> QED BY <1>2, <2>1, <2>2, <2>3, <2>4 DEF ReaderSteps
  <1>3. CASE UserBinds \/ BindingEnds \/ UserReduces
    <2>1. /\ reader'[r].stage = reader[r].stage /\ reader'[r].id = reader[r].id
          /\ reader'[r].detail = reader[r].detail /\ (reader[r].covered => reader'[r].covered)
      BY <1>3, AccessTyped DEF AccessChanges, Notes, TypeOK, ReaderStates
    <2> QED BY <2>1, RememberedOn
  <1>4. CASE ProcessEnds
    BY <1>4 DEF ProcessEnds, NoReader
  <1>5. ASSUME OtherSteps, ~(UserBinds \/ BindingEnds \/ UserReduces \/ ProcessEnds)
        PROVE  reader' = reader
    BY <1>5 DEF OtherSteps, Removed, RemoteEvicts, Expires, ProviderCloses, ProcessStarts,
       SessionsChange, calls
  <1> QED BY <1>1, <1>2, <1>3, <1>4, <1>5, Steps, ShotsTyped, ReadersTyped, ReaperTyped DEF vars

\* What the answer permits stays permitted, and the list was made before it.
LEMMA PermittingStep == TypeOK /\ Captured /\ Stamped /\ Permitting /\ [Next]_vars => Permitting'
  <1> SUFFICES ASSUME TypeOK, Captured, Stamped, Permitting, [Next]_vars,
                      NEW p \in Reaps, reap'[p].stage = "answered", reap'[p].detail # Disconnected,
                      NEW i \in reap'[p].listed, Covered(i)'
               PROVE  reap'[p].detail = stamp'[i]
    BY DEF Permitting, Permits, Disconnected
  <1>1. CASE reap'[p] = reap[p]
    <2>1. i \in 1..made
      BY <1>1 DEF Captured
    <2> QED BY <1>1, <2>1, Stamps, NotRegained DEF Permitting, Permits
  <1>2. CASE ReapSteps(p)
    <2>1. CASE ReaperFires(p)
      BY <1>1, <2>1 DEF ReaperFires, TypeOK
    <2>2. CASE ReapStatus(p)
      <3>1. reap'[p] = [reap[p] EXCEPT !.stage = "answered", !.detail = Detail]
            /\ binding' = binding /\ stamp' = stamp
        BY <2>2 DEF ReapStatus, TypeOK, access
      <3>2. reap'[p].detail = Detail
        BY <3>1 DEF TypeOK, ReapStates
      <3> QED BY <3>1, <3>2 DEF Covered, Granted, Detail
    <2>3. CASE ReapUnverified(p) \/ ReapDecides(p)
      BY <2>3 DEF ReapUnverified, ReapDecides, NoReap, TypeOK
    <2> QED BY <1>2, <2>1, <2>2, <2>3 DEF ReapSteps
  <1>3. CASE ProcessEnds
    BY <1>3 DEF ProcessEnds, NoReap
  <1>4. CASE UserBinds \/ BindingEnds \/ UserReduces
    BY <1>1, <1>4, AccessTyped DEF AccessChanges
  <1>5. ASSUME OtherSteps, ~(UserBinds \/ BindingEnds \/ UserReduces \/ ProcessEnds)
        PROVE  reap' = reap
    BY <1>5 DEF OtherSteps, Removed, RemoteEvicts, Expires, ProviderCloses, ProcessStarts,
       SessionsChange, calls
  <1> QED BY <1>1, <1>2, <1>3, <1>4, <1>5, Steps, ShotsTyped, ReadersTyped, ReaperTyped DEF vars

-----------------------------------------------------------------------------
(* The theorems                                                            *)

LEMMA InitInd == Init => IndInv
  <1> SUFFICES ASSUME Init PROVE IndInv
    OBVIOUS
  <1>1. TypeOK
    <2>1. Cardinality(store) = 0
      BY FS_EmptySet DEF Init
    <2>2. [token |-> 0, live |-> FALSE, capture |-> FALSE] \in Bindings
      BY ArtifactsAssumption DEF Bindings, Tokens
    <2>3. MaxFiles \in Nat /\ MaxArtifacts \in Nat /\ MaxEvents \in Nat /\ 0 \in Tokens
      BY ArtifactsAssumption DEF Tokens
    <2>4. shot \in [Shots -> ShotStates] /\ reader \in [Readers -> ReaderStates] /\ reap \in [Reaps -> ReapStates]
      BY Blanks DEF Init
    <2>5. binding \in Bindings /\ stamp \in [Ids -> Tokens]
      BY <2>2, <2>3 DEF Init
    <2>6. made \in 0..MaxArtifacts /\ events \in 0..MaxEvents /\ Cardinality(store) <= MaxFiles
      BY <2>1, <2>3 DEF Init
    <2>7. remote \subseteq 1..made /\ store \subseteq 1..made /\ stale \subseteq store
      BY DEF Init
    <2> QED BY <2>4, <2>5, <2>6, <2>7 DEF Init, TypeOK
  <1>2. Captured /\ Stamped /\ Remembered /\ Permitting
    BY DEF Init, Captured, Stamped, Remembered, Permitting, NoShot, NoReader, NoReap
  <1> QED BY <1>1, <1>2 DEF IndInv

\* The inductive invariant of the provider's artifacts: what the calls are about has
\* been captured and stamped, a reader remembers the access there is, and the answer
\* a reaper holds permits every picture of its list that still has access.
THEOREM ArtifactsInvariant == Spec => []IndInv
  <1>1. IndInv /\ [Next]_vars => IndInv'
    BY TypeStep, CapturedStep, Stamps, RememberedStep, PermittingStep DEF IndInv
  <1> QED BY <1>1, InitInd, PTL DEF Spec

\* The types, and the cap on the directory (sweep before a write in artifact-store.ts,
\* with readers and reapers that remove files in between).
THEOREM TypeCorrect == Spec => []TypeOK
  <1>1. IndInv => TypeOK
    BY DEF IndInv
  <1> QED BY <1>1, ArtifactsInvariant, PTL

\* Bytes are given only if the access of that very picture, its binding and the capture
\* action, existed at some moment of the call (describeArtifact, readArtifact and
\* materializeArtifact of provider-v2.ts), whatever the user and other browsers do.
THEOREM GivenWasCovered == Spec => []ReadWasCovered
  <1>1. IndInv => ReadWasCovered
    BY DEF IndInv, Remembered, ReadWasCovered
  <1> QED BY <1>1, ArtifactsInvariant, PTL

\* A run of the reaper that got an answer, however late it is and however many runs
\* overlap, removes no picture whose access is live (reapArtifacts of provider-v2.ts).
THEOREM ReaperSparesTheLive == Spec => SparesTheLive
  <1> DEFINE A == \A p \in Reaps : ReapDecides(p) /\ reap[p].detail # Disconnected =>
                      \A i \in store \ store' : ~Covered(i)
  <1>1. IndInv /\ [Next]_vars => [A]_vars
    BY DEF IndInv, Permitting, ReapDecides, Holds
  <1> QED BY <1>1, ArtifactsInvariant, PTL DEF Spec, SparesTheLive

=============================================================================
