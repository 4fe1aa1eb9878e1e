----------------------- MODULE MutationJournal_proofs -----------------------
(***************************************************************************)
(* The journal, the host and the companion together implement AtMostOnce,  *)
(* for every set of ids and parameters and every bound, provided that the  *)
(* journal file stays readable and every operation is a single browser     *)
(* call.  Neither condition can be dropped: an unreadable file costs the   *)
(* mark of the ids that are refused, and a later call that fails is        *)
(* answered with not_started, which makes the host forget the id.          *)
(***************************************************************************)
EXTENDS MutationJournal, FiniteSetTheorems, TLAPS

-----------------------------------------------------------------------------
(* The inductive invariant.                                                *)

InFlight(id) ==
    toCompanion[id] # NoPayload \/ exec[id].phase # "idle" \/ toHost[id] # "none"

\* An entry is dated after its id was minted, and not in the future.
Dated(m) ==
    \A id \in Ids : m[id].state # "none" =>
        /\ minted[id] # 0
        /\ minted[id] <= m[id].started /\ m[id].started <= clock
        /\ m[id].completed = 0 \/ m[id].started <= m[id].completed

\* Only minted ids are used, and no id is minted in the future.
MintedFirst ==
    \A id \in Ids :
        /\ minted[id] <= clock
        /\ minted[id] = 0 => /\ pending[id] = NoPayload /\ lateEntries[id] = NoPayload
                             /\ ~InFlight(id) /\ runs[id] = 0

\* A request is in one place at a time, and has run there or not.
Located(id) ==
    /\ toCompanion[id] # NoPayload =>
         exec[id].phase = "idle" /\ toHost[id] = "none" /\ runs[id] = 0
    /\ exec[id].phase # "idle" => toHost[id] = "none"
    /\ exec[id].phase \in {"queued", "running"} => runs[id] = 0
    /\ toHost[id] = "not_started" => runs[id] = 0
    /\ runs[id] <= 1

Used(id) == InFlight(id) \/ runs[id] > 0

\* What may have run is on disk or refused for good, and the live host knows it too.
OnDisk == \A id \in Ids : Used(id) => id \in Recorded \cup Retired
InMemory ==
    ready => /\ disk.evicted <= evictedBefore
             /\ \A id \in Ids :
                  Used(id) => mem[id].state # "none" \/ Outside(id, evictedBefore)

IndInv ==
    /\ TypeOK
    /\ disk.readable
    /\ Dated(mem) /\ Dated(disk.entries)
    /\ MintedFirst
    /\ \A id \in Ids : Located(id)
    /\ OnDisk
    /\ InMemory
-----------------------------------------------------------------------------
(* Types.                                                                  *)

\* A freshly recorded and a completed entry are journal entries.
LEMMA NewEntries ==
    ASSUME TypeOK, NEW id \in Ids, NEW p \in Payloads, NEW r \in Responses
    PROVE  /\ Started(p) \in Entries
           /\ Completed(id, p, r) \in Entries
  <1>1. Fingerprint(p) \in Clicks \cup {"typed", "operation", NoPayload}
    BY JournalAssumption DEF Fingerprint, Payloads
  <1>2. clock \in Nat
    BY JournalAssumption DEF TypeOK
  <1>3. mem[id].started \in Nat
    BY DEF TypeOK, Entries
  <1>4. QED
    BY <1>1, <1>2, <1>3 DEF Started, Completed, Entries, Responses

\* Forgetting entries leaves a journal.
LEMMA WithoutType ==
    ASSUME NEW m \in [Ids -> Entries], NEW ids
    PROVE  /\ Without(m, ids) \in [Ids -> Entries]
           /\ \A i \in Ids : Without(m, ids)[i] = IF i \in ids THEN NoEntry ELSE m[i]
  <1>1. NoEntry \in Entries
    BY DEF NoEntry, Entries
  <1>2. QED
    BY <1>1 DEF Without

\* A typed state binds the clock.
LEMMA ClockType == ASSUME TypeOK PROVE clock \in Nat
  BY JournalAssumption DEF TypeOK

\* Pruning by age only loses entries whose ids are outside the replay horizon.
LEMMA UnexpiredKeeps ==
    ASSUME TypeOK, NEW m \in [Ids -> Entries], Dated(m), NEW mark
    PROVE  /\ Unexpired(m) \in [Ids -> Entries]
           /\ \A i \in Ids : m[i].state # "none" =>
                Unexpired(m)[i] = m[i] \/ Outside(i, mark)
           /\ \A i \in Ids : Unexpired(m)[i].state # "none" => Unexpired(m)[i] = m[i]
  <1> DEFINE old == {i \in Listed(m) : Age(m[i]) > Horizon}
  <1>1. /\ Without(m, old) \in [Ids -> Entries]
        /\ \A i \in Ids : Without(m, old)[i] = IF i \in old THEN NoEntry ELSE m[i]
    BY WithoutType
  <1>2. ASSUME NEW i \in old PROVE Outside(i, mark)
    <2>1. i \in Ids /\ m[i].state # "none" /\ Age(m[i]) > Horizon
      BY <1>2 DEF Listed
    <2>2. /\ m[i].started \in Nat /\ m[i].completed \in Nat
          /\ minted[i] \in Nat /\ clock \in Nat /\ Horizon \in Nat
      BY <2>1, JournalAssumption, ClockType DEF Entries, TypeOK
    <2>3. clock - minted[i] > Horizon
      BY <2>1, <2>2 DEF Age, Dated
    <2>4. QED
      BY <2>3 DEF Outside
  <1>3. NoEntry.state = "none"
    BY DEF NoEntry
  <1>4. QED
    BY <1>1, <1>2, <1>3 DEF Unexpired

-----------------------------------------------------------------------------
(* What persisting a journal does, whether or not it succeeds.             *)

\* Nothing is invented, and what is lost is refused for good, in memory and, if the
\* file was replaced, on disk.
LEMMA PersistKeeps ==
    ASSUME TypeOK, InMemory, ready, disk.readable,
           NEW m \in [Ids -> Entries], Dated(m),
           NEW undo, NEW how \in PersistOutcomes, Persist(m, undo, how)
    PROVE  /\ mem' \in [Ids -> Entries]
           /\ evictedBefore' \in Nat
           /\ disk' \in [entries : [Ids -> Entries], evicted : Nat, readable : BOOLEAN]
           /\ disk'.readable
           /\ evictedBefore <= evictedBefore'
           /\ disk.evicted <= disk'.evicted
           /\ disk'.evicted <= evictedBefore'
           /\ \A i \in Ids : mem'[i].state # "none" => mem'[i] = m[i]
           /\ \A i \in Ids : m[i].state # "none" /\ (i \notin undo \/ how = "written") =>
                mem'[i].state # "none" \/ clock - minted[i] > Horizon \/ minted[i] <= evictedBefore'
           /\ \/ disk' = disk /\ how # "written"
              \/ \A i \in Ids :
                   /\ disk'.entries[i].state # "none" => disk'.entries[i] = m[i]
                   /\ disk'.evicted = evictedBefore'
                   /\ m[i].state # "none" => \/ disk'.entries[i].state # "none"
                                             \/ clock - minted[i] > Horizon
                                             \/ minted[i] <= disk'.evicted
  <1> DEFINE U == Unexpired(m)
  <1>1. /\ U \in [Ids -> Entries]
        /\ \A i \in Ids : U[i].state # "none" => U[i] = m[i]
        /\ \A i \in Ids : m[i].state # "none" => U[i] = m[i] \/ Outside(i, 0)
    BY UnexpiredKeeps
  <1>2. /\ \A i \in Ids : m[i].started \in Nat /\ minted[i] \in Nat
        /\ evictedBefore \in Nat /\ disk.evicted \in Nat /\ disk.evicted <= evictedBefore
        /\ disk \in [entries : [Ids -> Entries], evicted : Nat, readable : BOOLEAN]
        /\ clock \in Nat /\ Horizon \in Nat
    BY ClockType, JournalAssumption DEF TypeOK, Entries, InMemory
  <1>3. NoEntry.state = "none"
    BY DEF NoEntry
  <1>4. CASE how = "locked"
    <2>1. mem' = Without(m, undo) /\ evictedBefore' = evictedBefore /\ disk' = disk
      BY <1>4 DEF Persist
    <2>2. /\ Without(m, undo) \in [Ids -> Entries]
          /\ \A i \in Ids : Without(m, undo)[i] = IF i \in undo THEN NoEntry ELSE m[i]
      BY WithoutType
    <2>3. QED
      BY <1>2, <1>3, <1>4, <2>1, <2>2
  <1>5. CASE how # "locked"
    <2>1. PICK gone \in SUBSET Ids :
            LET kept == Without(U, gone) IN
            /\ Evictable(U, gone)
            /\ mem' = IF how = "written" THEN kept ELSE Without(kept, undo)
            /\ evictedBefore' \in {evictedBefore} \cup {m[i].started : i \in gone}
            /\ evictedBefore' >= evictedBefore
            /\ \A i \in gone : evictedBefore' >= m[i].started
            /\ IF how = "unwritten" THEN UNCHANGED disk
               ELSE disk' = [entries |-> kept, evicted |-> evictedBefore', readable |-> TRUE]
      BY <1>5 DEF Persist
    <2> DEFINE kept == Without(U, gone)
    <2>2. /\ kept \in [Ids -> Entries]
          /\ \A i \in Ids : kept[i] = IF i \in gone THEN NoEntry ELSE U[i]
      BY <1>1, WithoutType
    <2>3. /\ Without(kept, undo) \in [Ids -> Entries]
          /\ \A i \in Ids : Without(kept, undo)[i] = IF i \in undo THEN NoEntry ELSE kept[i]
      BY <2>2, WithoutType
    <2>4. evictedBefore' \in Nat /\ evictedBefore <= evictedBefore'
      BY <1>2, <2>1
    <2>5. \A i \in Ids : kept[i].state # "none" => kept[i] = m[i]
      BY <1>1, <1>3, <2>2
    <2>6. ASSUME NEW i \in Ids, m[i].state # "none"
          PROVE  kept[i].state # "none" \/ clock - minted[i] > Horizon \/ minted[i] <= evictedBefore'
      <3>1. CASE i \in gone
        <4>1. minted[i] <= m[i].started /\ m[i].started <= evictedBefore'
          BY <2>1, <2>6, <3>1 DEF Dated
        <4>2. QED
          BY <1>2, <2>4, <4>1
      <3>2. CASE i \notin gone
        <4>1. kept[i] = U[i]
          BY <2>2, <3>2
        <4>2. CASE U[i] = m[i]
          BY <2>6, <4>1, <4>2
        <4>3. CASE Outside(i, 0)
          BY <1>2, <2>4, <4>3 DEF Outside
        <4>4. QED
          BY <1>1, <2>6, <4>2, <4>3
      <3>3. QED
        BY <3>1, <3>2
    <2>7. mem' \in [Ids -> Entries] /\ \A i \in Ids : mem'[i].state # "none" => mem'[i] = m[i]
      BY <1>3, <2>1, <2>2, <2>3, <2>5
    <2>8. \A i \in Ids : i \notin undo \/ how = "written" => mem'[i] = kept[i]
      BY <2>1, <2>3
    <2>9. \A i \in Ids : m[i].state # "none" /\ (i \notin undo \/ how = "written") =>
            mem'[i].state # "none" \/ clock - minted[i] > Horizon \/ minted[i] <= evictedBefore'
      BY <2>6, <2>8
    <2>10. CASE how = "unwritten"
      <3>1. disk' = disk
        BY <2>1, <2>10
      <3>2. QED
        BY <1>2, <2>4, <2>7, <2>9, <2>10, <3>1
    <2>11. CASE how # "unwritten"
      <3>1. disk' = [entries |-> kept, evicted |-> evictedBefore', readable |-> TRUE]
        BY <2>1, <2>11
      <3>2. /\ disk' \in [entries : [Ids -> Entries], evicted : Nat, readable : BOOLEAN]
            /\ disk'.entries = kept /\ disk'.evicted = evictedBefore' /\ disk'.readable
        BY <2>2, <2>4, <3>1
      <3>3. QED
        BY <1>2, <2>4, <2>5, <2>6, <2>7, <2>9, <3>2
    <2>12. QED
      BY <2>10, <2>11
  <1>6. QED
    BY <1>4, <1>5

\* Persisting keeps both copies dated, and keeps every id that was in journal m, or was
\* refused, in the record or refused: in memory unless it is undone, and on disk.
LEMMA PersistGood ==
    ASSUME IndInv, ready, NEW m \in [Ids -> Entries], Dated(m),
           NEW undo, NEW how \in PersistOutcomes, Persist(m, undo, how),
           UNCHANGED <<clock, minted>>
    PROVE  /\ mem' \in [Ids -> Entries]
           /\ evictedBefore' \in Nat
           /\ disk' \in [entries : [Ids -> Entries], evicted : Nat, readable : BOOLEAN]
           /\ disk'.readable
           /\ disk.evicted <= disk'.evicted /\ disk'.evicted <= evictedBefore'
           /\ Dated(mem)' /\ Dated(disk.entries)'
           /\ \A i \in Ids :
                /\ Outside(i, evictedBefore) \/ (m[i].state # "none" /\ (i \notin undo \/ how = "written"))
                   => mem'[i].state # "none" \/ Outside(i, evictedBefore)'
           /\ \A i \in Ids :
                /\ m[i].state # "none" \/ Outside(i, evictedBefore)
                /\ minted[i] # 0
                /\ i \in Recorded \cup Retired \/ how = "written"
                => i \in Recorded' \cup Retired'
  <1>1. /\ TypeOK /\ InMemory /\ disk.readable /\ Dated(disk.entries)
        /\ minted' = minted /\ clock' = clock
    BY DEF IndInv
  <1>2. /\ \A i \in Ids : minted[i] \in Nat
        /\ evictedBefore \in Nat /\ disk.evicted \in Nat /\ clock \in Nat /\ Horizon \in Nat
        /\ disk.evicted <= evictedBefore
    BY <1>1, ClockType, JournalAssumption DEF TypeOK, InMemory
  <1>3. /\ mem' \in [Ids -> Entries] /\ evictedBefore' \in Nat
        /\ disk' \in [entries : [Ids -> Entries], evicted : Nat, readable : BOOLEAN]
        /\ disk'.readable
        /\ evictedBefore <= evictedBefore'
        /\ disk.evicted <= disk'.evicted /\ disk'.evicted <= evictedBefore'
    BY <1>1, PersistKeeps
  <1>4. /\ \A i \in Ids : mem'[i].state # "none" => mem'[i] = m[i]
        /\ \A i \in Ids : m[i].state # "none" /\ (i \notin undo \/ how = "written") =>
             mem'[i].state # "none" \/ clock - minted[i] > Horizon \/ minted[i] <= evictedBefore'
    BY <1>1, PersistKeeps
  <1>5. \/ disk' = disk /\ how # "written"
        \/ \A i \in Ids :
             /\ disk'.entries[i].state # "none" => disk'.entries[i] = m[i]
             /\ disk'.evicted = evictedBefore'
             /\ m[i].state # "none" => \/ disk'.entries[i].state # "none"
                                       \/ clock - minted[i] > Horizon
                                       \/ minted[i] <= disk'.evicted
    BY <1>1, PersistKeeps
  <1>6. Dated(mem)'
    BY <1>1, <1>4 DEF Dated
  <1>7. Dated(disk.entries)'
    BY <1>1, <1>5 DEF Dated
  <1>8. ASSUME NEW i \in Ids,
               Outside(i, evictedBefore) \/ (m[i].state # "none" /\ (i \notin undo \/ how = "written"))
        PROVE  mem'[i].state # "none" \/ Outside(i, evictedBefore)'
    BY <1>1, <1>2, <1>3, <1>4, <1>8 DEF Outside
  <1>9. ASSUME NEW i \in Ids, m[i].state # "none" \/ Outside(i, evictedBefore), minted[i] # 0,
               i \in Recorded \cup Retired \/ how = "written"
        PROVE  i \in Recorded' \cup Retired'
    <2>1. CASE disk' = disk /\ how # "written"
      BY <1>1, <1>9, <2>1 DEF Recorded, Retired, Listed, Outside
    <2>2. CASE \A j \in Ids :
             /\ disk'.evicted = evictedBefore'
             /\ m[j].state # "none" => \/ disk'.entries[j].state # "none"
                                       \/ clock - minted[j] > Horizon
                                       \/ minted[j] <= disk'.evicted
      BY <1>1, <1>2, <1>3, <1>9, <2>2 DEF Recorded, Retired, Listed, Outside
    <2>3. QED
      BY <1>5, <2>1, <2>2
  <1>10. QED
    BY <1>3, <1>6, <1>7, <1>8, <1>9

-----------------------------------------------------------------------------
(* The steps that persist.                                                 *)

\* A fresh id has not been used, so recording and sending it starts its only execution.
LEMMA ForwardGood ==
    ASSUME IndInv, NEW id \in Ids, NEW p \in Payloads, NEW how \in PersistOutcomes,
           NEW sent \in BOOLEAN, Forward(id, p, how, sent)
    PROVE  IndInv' /\ disk.evicted <= disk'.evicted
  <1> DEFINE m == [mem EXCEPT ![id] = Started(p)]
  <1>1. /\ TypeOK /\ Dated(mem) /\ MintedFirst /\ OnDisk /\ InMemory
        /\ \A i \in Ids : Located(i)
    BY DEF IndInv
  <1>2. /\ ready /\ ready' = ready /\ minted[id] # 0
        /\ mem[id].state = "none" /\ ~Outside(id, evictedBefore)
        /\ Persist(m, {id}, how)
        /\ clock' = clock /\ minted' = minted
        /\ exec' = exec /\ authorized' = authorized /\ runs' = runs
        /\ lateEntries' = lateEntries /\ toHost' = toHost
    BY DEF Forward, Lookup, companionVars
  <1>3. ~Used(id)
    BY <1>1, <1>2 DEF InMemory
  <1>4. m \in [Ids -> Entries] /\ Started(p).started = clock /\ Started(p).completed = 0
    <2>1. Started(p) \in Entries
      BY <1>1, NewEntries DEF Responses
    <2>2. mem \in [Ids -> Entries]
      BY <1>1 DEF TypeOK
    <2>3. Started(p).started = clock /\ Started(p).completed = 0
      BY DEF Started
    <2>4. QED
      BY <2>1, <2>2, <2>3
  <1>5. Dated(m)
    <2>1. m[id] = Started(p) /\ \A i \in Ids \ {id} : m[i] = mem[i]
      BY <1>1 DEF TypeOK
    <2>2. minted[id] <= clock /\ clock \in Nat
      BY <1>1, ClockType DEF MintedFirst
    <2>3. QED
      BY <1>1, <1>2, <1>4, <2>1, <2>2 DEF Dated
  <1>6. /\ mem' \in [Ids -> Entries] /\ evictedBefore' \in Nat
        /\ disk' \in [entries : [Ids -> Entries], evicted : Nat, readable : BOOLEAN]
        /\ disk'.readable /\ disk'.evicted <= evictedBefore'
        /\ disk.evicted <= disk'.evicted /\ Dated(mem)' /\ Dated(disk.entries)'
    BY <1>2, <1>4, <1>5, PersistGood
  <1>7. \A i \in Ids :
          /\ Outside(i, evictedBefore) \/ (m[i].state # "none" /\ (i \notin {id} \/ how = "written"))
             => mem'[i].state # "none" \/ Outside(i, evictedBefore)'
    BY <1>2, <1>4, <1>5, PersistGood
  <1>8. \A i \in Ids :
          /\ m[i].state # "none" \/ Outside(i, evictedBefore)
          /\ minted[i] # 0
          /\ i \in Recorded \cup Retired \/ how = "written"
          => i \in Recorded' \cup Retired'
    BY <1>2, <1>4, <1>5, PersistGood
  <1>9. /\ volatile' = [volatile EXCEPT ![id] = IF how = "written" THEN p ELSE NoPayload]
        /\ \/ /\ how = "written" /\ sent
              /\ pending' = [pending EXCEPT ![id] = p]
              /\ toCompanion' = [toCompanion EXCEPT ![id] = p]
              /\ dispatched' = [dispatched EXCEPT ![id] = p]
           \/ pending' = pending /\ toCompanion' = toCompanion /\ dispatched' = dispatched
    BY DEF Forward
  <1>10. TypeOK'
    BY <1>1, <1>2, <1>6, <1>9 DEF TypeOK
  <1>11. MintedFirst'
    BY <1>1, <1>2, <1>9 DEF MintedFirst, InFlight, TypeOK
  <1>12. ASSUME NEW i \in Ids PROVE Located(i)'
    <2>1. CASE i = id
      BY <1>1, <1>2, <1>3, <1>9, <2>1 DEF Located, Used, InFlight, TypeOK
    <2>2. CASE i # id
      BY <1>1, <1>2, <1>9, <2>2 DEF Located, TypeOK
    <2>3. QED
      BY <2>1, <2>2
  <1>13. ASSUME NEW i \in Ids, Used(i)'
         PROVE  /\ i \in Recorded' \cup Retired'
                /\ mem'[i].state # "none" \/ Outside(i, evictedBefore)'
    <2>1. CASE i = id
      <3>1. how = "written"
        BY <1>2, <1>3, <1>9, <1>13, <2>1 DEF Used, InFlight
      <3>2. m[id].state # "none"
        BY <1>1 DEF TypeOK, Started
      <3>3. QED
        BY <1>2, <1>7, <1>8, <2>1, <3>1, <3>2
    <2>2. CASE i # id
      <3>1. Used(i)
        BY <1>1, <1>2, <1>9, <1>13, <2>2 DEF Used, InFlight, TypeOK
      <3>2. /\ i \in Recorded \cup Retired
            /\ mem[i].state # "none" \/ Outside(i, evictedBefore)
        BY <1>1, <1>2, <3>1 DEF OnDisk, InMemory
      <3>3. m[i] = mem[i] /\ minted[i] # 0
        BY <1>1, <2>2, <3>1 DEF TypeOK, MintedFirst, Used
      <3>4. QED
        BY <1>7, <1>8, <2>2, <3>2, <3>3
    <2>3. QED
      BY <2>1, <2>2
  <1>14. QED
    BY <1>6, <1>10, <1>11, <1>12, <1>13 DEF IndInv, OnDisk, InMemory

\* An answer leaves the id recorded as completed, or, when nothing was started, unused.
LEMMA SettleGood ==
    ASSUME IndInv, NEW id \in Ids, NEW how \in PersistOutcomes, Settle(id, how)
    PROVE  IndInv' /\ disk.evicted <= disk'.evicted
  <1> DEFINE p == IF pending[id] # NoPayload THEN pending[id] ELSE lateEntries[id]
             r == toHost[id]
             m == IF r = "not_started" THEN Without(mem, {id})
                  ELSE [mem EXCEPT ![id] = Completed(id, p, r)]
  <1>1. /\ TypeOK /\ Dated(mem) /\ MintedFirst /\ OnDisk /\ InMemory /\ disk.readable
        /\ Dated(disk.entries) /\ \A i \in Ids : Located(i)
    BY DEF IndInv
  <1>2. /\ ready /\ ready' = ready /\ r # "none"
        /\ clock' = clock /\ minted' = minted
        /\ exec' = exec /\ authorized' = authorized /\ runs' = runs
        /\ toCompanion' = toCompanion /\ dispatched' = dispatched
        /\ toHost' = [toHost EXCEPT ![id] = "none"]
        /\ pending' = [pending EXCEPT ![id] = NoPayload]
        /\ \/ lateEntries' = [lateEntries EXCEPT ![id] = NoPayload]
           \/ lateEntries' = lateEntries
    BY DEF Settle, companionVars
  <1>3. toHost' \in [Ids -> Responses \cup {"none"}] /\ r \in Responses
    BY <1>1, <1>2 DEF TypeOK
  <1>4. /\ pending' \in [Ids -> Payloads \cup {NoPayload}]
        /\ lateEntries' \in [Ids -> Payloads \cup {NoPayload}]
        /\ p \in Payloads \cup {NoPayload}
    BY <1>1, <1>2 DEF TypeOK
  <1>5. MintedFirst'
    BY <1>1, <1>2 DEF MintedFirst, InFlight, TypeOK
  <1>6. ASSUME NEW i \in Ids PROVE Located(i)'
    BY <1>1, <1>2 DEF Located, TypeOK
  <1>7. \A i \in Ids : Used(i)' => Used(i)
    BY <1>1, <1>2 DEF Used, InFlight, TypeOK
  <1>8. CASE p = NoPayload
    <2>1. UNCHANGED <<mem, disk, evictedBefore, volatile>>
      BY <1>8 DEF Settle
    <2>2. TypeOK'
      BY <1>1, <1>2, <1>3, <1>4, <2>1 DEF TypeOK
    <2>3. OnDisk' /\ InMemory'
      BY <1>1, <1>2, <1>7, <2>1
      DEF OnDisk, InMemory, Recorded, Retired, Listed, Outside
    <2>4. Dated(mem)' /\ Dated(disk.entries)'
      BY <1>1, <1>2, <2>1 DEF Dated
    <2>5. QED
      BY <1>1, <1>5, <1>6, <2>1, <2>2, <2>3, <2>4 DEF IndInv, TypeOK
  <1>9. CASE p # NoPayload
    <2>1. Persist(m, {}, how)
      BY <1>2, <1>9 DEF Settle
    <2>2. /\ volatile' \in [Ids -> Payloads \cup {NoPayload}]
      BY <1>1, <1>4, <1>9 DEF Settle, TypeOK
    <2>3. p \in Payloads /\ minted[id] # 0
      BY <1>1, <1>4, <1>9 DEF MintedFirst
    <2>4. /\ Completed(id, p, r) \in Entries
          /\ Completed(id, p, r).state = "completed"
          /\ Completed(id, p, r).completed = clock
          /\ Completed(id, p, r).started = IF mem[id].state = "none" THEN clock ELSE mem[id].started
      <3>1. Completed(id, p, r) \in Entries
        BY <1>1, <1>3, <2>3, NewEntries
      <3>2. QED
        BY <3>1 DEF Completed
    <2>5. /\ m \in [Ids -> Entries]
          /\ \A i \in Ids \ {id} : m[i] = mem[i]
          /\ m[id] = IF r = "not_started" THEN NoEntry ELSE Completed(id, p, r)
      <3>1. mem \in [Ids -> Entries]
        BY <1>1 DEF TypeOK
      <3>2. /\ Without(mem, {id}) \in [Ids -> Entries]
            /\ \A i \in Ids : Without(mem, {id})[i] = IF i \in {id} THEN NoEntry ELSE mem[i]
        BY <3>1, WithoutType
      <3>3. CASE r = "not_started"
        BY <3>2, <3>3
      <3>4. CASE r # "not_started"
        BY <2>4, <3>1, <3>4
      <3>5. QED
        BY <3>3, <3>4
    <2> HIDE DEF m
    <2>6. Dated(m)
      <3>1. minted[id] <= clock /\ clock \in Nat /\ minted[id] \in Nat /\ mem[id].started \in Nat
        BY <1>1, ClockType DEF MintedFirst, TypeOK, Entries
      <3>2. NoEntry.state = "none"
        BY DEF NoEntry
      <3>3. QED
        BY <1>1, <2>3, <2>4, <2>5, <3>1, <3>2 DEF Dated
    <2>7. /\ mem' \in [Ids -> Entries] /\ evictedBefore' \in Nat
          /\ disk' \in [entries : [Ids -> Entries], evicted : Nat, readable : BOOLEAN]
          /\ disk'.readable /\ disk'.evicted <= evictedBefore'
          /\ disk.evicted <= disk'.evicted /\ Dated(mem)' /\ Dated(disk.entries)'
      BY <1>2, <2>1, <2>5, <2>6, PersistGood
    <2>8. /\ \A i \in Ids :
               /\ Outside(i, evictedBefore) \/ (m[i].state # "none" /\ (i \notin {} \/ how = "written"))
                  => mem'[i].state # "none" \/ Outside(i, evictedBefore)'
      BY <1>2, <2>1, <2>5, <2>6, PersistGood
    <2>9. \A i \in Ids :
            /\ m[i].state # "none" \/ Outside(i, evictedBefore)
            /\ minted[i] # 0
            /\ i \in Recorded \cup Retired \/ how = "written"
            => i \in Recorded' \cup Retired'
      BY <1>2, <2>1, <2>5, <2>6, PersistGood
    <2>10. ASSUME NEW i \in Ids, Used(i)'
           PROVE  /\ i \in Recorded' \cup Retired'
                  /\ mem'[i].state # "none" \/ Outside(i, evictedBefore)'
      <3>1. /\ Used(i) /\ minted[i] # 0
            /\ i \in Recorded \cup Retired
            /\ mem[i].state # "none" \/ Outside(i, evictedBefore)
        BY <1>1, <1>2, <1>7, <2>10 DEF OnDisk, InMemory, MintedFirst, Used, TypeOK
      <3>2. CASE i # id
        BY <2>5, <2>8, <2>9, <3>1, <3>2
      <3>3. CASE i = id
        <4>1. r # "not_started"
          BY <1>1, <1>2, <2>10, <3>3 DEF Located, Used, InFlight, TypeOK
        <4>2. m[id].state # "none"
          BY <2>4, <2>5, <4>1
        <4>3. QED
          BY <2>8, <2>9, <3>1, <3>3, <4>2
      <3>4. QED
        BY <3>2, <3>3
    <2>11. TypeOK'
      BY <1>1, <1>2, <1>3, <1>4, <2>2, <2>7 DEF TypeOK
    <2>12. QED
      BY <1>5, <1>6, <2>7, <2>10, <2>11 DEF IndInv, OnDisk, InMemory
  <1>10. QED
    BY <1>8, <1>9

-----------------------------------------------------------------------------
(* The steps that leave the journal alone.                                 *)

\* While journal, clock and minting rest, the record and its marks rest.
LEMMA JournalRests ==
    ASSUME IndInv, UNCHANGED <<clock, minted, disk, mem, evictedBefore>>
    PROVE  /\ Dated(mem)' /\ Dated(disk.entries)'
           /\ Recorded' = Recorded /\ Retired' = Retired
           /\ \A i \in Ids : Outside(i, evictedBefore)' = Outside(i, evictedBefore)
  BY DEF IndInv, Dated, Recorded, Retired, Listed, Outside

\* A step in the companion that uses no new id keeps the invariant.
LEMMA CompanionGood ==
    ASSUME IndInv, UNCHANGED <<clock, minted, disk, hostVars, dispatched>>,
           toCompanion' \in [Ids -> Payloads \cup {NoPayload}],
           exec' \in [Ids -> Execs], toHost' \in [Ids -> Responses \cup {"none"}],
           authorized' \in BOOLEAN, runs' \in [Ids -> Nat],
           \A i \in Ids : Used(i)' => Used(i),
           \A i \in Ids : Located(i)'
    PROVE  IndInv'
  <1>1. /\ Dated(mem)' /\ Dated(disk.entries)'
        /\ Recorded' = Recorded /\ Retired' = Retired
        /\ \A i \in Ids : Outside(i, evictedBefore)' = Outside(i, evictedBefore)
    BY JournalRests DEF hostVars
  <1>2. TypeOK'
    BY DEF IndInv, TypeOK, hostVars
  <1>3. MintedFirst'
    <2>1. \A i \in Ids : ~Used(i) => ~InFlight(i)' /\ ~(runs[i] > 0)'
      BY DEF Used
    <2>2. \A i \in Ids : ~(runs'[i] > 0) => runs'[i] = 0
      OBVIOUS
    <2>3. \A i \in Ids : minted[i] = 0 => ~Used(i)
      BY DEF IndInv, MintedFirst, Used, TypeOK
    <2>4. QED
      BY <2>1, <2>2, <2>3 DEF IndInv, MintedFirst, hostVars
  <1>4. OnDisk' /\ InMemory'
    BY <1>1 DEF IndInv, OnDisk, InMemory, hostVars
  <1>5. disk'.readable
    BY DEF IndInv
  <1>6. QED
    BY <1>1, <1>2, <1>3, <1>4, <1>5 DEF IndInv

\* Answering frees the id in the companion; it is not_started only when nothing ran.
LEMMA RespondGood ==
    ASSUME IndInv, NEW id \in Ids, NEW r \in Responses, Respond(id, r),
           exec[id].phase # "idle", r = "not_started" => runs[id] = 0
    PROVE  IndInv'
  <1>1. TypeOK /\ \A i \in Ids : Located(i)
    BY DEF IndInv
  <1>2. /\ exec' = [exec EXCEPT ![id] = NoExec] /\ NoExec \in Execs /\ NoExec.phase = "idle"
        /\ UNCHANGED <<clock, minted, disk, hostVars, toCompanion, authorized, runs, dispatched>>
    BY DEF Respond, NoExec, Execs
  <1>3. \/ toHost' = toHost
        \/ \E s \in Responses : /\ toHost' = [toHost EXCEPT ![id] = s]
                                /\ s = "not_started" => runs[id] = 0
    BY DEF Respond, Responses
  <1>4. toHost' \in [Ids -> Responses \cup {"none"}] /\ exec' \in [Ids -> Execs]
    BY <1>1, <1>2, <1>3 DEF TypeOK
  <1>5. ASSUME NEW i \in Ids PROVE (Used(i)' => Used(i)) /\ Located(i)'
    <2>1. CASE i = id
      BY <1>1, <1>2, <1>3, <2>1 DEF Used, InFlight, Located, TypeOK
    <2>2. CASE i # id
      BY <1>1, <1>2, <1>3, <2>2 DEF Used, InFlight, Located, TypeOK
    <2>3. QED
      BY <2>1, <2>2
  <1>6. QED
    BY <1>1, <1>2, <1>4, <1>5, CompanionGood DEF TypeOK

\* Every step of an execution keeps the invariant, if no operation has several calls.
LEMMA ExecutionGood ==
    ASSUME IndInv, MultiStep = {}, NEW id \in Ids, Execution(id)
    PROVE  IndInv'
  <1>1. TypeOK /\ \A i \in Ids : Located(i)
    BY DEF IndInv
  <1>2. /\ exec \in [Ids -> Execs] /\ runs \in [Ids -> Nat]
        /\ toCompanion \in [Ids -> Payloads \cup {NoPayload}]
        /\ toHost \in [Ids -> Responses \cup {"none"}] /\ authorized \in BOOLEAN
    BY <1>1 DEF TypeOK
  <1>3. CASE Accept(id)
    <2>1. /\ toCompanion[id] # NoPayload
          /\ toCompanion' = [toCompanion EXCEPT ![id] = NoPayload]
          /\ UNCHANGED <<clock, minted, disk, hostVars, authorized, runs, dispatched>>
      BY <1>3 DEF Accept
    <2>2. exec[id].phase = "idle" /\ toHost[id] = "none" /\ runs[id] = 0
      BY <1>1, <2>1 DEF Located
    <2>3. \/ /\ toHost' = [toHost EXCEPT ![id] = "not_started"] /\ exec' = exec
          \/ /\ toHost' = toHost
             /\ exec' = [exec EXCEPT ![id] = [phase |-> "queued", payload |-> toCompanion[id],
                                              live |-> TRUE]]
      BY <1>3, <2>2 DEF Accept
    <2>4. /\ toHost' \in [Ids -> Responses \cup {"none"}] /\ exec' \in [Ids -> Execs]
          /\ toCompanion' \in [Ids -> Payloads \cup {NoPayload}]
      <3>1. [phase |-> "queued", payload |-> toCompanion[id], live |-> TRUE] \in Execs
        BY <1>2 DEF Execs
      <3>2. "not_started" \in Responses
        BY DEF Responses
      <3>3. QED
        BY <1>2, <2>1, <2>3, <3>1, <3>2
    <2>5. ASSUME NEW i \in Ids PROVE (Used(i)' => Used(i)) /\ Located(i)'
      <3>1. CASE i = id
        BY <1>2, <2>1, <2>2, <2>3, <3>1 DEF Used, InFlight, Located
      <3>2. CASE i # id
        BY <1>1, <1>2, <2>1, <2>3, <3>2 DEF Used, InFlight, Located
      <3>3. QED
        BY <3>1, <3>2
    <2>6. QED
      BY <1>2, <2>1, <2>4, <2>5, CompanionGood
  <1>4. CASE Decline(id)
    <2>1. exec[id].phase = "queued" /\ Respond(id, "not_started") /\ runs[id] = 0
      BY <1>1, <1>4 DEF Decline, Located
    <2>2. QED
      BY <2>1, RespondGood DEF Responses
  <1>5. CASE Dispatch(id)
    <2>1. /\ exec[id].phase = "queued" /\ exec' = [exec EXCEPT ![id].phase = "running"]
          /\ UNCHANGED <<clock, minted, disk, hostVars, toCompanion, toHost, authorized, runs,
                         dispatched>>
      BY <1>5 DEF Dispatch
    <2>2. exec' \in [Ids -> Execs]
      BY <1>2, <2>1 DEF Execs
    <2>3. ASSUME NEW i \in Ids PROVE (Used(i)' => Used(i)) /\ Located(i)'
      <3>1. CASE i = id
        BY <1>1, <1>2, <2>1, <3>1 DEF Used, InFlight, Located, Execs
      <3>2. CASE i # id
        BY <1>1, <1>2, <2>1, <3>2 DEF Used, InFlight, Located
      <3>3. QED
        BY <3>1, <3>2
    <2>4. QED
      BY <1>2, <2>1, <2>2, <2>3, CompanionGood
  <1>6. CASE Apply(id)
    <2>1. /\ exec[id].phase = "running" /\ exec' = [exec EXCEPT ![id].phase = "applied"]
          /\ runs' = [runs EXCEPT ![id] = @ + 1]
          /\ UNCHANGED <<clock, minted, disk, hostVars, toCompanion, toHost, authorized,
                         dispatched>>
      BY <1>6 DEF Apply
    <2>2. exec' \in [Ids -> Execs] /\ runs' \in [Ids -> Nat]
      BY <1>2, <2>1 DEF Execs
    <2>3. ASSUME NEW i \in Ids PROVE (Used(i)' => Used(i)) /\ Located(i)'
      <3>1. CASE i = id
        BY <1>1, <1>2, <2>1, <3>1 DEF Used, InFlight, Located, Execs
      <3>2. CASE i # id
        BY <1>1, <1>2, <2>1, <3>2 DEF Used, InFlight, Located
      <3>3. QED
        BY <3>1, <3>2
    <2>4. QED
      BY <1>2, <2>1, <2>2, <2>3, CompanionGood
  <1>7. CASE Refuse(id)
    <2>1. /\ exec[id].phase = "running" /\ runs[id] = 0
          /\ Respond(id, "refused") \/ Respond(id, "not_started")
      BY <1>1, <1>7 DEF Refuse, Located
    <2>2. QED
      BY <2>1, RespondGood DEF Responses
  <1>8. CASE Finish(id)
    <2>1. exec[id].phase = "applied" /\ Respond(id, "completed")
      BY <1>8 DEF Finish
    <2>2. QED
      BY <2>1, RespondGood DEF Responses
  <1>9. CASE ReplyLost(id)
    <2>1. exec[id].phase # "idle" /\ Respond(id, "unknown")
      BY <1>9 DEF ReplyLost
    <2>2. QED
      BY <2>1, RespondGood DEF Responses
  <1>10. ASSUME NEW r \in {"partial", "not_started"}, LaterStepFails(id, r) PROVE FALSE
    BY <1>10, MultiStep = {} DEF LaterStepFails
  <1>11. QED
    BY <1>3, <1>4, <1>5, <1>6, <1>7, <1>8, <1>9, <1>10 DEF Execution

\* Minting makes the id usable; nothing else changes.
LEMMA MintGood == ASSUME IndInv, NEW id \in Ids, Mint(id) PROVE IndInv'
  <1>1. /\ TypeOK /\ MintedFirst /\ OnDisk /\ InMemory /\ (\A i \in Ids : Located(i))
        /\ Dated(mem) /\ Dated(disk.entries) /\ clock \in Nat
    BY ClockType DEF IndInv
  <1>2. /\ minted[id] = 0 /\ minted' = [minted EXCEPT ![id] = clock]
        /\ UNCHANGED <<clock, disk, hostVars, toCompanion, companionVars, toHost, dispatched>>
    BY DEF Mint
  <1>3. ~Used(id) /\ mem[id].state = "none" /\ disk.entries[id].state = "none"
    BY <1>1, <1>2 DEF MintedFirst, Used, Dated, TypeOK
  <1>4. \A i \in Ids \ {id} : minted'[i] = minted[i]
    BY <1>1, <1>2 DEF TypeOK
  <1>5. TypeOK' /\ MintedFirst'
    BY <1>1, <1>2 DEF TypeOK, MintedFirst, InFlight, hostVars, companionVars
  <1>6. Dated(mem)' /\ Dated(disk.entries)'
    BY <1>1, <1>2, <1>3, <1>4 DEF Dated, hostVars
  <1>7. \A i \in Ids : Located(i)'
    BY <1>1, <1>2 DEF Located, companionVars
  <1>8. ASSUME NEW i \in Ids, Used(i)'
        PROVE  /\ i \in Recorded' \cup Retired'
               /\ ready => mem'[i].state # "none" \/ Outside(i, evictedBefore)'
    <2>1. i # id /\ Used(i)
      BY <1>2, <1>3, <1>8 DEF Used, InFlight, companionVars
    <2>2. QED
      BY <1>1, <1>2, <1>4, <2>1
      DEF OnDisk, InMemory, Recorded, Retired, Listed, Outside, hostVars
  <1>9. QED
    BY <1>1, <1>2, <1>5, <1>6, <1>7, <1>8 DEF IndInv, OnDisk, InMemory, hostVars

\* The waiting request moves to the late ones or is given up.
LEMMA WaitGood ==
    ASSUME IndInv, NEW id \in Ids, Timeout(id) \/ LateExpires(id)
    PROVE  IndInv'
  <1>1. /\ UNCHANGED <<clock, minted, disk, ready, mem, volatile, evictedBefore, toCompanion,
                       companionVars, toHost, dispatched>>
        /\ pending' \in [Ids -> Payloads \cup {NoPayload}]
        /\ lateEntries' \in [Ids -> Payloads \cup {NoPayload}]
    BY DEF Timeout, LateExpires, IndInv, TypeOK
  <1>2. \A i \in Ids : minted[i] = 0 => pending'[i] = NoPayload /\ lateEntries'[i] = NoPayload
    BY DEF Timeout, LateExpires, IndInv, TypeOK, MintedFirst
  <1>3. /\ Dated(mem)' /\ Dated(disk.entries)'
        /\ Recorded' = Recorded /\ Retired' = Retired
        /\ \A i \in Ids : Outside(i, evictedBefore)' = Outside(i, evictedBefore)
    BY <1>1, JournalRests
  <1>4. TypeOK' /\ MintedFirst'
    BY <1>1, <1>2 DEF IndInv, TypeOK, MintedFirst, InFlight, companionVars
  <1>5. \A i \in Ids : Located(i)' /\ (Used(i)' <=> Used(i))
    BY <1>1 DEF IndInv, Located, Used, InFlight, companionVars
  <1>6. OnDisk' /\ InMemory'
    BY <1>1, <1>3, <1>5 DEF IndInv, OnDisk, InMemory
  <1>7. QED
    BY <1>1, <1>3, <1>4, <1>5, <1>6 DEF IndInv

\* Losing its binding changes nothing else of an execution.
LEMMA OrphanedType ==
    ASSUME exec \in [Ids -> Execs]
    PROVE  /\ Orphaned(exec) \in [Ids -> Execs]
           /\ \A i \in Ids : Orphaned(exec)[i].phase = exec[i].phase
  <1>1. \A i \in Ids : /\ [exec[i] EXCEPT !.live = FALSE] \in Execs
                       /\ [exec[i] EXCEPT !.live = FALSE].phase = exec[i].phase
    BY DEF Execs
  <1>2. QED
    BY <1>1 DEF Orphaned

\* Emptied memory and pipes lose nothing that disk does not hold.
LEMMA ExitGood ==
    ASSUME IndInv, ready' = FALSE, mem' = EmptyJournal, volatile' = NoPayloads,
           evictedBefore' = 0, pending' = NoPayloads, lateEntries' = NoPayloads,
           toCompanion' = NoPayloads, toHost' = [i \in Ids |-> "none"],
           exec' = Orphaned(exec) \/ exec' = [i \in Ids |-> NoExec],
           authorized' = FALSE, UNCHANGED <<clock, minted, disk, runs, dispatched>>
    PROVE  IndInv'
  <1>1. /\ TypeOK /\ MintedFirst /\ \A i \in Ids : Located(i)
        /\ OnDisk /\ Dated(disk.entries)
    BY DEF IndInv
  <1>2. EmptyJournal \in [Ids -> Entries] /\ \A i \in Ids : EmptyJournal[i].state = "none"
    BY DEF EmptyJournal, NoEntry, Entries
  <1>3. exec' \in [Ids -> Execs] /\ \A i \in Ids : exec'[i].phase \in {exec[i].phase, "idle"}
    <2>1. CASE exec' = Orphaned(exec)
      BY <1>1, <2>1, OrphanedType DEF TypeOK
    <2>2. CASE exec' = [i \in Ids |-> NoExec]
      BY <2>2 DEF NoExec, Execs
    <2>3. QED
      BY <2>1, <2>2
  <1>4. TypeOK'
    BY <1>1, <1>2, <1>3 DEF TypeOK, NoPayloads
  <1>5. MintedFirst' /\ \A i \in Ids : Located(i)' /\ (Used(i)' => Used(i))
    BY <1>1, <1>3 DEF MintedFirst, Located, Used, InFlight, NoPayloads, TypeOK
  <1>6. Dated(mem)' /\ Dated(disk.entries)'
    BY <1>1, <1>2 DEF Dated
  <1>7. OnDisk' /\ InMemory'
    BY <1>1, <1>5 DEF OnDisk, InMemory, Recorded, Retired, Listed, Outside
  <1>8. QED
    BY <1>4, <1>5, <1>6, <1>7 DEF IndInv

\* A new process knows exactly what the file says.
LEMMA StartGood == ASSUME IndInv, HostStart PROVE IndInv'
  <1>1. /\ TypeOK /\ MintedFirst /\ \A i \in Ids : Located(i)
        /\ OnDisk /\ Dated(disk.entries) /\ disk.readable
    BY DEF IndInv
  <1>2. /\ ready' = TRUE /\ mem' = disk.entries /\ evictedBefore' = disk.evicted /\ disk' = disk
        /\ UNCHANGED <<clock, minted, volatile, pending, lateEntries, toCompanion,
                       companionVars, toHost, dispatched>>
    BY <1>1 DEF HostStart
  <1>3. TypeOK' /\ MintedFirst' /\ Dated(mem)' /\ Dated(disk.entries)'
    BY <1>1, <1>2 DEF TypeOK, MintedFirst, InFlight, Dated, companionVars
  <1>4. \A i \in Ids : Located(i)' /\ (Used(i)' <=> Used(i))
    BY <1>1, <1>2 DEF Located, Used, InFlight, companionVars
  <1>5. OnDisk' /\ InMemory'
    BY <1>1, <1>2, <1>4 DEF OnDisk, InMemory, Recorded, Retired, Listed, Outside, TypeOK
  <1>6. QED
    BY <1>1, <1>2, <1>3, <1>4, <1>5 DEF IndInv

\* What is refused stays refused as time passes.
LEMMA TickGood == ASSUME IndInv, Tick PROVE IndInv'
  <1>1. /\ TypeOK /\ MintedFirst /\ OnDisk /\ InMemory /\ (\A i \in Ids : Located(i))
        /\ Dated(mem) /\ Dated(disk.entries) /\ disk.readable /\ clock \in Nat
    BY ClockType DEF IndInv
  <1>2. /\ clock <= MaxClock /\ clock' = clock + 1
        /\ UNCHANGED <<minted, disk, hostVars, toCompanion, companionVars, toHost, dispatched>>
    BY DEF Tick
  <1>3. \A i \in Ids : minted[i] \in Nat /\ mem[i].started \in Nat /\ disk.entries[i].started \in Nat
    BY <1>1 DEF TypeOK, Entries
  <1>4. TypeOK'
    BY <1>1, <1>2, JournalAssumption DEF TypeOK, hostVars, companionVars
  <1>5. MintedFirst' /\ Dated(mem)' /\ Dated(disk.entries)'
    BY <1>1, <1>2, <1>3 DEF MintedFirst, InFlight, Dated, hostVars, companionVars
  <1>6. \A i \in Ids : Located(i)' /\ (Used(i)' <=> Used(i))
    BY <1>1, <1>2 DEF Located, Used, InFlight, companionVars
  <1>7. \A i \in Ids, mark \in Nat : Outside(i, mark) => Outside(i, mark)'
    BY <1>1, <1>2, <1>3, JournalAssumption DEF Outside
  <1>8. evictedBefore \in Nat /\ disk.evicted \in Nat
    BY <1>1 DEF TypeOK
  <1>9. OnDisk'
    <2>1. \A i \in Ids : Outside(i, disk.evicted) => Outside(i, disk.evicted)'
      BY <1>1, <1>2, <1>3, <1>8, JournalAssumption DEF Outside
    <2>2. QED
      BY <1>1, <1>2, <1>6, <2>1 DEF OnDisk, Recorded, Retired, Listed
  <1>10. InMemory'
    <2>1. \A i \in Ids : Outside(i, evictedBefore) => Outside(i, evictedBefore)'
      BY <1>1, <1>2, <1>3, <1>8, JournalAssumption DEF Outside, hostVars
    <2>2. QED
      BY <1>1, <1>2, <1>6, <2>1 DEF InMemory, hostVars
  <1>11. QED
    BY <1>1, <1>2, <1>4, <1>5, <1>6, <1>9, <1>10 DEF IndInv

\* Grants and their end change no request.
LEMMA AuthorityGood == ASSUME IndInv, EndAuthority \/ Grant PROVE IndInv'
  <1>1. /\ UNCHANGED <<clock, minted, disk, hostVars, toCompanion, toHost, runs, dispatched>>
        /\ exec' = Orphaned(exec) \/ exec' = exec
        /\ authorized' \in BOOLEAN
    BY DEF EndAuthority, Grant
  <1>2. TypeOK /\ \A i \in Ids : Located(i)
    BY DEF IndInv
  <1>3. exec' \in [Ids -> Execs] /\ \A i \in Ids : exec'[i].phase = exec[i].phase
    BY <1>1, <1>2, OrphanedType DEF TypeOK
  <1>4. \A i \in Ids : (Used(i)' => Used(i)) /\ Located(i)'
    BY <1>1, <1>2, <1>3 DEF Used, InFlight, Located
  <1>5. QED
    BY <1>1, <1>2, <1>3, <1>4, CompanionGood DEF TypeOK

-----------------------------------------------------------------------------
(* The theorems.                                                           *)

\* The invariant holds initially.
LEMMA InitGood == ASSUME Init PROVE IndInv
  <1>1. NoEntry \in Entries /\ NoEntry.state = "none" /\ NoExec \in Execs /\ NoExec.phase = "idle"
    BY DEF NoEntry, Entries, NoExec, Execs
  <1>2. TypeOK
    <2>1. EmptyJournal \in [Ids -> Entries]
      BY <1>1 DEF EmptyJournal
    <2>2. [entries |-> EmptyJournal, evicted |-> 0, readable |-> TRUE]
            \in [entries : [Ids -> Entries], evicted : Nat, readable : BOOLEAN]
      BY <2>1
    <2>3. NoPayloads \in [Ids -> Payloads \cup {NoPayload}] /\ 1 \in 1..(MaxClock + 1)
      BY JournalAssumption DEF NoPayloads
    <2>4. QED
      BY <1>1, <2>1, <2>2, <2>3 DEF Init, TypeOK
  <1>3. \A i \in Ids : ~Used(i) /\ Located(i)
    BY <1>1 DEF Init, Used, InFlight, Located, NoPayloads
  <1>4. Dated(mem) /\ Dated(disk.entries) /\ MintedFirst
    BY <1>1, <1>3 DEF Init, Dated, EmptyJournal, MintedFirst, Used, NoPayloads
  <1>5. disk.readable /\ OnDisk /\ InMemory
    BY <1>3 DEF Init, OnDisk, InMemory
  <1>6. QED
    BY <1>2, <1>3, <1>4, <1>5 DEF IndInv

\* The invariant survives every step of the system.
LEMMA NextGood ==
    ASSUME MayCorrupt = FALSE, MultiStep = {}, IndInv, [Next]_vars
    PROVE  IndInv'
  <1>1. CASE UNCHANGED vars
    <2>1. /\ UNCHANGED <<clock, minted, disk, hostVars, dispatched>>
          /\ UNCHANGED <<toCompanion, companionVars, toHost>>
      BY <1>1 DEF vars
    <2>2. \A i \in Ids : (Used(i)' => Used(i)) /\ Located(i)'
      BY <2>1 DEF IndInv, Used, InFlight, Located, companionVars
    <2>3. QED
      BY <2>1, <2>2, CompanionGood DEF IndInv, TypeOK, companionVars
  <1>2. ASSUME NEW id \in Ids, Host(id) PROVE IndInv'
    <2>1. CASE Mint(id)
      BY <2>1, MintGood
    <2>2. CASE \E p \in Payloads, how \in PersistOutcomes, sent \in BOOLEAN : Forward(id, p, how, sent)
      BY <2>2, ForwardGood
    <2>3. CASE Timeout(id) \/ LateExpires(id)
      BY <2>3, WaitGood
    <2>4. CASE \E how \in PersistOutcomes : Settle(id, how)
      BY <2>4, SettleGood
    <2>5. QED
      BY <1>2, <2>1, <2>2, <2>3, <2>4 DEF Host
  <1>3. ASSUME NEW id \in Ids, Execution(id) PROVE IndInv'
    BY <1>3, ExecutionGood
  <1>4. CASE HostExit
    BY <1>4, ExitGood DEF HostExit
  <1>5. CASE HostStart
    BY <1>5, StartGood
  <1>6. CASE EndAuthority \/ Grant
    BY <1>6, AuthorityGood
  <1>7. CASE CompanionRestart
    BY <1>7, ExitGood DEF CompanionRestart
  <1>8. CASE Corrupt
    BY <1>8 DEF Corrupt
  <1>9. CASE Tick
    BY <1>9, TickGood
  <1>10. QED
    BY <1>1, <1>2, <1>3, <1>4, <1>5, <1>6, <1>7, <1>8, <1>9 DEF Next

\* A mutation takes effect in no step but Apply.
LEMMA OnlyApplyRuns ==
    ASSUME [Next]_vars, ~\E id \in Ids : Apply(id) PROVE runs' = runs
  <1>1. ASSUME NEW id \in Ids, Host(id) PROVE runs' = runs
    BY <1>1 DEF Host, Mint, Forward, Timeout, LateExpires, Settle, companionVars
  <1>2. ASSUME NEW id \in Ids, NEW r, Respond(id, r) PROVE runs' = runs
    BY <1>2 DEF Respond
  <1>3. ASSUME NEW id \in Ids, Execution(id) PROVE runs' = runs
    <2>1. CASE Accept(id) \/ Dispatch(id)
      BY <2>1 DEF Accept, Dispatch
    <2>2. CASE \E r : Respond(id, r)
      BY <1>2, <2>2
    <2>3. QED
      BY <1>3, <2>1, <2>2 DEF Execution, Decline, Refuse, Finish, ReplyLost, LaterStepFails
  <1>4. CASE HostExit \/ HostStart \/ EndAuthority \/ Grant \/ CompanionRestart \/ Corrupt \/ Tick
    BY <1>4 DEF HostExit, HostStart, EndAuthority, Grant, CompanionRestart, Corrupt, Tick,
       companionVars
  <1>5. CASE UNCHANGED vars
    BY <1>5 DEF vars, companionVars
  <1>6. QED
    BY <1>1, <1>3, <1>4, <1>5 DEF Next

\* An id refused for good stays refused: time only passes and the mark only rises.
LEMMA RetiredGrows ==
    ASSUME MayCorrupt = FALSE, IndInv, [Next]_vars PROVE Retired \subseteq Retired'
  <1>1. /\ TypeOK /\ InMemory /\ Dated(mem) /\ disk.readable /\ clock \in Nat
        /\ Horizon \in Nat /\ disk.evicted \in Nat
        /\ \A i \in Ids : minted[i] \in Nat
    BY ClockType, JournalAssumption DEF IndInv, TypeOK
  <1>2. ASSUME clock' \in Nat, clock <= clock', disk'.evicted \in Nat, disk.evicted <= disk'.evicted,
               \A i \in Ids : minted[i] # 0 => minted'[i] = minted[i]
        PROVE  Retired \subseteq Retired'
    BY <1>1, <1>2 DEF Retired, Outside
  <1>3. CASE UNCHANGED <<clock, minted, disk>>
    BY <1>1, <1>2, <1>3
  <1>4. ASSUME NEW id \in Ids, Mint(id) PROVE Retired \subseteq Retired'
    BY <1>1, <1>2, <1>4 DEF Mint, TypeOK
  <1>5. ASSUME NEW id \in Ids, NEW p \in Payloads, NEW how \in PersistOutcomes,
               NEW sent \in BOOLEAN, Forward(id, p, how, sent)
        PROVE  Retired \subseteq Retired'
    <2>1. IndInv'
      BY <1>5, ForwardGood
    <2>2. disk.evicted <= disk'.evicted
      BY <1>5, ForwardGood
    <2>3. QED
      BY <1>1, <1>2, <1>5, <2>1, <2>2 DEF Forward, IndInv, TypeOK
  <1>6. ASSUME NEW id \in Ids, NEW how \in PersistOutcomes, Settle(id, how)
        PROVE  Retired \subseteq Retired'
    <2>1. IndInv'
      BY <1>6, SettleGood
    <2>2. disk.evicted <= disk'.evicted
      BY <1>6, SettleGood
    <2>3. QED
      BY <1>1, <1>2, <1>6, <2>1, <2>2 DEF Settle, IndInv, TypeOK
  <1>7. CASE Tick
    BY <1>1, <1>2, <1>7 DEF Tick
  <1>8. CASE HostStart
    BY <1>1, <1>3, <1>8 DEF HostStart
  <1>9. QED
    BY <1>3, <1>4, <1>5, <1>6, <1>7, <1>8 DEF Next, Host, Execution, Timeout, LateExpires, Accept,
       Decline, Respond, Dispatch, Apply, Refuse, Finish, ReplyLost, LaterStepFails, HostExit,
       EndAuthority, Grant, CompanionRestart, Corrupt, vars

\* Every reachable state is well typed and every used id is recorded or refused, on disk
\* and in memory, whatever fails, restarts, ages or is evicted.
THEOREM JournalInvariance ==
    ASSUME MayCorrupt = FALSE, MultiStep = {} PROVE Spec => []IndInv
  <1>1. Init => IndInv
    BY InitGood
  <1>2. IndInv /\ [Next]_vars => IndInv'
    BY NextGood
  <1>3. QED
    BY <1>1, <1>2, PTL DEF Spec

\* A mutation that may be running, or has run, is on disk or refused for good:
\* durableMutationStart persists before forwardRequest writes to the companion.
THEOREM RecordedFirst ==
    ASSUME MayCorrupt = FALSE, MultiStep = {} PROVE Spec => []JournalAhead
  <1>1. IndInv => JournalAhead
    BY DEF IndInv, OnDisk, JournalAhead, Used, InFlight
  <1>2. QED
    BY <1>1, JournalInvariance, PTL

\* A request is in one place at a time: forwarded, executing or answered.
THEOREM OneAtATime ==
    ASSUME MayCorrupt = FALSE, MultiStep = {} PROVE Spec => []OneExecution
  <1>1. ASSUME IndInv, NEW id \in Ids
        PROVE  Cardinality({x \in {1, 2, 3} :
                   \/ x = 1 /\ toCompanion[id] # NoPayload
                   \/ x = 2 /\ exec[id].phase # "idle"
                   \/ x = 3 /\ toHost[id] # "none"}) <= 1
    <2> DEFINE S == {x \in {1, 2, 3} :
                       \/ x = 1 /\ toCompanion[id] # NoPayload
                       \/ x = 2 /\ exec[id].phase # "idle"
                       \/ x = 3 /\ toHost[id] # "none"}
    <2>1. S = {} \/ S = {1} \/ S = {2} \/ S = {3}
      BY <1>1 DEF IndInv, Located
    <2> HIDE DEF S
    <2>2. Cardinality(S) = 0 \/ Cardinality(S) = 1
      BY <2>1, FS_EmptySet, FS_Singleton
    <2>3. Cardinality(S) <= 1
      BY <2>2
    <2>4. QED
      BY <2>3 DEF S
  <1>2. IndInv => OneExecution
    BY <1>1 DEF OneExecution
  <1>3. QED
    BY <1>2, JournalInvariance, PTL

\* The journal, the host and the companion implement AtMostOnce: no id runs twice.
THEOREM Implementation ==
    ASSUME MayCorrupt = FALSE, MultiStep = {} PROVE Spec => RunsAtMostOnce
  <1>1. Init => Promise!Init
    <2>1. SUFFICES ASSUME Init PROVE Recorded = {} /\ Retired = {} /\ runs = [id \in Ids |-> 0]
      BY DEF Promise!Init
    <2>2. disk.entries = EmptyJournal /\ \A id \in Ids : minted[id] = 0
      BY <2>1 DEF Init
    <2>3. \A id \in Ids : EmptyJournal[id].state = "none"
      BY DEF EmptyJournal, NoEntry
    <2>4. Recorded = {} /\ Retired = {}
      BY <2>2, <2>3 DEF Recorded, Retired, Listed
    <2>5. QED
      BY <2>1, <2>4 DEF Init
  <1>2. ASSUME IndInv, IndInv', [Next]_vars PROVE [Promise!Next]_(Promise!vars)
    <2>1. CASE \E id \in Ids : Apply(id)
      <3>1. PICK id \in Ids : Apply(id)
        BY <2>1
      <3>2. /\ exec[id].phase = "running" /\ runs' = [runs EXCEPT ![id] = @ + 1]
            /\ UNCHANGED <<clock, minted, disk>>
        BY <3>1 DEF Apply
      <3>3. runs[id] = 0 /\ id \in Recorded \cup Retired
        BY <1>2, <3>2 DEF IndInv, Located, OnDisk, Used, InFlight
      <3>4. Recorded' = Recorded /\ Retired' = Retired
        BY <3>2 DEF Recorded, Retired, Listed, Outside
      <3>5. Promise!Run(id)
        BY <1>2, <3>2, <3>3, <3>4 DEF Promise!Run, IndInv, TypeOK
      <3>6. QED
        BY <3>5 DEF Promise!Next
    <2>2. CASE ~\E id \in Ids : Apply(id)
      <3>1. runs' = runs
        BY <1>2, <2>2, OnlyApplyRuns
      <3>2. Retired \subseteq Retired'
        BY <1>2, <2>2, RetiredGrows
      <3>3. /\ \A id \in Recorded' \ Recorded : runs[id] = 0 \/ id \in Retired'
            /\ \A id \in Recorded \ Recorded' : runs[id] = 0 \/ id \in Retired'
        <4>1. \A id \in Ids : runs[id] \in Nat /\ (runs[id] > 0 => id \in Recorded \cup Retired)
          BY <1>2 DEF IndInv, TypeOK, OnDisk, Used
        <4>2. \A id \in Ids : runs[id] > 0 => id \in Recorded' \cup Retired'
          BY <1>2, <3>1 DEF IndInv, OnDisk, Used
        <4>3. Recorded \subseteq Ids /\ Recorded' \subseteq Ids
          BY DEF Recorded, Listed
        <4>4. QED
          BY <3>2, <4>1, <4>2, <4>3
      <3>4. Promise!Record
        BY <3>1, <3>2, <3>3 DEF Promise!Record
      <3>5. QED
        BY <3>4 DEF Promise!Next
    <2>3. QED
      BY <2>1, <2>2
  <1>3. QED
    BY <1>1, <1>2, JournalInvariance, PTL DEF Spec, RunsAtMostOnce, Promise!Spec

-----------------------------------------------------------------------------
(***************************************************************************)
(* What the host answers from the journal.  Unlike the theorems above      *)
(* these hold for operations of several browser calls too, and the first   *)
(* two also when the journal file becomes unreadable.                      *)
(***************************************************************************)

-----------------------------------------------------------------------------
(* The inductive invariant                                                 *)

\* No id is minted in the future.
MintedPast == \A id \in Ids : minted[id] <= clock

Awaited(id) == pending[id] # NoPayload \/ lateEntries[id] # NoPayload

\* An answer that is awaited, in time or late, is to what was sent last under its
\* id, whose entry is still there or has aged out of reach.
WaitsFor(id) ==
    /\ pending[id] \in {NoPayload, dispatched[id]} /\ lateEntries[id] \in {NoPayload, dispatched[id]}
    /\ pending[id] = NoPayload \/ lateEntries[id] = NoPayload
    /\ Awaited(id) => /\ ready /\ minted[id] # 0
                      /\ volatile[id] \in {NoPayload, dispatched[id]}
                      /\ mem[id].state # "none" \/ Outside(id, evictedBefore)
    /\ ~ready => volatile[id] = NoPayload

\* A completed entry is that of what was sent last under its id.
Matches(e, id) == e.state = "completed" => e.print = Fingerprint(dispatched[id])

MatchedAt(id) ==
    /\ Matches(mem[id], id) /\ Matches(disk.entries[id], id)
    /\ mem[id].state = "completed" => volatile[id] \in {NoPayload, dispatched[id]}

RInv ==
    /\ TypeOK
    /\ MintedPast /\ Dated(mem) /\ Dated(disk.entries)
    /\ \A id \in Ids : WaitsFor(id)
    /\ \A id \in Ids : MatchedAt(id)

\* With a readable file: a completion on disk is the one in memory, or out of reach,
\* and nothing that is awaited is completed.
KnownAt(id) ==
    /\ disk.entries[id].state = "completed" /\ ready
       => Outside(id, evictedBefore) \/ mem[id] = disk.entries[id]
    /\ Awaited(id) => mem[id].state # "completed"

FInv ==
    /\ RInv
    /\ disk.readable
    /\ ready => disk.evicted <= evictedBefore
    /\ \A id \in Ids : KnownAt(id)

-----------------------------------------------------------------------------
(* Persisting                                                              *)

\* Whatever becomes of a write of the journal, what it drops is out of reach, it
\* invents nothing, and a file that was replaced holds what memory holds.
LEMMA Pruned ==
    ASSUME TypeOK, NEW m \in [Ids -> Entries], Dated(m), NEW undo, NEW how \in PersistOutcomes,
           Persist(m, undo, how), UNCHANGED <<clock, minted>>
    PROVE  /\ mem' \in [Ids -> Entries] /\ evictedBefore' \in Nat
           /\ disk' \in [entries : [Ids -> Entries], evicted : Nat, readable : BOOLEAN]
           /\ evictedBefore <= evictedBefore'
           /\ \A i \in Ids : mem'[i].state # "none" => mem'[i] = m[i]
           /\ \A i \in Ids : m[i].state # "none" /\ (i \notin undo \/ how = "written") =>
                mem'[i].state # "none" \/ Outside(i, evictedBefore)'
           /\ \/ disk' = disk /\ how # "written"
              \/ /\ disk'.readable /\ disk'.evicted = evictedBefore'
                 /\ \A i \in Ids :
                      /\ disk'.entries[i].state # "none" => disk'.entries[i] = m[i]
                      /\ m[i].state # "none" => \/ disk'.entries[i].state # "none"
                                                \/ Outside(i, evictedBefore)'
                      /\ i \notin undo => mem'[i] = disk'.entries[i]
  <1> DEFINE U == Unexpired(m)
  <1>1. /\ U \in [Ids -> Entries]
        /\ \A i \in Ids : U[i].state # "none" => U[i] = m[i]
        /\ \A i \in Ids : m[i].state # "none" => U[i] = m[i] \/ clock - minted[i] > Horizon \/ minted[i] <= 0
    BY UnexpiredKeeps DEF Outside
  <1>2. /\ \A i \in Ids : m[i].started \in Nat /\ minted[i] \in Nat
        /\ evictedBefore \in Nat /\ clock \in Nat /\ Horizon \in Nat
        /\ disk \in [entries : [Ids -> Entries], evicted : Nat, readable : BOOLEAN]
    BY ClockType, JournalAssumption DEF TypeOK, Entries
  <1>3. NoEntry.state = "none"
    BY DEF NoEntry
  <1>4. \A i \in Ids : Outside(i, evictedBefore)' <=> \/ clock - minted[i] > Horizon
                                                      \/ minted[i] <= evictedBefore'
    BY DEF Outside
  <1> HIDE DEF U
  <1>5. CASE how = "locked"
    <2>1. mem' = Without(m, undo) /\ evictedBefore' = evictedBefore /\ disk' = disk
      BY <1>5 DEF Persist
    <2>2. /\ Without(m, undo) \in [Ids -> Entries]
          /\ \A i \in Ids : Without(m, undo)[i] = IF i \in undo THEN NoEntry ELSE m[i]
      BY WithoutType
    <2> QED BY <1>2, <1>3, <1>5, <2>1, <2>2
  <1>6. CASE how # "locked"
    <2>1. PICK gone \in SUBSET Ids :
            LET kept == Without(U, gone) IN
            /\ mem' = IF how = "written" THEN kept ELSE Without(kept, undo)
            /\ evictedBefore' \in {evictedBefore} \cup {m[i].started : i \in gone}
            /\ evictedBefore' >= evictedBefore
            /\ \A i \in gone : evictedBefore' >= m[i].started
            /\ IF how = "unwritten" THEN UNCHANGED disk
               ELSE disk' = [entries |-> kept, evicted |-> evictedBefore', readable |-> TRUE]
      BY <1>6 DEF Persist, U
    <2> DEFINE kept == Without(U, gone)
    <2>2. /\ kept \in [Ids -> Entries]
          /\ \A i \in Ids : kept[i] = IF i \in gone THEN NoEntry ELSE U[i]
      BY <1>1, WithoutType
    <2>3. /\ Without(kept, undo) \in [Ids -> Entries]
          /\ \A i \in Ids : Without(kept, undo)[i] = IF i \in undo THEN NoEntry ELSE kept[i]
      BY <2>2, WithoutType
    <2>4. evictedBefore' \in Nat /\ evictedBefore <= evictedBefore'
      BY <1>2, <2>1
    <2>5. \A i \in Ids : kept[i].state # "none" => kept[i] = m[i]
      BY <1>1, <1>3, <2>2
    <2>6. ASSUME NEW i \in Ids, m[i].state # "none"
          PROVE  kept[i].state # "none" \/ Outside(i, evictedBefore)'
      <3>1. CASE i \in gone
        <4>1. minted[i] <= m[i].started /\ m[i].started <= evictedBefore'
          BY <2>1, <2>6, <3>1 DEF Dated
        <4> QED BY <1>2, <1>4, <2>4, <4>1
      <3>2. CASE i \notin gone
        <4>1. kept[i] = U[i]
          BY <2>2, <3>2
        <4> QED BY <1>1, <1>2, <1>4, <2>4, <2>6, <4>1
      <3> QED BY <3>1, <3>2
    <2> HIDE DEF kept
    <2>7. mem' = IF how = "written" THEN kept ELSE Without(kept, undo)
      BY <2>1 DEF kept
    <2>8. mem' \in [Ids -> Entries] /\ \A i \in Ids : mem'[i].state # "none" => mem'[i] = m[i]
      BY <1>3, <2>2, <2>3, <2>5, <2>7
    <2>9. \A i \in Ids : i \notin undo \/ how = "written" => mem'[i] = kept[i]
      BY <2>3, <2>7
    <2>10. \A i \in Ids : m[i].state # "none" /\ (i \notin undo \/ how = "written") =>
             mem'[i].state # "none" \/ Outside(i, evictedBefore)'
      BY <2>6, <2>9
    <2>11. CASE how = "unwritten"
      <3>1. disk' = disk
        BY <2>1, <2>11
      <3> QED BY <1>2, <2>4, <2>8, <2>10, <2>11, <3>1
    <2>12. CASE how # "unwritten"
      <3>1. disk' = [entries |-> kept, evicted |-> evictedBefore', readable |-> TRUE]
        BY <2>1, <2>12 DEF kept
      <3>2. /\ disk' \in [entries : [Ids -> Entries], evicted : Nat, readable : BOOLEAN]
            /\ disk'.entries = kept /\ disk'.evicted = evictedBefore' /\ disk'.readable
        BY <2>2, <2>4, <3>1
      <3> QED BY <2>4, <2>5, <2>6, <2>8, <2>9, <2>10, <3>2
    <2> QED BY <2>11, <2>12
  <1> QED BY <1>5, <1>6

-----------------------------------------------------------------------------
(* The companion's steps                                                   *)

\* The companion touches nothing of the host's memory or file, and keeps its types.
LEMMA CompanionType ==
    ASSUME TypeOK, (\E id \in Ids : Execution(id)) \/ EndAuthority \/ Grant
    PROVE  TypeOK' /\ UNCHANGED <<clock, minted, disk, hostVars, dispatched>>
  <1> USE DEF hostVars, companionVars
  <1>1. ASSUME NEW e \in Execs, NEW ph \in {"idle", "queued", "running", "applied"}
        PROVE  [e EXCEPT !.phase = ph] \in Execs
    BY DEF Execs
  <1>2. NoExec \in Execs
    BY DEF NoExec, Execs
  <1>3. ASSUME NEW id \in Ids, NEW r \in Responses, Respond(id, r)
        PROVE  TypeOK' /\ UNCHANGED <<clock, minted, disk, hostVars, dispatched>>
    <2>1. exec' \in [Ids -> Execs]
      BY <1>2, <1>3 DEF TypeOK, Respond
    <2>2. toHost' \in [Ids -> Responses \cup {"none"}]
      BY <1>3 DEF TypeOK, Respond, OkResponses, Responses
    <2> QED BY <1>3, <2>1, <2>2 DEF TypeOK, Respond
  <1>4. ASSUME NEW id \in Ids, Accept(id)
        PROVE  TypeOK' /\ UNCHANGED <<clock, minted, disk, hostVars, dispatched>>
    <2>1. toCompanion' \in [Ids -> Payloads \cup {NoPayload}] /\ toCompanion[id] \in Payloads \cup {NoPayload}
      BY <1>4 DEF TypeOK, Accept
    <2>2. toHost' \in [Ids -> Responses \cup {"none"}]
      BY <1>4 DEF TypeOK, Accept, Responses
    <2>3. [phase |-> "queued", payload |-> toCompanion[id], live |-> TRUE] \in Execs
      BY <2>1 DEF Execs
    <2>4. exec' \in [Ids -> Execs]
      BY <1>4, <2>3 DEF TypeOK, Accept
    <2> QED BY <1>4, <2>1, <2>2, <2>4 DEF TypeOK, Accept
  <1>5. ASSUME NEW id \in Ids, Dispatch(id)
        PROVE  TypeOK' /\ UNCHANGED <<clock, minted, disk, hostVars, dispatched>>
    <2>1. exec' \in [Ids -> Execs]
      BY <1>1, <1>5 DEF TypeOK, Dispatch
    <2> QED BY <1>5, <2>1 DEF TypeOK, Dispatch
  <1>6. ASSUME NEW id \in Ids, Apply(id)
        PROVE  TypeOK' /\ UNCHANGED <<clock, minted, disk, hostVars, dispatched>>
    <2>1. exec' \in [Ids -> Execs]
      BY <1>1, <1>6 DEF TypeOK, Apply
    <2>2. runs' \in [Ids -> Nat]
      BY <1>6 DEF TypeOK, Apply
    <2> QED BY <1>6, <2>1, <2>2 DEF TypeOK, Apply
  <1>7. ASSUME NEW id \in Ids, Execution(id)
        PROVE  TypeOK' /\ UNCHANGED <<clock, minted, disk, hostVars, dispatched>>
    BY <1>3, <1>4, <1>5, <1>6, <1>7 DEF Execution, Decline, Refuse, Finish, ReplyLost, LaterStepFails,
       Responses
  <1>8. CASE EndAuthority
    <2>1. exec' \in [Ids -> Execs]
      BY <1>8, OrphanedType DEF TypeOK, EndAuthority
    <2> QED BY <1>8, <2>1 DEF TypeOK, EndAuthority
  <1>9. CASE Grant
    BY <1>9 DEF TypeOK, Grant
  <1> QED BY <1>7, <1>8, <1>9

-----------------------------------------------------------------------------
(* The host's steps                                                        *)

\* The journal with the entry of a request that is about to be sent.
Begun(id, p) == [mem EXCEPT ![id] = Started(p)]

\* What a request that is fresh says of its id, and what recording it does.
LEMMA Fresh ==
    ASSUME RInv, NEW id \in Ids, NEW p \in Payloads, NEW how \in PersistOutcomes,
           NEW sent \in BOOLEAN, Forward(id, p, how, sent)
    PROVE  /\ Begun(id, p) \in [Ids -> Entries] /\ Dated(Begun(id, p))
           /\ Persist(Begun(id, p), {id}, how)
           /\ ready /\ minted[id] # 0 /\ mem[id].state = "none" /\ ~Outside(id, evictedBefore)
           /\ ~Awaited(id)
           /\ UNCHANGED <<clock, minted, ready, lateEntries>>
  <1> DEFINE m == Begun(id, p)
  <1>1. /\ ready /\ minted[id] # 0 /\ mem[id].state = "none" /\ ~Outside(id, evictedBefore)
        /\ Persist(m, {id}, how) /\ UNCHANGED <<clock, minted, ready, lateEntries>>
    BY DEF Forward, Lookup, Begun
  <1>2. ~Awaited(id)
    BY <1>1 DEF RInv, WaitsFor
  <1>3. TypeOK /\ Dated(mem) /\ MintedPast
    BY DEF RInv
  <1>4. Started(p) \in Entries /\ Started(p).started = clock /\ Started(p).completed = 0
    <2>1. Started(p) \in Entries
      BY <1>3, NewEntries DEF Responses
    <2> QED BY <2>1 DEF Started
  <1>5. m \in [Ids -> Entries] /\ m[id] = Started(p) /\ \A i \in Ids \ {id} : m[i] = mem[i]
    BY <1>3, <1>4 DEF TypeOK, Begun
  <1> HIDE DEF m
  <1>6. Dated(m)
    <2>1. minted[id] <= clock /\ clock \in Nat
      BY <1>3, ClockType DEF MintedPast
    <2> QED BY <1>1, <1>3, <1>4, <1>5, <2>1 DEF Dated
  <1> QED BY <1>1, <1>2, <1>5, <1>6 DEF m

\* Both copies stay dated when a dated journal is persisted.
LEMMA PrunedDated ==
    ASSUME RInv, NEW m \in [Ids -> Entries], Dated(m), NEW undo, NEW how \in PersistOutcomes,
           Persist(m, undo, how), UNCHANGED <<clock, minted>>
    PROVE  MintedPast' /\ Dated(mem)' /\ Dated(disk.entries)'
  <1>1. TypeOK /\ Dated(disk.entries)
    BY DEF RInv
  <1>2. /\ \A i \in Ids : mem'[i].state # "none" => mem'[i] = m[i]
        /\ \/ disk' = disk
           \/ \A i \in Ids : disk'.entries[i].state # "none" => disk'.entries[i] = m[i]
    BY <1>1, Pruned
  <1>3. Dated(mem)'
    BY <1>2 DEF Dated
  <1>4. Dated(disk.entries)'
    <2>1. CASE disk' = disk
      BY <1>1, <2>1 DEF Dated
    <2>2. CASE \A i \in Ids : disk'.entries[i].state # "none" => disk'.entries[i] = m[i]
      BY <2>2 DEF Dated
    <2> QED BY <1>2, <2>1, <2>2
  <1> QED BY <1>3, <1>4 DEF RInv, MintedPast

\* Recording a request and sending it, or failing to (forwardRequest).
LEMMA ForwardReplay ==
    ASSUME RInv, NEW id \in Ids, NEW p \in Payloads, NEW how \in PersistOutcomes,
           NEW sent \in BOOLEAN, Forward(id, p, how, sent)
    PROVE  RInv'
  <1> DEFINE m == Begun(id, p)
  <1>1. /\ m \in [Ids -> Entries] /\ Dated(m) /\ Persist(m, {id}, how)
        /\ ready /\ minted[id] # 0 /\ mem[id].state = "none" /\ ~Awaited(id)
        /\ UNCHANGED <<clock, minted, ready, lateEntries>>
    BY Fresh
  <1>2. TypeOK /\ m[id].state = "started" /\ \A i \in Ids \ {id} : m[i] = mem[i]
    BY <1>1 DEF RInv, TypeOK, Begun, Started
  <1> HIDE DEF m
  <1>3. /\ mem' \in [Ids -> Entries] /\ evictedBefore' \in Nat
        /\ disk' \in [entries : [Ids -> Entries], evicted : Nat, readable : BOOLEAN]
        /\ evictedBefore <= evictedBefore'
        /\ \A i \in Ids : mem'[i].state # "none" => mem'[i] = m[i]
        /\ \A i \in Ids : m[i].state # "none" /\ (i \notin {id} \/ how = "written") =>
             mem'[i].state # "none" \/ Outside(i, evictedBefore)'
        /\ \/ disk' = disk /\ how # "written"
           \/ \A i \in Ids : disk'.entries[i].state # "none" => disk'.entries[i] = m[i]
    BY <1>1, <1>2, Pruned
  <1>4. /\ volatile' = [volatile EXCEPT ![id] = IF how = "written" THEN p ELSE NoPayload]
        /\ \/ /\ how = "written"
              /\ pending' = [pending EXCEPT ![id] = p]
              /\ toCompanion' = [toCompanion EXCEPT ![id] = p]
              /\ dispatched' = [dispatched EXCEPT ![id] = p]
           \/ pending' = pending /\ toCompanion' = toCompanion /\ dispatched' = dispatched
        /\ UNCHANGED <<companionVars, toHost>>
    BY DEF Forward
  <1>5. TypeOK'
    BY <1>1, <1>2, <1>3, <1>4 DEF TypeOK, companionVars
  <1>6. MintedPast' /\ Dated(mem)' /\ Dated(disk.entries)'
    BY <1>1, PrunedDated
  <1>7. ASSUME NEW i \in Ids PROVE WaitsFor(i)' /\ MatchedAt(i)'
    <2>1. WaitsFor(i) /\ MatchedAt(i)
      BY DEF RInv
    <2>2. CASE i = id
      <3>1. mem'[i].state # "completed"
        BY <1>2, <1>3, <2>2
      <3>2. \/ pending'[i] = NoPayload /\ dispatched'[i] = dispatched[i]
            \/ pending'[i] = p /\ volatile'[i] = p /\ dispatched'[i] = p /\ how = "written"
        BY <1>1, <1>2, <1>4, <2>2 DEF TypeOK, Awaited
      <3>3. lateEntries'[i] = NoPayload
        BY <1>1, <2>2 DEF Awaited
      <3>4. how = "written" => mem'[i].state # "none" \/ Outside(i, evictedBefore)'
        BY <1>2, <1>3, <2>2
      <3>5. WaitsFor(i)'
        <4>1. Awaited(i)' => pending'[i] = p /\ volatile'[i] = p /\ dispatched'[i] = p /\ how = "written"
          BY <3>2, <3>3 DEF Awaited
        <4> QED BY <1>1, <2>2, <3>2, <3>3, <3>4, <4>1 DEF WaitsFor
      <3>6. Matches(disk.entries[i], i)'
        <4>1. CASE disk' = disk /\ how # "written"
          BY <1>4, <2>1, <4>1 DEF MatchedAt, Matches
        <4>2. CASE disk'.entries[i].state # "none" => disk'.entries[i] = m[i]
          BY <1>2, <2>2, <4>2 DEF Matches
        <4> QED BY <1>3, <4>1, <4>2
      <3> QED BY <3>1, <3>5, <3>6 DEF MatchedAt, Matches
    <2>3. CASE i # id
      <3>1. /\ pending'[i] = pending[i] /\ dispatched'[i] = dispatched[i] /\ volatile'[i] = volatile[i]
            /\ lateEntries'[i] = lateEntries[i] /\ m[i] = mem[i]
        BY <1>1, <1>2, <1>4, <2>3 DEF TypeOK
      <3>2. mem[i].state # "none" => mem'[i].state # "none" \/ Outside(i, evictedBefore)'
        BY <1>3, <2>3, <3>1
      <3>3. Outside(i, evictedBefore) => Outside(i, evictedBefore)'
        <4>1. minted[i] \in Nat /\ evictedBefore \in Nat
          BY <1>2 DEF TypeOK
        <4> QED BY <1>1, <1>3, <4>1 DEF Outside
      <3>4. WaitsFor(i)'
        BY <1>1, <2>1, <3>1, <3>2, <3>3 DEF WaitsFor, Awaited
      <3>5. mem'[i].state = "completed" => mem'[i] = mem[i]
        BY <1>3, <3>1
      <3>6. disk'.entries[i].state = "completed" => disk'.entries[i] \in {mem[i], disk.entries[i]}
        BY <1>3, <3>1
      <3> QED BY <2>1, <3>1, <3>4, <3>5, <3>6 DEF MatchedAt, Matches
    <2> QED BY <2>2, <2>3
  <1> QED BY <1>5, <1>6, <1>7 DEF RInv

\* The journal that an answer leaves: without the id, or with its completion.
Ended(id, p) ==
    IF toHost[id] = "not_started" THEN Without(mem, {id})
    ELSE [mem EXCEPT ![id] = Completed(id, p, toHost[id])]

\* Persisting what an answer leaves (settlePending).
LEMMA EndedJournal ==
    ASSUME RInv, NEW id \in Ids, minted[id] # 0, NEW p \in Payloads, toHost[id] # "none"
    PROVE  /\ Ended(id, p) \in [Ids -> Entries] /\ Dated(Ended(id, p))
           /\ Ended(id, p)[id].state = "none" \/ Ended(id, p)[id].print = Fingerprint(p)
           /\ Ended(id, p)[id].state = "none" => toHost[id] = "not_started"
           /\ \A i \in Ids \ {id} : Ended(id, p)[i] = mem[i]
  <1> DEFINE m == Ended(id, p)
  <1>1. TypeOK /\ Dated(mem) /\ MintedPast
    BY DEF RInv
  <1>2. mem \in [Ids -> Entries] /\ toHost[id] \in Responses
    BY <1>1 DEF TypeOK
  <1>3. NoEntry.state = "none"
    BY DEF NoEntry
  <1>4. CASE toHost[id] = "not_started"
    <2>1. m = Without(mem, {id})
      BY <1>4 DEF Ended
    <2>2. /\ m \in [Ids -> Entries]
          /\ \A i \in Ids : m[i] = IF i \in {id} THEN NoEntry ELSE mem[i]
      BY <1>2, <2>1, WithoutType
    <2> HIDE DEF m
    <2>3. Dated(m)
      BY <1>1, <1>3, <2>2 DEF Dated
    <2> QED BY <1>3, <1>4, <2>2, <2>3 DEF m
  <1>5. CASE toHost[id] # "not_started"
    <2> DEFINE e == Completed(id, p, toHost[id])
    <2>1. e \in Entries /\ m = [mem EXCEPT ![id] = e]
      BY <1>1, <1>2, <1>5, NewEntries DEF Ended
    <2>2. e.print = Fingerprint(p) /\ e.state = "completed" /\ e.completed = clock
          /\ e.started = IF mem[id].state = "none" THEN clock ELSE mem[id].started
      BY DEF Completed
    <2> HIDE DEF e, m
    <2>3. m \in [Ids -> Entries] /\ m[id] = e /\ \A i \in Ids \ {id} : m[i] = mem[i]
      BY <1>2, <2>1
    <2>4. Dated(m)
      <3>1. minted[id] <= clock /\ clock \in Nat
        BY <1>1, ClockType DEF MintedPast
      <3>2. minted[id] <= e.started /\ e.started <= clock
        BY <1>1, <2>2, <3>1 DEF Dated
      <3> QED BY <1>1, <2>2, <2>3, <3>2 DEF Dated
    <2> QED BY <2>2, <2>3, <2>4 DEF m
  <1> QED BY <1>4, <1>5

\* An answer settles the id it is to: in time, late, or to nobody (settlePending).
LEMMA SettleReplay ==
    ASSUME RInv, NEW id \in Ids, NEW how \in PersistOutcomes, Settle(id, how)
    PROVE  RInv'
  <1> DEFINE p == IF pending[id] # NoPayload THEN pending[id] ELSE lateEntries[id]
  <1>1. TypeOK /\ Dated(mem) /\ Dated(disk.entries) /\ MintedPast /\ WaitsFor(id)
    BY DEF RInv
  <1>2. /\ ready /\ toHost[id] # "none"
        /\ toHost' = [toHost EXCEPT ![id] = "none"]
        /\ pending' = [pending EXCEPT ![id] = NoPayload]
        /\ lateEntries' = IF pending[id] = NoPayload
                          THEN [lateEntries EXCEPT ![id] = NoPayload] ELSE lateEntries
        /\ UNCHANGED <<clock, minted, ready, toCompanion, companionVars, dispatched>>
    BY DEF Settle
  <1>3. pending'[id] = NoPayload /\ lateEntries'[id] = NoPayload
        /\ \A i \in Ids \ {id} : pending'[i] = pending[i] /\ lateEntries'[i] = lateEntries[i]
    BY <1>1, <1>2 DEF WaitsFor, TypeOK
  <1>4. /\ pending' \in [Ids -> Payloads \cup {NoPayload}]
        /\ lateEntries' \in [Ids -> Payloads \cup {NoPayload}]
        /\ toHost' \in [Ids -> Responses \cup {"none"}]
        /\ p \in Payloads \cup {NoPayload}
    BY <1>1, <1>2 DEF TypeOK
  <1>5. CASE p = NoPayload
    <2>1. UNCHANGED <<mem, disk, evictedBefore, volatile>>
      BY <1>5 DEF Settle
    <2>2. TypeOK'
      BY <1>1, <1>2, <1>4, <2>1 DEF TypeOK, companionVars
    <2>3. MintedPast' /\ Dated(mem)' /\ Dated(disk.entries)'
      BY <1>1, <1>2, <2>1 DEF MintedPast, Dated
    <2>4. ASSUME NEW i \in Ids PROVE WaitsFor(i)' /\ MatchedAt(i)'
      <3>1. WaitsFor(i) /\ MatchedAt(i)
        BY DEF RInv
      <3>2. MatchedAt(i)'
        BY <1>2, <2>1, <3>1 DEF MatchedAt, Matches
      <3>3. WaitsFor(i)'
        BY <1>2, <1>3, <2>1, <3>1 DEF WaitsFor, Awaited, Outside
      <3> QED BY <3>2, <3>3
    <2> QED BY <2>2, <2>3, <2>4 DEF RInv
  <1>6. CASE p # NoPayload
    <2> DEFINE m == Ended(id, p)
    <2>1. p \in Payloads /\ p = dispatched[id] /\ minted[id] # 0
          /\ volatile[id] \in {NoPayload, dispatched[id]}
      BY <1>1, <1>4, <1>6 DEF WaitsFor, Awaited
    <2>2. /\ Persist(m, {}, how)
          /\ volatile' = [volatile EXCEPT ![id] = IF toHost[id] = "not_started" THEN NoPayload
                                                  ELSE IF @ = NoPayload THEN p ELSE @]
      BY <1>6 DEF Settle, Ended
    <2>3. /\ m \in [Ids -> Entries] /\ Dated(m)
          /\ m[id].state = "none" \/ m[id].print = Fingerprint(p)
      BY <1>2, <2>1, EndedJournal
    <2>4. \A i \in Ids \ {id} : m[i] = mem[i]
      BY <1>2, <2>1, EndedJournal
    <2> HIDE DEF m, p
    <2>5. /\ mem' \in [Ids -> Entries] /\ evictedBefore' \in Nat
          /\ disk' \in [entries : [Ids -> Entries], evicted : Nat, readable : BOOLEAN]
          /\ evictedBefore <= evictedBefore'
          /\ \A i \in Ids : mem'[i].state # "none" => mem'[i] = m[i]
          /\ \A i \in Ids : m[i].state # "none" => mem'[i].state # "none" \/ Outside(i, evictedBefore)'
          /\ \/ disk' = disk
             \/ \A i \in Ids : disk'.entries[i].state # "none" => disk'.entries[i] = m[i]
      <3>1. UNCHANGED <<clock, minted>>
        BY <1>2
      <3> QED BY <1>1, <2>2, <2>3, <3>1, Pruned
    <2>6. MintedPast' /\ Dated(mem)' /\ Dated(disk.entries)'
      BY <1>2, <2>2, <2>3, PrunedDated
    <2>7. volatile' \in [Ids -> Payloads \cup {NoPayload}] /\ volatile'[id] \in {NoPayload, dispatched[id]}
          /\ \A i \in Ids \ {id} : volatile'[i] = volatile[i]
      BY <1>1, <2>1, <2>2 DEF TypeOK
    <2>8. TypeOK'
      BY <1>1, <1>2, <1>4, <2>5, <2>7 DEF TypeOK, companionVars
    <2>9. ASSUME NEW i \in Ids PROVE WaitsFor(i)' /\ MatchedAt(i)'
      <3>1. WaitsFor(i) /\ MatchedAt(i)
        BY DEF RInv
      <3>2. CASE i = id
        <4>1. WaitsFor(i)'
          BY <1>2, <1>3, <2>7, <3>2 DEF WaitsFor, Awaited
        <4>2. Matches(m[i], i)
          BY <2>1, <2>3, <3>2 DEF Matches
        <4> QED BY <1>2, <2>5, <2>7, <3>1, <3>2, <4>1, <4>2 DEF MatchedAt, Matches
      <3>3. CASE i # id
        <4>1. m[i] = mem[i] /\ pending'[i] = pending[i] /\ lateEntries'[i] = lateEntries[i]
              /\ volatile'[i] = volatile[i]
          BY <1>3, <2>4, <2>7, <3>3
        <4>2. mem[i].state # "none" => mem'[i].state # "none" \/ Outside(i, evictedBefore)'
          BY <2>5, <4>1
        <4>3. Outside(i, evictedBefore) => Outside(i, evictedBefore)'
          <5>1. minted[i] \in Nat /\ evictedBefore \in Nat
            BY <1>1 DEF TypeOK
          <5> QED BY <1>2, <2>5, <5>1 DEF Outside
        <4>4. WaitsFor(i)'
          BY <1>2, <3>1, <4>1, <4>2, <4>3 DEF WaitsFor, Awaited
        <4>5. mem'[i].state = "completed" => mem'[i] = mem[i]
          BY <2>5, <4>1
        <4>6. disk'.entries[i].state = "completed" => disk'.entries[i] \in {mem[i], disk.entries[i]}
          BY <2>5, <4>1
        <4> QED BY <1>2, <3>1, <4>1, <4>4, <4>5, <4>6 DEF MatchedAt, Matches
      <3> QED BY <3>2, <3>3
    <2> QED BY <2>6, <2>8, <2>9 DEF RInv
  <1> QED BY <1>5, <1>6

\* Time, minting, deadlines and the companion change nothing that was recorded.
LEMMA WaitReplay ==
    ASSUME RInv, (\E id \in Ids : Mint(id) \/ Timeout(id) \/ LateExpires(id)) \/ Tick \/ Corrupt
    PROVE  RInv'
  <1> USE DEF hostVars, companionVars
  <1>1. TypeOK /\ MintedPast /\ Dated(mem) /\ Dated(disk.entries) /\ clock \in Nat /\ Horizon \in Nat
        /\ \A i \in Ids : WaitsFor(i) /\ MatchedAt(i)
    BY ClockType, JournalAssumption DEF RInv
  <1>2. \A i \in Ids : minted[i] \in Nat /\ mem[i].started \in Nat /\ disk.entries[i].started \in Nat
    BY <1>1 DEF TypeOK, Entries
  <1>3. ASSUME NEW id \in Ids, Mint(id) PROVE RInv'
    <2>1. minted[id] = 0 /\ minted' = [minted EXCEPT ![id] = clock]
          /\ UNCHANGED <<clock, disk, hostVars, toCompanion, companionVars, toHost, dispatched>>
      BY <1>3 DEF Mint
    <2>2. TypeOK' /\ minted'[id] = clock /\ \A i \in Ids \ {id} : minted'[i] = minted[i]
      BY <1>1, <2>1 DEF TypeOK
    <2>3. MintedPast' /\ Dated(mem)' /\ Dated(disk.entries)'
      BY <1>1, <2>1, <2>2 DEF MintedPast, Dated
    <2>4. ASSUME NEW i \in Ids PROVE WaitsFor(i)' /\ MatchedAt(i)'
      <3>1. MatchedAt(i)'
        BY <1>1, <2>1 DEF MatchedAt, Matches
      <3>2. Awaited(i) => i # id
        BY <1>1, <2>1 DEF WaitsFor
      <3> QED BY <1>1, <2>1, <2>2, <3>1, <3>2 DEF WaitsFor, Awaited, Outside
    <2> QED BY <2>2, <2>3, <2>4 DEF RInv
  <1>4. ASSUME NEW id \in Ids, Timeout(id) \/ LateExpires(id) PROVE RInv'
    <2>1. UNCHANGED <<clock, minted, disk, ready, mem, volatile, evictedBefore, toCompanion,
                      companionVars, toHost, dispatched>>
      BY <1>4 DEF Timeout, LateExpires
    <2>2. /\ pending' \in [Ids -> Payloads \cup {NoPayload}]
          /\ lateEntries' \in [Ids -> Payloads \cup {NoPayload}]
          /\ pending'[id] = NoPayload /\ lateEntries'[id] \in {NoPayload, pending[id]}
          /\ \A i \in Ids \ {id} : pending'[i] = pending[i] /\ lateEntries'[i] = lateEntries[i]
      BY <1>1, <1>4 DEF Timeout, LateExpires, TypeOK, WaitsFor
    <2>3. TypeOK' /\ MintedPast' /\ Dated(mem)' /\ Dated(disk.entries)'
      BY <1>1, <2>1, <2>2 DEF TypeOK, MintedPast, Dated
    <2>4. ASSUME NEW i \in Ids PROVE WaitsFor(i)' /\ MatchedAt(i)'
      <3>1. MatchedAt(i)'
        BY <1>1, <2>1 DEF MatchedAt, Matches
      <3>2. pending'[i] \in {NoPayload, pending[i]} /\ lateEntries'[i] \in {NoPayload, pending[i], lateEntries[i]}
            /\ (pending'[i] = NoPayload \/ lateEntries'[i] = lateEntries[i])
            /\ (Awaited(i)' => Awaited(i))
        BY <2>2 DEF Awaited
      <3> QED BY <1>1, <2>1, <2>2, <3>1, <3>2 DEF WaitsFor, Awaited, Outside
    <2> QED BY <2>3, <2>4 DEF RInv
  <1>5. CASE Tick
    <2>1. clock <= MaxClock /\ clock' = clock + 1
          /\ UNCHANGED <<minted, disk, hostVars, toCompanion, companionVars, toHost, dispatched>>
      BY <1>5 DEF Tick
    <2>2. TypeOK'
      BY <1>1, <2>1, JournalAssumption DEF TypeOK
    <2>3. MintedPast' /\ Dated(mem)' /\ Dated(disk.entries)'
      BY <1>1, <1>2, <2>1 DEF MintedPast, Dated
    <2>4. ASSUME NEW i \in Ids PROVE WaitsFor(i)' /\ MatchedAt(i)'
      <3>1. MatchedAt(i)'
        BY <1>1, <2>1 DEF MatchedAt, Matches
      <3>2. Outside(i, evictedBefore) => Outside(i, evictedBefore)'
        BY <1>1, <1>2, <2>1 DEF Outside
      <3> QED BY <1>1, <2>1, <3>1, <3>2 DEF WaitsFor, Awaited
    <2> QED BY <2>2, <2>3, <2>4 DEF RInv
  <1>6. CASE Corrupt
    <2>1. disk' = [disk EXCEPT !.readable = FALSE]
          /\ UNCHANGED <<clock, minted, hostVars, toCompanion, companionVars, toHost, dispatched>>
      BY <1>6 DEF Corrupt
    <2>2. TypeOK' /\ disk'.entries = disk.entries
      BY <1>1, <2>1 DEF TypeOK
    <2>3. MintedPast' /\ Dated(mem)' /\ Dated(disk.entries)'
      BY <1>1, <2>1, <2>2 DEF MintedPast, Dated
    <2>4. ASSUME NEW i \in Ids PROVE WaitsFor(i)' /\ MatchedAt(i)'
      BY <1>1, <2>1, <2>2 DEF WaitsFor, MatchedAt, Matches, Awaited, Outside
    <2> QED BY <2>2, <2>3, <2>4 DEF RInv
  <1> QED BY <1>3, <1>4, <1>5, <1>6

\* The companion's steps leave what the host knows.
LEMMA CompanionReplay ==
    ASSUME RInv, TypeOK', UNCHANGED <<clock, minted, disk, hostVars, dispatched>>
    PROVE  RInv'
  <1>1. MintedPast' /\ Dated(mem)' /\ Dated(disk.entries)'
    BY DEF RInv, MintedPast, Dated, hostVars
  <1>2. ASSUME NEW i \in Ids PROVE WaitsFor(i)' /\ MatchedAt(i)'
    BY DEF RInv, WaitsFor, MatchedAt, Matches, Awaited, Outside, hostVars
  <1> QED BY <1>1, <1>2 DEF RInv

\* An exit forgets everything but the file, of the host and, with it, of the pipes.
LEMMA ExitReplay ==
    ASSUME RInv, HostExit \/ CompanionRestart
    PROVE  RInv'
  <1>1. TypeOK /\ MintedPast /\ Dated(disk.entries) /\ \A i \in Ids : MatchedAt(i)
    BY DEF RInv
  <1>2. EmptyJournal \in [Ids -> Entries] /\ \A i \in Ids : EmptyJournal[i].state = "none"
    BY DEF EmptyJournal, NoEntry, Entries
  <1>3. exec' \in [Ids -> Execs]
    <2>1. CASE HostExit
      BY <1>1, <2>1, OrphanedType DEF TypeOK, HostExit
    <2>2. CASE CompanionRestart
      BY <2>2 DEF CompanionRestart, NoExec, Execs
    <2> QED BY <2>1, <2>2
  <1>4. /\ ready' = FALSE /\ mem' = EmptyJournal /\ volatile' = NoPayloads /\ evictedBefore' = 0
        /\ pending' = NoPayloads /\ lateEntries' = NoPayloads /\ toCompanion' = NoPayloads
        /\ toHost' = [id \in Ids |-> "none"] /\ authorized' = FALSE
        /\ UNCHANGED <<clock, minted, disk, runs, dispatched>>
    BY DEF HostExit, CompanionRestart
  <1>5. TypeOK'
    BY <1>1, <1>2, <1>3, <1>4 DEF TypeOK, NoPayloads
  <1>6. MintedPast' /\ Dated(mem)' /\ Dated(disk.entries)'
    BY <1>1, <1>2, <1>4 DEF MintedPast, Dated
  <1>7. ASSUME NEW i \in Ids PROVE WaitsFor(i)' /\ MatchedAt(i)'
    <2>1. pending'[i] = NoPayload /\ lateEntries'[i] = NoPayload /\ volatile'[i] = NoPayload
          /\ mem'[i].state = "none"
      BY <1>2, <1>4 DEF NoPayloads
    <2> QED BY <1>1, <1>4, <2>1 DEF WaitsFor, Awaited, MatchedAt, Matches
  <1> QED BY <1>5, <1>6, <1>7 DEF RInv

\* A new process knows what the file says, or nothing (loadDurableMutations).
LEMMA StartReplay == ASSUME RInv, HostStart PROVE RInv'
  <1>1. TypeOK /\ MintedPast /\ Dated(disk.entries) /\ \A i \in Ids : WaitsFor(i) /\ MatchedAt(i)
    BY DEF RInv
  <1>2. EmptyJournal \in [Ids -> Entries] /\ \A i \in Ids : EmptyJournal[i].state = "none"
    BY DEF EmptyJournal, NoEntry, Entries
  <1>3. /\ ~ready /\ ready' = TRUE
        /\ UNCHANGED <<clock, minted, volatile, pending, lateEntries, toCompanion, companionVars,
                       toHost, dispatched>>
    BY DEF HostStart
  <1>4. \/ mem' = disk.entries /\ evictedBefore' = disk.evicted /\ disk' = disk
        \/ /\ mem' = EmptyJournal /\ evictedBefore' = clock
           /\ disk' = [entries |-> EmptyJournal, evicted |-> 0, readable |-> TRUE]
    BY DEF HostStart
  <1>5. TypeOK'
    <2>1. /\ mem' \in [Ids -> Entries] /\ evictedBefore' \in Nat
          /\ disk' \in [entries : [Ids -> Entries], evicted : Nat, readable : BOOLEAN]
      <3>1. /\ disk \in [entries : [Ids -> Entries], evicted : Nat, readable : BOOLEAN]
            /\ clock \in Nat
        BY <1>1, ClockType DEF TypeOK
      <3>2. CASE disk' = disk /\ mem' = disk.entries /\ evictedBefore' = disk.evicted
        BY <3>1, <3>2
      <3>3. CASE /\ mem' = EmptyJournal /\ evictedBefore' = clock
                 /\ disk' = [entries |-> EmptyJournal, evicted |-> 0, readable |-> TRUE]
        BY <1>2, <3>1, <3>3
      <3> QED BY <1>4, <3>2, <3>3
    <2> QED BY <1>1, <1>3, <2>1 DEF TypeOK, companionVars
  <1>6. MintedPast' /\ Dated(mem)' /\ Dated(disk.entries)'
    BY <1>1, <1>2, <1>3, <1>4 DEF MintedPast, Dated
  <1>7. ASSUME NEW i \in Ids PROVE WaitsFor(i)' /\ MatchedAt(i)'
    <2>1. ~Awaited(i) /\ volatile[i] = NoPayload
      BY <1>1, <1>3 DEF WaitsFor
    <2>2. WaitsFor(i)'
      BY <1>1, <1>3, <2>1 DEF WaitsFor, Awaited
    <2>3. MatchedAt(i)'
      BY <1>1, <1>2, <1>3, <1>4, <2>1 DEF MatchedAt, Matches
    <2> QED BY <2>2, <2>3
  <1> QED BY <1>5, <1>6, <1>7 DEF RInv

\* Nothing is recorded or awaited at first.
LEMMA InitReplay == Init => RInv
  <1> SUFFICES ASSUME Init PROVE RInv
    OBVIOUS
  <1>1. EmptyJournal \in [Ids -> Entries] /\ \A i \in Ids : EmptyJournal[i].state = "none"
    BY DEF EmptyJournal, NoEntry, Entries
  <1>2. TypeOK
    <2>1. clock \in 1..(MaxClock + 1)
      BY JournalAssumption DEF Init
    <2>2. /\ disk \in [entries : [Ids -> Entries], evicted : Nat, readable : BOOLEAN]
          /\ mem \in [Ids -> Entries] /\ evictedBefore \in Nat /\ minted \in [Ids -> Nat]
      BY <1>1 DEF Init
    <2>3. exec \in [Ids -> Execs]
      BY DEF Init, NoExec, Execs
    <2> QED BY <2>1, <2>2, <2>3 DEF Init, TypeOK, NoPayloads
  <1>3. MintedPast /\ Dated(mem) /\ Dated(disk.entries)
    BY <1>1 DEF Init, MintedPast, Dated
  <1>4. ASSUME NEW i \in Ids PROVE WaitsFor(i) /\ MatchedAt(i)
    BY <1>1 DEF Init, WaitsFor, Awaited, MatchedAt, Matches, NoPayloads
  <1> QED BY <1>2, <1>3, <1>4 DEF RInv

\* Every step keeps it.
LEMMA NextReplay == RInv /\ [Next]_vars => RInv'
  <1> SUFFICES ASSUME RInv, [Next]_vars PROVE RInv'
    OBVIOUS
  <1>1. ASSUME NEW id \in Ids, Host(id) PROVE RInv'
    BY <1>1, ForwardReplay, SettleReplay, WaitReplay DEF Host
  <1>2. CASE (\E id \in Ids : Execution(id)) \/ EndAuthority \/ Grant
    <2>1. TypeOK' /\ UNCHANGED <<clock, minted, disk, hostVars, dispatched>>
      BY <1>2, CompanionType DEF RInv
    <2> QED BY <2>1, CompanionReplay
  <1>3. CASE UNCHANGED vars
    <2>1. TypeOK' /\ UNCHANGED <<clock, minted, disk, hostVars, dispatched>>
      BY <1>3 DEF RInv, TypeOK, vars, hostVars, companionVars
    <2> QED BY <2>1, CompanionReplay
  <1> QED BY <1>1, <1>2, <1>3, ExitReplay, StartReplay, WaitReplay DEF Next

\* What the host records and awaits is typed, and belongs to what was sent last under
\* its id, in every behaviour.
THEOREM ReplayInvariance == Spec => []RInv
  BY InitReplay, NextReplay, PTL DEF Spec

-----------------------------------------------------------------------------
(* What follows                                                            *)

\* The host, the journal and the companion keep their types, even when the journal
\* becomes unreadable.
THEOREM TypeCorrect == Spec => []TypeOK
  BY ReplayInvariance, PTL DEF RInv

\* The host answers from the journal only requests with the durable parameters of what was
\* sent last under their id, with all of them while the process that sent it runs, and
\* with the same typed input always (durableMutationLookup, mutationFingerprint).
THEOREM OwnRequest == Spec => []ReplaysOwnRequest
  <1>1. RInv => ReplaysOwnRequest
    <2>1. SUFFICES ASSUME RInv, NEW id \in Ids, NEW p \in Payloads, Lookup(id, p) = "replay"
                   PROVE  /\ Fingerprint(p) = Fingerprint(dispatched[id])
                          /\ p \in Typed \/ volatile[id] # NoPayload => p = dispatched[id]
      BY DEF ReplaysOwnRequest
    <2>2. MatchedAt(id) /\ dispatched[id] \in Payloads \cup {NoPayload}
      BY <2>1 DEF RInv, TypeOK
    <2>3. /\ mem[id].state = "completed" /\ mem[id].print = Fingerprint(p)
          /\ volatile[id] \in {NoPayload, p}
          /\ ~(p \in Typed /\ volatile[id] = NoPayload)
      BY <2>1 DEF Lookup
    <2>4. Fingerprint(p) = Fingerprint(dispatched[id])
      BY <2>2, <2>3 DEF MatchedAt, Matches
    <2>5. ASSUME p \in Typed \/ volatile[id] # NoPayload
          PROVE  p = dispatched[id]
      <3>1. p # NoPayload
        BY JournalAssumption
      <3>2. volatile[id] = p
        BY <2>3, <2>5
      <3>3. volatile[id] \in {NoPayload, dispatched[id]}
        BY <2>2, <2>3 DEF MatchedAt
      <3> QED BY <3>1, <3>2, <3>3
    <2> QED BY <2>4, <2>5
  <1> QED BY <1>1, ReplayInvariance, PTL

-----------------------------------------------------------------------------
(* Completions are final                                                   *)

\* What a step may do to a completion on disk.
FinalAt(id) ==
    disk.entries[id].state = "completed"
    => disk'.entries[id] = disk.entries[id] \/ id \in Retired'

\* Persisting a journal that has for an id what memory has, or what comes after it.
LEMMA PersistFinal ==
    ASSUME FInv, ready, NEW m \in [Ids -> Entries], Dated(m), NEW undo, NEW how \in PersistOutcomes,
           Persist(m, undo, how), UNCHANGED <<clock, minted, ready>>, NEW i \in Ids,
           \/ i \notin undo /\ m[i] = mem[i]
           \/ i \notin undo /\ mem[i].state # "completed"
           \/ disk.entries[i].state # "completed" /\ m[i].state # "completed"
    PROVE  /\ FinalAt(i)
           /\ disk'.entries[i].state = "completed"
              => Outside(i, evictedBefore)' \/ mem'[i] = disk'.entries[i]
           /\ disk'.readable /\ disk'.evicted <= evictedBefore'
  <1>1. TypeOK /\ KnownAt(i) /\ disk.readable /\ disk.evicted <= evictedBefore /\ Dated(disk.entries)
    BY DEF FInv, RInv
  <1>2. /\ evictedBefore' \in Nat /\ evictedBefore <= evictedBefore'
        /\ mem'[i].state # "none" => mem'[i] = m[i]
        /\ m[i].state # "none" /\ i \notin undo => mem'[i].state # "none" \/ Outside(i, evictedBefore)'
        /\ \/ disk' = disk
           \/ /\ disk'.readable /\ disk'.evicted = evictedBefore'
              /\ disk'.entries[i].state # "none" => disk'.entries[i] = m[i]
              /\ m[i].state # "none" => \/ disk'.entries[i].state # "none"
                                        \/ Outside(i, evictedBefore)'
              /\ i \notin undo => mem'[i] = disk'.entries[i]
    BY <1>1, Pruned
  <1>3. evictedBefore \in Nat /\ disk.evicted \in Nat /\ minted[i] \in Nat
    BY <1>1 DEF TypeOK
  <1>4. Outside(i, evictedBefore) => Outside(i, evictedBefore)'
    BY <1>2, <1>3 DEF Outside
  <1>5. CASE disk' = disk
    <2>1. FinalAt(i) /\ disk'.readable /\ disk'.evicted <= evictedBefore'
      BY <1>1, <1>2, <1>3, <1>5 DEF FinalAt
    <2>2. ASSUME disk.entries[i].state = "completed", ~Outside(i, evictedBefore)'
          PROVE  mem'[i] = disk.entries[i]
      <3>1. mem[i] = disk.entries[i]
        BY <1>1, <1>4, <2>2 DEF KnownAt
      <3>2. i \notin undo /\ m[i] = mem[i]
        BY <2>2, <3>1
      <3> QED BY <1>2, <2>2, <3>1, <3>2
    <2> QED BY <1>5, <2>1, <2>2
  <1>6. CASE /\ disk'.readable /\ disk'.evicted = evictedBefore'
             /\ disk'.entries[i].state # "none" => disk'.entries[i] = m[i]
             /\ m[i].state # "none" => \/ disk'.entries[i].state # "none"
                                       \/ Outside(i, evictedBefore)'
             /\ i \notin undo => mem'[i] = disk'.entries[i]
    <2>1. disk'.entries[i].state = "completed" => mem'[i] = disk'.entries[i] \/ Outside(i, evictedBefore)'
      BY <1>6
    <2>2. ASSUME disk.entries[i].state = "completed", disk'.entries[i] # disk.entries[i]
          PROVE  i \in Retired'
      <3>1. minted'[i] # 0
        BY <1>1, <2>2 DEF Dated
      <3>2. Outside(i, evictedBefore)'
        <4>1. Outside(i, evictedBefore) \/ mem[i] = disk.entries[i]
          BY <1>1, <2>2 DEF KnownAt
        <4>2. CASE mem[i] = disk.entries[i]
          <5>1. m[i] = disk.entries[i]
            BY <2>2, <4>2
          <5> QED BY <1>6, <2>2, <5>1
        <4> QED BY <1>4, <4>1, <4>2
      <3>3. Outside(i, disk.evicted)'
        BY <1>6, <3>2 DEF Outside
      <3> QED BY <3>1, <3>3 DEF Retired
    <2> QED BY <1>2, <1>6, <2>1, <2>2 DEF FinalAt
  <1> QED BY <1>2, <1>5, <1>6

\* Recording a new request touches no completion of another, and has none of its own.
LEMMA ForwardFinal ==
    ASSUME FInv, NEW id \in Ids, NEW p \in Payloads, NEW how \in PersistOutcomes,
           NEW sent \in BOOLEAN, Forward(id, p, how, sent)
    PROVE  FInv' /\ \A i \in Ids : FinalAt(i)
  <1> DEFINE m == Begun(id, p)
  <1>1. RInv /\ RInv' /\ TypeOK
    BY ForwardReplay DEF FInv, RInv
  <1>2. /\ m \in [Ids -> Entries] /\ Dated(m) /\ Persist(m, {id}, how)
        /\ ready /\ mem[id].state = "none" /\ ~Outside(id, evictedBefore)
        /\ UNCHANGED <<clock, minted, ready, lateEntries>>
    BY <1>1, Fresh
  <1>3. m[id].state = "started" /\ \A i \in Ids \ {id} : m[i] = mem[i]
    BY <1>1 DEF TypeOK, Begun, Started
  <1> HIDE DEF m
  <1>4. disk.entries[id].state # "completed"
    BY <1>2 DEF FInv, KnownAt
  <1>5. ASSUME NEW i \in Ids
        PROVE  /\ FinalAt(i)
               /\ disk'.entries[i].state = "completed"
                  => Outside(i, evictedBefore)' \/ mem'[i] = disk'.entries[i]
               /\ disk'.readable /\ disk'.evicted <= evictedBefore'
    <2>1. \/ i \notin {id} /\ m[i] = mem[i]
          \/ disk.entries[i].state # "completed" /\ m[i].state # "completed"
      BY <1>3, <1>4
    <2> QED BY <1>2, <2>1, PersistFinal
  <1>6. \A i \in Ids : mem'[i].state # "none" => mem'[i] = m[i]
    BY <1>1, <1>2, Pruned
  <1>7. ASSUME NEW i \in Ids PROVE Awaited(i)' => mem'[i].state # "completed"
    <2>1. CASE i = id
      BY <1>3, <1>6, <2>1
    <2>2. CASE i # id
      <3>1. Awaited(i)' => Awaited(i)
        BY <1>1, <2>2 DEF Forward, Awaited, TypeOK
      <3>2. Awaited(i) => mem[i].state # "completed"
        BY DEF FInv, KnownAt
      <3> QED BY <1>3, <1>6, <2>2, <3>1, <3>2
    <2> QED BY <2>1, <2>2
  <1> QED BY <1>1, <1>5, <1>7 DEF FInv, KnownAt

\* An answer completes an entry that was not completed yet, or drops it.
LEMMA SettleFinal ==
    ASSUME FInv, NEW id \in Ids, NEW how \in PersistOutcomes, Settle(id, how)
    PROVE  FInv' /\ \A i \in Ids : FinalAt(i)
  <1> DEFINE p == IF pending[id] # NoPayload THEN pending[id] ELSE lateEntries[id]
  <1>1. RInv /\ RInv' /\ TypeOK /\ WaitsFor(id)
    BY SettleReplay DEF FInv, RInv
  <1>2. /\ ready /\ toHost[id] # "none"
        /\ pending' = [pending EXCEPT ![id] = NoPayload]
        /\ lateEntries' = IF pending[id] = NoPayload
                          THEN [lateEntries EXCEPT ![id] = NoPayload] ELSE lateEntries
        /\ UNCHANGED <<clock, minted, ready>>
    BY DEF Settle
  <1>3. ~Awaited(id)' /\ \A i \in Ids \ {id} : Awaited(i)' => Awaited(i)
    BY <1>1, <1>2 DEF WaitsFor, TypeOK, Awaited
  <1>4. CASE p = NoPayload
    <2>1. UNCHANGED <<mem, disk, evictedBefore>>
      BY <1>4 DEF Settle
    <2>2. ASSUME NEW i \in Ids PROVE KnownAt(i)' /\ FinalAt(i)
      <3>1. KnownAt(i) /\ (Awaited(i)' => Awaited(i))
        BY <1>3 DEF FInv
      <3> QED BY <1>2, <2>1, <3>1 DEF KnownAt, FinalAt, Outside
    <2> QED BY <1>1, <1>2, <2>1, <2>2 DEF FInv
  <1>5. CASE p # NoPayload
    <2> DEFINE m == Ended(id, p)
    <2>1. p \in Payloads /\ minted[id] # 0 /\ Awaited(id)
      BY <1>1, <1>5 DEF WaitsFor, Awaited, TypeOK
    <2>2. Persist(m, {}, how)
      BY <1>5 DEF Settle, Ended
    <2>3. m \in [Ids -> Entries] /\ Dated(m)
      BY <1>1, <1>2, <2>1, EndedJournal
    <2>4. \A i \in Ids \ {id} : m[i] = mem[i]
      BY <1>1, <1>2, <2>1, EndedJournal
    <2> HIDE DEF m, p
    <2>5. mem[id].state # "completed"
      BY <2>1 DEF FInv, KnownAt
    <2>6. ASSUME NEW i \in Ids
          PROVE  /\ FinalAt(i)
                 /\ disk'.entries[i].state = "completed"
                    => Outside(i, evictedBefore)' \/ mem'[i] = disk'.entries[i]
                 /\ disk'.readable /\ disk'.evicted <= evictedBefore'
      <3>1. \/ i \notin {} /\ m[i] = mem[i]
            \/ i \notin {} /\ mem[i].state # "completed"
        BY <2>4, <2>5
      <3> QED BY <1>2, <2>2, <2>3, <3>1, PersistFinal
    <2>7. \A i \in Ids : mem'[i].state # "none" => mem'[i] = m[i]
      BY <1>1, <1>2, <2>2, <2>3, Pruned
    <2>8. ASSUME NEW i \in Ids PROVE Awaited(i)' => mem'[i].state # "completed"
      <3>1. Awaited(i)' => i # id /\ Awaited(i)
        BY <1>3
      <3>2. Awaited(i) => mem[i].state # "completed"
        BY DEF FInv, KnownAt
      <3> QED BY <2>4, <2>7, <3>1, <3>2
    <2> QED BY <1>1, <2>6, <2>8 DEF FInv, KnownAt
  <1> QED BY <1>4, <1>5

\* Every step keeps completions, as long as the file stays readable.
LEMMA FinalStep ==
    ASSUME MayCorrupt = FALSE, FInv, [Next]_vars
    PROVE  FInv' /\ \A i \in Ids : FinalAt(i)
  <1>1. RInv /\ RInv' /\ TypeOK /\ disk.readable /\ \A i \in Ids : KnownAt(i)
    BY NextReplay DEF FInv, RInv
  <1>2. \A i \in Ids : minted[i] \in Nat /\ evictedBefore \in Nat /\ clock \in Nat /\ Horizon \in Nat
    BY <1>1, ClockType, JournalAssumption DEF TypeOK
  <1>3. ASSUME disk' = disk, ready' => ready, UNCHANGED <<mem, evictedBefore>>,
               \A i \in Ids : Awaited(i)' => Awaited(i),
               \A i \in Ids : Outside(i, evictedBefore)' \/ ~Outside(i, evictedBefore)
                              \/ disk.entries[i].state # "completed"
        PROVE  FInv' /\ \A i \in Ids : FinalAt(i)
    <2>1. ASSUME NEW i \in Ids PROVE KnownAt(i)' /\ FinalAt(i)
      BY <1>1, <1>3 DEF KnownAt, FinalAt
    <2> QED BY <1>1, <1>3, <2>1 DEF FInv
  <1>4. ASSUME UNCHANGED <<clock, minted, disk, hostVars>> PROVE FInv' /\ \A i \in Ids : FinalAt(i)
    BY <1>3, <1>4 DEF hostVars, Awaited, Outside
  <1>5. ASSUME NEW id \in Ids, Mint(id) PROVE FInv' /\ \A i \in Ids : FinalAt(i)
    <2>1. minted[id] = 0 /\ minted' = [minted EXCEPT ![id] = clock] /\ UNCHANGED <<clock, disk, hostVars>>
      BY <1>5 DEF Mint
    <2>2. disk.entries[id].state = "none"
      BY <1>1, <2>1 DEF RInv, Dated
    <2>3. \A i \in Ids \ {id} : minted'[i] = minted[i]
      BY <1>1, <2>1 DEF TypeOK
    <2> QED BY <1>3, <2>1, <2>2, <2>3 DEF hostVars, Awaited, Outside
  <1>6. ASSUME NEW id \in Ids, Timeout(id) \/ LateExpires(id)
        PROVE  FInv' /\ \A i \in Ids : FinalAt(i)
    <2>1. UNCHANGED <<clock, minted, disk, ready, mem, evictedBefore>>
      BY <1>6 DEF Timeout, LateExpires
    <2>2. \A i \in Ids : Awaited(i)' => Awaited(i)
      BY <1>1, <1>6 DEF Timeout, LateExpires, Awaited, TypeOK
    <2> QED BY <1>3, <2>1, <2>2 DEF Outside
  <1>7. CASE Tick
    <2>1. clock' = clock + 1 /\ UNCHANGED <<minted, disk, hostVars>>
      BY <1>7 DEF Tick
    <2> QED BY <1>2, <1>3, <2>1 DEF hostVars, Awaited, Outside
  <1>8. CASE HostExit \/ CompanionRestart
    <2>1. /\ ready' = FALSE /\ disk' = disk /\ mem' = EmptyJournal
          /\ pending' = NoPayloads /\ lateEntries' = NoPayloads
      BY <1>8 DEF HostExit, CompanionRestart
    <2>2. ASSUME NEW i \in Ids PROVE KnownAt(i)' /\ FinalAt(i)
      <3>1. ~Awaited(i)'
        BY <2>1 DEF Awaited, NoPayloads
      <3> QED BY <2>1, <3>1 DEF KnownAt, FinalAt
    <2> QED BY <1>1, <2>1, <2>2 DEF FInv
  <1>9. CASE HostStart
    <2>1. /\ ~ready /\ mem' = disk.entries /\ evictedBefore' = disk.evicted /\ disk' = disk
          /\ UNCHANGED <<pending, lateEntries>>
      BY <1>1, <1>9 DEF HostStart
    <2>2. ASSUME NEW i \in Ids PROVE KnownAt(i)' /\ FinalAt(i)
      <3>1. WaitsFor(i)
        BY <1>1 DEF RInv
      <3>2. ~Awaited(i)'
        BY <2>1, <3>1 DEF Awaited, WaitsFor
      <3> QED BY <2>1, <3>2 DEF KnownAt, FinalAt
    <2>3. disk'.evicted <= evictedBefore'
      BY <1>1, <2>1 DEF TypeOK
    <2> QED BY <1>1, <2>1, <2>2, <2>3 DEF FInv
  <1>10. CASE (\E id \in Ids : Execution(id)) \/ EndAuthority \/ Grant
    BY <1>1, <1>4, <1>10, CompanionType
  <1>11. CASE UNCHANGED vars
    BY <1>4, <1>11 DEF vars
  <1>12. ASSUME NEW id \in Ids, Host(id) PROVE FInv' /\ \A i \in Ids : FinalAt(i)
    BY <1>5, <1>6, <1>12, ForwardFinal, SettleFinal DEF Host
  <1>13. ~Corrupt
    BY DEF Corrupt
  <1> QED BY <1>7, <1>8, <1>9, <1>10, <1>11, <1>12, <1>13 DEF Next

\* A completion that reached the disk stays as it is until its id is refused for good,
\* as long as the journal file stays readable: neither a late answer, nor a write that
\* fails half-way, nor a new process takes it back (persistDurableMutations).
THEOREM Finality == ASSUME MayCorrupt = FALSE PROVE Spec => CompletionIsFinal
  <1>1. Init => FInv
    <2>1. SUFFICES ASSUME Init PROVE FInv
      OBVIOUS
    <2>2. ASSUME NEW i \in Ids PROVE KnownAt(i)
      BY <2>1 DEF Init, KnownAt, Awaited, NoPayloads
    <2> QED BY <2>1, <2>2, InitReplay DEF Init, FInv
  <1>2. FInv /\ [Next]_vars => FInv'
    BY FinalStep
  <1> DEFINE A == \A id \in Ids : disk.entries[id].state = "completed" =>
                    disk'.entries[id] = disk.entries[id] \/ id \in Retired'
  <1>3. FInv /\ [Next]_vars => [A]_vars
    BY FinalStep DEF FinalAt
  <1> QED BY <1>1, <1>2, <1>3, PTL DEF Spec, CompletionIsFinal
=============================================================================
