-------------------------- MODULE MutationJournal --------------------------
(***************************************************************************)
(* One consumer's mutations in one profile, from the native host that      *)
(* records them (runtime/native-host.mjs) through the companion that runs  *)
(* them (companion/background.js) and back.  The host may exit and start   *)
(* again, answers may come late or never, the journal file may fail to be  *)
(* written, its entries age and are evicted, and the consumer may send the *)
(* same request id again at any time, with other parameters too.           *)
(*                                                                         *)
(* Abstracted: sockets and waiters (every reply is a function of the host  *)
(* state, see Lookup), the lock file (a locked journal is one way to fail  *)
(* to persist), legacy tombstones, and the companion's cache of completed  *)
(* requests, which is dropped with the binding whenever the host forgets   *)
(* its own.  Ids are those createFirefoxRequestId mints, with a timestamp. *)
(***************************************************************************)
EXTENDS Naturals, FiniteSets

CONSTANTS
    Ids,          \* request ids
    Clicks,       \* parameters of act clicks, which carry no input
    Typed,        \* parameters of fill/type/key actions, told apart by their input only
    Operations,   \* parameters of browser operations: navigate, create, group
    MultiStep,    \* those that make several browser calls
    NoPayload,
    Horizon,      \* REPLAY_HORIZON_MS
    MaxDurable,   \* MAX_DURABLE_MUTATIONS
    MaxPending,   \* MAX_PENDING_REQUESTS
    MayCorrupt,   \* whether the journal file may become unreadable
    MaxClock,     \* bound: the clock stops here
    MaxRuns       \* bound: an id that took effect so often does so no more

Payloads == Clicks \cup Typed \cup Operations

ASSUME JournalAssumption ==
    /\ NoPayload \notin Payloads /\ {"typed", "operation"} \cap Clicks = {}
    /\ MultiStep \subseteq Operations
    /\ Typed \cap Operations = {} /\ Typed \cap Clicks = {} /\ Operations \cap Clicks = {}
    /\ Horizon \in Nat /\ MaxDurable \in Nat \ {0} /\ MaxPending \in Nat
    /\ MayCorrupt \in BOOLEAN /\ MaxClock \in Nat /\ MaxRuns \in Nat

VARIABLES
    clock,         \* Date.now()
    minted,        \* when the consumer minted the id, 0 = not yet
    disk,          \* the journal file: entries, evicted_before, whether it parses
    ready,         \* a host process runs and the companion's hello loaded the journal
    mem,           \* durableMutations
    volatile,      \* volatileMutationFingerprints: the parameters this process saw
    evictedBefore,
    pending,       \* pending: the parameters of the request being waited for
    lateEntries,   \* timed-out requests whose late answer may still settle the journal
    toCompanion,   \* forwarded, not yet handled by the companion
    exec,          \* the companion's execution of the id
    toHost,        \* the companion's answer, not yet handled by the host
    authorized,    \* the companion has a live binding of this consumer
    runs,          \* history: how often the mutation took effect
    dispatched     \* history: the parameters last forwarded under the id

hostVars == <<ready, mem, volatile, evictedBefore, pending, lateEntries>>
companionVars == <<exec, authorized, runs>>
vars == <<clock, minted, disk, hostVars, toCompanion, companionVars, toHost, dispatched>>

-----------------------------------------------------------------------------
\* What the companion can answer: ok with a completed, refused or partly applied result,
\* or a failure that says nothing was started or that the outcome is unknown.
Responses == {"completed", "refused", "partial", "not_started", "unknown"}
OkResponses == {"completed", "refused", "partial"}

Entries ==
    [state : {"none", "started", "completed"},
     print : Clicks \cup {"typed", "operation", NoPayload},     \* safe_fingerprint
     started : Nat, completed : Nat, response : Responses \cup {"none"}]

NoEntry == [state |-> "none", print |-> NoPayload, started |-> 0, completed |-> 0,
            response |-> "none"]
EmptyJournal == [id \in Ids |-> NoEntry]
NoPayloads == [id \in Ids |-> NoPayload]

Execs ==
    [phase : {"idle", "queued", "running", "applied"},
     payload : Payloads \cup {NoPayload}, live : BOOLEAN]
NoExec == [phase |-> "idle", payload |-> NoPayload, live |-> FALSE]

TypeOK ==
    /\ clock \in 1..(MaxClock + 1)
    /\ minted \in [Ids -> Nat]
    /\ disk \in [entries : [Ids -> Entries], evicted : Nat, readable : BOOLEAN]
    /\ ready \in BOOLEAN
    /\ mem \in [Ids -> Entries]
    /\ volatile \in [Ids -> Payloads \cup {NoPayload}]
    /\ evictedBefore \in Nat
    /\ pending \in [Ids -> Payloads \cup {NoPayload}]
    /\ lateEntries \in [Ids -> Payloads \cup {NoPayload}]
    /\ toCompanion \in [Ids -> Payloads \cup {NoPayload}]
    /\ exec \in [Ids -> Execs]
    /\ toHost \in [Ids -> Responses \cup {"none"}]
    /\ authorized \in BOOLEAN
    /\ runs \in [Ids -> Nat]
    /\ dispatched \in [Ids -> Payloads \cup {NoPayload}]

-----------------------------------------------------------------------------
(* The journal in memory and on disk.                                      *)

Listed(m) == {id \in Ids : m[id].state # "none"}
Without(m, ids) == [id \in Ids |-> IF id \in ids THEN NoEntry ELSE m[id]]

\* mutationFingerprint: of the parameters only context, ref and action are durable.  They
\* determine a click; the typed input, the url, the title and the members are lost.
Fingerprint(p) ==
    CASE p \in Typed      -> "typed"
      [] p \in Operations -> "operation"
      [] OTHER            -> p

Age(e) == clock - (IF e.completed # 0 THEN e.completed ELSE e.started)

\* pruneJournal, by age.
Unexpired(m) == Without(m, {id \in Listed(m) : Age(m[id]) > Horizon})

\* pruneJournal, by number: the oldest entries beyond the limit.
Evictable(m, gone) ==
    /\ gone \subseteq Listed(m)
    /\ Cardinality(Listed(m) \ gone) <= MaxDurable
    /\ gone # {} => Cardinality(Listed(m) \ gone) = MaxDurable
    /\ \A g \in gone, k \in Listed(m) \ gone : m[g].started <= m[k].started

\* outsideReplayHorizon, for the mark of this process or of the file.
Outside(id, mark) == clock - minted[id] > Horizon \/ minted[id] <= mark

\* Mutant: evicting an entry does not move the mark below which ids are refused.
Persist_NoMark(m, undo, how) ==
    IF how = "locked"
    THEN /\ mem' = Without(m, undo)
         /\ UNCHANGED <<evictedBefore, disk>>
    ELSE \E gone \in SUBSET Ids :
           LET kept == Without(Unexpired(m), gone) IN
           /\ Evictable(Unexpired(m), gone)
           /\ mem' = IF how = "written" THEN kept ELSE Without(kept, undo)
           /\ UNCHANGED evictedBefore
           /\ IF how = "unwritten" THEN UNCHANGED disk
              ELSE disk' = [entries |-> kept, evicted |-> evictedBefore, readable |-> TRUE]

\* persistDurableMutations of journal m.  It can fail before it prunes (another process
\* holds the lock), before the file is replaced or after; then undo leaves memory again.
Persist(m, undo, how) ==
    IF how = "locked"
    THEN /\ mem' = Without(m, undo)
         /\ UNCHANGED <<evictedBefore, disk>>
    ELSE \E gone \in SUBSET Ids :
           LET kept == Without(Unexpired(m), gone) IN
           /\ Evictable(Unexpired(m), gone)
           /\ mem' = IF how = "written" THEN kept ELSE Without(kept, undo)
           /\ evictedBefore' \in {evictedBefore} \cup {m[id].started : id \in gone}
           /\ evictedBefore' >= evictedBefore
           /\ \A id \in gone : evictedBefore' >= m[id].started
           /\ IF how = "unwritten" THEN UNCHANGED disk
              ELSE disk' = [entries |-> kept, evicted |-> evictedBefore', readable |-> TRUE]

PersistOutcomes == {"written", "locked", "unwritten", "unsynced"}

-----------------------------------------------------------------------------
(* The host's verdicts on a request, which are the replies it gives.       *)

\* Mutant: after a restart a typed input is taken to be the recorded one.
Lookup_TrustsFingerprint(id, p) ==
    LET e == mem[id] IN
    CASE e.state = "none"                                      ->
           IF Outside(id, evictedBefore) THEN "expired" ELSE "fresh"
      [] e.state # "none" /\ e.print # Fingerprint(p)          -> "conflict"
      [] e.state # "none" /\ e.print = Fingerprint(p)
           /\ volatile[id] \notin {NoPayload, p}               -> "conflict"
      [] OTHER                                                 ->
           IF e.state = "completed" THEN "replay" ELSE "unknown"

\* durableMutationLookup: fresh, or answered from the journal.
Lookup(id, p) ==
    LET e == mem[id] IN
    CASE e.state = "none"                                      ->
           IF Outside(id, evictedBefore) THEN "expired" ELSE "fresh"
      [] e.state # "none" /\ e.print # Fingerprint(p)          -> "conflict"
      [] e.state # "none" /\ e.print = Fingerprint(p)
           /\ volatile[id] \notin {NoPayload, p}               -> "conflict"
      [] OTHER                                                 ->
           IF e.state = "completed" /\ ~(p \in Typed /\ volatile[id] = NoPayload)
           THEN "replay" ELSE "unknown"

\* mutationStatus: what mutation_status reports of an id.
MutationStatus(id) ==
    LET e == mem[id] IN
    IF pending[id] # NoPayload THEN "in_flight"
    ELSE IF e.state = "completed"
         THEN IF e.response \in OkResponses THEN "completed" ELSE e.response
    ELSE IF e.state = "started" \/ lateEntries[id] # NoPayload THEN "unknown"
    ELSE IF Outside(id, evictedBefore) THEN "outside_horizon" ELSE "not_found"

-----------------------------------------------------------------------------
(* The consumer and the host.                                              *)

Mint(id) ==
    /\ minted[id] = 0
    /\ minted' = [minted EXCEPT ![id] = clock]
    /\ UNCHANGED <<clock, disk, hostVars, toCompanion, companionVars, toHost, dispatched>>

\* Mutant: the durable record of a typed input is the input.
Started_Plain(p) == [state |-> "started", print |-> p, started |-> clock,
                     completed |-> 0, response |-> "none"]

\* durableMutationStart: the entry before anything is sent.
Started(p) == [state |-> "started", print |-> Fingerprint(p), started |-> clock,
               completed |-> 0, response |-> "none"]

\* Mutant: the request goes out before its record is on disk.
Forward_Unrecorded(id, p, how, sent) ==
    /\ ready /\ minted[id] # 0
    /\ pending[id] = NoPayload
    /\ Cardinality({i \in Ids : pending[i] # NoPayload}) < MaxPending
    /\ Lookup(id, p) = "fresh"
    /\ Persist([mem EXCEPT ![id] = Started(p)], {}, how)
    /\ volatile' = [volatile EXCEPT ![id] = p]
    /\ pending' = [pending EXCEPT ![id] = p]
    /\ toCompanion' = [toCompanion EXCEPT ![id] = p]
    /\ dispatched' = [dispatched EXCEPT ![id] = p]
    /\ UNCHANGED <<clock, minted, ready, lateEntries, companionVars, toHost>>

\* forwardRequest: record first, then hand the request to the companion, unless the
\* record (how) or the native write (sent) fails.  A request that is answered from the
\* journal, joins the one in flight or is refused changes nothing.
Forward(id, p, how, sent) ==
    /\ ready /\ minted[id] # 0
    /\ pending[id] = NoPayload
    /\ Cardinality({i \in Ids : pending[i] # NoPayload}) < MaxPending
    /\ Lookup(id, p) = "fresh"
    /\ Persist([mem EXCEPT ![id] = Started(p)], {id}, how)
    /\ volatile' = [volatile EXCEPT ![id] = IF how = "written" THEN p ELSE NoPayload]
    /\ IF how = "written" /\ sent
       THEN /\ pending' = [pending EXCEPT ![id] = p]
            /\ toCompanion' = [toCompanion EXCEPT ![id] = p]
            /\ dispatched' = [dispatched EXCEPT ![id] = p]
       ELSE UNCHANGED <<pending, toCompanion, dispatched>>
    /\ UNCHANGED <<clock, minted, ready, lateEntries, companionVars, toHost>>

\* The broker deadline: the consumer is told that the outcome is unknown.
Timeout(id) ==
    /\ pending[id] # NoPayload
    /\ pending' = [pending EXCEPT ![id] = NoPayload]
    /\ lateEntries' = [lateEntries EXCEPT ![id] = pending[id]]
    /\ UNCHANGED <<clock, minted, disk, ready, mem, volatile, evictedBefore, toCompanion,
                   companionVars, toHost, dispatched>>

\* LATE_SETTLE_MS has passed, or MAX_LATE_ENTRIES pushed the entry out.
LateExpires(id) ==
    /\ lateEntries[id] # NoPayload
    /\ lateEntries' = [lateEntries EXCEPT ![id] = NoPayload]
    /\ UNCHANGED <<clock, minted, disk, ready, mem, volatile, evictedBefore, pending,
                   toCompanion, companionVars, toHost, dispatched>>

Completed(id, p, r) ==
    [state |-> "completed", print |-> Fingerprint(p),
     started |-> IF mem[id].state = "none" THEN clock ELSE mem[id].started,
     completed |-> clock, response |-> r]

\* Mutant: an unknown outcome is forgotten like one that never started.
Settle_ForgetsUnknown(id, how) ==
    LET p == IF pending[id] # NoPayload THEN pending[id] ELSE lateEntries[id]
        r == toHost[id]
    IN
    /\ r # "none" /\ ready
    /\ toHost' = [toHost EXCEPT ![id] = "none"]
    /\ pending' = [pending EXCEPT ![id] = NoPayload]
    /\ lateEntries' = IF pending[id] = NoPayload
                      THEN [lateEntries EXCEPT ![id] = NoPayload] ELSE lateEntries
    /\ IF p = NoPayload THEN UNCHANGED <<mem, disk, evictedBefore, volatile>>
       ELSE IF r \notin OkResponses
       THEN /\ Persist(Without(mem, {id}), {}, how)
            /\ volatile' = [volatile EXCEPT ![id] = NoPayload]
       ELSE /\ Persist([mem EXCEPT ![id] = Completed(id, p, r)], {}, how)
            /\ volatile' = [volatile EXCEPT ![id] = IF @ = NoPayload THEN p ELSE @]
    /\ UNCHANGED <<clock, minted, ready, toCompanion, companionVars, dispatched>>

\* settlePending: an answer in time or late.  One that says nothing was started makes
\* the journal forget the id, so that a retry runs for real; any other completes it.
Settle(id, how) ==
    LET p == IF pending[id] # NoPayload THEN pending[id] ELSE lateEntries[id]
        r == toHost[id]
    IN
    /\ r # "none" /\ ready
    /\ toHost' = [toHost EXCEPT ![id] = "none"]
    /\ pending' = [pending EXCEPT ![id] = NoPayload]
    /\ lateEntries' = IF pending[id] = NoPayload
                      THEN [lateEntries EXCEPT ![id] = NoPayload] ELSE lateEntries
    /\ IF p = NoPayload THEN UNCHANGED <<mem, disk, evictedBefore, volatile>>
       ELSE IF r = "not_started"
       THEN /\ Persist(Without(mem, {id}), {}, how)
            /\ volatile' = [volatile EXCEPT ![id] = NoPayload]
       ELSE /\ Persist([mem EXCEPT ![id] = Completed(id, p, r)], {}, how)
            /\ volatile' = [volatile EXCEPT ![id] = IF @ = NoPayload THEN p ELSE @]
    /\ UNCHANGED <<clock, minted, ready, toCompanion, companionVars, dispatched>>

\* Companion executions outlive the host; a binding never does (dropBinding).
Orphaned(e) == [id \in Ids |-> [e[id] EXCEPT !.live = FALSE]]

\* The host exits or is killed: nothing in memory or in the pipes survives.
HostExit ==
    /\ ready
    /\ ready' = FALSE
    /\ mem' = EmptyJournal /\ volatile' = NoPayloads /\ evictedBefore' = 0
    /\ pending' = NoPayloads /\ lateEntries' = NoPayloads /\ toCompanion' = NoPayloads
    /\ toHost' = [id \in Ids |-> "none"]
    /\ exec' = Orphaned(exec) /\ authorized' = FALSE
    /\ UNCHANGED <<clock, minted, disk, runs, dispatched>>

\* loadDurableMutations on the companion's hello to a new process.  A journal that does
\* not parse is moved aside and every id minted so far is refused, by this process.
HostStart ==
    /\ ~ready
    /\ ready' = TRUE
    /\ IF disk.readable
       THEN /\ mem' = disk.entries /\ evictedBefore' = disk.evicted
            /\ UNCHANGED disk
       ELSE /\ mem' = EmptyJournal /\ evictedBefore' = clock
            /\ disk' = [entries |-> EmptyJournal, evicted |-> 0, readable |-> TRUE]
    /\ UNCHANGED <<clock, minted, volatile, pending, lateEntries, toCompanion, companionVars,
                   toHost, dispatched>>

-----------------------------------------------------------------------------
(* The companion.                                                          *)

\* handleRequest: without a live binding of the audience the request is denied; a
\* request whose id is still being executed joins that execution, unless it differs.
Accept(id) ==
    LET joins == exec[id].phase # "idle"
        differs == joins /\ exec[id].payload # toCompanion[id]
    IN
    /\ toCompanion[id] # NoPayload
    /\ toCompanion' = [toCompanion EXCEPT ![id] = NoPayload]
    /\ toHost' = IF ~authorized \/ differs THEN [toHost EXCEPT ![id] = "not_started"]
                 ELSE toHost
    /\ exec' = IF ~authorized \/ joins THEN exec
               ELSE [exec EXCEPT ![id] = [phase |-> "queued", payload |-> toCompanion[id],
                                          live |-> TRUE]]
    /\ UNCHANGED <<clock, minted, disk, hostVars, authorized, runs, dispatched>>

\* postDelivery: the answer goes to whichever host is connected now.  Once authority has
\* changed, any ok answer to a mutation becomes a plain "completed".
Respond(id, r) ==
    /\ exec' = [exec EXCEPT ![id] = NoExec]
    /\ toHost' = IF ~ready THEN toHost
                 ELSE [toHost EXCEPT ![id] = IF r \in OkResponses /\ ~exec[id].live
                                             THEN "completed" ELSE r]
    /\ UNCHANGED <<clock, minted, disk, hostVars, toCompanion, authorized, runs, dispatched>>

\* The checks before anything is sent to the page fail: claim, ref, focus, document,
\* cancellation, or authority that changed while the mutation was queued.
Decline(id) ==
    /\ exec[id].phase = "queued"
    /\ Respond(id, "not_started")

\* The checks pass and the mutation is handed to the page or the browser.  Only act
\* looks again whether its binding is still the live one.
Dispatch(id) ==
    /\ exec[id].phase = "queued"
    /\ exec[id].payload \notin Operations => exec[id].live
    /\ exec' = [exec EXCEPT ![id].phase = "running"]
    /\ UNCHANGED <<clock, minted, disk, hostVars, toCompanion, toHost, authorized, runs,
                   dispatched>>

Apply(id) ==
    /\ exec[id].phase = "running" /\ runs[id] < MaxRuns
    /\ exec' = [exec EXCEPT ![id].phase = "applied"]
    /\ runs' = [runs EXCEPT ![id] = @ + 1]
    /\ UNCHANGED <<clock, minted, disk, hostVars, toCompanion, toHost, authorized, dispatched>>

\* The page refuses the action (act answers ok with a not_started result) or the
\* browser rejects the first call of an operation.
Refuse(id) ==
    /\ exec[id].phase = "running"
    /\ Respond(id, IF exec[id].payload \in Operations THEN "not_started" ELSE "refused")

Finish(id) ==
    /\ exec[id].phase = "applied"
    /\ Respond(id, "completed")

\* The page went away before it answered.
ReplyLost(id) ==
    /\ exec[id].phase \in {"running", "applied"}
    /\ exec[id].payload \notin Operations
    /\ Respond(id, "unknown")

\* A later call of a multi-step operation fails: only a group whose title or colour
\* could not be set reports what was applied, everything else throws.
LaterStepFails(id, r) ==
    /\ exec[id].phase = "applied"
    /\ exec[id].payload \in MultiStep
    /\ r \in {"partial", "not_started"}
    /\ Respond(id, r)

\* Revoke, expiry or a rebind; a new grant.
EndAuthority ==
    /\ authorized
    /\ authorized' = FALSE
    /\ exec' = Orphaned(exec)
    /\ UNCHANGED <<clock, minted, disk, hostVars, toCompanion, toHost, runs, dispatched>>

Grant ==
    /\ ready /\ ~authorized
    /\ authorized' = TRUE
    /\ UNCHANGED <<clock, minted, disk, hostVars, toCompanion, toHost, exec, runs, dispatched>>

\* Extension reload or browser exit: the executions are gone, and so is the host.
CompanionRestart ==
    /\ exec' = [id \in Ids |-> NoExec]
    /\ authorized' = FALSE
    /\ ready' = FALSE
    /\ mem' = EmptyJournal /\ volatile' = NoPayloads /\ evictedBefore' = 0
    /\ pending' = NoPayloads /\ lateEntries' = NoPayloads /\ toCompanion' = NoPayloads
    /\ toHost' = [id \in Ids |-> "none"]
    /\ UNCHANGED <<clock, minted, disk, runs, dispatched>>

-----------------------------------------------------------------------------
Corrupt ==
    /\ MayCorrupt /\ disk.readable
    /\ disk' = [disk EXCEPT !.readable = FALSE]
    /\ UNCHANGED <<clock, minted, hostVars, toCompanion, companionVars, toHost, dispatched>>

Tick ==
    /\ clock <= MaxClock
    /\ clock' = clock + 1
    /\ UNCHANGED <<minted, disk, hostVars, toCompanion, companionVars, toHost, dispatched>>

Init ==
    /\ clock = 1
    /\ minted = [id \in Ids |-> 0]
    /\ disk = [entries |-> EmptyJournal, evicted |-> 0, readable |-> TRUE]
    /\ ready = FALSE
    /\ mem = EmptyJournal /\ volatile = NoPayloads /\ evictedBefore = 0
    /\ pending = NoPayloads /\ lateEntries = NoPayloads /\ toCompanion = NoPayloads
    /\ exec = [id \in Ids |-> NoExec]
    /\ toHost = [id \in Ids |-> "none"]
    /\ authorized = FALSE
    /\ runs = [id \in Ids |-> 0]
    /\ dispatched = NoPayloads

Host(id) ==
    \/ Mint(id)
    \/ \E p \in Payloads, how \in PersistOutcomes, sent \in BOOLEAN : Forward(id, p, how, sent)
    \/ Timeout(id)
    \/ LateExpires(id)
    \/ \E how \in PersistOutcomes : Settle(id, how)

Execution(id) ==
    \/ Accept(id)
    \/ Decline(id)
    \/ Dispatch(id)
    \/ Apply(id)
    \/ Refuse(id)
    \/ Finish(id)
    \/ ReplyLost(id)
    \/ \E r \in {"partial", "not_started"} : LaterStepFails(id, r)

Next ==
    \/ \E id \in Ids : Host(id) \/ Execution(id)
    \/ HostExit
    \/ HostStart
    \/ EndAuthority
    \/ Grant
    \/ CompanionRestart
    \/ Corrupt
    \/ Tick

Spec == Init /\ [][Next]_vars

-----------------------------------------------------------------------------
(* Properties.                                                             *)

Recorded == Listed(disk.entries)
Retired  == {id \in Ids : minted[id] # 0 /\ Outside(id, disk.evicted)}

\* The journal, the host and the companion together run an id at most once and record
\* it before that, through exits, timeouts, late answers, retries and evictions.
Promise == INSTANCE AtMostOnce WITH recorded <- Recorded, retired <- Retired
RunsAtMostOnce == Promise!Spec

\* Nothing of an id reaches the companion, and nothing has run, unless its record is on
\* disk or the id is refused for good.
JournalAhead ==
    \A id \in Ids :
        toCompanion[id] # NoPayload \/ exec[id].phase # "idle" \/ runs[id] > 0
        => id \in Recorded \cup Retired

\* An answer from the journal is only ever given to a request with the durable parameters
\* of the one it answered; with all its parameters while the process that sent it runs;
\* and for typed input always, although typed input is never on disk.
ReplaysOwnRequest ==
    \A id \in Ids, p \in Payloads :
        ready /\ pending[id] = NoPayload /\ Lookup(id, p) = "replay" =>
            /\ Fingerprint(p) = Fingerprint(dispatched[id])
            /\ p \in Typed \/ volatile[id] # NoPayload => p = dispatched[id]

\* A completion on disk is final: it changes only by leaving the journal for good.
CompletionIsFinal ==
    [][\A id \in Ids :
         disk.entries[id].state = "completed" =>
            disk'.entries[id] = disk.entries[id] \/ id \in Retired']_vars

\* At most one execution of an id exists anywhere: on its way, running, or answered.
OneExecution ==
    \A id \in Ids :
        Cardinality({x \in {1, 2, 3} :
            \/ x = 1 /\ toCompanion[id] # NoPayload
            \/ x = 2 /\ exec[id].phase # "idle"
            \/ x = 3 /\ toHost[id] # "none"}) <= 1

\* docs/security-model.md:50, an outcome is not collapsed: what mutation_status calls
\* completed was applied, all of it.
CompletedMeansApplied ==
    \A id \in Ids :
        ready /\ MutationStatus(id) = "completed" =>
            runs[id] > 0 /\ mem[id].response # "partial"
=============================================================================
