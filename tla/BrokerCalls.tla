----------------------------- MODULE BrokerCalls -----------------------------
(***************************************************************************)
(* A call of the Firefox provider on its way to the companion and back:    *)
(* provider-v2.ts and client.ts in the consumer, the sockets, the native   *)
(* host's forwardRequest and settlePending, the native pipe, and the       *)
(* companion's handleRequest.  Anything on the way may be lost: the host   *)
(* exits with calls in flight and a new process takes its place, the host  *)
(* stalls or its deadline passes, the consumer aborts, access ends while a *)
(* request runs.  What the consumer is told must still be true.            *)
(*                                                                         *)
(* Time: a client waits 40 s and the host 35 s, so the client's deadline   *)
(* comes first only when the host did not read the request in time, and    *)
(* the host reads its sockets before a deadline of its own passes.         *)
(*                                                                         *)
(* A mutation is an act on a page or an operation on tabs and groups.  An  *)
(* act is guarded until it is sent to the page and knows afterwards what   *)
(* it does not know; an operation is not: access may end between its first *)
(* check and its effect, and what it does after its effect may throw, so   *)
(* that it is answered as not started.  What holds of acts is not claimed  *)
(* of operations.                                                          *)
(*                                                                         *)
(* Abstracted: what an operation does (it takes effect in one step; the    *)
(* modules of the operations have the rest) and what an answer carries;    *)
(* the age of journal entries, their eviction and failed writes of a       *)
(* settled one (MutationJournal); audiences and parameters that clash with *)
(* those of a known id; malformed and oversized frames; operations         *)
(* answered by the host itself (mutation_status); the companion's memory   *)
(* of answers, which is only asked when the host's journal has not         *)
(* answered (ActRequests).                                                 *)
(***************************************************************************)
EXTENDS Naturals, Sequences, FiniteSets

Ops  == {"status", "read", "control", "claim", "mutation"}

CONSTANTS
    Calls,        \* calls of the provider
    Ids,          \* request ids the consumer chooses for mutations
    Operations,   \* those of operations on tabs and groups; the others are acts
    Inputs,       \* those of acts that carry typed input
    OpsOf,        \* per call: what it may be a call of
    Abortable,    \* calls given a signal
    MaxAttempts,  \* READ_RETRY.attempts
    MaxPending,   \* MAX_PENDING_REQUESTS
    MaxSessions,  \* bound: host processes started
    MaxBindings,  \* bound: binding instances created
    MaxRuns       \* bound: times a request takes effect

ASSUME BrokerAssumption ==
    /\ OpsOf \in [Calls -> SUBSET Ops]
    /\ Calls \cap Ids = {} /\ Abortable \subseteq Calls
    /\ Operations \subseteq Ids /\ Inputs \subseteq Ids \ Operations
    /\ MaxAttempts \in Nat \ {0} /\ MaxPending \in Nat
    /\ MaxSessions \in Nat \ {0} /\ MaxBindings \in Nat \ {0} /\ MaxRuns \in Nat \ {0}

VARIABLES
    call,      \* the consumer's calls
    wire,      \* frames written to the host's sockets and not read
    host,      \* the host process: whether it runs, its session, whether hello came
    pending,   \* per request id: the waiters of the entry; no waiter, no entry
    late,      \* lateEntries
    journal,   \* durableMutations, which outlives the process
    volatile,  \* volatileMutationFingerprints, which does not, for typed input
    down,      \* the native pipe to the companion
    exec,      \* inFlightRequests, with the binding each was authorised under
    cancelled, \* cancelledRequests, as far as acts look at it
    binding,   \* the live binding: whether there is one, its instance
    runs,      \* history: how often the request took effect
    masked     \* history: refusals told as completed when access had changed

consumer  == <<call, wire>>
broker    == <<host, pending, late, journal, volatile>>
history   == <<runs, masked>>
companion == <<exec, cancelled, binding, history>>
vars      == <<consumer, broker, down, companion>>

-----------------------------------------------------------------------------
Names == Calls \cup Ids        \* a call that is not a mutation has an id of its own
Frames == [from : Calls, attempt : 0..MaxAttempts]   \* attempt 0 is cancel_request

\* Answers of the companion and of the host.  The results are answers with ok: a refusal of
\* the page and a partial outcome are results that say so.
Results == {"ok", "refused", "partial"}
Answers == Results \cup {"not_started", "unknown"}
\* What the provider returns; "failed" is an exception.
Outcomes == {"none", "completed", "failed", "not_started", "partially_applied", "outcome_unknown"}

CallRecords ==
    [op : Ops, name : Names, stage : {"idle", "connecting", "sent", "backoff", "ended"},
     session : Nat, attempt : Nat, aborted : BOOLEAN, outcome : Outcomes]

NewCall(c) ==
    [op |-> "status", name |-> c, stage |-> "idle", session |-> 0, attempt |-> 0,
     aborted |-> FALSE, outcome |-> "none"]

\* An act waits in its queue, is checked against its page, and is sent to it.
Execs == [stage : {"idle", "queued", "started", "sent", "applied"}, instance : Nat]
NoExec == [stage |-> "idle", instance |-> 0]

Messages == [type : {"request", "cancel"}, name : Names]

Acts       == Ids \ Operations
Durable(n) == n \in Ids
OpOf(n)    == IF Durable(n) THEN "mutation" ELSE call[n].op

TypeOK ==
    /\ call \in [Calls -> CallRecords]
    /\ wire \subseteq Frames
    /\ host \in [runs : BOOLEAN, session : Nat, hello : BOOLEAN]
    /\ pending \in [Names -> SUBSET Frames]
    /\ late \subseteq Ids
    /\ journal \in [Ids -> {"none", "started"} \cup Answers] /\ volatile \subseteq Inputs
    /\ down \in Seq(Messages)
    /\ exec \in [Names -> Execs]
    /\ cancelled \subseteq Acts
    /\ binding \in [live : BOOLEAN, instance : Nat]
    /\ runs \in [Names -> Nat] /\ masked \subseteq Acts

-----------------------------------------------------------------------------
(* The consumer.                                                           *)

Idempotent(op) == op \in {"status", "read", "control"}    \* sent with READ_RETRY

\* What the provider makes of an answer.
Told(op, answer) ==
    CASE answer = "ok"                         -> "completed"
      [] answer # "ok" /\ Idempotent(op)       -> "failed"
      [] answer = "partial" /\ op = "mutation" -> "partially_applied"
      [] answer = "unknown" /\ op = "mutation" -> "outcome_unknown"
      [] OTHER                                 -> "not_started"

\* What it makes of a transport error.
Lost(op, phase) ==
    CASE Idempotent(op)                                        -> "failed"
      [] op = "mutation" /\ phase = "dispatch_unknown"         -> "outcome_unknown"
      [] OTHER                                                 -> "not_started"

NameFor(c, op, n) == IF op = "mutation" THEN n \in Ids ELSE n = c

Running(c) == call[c].stage \in {"connecting", "sent", "backoff"}

EndedCall(c, outcome) ==
    [NewCall(c) EXCEPT !.op = call[c].op, !.name = call[c].name,
                       !.stage = "ended", !.outcome = outcome]

Ended(c, outcome) == call' = [call EXCEPT ![c] = EndedCall(c, outcome)]

\* The receipts of the runtime directory name a host: the one that runs or, when it was
\* killed, one that is gone.
Start(c, op, n) ==
    /\ call[c].stage = "idle" /\ host.session # 0
    /\ NameFor(c, op, n)
    /\ call' = [call EXCEPT ![c] = [NewCall(c) EXCEPT
                   !.op = op, !.name = n, !.stage = "connecting",
                   !.session = host.session, !.attempt = 1]]
    /\ UNCHANGED <<wire, broker, down, companion>>

\* No receipt, several, or one of another session than the caller's; a reference that is
\* not tracked; a signal that is aborted already.  Nothing is sent.
Refused(c, op, n) ==
    /\ call[c].stage = "idle"
    /\ NameFor(c, op, n)
    /\ call' = [call EXCEPT ![c] = [NewCall(c) EXCEPT
                   !.op = op, !.name = n, !.stage = "ended",
                   !.outcome = IF Idempotent(op) THEN "failed" ELSE "not_started"]]
    /\ UNCHANGED <<wire, broker, down, companion>>

Connected(c) == host.runs /\ call[c].session = host.session

\* exchange: from the connect event on, the request counts as dispatched.
Connect(c) ==
    /\ call[c].stage = "connecting" /\ Connected(c)
    /\ call' = [call EXCEPT ![c].stage = "sent"]
    /\ wire' = wire \cup {[from |-> c, attempt |-> call[c].attempt]}
    /\ UNCHANGED <<broker, down, companion>>

\* sendFirefoxBrokerRequest: a read is tried again with the same id.
AttemptFails(c, phase) ==
    IF Idempotent(call[c].op) /\ call[c].attempt < MaxAttempts
    THEN call' = [call EXCEPT ![c].stage = "backoff"]
    ELSE Ended(c, Lost(call[c].op, phase))

ConnectFails(c) ==
    /\ call[c].stage = "connecting" /\ ~Connected(c)
    /\ AttemptFails(c, "not_dispatched")
    /\ UNCHANGED <<wire, broker, down, companion>>

\* Mutant: a request counts as dispatched when its answer begins to arrive.
ConnectionLost_NotDispatched(c) ==
    /\ call[c].stage = "sent" /\ ~Connected(c)
    /\ AttemptFails(c, "not_dispatched")
    /\ UNCHANGED <<wire, broker, down, companion>>

\* The socket closes with the host.
ConnectionLost(c) ==
    /\ call[c].stage = "sent" /\ ~Connected(c)
    /\ AttemptFails(c, "dispatch_unknown")
    /\ UNCHANGED <<wire, broker, down, companion>>

\* The host has not read the request within the client's deadline.  It still may.
ClientTimesOut(c) ==
    /\ call[c].stage = "sent" /\ Connected(c)
    /\ [from |-> c, attempt |-> call[c].attempt] \in wire
    /\ AttemptFails(c, "dispatch_unknown")
    /\ UNCHANGED <<wire, broker, down, companion>>

TryAgain(c) ==
    /\ call[c].stage = "backoff"
    /\ IF call[c].aborted THEN Ended(c, "failed")
       ELSE call' = [call EXCEPT ![c].stage = "connecting", ![c].attempt = @ + 1]
    /\ UNCHANGED <<wire, broker, down, companion>>

\* onAbort: cancel_request goes out on a connection of its own; the call waits on.
Abort(c) ==
    /\ c \in Abortable /\ Running(c) /\ ~call[c].aborted
    /\ call' = [call EXCEPT ![c].aborted = TRUE]
    /\ wire' = IF Connected(c) THEN wire \cup {[from |-> c, attempt |-> 0]} ELSE wire
    /\ UNCHANGED <<broker, down, companion>>

-----------------------------------------------------------------------------
(* The host.                                                               *)

\* The waiters are given an answer; one whose client has gone is not heard.
AnswerAll(waiters, answer) ==
    call' = [c \in Calls |->
        IF /\ call[c].stage = "sent"
           /\ [from |-> c, attempt |-> call[c].attempt] \in waiters
        THEN EndedCall(c, Told(call[c].op, answer))
        ELSE call[c]]

InFlight == {n \in Names : pending[n] # {}}

\* handleClient reads a frame: forwardRequest up to its verdict.
Read(w) == w \in wire /\ wire' = wire \ {w}

HostCancels(w) ==
    LET n == call[w.from].name IN
    /\ w.attempt = 0 /\ Read(w)
    /\ down' = IF host.hello /\ pending[n] # {}
               THEN Append(down, [type |-> "cancel", name |-> n]) ELSE down
    /\ UNCHANGED <<call, broker, companion>>

\* COMPANION_NOT_READY, BROKER_BUSY, MUTATION_JOURNAL_UNAVAILABLE.
HostRefuses(w) ==
    LET n == call[w.from].name IN
    /\ w.attempt # 0 /\ Read(w)
    /\ \/ ~host.hello
       \/ pending[n] = {} /\ Cardinality(InFlight) >= MaxPending
       \/ pending[n] = {} /\ Durable(n) /\ journal[n] = "none"
    /\ AnswerAll({w}, "not_started")
    /\ UNCHANGED <<broker, down, companion>>

HostJoins(w) ==
    LET n == call[w.from].name IN
    /\ w.attempt # 0 /\ Read(w)
    /\ host.hello /\ pending[n] # {}
    /\ pending' = [pending EXCEPT ![n] = @ \cup {w}]
    /\ UNCHANGED <<call, host, late, journal, volatile, down, companion>>

\* Mutant: an id the journal holds counts as done.
HostReplays_AsDone(w) ==
    LET n == call[w.from].name IN
    /\ w.attempt # 0 /\ Read(w)
    /\ host.hello /\ pending[n] = {} /\ Cardinality(InFlight) < MaxPending
    /\ Durable(n) /\ journal[n] # "none"
    /\ AnswerAll({w}, "ok")
    /\ UNCHANGED <<broker, down, companion>>

\* durableMutationLookup: the recorded answer, or that the outcome is unknown: nothing is
\* recorded, or the id is of typed input that another process took in.
Recalled(n) ==
    IF journal[n] = "started" \/ (n \in Inputs /\ n \notin volatile) THEN "unknown" ELSE journal[n]
HostReplays(w) ==
    LET n == call[w.from].name IN
    /\ w.attempt # 0 /\ Read(w)
    /\ host.hello /\ pending[n] = {} /\ Cardinality(InFlight) < MaxPending
    /\ Durable(n) /\ journal[n] # "none"
    /\ AnswerAll({w}, Recalled(n))
    /\ UNCHANGED <<broker, down, companion>>

Recorded(n, state) == IF Durable(n) THEN [journal EXCEPT ![n] = state] ELSE journal

Forwardable(n) ==
    /\ host.hello /\ pending[n] = {} /\ Cardinality(InFlight) < MaxPending
    /\ Durable(n) => journal[n] = "none"

\* Record first, then write to the native pipe, which may fail.
HostForwards(w, written) ==
    LET n == call[w.from].name IN
    /\ w.attempt # 0 /\ Read(w) /\ Forwardable(n)
    /\ journal' = Recorded(n, "started")
    /\ volatile' = volatile \cup ({n} \cap Inputs)
    /\ IF written
       THEN /\ pending' = [pending EXCEPT ![n] = {w}]
            /\ down' = Append(down, [type |-> "request", name |-> n])
            /\ UNCHANGED call
       ELSE /\ AnswerAll({w}, IF Durable(n) THEN "unknown" ELSE "not_started")
            /\ UNCHANGED <<pending, down>>
    /\ UNCHANGED <<host, late, companion>>

\* Mutant: only a mutation is taken out of the map at its deadline.
HostTimesOut_KeepsReads(n) ==
    /\ pending[n] # {} /\ wire = {}
    /\ AnswerAll(pending[n], "unknown")
    /\ pending' = IF Durable(n) THEN [pending EXCEPT ![n] = {}] ELSE pending
    /\ late' = IF Durable(n) THEN late \cup {n} ELSE late
    /\ UNCHANGED <<wire, host, journal, volatile, down, companion>>

\* Mutant: a late answer to a read is waited for too.
HostTimesOut_LateReads(n) ==
    /\ pending[n] # {} /\ wire = {}
    /\ AnswerAll(pending[n], "unknown")
    /\ pending' = [pending EXCEPT ![n] = {}]
    /\ late' = late \cup {n}
    /\ UNCHANGED <<wire, host, journal, volatile, down, companion>>

\* REQUEST_TIMEOUT_MS after it was forwarded.
HostTimesOut(n) ==
    /\ pending[n] # {} /\ wire = {}
    /\ AnswerAll(pending[n], "unknown")
    /\ pending' = [pending EXCEPT ![n] = {}]
    /\ late' = IF Durable(n) THEN late \cup {n} ELSE late
    /\ UNCHANGED <<wire, host, journal, volatile, down, companion>>

LateExpires(n) ==
    /\ n \in late
    /\ late' = late \ {n}
    /\ UNCHANGED <<consumer, host, pending, journal, volatile, down, companion>>

\* cleanupAndExit, or a kill.  The answers that cleanupAndExit gives its waiters are written
\* after process.exit, that is never: the connections just close.
HostExits ==
    /\ host.runs
    /\ host' = [host EXCEPT !.runs = FALSE, !.hello = FALSE]
    /\ pending' = [n \in Names |-> {}] /\ late' = {} /\ volatile' = {}
    /\ wire' = {} /\ down' = <<>>
    /\ binding' = [binding EXCEPT !.live = FALSE]
    /\ UNCHANGED <<call, journal, exec, cancelled, history>>

\* connectNative: a new process with a session and a socket of its own.
HostStarts ==
    /\ ~host.runs /\ host.session < MaxSessions
    /\ host' = [runs |-> TRUE, session |-> host.session + 1, hello |-> FALSE]
    /\ UNCHANGED <<consumer, pending, late, journal, volatile, down, companion>>

\* announceIdentity; the host loads the journal of the profile.
Hello ==
    /\ host.runs /\ ~host.hello
    /\ host' = [host EXCEPT !.hello = TRUE]
    /\ UNCHANGED <<consumer, pending, late, journal, volatile, down, companion>>

-----------------------------------------------------------------------------
(* The companion.                                                          *)

\* respond, to the host that is connected now, and its settlePending: to the waiters, or
\* into the journal only when they have gone.  An answer without ok that says not started
\* is forgotten with its id; a result that says so is recorded like any other.  Whatever
\* happens while the answer is in the pipe may as well happen before it is sent.
Respond(n, answer) ==
    IF ~host.runs THEN UNCHANGED <<call, pending, late, journal, volatile>>
    ELSE LET settles == pending[n] # {} \/ n \in late
             forgets == settles /\ answer = "not_started"
         IN
         /\ AnswerAll(pending[n], answer)
         /\ pending' = [pending EXCEPT ![n] = {}]
         /\ late' = IF pending[n] = {} THEN late \ {n} ELSE late
         /\ journal' = IF settles THEN Recorded(n, IF forgets THEN "none" ELSE answer) ELSE journal
         /\ volatile' = IF forgets THEN volatile \ {n} ELSE volatile

LineageCurrent(n) == binding.live /\ binding.instance = exec[n].instance

\* handleRequest: status is answered at once, and so is a control operation, which takes
\* effect before; without a binding everything else is denied.
Taken(type) == down # <<>> /\ Head(down).type = type /\ down' = Tail(down)

CompanionAnswers(applies) ==
    /\ Taken("request")
    /\ LET n == Head(down).name IN
       /\ OpOf(n) \in {"status", "control"} \/ ~binding.live
       /\ applies => OpOf(n) = "control" /\ binding.live /\ runs[n] < MaxRuns
       /\ runs' = IF applies THEN [runs EXCEPT ![n] = @ + 1] ELSE runs
       /\ Respond(n, IF applies \/ OpOf(n) = "status" THEN "ok" ELSE "not_started")
    /\ UNCHANGED <<wire, host, exec, cancelled, binding, masked>>

CompanionBegins ==
    /\ Taken("request") /\ binding.live
    /\ LET n == Head(down).name IN
       /\ OpOf(n) \notin {"status", "control"} /\ exec[n].stage = "idle"
       /\ exec' = [exec EXCEPT ![n] = [stage |-> "queued", instance |-> binding.instance]]
    /\ UNCHANGED <<consumer, broker, cancelled, binding, history>>

CompanionCancels ==
    /\ Taken("cancel")
    /\ cancelled' = cancelled \cup ({Head(down).name} \cap Acts)
    /\ UNCHANGED <<consumer, broker, exec, binding, history>>

\* queueMutation runs an act after those before it for its page; cancelledRequests and the
\* lineage are looked at when its turn has come.
ActStarts(n) ==
    /\ n \in Acts /\ exec[n].stage = "queued"
    /\ LineageCurrent(n) /\ n \notin cancelled
    /\ exec' = [exec EXCEPT ![n].stage = "started"]
    /\ UNCHANGED <<consumer, broker, down, cancelled, binding, history>>

\* The lineage is proved once more right before the message to the page.
ActSent(n) ==
    /\ exec[n].stage = "started" /\ LineageCurrent(n)
    /\ exec' = [exec EXCEPT ![n].stage = "sent"]
    /\ UNCHANGED <<consumer, broker, down, cancelled, binding, history>>

\* The page does what an act asks; an operation takes effect, or a page is read.  From its
\* message, or its first check, on nothing keeps it from that, neither a cancellation nor
\* the end of access; a claim alone asks for a binding of now.
Applies(n) ==
    /\ exec[n].stage = (IF n \in Acts THEN "sent" ELSE "queued") /\ runs[n] < MaxRuns
    /\ OpOf(n) = "claim" => binding.live
    /\ exec' = [exec EXCEPT ![n].stage = "applied"]
    /\ runs' = [runs EXCEPT ![n] = @ + 1]
    /\ UNCHANGED <<consumer, broker, down, cancelled, binding, masked>>

\* postDelivery, deliverableAfterAuthorityLoss: after access has changed a read is withheld,
\* a mutation that failed is told, and one that was answered with a result, whatever the
\* result says, is told as completed.
Delivered(n, answer) ==
    CASE LineageCurrent(n)                 -> answer
      [] ~LineageCurrent(n) /\ Durable(n)  -> IF answer \in Results THEN "ok" ELSE answer
      [] OTHER                             -> "not_started"

Replied(n, answer) ==
    /\ exec' = [exec EXCEPT ![n] = NoExec]
    /\ cancelled' = cancelled \ {n}
    /\ masked' = IF answer = "refused" /\ ~LineageCurrent(n) THEN masked \cup {n} ELSE masked
    /\ Respond(n, Delivered(n, answer))
    /\ UNCHANGED <<wire, host, down, binding, runs>>

\* It fails before it takes effect: cancelled, access lost, or for any other reason.
Rejects(n) ==
    /\ exec[n].stage \in {"queued", "started"}
    /\ Replied(n, "not_started")

\* An act that was sent: the page refuses it, or does not answer and has gone.
PageRejects(n, answer) ==
    /\ n \in Acts /\ exec[n].stage = "sent"
    /\ answer \in {"refused", "unknown"}
    /\ Replied(n, answer)

\* After the effect: the answer of a page may be lost; an operation may have done a part,
\* or throw in what it does next, such as to register the tab it opened with a binding
\* that has ended, and an error without an outcome is answered as not started.
Answered(n, answer) ==
    /\ exec[n].stage = "applied"
    /\ \/ answer = "ok"
       \/ answer = "unknown" /\ n \in Acts
       \/ answer \in {"partial", "not_started"} /\ n \in Operations
    /\ Replied(n, answer)

\* The user gives access, again or anew, or changes it.
UserBinds ==
    /\ host.runs /\ host.hello /\ binding.instance < MaxBindings
    /\ binding' = [live |-> TRUE, instance |-> binding.instance + 1]
    /\ UNCHANGED <<consumer, broker, down, exec, cancelled, history>>

BindingEnds ==
    /\ binding.live
    /\ binding' = [binding EXCEPT !.live = FALSE]
    /\ UNCHANGED <<consumer, broker, down, exec, cancelled, history>>

-----------------------------------------------------------------------------
Init ==
    /\ call = [c \in Calls |-> NewCall(c)]
    /\ wire = {}
    /\ host = [runs |-> FALSE, session |-> 0, hello |-> FALSE]
    /\ pending = [n \in Names |-> {}] /\ late = {}
    /\ journal = [i \in Ids |-> "none"] /\ volatile = {}
    /\ down = <<>>
    /\ exec = [n \in Names |-> NoExec]
    /\ cancelled = {}
    /\ binding = [live |-> FALSE, instance |-> 0]
    /\ runs = [n \in Names |-> 0] /\ masked = {}

Consumer ==
    \E c \in Calls :
        \/ \E op \in OpsOf[c], n \in Names : Start(c, op, n) \/ Refused(c, op, n)
        \/ Connect(c) \/ ConnectFails(c) \/ ConnectionLost(c) \/ ClientTimesOut(c)
        \/ TryAgain(c) \/ Abort(c)

Host ==
    \/ \E w \in Frames :
        \/ HostCancels(w) \/ HostRefuses(w) \/ HostJoins(w) \/ HostReplays(w)
        \/ \E written \in BOOLEAN : HostForwards(w, written)
    \/ \E n \in Names : HostTimesOut(n) \/ LateExpires(n)
    \/ HostExits \/ HostStarts \/ Hello

Extension ==
    \/ \E applies \in BOOLEAN : CompanionAnswers(applies)
    \/ CompanionBegins \/ CompanionCancels
    \/ \E n \in Names :
        \/ ActStarts(n) \/ ActSent(n) \/ Applies(n) \/ Rejects(n)
        \/ \E answer \in Answers : PageRejects(n, answer) \/ Answered(n, answer)
    \/ UserBinds \/ BindingEnds

Next == Consumer \/ Host \/ Extension

\* The host handles what arrives at its sockets, and its timers fire.
Fairness ==
    /\ WF_vars(\E w \in Frames :
           \/ HostCancels(w) \/ HostRefuses(w) \/ HostJoins(w) \/ HostReplays(w)
           \/ \E written \in BOOLEAN : HostForwards(w, written))
    /\ \A n \in Names : WF_vars(HostTimesOut(n))

Spec == Init /\ [][Next]_vars /\ Fairness

-----------------------------------------------------------------------------
(* Properties.                                                             *)

Sole(c) == \A d \in Calls \ {c} : call[d].name # call[c].name

\* An act that is reported as not started has not taken effect and never will, through
\* lost connections, timeouts, cancellations, refusals of the page, restarts and the end of
\* access; its id must be its own (a retry refused on the way says nothing of the first
\* attempt).  Not so an operation: what fails after its effect is answered likewise.
NotStartedIsTrue ==
    \A c \in Calls :
        /\ call[c].op = "mutation" /\ call[c].outcome = "not_started"
        /\ call[c].name \notin Operations /\ Sole(c)
        => runs[call[c].name] = 0

\* What is reported as completed has been done, replays of the journal after restarts and
\* answers given after access has changed included: a mutation, a claim, a control
\* operation; but for an act that its page refused when access had changed.
CompletedIsTrue ==
    \A c \in Calls :
        call[c].outcome = "completed" /\ call[c].op # "status"
            => runs[call[c].name] > 0 \/ call[c].name \in masked

\* Retries, joins, replays, aborts, late answers, new host processes and the end of access
\* together never run an act twice, however many calls use its id: the journal of the
\* host keeps the promise although the companion forgets (forwardRequest, settlePending).
Noted   == {i \in Acts : journal[i] # "none"}
Effects == [i \in Acts |-> runs[i]]
Promise == INSTANCE AtMostOnce WITH Ids <- Acts, recorded <- Noted, retired <- {}, runs <- Effects
RunsAtMostOnce == Promise!Spec

\* The host never stays full: no entry outlives its deadline, so BROKER_BUSY passes.
HostFreesUp == [](Cardinality(InFlight) >= MaxPending => <>(Cardinality(InFlight) < MaxPending))

=============================================================================
