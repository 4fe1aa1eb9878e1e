-------------------------- MODULE BrokerCalls_proofs --------------------------
(***************************************************************************)
(* Theorems about BrokerCalls, for any number of calls, request ids, host  *)
(* processes, bindings and attempts: the reports "completed" and "not      *)
(* started" of the provider are true, whatever is lost on the way, and the *)
(* whole way implements AtMostOnce, for calls that share ids too.          *)
(***************************************************************************)
EXTENDS BrokerCalls, SequenceTheorems, TLAPS

-----------------------------------------------------------------------------
(* The inductive invariant.                                                *)

\* Only a mutation has an id of its own, only an idempotent call is tried again, and an
\* outcome is given once.
CallOK(c) ==
    /\ IF call[c].op = "mutation" THEN call[c].name \in Ids ELSE call[c].name = c
    /\ call[c].stage = "idle" => call[c].op = "status"
    /\ Running(c) => call[c].attempt \in 1..MaxAttempts
    /\ call[c].stage = "backoff" => call[c].attempt < MaxAttempts
    /\ Running(c) /\ call[c].op = "mutation" => call[c].attempt = 1 /\ call[c].stage # "backoff"
    /\ call[c].stage # "ended" => call[c].outcome = "none"

CallsOK == \A c \in Calls : CallOK(c)

\* Frames come from calls that were started, a mutation writes one, and the waiters of an
\* entry asked for it.
FramesOK ==
    /\ \A w \in wire : /\ call[w.from].stage # "idle"
                       /\ call[w.from].op = "mutation" /\ w.attempt # 0 => w.attempt = 1
    /\ \A n \in Names : \A w \in pending[n] : call[w.from].stage # "idle" /\ call[w.from].name = n

\* What the journal and the companion take for done is done, or was refused by its page
\* when access had changed.
Done(n) == runs[n] > 0 \/ n \in masked

DoneOK ==
    /\ \A i \in Ids : journal[i] # "not_started" /\ (journal[i] = "ok" => Done(i))
    /\ \A n \in Names : exec[n].stage = "applied" => runs[n] > 0

\* The way of an act whose id only one call uses.  Its one request is nowhere, or in one
\* of three places: on the wire, in the native pipe, running.
OneUser(i) == \A c, d \in Calls : call[c].name = i /\ call[d].name = i => c = d
Request(n) == [type |-> "request", name |-> n]
OnWire(i)  == \E w \in wire : w.attempt # 0 /\ call[w.from].name = i
Queued(i)  == \E k \in 1..Len(down) : down[k] = Request(i)
Single(i)  == \A j, k \in 1..Len(down) : down[j] = Request(i) /\ down[k] = Request(i) => j = k
Idle(i)    == exec[i].stage = "idle" /\ runs[i] = 0
Under(i)   == exec[i].stage \in {"queued", "started", "sent"}
Nothing(i) == ~OnWire(i) /\ ~Queued(i) /\ Idle(i)

PathOK(i) ==
    /\ (\A c \in Calls : call[c].name # i) => Nothing(i)
    /\ \A c \in Calls :
         /\ call[c].name = i
         /\ call[c].stage = "connecting" \/ call[c].outcome = "not_started"
         => Nothing(i)
    /\ OnWire(i) => ~Queued(i) /\ Idle(i)
    /\ Queued(i) => Idle(i)
    /\ Single(i)
    /\ Under(i) => ~OnWire(i) /\ ~Queued(i) /\ runs[i] = 0

PathsOK == \A i \in Acts : OneUser(i) => PathOK(i)

IndInv == TypeOK /\ CallsOK /\ FramesOK /\ DoneOK /\ CompletedIsTrue /\ PathsOK

-----------------------------------------------------------------------------
(* How the calls change.                                                   *)

\* The answers that say a mutation was not done.
NotDone == {"not_started", "refused"}

\* The call is given the answer, or it is not heard.
Hears(d, waiters, answer) ==
    \/ call'[d] = call[d]
    \/ /\ call[d].stage = "sent" /\ [from |-> d, attempt |-> call[d].attempt] \in waiters
       /\ call'[d].op = call[d].op /\ call'[d].name = call[d].name
       /\ call'[d].stage = "ended" /\ call'[d].outcome = Told(call[d].op, answer)

Keeps(d) ==
    /\ call'[d].op = call[d].op /\ call'[d].name = call[d].name
    /\ call[d].stage # "idle" => call'[d].stage # "idle"

\* A call that was not started takes a name.
Takes(c) ==
    /\ call[c].stage = "idle" /\ call'[c].stage \in {"connecting", "ended"}
    /\ call'[c].outcome # "completed"
    /\ \A d \in Calls \ {c} : call'[d] = call[d]

LEMMA ToldIsOutcome ==
    ASSUME NEW op \in Ops, NEW answer \in Answers
    PROVE  /\ Told(op, answer) \in Outcomes
           /\ op = "mutation" /\ Told(op, answer) = "not_started" => answer \in NotDone
           /\ Told(op, answer) = "completed" => answer = "ok"
BY DEF Told, Outcomes, Answers, Results, NotDone, Ops, Idempotent

LEMMA LostIsOutcome ==
    ASSUME NEW op \in Ops, NEW phase \in {"not_dispatched", "dispatch_unknown"}
    PROVE  /\ Lost(op, phase) \in Outcomes \ {"completed"}
           /\ op = "mutation" /\ Lost(op, phase) = "not_started" => phase = "not_dispatched"
BY DEF Lost, Outcomes, Ops, Idempotent

LEMMA NewCallTyped == \A c \in Calls : NewCall(c) \in CallRecords
BY DEF NewCall, CallRecords, Ops, Names, Outcomes

LEMMA EndedTyped ==
    ASSUME TypeOK, NEW c \in Calls, NEW o \in Outcomes
    PROVE  /\ EndedCall(c, o) \in CallRecords
           /\ EndedCall(c, o).op = call[c].op /\ EndedCall(c, o).name = call[c].name
           /\ EndedCall(c, o).stage = "ended" /\ EndedCall(c, o).outcome = o
BY DEF TypeOK, EndedCall, NewCall, CallRecords, Ops, Names, Outcomes

LEMMA OneCall ==
    ASSUME TypeOK, NEW c \in Calls, NEW r \in CallRecords, call' = [call EXCEPT ![c] = r]
    PROVE  /\ call' \in [Calls -> CallRecords]
           /\ call'[c] = r /\ \A d \in Calls \ {c} : call'[d] = call[d]
BY DEF TypeOK

LEMMA Heard ==
    ASSUME TypeOK, NEW W, NEW a \in Answers, AnswerAll(W, a)
    PROVE  call' \in [Calls -> CallRecords] /\ \A d \in Calls : Hears(d, W, a) /\ Keeps(d)
<1> DEFINE r(d) == EndedCall(d, Told(call[d].op, a))
           f == [d \in Calls |->
                   IF call[d].stage = "sent" /\ [from |-> d, attempt |-> call[d].attempt] \in W
                   THEN r(d) ELSE call[d]]
<1>1. call' = f
  BY DEF AnswerAll
<1>2. ASSUME NEW d \in Calls
      PROVE  /\ r(d) \in CallRecords /\ r(d).op = call[d].op /\ r(d).name = call[d].name
             /\ r(d).stage = "ended" /\ r(d).outcome = Told(call[d].op, a)
  <2>1. call[d].op \in Ops
    BY DEF TypeOK, CallRecords
  <2> QED
    BY <2>1, ToldIsOutcome, EndedTyped
<1> HIDE DEF r
<1>3. \A d \in Calls : call[d] \in CallRecords
  BY DEF TypeOK
<1>4. f \in [Calls -> CallRecords]
  BY <1>2, <1>3
<1>5. ASSUME NEW d \in Calls
      PROVE  f[d] = IF call[d].stage = "sent" /\ [from |-> d, attempt |-> call[d].attempt] \in W
                    THEN r(d) ELSE call[d]
  OBVIOUS
<1> HIDE DEF f
<1>6. \A d \in Calls : Hears(d, W, a)
  BY <1>1, <1>2, <1>5 DEF Hears
<1> QED
  BY <1>1, <1>4, <1>6 DEF Hears, Keeps

LEMMA HeardCallsOK ==
    ASSUME TypeOK, CallsOK, NEW W, NEW a, call' \in [Calls -> CallRecords],
           \A d \in Calls : Hears(d, W, a)
    PROVE  CallsOK'
<1> SUFFICES ASSUME NEW d \in Calls PROVE CallOK(d)'
  BY DEF CallsOK
<1>1. Hears(d, W, a) /\ CallOK(d)
  BY DEF CallsOK
<1>2. CASE call'[d] = call[d]
  BY <1>1, <1>2 DEF CallOK, Running
<1>3. CASE call'[d] # call[d]
  BY <1>1, <1>3 DEF Hears, CallOK, Running
<1> QED
  BY <1>2, <1>3

LEMMA Responded ==
    ASSUME TypeOK, NEW n \in Names, NEW a \in Answers, Respond(n, a)
    PROVE  /\ call' \in [Calls -> CallRecords]
           /\ \A d \in Calls : Hears(d, pending[n], a) /\ Keeps(d)
           /\ pending' \in [Names -> SUBSET Frames]
           /\ \A m \in Names : pending'[m] \subseteq pending[m]
           /\ late' \subseteq Ids
           /\ journal' \in [Ids -> {"none", "started"} \cup Answers] /\ volatile' \subseteq Inputs
           /\ \A i \in Ids : \/ journal'[i] = journal[i]
                             \/ i = n /\ journal'[i] = IF a = "not_started" THEN "none" ELSE a
<1>1. CASE ~host.runs
  BY <1>1 DEF Respond, TypeOK, Hears, Keeps
<1>2. CASE host.runs
  <2>1. AnswerAll(pending[n], a)
    BY <1>2 DEF Respond
  <2>2. /\ call' \in [Calls -> CallRecords]
        /\ \A d \in Calls : Hears(d, pending[n], a) /\ Keeps(d)
    BY <2>1, Heard
  <2>3. /\ pending' = [pending EXCEPT ![n] = {}]
        /\ late' = IF pending[n] = {} THEN late \ {n} ELSE late
        /\ journal' = IF pending[n] # {} \/ n \in late
                      THEN Recorded(n, IF a = "not_started" THEN "none" ELSE a) ELSE journal
        /\ volatile' \subseteq volatile
    BY <1>2 DEF Respond
  <2>4. /\ pending' \in [Names -> SUBSET Frames]
        /\ \A m \in Names : pending'[m] \subseteq pending[m]
        /\ late' \subseteq Ids /\ volatile' \subseteq Inputs
    BY <2>3 DEF TypeOK
  <2> DEFINE s == IF a = "not_started" THEN "none" ELSE a
  <2>5. s \in {"none", "started"} \cup Answers
    OBVIOUS
  <2>6. /\ journal' \in [Ids -> {"none", "started"} \cup Answers]
        /\ \A i \in Ids : \/ journal'[i] = journal[i]
                          \/ i = n /\ journal'[i] = s
    <3> HIDE DEF s
    <3>1. journal \in [Ids -> {"none", "started"} \cup Answers]
      BY DEF TypeOK
    <3>2. journal' = journal \/ (n \in Ids /\ journal' = [journal EXCEPT ![n] = s])
      BY <2>3 DEF Recorded, Durable, s
    <3> QED
      BY <3>1, <3>2, <2>5
  <2> QED
    BY <2>2, <2>4, <2>6
<1> QED
  BY <1>1, <1>2

LEMMA AttemptFailed ==
    ASSUME TypeOK, CallsOK, NEW c \in Calls, NEW phase \in {"not_dispatched", "dispatch_unknown"},
           Running(c), call[c].stage # "backoff", AttemptFails(c, phase)
    PROVE  /\ call' \in [Calls -> CallRecords] /\ CallsOK'
           /\ \A d \in Calls : Keeps(d) /\ (d # c => call'[d] = call[d])
           /\ call'[c].stage \in {"backoff", "ended"} /\ call'[c].outcome # "completed"
           /\ call[c].op = "mutation" /\ call'[c].outcome = "not_started" => phase = "not_dispatched"
<1>0. call[c] \in CallRecords /\ CallOK(c)
  BY DEF TypeOK, CallsOK
<1>1. CASE Idempotent(call[c].op) /\ call[c].attempt < MaxAttempts
  <2> DEFINE r == [call[c] EXCEPT !.stage = "backoff"]
  <2>1. r \in CallRecords
    BY <1>0 DEF CallRecords
  <2>2. call' = [call EXCEPT ![c] = r]
    BY <1>1 DEF AttemptFails, TypeOK
  <2>3. /\ call' \in [Calls -> CallRecords]
        /\ call'[c] = r /\ \A d \in Calls \ {c} : call'[d] = call[d]
    BY <2>1, <2>2, OneCall
  <2>4. r.stage = "backoff" /\ r.op = call[c].op /\ r.name = call[c].name
        /\ r.attempt = call[c].attempt /\ r.outcome = "none"
    BY <1>0 DEF CallRecords, CallOK, Running
  <2>5. CallOK(c)'
    BY <2>3, <2>4, <1>0, <1>1 DEF CallOK, Running, Idempotent
  <2>6. \A d \in Calls \ {c} : CallOK(d)'
    BY <2>3 DEF CallsOK, CallOK, Running
  <2> QED
    BY <2>3, <2>4, <2>5, <2>6, <1>1 DEF CallsOK, Keeps, Idempotent
<1>2. CASE ~(Idempotent(call[c].op) /\ call[c].attempt < MaxAttempts)
  <2> DEFINE o == Lost(call[c].op, phase)  r == EndedCall(c, o)
  <2>1. o \in Outcomes \ {"completed"} /\ (call[c].op = "mutation" /\ o = "not_started" => phase = "not_dispatched")
    BY <1>0, LostIsOutcome DEF CallRecords
  <2>2. call' = [call EXCEPT ![c] = r]
    BY <1>2 DEF AttemptFails, Ended
  <2> HIDE DEF o
  <2>3. /\ r \in CallRecords /\ r.op = call[c].op /\ r.name = call[c].name
        /\ r.stage = "ended" /\ r.outcome = o
    BY <2>1, EndedTyped
  <2> HIDE DEF r
  <2>4. /\ call' \in [Calls -> CallRecords]
        /\ call'[c] = r /\ \A d \in Calls \ {c} : call'[d] = call[d]
    BY <2>2, <2>3, OneCall
  <2>5. CallOK(c)'
    BY <2>3, <2>4, <1>0 DEF CallOK, Running
  <2>6. \A d \in Calls \ {c} : CallOK(d)'
    BY <2>4 DEF CallsOK, CallOK, Running
  <2> QED
    BY <2>1, <2>3, <2>4, <2>5, <2>6 DEF CallsOK, Keeps
<1> QED
  BY <1>1, <1>2

-----------------------------------------------------------------------------
(* The consumer's steps.                                                   *)

\* What every step of a call keeps.
Moved == /\ call' \in [Calls -> CallRecords] /\ CallsOK'
         /\ \A d \in Calls : Keeps(d)

LEMMA TakesName ==
    ASSUME TypeOK, CallsOK, NEW c \in Calls, NEW op \in Ops, NEW n \in Names, NameFor(c, op, n),
           NEW r \in CallRecords, call[c].stage = "idle", call' = [call EXCEPT ![c] = r],
           r.op = op, r.name = n, r.outcome # "completed",
           \/ r.stage = "connecting" /\ r.attempt = 1 /\ r.outcome = "none"
           \/ r.stage = "ended"
    PROVE  /\ call' \in [Calls -> CallRecords] /\ CallsOK'
           /\ Takes(c) /\ call'[c] = r
<1>1. /\ call' \in [Calls -> CallRecords]
      /\ call'[c] = r /\ \A d \in Calls \ {c} : call'[d] = call[d]
  BY OneCall
<1>2. CallOK(c)'
  BY <1>1, BrokerAssumption DEF CallOK, Running, NameFor
<1>3. \A d \in Calls \ {c} : CallOK(d)'
  BY <1>1 DEF CallsOK, CallOK, Running
<1> QED
  BY <1>1, <1>2, <1>3 DEF CallsOK, Takes

LEMMA NewCallFields ==
    \A c : /\ NewCall(c).stage = "idle" /\ NewCall(c).outcome = "none"
           /\ NewCall(c).op = "status" /\ NewCall(c).name = c
BY DEF NewCall

LEMMA DoesStart ==
    ASSUME TypeOK, CallsOK, NEW c \in Calls, NEW op \in Ops, NEW n \in Names, Start(c, op, n)
    PROVE  /\ call' \in [Calls -> CallRecords] /\ CallsOK' /\ Takes(c)
           /\ call'[c].name = n
<1> DEFINE r == [NewCall(c) EXCEPT !.op = op, !.name = n, !.stage = "connecting",
                                   !.session = host.session, !.attempt = 1]
<1>1. call' = [call EXCEPT ![c] = r] /\ NameFor(c, op, n) /\ call[c].stage = "idle"
  BY DEF Start
<1>2. host.session \in Nat
  BY DEF TypeOK
<1>3. /\ r \in CallRecords /\ r.op = op /\ r.name = n
      /\ r.stage = "connecting" /\ r.attempt = 1 /\ r.outcome = "none"
  BY <1>2 DEF NewCall, CallRecords, Outcomes
<1> HIDE DEF r
<1> QED
  BY <1>1, <1>3, TakesName

LEMMA DoesRefused ==
    ASSUME TypeOK, CallsOK, NEW c \in Calls, NEW op \in Ops, NEW n \in Names, Refused(c, op, n)
    PROVE  /\ call' \in [Calls -> CallRecords] /\ CallsOK' /\ Takes(c)
           /\ call'[c].name = n
<1> DEFINE o == IF Idempotent(op) THEN "failed" ELSE "not_started"
           r == [NewCall(c) EXCEPT !.op = op, !.name = n, !.stage = "ended", !.outcome = o]
<1>1. call' = [call EXCEPT ![c] = r] /\ NameFor(c, op, n) /\ call[c].stage = "idle"
  BY DEF Refused
<1>2. o \in Outcomes \ {"completed"}
  BY DEF Outcomes
<1> HIDE DEF o
<1>3. /\ r \in CallRecords /\ r.op = op /\ r.name = n
      /\ r.stage = "ended" /\ r.outcome # "completed"
  BY <1>2 DEF NewCall, CallRecords, Outcomes
<1> HIDE DEF r
<1> QED
  BY <1>1, <1>3, TakesName

LEMMA DoesConnect ==
    ASSUME TypeOK, CallsOK, NEW c \in Calls, Connect(c)
    PROVE  /\ Moved /\ call'[c].stage = "sent" /\ call'[c].outcome = call[c].outcome
           /\ call'[c].attempt = call[c].attempt
           /\ \A d \in Calls \ {c} : call'[d] = call[d]
<1> DEFINE r == [call[c] EXCEPT !.stage = "sent"]
<1>0. call[c] \in CallRecords /\ CallOK(c)
  BY DEF TypeOK, CallsOK
<1>1. call' = [call EXCEPT ![c] = r] /\ call[c].stage = "connecting"
  BY DEF Connect, TypeOK
<1>2. /\ r \in CallRecords /\ r.op = call[c].op /\ r.name = call[c].name /\ r.stage = "sent"
      /\ r.attempt = call[c].attempt /\ r.outcome = call[c].outcome
  BY <1>0 DEF CallRecords
<1> HIDE DEF r
<1>3. /\ call' \in [Calls -> CallRecords]
      /\ call'[c] = r /\ \A d \in Calls \ {c} : call'[d] = call[d]
  BY <1>1, <1>2, OneCall
<1>4. CallOK(c)'
  BY <1>0, <1>1, <1>2, <1>3 DEF CallOK, Running
<1>5. \A d \in Calls \ {c} : CallOK(d)'
  BY <1>3 DEF CallsOK, CallOK, Running
<1> QED
  BY <1>1, <1>2, <1>3, <1>4, <1>5 DEF CallsOK, Moved, Keeps

LEMMA DoesAbort ==
    ASSUME TypeOK, CallsOK, NEW c \in Calls, Abort(c)
    PROVE  /\ Moved /\ call'[c].stage = call[c].stage /\ call'[c].outcome = call[c].outcome
           /\ \A d \in Calls \ {c} : call'[d] = call[d]
<1> DEFINE r == [call[c] EXCEPT !.aborted = TRUE]
<1>0. call[c] \in CallRecords /\ CallOK(c)
  BY DEF TypeOK, CallsOK
<1>1. call' = [call EXCEPT ![c] = r]
  BY DEF Abort, TypeOK
<1>2. /\ r \in CallRecords /\ r.op = call[c].op /\ r.name = call[c].name /\ r.stage = call[c].stage
      /\ r.attempt = call[c].attempt /\ r.outcome = call[c].outcome
  BY <1>0 DEF CallRecords
<1> HIDE DEF r
<1>3. /\ call' \in [Calls -> CallRecords]
      /\ call'[c] = r /\ \A d \in Calls \ {c} : call'[d] = call[d]
  BY <1>1, <1>2, OneCall
<1>4. CallOK(c)'
  BY <1>0, <1>2, <1>3 DEF CallOK, Running
<1>5. \A d \in Calls \ {c} : CallOK(d)'
  BY <1>3 DEF CallsOK, CallOK, Running
<1> QED
  BY <1>2, <1>3, <1>4, <1>5 DEF CallsOK, Moved, Keeps

LEMMA DoesTryAgain ==
    ASSUME TypeOK, CallsOK, NEW c \in Calls, TryAgain(c)
    PROVE  /\ Moved /\ call[c].op # "mutation" /\ call'[c].outcome # "completed"
           /\ \A d \in Calls \ {c} : call'[d] = call[d]
<1>0. call[c] \in CallRecords /\ CallOK(c) /\ call[c].stage = "backoff"
  BY DEF TypeOK, CallsOK, TryAgain
<1>1. call[c].op # "mutation"
  BY <1>0 DEF CallOK, Running
<1>2. CASE call[c].aborted
  <2> DEFINE r == EndedCall(c, "failed")
  <2>1. call' = [call EXCEPT ![c] = r]
    BY <1>2 DEF TryAgain, Ended
  <2>2. /\ r \in CallRecords /\ r.op = call[c].op /\ r.name = call[c].name
        /\ r.stage = "ended" /\ r.outcome = "failed"
    BY EndedTyped DEF Outcomes
  <2> HIDE DEF r
  <2>3. /\ call' \in [Calls -> CallRecords]
        /\ call'[c] = r /\ \A d \in Calls \ {c} : call'[d] = call[d]
    BY <2>1, <2>2, OneCall
  <2>4. CallOK(c)'
    BY <1>0, <2>2, <2>3 DEF CallOK, Running
  <2>5. \A d \in Calls \ {c} : CallOK(d)'
    BY <2>3 DEF CallsOK, CallOK, Running
  <2> QED
    BY <1>0, <1>1, <2>2, <2>3, <2>4, <2>5 DEF CallsOK, Moved, Keeps
<1>3. CASE ~call[c].aborted
  <2> DEFINE r == [call[c] EXCEPT !.stage = "connecting", !.attempt = @ + 1]
  <2>1. call' = [call EXCEPT ![c] = r]
    BY <1>3 DEF TryAgain, TypeOK
  <2>2. /\ r \in CallRecords /\ r.op = call[c].op /\ r.name = call[c].name
        /\ r.stage = "connecting" /\ r.outcome = "none" /\ r.attempt = call[c].attempt + 1
    <3>1. call[c].outcome = "none" /\ call[c].attempt \in Nat /\ call[c].attempt + 1 \in Nat
      BY <1>0 DEF CallRecords, CallOK
    <3> QED
      BY <1>0, <3>1 DEF CallRecords
  <2> HIDE DEF r
  <2>3. /\ call' \in [Calls -> CallRecords]
        /\ call'[c] = r /\ \A d \in Calls \ {c} : call'[d] = call[d]
    BY <2>1, <2>2, OneCall
  <2>4. call[c].attempt + 1 \in 1..MaxAttempts
    BY <1>0, BrokerAssumption DEF CallOK, Running
  <2>5. CallOK(c)'
    BY <1>0, <1>1, <2>2, <2>3, <2>4 DEF CallOK, Running
  <2>6. \A d \in Calls \ {c} : CallOK(d)'
    BY <2>3 DEF CallsOK, CallOK, Running
  <2> QED
    BY <1>0, <1>1, <2>2, <2>3, <2>5, <2>6 DEF CallsOK, Moved, Keeps
<1> QED
  BY <1>2, <1>3

LEMMA DoesFail ==
    ASSUME TypeOK, CallsOK, NEW c \in Calls,
           ConnectFails(c) \/ ConnectionLost(c) \/ ClientTimesOut(c)
    PROVE  /\ Moved /\ call'[c].stage \in {"backoff", "ended"} /\ call'[c].outcome # "completed"
           /\ call[c].op = "mutation" /\ call'[c].outcome = "not_started" => call[c].stage = "connecting"
           /\ \A d \in Calls \ {c} : call'[d] = call[d]
<1>1. CASE ConnectFails(c)
  BY <1>1, AttemptFailed DEF ConnectFails, Moved, Running
<1>2. CASE ConnectionLost(c)
  BY <1>2, AttemptFailed DEF ConnectionLost, Moved, Running
<1>3. CASE ClientTimesOut(c)
  BY <1>3, AttemptFailed DEF ClientTimesOut, Moved, Running
<1> QED
  BY <1>1, <1>2, <1>3

-----------------------------------------------------------------------------
(* Types.                                                                  *)

LEMMA HeardMoves ==
    ASSUME TypeOK, CallsOK, NEW W, NEW a \in Answers, AnswerAll(W, a)
    PROVE  Moved
BY Heard, HeardCallsOK DEF Moved

LEMMA RespondMoves ==
    ASSUME TypeOK, CallsOK, NEW n \in Names, NEW a \in Answers, Respond(n, a)
    PROVE  Moved
BY Responded, HeardCallsOK DEF Moved

LEMMA StillMoves ==
    ASSUME TypeOK, CallsOK, UNCHANGED call
    PROVE  Moved
BY DEF Moved, TypeOK, CallsOK, CallOK, Running, Keeps

LEMMA FrameNames == TypeOK => \A w \in Frames : w.from \in Calls /\ call[w.from].name \in Names
BY DEF TypeOK, Frames, CallRecords

LEMMA Piped ==
    ASSUME TypeOK, NEW m \in Messages
    PROVE  Append(down, m) \in Seq(Messages)
BY DEF TypeOK

LEMMA MessageNames ==
    ASSUME TypeOK, down # <<>>
    PROVE  /\ Head(down) \in Messages /\ Tail(down) \in Seq(Messages)
           /\ Head(down).name \in Names
<1>1. down \in Seq(Messages)
  BY DEF TypeOK
<1>2. Head(down) \in Messages /\ Tail(down) \in Seq(Messages)
  BY <1>1, HeadTailProperties
<1> QED
  BY <1>2 DEF Messages

\* The answers that are given.
LEMMA ReplayedAnswer ==
    ASSUME TypeOK, NEW i \in Ids, journal[i] # "none"
    PROVE  Recalled(i) \in Answers /\ (Recalled(i) = "ok" => journal[i] = "ok")
BY DEF TypeOK, Answers, Recalled

LEMMA DeliveredAnswer ==
    ASSUME NEW n, NEW a \in Answers
    PROVE  /\ Delivered(n, a) \in Answers
           /\ Delivered(n, a) = "ok" => a \in {"ok", "partial"} \/ (a = "refused" /\ ~LineageCurrent(n))
           /\ n \in Ids /\ a # "not_started" => Delivered(n, a) # "not_started"
           /\ n \in Ids /\ a \notin NotDone => Delivered(n, a) \notin NotDone
BY DEF Delivered, Answers, Results, NotDone, Durable

LEMMA ConsumerTypes == TypeOK /\ CallsOK /\ Consumer => TypeOK' /\ CallsOK'
<1> SUFFICES ASSUME TypeOK, CallsOK, Consumer PROVE TypeOK' /\ CallsOK'
  OBVIOUS
<1>0. PICK c \in Calls :
        \/ \E op \in OpsOf[c], n \in Names : Start(c, op, n) \/ Refused(c, op, n)
        \/ Connect(c) \/ ConnectFails(c) \/ ConnectionLost(c) \/ ClientTimesOut(c)
        \/ TryAgain(c) \/ Abort(c)
  BY DEF Consumer
<1>1. OpsOf[c] \subseteq Ops
  BY BrokerAssumption
<1>2. /\ call' \in [Calls -> CallRecords] /\ CallsOK'
      /\ UNCHANGED <<broker, down, companion>>
  <2>1. CASE \E op \in OpsOf[c], n \in Names : Start(c, op, n) \/ Refused(c, op, n)
    <3>1. PICK op \in Ops, n \in Names : Start(c, op, n) \/ Refused(c, op, n)
      BY <2>1, <1>1
    <3>2. UNCHANGED <<broker, down, companion>>
      BY <3>1 DEF Start, Refused
    <3> QED
      BY <3>1, <3>2, DoesStart, DoesRefused
  <2>2. CASE Connect(c)
    BY <2>2, DoesConnect DEF Connect, Moved
  <2>3. CASE ConnectFails(c) \/ ConnectionLost(c) \/ ClientTimesOut(c)
    <3>1. UNCHANGED <<broker, down, companion>>
      BY <2>3 DEF ConnectFails, ConnectionLost, ClientTimesOut
    <3> QED
      BY <2>3, <3>1, DoesFail DEF Moved
  <2>4. CASE TryAgain(c)
    BY <2>4, DoesTryAgain DEF TryAgain, Moved
  <2>5. CASE Abort(c)
    BY <2>5, DoesAbort DEF Abort, Moved
  <2> QED
    BY <1>0, <2>1, <2>2, <2>3, <2>4, <2>5
<1>3. wire' \subseteq Frames
  <2>0. wire \subseteq Frames /\ call[c] \in CallRecords /\ CallOK(c) /\ MaxAttempts \in Nat
    BY BrokerAssumption DEF TypeOK, CallsOK
  <2>1. CASE Connect(c)
    <3>1. call[c].attempt \in 0..MaxAttempts
      BY <2>0, <2>1 DEF Connect, CallOK, Running
    <3>2. [from |-> c, attempt |-> call[c].attempt] \in Frames
      BY <3>1 DEF Frames
    <3> QED
      BY <2>0, <2>1, <3>2 DEF Connect
  <2>2. CASE Abort(c)
    <3>1. [from |-> c, attempt |-> 0] \in Frames
      BY <2>0 DEF Frames
    <3> QED
      BY <2>0, <2>2, <3>1 DEF Abort
  <2>3. CASE ~Connect(c) /\ ~Abort(c)
    BY <1>0, <2>0, <2>3 DEF Start, Refused, ConnectFails, ConnectionLost, ClientTimesOut, TryAgain
  <2> QED
    BY <2>1, <2>2, <2>3
<1> QED
  BY <1>2, <1>3 DEF TypeOK, broker, companion, history

LEMMA HostTypes == TypeOK /\ CallsOK /\ Host => TypeOK' /\ CallsOK'
<1> SUFFICES ASSUME TypeOK, CallsOK, Host PROVE TypeOK' /\ CallsOK'
  OBVIOUS
<1>1. ASSUME NEW w \in Frames,
             \/ HostCancels(w) \/ HostRefuses(w) \/ HostJoins(w) \/ HostReplays(w)
             \/ \E written \in BOOLEAN : HostForwards(w, written)
      PROVE  TypeOK' /\ CallsOK'
  <2> DEFINE n == call[w.from].name
  <2>0. n \in Names /\ w.from \in Calls
    BY FrameNames
  <2> HIDE DEF n
  <2>1. CASE HostCancels(w)
    <3>1. UNCHANGED <<call, broker, companion>> /\ wire' \subseteq Frames
      BY <2>1 DEF HostCancels, Read, TypeOK
    <3>2. [type |-> "cancel", name |-> n] \in Messages
      BY <2>0 DEF Messages
    <3>3. down' \in Seq(Messages)
      BY <2>1, <3>2, Piped DEF HostCancels, n, TypeOK
    <3> QED
      BY <3>1, <3>3, StillMoves DEF TypeOK, Moved, broker, companion, history
  <2>2. CASE HostRefuses(w)
    <3>1. AnswerAll({w}, "not_started") /\ UNCHANGED <<broker, down, companion>> /\ wire' \subseteq Frames
      BY <2>2 DEF HostRefuses, Read, TypeOK
    <3> QED
      BY <3>1, HeardMoves DEF TypeOK, Moved, broker, companion, history, Answers
  <2>3. CASE HostJoins(w)
    <3>1. /\ UNCHANGED <<call, host, late, journal, volatile, down, companion>> /\ wire' \subseteq Frames
          /\ pending' = [pending EXCEPT ![n] = @ \cup {w}]
      BY <2>3 DEF HostJoins, Read, TypeOK, n
    <3> QED
      BY <2>0, <3>1, StillMoves DEF TypeOK, Moved, companion, history
  <2>4. CASE HostReplays(w)
    <3> DEFINE a == Recalled(n)
    <3>1. /\ AnswerAll({w}, a) /\ UNCHANGED <<broker, down, companion>>
          /\ wire' \subseteq Frames /\ n \in Ids /\ journal[n] # "none"
      BY <2>4 DEF HostReplays, Read, TypeOK, n, Durable
    <3>2. a \in Answers
      BY <3>1, ReplayedAnswer
    <3> HIDE DEF a
    <3> QED
      BY <3>1, <3>2, HeardMoves DEF TypeOK, Moved, broker, companion, history
  <2>5. ASSUME NEW written \in BOOLEAN, HostForwards(w, written)
        PROVE  TypeOK' /\ CallsOK'
    <3>1. journal' \in [Ids -> {"none", "started"} \cup Answers] /\ wire' \subseteq Frames
      BY <2>5 DEF HostForwards, Read, TypeOK, Recorded
    <3>2. UNCHANGED <<host, late, companion>> /\ volatile' \subseteq Inputs
      BY <2>5 DEF HostForwards, TypeOK
    <3>3. CASE written
      <4>1. /\ pending' = [pending EXCEPT ![n] = {w}] /\ UNCHANGED call
            /\ down' = Append(down, [type |-> "request", name |-> n])
        BY <2>5, <3>3 DEF HostForwards, n
      <4>2. [type |-> "request", name |-> n] \in Messages
        BY <2>0 DEF Messages
      <4>3. down' \in Seq(Messages)
        BY <4>1, <4>2, Piped
      <4>4. pending' \in [Names -> SUBSET Frames]
        BY <4>1, <2>0 DEF TypeOK
      <4> QED
        BY <3>1, <3>2, <4>1, <4>3, <4>4, StillMoves DEF TypeOK, Moved, companion, history
    <3>4. CASE ~written
      <4> DEFINE a == IF Durable(n) THEN "unknown" ELSE "not_started"
      <4>1. AnswerAll({w}, a) /\ UNCHANGED <<pending, down>>
        BY <2>5, <3>4 DEF HostForwards, n
      <4>2. a \in Answers
        BY DEF Answers, Results
      <4> HIDE DEF a
      <4> QED
        BY <3>1, <3>2, <4>1, <4>2, HeardMoves DEF TypeOK, Moved, companion, history
    <3> QED
      BY <3>3, <3>4
  <2> QED
    BY <1>1, <2>1, <2>2, <2>3, <2>4, <2>5
<1>2. ASSUME NEW n \in Names, HostTimesOut(n) PROVE TypeOK' /\ CallsOK'
  <2>1. /\ AnswerAll(pending[n], "unknown") /\ pending' = [pending EXCEPT ![n] = {}]
        /\ late' \subseteq Ids
        /\ UNCHANGED <<wire, host, journal, volatile, down, companion>>
    BY <1>2 DEF HostTimesOut, TypeOK, Durable
  <2> QED
    BY <2>1, HeardMoves DEF TypeOK, Moved, companion, history, Answers
<1>3. ASSUME NEW n \in Names, LateExpires(n) PROVE TypeOK' /\ CallsOK'
  BY <1>3, StillMoves DEF LateExpires, TypeOK, Moved, consumer, companion, history
<1>4. CASE HostExits
  <2>1. <<>> \in Seq(Messages)
    OBVIOUS
  <2> QED
    BY <1>4, <2>1, StillMoves DEF HostExits, TypeOK, Moved, history
<1>5. CASE HostStarts \/ Hello
  <2>1. /\ UNCHANGED <<consumer, pending, late, journal, volatile, down, companion>>
        /\ host' \in [runs : BOOLEAN, session : Nat, hello : BOOLEAN]
    <3>1. CASE HostStarts
      BY <3>1 DEF HostStarts, TypeOK
    <3>2. CASE Hello
      <4>1. host' = [host EXCEPT !.hello = TRUE] /\ host \in [runs : BOOLEAN, session : Nat, hello : BOOLEAN]
        BY <3>2 DEF Hello, TypeOK
      <4> QED
        BY <3>2, <4>1 DEF Hello
    <3> QED
      BY <1>5, <3>1, <3>2
  <2> QED
    BY <2>1, StillMoves DEF TypeOK, Moved, consumer, companion, history
<1> QED
  BY <1>1, <1>2, <1>3, <1>4, <1>5 DEF Host

LEMMA ExtensionTypes == TypeOK /\ CallsOK /\ Extension => TypeOK' /\ CallsOK'
<1> SUFFICES ASSUME TypeOK, CallsOK, Extension PROVE TypeOK' /\ CallsOK'
  OBVIOUS
<1>0. NoExec \in Execs
  BY DEF NoExec, Execs
<1>1. ASSUME NEW applies \in BOOLEAN, CompanionAnswers(applies) PROVE TypeOK' /\ CallsOK'
  <2> DEFINE n == Head(down).name
             a == IF applies \/ OpOf(n) = "status" THEN "ok" ELSE "not_started"
  <2>1. down # <<>> /\ down' = Tail(down)
    BY <1>1 DEF CompanionAnswers, Taken
  <2>2. n \in Names /\ down' \in Seq(Messages)
    BY <2>1, MessageNames
  <2>3. /\ Respond(n, a) /\ UNCHANGED <<wire, host, exec, cancelled, binding, masked>>
        /\ runs' = IF applies THEN [runs EXCEPT ![n] = @ + 1] ELSE runs
    BY <1>1 DEF CompanionAnswers
  <2>4. a \in Answers
    BY DEF Answers, Results
  <2> HIDE DEF n, a
  <2>5. runs' \in [Names -> Nat]
    BY <2>2, <2>3 DEF TypeOK
  <2> QED
    BY <2>2, <2>3, <2>4, <2>5, Responded, RespondMoves DEF TypeOK, Moved
<1>2. CASE CompanionBegins
  <2> DEFINE n == Head(down).name  r == [stage |-> "queued", instance |-> binding.instance]
  <2>1. down # <<>> /\ down' = Tail(down) /\ exec' = [exec EXCEPT ![n] = r]
        /\ UNCHANGED <<consumer, broker, cancelled, binding, history>>
    BY <1>2 DEF CompanionBegins, Taken
  <2>2. n \in Names /\ down' \in Seq(Messages)
    BY <2>1, MessageNames
  <2>3. r \in Execs
    BY DEF TypeOK, Execs
  <2> HIDE DEF n, r
  <2> QED
    BY <2>1, <2>2, <2>3, StillMoves DEF TypeOK, Moved, consumer, broker, history
<1>3. CASE CompanionCancels
  <2>1. down # <<>> /\ down' = Tail(down) /\ cancelled' \subseteq cancelled \cup Acts
        /\ UNCHANGED <<consumer, broker, exec, binding, history>>
    BY <1>3 DEF CompanionCancels, Taken
  <2>2. Head(down).name \in Names /\ down' \in Seq(Messages)
    BY <2>1, MessageNames
  <2> QED
    BY <2>1, <2>2, StillMoves DEF TypeOK, Moved, consumer, broker, history
<1>4. ASSUME NEW n \in Names, Applies(n) PROVE TypeOK' /\ CallsOK'
  <2>1. /\ UNCHANGED <<consumer, broker, down, cancelled, binding, masked>>
        /\ runs' = [runs EXCEPT ![n] = @ + 1]
    BY <1>4 DEF Applies
  <2>2. exec' \in [Names -> Execs]
    BY <1>4 DEF Applies, TypeOK, Execs
  <2>3. runs' \in [Names -> Nat]
    BY <2>1 DEF TypeOK
  <2> QED
    BY <2>1, <2>2, <2>3, StillMoves DEF TypeOK, Moved, consumer, broker
<1>5. ASSUME NEW n \in Names, NEW a \in Answers, Replied(n, a), a = "refused" => n \in Acts
      PROVE  TypeOK' /\ CallsOK'
  <2> DEFINE b == Delivered(n, a)
  <2>1. /\ exec' = [exec EXCEPT ![n] = NoExec] /\ cancelled' = cancelled \ {n} /\ Respond(n, b)
        /\ masked' = IF a = "refused" /\ ~LineageCurrent(n) THEN masked \cup {n} ELSE masked
        /\ UNCHANGED <<wire, host, down, binding, runs>>
    BY <1>5 DEF Replied
  <2>2. b \in Answers
    BY DeliveredAnswer
  <2> HIDE DEF b
  <2> QED
    BY <1>0, <1>5, <2>1, <2>2, Responded, RespondMoves DEF TypeOK, Moved
<1>6. CASE UserBinds
  <2>1. /\ UNCHANGED <<consumer, broker, down, exec, cancelled, history>>
        /\ binding' \in [live : BOOLEAN, instance : Nat]
    BY <1>6 DEF UserBinds, TypeOK
  <2> QED
    BY <2>1, StillMoves DEF TypeOK, Moved, consumer, broker, history
<1>7. CASE BindingEnds
  <2>1. /\ UNCHANGED <<consumer, broker, down, exec, cancelled, history>>
        /\ binding' \in [live : BOOLEAN, instance : Nat]
    BY <1>7 DEF BindingEnds, TypeOK
  <2> QED
    BY <2>1, StillMoves DEF TypeOK, Moved, consumer, broker, history
<1>8. ASSUME NEW n \in Names, ActStarts(n) \/ ActSent(n) PROVE TypeOK' /\ CallsOK'
  <2>0. exec \in [Names -> Execs] /\ [exec[n] EXCEPT !.stage = "started"] \in Execs
        /\ [exec[n] EXCEPT !.stage = "sent"] \in Execs
    BY DEF TypeOK, Execs
  <2>1. /\ UNCHANGED <<consumer, broker, down, cancelled, binding, history>>
        /\ \/ exec' = [exec EXCEPT ![n] = [exec[n] EXCEPT !.stage = "started"]]
           \/ exec' = [exec EXCEPT ![n] = [exec[n] EXCEPT !.stage = "sent"]]
    BY <1>8, <2>0 DEF ActStarts, ActSent
  <2>2. exec' \in [Names -> Execs]
    BY <2>0, <2>1
  <2> QED
    BY <2>1, <2>2, StillMoves DEF TypeOK, Moved, consumer, broker, history
<1>9. ASSUME NEW n \in Names, NEW a \in Answers, Rejects(n) \/ PageRejects(n, a) \/ Answered(n, a)
      PROVE  TypeOK' /\ CallsOK'
  BY <1>5, <1>9 DEF Rejects, PageRejects, Answered, Answers, Results
<1>10. Answers # {}
  BY DEF Answers
<1> QED
  BY <1>1, <1>2, <1>3, <1>4, <1>6, <1>7, <1>8, <1>9, <1>10 DEF Extension

LEMMA StutterTypes == TypeOK /\ CallsOK /\ UNCHANGED vars => TypeOK' /\ CallsOK'
BY StillMoves DEF TypeOK, Moved, vars, consumer, broker, companion, history

LEMMA TypeStep == TypeOK /\ CallsOK /\ [Next]_vars => TypeOK' /\ CallsOK'
BY ConsumerTypes, HostTypes, ExtensionTypes, StutterTypes DEF Next

LEMMA InitTypes == Init => TypeOK /\ CallsOK
<1> SUFFICES ASSUME Init PROVE TypeOK /\ CallsOK
  OBVIOUS
<1>1. call \in [Calls -> CallRecords]
  BY NewCallTyped DEF Init
<1>2. CallsOK
  BY NewCallFields DEF Init, CallsOK, CallOK, Running
<1> QED
  BY <1>1, <1>2 DEF Init, TypeOK, NoExec, Execs

(* Every reachable state is well typed: no more attempts are made than READ_RETRY allows,
   and an entry is only ever waited for late if it is a mutation's. *)
THEOREM TypeCorrect == Spec => []TypeOK
<1>1. Init => TypeOK /\ CallsOK
  BY InitTypes
<1>2. TypeOK /\ CallsOK /\ [Next]_vars => (TypeOK /\ CallsOK)'
  BY TypeStep
<1> QED
  BY <1>1, <1>2, PTL DEF Spec

-----------------------------------------------------------------------------
(* Frames and waiters.                                                     *)

LEMMA FramesKept ==
    ASSUME TypeOK, FramesOK, wire' \subseteq wire, \A d \in Calls : Keeps(d),
           \A n \in Names : pending'[n] \subseteq pending[n]
    PROVE  FramesOK'
<1>1. \A w \in Frames : w.from \in Calls
  BY DEF Frames
<1>2. wire \subseteq Frames /\ \A n \in Names : pending[n] \subseteq Frames
  BY DEF TypeOK
<1> QED
  BY <1>1, <1>2 DEF FramesOK, Keeps

LEMMA FramesTaken ==
    ASSUME TypeOK, FramesOK, NEW c \in Calls, Takes(c), UNCHANGED <<wire, pending>>
    PROVE  FramesOK'
<1>1. \A w \in Frames : w.from \in Calls
  BY DEF Frames
<1>2. wire \subseteq Frames /\ \A n \in Names : pending[n] \subseteq Frames
  BY DEF TypeOK
<1> QED
  BY <1>1, <1>2 DEF FramesOK, Takes

LEMMA HeardKeeps ==
    ASSUME TypeOK, NEW W, NEW a \in Answers, AnswerAll(W, a)
    PROVE  \A d \in Calls : Keeps(d)
BY Heard

LEMMA StillKeeps ==
    ASSUME UNCHANGED call
    PROVE  \A d \in Calls : Keeps(d)
BY DEF Keeps

LEMMA FramesStep == TypeOK /\ CallsOK /\ FramesOK /\ [Next]_vars => FramesOK'
<1> SUFFICES ASSUME TypeOK, CallsOK, FramesOK, [Next]_vars PROVE FramesOK'
  OBVIOUS
<1>1. ASSUME NEW c \in Calls, NEW op \in OpsOf[c], NEW n \in Names, Start(c, op, n) \/ Refused(c, op, n)
      PROVE  FramesOK'
  <2>1. op \in Ops
    BY BrokerAssumption
  <2>2. UNCHANGED <<wire, pending>>
    BY <1>1 DEF Start, Refused, broker
  <2> QED
    BY <1>1, <2>1, <2>2, DoesStart, DoesRefused, FramesTaken
<1>2. ASSUME NEW c \in Calls, Connect(c) PROVE FramesOK'
  <2>1. Moved /\ call'[c].stage = "sent"
    BY <1>2, DoesConnect
  <2> DEFINE w0 == [from |-> c, attempt |-> call[c].attempt]
  <2>2. wire' = wire \cup {w0} /\ pending' = pending /\ call[c].stage = "connecting"
    BY <1>2 DEF Connect, broker
  <2>3. w0.from = c /\ (call'[c].op = "mutation" => w0.attempt = 1)
    BY <2>1, <2>2 DEF CallsOK, CallOK, Running, Moved, Keeps
  <2> HIDE DEF w0
  <2>4. \A w \in Frames : w.from \in Calls
    BY DEF Frames
  <2>5. wire \subseteq Frames /\ \A n \in Names : pending[n] \subseteq Frames
    BY DEF TypeOK
  <2>6. \A d \in Calls : Keeps(d)
    BY <2>1 DEF Moved
  <2>7. \A w \in wire' : /\ call'[w.from].stage # "idle"
                         /\ call'[w.from].op = "mutation" /\ w.attempt # 0 => w.attempt = 1
    BY <2>1, <2>2, <2>3, <2>4, <2>5, <2>6 DEF FramesOK, Keeps
  <2>8. \A n \in Names : \A w \in pending[n] : call'[w.from].stage # "idle" /\ call'[w.from].name = n
    BY <2>4, <2>5, <2>6 DEF FramesOK, Keeps
  <2> QED
    BY <2>2, <2>7, <2>8 DEF FramesOK
<1>3. ASSUME NEW c \in Calls, ConnectFails(c) \/ ConnectionLost(c) \/ ClientTimesOut(c) \/ TryAgain(c)
      PROVE  FramesOK'
  <2>1. Moved
    BY <1>3, DoesFail, DoesTryAgain
  <2>2. UNCHANGED <<wire, pending>>
    BY <1>3 DEF ConnectFails, ConnectionLost, ClientTimesOut, TryAgain, broker
  <2> QED
    BY <2>1, <2>2, FramesKept DEF Moved
<1>4. ASSUME NEW c \in Calls, Abort(c) PROVE FramesOK'
  <2>1. Moved /\ call'[c].stage = call[c].stage
    BY <1>4, DoesAbort
  <2> DEFINE w0 == [from |-> c, attempt |-> 0]
  <2>2. wire' \subseteq wire \cup {w0} /\ pending' = pending /\ call[c].stage # "idle"
    BY <1>4 DEF Abort, broker, Running
  <2>3. w0.from = c /\ w0.attempt = 0
    OBVIOUS
  <2> HIDE DEF w0
  <2>4. \A w \in Frames : w.from \in Calls
    BY DEF Frames
  <2>5. wire \subseteq Frames /\ \A n \in Names : pending[n] \subseteq Frames
    BY DEF TypeOK
  <2>6. \A d \in Calls : Keeps(d)
    BY <2>1 DEF Moved
  <2>7. \A w \in wire' : /\ call'[w.from].stage # "idle"
                         /\ call'[w.from].op = "mutation" /\ w.attempt # 0 => w.attempt = 1
    BY <2>1, <2>2, <2>3, <2>4, <2>5, <2>6 DEF FramesOK, Keeps
  <2>8. \A n \in Names : \A w \in pending[n] : call'[w.from].stage # "idle" /\ call'[w.from].name = n
    BY <2>4, <2>5, <2>6 DEF FramesOK, Keeps
  <2> QED
    BY <2>2, <2>7, <2>8 DEF FramesOK
<1>5. ASSUME NEW w \in Frames,
             \/ HostCancels(w) \/ HostRefuses(w) \/ HostJoins(w) \/ HostReplays(w)
             \/ \E written \in BOOLEAN : HostForwards(w, written)
      PROVE  FramesOK'
  <2> DEFINE n == call[w.from].name
  <2>0. n \in Names /\ w.from \in Calls
    BY FrameNames
  <2>1. w \in wire /\ wire' \subseteq wire /\ call[w.from].stage # "idle"
    BY <1>5 DEF HostCancels, HostRefuses, HostJoins, HostReplays, HostForwards, Read, FramesOK
  <2>2. CASE HostCancels(w)
    <3>1. UNCHANGED <<call, pending>>
      BY <2>2 DEF HostCancels, broker
    <3> QED
      BY <2>1, <3>1, FramesKept, StillKeeps
  <2>3. CASE HostRefuses(w)
    <3>1. AnswerAll({w}, "not_started") /\ UNCHANGED pending
      BY <2>3 DEF HostRefuses, broker
    <3>2. \A d \in Calls : Keeps(d)
      BY <3>1, HeardKeeps DEF Answers
    <3> QED
      BY <2>1, <3>1, <3>2, FramesKept
  <2>4. CASE HostReplays(w)
    <3> DEFINE a == Recalled(n)
    <3>1. AnswerAll({w}, a) /\ UNCHANGED pending /\ n \in Ids /\ journal[n] # "none"
      BY <2>4 DEF HostReplays, Durable, broker
    <3>2. a \in Answers
      BY <3>1, ReplayedAnswer
    <3> HIDE DEF a
    <3>3. \A d \in Calls : Keeps(d)
      BY <3>1, <3>2, HeardKeeps
    <3> QED
      BY <2>1, <3>1, <3>3, FramesKept
  <2>5. CASE HostJoins(w)
    <3>1. UNCHANGED call /\ pending' = [pending EXCEPT ![n] = @ \cup {w}]
      BY <2>5 DEF HostJoins
    <3> QED
      BY <2>0, <2>1, <3>1 DEF FramesOK, TypeOK
  <2>6. ASSUME NEW written \in BOOLEAN, HostForwards(w, written) PROVE FramesOK'
    <3>1. CASE written
      <4>1. UNCHANGED call /\ pending' = [pending EXCEPT ![n] = {w}]
        BY <2>6, <3>1 DEF HostForwards
      <4> QED
        BY <2>0, <2>1, <4>1 DEF FramesOK, TypeOK
    <3>2. CASE ~written
      <4> DEFINE a == IF Durable(n) THEN "unknown" ELSE "not_started"
      <4>1. AnswerAll({w}, a) /\ UNCHANGED pending
        BY <2>6, <3>2 DEF HostForwards
      <4>2. a \in Answers
        BY DEF Answers, Results
      <4> HIDE DEF a
      <4>3. \A d \in Calls : Keeps(d)
        BY <4>1, <4>2, HeardKeeps
      <4> QED
        BY <2>1, <4>1, <4>3, FramesKept
    <3> QED
      BY <3>1, <3>2
  <2> QED
    BY <1>5, <2>2, <2>3, <2>4, <2>5, <2>6
<1>6. ASSUME NEW n \in Names, HostTimesOut(n) PROVE FramesOK'
  <2>1. /\ AnswerAll(pending[n], "unknown") /\ pending' = [pending EXCEPT ![n] = {}] /\ wire' = wire
    BY <1>6 DEF HostTimesOut
  <2>2. \A d \in Calls : Keeps(d)
    BY <2>1, HeardKeeps DEF Answers
  <2>3. \A m \in Names : pending'[m] \subseteq pending[m]
    BY <2>1 DEF TypeOK
  <2> QED
    BY <2>1, <2>2, <2>3, FramesKept
<1>7. ASSUME \/ \E n \in Names : LateExpires(n)
             \/ HostExits \/ HostStarts \/ Hello
      PROVE  FramesOK'
  <2>1. UNCHANGED call /\ wire' \subseteq wire /\ \A n \in Names : pending'[n] \subseteq pending[n]
    BY <1>7 DEF LateExpires, HostExits, HostStarts, Hello, consumer
  <2> QED
    BY <2>1, FramesKept, StillKeeps
<1>8. ASSUME NEW applies \in BOOLEAN, CompanionAnswers(applies) PROVE FramesOK'
  <2> DEFINE n == Head(down).name
             a == IF applies \/ OpOf(n) = "status" THEN "ok" ELSE "not_started"
  <2>1. n \in Names /\ Respond(n, a) /\ wire' = wire
    BY <1>8, MessageNames DEF CompanionAnswers, Taken
  <2>2. a \in Answers
    BY DEF Answers, Results
  <2> HIDE DEF n, a
  <2> QED
    BY <2>1, <2>2, Responded, FramesKept
<1>9. ASSUME NEW n \in Names, NEW a \in Answers, Replied(n, a)
      PROVE  FramesOK'
  <2> DEFINE b == Delivered(n, a)
  <2>1. Respond(n, b) /\ wire' = wire
    BY <1>9 DEF Replied
  <2>2. b \in Answers
    BY DeliveredAnswer
  <2> HIDE DEF b
  <2> QED
    BY <2>1, <2>2, Responded, FramesKept
<1>10. ASSUME \/ CompanionBegins \/ CompanionCancels \/ UserBinds \/ BindingEnds
              \/ \E n \in Names : ActStarts(n) \/ ActSent(n) \/ Applies(n)
              \/ UNCHANGED vars
       PROVE  FramesOK'
  <2>1. UNCHANGED <<call, wire, pending>>
    BY <1>10 DEF CompanionBegins, CompanionCancels, UserBinds, BindingEnds, ActStarts, ActSent, Applies,
                 vars, consumer, broker
  <2> QED
    BY <2>1, FramesKept, StillKeeps
<1> QED
  BY <1>1, <1>2, <1>3, <1>4, <1>5, <1>6, <1>7, <1>8, <1>9, <1>10
     DEF Next, Consumer, Host, Extension, Rejects, PageRejects, Answered, Answers

-----------------------------------------------------------------------------
(* What is reported as completed.                                          *)

\* What has run has run.
Kept == (\A n \in Names : runs[n] > 0 => runs'[n] > 0) /\ masked \subseteq masked'

LEMMA CompletedHeard ==
    ASSUME TypeOK, CompletedIsTrue, Kept, NEW W, NEW a \in Answers, \A d \in Calls : Hears(d, W, a),
           a = "ok" => \A w \in W : w.from \in Calls =>
                           \/ call[w.from].op = "status"
                           \/ runs'[call[w.from].name] > 0 \/ call[w.from].name \in masked'
    PROVE  CompletedIsTrue'
<1> SUFFICES ASSUME NEW d \in Calls, call'[d].outcome = "completed", call'[d].op # "status"
             PROVE  /\ runs'[call[d].name] > 0 \/ call[d].name \in masked'
                    /\ call'[d].name = call[d].name
  BY DEF CompletedIsTrue, Done
<1>0. call[d].op \in Ops /\ call[d].name \in Names
  BY DEF TypeOK, CallRecords
<1>1. CASE call'[d] = call[d]
  BY <1>0, <1>1 DEF CompletedIsTrue, Kept, Done
<1>2. CASE call'[d] # call[d]
  <2> DEFINE w == [from |-> d, attempt |-> call[d].attempt]
  <2>1. /\ w \in W /\ call'[d].op = call[d].op /\ call'[d].name = call[d].name
        /\ Told(call[d].op, a) = "completed"
    BY <1>2 DEF Hears
  <2>2. a = "ok"
    BY <1>0, <2>1, ToldIsOutcome
  <2>3. w.from = d
    OBVIOUS
  <2> QED
    BY <2>1, <2>2, <2>3
<1> QED
  BY <1>1, <1>2

LEMMA CompletedKept ==
    ASSUME TypeOK, CompletedIsTrue, Kept,
           \A d \in Calls : \/ call'[d].outcome # "completed"
                            \/ /\ call'[d].outcome = call[d].outcome /\ call'[d].op = call[d].op
                               /\ call'[d].name = call[d].name
    PROVE  CompletedIsTrue'
BY DEF TypeOK, CallRecords, CompletedIsTrue, Kept

LEMMA Waiters ==
    ASSUME TypeOK, FramesOK, NEW n \in Names, NEW w \in pending[n]
    PROVE  w.from \in Calls /\ call[w.from].name = n
BY DEF TypeOK, FramesOK, Frames

LEMMA StatusOfStatus ==
    ASSUME TypeOK, CallsOK, FramesOK, NEW n \in Names, OpOf(n) = "status", NEW w \in pending[n]
    PROVE  call[w.from].op = "status"
<1>1. w.from \in Calls /\ call[w.from].name = n
  BY Waiters
<1>2. n \notin Ids /\ call[n].op = "status"
  BY DEF OpOf, Durable
<1> QED
  BY <1>1, <1>2 DEF CallsOK, CallOK

LEMMA DoneConsumer == TypeOK /\ CallsOK /\ DoneOK /\ CompletedIsTrue /\ Consumer => DoneOK' /\ CompletedIsTrue'
<1> SUFFICES ASSUME TypeOK, CallsOK, DoneOK, CompletedIsTrue, Consumer PROVE DoneOK' /\ CompletedIsTrue'
  OBVIOUS
<1>0. PICK c \in Calls :
        \/ \E op \in OpsOf[c], n \in Names : Start(c, op, n) \/ Refused(c, op, n)
        \/ Connect(c) \/ ConnectFails(c) \/ ConnectionLost(c) \/ ClientTimesOut(c)
        \/ TryAgain(c) \/ Abort(c)
  BY DEF Consumer
<1>1. UNCHANGED <<journal, exec, runs, masked>>
  BY <1>0 DEF Start, Refused, Connect, ConnectFails, ConnectionLost, ClientTimesOut, TryAgain, Abort,
              broker, companion, history
<1>2. DoneOK' /\ Kept
  BY <1>1 DEF DoneOK, Done, Kept
<1>3. CASE \E op \in OpsOf[c], n \in Names : Start(c, op, n) \/ Refused(c, op, n)
  <2>1. Takes(c)
    BY <1>3, DoesStart, DoesRefused, BrokerAssumption
  <2> QED
    BY <1>2, <2>1, CompletedKept DEF Takes
<1>4. CASE Connect(c)
  <2>1. /\ call'[c].outcome = call[c].outcome /\ call[c].outcome # "completed"
        /\ \A d \in Calls \ {c} : call'[d] = call[d]
    BY <1>4, DoesConnect DEF Connect, CallsOK, CallOK
  <2> QED
    BY <1>2, <2>1, CompletedKept
<1>5. CASE ConnectFails(c) \/ ConnectionLost(c) \/ ClientTimesOut(c) \/ TryAgain(c)
  <2>1. call'[c].outcome # "completed" /\ \A d \in Calls \ {c} : call'[d] = call[d]
    BY <1>5, DoesFail, DoesTryAgain
  <2> QED
    BY <1>2, <2>1, CompletedKept
<1>6. CASE Abort(c)
  BY <1>2, <1>6, DoesAbort, CompletedKept DEF Moved, Keeps
<1> QED
  BY <1>0, <1>2, <1>3, <1>4, <1>5, <1>6

LEMMA DoneHost ==
    TypeOK /\ CallsOK /\ FramesOK /\ DoneOK /\ CompletedIsTrue /\ Host => DoneOK' /\ CompletedIsTrue'
<1> SUFFICES ASSUME TypeOK, CallsOK, FramesOK, DoneOK, CompletedIsTrue, Host
             PROVE  DoneOK' /\ CompletedIsTrue'
  OBVIOUS
<1>0. UNCHANGED <<exec, runs, masked>> /\ Kept
  BY DEF Host, HostCancels, HostRefuses, HostJoins, HostReplays, HostForwards, HostTimesOut, LateExpires,
         HostExits, HostStarts, Hello, companion, history, Kept
<1>1. CASE UNCHANGED <<call, journal>>
  BY <1>0, <1>1, CompletedKept DEF DoneOK, Done
<1>2. ASSUME NEW w \in Frames, HostRefuses(w) PROVE DoneOK' /\ CompletedIsTrue'
  <2>1. AnswerAll({w}, "not_started") /\ UNCHANGED journal
    BY <1>2 DEF HostRefuses, broker
  <2>2. \A d \in Calls : Hears(d, {w}, "not_started")
    BY <2>1, Heard DEF Answers
  <2> QED
    BY <1>0, <2>1, <2>2, CompletedHeard DEF DoneOK, Done, Answers
<1>3. ASSUME NEW w \in Frames, HostReplays(w) PROVE DoneOK' /\ CompletedIsTrue'
  <2> DEFINE n == call[w.from].name  a == Recalled(n)
  <2>1. AnswerAll({w}, a) /\ UNCHANGED journal /\ n \in Ids /\ journal[n] # "none"
    BY <1>3 DEF HostReplays, Durable, broker
  <2>2. a \in Answers
    BY <2>1, ReplayedAnswer
  <2>3. a = "ok" => runs'[n] > 0 \/ n \in masked'
    BY <1>0, <2>1, ReplayedAnswer DEF DoneOK, Done
  <2> HIDE DEF a
  <2>4. \A d \in Calls : Hears(d, {w}, a)
    BY <2>1, <2>2, Heard
  <2>5. CompletedIsTrue'
    BY <1>0, <2>2, <2>3, <2>4, CompletedHeard
  <2> QED
    BY <1>0, <2>1, <2>5 DEF DoneOK, Done
<1>4. ASSUME NEW w \in Frames, NEW written \in BOOLEAN, HostForwards(w, written)
      PROVE  DoneOK' /\ CompletedIsTrue'
  <2> DEFINE n == call[w.from].name  a == IF Durable(n) THEN "unknown" ELSE "not_started"
  <2>1. journal' = Recorded(n, "started")
    BY <1>4 DEF HostForwards
  <2>2. DoneOK'
    BY <1>0, <2>1 DEF DoneOK, Done, Recorded, TypeOK
  <2>3. CASE written
    <3>1. UNCHANGED call
      BY <1>4, <2>3 DEF HostForwards
    <3> QED
      BY <1>0, <2>2, <3>1, CompletedKept
  <2>4. CASE ~written
    <3>1. AnswerAll({w}, a)
      BY <1>4, <2>4 DEF HostForwards
    <3>2. a \in Answers /\ a # "ok"
      BY DEF Answers
    <3> HIDE DEF a
    <3>3. \A d \in Calls : Hears(d, {w}, a)
      BY <3>1, <3>2, Heard
    <3> QED
      BY <1>0, <2>2, <3>2, <3>3, CompletedHeard
  <2> QED
    BY <2>3, <2>4
<1>5. ASSUME NEW n \in Names, HostTimesOut(n) PROVE DoneOK' /\ CompletedIsTrue'
  <2>1. AnswerAll(pending[n], "unknown") /\ UNCHANGED journal
    BY <1>5 DEF HostTimesOut
  <2>2. \A d \in Calls : Hears(d, pending[n], "unknown")
    BY <2>1, Heard DEF Answers
  <2> QED
    BY <1>0, <2>1, <2>2, CompletedHeard DEF DoneOK, Done, Answers
<1> QED
  BY <1>1, <1>2, <1>3, <1>4, <1>5
     DEF Host, HostCancels, HostJoins, LateExpires, HostExits, HostStarts, Hello, consumer, broker

LEMMA DoneExtension ==
    TypeOK /\ CallsOK /\ FramesOK /\ DoneOK /\ CompletedIsTrue /\ Extension => DoneOK' /\ CompletedIsTrue'
<1> SUFFICES ASSUME TypeOK, CallsOK, FramesOK, DoneOK, CompletedIsTrue, Extension
             PROVE  DoneOK' /\ CompletedIsTrue'
  OBVIOUS
<1>0. Ids \subseteq Names
  BY DEF Names
<1>1. ASSUME NEW applies \in BOOLEAN, CompanionAnswers(applies) PROVE DoneOK' /\ CompletedIsTrue'
  <2> DEFINE n == Head(down).name
             a == IF applies \/ OpOf(n) = "status" THEN "ok" ELSE "not_started"
  <2>1. n \in Names
    BY <1>1, MessageNames DEF CompanionAnswers, Taken
  <2>2. /\ Respond(n, a) /\ UNCHANGED <<exec, masked>>
        /\ runs' = IF applies THEN [runs EXCEPT ![n] = @ + 1] ELSE runs
        /\ applies => OpOf(n) = "control"
    BY <1>1 DEF CompanionAnswers
  <2>3. a \in Answers /\ (a = "ok" => applies \/ OpOf(n) = "status")
    BY DEF Answers, Results
  <2>4. a = "ok" => n \notin Ids
    BY <2>2, <2>3 DEF OpOf, Durable
  <2> HIDE DEF n, a
  <2>5. Kept /\ (applies => runs'[n] > 0)
    BY <2>1, <2>2 DEF Kept, TypeOK
  <2>6. /\ \A d \in Calls : Hears(d, pending[n], a)
        /\ \A i \in Ids : \/ journal'[i] = journal[i]
                          \/ i = n /\ journal'[i] = IF a = "not_started" THEN "none" ELSE a
    BY <2>1, <2>2, <2>3, Responded
  <2>7. DoneOK'
    BY <1>0, <2>2, <2>4, <2>5, <2>6 DEF DoneOK, Done, Kept
  <2>8. a = "ok" => \A w \in pending[n] : w.from \in Calls =>
                       \/ call[w.from].op = "status"
                       \/ runs'[call[w.from].name] > 0 \/ call[w.from].name \in masked'
    BY <2>1, <2>3, <2>5, Waiters, StatusOfStatus DEF Done
  <2> QED
    BY <2>3, <2>5, <2>6, <2>7, <2>8, CompletedHeard
<1>2. CASE CompanionBegins
  <2> DEFINE n == Head(down).name  r == [stage |-> "queued", instance |-> binding.instance]
  <2>1. /\ exec' = [exec EXCEPT ![n] = r] /\ UNCHANGED <<call, journal, runs, masked>>
    BY <1>2 DEF CompanionBegins, consumer, broker, history
  <2>2. r.stage = "queued"
    OBVIOUS
  <2> HIDE DEF n, r
  <2>3. DoneOK'
    BY <2>1, <2>2 DEF DoneOK, Done, TypeOK
  <2> QED
    BY <2>1, <2>3, CompletedKept DEF Kept
<1>3. ASSUME NEW n \in Names, Applies(n) PROVE DoneOK' /\ CompletedIsTrue'
  <2>1. /\ UNCHANGED <<call, journal, masked>> /\ runs' = [runs EXCEPT ![n] = @ + 1]
        /\ exec' = [exec EXCEPT ![n].stage = "applied"]
    BY <1>3 DEF Applies, consumer, broker
  <2>2. Kept /\ runs'[n] > 0
    BY <2>1 DEF TypeOK, Kept
  <2>3. \A m \in Names : exec'[m].stage = "applied" => m = n \/ exec[m].stage = "applied"
    BY <2>1 DEF TypeOK
  <2>4. DoneOK'
    BY <1>0, <2>1, <2>2, <2>3 DEF DoneOK, Done, Kept
  <2> QED
    BY <2>1, <2>2, <2>4, CompletedKept
<1>4. ASSUME NEW n \in Names, NEW a \in Answers, Replied(n, a),
             a \in {"ok", "partial"} => exec[n].stage = "applied"
      PROVE  DoneOK' /\ CompletedIsTrue'
  <2> DEFINE b == Delivered(n, a)
  <2>1. /\ exec' = [exec EXCEPT ![n] = NoExec] /\ Respond(n, b) /\ UNCHANGED runs
        /\ masked' = IF a = "refused" /\ ~LineageCurrent(n) THEN masked \cup {n} ELSE masked
    BY <1>4 DEF Replied
  <2>2. b \in Answers /\ (b = "ok" => a \in {"ok", "partial"} \/ (a = "refused" /\ ~LineageCurrent(n)))
    BY DeliveredAnswer
  <2> HIDE DEF b
  <2>3. b = "ok" => Done(n)'
    BY <1>4, <2>1, <2>2 DEF DoneOK, Done
  <2>4. /\ \A d \in Calls : Hears(d, pending[n], b)
        /\ \A i \in Ids : \/ journal'[i] = journal[i]
                          \/ i = n /\ journal'[i] = IF b = "not_started" THEN "none" ELSE b
    BY <2>1, <2>2, Responded
  <2>5. \A m \in Names : exec'[m].stage = "applied" => exec[m].stage = "applied"
    BY <2>1 DEF TypeOK, NoExec
  <2>6. Kept
    BY <2>1 DEF Kept
  <2>7. DoneOK'
    <3>1. \A i \in Ids : Done(i) => Done(i)'
      BY <1>0, <2>6 DEF Done, Kept
    <3>2. \A i \in Ids : journal'[i] # "not_started" /\ (journal'[i] = "ok" => Done(i)')
      BY <2>3, <2>4, <3>1 DEF DoneOK
    <3> QED
      BY <2>1, <2>5, <3>2 DEF DoneOK, Done
  <2>8. b = "ok" => \A w \in pending[n] : w.from \in Calls =>
                       \/ call[w.from].op = "status"
                       \/ runs'[call[w.from].name] > 0 \/ call[w.from].name \in masked'
    BY <2>3, Waiters DEF Done
  <2> QED
    BY <2>2, <2>4, <2>6, <2>7, <2>8, CompletedHeard
<1>5. ASSUME NEW n \in Names, NEW a \in Answers, Rejects(n) \/ PageRejects(n, a) \/ Answered(n, a)
      PROVE  DoneOK' /\ CompletedIsTrue'
  BY <1>4, <1>5 DEF Rejects, PageRejects, Answered, Answers, Results
<1>6. ASSUME NEW n \in Names, ActStarts(n) \/ ActSent(n) PROVE DoneOK' /\ CompletedIsTrue'
  <2>0. exec \in [Names -> Execs]
    BY DEF TypeOK
  <2>1. /\ UNCHANGED <<call, journal, runs, masked>>
        /\ \A m \in Names : exec'[m].stage = "applied" => exec[m].stage = "applied"
    <3>1. CASE ActStarts(n)
      BY <2>0, <3>1 DEF ActStarts, consumer, broker, history
    <3>2. CASE ActSent(n)
      BY <2>0, <3>2 DEF ActSent, consumer, broker, history
    <3> QED
      BY <1>6, <3>1, <3>2
  <2> QED
    BY <2>1, CompletedKept DEF DoneOK, Done, Kept
<1>7. CASE CompanionCancels \/ UserBinds \/ BindingEnds
  <2>1. UNCHANGED <<call, journal, exec, runs, masked>>
    BY <1>7 DEF CompanionCancels, UserBinds, BindingEnds, consumer, broker, history
  <2> QED
    BY <2>1, CompletedKept DEF DoneOK, Done, Kept
<1>8. Answers # {}
  BY DEF Answers
<1> QED
  BY <1>1, <1>2, <1>3, <1>5, <1>6, <1>7, <1>8 DEF Extension

LEMMA DoneStep ==
    TypeOK /\ CallsOK /\ FramesOK /\ DoneOK /\ CompletedIsTrue /\ [Next]_vars
        => DoneOK' /\ CompletedIsTrue'
<1>1. DoneOK /\ CompletedIsTrue /\ UNCHANGED vars => DoneOK' /\ CompletedIsTrue'
  BY DEF DoneOK, Done, CompletedIsTrue, vars, consumer, broker, companion, history
<1> QED
  BY <1>1, DoneConsumer, DoneHost, DoneExtension DEF Next

-----------------------------------------------------------------------------
(* What is reported as not started.                                        *)

Waiting(d) == call[d].stage = "connecting" \/ call[d].outcome = "not_started"

LEMMA NothingIsPath == \A i : Nothing(i) => PathOK(i)
BY DEF Nothing, PathOK, Queued, Idle, Under, Single

LEMMA NothingIsPathNext == \A i : Nothing(i)' => PathOK(i)'
BY DEF Nothing, PathOK, Queued, Idle, Under, Single

\* The requests for i in the native pipe stay, or go.
PipeKept(i) ==
    /\ Queued(i)' => Queued(i)
    /\ Single(i) => Single(i)'

LEMMA PathKept ==
    ASSUME NEW i, PathOK(i), \A d \in Calls : Keeps(d),
           OnWire(i)' => OnWire(i), PipeKept(i),
           exec'[i].stage = exec[i].stage, runs'[i] = runs[i],
           \A d \in Calls : call[d].name = i /\ Waiting(d)' => Waiting(d)
    PROVE  PathOK(i)'
<1>1. \A d \in Calls : call'[d].name = call[d].name
  BY DEF Keeps
<1>2. Nothing(i) => Nothing(i)'
  BY DEF Nothing, Idle, PipeKept
<1>3. (\A c \in Calls : call'[c].name # i) => Nothing(i)'
  BY <1>1, <1>2 DEF PathOK
<1>4. \A c \in Calls : /\ call'[c].name = i
                       /\ call'[c].stage = "connecting" \/ call'[c].outcome = "not_started"
                       => Nothing(i)'
  BY <1>1, <1>2 DEF PathOK, Waiting
<1>5. OnWire(i)' => ~Queued(i)' /\ Idle(i)'
  BY DEF PathOK, PipeKept, Idle
<1>6. Queued(i)' => Idle(i)'
  BY DEF PathOK, PipeKept, Idle
<1>7. Under(i)' => ~OnWire(i)' /\ ~Queued(i)' /\ runs'[i] = 0
  BY DEF PathOK, PipeKept, Under
<1>8. Single(i)'
  BY DEF PathOK, PipeKept
<1> QED
  BY <1>3, <1>4, <1>5, <1>6, <1>7, <1>8 DEF PathOK

LEMMA OneUserKept ==
    ASSUME NEW i, \A d \in Calls : Keeps(d), OneUser(i)'
    PROVE  OneUser(i)
BY DEF OneUser, Keeps

LEMMA WireKept ==
    ASSUME TypeOK, NEW i, wire' \subseteq wire, \A d \in Calls : Keeps(d)
    PROVE  OnWire(i)' => OnWire(i)
BY DEF OnWire, Keeps, TypeOK, Frames

LEMMA PipeSame ==
    ASSUME NEW i, UNCHANGED down
    PROVE  PipeKept(i)
BY DEF PipeKept, Queued, Request, Single

LEMMA PipeEmptied ==
    ASSUME NEW i, down' = <<>>
    PROVE  PipeKept(i) /\ ~Queued(i)'
BY DEF PipeKept, Queued, Request, Single

LEMMA PipeAppends ==
    ASSUME TypeOK, NEW i, NEW m \in Messages, down' = Append(down, m), m # Request(i)
    PROVE  PipeKept(i)
<1>1. /\ Len(down') = Len(down) + 1 /\ Len(down) \in Nat
      /\ \A k \in 1..Len(down) : down'[k] = down[k]
      /\ down'[Len(down) + 1] = m
  BY DEF TypeOK
<1>2. \A k \in 1..Len(down') : down'[k] = Request(i) => k \in 1..Len(down) /\ down[k] = Request(i)
  BY <1>1
<1> QED
  BY <1>1, <1>2 DEF PipeKept, Queued, Request, Single

LEMMA PipeTaken ==
    ASSUME TypeOK, NEW i, down # <<>>, down' = Tail(down)
    PROVE  /\ PipeKept(i)
           /\ Single(i) /\ Head(down) = Request(i) => ~Queued(i)'
<1>0. down \in Seq(Messages)
  BY DEF TypeOK
<1>1. /\ Len(down') = Len(down) - 1 /\ Len(down) \in Nat \ {0}
      /\ \A k \in 1..Len(down') : down'[k] = down[k + 1]
      /\ Head(down) = down[1]
  BY <1>0, HeadTailProperties, EmptySeq
<1>2. \A k \in 1..Len(down') : k + 1 \in 1..Len(down) /\ k + 1 # 1
  BY <1>1
<1>3. PipeKept(i)
  <2>1. Queued(i)' => Queued(i)
    BY <1>1, <1>2 DEF Queued, Request
  <2>2. ASSUME \A j, k \in 1..Len(down) : down[j] = Request(i) /\ down[k] = Request(i) => j = k,
               NEW j \in 1..Len(down'), NEW k \in 1..Len(down'),
               down'[j] = Request(i), down'[k] = Request(i)
        PROVE  j = k
    <3>1. j + 1 = k + 1
      BY <1>1, <1>2, <2>2
    <3> QED
      BY <3>1, <1>1
  <2> QED
    BY <2>1, <2>2 DEF PipeKept, Single
<1>4. ASSUME Single(i), Head(down) = Request(i), Queued(i)' PROVE FALSE
  <2>1. PICK k \in 1..Len(down') : down'[k] = Request(i)
    BY <1>4 DEF Queued, Request
  <2>2. k + 1 \in 1..Len(down) /\ 1 \in 1..Len(down) /\ down[k + 1] = Request(i) /\ down[1] = Request(i) /\ k + 1 # 1
    BY <1>1, <1>2, <1>4, <2>1
  <2> QED
    BY <1>4, <2>2 DEF Single
<1> QED
  BY <1>3, <1>4

\* Answers to the waiters of one name do not concern the path of another, and only an
\* answer that it was not done makes a call of that name wait for proof.
LEMMA WaitingHeard ==
    ASSUME TypeOK, CallsOK, NEW i \in Ids, NEW W, NEW a \in Answers, \A d \in Calls : Hears(d, W, a),
           a \notin NotDone \/ \A w \in W : w.from \in Calls => call[w.from].name # i
    PROVE  \A d \in Calls : call[d].name = i /\ Waiting(d)' => Waiting(d)
<1> SUFFICES ASSUME NEW d \in Calls, call[d].name = i, Waiting(d)' PROVE Waiting(d)
  OBVIOUS
<1>1. CASE call'[d] = call[d]
  BY <1>1 DEF Waiting
<1>2. CASE call'[d] # call[d]
  <2> DEFINE w == [from |-> d, attempt |-> call[d].attempt]
  <2>1. w \in W /\ w.from = d /\ call'[d].stage = "ended" /\ call'[d].outcome = Told(call[d].op, a)
    BY <1>2 DEF Hears
  <2>2. call[d].op = "mutation" /\ call[d].op \in Ops
    BY BrokerAssumption DEF CallsOK, CallOK, TypeOK, CallRecords
  <2>3. Told(call[d].op, a) = "not_started"
    BY <2>1 DEF Waiting
  <2>4. a \in NotDone
    BY <2>2, <2>3, ToldIsOutcome
  <2> QED
    BY <2>1, <2>4
<1> QED
  BY <1>1, <1>2

\* The facts the steps of a path start from.
Facts == TypeOK /\ CallsOK /\ FramesOK /\ DoneOK /\ PathsOK

LEMMA FramesOfIdle ==
    ASSUME Facts, NEW c \in Calls, call[c].stage = "idle", NEW w \in wire
    PROVE  w.from # c
BY DEF Facts, FramesOK

LEMMA PathTakes ==
    ASSUME Facts, NEW i \in Ids, i \in Acts, OneUser(i)', NEW c \in Calls, NEW n \in Names,
           Takes(c), call'[c].name = n, UNCHANGED <<wire, down, exec, runs>>
    PROVE  PathOK(i)'
<1>0. call[c].stage = "idle" /\ call[c].name \notin Ids /\ call[c].outcome = "none"
  BY BrokerAssumption DEF Takes, Facts, CallsOK, CallOK
<1>1. \A w \in wire : w.from \in Calls /\ w.from # c /\ call'[w.from] = call[w.from]
  BY <1>0, FramesOfIdle DEF Facts, TypeOK, Frames, Takes
<1>2. OnWire(i)' <=> OnWire(i)
  BY <1>1 DEF OnWire
<1>3. CASE n = i
  <2>1. \A d \in Calls : call[d].name # i
    <3> SUFFICES ASSUME NEW d \in Calls, call[d].name = i PROVE FALSE
      OBVIOUS
    <3>1. d # c /\ call'[d] = call[d]
      BY <1>0 DEF Takes
    <3> QED
      BY <3>1, <1>3 DEF OneUser
  <2>2. OneUser(i)
    BY <2>1 DEF OneUser
  <2>3. Nothing(i)
    BY <2>1, <2>2 DEF Facts, PathsOK, PathOK
  <2>4. Nothing(i)'
    BY <2>3, <1>2 DEF Nothing, Idle, Queued, Request
  <2> QED
    BY <2>4, NothingIsPathNext
<1>4. CASE n # i
  <2>1. \A d \in Calls : call[d].name = i <=> call'[d].name = i
    BY <1>0, <1>4 DEF Takes
  <2>2. \A d \in Calls : call'[d].name = i => call'[d] = call[d]
    BY <1>4 DEF Takes
  <2>3. OneUser(i)
    BY <2>1 DEF OneUser
  <2>4. PathOK(i)
    BY <2>3 DEF Facts, PathsOK
  <2>5. (Nothing(i) <=> Nothing(i)') /\ (Queued(i) <=> Queued(i)') /\ (Idle(i) <=> Idle(i)')
    BY <1>2 DEF Nothing, Idle, Queued, Request
  <2> QED
    BY <2>1, <2>2, <2>4, <2>5, <1>2 DEF PathOK, Under, Request, Single
<1> QED
  BY <1>3, <1>4

LEMMA PathConsumer ==
    ASSUME Facts, NEW i \in Ids, i \in Acts, OneUser(i)', Consumer
    PROVE  PathOK(i)'
<1>0. PICK c \in Calls :
        \/ \E op \in OpsOf[c], n \in Names : Start(c, op, n) \/ Refused(c, op, n)
        \/ Connect(c) \/ ConnectFails(c) \/ ConnectionLost(c) \/ ClientTimesOut(c)
        \/ TryAgain(c) \/ Abort(c)
  BY DEF Consumer
<1>1. UNCHANGED <<down, exec, runs>> /\ TypeOK /\ CallsOK
  BY <1>0 DEF Start, Refused, Connect, ConnectFails, ConnectionLost, ClientTimesOut, TryAgain, Abort,
              broker, companion, history, Facts
<1>2. PipeKept(i)
  BY <1>1, PipeSame
<1>3. CASE \E op \in OpsOf[c], n \in Names : Start(c, op, n) \/ Refused(c, op, n)
  <2>1. PICK op \in OpsOf[c], n \in Names : Start(c, op, n) \/ Refused(c, op, n)
    BY <1>3
  <2>2. op \in Ops
    BY BrokerAssumption
  <2>3. Takes(c) /\ call'[c].name = n
    BY <1>1, <2>1, <2>2, DoesStart, DoesRefused
  <2>4. wire' = wire
    BY <2>1 DEF Start, Refused
  <2> QED
    BY <1>1, <2>3, <2>4, PathTakes
<1>4. CASE Connect(c)
  <2>1. /\ Moved /\ call'[c].stage = "sent" /\ call'[c].outcome = call[c].outcome
        /\ \A d \in Calls \ {c} : call'[d] = call[d]
    BY <1>1, <1>4, DoesConnect
  <2>2. OneUser(i) /\ PathOK(i)
    BY <2>1, OneUserKept DEF Moved, Facts, PathsOK
  <2>3. call[c].stage = "connecting" /\ call[c].outcome = "none"
    BY <1>1, <1>4 DEF Connect, CallsOK, CallOK
  <2>4. CASE call[c].name = i
    <3>1. Nothing(i)
      BY <2>2, <2>3, <2>4 DEF PathOK
    <3>2. ~Queued(i)' /\ Idle(i)'
      BY <1>1, <3>1 DEF Nothing, Queued, Idle, Request
    <3>3. ~Under(i)' /\ \A d \in Calls : call'[d].name = i => ~Waiting(d)'
      BY <2>1, <2>2, <2>3, <2>4, <3>2 DEF OneUser, Moved, Keeps, Waiting, Idle, Under
    <3>4. call'[c].name = i
      BY <2>1, <2>4 DEF Moved, Keeps
    <3> QED
      BY <3>2, <3>3, <3>4 DEF PathOK, Queued, Idle, Waiting, Single
  <2>5. CASE call[c].name # i
    <3> DEFINE w0 == [from |-> c, attempt |-> call[c].attempt]
    <3>1. wire' = wire \cup {w0} /\ w0.from = c
      BY <1>4 DEF Connect
    <3> HIDE DEF w0
    <3>2. OnWire(i)' => OnWire(i)
      BY <1>1, <2>1, <2>5, <3>1 DEF OnWire, Moved, Keeps, TypeOK, Frames
    <3>3. \A d \in Calls : call[d].name = i /\ Waiting(d)' => Waiting(d)
      BY <2>1, <2>5 DEF Waiting
    <3> QED
      BY <1>1, <1>2, <2>1, <2>2, <3>2, <3>3, PathKept DEF Moved
  <2> QED
    BY <2>4, <2>5
<1>5. CASE ConnectFails(c) \/ ConnectionLost(c) \/ ClientTimesOut(c)
  <2>1. /\ Moved /\ call'[c].stage \in {"backoff", "ended"}
        /\ call[c].op = "mutation" /\ call'[c].outcome = "not_started" => call[c].stage = "connecting"
        /\ \A d \in Calls \ {c} : call'[d] = call[d]
    BY <1>1, <1>5, DoesFail
  <2>2. OneUser(i) /\ PathOK(i) /\ wire' = wire
    BY <2>1, <1>5, OneUserKept DEF Moved, Facts, PathsOK, ConnectFails, ConnectionLost, ClientTimesOut
  <2>3. OnWire(i)' => OnWire(i)
    BY <1>1, <2>1, <2>2, WireKept DEF Moved
  <2>4. call[c].name = i => call[c].op = "mutation"
    BY <1>1, BrokerAssumption DEF CallsOK, CallOK
  <2>5. \A d \in Calls : call[d].name = i /\ Waiting(d)' => Waiting(d)
    BY <2>1, <2>4 DEF Waiting
  <2> QED
    BY <1>1, <1>2, <2>1, <2>2, <2>3, <2>5, PathKept DEF Moved
<1>6. CASE TryAgain(c)
  <2>1. Moved /\ call[c].op # "mutation" /\ \A d \in Calls \ {c} : call'[d] = call[d]
    BY <1>1, <1>6, DoesTryAgain
  <2>2. OneUser(i) /\ PathOK(i) /\ wire' = wire
    BY <2>1, <1>6, OneUserKept DEF Moved, Facts, PathsOK, TryAgain
  <2>3. OnWire(i)' => OnWire(i)
    BY <1>1, <2>1, <2>2, WireKept DEF Moved
  <2>4. call[c].name # i
    BY <1>1, <2>1, BrokerAssumption DEF CallsOK, CallOK
  <2>5. \A d \in Calls : call[d].name = i /\ Waiting(d)' => Waiting(d)
    BY <2>1, <2>4 DEF Waiting
  <2> QED
    BY <1>1, <1>2, <2>1, <2>2, <2>3, <2>5, PathKept DEF Moved
<1>7. CASE Abort(c)
  <2>1. /\ Moved /\ call'[c].stage = call[c].stage /\ call'[c].outcome = call[c].outcome
        /\ \A d \in Calls \ {c} : call'[d] = call[d]
    BY <1>1, <1>7, DoesAbort
  <2>2. OneUser(i) /\ PathOK(i)
    BY <2>1, OneUserKept DEF Moved, Facts, PathsOK
  <2> DEFINE w0 == [from |-> c, attempt |-> 0]
  <2>3. wire' \subseteq wire \cup {w0} /\ w0.attempt = 0
    BY <1>7 DEF Abort
  <2> HIDE DEF w0
  <2>4. OnWire(i)' => OnWire(i)
    BY <1>1, <2>1, <2>3 DEF OnWire, Moved, Keeps, TypeOK, Frames
  <2>5. \A d \in Calls : call[d].name = i /\ Waiting(d)' => Waiting(d)
    BY <2>1 DEF Waiting
  <2> QED
    BY <1>1, <1>2, <2>1, <2>2, <2>4, <2>5, PathKept DEF Moved
<1> QED
  BY <1>0, <1>3, <1>4, <1>5, <1>6, <1>7

\* A mutation is asked for in one frame only.
LEMMA OneFrame ==
    ASSUME Facts, NEW i \in Ids, OneUser(i), NEW w \in wire, w.attempt # 0, call[w.from].name = i,
           wire' = wire \ {w}, \A d \in Calls : Keeps(d)
    PROVE  ~OnWire(i)'
<1> SUFFICES ASSUME NEW v \in wire, v # w, v.attempt # 0, call'[v.from].name = i PROVE FALSE
  BY DEF OnWire
<1>1. v.from \in Calls /\ w.from \in Calls /\ v \in Frames /\ w \in Frames
  BY DEF Facts, TypeOK, Frames
<1>2. call[v.from].name = i /\ v.from = w.from
  BY <1>1 DEF Keeps, OneUser
<1>3. call[w.from].op = "mutation"
  BY <1>1, BrokerAssumption DEF Facts, CallsOK, CallOK
<1>4. v.attempt = 1 /\ w.attempt = 1
  BY <1>2, <1>3 DEF Facts, FramesOK
<1> QED
  BY <1>1, <1>2, <1>4 DEF Frames

LEMMA PathHost ==
    ASSUME Facts, NEW i \in Ids, i \in Acts, OneUser(i)', Host
    PROVE  PathOK(i)'
<1>0. UNCHANGED <<exec, runs>> /\ TypeOK /\ CallsOK /\ FramesOK /\ DoneOK
  BY DEF Host, HostCancels, HostRefuses, HostJoins, HostReplays, HostForwards, HostTimesOut, LateExpires,
         HostExits, HostStarts, Hello, companion, history, Facts
<1>1. ASSUME NEW W, NEW a \in Answers, \A d \in Calls : Hears(d, W, a) /\ Keeps(d), wire' \subseteq wire,
             PipeKept(i), a \notin NotDone \/ \A w \in W : w.from \in Calls => call[w.from].name # i
      PROVE  PathOK(i)'
  <2>1. OneUser(i) /\ PathOK(i)
    BY <1>1, OneUserKept DEF Facts, PathsOK
  <2>2. OnWire(i)' => OnWire(i)
    BY <1>0, <1>1, WireKept
  <2>3. \A d \in Calls : call[d].name = i /\ Waiting(d)' => Waiting(d)
    BY <1>0, <1>1, WaitingHeard
  <2> QED
    BY <1>0, <1>1, <2>1, <2>2, <2>3, PathKept
<1>2. ASSUME UNCHANGED call, wire' \subseteq wire, PipeKept(i) PROVE PathOK(i)'
  <2>1. \A d \in Calls : Hears(d, {}, "ok") /\ Keeps(d)
    BY <1>2 DEF Hears, Keeps
  <2> QED
    BY <1>1, <1>2, <2>1 DEF Answers, Results
<1>3. ASSUME NEW w \in Frames,
             \/ HostCancels(w) \/ HostRefuses(w) \/ HostJoins(w) \/ HostReplays(w)
             \/ \E written \in BOOLEAN : HostForwards(w, written)
      PROVE  PathOK(i)'
  <2> DEFINE n == call[w.from].name
  <2>0. n \in Names /\ w.from \in Calls
    BY <1>0, FrameNames
  <2>1. w \in wire /\ wire' = wire \ {w}
    BY <1>3 DEF HostCancels, HostRefuses, HostJoins, HostReplays, HostForwards, Read
  <2>2. CASE HostCancels(w)
    <3> DEFINE m == [type |-> "cancel", name |-> n]
    <3>1. m \in Messages /\ m # Request(i)
      BY <2>0 DEF Messages, Request
    <3>2. UNCHANGED call /\ (down' = Append(down, m) \/ UNCHANGED down)
      BY <2>2 DEF HostCancels
    <3> HIDE DEF m
    <3>3. PipeKept(i)
      BY <1>0, <3>1, <3>2, PipeAppends, PipeSame
    <3> QED
      BY <1>2, <2>1, <3>2, <3>3
  \* The request goes with the frame that asked for it, whatever its call is told.
  <2>3. ASSUME NEW a \in Answers, AnswerAll({w}, a), UNCHANGED down, w.attempt # 0
        PROVE  PathOK(i)'
    <3>2. \A d \in Calls : Hears(d, {w}, a) /\ Keeps(d)
      BY <1>0, <2>3, Heard
    <3>3. CASE n = i
      <4>1. OneUser(i) /\ PathOK(i)
        BY <3>2, OneUserKept DEF Facts, PathsOK
      <4>2. ~Queued(i) /\ Idle(i)
        BY <2>1, <2>3, <3>3, <4>1 DEF OnWire, PathOK
      <4>3. ~OnWire(i)'
        BY <2>1, <2>3, <3>2, <3>3, <4>1, OneFrame
      <4>4. Nothing(i)'
        BY <1>0, <2>3, <4>2, <4>3 DEF Nothing, Queued, Idle, Request
      <4> QED
        BY <4>4, NothingIsPathNext
    <3>4. CASE n # i
      BY <1>1, <2>1, <2>3, <3>2, <3>4, PipeSame
    <3> QED
      BY <3>3, <3>4
  <2>4. CASE HostJoins(w)
    BY <1>2, <2>1, <2>4, PipeSame DEF HostJoins
  <2>5. CASE HostRefuses(w) \/ HostReplays(w)
    <3>1. CASE HostRefuses(w)
      BY <2>3, <3>1 DEF HostRefuses, Answers
    <3>2. CASE HostReplays(w)
      <4>1. AnswerAll({w}, Recalled(n)) /\ UNCHANGED down /\ w.attempt # 0 /\ n \in Ids /\ journal[n] # "none"
        BY <3>2 DEF HostReplays, Durable
      <4>2. Recalled(n) \in Answers
        BY <1>0, <4>1, ReplayedAnswer
      <4> QED
        BY <2>3, <4>1, <4>2
    <3> QED
      BY <2>5, <3>1, <3>2
  <2>6. ASSUME NEW written \in BOOLEAN, HostForwards(w, written) PROVE PathOK(i)'
    <3>1. CASE ~written
      <4> DEFINE a == IF Durable(n) THEN "unknown" ELSE "not_started"
      <4>1. AnswerAll({w}, a) /\ UNCHANGED down /\ w.attempt # 0
        BY <2>6, <3>1 DEF HostForwards
      <4>2. a \in Answers
        BY DEF Answers, Results
      <4> QED
        BY <2>3, <4>1, <4>2
    <3>2. CASE written
      <4>1. UNCHANGED call /\ down' = Append(down, Request(n)) /\ w.attempt # 0
        BY <2>6, <3>2 DEF HostForwards, Request
      <4>2. Request(n) \in Messages
        BY <2>0 DEF Messages, Request
      <4>3. CASE n # i
        <5>1. Request(n) # Request(i)
          BY <4>3 DEF Request
        <5>2. PipeKept(i)
          BY <1>0, <4>1, <4>2, <5>1, PipeAppends
        <5> QED
          BY <1>2, <2>1, <4>1, <5>2
      <4>4. CASE n = i
        <5>1. \A d \in Calls : Keeps(d)
          BY <4>1, StillKeeps
        <5>2. OneUser(i) /\ PathOK(i)
          BY <5>1, OneUserKept DEF Facts, PathsOK
        <5>3. OnWire(i) /\ ~Queued(i) /\ Idle(i)
          BY <2>1, <4>1, <4>4, <5>2 DEF OnWire, PathOK
        <5>4. ~OnWire(i)'
          BY <2>1, <4>1, <4>4, <5>1, <5>2, OneFrame
        <5>5. Idle(i)'
          BY <1>0, <5>3 DEF Idle
        <5>6. \A d \in Calls : call'[d].name = i => ~Waiting(d)'
          BY <4>1, <5>2, <5>3 DEF PathOK, Nothing, Waiting
        <5>7. /\ Len(down') = Len(down) + 1 /\ Len(down) \in Nat
              /\ \A k \in 1..Len(down) : down'[k] = down[k]
          BY <1>0, <4>1 DEF TypeOK
        <5>8. \A k \in 1..Len(down') : down'[k] = Request(i) => k = Len(down')
          BY <5>3, <5>7 DEF Queued
        <5> QED
          BY <2>0, <4>1, <4>4, <5>4, <5>5, <5>6, <5>8 DEF PathOK, Waiting, Idle, Under, Request, Single
      <4> QED
        BY <4>3, <4>4
    <3> QED
      BY <3>1, <3>2
  <2> QED
    BY <1>3, <2>2, <2>4, <2>5, <2>6
<1>4. ASSUME NEW n \in Names, HostTimesOut(n) PROVE PathOK(i)'
  <2>1. AnswerAll(pending[n], "unknown") /\ UNCHANGED <<wire, down>>
    BY <1>4 DEF HostTimesOut
  <2>2. \A d \in Calls : Hears(d, pending[n], "unknown") /\ Keeps(d)
    BY <1>0, <2>1, Heard DEF Answers
  <2> QED
    BY <1>1, <2>1, <2>2, PipeSame DEF Answers, NotDone
<1>5. ASSUME (\E n \in Names : LateExpires(n)) \/ HostStarts \/ Hello PROVE PathOK(i)'
  <2>1. UNCHANGED <<call, wire, down>>
    BY <1>5 DEF LateExpires, HostStarts, Hello, consumer
  <2> QED
    BY <1>2, <2>1, PipeSame
<1>6. CASE HostExits
  BY <1>2, <1>6, PipeEmptied DEF HostExits
<1> QED
  BY <1>3, <1>4, <1>5, <1>6 DEF Host

LEMMA PathExtension ==
    ASSUME Facts, NEW i \in Ids, i \in Acts, OneUser(i)', Extension
    PROVE  PathOK(i)'
<1>0. /\ wire' = wire /\ TypeOK /\ CallsOK /\ FramesOK /\ i \in Names
      /\ OpOf(i) = "mutation" /\ Durable(i)
  BY DEF Extension, CompanionAnswers, CompanionBegins, CompanionCancels, ActStarts, ActSent, Applies, Rejects,
         PageRejects, Answered, Replied, UserBinds, BindingEnds, consumer, Facts, Names, OpOf, Durable
\* A step that may answer the waiters of a name.
<1>1. ASSUME NEW n \in Names, NEW a \in Answers,
             \A d \in Calls : Hears(d, pending[n], a) /\ Keeps(d),
             PipeKept(i), exec'[i].stage = exec[i].stage, runs'[i] = runs[i],
             a \notin NotDone \/ n # i
      PROVE  PathOK(i)'
  <2>1. OneUser(i) /\ PathOK(i)
    BY <1>1, OneUserKept DEF Facts, PathsOK
  <2>2. OnWire(i)' => OnWire(i)
    BY <1>0, <1>1, WireKept
  <2>3. \A d \in Calls : call[d].name = i /\ Waiting(d)' => Waiting(d)
    BY <1>0, <1>1, Waiters, WaitingHeard
  <2> QED
    BY <1>1, <2>1, <2>2, <2>3, PathKept
\* A step that answers nobody.
<1>2. ASSUME UNCHANGED call
      PROVE  /\ OneUser(i) /\ PathOK(i) /\ \A d \in Calls : Keeps(d)
             /\ (OnWire(i)' => OnWire(i)) /\ \A d \in Calls : Waiting(d)' <=> Waiting(d)
  <2>1. \A d \in Calls : Keeps(d)
    BY <1>2, StillKeeps
  <2>2. OneUser(i) /\ PathOK(i)
    BY <2>1, OneUserKept DEF Facts, PathsOK
  <2> QED
    BY <1>0, <1>2, <2>1, <2>2, WireKept DEF Waiting
<1>3. ASSUME NEW applies \in BOOLEAN, CompanionAnswers(applies) PROVE PathOK(i)'
  <2> DEFINE n == Head(down).name
             a == IF applies \/ OpOf(n) = "status" THEN "ok" ELSE "not_started"
  <2>1. down # <<>> /\ down' = Tail(down) /\ Head(down).type = "request"
    BY <1>3 DEF CompanionAnswers, Taken
  <2>2. Head(down) \in Messages /\ n \in Names
    BY <1>0, <2>1, MessageNames
  <2>3. Head(down) = Request(n)
    BY <2>1, <2>2 DEF Messages, Request
  <2>4. /\ Respond(n, a) /\ UNCHANGED exec
        /\ runs' = IF applies THEN [runs EXCEPT ![n] = @ + 1] ELSE runs
        /\ applies => OpOf(n) = "control"
    BY <1>3 DEF CompanionAnswers
  <2>5. a \in Answers
    BY DEF Answers, Results
  <2>6. n = i => ~applies
    BY <1>0, <2>4
  <2> HIDE DEF n, a
  <2>7. runs'[i] = runs[i]
    BY <1>0, <2>2, <2>4, <2>6 DEF TypeOK
  <2>8. \A d \in Calls : Hears(d, pending[n], a) /\ Keeps(d)
    BY <1>0, <2>2, <2>4, <2>5, Responded
  <2>9. PipeKept(i)
    BY <1>0, <2>1, PipeTaken
  <2>10. CASE n # i
    BY <1>1, <2>2, <2>4, <2>5, <2>7, <2>8, <2>9, <2>10
  <2>11. CASE n = i
    <3>1. OneUser(i) /\ PathOK(i)
      BY <2>8, OneUserKept DEF Facts, PathsOK
    <3>2. Queued(i)
      <4>1. Len(down) \in Nat \ {0} /\ Head(down) = down[1]
        BY <1>0, <2>1, EmptySeq DEF TypeOK
      <4> QED
        BY <4>1, <2>3, <2>11 DEF Queued
    <3>3. Idle(i) /\ ~OnWire(i)
      BY <3>1, <3>2 DEF PathOK
    <3>4. ~OnWire(i)'
      BY <1>0, <2>8, <3>3, WireKept
    <3>5. ~Queued(i)'
      BY <1>0, <2>1, <2>3, <2>11, <3>1, PipeTaken DEF PathOK
    <3>6. Nothing(i)'
      BY <2>4, <2>7, <3>3, <3>4, <3>5 DEF Nothing, Idle
    <3> QED
      BY <3>6, NothingIsPathNext
  <2> QED
    BY <2>10, <2>11
<1>4. CASE CompanionBegins
  <2> DEFINE n == Head(down).name  r == [stage |-> "queued", instance |-> binding.instance]
  <2>1. /\ down # <<>> /\ down' = Tail(down) /\ Head(down).type = "request"
        /\ UNCHANGED <<call, runs>> /\ exec' = [exec EXCEPT ![n] = r]
    BY <1>4 DEF CompanionBegins, Taken, consumer, history
  <2>2. Head(down) \in Messages /\ n \in Names
    BY <1>0, <2>1, MessageNames
  <2>3. Head(down) = Request(n) /\ r.stage = "queued"
    BY <2>1, <2>2 DEF Messages, Request
  <2> HIDE DEF n, r
  <2>4. PipeKept(i)
    BY <1>0, <2>1, PipeTaken
  <2>5. CASE n # i
    <3>1. exec'[i].stage = exec[i].stage
      BY <1>0, <2>1, <2>5 DEF TypeOK
    <3> QED
      BY <1>2, <2>1, <2>4, <3>1, PathKept
  <2>6. CASE n = i
    <3>1. Queued(i)
      <4>1. Len(down) \in Nat \ {0} /\ Head(down) = down[1]
        BY <1>0, <2>1, EmptySeq DEF TypeOK
      <4> QED
        BY <4>1, <2>3, <2>6 DEF Queued
    <3>2. Idle(i) /\ ~OnWire(i) /\ ~Nothing(i)
      BY <1>2, <2>1, <3>1 DEF PathOK, Nothing
    <3>3. ~OnWire(i)'
      BY <1>2, <2>1, <3>2
    <3>4. ~Queued(i)'
      BY <1>0, <1>2, <2>1, <2>3, <2>6, PipeTaken DEF PathOK
    <3>5. exec'[i].stage = "queued" /\ runs'[i] = 0
      BY <1>0, <2>1, <2>3, <2>6, <3>2 DEF TypeOK, Idle
    <3>6. (\E d \in Calls : call'[d].name = i) /\ \A d \in Calls : call'[d].name = i => ~Waiting(d)'
      BY <1>2, <2>1, <3>2 DEF PathOK, Waiting
    <3> QED
      BY <3>3, <3>4, <3>5, <3>6 DEF PathOK, Waiting, Queued, Request, Single
  <2> QED
    BY <2>5, <2>6
<1>5. CASE CompanionCancels
  <2>1. down # <<>> /\ down' = Tail(down) /\ UNCHANGED <<call, exec, runs>>
    BY <1>5 DEF CompanionCancels, Taken, consumer, history
  <2>2. PipeKept(i)
    BY <1>0, <2>1, PipeTaken
  <2> QED
    BY <1>2, <2>1, <2>2, PathKept
<1>6. ASSUME NEW n \in Names, Applies(n) PROVE PathOK(i)'
  <2>1. /\ UNCHANGED <<call, down>> /\ (n \in Acts => exec[n].stage = "sent")
        /\ runs' = [runs EXCEPT ![n] = @ + 1] /\ exec' = [exec EXCEPT ![n].stage = "applied"]
    BY <1>6 DEF Applies, consumer
  <2>2. CASE n # i
    <3>1. exec'[i].stage = exec[i].stage /\ runs'[i] = runs[i]
      BY <1>0, <2>1, <2>2 DEF TypeOK
    <3> QED
      BY <1>2, <2>1, <3>1, PipeSame, PathKept
  <2>3. CASE n = i
    <3>1. ~OnWire(i) /\ ~Queued(i) /\ ~Nothing(i)
      BY <1>2, <2>1, <2>3 DEF PathOK, Nothing, Idle, Under
    <3>2. ~OnWire(i)' /\ ~Queued(i)'
      BY <1>2, <2>1, <3>1 DEF Queued, Request
    <3>3. exec'[i].stage = "applied"
      BY <1>0, <2>1, <2>3 DEF TypeOK, Execs
    <3>4. (\E d \in Calls : call'[d].name = i) /\ \A d \in Calls : call'[d].name = i => ~Waiting(d)'
      BY <1>2, <2>1, <3>1 DEF PathOK, Waiting
    <3> QED
      BY <3>2, <3>3, <3>4 DEF PathOK, Waiting, Queued, Under, Request, Single
  <2> QED
    BY <2>2, <2>3
<1>7. ASSUME NEW n \in Names, NEW a \in Answers, Replied(n, a),
             \/ Under(n)
             \/ exec[n].stage = "applied" /\ (n = i => a \notin NotDone)
      PROVE  PathOK(i)'
  <2> DEFINE b == Delivered(n, a)
  <2>1. exec' = [exec EXCEPT ![n] = NoExec] /\ Respond(n, b) /\ UNCHANGED <<down, runs>>
    BY <1>7 DEF Replied
  <2>2. b \in Answers /\ (n = i /\ a \notin NotDone => b \notin NotDone)
    BY DeliveredAnswer
  <2> HIDE DEF b
  <2>3. \A d \in Calls : Hears(d, pending[n], b) /\ Keeps(d)
    BY <1>0, <2>1, <2>2, Responded
  <2>4. CASE n # i
    <3>1. exec'[i].stage = exec[i].stage
      BY <1>0, <2>1, <2>4 DEF TypeOK
    <3> QED
      BY <1>1, <2>1, <2>2, <2>3, <2>4, <3>1, PipeSame
  <2>5. CASE n = i
    <3>1. OneUser(i) /\ PathOK(i)
      BY <2>3, OneUserKept DEF Facts, PathsOK
    <3>2. exec'[i].stage = "idle"
      BY <1>0, <2>1, <2>5 DEF TypeOK, NoExec
    <3>3. ~OnWire(i) /\ ~Queued(i) /\ ~Nothing(i)
      BY <1>7, <2>5, <3>1 DEF PathOK, Nothing, Idle, Under
    <3>4. ~OnWire(i)' /\ ~Queued(i)'
      BY <1>0, <2>1, <2>3, <3>3, WireKept DEF Queued, Request
    <3>5. CASE Under(i)
      <4>1. Nothing(i)'
        BY <2>1, <3>1, <3>2, <3>4, <3>5 DEF PathOK, Nothing, Idle
      <4> QED
        BY <4>1, NothingIsPathNext
    <3>6. CASE ~Under(i)
      <4>1. \A d \in Calls : call[d].name = i /\ Waiting(d)' => Waiting(d)
        BY <1>0, <1>7, <2>2, <2>3, <2>5, <3>6, WaitingHeard
      <4>2. (\E d \in Calls : call[d].name = i) /\ \A d \in Calls : call[d].name = i => ~Waiting(d)
        BY <3>1, <3>3 DEF PathOK, Waiting
      <4>3. (\E d \in Calls : call'[d].name = i) /\ \A d \in Calls : call'[d].name = i => ~Waiting(d)'
        BY <2>3, <4>1, <4>2 DEF Keeps
      <4> QED
        BY <3>2, <3>4, <4>3 DEF PathOK, Waiting, Queued, Under, Request, Single
    <3> QED
      BY <3>5, <3>6
  <2> QED
    BY <2>4, <2>5
<1>8. ASSUME NEW n \in Names, NEW a \in Answers, Rejects(n) \/ PageRejects(n, a) \/ Answered(n, a)
      PROVE  PathOK(i)'
  <2>1. Operations \cap Acts = {}
    BY DEF Acts
  <2> QED
    BY <1>7, <1>8, <2>1 DEF Rejects, PageRejects, Answered, Answers, Results, NotDone, Under
<1>9. ASSUME NEW n \in Names, ActStarts(n) \/ ActSent(n) PROVE PathOK(i)'
  <2>1. /\ UNCHANGED <<call, down, runs>> /\ Under(n)
        /\ exec' = [exec EXCEPT ![n].stage = "started"] \/ exec' = [exec EXCEPT ![n].stage = "sent"]
    BY <1>9 DEF ActStarts, ActSent, Under, consumer, history
  <2>2. CASE n # i
    <3>1. exec'[i].stage = exec[i].stage
      BY <1>0, <2>1, <2>2 DEF TypeOK
    <3> QED
      BY <1>2, <2>1, <3>1, PipeSame, PathKept
  <2>3. CASE n = i
    <3>1. ~OnWire(i) /\ ~Queued(i) /\ ~Nothing(i) /\ runs[i] = 0
      BY <1>2, <2>1, <2>3 DEF PathOK, Nothing, Idle, Under
    <3>2. ~OnWire(i)' /\ ~Queued(i)' /\ runs'[i] = 0
      BY <1>2, <2>1, <3>1 DEF Queued, Request
    <3>3. (\E d \in Calls : call'[d].name = i) /\ \A d \in Calls : call'[d].name = i => ~Waiting(d)'
      BY <1>2, <2>1, <3>1 DEF PathOK, Waiting
    <3> QED
      BY <3>2, <3>3 DEF PathOK, Waiting, Queued, Request, Single
  <2> QED
    BY <2>2, <2>3
<1>10. CASE UserBinds \/ BindingEnds
  <2>1. UNCHANGED <<call, down, exec, runs>>
    BY <1>10 DEF UserBinds, BindingEnds, consumer, history
  <2> QED
    BY <1>2, <2>1, PipeSame, PathKept
<1>11. Answers # {}
  BY DEF Answers
<1> QED
  BY <1>3, <1>4, <1>5, <1>6, <1>8, <1>9, <1>10, <1>11 DEF Extension

LEMMA PathsStep == Facts /\ [Next]_vars => PathsOK'
<1> SUFFICES ASSUME Facts, [Next]_vars, NEW i \in Ids, i \in Acts, OneUser(i)' PROVE PathOK(i)'
  BY DEF PathsOK, Acts
<1>1. CASE UNCHANGED vars
  <2>1. UNCHANGED <<call, wire, down, exec, runs>>
    BY <1>1 DEF vars, consumer, companion, history
  <2>2. OneUser(i) /\ PathOK(i) /\ \A d \in Calls : Keeps(d)
    BY <2>1, StillKeeps, OneUserKept DEF Facts, PathsOK
  <2> QED
    BY <2>1, <2>2, PathKept, PipeSame DEF OnWire, Waiting
<1> QED
  BY <1>1, PathConsumer, PathHost, PathExtension DEF Next

-----------------------------------------------------------------------------
(* The theorems.                                                           *)

LEMMA InitInv == Init => IndInv
<1> SUFFICES ASSUME Init PROVE IndInv
  OBVIOUS
<1>1. TypeOK /\ CallsOK
  BY InitTypes
<1>2. FramesOK /\ DoneOK /\ CompletedIsTrue
  BY NewCallFields DEF Init, FramesOK, DoneOK, CompletedIsTrue, NoExec
<1>3. ASSUME NEW i \in Ids PROVE Nothing(i)
  <2>1. i \in Names /\ Len(down) = 0
    BY DEF Names, Init
  <2> QED
    BY <2>1 DEF Init, Nothing, OnWire, Queued, Idle, NoExec
<1>4. PathsOK
  BY <1>3, NothingIsPath DEF PathsOK, Acts
<1> QED
  BY <1>1, <1>2, <1>4 DEF IndInv

LEMMA StepInv == IndInv /\ [Next]_vars => IndInv'
BY TypeStep, FramesStep, DoneStep, PathsStep DEF IndInv, Facts

LEMMA PathsTell == IndInv => NotStartedIsTrue
<1> SUFFICES ASSUME IndInv, NEW c \in Calls, call[c].op = "mutation", call[c].outcome = "not_started",
                    call[c].name \notin Operations, Sole(c)
             PROVE  runs[call[c].name] = 0
  BY DEF NotStartedIsTrue
<1> DEFINE i == call[c].name
<1>1. i \in Acts
  BY DEF IndInv, CallsOK, CallOK, Acts
<1>2. OneUser(i)
  BY DEF OneUser, Sole
<1> HIDE DEF i
<1>3. Nothing(i)
  BY <1>1, <1>2 DEF IndInv, PathsOK, PathOK, i
<1> QED
  BY <1>3 DEF Nothing, Idle, i

THEOREM Invariance == Spec => []IndInv
<1>1. Init => IndInv
  BY InitInv
<1>2. IndInv /\ [Next]_vars => IndInv'
  BY StepInv
<1> QED
  BY <1>1, <1>2, PTL DEF Spec

(* An act whose id one call uses and that is reported as not started, be it by the
   provider, the host, the companion or the page, has not taken effect, and never does. *)
THEOREM NotStarted == Spec => []NotStartedIsTrue
<1>1. IndInv => NotStartedIsTrue
  BY PathsTell
<1> QED
  BY <1>1, Invariance, PTL

(* What is reported as completed has taken effect, acts and operations, answers replayed
   from the journal after restarts included; but for an act that its page refused when
   access had changed, which the companion tells as completed. *)
THEOREM Completed == Spec => []CompletedIsTrue
<1>1. IndInv => CompletedIsTrue
  BY DEF IndInv
<1> QED
  BY <1>1, Invariance, PTL

-----------------------------------------------------------------------------
(* An act runs at most once.                                               *)

\* Whoever uses the id of an act: what the journal does not hold is not in the pipe, not
\* running and has not run, and one request at most is in the pipe or running, for what has
\* not run.
OnceOK(i) ==
    /\ i \notin Noted => ~Queued(i) /\ Idle(i)
    /\ Queued(i) => Idle(i)
    /\ Single(i)
    /\ Under(i) => ~Queued(i) /\ runs[i] = 0

OnceInv == \A i \in Acts : OnceOK(i)

LEMMA OnceKept ==
    ASSUME NEW i, OnceOK(i), PipeKept(i), exec'[i].stage = exec[i].stage, runs'[i] = runs[i],
           i \in Noted => i \in Noted' \/ (~Queued(i)' /\ Idle(i)')
    PROVE  OnceOK(i)'
<1>1. Idle(i)' <=> Idle(i)
  BY DEF Idle
<1>2. i \notin Noted' => ~Queued(i)' /\ Idle(i)'
  BY <1>1 DEF OnceOK, PipeKept
<1>3. (Queued(i)' => Idle(i)') /\ Single(i)'
  BY <1>1 DEF OnceOK, PipeKept
<1>4. Under(i)' => ~Queued(i)' /\ runs'[i] = 0
  BY DEF OnceOK, PipeKept, Under
<1> QED
  BY <1>2, <1>3, <1>4 DEF OnceOK

\* A message for i at the head of the pipe: nothing of i is done or running, and no other.
LEMMA OnceTaken ==
    ASSUME TypeOK, NEW i, OnceOK(i), down # <<>>, down' = Tail(down), Head(down) = Request(i)
    PROVE  Idle(i) /\ ~Queued(i)'
<1>1. Len(down) \in Nat \ {0} /\ Head(down) = down[1]
  BY EmptySeq DEF TypeOK
<1>2. Queued(i)
  BY <1>1 DEF Queued
<1> QED
  BY <1>2, PipeTaken DEF OnceOK

LEMMA OnceHost ==
    ASSUME TypeOK, NEW i \in Ids, i \in Acts, OnceOK(i), Host
    PROVE  OnceOK(i)'
<1>0. UNCHANGED <<exec, runs>>
  BY DEF Host, HostCancels, HostRefuses, HostJoins, HostReplays, HostForwards, HostTimesOut, LateExpires,
         HostExits, HostStarts, Hello, companion, history
<1>1. ASSUME PipeKept(i), i \in Noted => i \in Noted' PROVE OnceOK(i)'
  BY <1>0, <1>1, OnceKept
<1>2. ASSUME UNCHANGED <<down, journal>> PROVE OnceOK(i)'
  BY <1>1, <1>2, PipeSame DEF Noted
<1>3. ASSUME NEW w \in Frames, HostCancels(w) PROVE OnceOK(i)'
  <2> DEFINE m == [type |-> "cancel", name |-> call[w.from].name]
  <2>1. m \in Messages /\ m # Request(i)
    BY FrameNames DEF Messages, Request
  <2>2. journal' = journal /\ (down' = Append(down, m) \/ UNCHANGED down)
    BY <1>3 DEF HostCancels, broker
  <2> HIDE DEF m
  <2>3. PipeKept(i)
    BY <2>1, <2>2, PipeAppends, PipeSame
  <2> QED
    BY <1>1, <2>2, <2>3 DEF Noted
<1>4. ASSUME NEW w \in Frames, NEW written \in BOOLEAN, HostForwards(w, written) PROVE OnceOK(i)'
  <2> DEFINE n == call[w.from].name
  <2>1. n \in Names
    BY FrameNames
  <2>2. /\ journal' = Recorded(n, "started")
        /\ down' = IF written THEN Append(down, Request(n)) ELSE down
        /\ Durable(n) => journal[n] = "none"
    BY <1>4 DEF HostForwards, Forwardable, Request
  <2> HIDE DEF n
  <2>3. i \in Noted => i \in Noted'
    BY <2>2 DEF Noted, Recorded, TypeOK
  <2>4. CASE n # i \/ ~written
    <3>1. Request(n) \in Messages /\ (n # i => Request(n) # Request(i))
      BY <2>1 DEF Messages, Request
    <3>2. PipeKept(i)
      BY <2>2, <2>4, <3>1, PipeAppends, PipeSame
    <3> QED
      BY <1>1, <2>3, <3>2
  <2>5. CASE n = i /\ written
    <3>1. i \notin Noted /\ i \in Noted'
      BY <2>2, <2>5 DEF Noted, Recorded, Durable, TypeOK
    <3>2. ~Queued(i) /\ Idle(i)
      BY <3>1 DEF OnceOK
    <3>3. Idle(i)'
      BY <1>0, <3>2 DEF Idle
    <3>4. /\ Len(down') = Len(down) + 1 /\ Len(down) \in Nat
          /\ \A k \in 1..Len(down) : down'[k] = down[k]
      BY <2>2, <2>5 DEF TypeOK
    <3>5. \A k \in 1..Len(down') : down'[k] = Request(i) => k = Len(down')
      BY <3>2, <3>4 DEF Queued
    <3>6. Single(i)'
      BY <3>5 DEF Single, Request
    <3> QED
      BY <3>1, <3>3, <3>6 DEF OnceOK, Idle, Under
  <2> QED
    BY <2>4, <2>5
<1>5. CASE HostExits
  BY <1>1, <1>5, PipeEmptied DEF HostExits, Noted
<1>6. ASSUME \/ \E w \in Frames : HostRefuses(w) \/ HostJoins(w) \/ HostReplays(w)
             \/ \E n \in Names : HostTimesOut(n) \/ LateExpires(n)
             \/ HostStarts \/ Hello
      PROVE  OnceOK(i)'
  <2>1. UNCHANGED <<down, journal>>
    BY <1>6 DEF HostRefuses, HostJoins, HostReplays, HostTimesOut, LateExpires, HostStarts, Hello, broker
  <2> QED
    BY <1>2, <2>1
<1> QED
  BY <1>3, <1>4, <1>5, <1>6 DEF Host

LEMMA OnceExtension ==
    ASSUME TypeOK, CallsOK, NEW i \in Ids, i \in Acts, OnceOK(i), Extension
    PROVE  OnceOK(i)'
<1>0. i \in Names /\ Durable(i) /\ OpOf(i) = "mutation"
  BY DEF Names, Durable, OpOf
\* An answer leaves the record unless it says that nothing was started.
<1>1. ASSUME NEW n \in Names, NEW a \in Answers, Respond(n, a), n # i \/ a # "not_started"
      PROVE  i \in Noted => i \in Noted'
  <2>1. journal'[i] = journal[i] \/ (i = n /\ journal'[i] = IF a = "not_started" THEN "none" ELSE a)
    BY <1>1, Responded
  <2>2. a # "none"
    BY DEF Answers, Results
  <2> QED
    BY <1>1, <2>1, <2>2 DEF Noted
<1>2. ASSUME NEW applies \in BOOLEAN, CompanionAnswers(applies) PROVE OnceOK(i)'
  <2> DEFINE n == Head(down).name
             a == IF applies \/ OpOf(n) = "status" THEN "ok" ELSE "not_started"
  <2>1. down # <<>> /\ down' = Tail(down) /\ Head(down).type = "request"
    BY <1>2 DEF CompanionAnswers, Taken
  <2>2. Head(down) \in Messages /\ n \in Names
    BY <2>1, MessageNames
  <2>3. Head(down) = Request(n)
    BY <2>1, <2>2 DEF Messages, Request
  <2>4. /\ Respond(n, a) /\ UNCHANGED exec
        /\ runs' = IF applies THEN [runs EXCEPT ![n] = @ + 1] ELSE runs
        /\ applies => OpOf(n) = "control"
    BY <1>2 DEF CompanionAnswers
  <2>5. a \in Answers /\ (n = i => ~applies)
    BY <1>0, <2>4 DEF Answers, Results
  <2> HIDE DEF n, a
  <2>6. runs'[i] = runs[i]
    BY <1>0, <2>2, <2>4, <2>5 DEF TypeOK
  <2>7. PipeKept(i)
    BY <2>1, PipeTaken
  <2>8. CASE n # i
    BY <1>1, <2>2, <2>4, <2>5, <2>6, <2>7, <2>8, OnceKept
  <2>9. CASE n = i
    <3>1. Idle(i) /\ ~Queued(i)'
      BY <2>1, <2>3, <2>9, OnceTaken
    <3>2. Idle(i)'
      BY <2>4, <2>6, <3>1 DEF Idle
    <3> QED
      BY <2>4, <2>6, <2>7, <3>1, <3>2, OnceKept
  <2> QED
    BY <2>8, <2>9
<1>3. CASE CompanionBegins
  <2> DEFINE n == Head(down).name  r == [stage |-> "queued", instance |-> binding.instance]
  <2>1. /\ down # <<>> /\ down' = Tail(down) /\ Head(down).type = "request"
        /\ UNCHANGED <<journal, runs>> /\ exec' = [exec EXCEPT ![n] = r]
    BY <1>3 DEF CompanionBegins, Taken, broker, history
  <2>2. Head(down) \in Messages /\ n \in Names
    BY <2>1, MessageNames
  <2>3. Head(down) = Request(n) /\ r.stage = "queued"
    BY <2>1, <2>2 DEF Messages, Request
  <2> HIDE DEF n, r
  <2>4. PipeKept(i)
    BY <2>1, PipeTaken
  <2>5. CASE n # i
    <3>1. exec'[i].stage = exec[i].stage
      BY <1>0, <2>1, <2>5 DEF TypeOK
    <3> QED
      BY <2>1, <2>4, <3>1, OnceKept DEF Noted
  <2>6. CASE n = i
    <3>1. Idle(i) /\ ~Queued(i)'
      BY <2>1, <2>3, <2>6, OnceTaken
    <3>2. i \in Noted
      <4>1. Queued(i)
        <5>1. Len(down) \in Nat \ {0} /\ Head(down) = down[1]
          BY <2>1, EmptySeq DEF TypeOK
        <5> QED
          BY <5>1, <2>3, <2>6 DEF Queued
      <4> QED
        BY <4>1 DEF OnceOK
    <3>3. exec'[i].stage = "queued" /\ runs'[i] = 0 /\ i \in Noted'
      BY <1>0, <2>1, <2>3, <2>6, <3>1, <3>2 DEF TypeOK, Idle, Noted
    <3>4. Single(i)'
      BY <2>4 DEF PipeKept, OnceOK
    <3> QED
      BY <3>1, <3>3, <3>4 DEF OnceOK
  <2> QED
    BY <2>5, <2>6
<1>4. CASE CompanionCancels
  <2>1. down # <<>> /\ down' = Tail(down) /\ UNCHANGED <<journal, exec, runs>>
    BY <1>4 DEF CompanionCancels, Taken, broker, history
  <2> QED
    BY <2>1, PipeTaken, OnceKept DEF Noted
<1>5. ASSUME NEW n \in Names, Applies(n) PROVE OnceOK(i)'
  <2>1. /\ UNCHANGED <<journal, down>> /\ (n \in Acts => exec[n].stage = "sent")
        /\ runs' = [runs EXCEPT ![n] = @ + 1] /\ exec' = [exec EXCEPT ![n].stage = "applied"]
    BY <1>5 DEF Applies, broker
  <2>2. CASE n # i
    <3>1. exec'[i].stage = exec[i].stage /\ runs'[i] = runs[i]
      BY <1>0, <2>1, <2>2 DEF TypeOK
    <3> QED
      BY <2>1, <3>1, PipeSame, OnceKept DEF Noted
  <2>3. CASE n = i
    <3>1. i \in Noted /\ ~Queued(i) /\ Single(i)
      BY <2>1, <2>3 DEF OnceOK, Idle, Under
    <3>2. i \in Noted' /\ ~Queued(i)' /\ Single(i)'
      BY <2>1, <3>1 DEF Noted, Queued, Single, Request
    <3>3. exec'[i].stage = "applied"
      BY <1>0, <2>1, <2>3 DEF TypeOK, Execs
    <3> QED
      BY <3>2, <3>3 DEF OnceOK, Under
  <2> QED
    BY <2>2, <2>3
<1>6. ASSUME NEW n \in Names, NEW a \in Answers, Replied(n, a),
             \/ Under(n)
             \/ exec[n].stage = "applied" /\ (n = i => a # "not_started")
      PROVE  OnceOK(i)'
  <2> DEFINE b == Delivered(n, a)
  <2>1. exec' = [exec EXCEPT ![n] = NoExec] /\ Respond(n, b) /\ UNCHANGED <<down, runs>>
    BY <1>6 DEF Replied
  <2>2. b \in Answers /\ (n = i /\ a # "not_started" => b # "not_started")
    BY DeliveredAnswer
  <2> HIDE DEF b
  <2>3. PipeKept(i)
    BY <2>1, PipeSame
  <2>4. CASE n # i
    <3>1. exec'[i].stage = exec[i].stage
      BY <1>0, <2>1, <2>4 DEF TypeOK
    <3> QED
      BY <1>1, <2>1, <2>2, <2>3, <2>4, <3>1, OnceKept
  <2>5. CASE n = i
    <3>1. exec'[i].stage = "idle"
      BY <1>0, <2>1, <2>5 DEF TypeOK, NoExec
    <3>2. i \in Noted /\ ~Queued(i) /\ Single(i)
      BY <1>6, <2>5 DEF OnceOK, Idle, Under
    <3>3. ~Queued(i)' /\ Single(i)'
      BY <2>3, <3>2 DEF PipeKept
    <3>4. i \notin Noted' => runs'[i] = 0
      <4>1. CASE Under(i)
        BY <2>1, <4>1 DEF OnceOK
      <4>2. CASE ~Under(i)
        BY <1>1, <1>6, <2>1, <2>2, <2>5, <3>2, <4>2
      <4> QED
        BY <4>1, <4>2
    <3> QED
      BY <3>1, <3>3, <3>4 DEF OnceOK, Idle, Under
  <2> QED
    BY <2>4, <2>5
<1>7. ASSUME NEW n \in Names, NEW a \in Answers, Rejects(n) \/ PageRejects(n, a) \/ Answered(n, a)
      PROVE  OnceOK(i)'
  <2>1. Operations \cap Acts = {}
    BY DEF Acts
  <2> QED
    BY <1>6, <1>7, <2>1 DEF Rejects, PageRejects, Answered, Answers, Results, Under
<1>8. ASSUME NEW n \in Names, ActStarts(n) \/ ActSent(n) PROVE OnceOK(i)'
  <2>1. /\ UNCHANGED <<journal, down, runs>> /\ Under(n)
        /\ exec' = [exec EXCEPT ![n].stage = "started"] \/ exec' = [exec EXCEPT ![n].stage = "sent"]
    BY <1>8 DEF ActStarts, ActSent, Under, broker, history
  <2>2. CASE n # i
    <3>1. exec'[i].stage = exec[i].stage
      BY <1>0, <2>1, <2>2 DEF TypeOK
    <3> QED
      BY <2>1, <3>1, PipeSame, OnceKept DEF Noted
  <2>3. CASE n = i
    BY <2>1, <2>3 DEF OnceOK, Idle, Under, Noted, Queued, Single, Request
  <2> QED
    BY <2>2, <2>3
<1>9. CASE UserBinds \/ BindingEnds
  <2>1. UNCHANGED <<journal, down, exec, runs>>
    BY <1>9 DEF UserBinds, BindingEnds, broker, history
  <2> QED
    BY <2>1, PipeSame, OnceKept DEF Noted
<1>10. Answers # {}
  BY DEF Answers
<1> QED
  BY <1>2, <1>3, <1>4, <1>5, <1>7, <1>8, <1>9, <1>10 DEF Extension

LEMMA OnceStep == TypeOK /\ CallsOK /\ OnceInv /\ [Next]_vars => OnceInv'
<1> SUFFICES ASSUME TypeOK, CallsOK, OnceInv, [Next]_vars, NEW i \in Ids, i \in Acts PROVE OnceOK(i)'
  BY DEF OnceInv, Acts
<1>1. CASE Consumer \/ UNCHANGED vars
  <2>1. UNCHANGED <<journal, down, exec, runs>>
    BY <1>1 DEF Consumer, Start, Refused, Connect, ConnectFails, ConnectionLost, ClientTimesOut, TryAgain,
                Abort, vars, broker, companion, history
  <2> QED
    BY <2>1, PipeSame, OnceKept DEF Noted, OnceInv
<1> QED
  BY <1>1, OnceHost, OnceExtension DEF Next, OnceInv

LEMMA InitOnce == Init => OnceInv
<1> SUFFICES ASSUME Init, NEW i \in Ids PROVE OnceOK(i)
  BY DEF OnceInv, Acts
<1>1. i \in Names /\ Len(down) = 0
  BY DEF Names, Init
<1> QED
  BY <1>1 DEF Init, OnceOK, Queued, Idle, Under, Single, NoExec

\* Only an operation of the companion takes effect, a mutation only when it is applied.
LEMMA EffectsStay ==
    ASSUME TypeOK, [Next]_vars, NEW i \in Ids, runs'[i] # runs[i]
    PROVE  Applies(i)
<1>1. i \in Names /\ OpOf(i) = "mutation"
  BY DEF Names, OpOf, Durable
<1>2. PICK n \in Names : runs' = [runs EXCEPT ![n] = @ + 1] /\ (OpOf(n) = "control" \/ Applies(n))
  <2>1. CASE Consumer \/ Host \/ UNCHANGED vars
    BY <2>1 DEF Consumer, Start, Refused, Connect, ConnectFails, ConnectionLost, ClientTimesOut, TryAgain,
                Abort, vars, companion, history, Host, HostCancels, HostRefuses, HostJoins, HostReplays, HostForwards,
                HostTimesOut, LateExpires, HostExits, HostStarts, Hello
  <2>2. ASSUME NEW applies \in BOOLEAN, CompanionAnswers(applies)
        PROVE  \E n \in Names : runs' = [runs EXCEPT ![n] = @ + 1] /\ OpOf(n) = "control"
    <3>1. Head(down).name \in Names
      BY <2>2, MessageNames DEF CompanionAnswers, Taken
    <3> QED
      BY <2>2, <3>1 DEF CompanionAnswers
  <2>3. ASSUME \/ CompanionBegins \/ CompanionCancels \/ UserBinds \/ BindingEnds
               \/ \E n \in Names : \/ ActStarts(n) \/ ActSent(n) \/ Rejects(n)
                                    \/ \E a \in Answers : PageRejects(n, a) \/ Answered(n, a)
        PROVE  FALSE
    BY <2>3 DEF CompanionBegins, CompanionCancels, UserBinds, BindingEnds, ActStarts, ActSent, Rejects,
                PageRejects, Answered, Replied, history
  <2>4. ASSUME NEW n \in Names, Applies(n) PROVE runs' = [runs EXCEPT ![n] = @ + 1]
    BY <2>4 DEF Applies
  <2> QED
    BY <2>1, <2>2, <2>3, <2>4 DEF Next, Extension
<1>3. n = i
  BY <1>1, <1>2 DEF TypeOK
<1> QED
  BY <1>1, <1>2, <1>3

(* The invariant behind it: an act whose id the journal does not hold is nowhere and has
   not run, whichever calls use it, whatever was lost on the way and however often hosts and
   bindings were replaced. *)
THEOREM OnceInvariance == Spec => [](TypeOK /\ CallsOK /\ OnceInv)
<1>1. Init => TypeOK /\ CallsOK /\ OnceInv
  BY InitTypes, InitOnce
<1>2. (TypeOK /\ CallsOK /\ OnceInv) /\ [Next]_vars => (TypeOK /\ CallsOK /\ OnceInv)'
  BY TypeStep, OnceStep
<1> QED
  BY <1>1, <1>2, PTL DEF Spec

(* The way from the provider to the companion and back implements AtMostOnce: an act
   is in the journal before it runs, it runs at most once, and the journal lets go of an
   id only if it has not run, for any calls that share its id, retries, restarts, late
   answers and cancellations. *)
THEOREM Implementation == Spec => RunsAtMostOnce
<1>1. Init => Promise!Init
  <2> SUFFICES ASSUME Init PROVE Noted = {} /\ Effects = [i \in Acts |-> 0]
    BY DEF Promise!Init
  <2> QED
    BY DEF Init, Noted, Effects, Names, Acts
<1>2. ASSUME TypeOK, OnceInv, OnceInv', [Next]_vars PROVE [Promise!Next]_(Promise!vars)
  <2>1. CASE \E i \in Acts : runs'[i] # runs[i]
    <3>1. PICK i \in Acts : runs'[i] # runs[i]
      BY <2>1
    <3>2. Applies(i) /\ i \in Names
      BY <1>2, <3>1, EffectsStay DEF Names, Acts
    <3>3. /\ exec[i].stage = "sent" /\ runs' = [runs EXCEPT ![i] = @ + 1] /\ journal' = journal
      BY <3>2 DEF Applies, broker
    <3>4. i \in Noted /\ runs[i] = 0 /\ Noted' = Noted
      BY <1>2, <3>3 DEF OnceInv, OnceOK, Idle, Under, Noted
    <3>5. Effects' = [Effects EXCEPT ![i] = 1] /\ Effects[i] = 0
      <4>1. \A j \in Acts : j \in Names
        BY DEF Names, Acts
      <4>2. runs \in [Names -> Nat]
        BY <1>2 DEF TypeOK
      <4>3. \A j \in Acts : runs'[j] = IF j = i THEN 1 ELSE runs[j]
        BY <3>3, <3>4, <4>1, <4>2
      <4>4. [j \in Acts |-> runs'[j]] = [[j \in Acts |-> runs[j]] EXCEPT ![i] = 1]
        BY <4>3
      <4> QED
        BY <3>1, <3>4, <4>4 DEF Effects
    <3>6. Promise!Run(i)
      BY <3>4, <3>5 DEF Promise!Run
    <3> QED
      BY <3>6 DEF Promise!Next
  <2>2. CASE \A i \in Acts : runs'[i] = runs[i]
    <3>1. Effects' = Effects /\ \A i \in Acts : Effects[i] = runs[i]
      BY <2>2 DEF Effects
    <3>2. \A i \in Acts : i \notin Noted => Effects[i] = 0
      BY <1>2, <3>1 DEF OnceInv, OnceOK, Idle
    <3>3. \A i \in Acts : i \notin Noted' => Effects[i] = 0
      BY <1>2, <2>2, <3>1 DEF OnceInv, OnceOK, Idle
    <3>4. Noted \subseteq Acts /\ Noted' \subseteq Acts
      BY DEF Noted, Acts
    <3>5. Promise!Record
      BY <3>1, <3>2, <3>3, <3>4 DEF Promise!Record
    <3> QED
      BY <3>5 DEF Promise!Next
  <2> QED
    BY <2>1, <2>2
<1> QED
  BY <1>1, <1>2, OnceInvariance, PTL DEF Spec, Promise!Spec, RunsAtMostOnce

=============================================================================
