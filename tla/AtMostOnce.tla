---------------------------- MODULE AtMostOnce ----------------------------
(***************************************************************************)
(* What the mutation path promises: a request id is recorded before it     *)
(* runs, runs at most once, and once it has run it leaves the record only  *)
(* by being retired, after which the id is refused for good.               *)
(*                                                                         *)
(* MutationJournal implements this with a journal file, a native host that *)
(* may stop at any point and a companion that may answer late or never;    *)
(* BrokerCalls, with all that lies between the callers and the companion.  *)
(***************************************************************************)
EXTENDS Naturals

CONSTANT Ids   \* request ids of one consumer in one profile

VARIABLES
    recorded,  \* ids the durable record holds
    retired,   \* ids refused for good: older than the replay horizon
    runs       \* how often each id's mutation took effect

vars == <<recorded, retired, runs>>

Init ==
    /\ recorded = {} /\ retired = {}
    /\ runs = [id \in Ids |-> 0]

\* The record takes in ids that have not run, and lets go of those and of retired ones.
Record ==
    /\ retired \subseteq retired'
    /\ \A id \in recorded' \ recorded : runs[id] = 0 \/ id \in retired'
    /\ \A id \in recorded \ recorded' : runs[id] = 0 \/ id \in retired'
    /\ UNCHANGED runs

Run(id) ==
    /\ id \in recorded \cup retired
    /\ runs[id] = 0
    /\ runs' = [runs EXCEPT ![id] = 1]
    /\ UNCHANGED <<recorded, retired>>

Next == Record \/ \E id \in Ids : Run(id)

Spec == Init /\ [][Next]_vars
=============================================================================
