--------------------------- MODULE ControlPolicy ---------------------------
(***************************************************************************)
(* The companion's pure policy (companion/policy.js): the human <-> agent  *)
(* control machine, the claim check a write must pass and the scope check  *)
(* every access must pass.  No state of its own: operators over a control  *)
(* record and a scope, used by Companion and by the modules built on it.   *)
(*                                                                         *)
(* Abstracted: leaseId, reason and updatedAt, which no decision reads.     *)
(* An event the machine refuses leaves the record as it is, which is what  *)
(* applyControl does with a refusal.                                       *)
(***************************************************************************)
EXTENDS Naturals

CONSTANTS
    Tabs,        \* browser tab ids; "tab:<id>" is the context id of a tab
    Origins,     \* http(s) origins a shareable page can have
    Audiences,   \* consumer ids of local agents
    NoTab,       \* claimedContextId = null
    NoAudience   \* claimedAudienceId = null

ASSUME PolicyAssumption ==
    /\ NoTab \notin Tabs
    /\ NoAudience \notin Audiences
    /\ Origins \cap {"restricted", "closed", "unshared", "none"} = {}

ControlStates == {"no_access", "shared_idle", "agent_claimed", "user_control", "rebinding"}

Controls ==
    [state           : ControlStates,
     claimGeneration : Nat,
     claimedTab      : Tabs \cup {NoTab},
     claimedAudience : Audiences \cup {NoAudience},
     resumeRequested : BOOLEAN]

\* createControl(): the record a freshly started companion has.
CreateControl ==
    [state |-> "no_access", claimGeneration |-> 0, claimedTab |-> NoTab,
     claimedAudience |-> NoAudience, resumeRequested |-> FALSE]

-----------------------------------------------------------------------------
\* next(): every transition bumps the generation; all but a claim drop the claim.
Unclaimed(c, state, resume) ==
    [state |-> state, claimGeneration |-> c.claimGeneration + 1, claimedTab |-> NoTab,
     claimedAudience |-> NoAudience, resumeRequested |-> resume]

HasAccess(c) == c.state \notin {"no_access", "rebinding"}

Grant(c)          == Unclaimed(c, "shared_idle", FALSE)
RebindRequired(c) == Unclaimed(c, "rebinding", FALSE)
Revoke(c)         == Unclaimed(c, "no_access", FALSE)

\* A claim is refused without access, while the user drives, and to a second consumer.
MayClaim(c, audience) ==
    \/ c.state = "shared_idle"
    \/ c.state = "agent_claimed" /\ c.claimedAudience = audience

\* Mutant: moving one's claim to another tab keeps its generation.
Claim_SameGeneration(c, tab, audience) ==
    IF MayClaim(c, audience)
    THEN [state |-> "agent_claimed",
          claimGeneration |-> c.claimGeneration + (IF c.state = "agent_claimed" THEN 0 ELSE 1),
          claimedTab |-> tab, claimedAudience |-> audience, resumeRequested |-> FALSE]
    ELSE c

Claim(c, tab, audience) ==
    IF MayClaim(c, audience)
    THEN [state |-> "agent_claimed", claimGeneration |-> c.claimGeneration + 1,
          claimedTab |-> tab, claimedAudience |-> audience, resumeRequested |-> FALSE]
    ELSE c

Release(c) ==
    IF c.state = "agent_claimed"
    THEN Unclaimed(c, "shared_idle", c.resumeRequested) ELSE c

\* Mutant: shrinking the scope gives control back to the agent.
ScopeReduced_Resumes(c) == IF HasAccess(c) THEN Unclaimed(c, "shared_idle", FALSE) ELSE c

ScopeReduced(c) ==
    IF HasAccess(c)
    THEN Unclaimed(c, IF c.state = "user_control" THEN "user_control" ELSE "shared_idle", FALSE)
    ELSE c

Takeover(c) == IF HasAccess(c) THEN Unclaimed(c, "user_control", FALSE) ELSE c

RequestResume(c) ==
    IF c.state = "user_control" THEN [c EXCEPT !.resumeRequested = TRUE] ELSE c

Resume(c) == IF c.state = "user_control" THEN Unclaimed(c, "shared_idle", FALSE) ELSE c

ContextGone(c, tab) ==
    IF c.state = "agent_claimed" /\ c.claimedTab = tab
    THEN Unclaimed(c, "shared_idle", c.resumeRequested) ELSE c

-----------------------------------------------------------------------------
\* checkWriteClaim(): the exact claimed context, audience and generation.
CheckWriteClaim(c, tab, audience, generation) ==
    /\ c.state = "agent_claimed"
    /\ c.claimedAudience = audience
    /\ c.claimedTab = tab
    /\ c.claimGeneration = generation

\* evaluateTabAccess(): may a tab now showing site be touched with action?  scope
\* maps a tab to its recorded origin or "unshared"; pending maps a tab to the
\* unconfirmed new origin or "none".  A page that is not http(s), private or
\* discarded shows "restricted".
EvaluateTabAccess(scope, actions, pending, site, tab, action) ==
    /\ scope[tab] # "unshared"
    /\ action \in actions
    /\ site \in Origins
    /\ pending[tab] = "none"
    /\ scope[tab] = site
=============================================================================
