# Verification of zamery-browser

zamery-browser lets a local agent read and operate tabs that a user has shared from Firefox. This directory holds TLA+
models of the parts that decide *whether* and *how often* the agent may act, *what* it gets to see and *what it is told*,
the configurations TLC checks them with, and proofs, checked by the TLA+ proof system, of their main safety properties.
Every definition is translated from the source; `PROJECT.json` names the lines each one stands for.

Paths below are relative to `src/packages/`; `companion/` is `browser-firefox/runtime/companion/`.

## 1. Inventory

```
 agent process                         one per browser profile            Firefox
 MCP server / pi extension ─ provider ─ socket ─ native host ─ stdio ─ companion ─ messages ─ content script
        browser-mcp, pi-browser   browser-firefox/src   native-host.mjs    background.js          content.js
                     │                                       │             policy.js                  │
              artifact store                         mutation journal     popup (the user)        the page (human)
```

| Component | State it keeps | Operations | What is hard |
|---|---|---|---|
| **Control policy** (`companion/policy.js`) | none: pure transitions over `control` | grant, claim, release, takeover, resume, scope reduction, revoke, rebind, context gone; the write-claim check; tab access | each transition must move the generation and drop or keep exactly the right claim |
| **Companion authority** (`companion/background.js`) | `consent`, `binding`, `control`, `pendingOriginChanges`, `hostSession` | popup messages, tab and window events, host hello/disconnect, the authority tick, agent control operations | handlers await the browser and commit after anything else has run |
| **Write path** (`background.js`: `handleRequest`, `snapshotContext`, `actOnContext`) | `mutationTails`, `inFlightRequests`, `completedRequests`, `cancelledRequests` | snapshot, act, cancel, join, replay | retries, cancellation, lost answers, checks that go stale during awaits |
| **Tab and group operations** (`companion/control-ops.js`) | `scope.groups`, owned tabs, `agentMovedTabs` | navigate, reload, activate, create, close, group operations, reconciliation after events | multi-step operations, overlapping reconciliations |
| **Artifact capture, presence** (`artifacts.js`, `agent-presence.js`) | artifact table, capture slot, suppression tokens, presentation epochs | capture, read chunk, close; suppress, release | a late result after a timeout, two clocks for one token |
| **Image assets** (`asset-*.js`) | transfers with a replay window and a busy flag; a registry of handles in the background page | discover, open, read chunk, close | duplicate and overlapping chunk reads, answers of a page under another binding |
| **Content script** (`companion/content.js`) | document id, gesture counter, node table | ping, snapshot, act, arm | the page navigates between two messages |
| **Native host** (`browser-firefox/runtime/native-host.mjs`) | `pending`, `lateEntries`, `durableMutations`, the journal file and its lock | forward, time out, settle, cancel, `mutation_status`, load, prune, persist | process exits at any point, file failures, eviction, retries |
| **Broker client, providers** (`browser-firefox/src`) | one exchange each; screenshots on disk | round trip, read retry, classification of failures; store, read, reap | transport loss at different phases, decisions on an answer that is out of date |
| **MCP server, pi extension** (`browser-mcp`, `pi-browser`) | bounded observations; one provider per instance | tool handlers | creation races, eviction |
| Attention, popup rendering, install, doctor, CLI, release scripts, type declarations | – | – | presentation or one-shot tools, no protocol |

What makes each part correct:

- *Authority*: consent, binding and control tell one story; a claim is on a tab that is shared now; a binding belongs to
  the host process that is connected; authority ends at its deadline although nobody asks; only the user takes control
  away from the user.
- *Scope*: whatever overlaps, a tab can be touched only if the user shares it, the agent opened it, or it is in a group
  the user chose to follow; a tab of the agent's own stops being its own when it leaves the scope.
- *Write path*: writes to a tab are serial; an id takes effect once however often it is retried; an effect is recorded;
  a write is sent only under the binding and claim it was asked under, and lands in the document that was observed.
- *Journal*: an id is recorded before it runs and runs at most once through exits, timeouts and evictions; a recorded
  answer goes only to the request it belongs to.
- *What is shown*: a picture shows the page it was asked of, without the agent's overlay, under one binding; chunks of an
  image come in order; a stored picture is readable while its access lasts and is removed after it.
- *What is told*: "completed" has happened, "not started" has not happened and never will.

The components left out, each with the reason, are listed in `PROJECT.json` under `components`. `hazards` lists what in
this code is hard to test, at the line where it bites, with the properties that cover it or the reason why none does.

## 2. Plan

| Module | Covers | State |
|---|---|---|
| `ControlPolicy`, `Companion`, `Companion_proofs` | policy, authority handlers | done |
| `AtMostOnce`, `MutationJournal`, `MutationJournal_proofs` | host journal and execution, against an abstract promise | done |
| `ActRequests`, `ActRequests_proofs` | snapshot and act, from request to answer | done |
| `GroupScope`, `GroupScope_proofs` | owned tabs, group membership and reconciliation, navigate and its rollback | done |
| `Captures`, `Captures_proofs` | screenshots in the companion: slot, overlay suppression, stamping | done |
| `AssetTransfer`, `AssetTransfer_proofs` | image transfers in both lanes | done |
| `Artifacts`, `Artifacts_proofs` | stored screenshots: provider, store, reaper, the companion's artifacts | done |
| `BrokerCalls`, `BrokerCalls_proofs` | a provider call on its way through sockets, host and companion and back | done |

Left, in this order: the epochs of the presence banner (`agent-presence.js`); two hosts and one lock file; joined reads
and what `list_contexts` delivers after a change of authority; the observation list of the MCP server; the age and the
eviction of journal entries in `BrokerCalls`, so that it implements `AtMostOnce` with ids that are retired.

Composition: `Companion` and `ActRequests` both extend `ControlPolicy`, so a change of a transition is seen by both;
`MutationJournal` and `BrokerCalls` instantiate `AtMostOnce` with a refinement mapping. `BrokerCalls` composes consumer, host and
companion, each reduced to what the others see of it; `Artifacts` composes provider, store and companion.

## 3. The modules

**One action is one run-to-completion segment.** The companion, the host and the provider are single-threaded
JavaScript: a handler runs up to its next `await` undisturbed. An action is such a segment, with everything it calls;
anything may happen between two segments of one handler. Promise continuations that need no answer from outside run
before the next event and belong to the segment they follow.

### ControlPolicy
`transition()` of `policy.js`, one operator per event over the control record, `CheckWriteClaim` and
`EvaluateTabAccess`. An event the machine refuses leaves the record unchanged, as `applyControl` does. `leaseId`,
`reason` and `updatedAt` are left out: no decision reads them.

### Companion
`auth` holds `consent`, `binding`, `control`, `pendingOriginChanges`; `host` the connected native host; `site` what each
tab really shows; `events` tab events on their way; `call` the handlers in flight. A handler that awaits the browser is a
`call`: start, a read of each tab as it is *at that moment*, a commit that uses what was read.

- Popup: `GrantStart/GrantCommit` (also rebind), `ConfirmStart/ConfirmCommit`, `AddStart/AddCommit`, `ManageAccess`,
  `ExcludeTab`, `RevokeByUser`, `UserTakeover`, `UserResume`.
- Browser: `Navigate`, `CloseTab`, `UrlChanged`, `TabRemoved`, `UserGesture`, `TabSwitched`, `TabSwitchConfirmed`.
- Environment: `HostStatus`, `HostDisconnected`, `ClockMoves`, `AuthorityTick`, `Restart` (a session consent is lost, a
  fixed one is read back as a rebind).
- Agent: `ClaimStart/ClaimCommit`, `AgentRelease`, `AgentTakeover`, `AgentRequestResume`.

Decisions: every handler first runs `EnsureAuthorityCurrent`, as in the code. Consent is persisted at once (the
persistence of `browser.storage` racing a restart is not modelled). Of the clock only the verdict on the deadline is
kept: ahead, passed, or untrusted after the clock moved back. Tab events are unordered with respect to the answers of
`tabs.get`. `add_tabs` takes one tab per call. Tab groups, grant revisions, the list of recently seen audiences,
attention and the incognito/discarded/partition checks are left out or folded into `restricted`. `claimGeneration`
starts again at 0 in a restarted companion, as in the code.

### AtMostOnce, MutationJournal
`AtMostOnce` is the promise: an id is recorded before it runs, runs at most once, and leaves the record only unrun or
refused for good. `MutationJournal` models one consumer's mutations in one profile: the file (`disk`), the host's memory
(`mem`, `volatile`, `pending`, `lateEntries`, `evictedBefore`), the messages, the companion's execution (`exec`), and the
number of times the mutation really took effect (`runs`).

- Host: `Forward` (look up, record, persist, send), `Timeout`, `LateExpires`, `Settle` (also forgetting what never
  started), `HostExit`, `HostStart` (load; an unreadable file is moved aside).
- Companion: `Accept`, `Decline`, `Dispatch`, `Apply`, `Refuse`, `Finish`, `ReplyLost`, `LaterStepFails`,
  `EndAuthority`, `Grant`, `CompanionRestart`.
- Environment: `Tick`, `Corrupt`. Each write of the file has one of four outcomes: written; refused because the lock is
  held elsewhere; failed before the rename; failed after it (`unsynced`, the file is replaced and the caller sees an
  error).

Decisions: ids are those the client mints, with a time in them. A process may die at any point; power loss (a rename
that never reached the disk) is not modelled. Entries started in the same millisecond are evicted in either order. A
typed input is distinguishable only in memory, because the code keeps it off the disk. So are a url, a title or the
members of a group: `Fingerprint` keeps of a request what `mutationFingerprint` does, which determines a click (`Clicks`)
and neither a typed input (`Typed`) nor an operation of the browser (`Operations`). Cancellation, legacy tombstones and
ids shared by two consumers are left out.

### ActRequests
The write path of one consumer: `snapshot` is the read in flight, `observed` the element references given to the agent,
`act` the write requests by id, `queue` the `mutationTails` of each tab, `cancelled`, `completed`; `page` is what the
content script of each tab knows (document, gestures, armed). Three variables are history: `applied` (effects per id,
counted up to 2), `evicted`, `unreviewed` (unknown outcomes the user has not decided about).

A write goes `queued → lookup → ping → verify → sent` and ends in `Settle`, which takes it off its queue, answers
everybody who joined and records the outcome if one of them may still be answered. Around it: `UserBinds`,
`UserNarrows`, `AuthorityEnds`, `TakenOver`, `UserResumes`, `AgentClaims`, `AgentReleases`; `HumanGesture`,
`PageNavigates` and their reports, which arrive later; `SnapshotRequested` … `SnapshotExported`.

Decisions: scope and origins become one outcome, `ActUnavailable`; `Companion` models them. A replayed or conflicting
request changes nothing and is not an action. A live binding replaced by a concurrent grant is `AuthorityEnds` followed
by `UserBinds`. `tabs.get` and the focus check are one step.

### GroupScope
The scope of a live binding while tabs and groups move. `auth` holds the binding with its tabs and groups, pending
origins, the claim and who drives; `tab` the tabs of the browser with site and native group; `owned` and `moved` are
`ownedTabIds` and `agentMovedTabs`; `shared` and `created` are history, the tabs the user shares and the agent opened.

- Agent requests are processes (`call`): `CallStarts`, `GroupObserved` (`observeGroup`), `Looked`/`Refused`
  (`contextAuthorization` and the write check), `Focused`/`NotFocused`, then the browser obeys (`TabObeys`,
  `TabRegrouped`, `TabCreated`) or refuses (`BrowserRefuses`, with the rollback of `navigateTab`), and the answer is
  worked in (`TabRegistered`, `RegroupResolved`).
- `reconcileGroupsAfterEvent` runs as several overlapping processes (`run`): a first loop over the entries that came
  through a group, a second over the groups; one await per entry, group and candidate (`RunReads`), and the writes after
  it in the scope of *that* moment (`RunRemoves`, `RunAsked`, `RunJoins`).
- User and browser act in one step each: `UserGrants`, `UserRevokes`, `UserExcludes`, `UserManages`, `UserAdds`,
  `UserConfirms`, `UserDrives`, `PageNavigates`, `UserMovesTab`, `UserCloses`. What can go wrong *inside* a grant, a
  confirmation or a claim is the subject of `Companion`.
- A tab that leaves alone takes its pending change of origin with it (`WithoutTab`); tabs that leave with their group
  (`RemoveGroup`) leave theirs behind, as in the code, and `UserConfirms` may then bring such a tab back.

### Captures
`captureScreenshot` with the overlay suppression, one action per segment between its nine awaits: `CaptureRequested`,
`SlotTaken` (the tab is authorised, old pictures go, the slot is taken), `SuppressionBegins`, `Reauthorized`,
`CaptureDispatched`, `PictureArrives`, `AuthorityProved`, `PictureAccepted`, `PictureKept`, `CaptureEnds`; failures of a
check by `CaptureFails`, of the browser or the picture by `BrowserFails`, before the slot or the overlay is at stake by
`CaptureRefused`, `PageUnavailable`, `SuppressionFails`; after 20 s `CaptureTimesOut`, then either `LateCaptureSettles`
or `HardExpiry`. The page is an actor of its own: it reads its messages in order, when it likes or never
(`PageAnswersPing`, `PageSuppresses`, `PageConfirms`, `PageReleases`), goes to another document or address, or back to
one, at any moment, and the browser renders what it then shows (`BrowserRenders`). A page is compared by document and
address, as the code does; `visit` numbers the stays at a page and is only there for the property to speak of. A
suppression token has two clocks, one in the page (`TokenTimerFires`) and one in the background page (`TokenExpires`).

### AssetTransfer
The bytes of an image in chunks, from the stream in the page to the agent, in the lane of `asset-transfer-v1.js` and in
the experimental one; `lane` chooses, and actions named `V1…`/`A1…` are the places where they differ: lane A1 counts its
open transfers when a fetch is over, has no mark for a read under way, cleans up elsewhere. `transfer` is the page's map,
`registry` the handles the background page honours, `req` the background half of a request and `work` the page's half;
between them a request may be cancelled (`Cancel`), abandoned by its timeout (`CallTimesOut`), answered under another
binding (`Answered`), or lose its document. A stream is `Length` items and the end of file; a chunk is one item.

### Artifacts
Screenshots outside the browser. `shot` is a screenshot call (capture, chunks with retries, close, store), `reader` a
describe, read or materialise call, `reap` a run of the reaper: sweep, list, ask for the status, decide. `store` is the
directory of this process, `orphans` those of dead ones, `remote` the companion's map. The access changes between any two
steps, other browsers come and go (`SessionsChange`), answers are lost, the process closes or dies and starts again.

### BrokerCalls
A call of the provider on its way to the companion and back. `call` is what the consumer knows, `wire` the frames the
host has not read, `pending`/`late`/`journal` the host, `down` the native pipe, `exec` and `cancelled` the companion,
`runs` how often the request took effect. Consumer: `Start`, `Refused`, `Connect`, `ConnectFails`, `ConnectionLost`,
`ClientTimesOut`, `TryAgain`, `Abort`. Host: `HostCancels`, `HostRefuses`, `HostJoins`, `HostReplays`, `HostForwards`,
`HostTimesOut`, `LateExpires`, `HostExits`, `HostStarts`, `Hello`. Companion: `CompanionAnswers`, `CompanionBegins`,
`CompanionCancels`, `ActStarts`, `ActSent`, `Applies`, `Rejects`, `PageRejects`, `Answered`, and the binding that ends
and comes back.

A mutation is an act (`Acts`) or an operation on tabs and groups (`Operations`). An act looks at `cancelledRequests` and
at its lineage when its turn comes and once more before it is sent to the page; after that it answers with a result,
among them the refusal of the page (`refused`: ok, with the outcome `not_started` inside), or with "unknown". An operation
looks at neither after its first check, may answer with a partial result, and what it throws after its effect (a tab that
is opened when access has ended, a group that cannot be read back) is answered as "not started". The host forgets an id
for a "not started" without ok, and records a refusal like any result. `Delivered` is what becomes of an answer when
access has changed: a result of a mutation is told as completed, also a refusal; `masked` remembers the acts this
happened to. The mark `authority_ended` is not in the model: the journal drops it and a replay is without it.

`Told` and `Lost` are the provider's classification of an answer and of a transport error for each of five kinds of
operation: status (which also stands for the request for attention), reads, control, claim, durable mutation. Two
assumptions about time are built into the guards: a client waits 40 s and the host 35 s, so the client's deadline comes
first only when the host did not read the frame in time; and the host reads its sockets before a deadline of its own.

## 4. What is checked

| Run | Instance | Checks |
|---|---|---|
| `companion_one_tab` | 1 tab, 2 origins, 1 consumer, 2 host processes | `BindingOfLiveHost`, `ExpiredGrantsNothing`, `UserControlHeld`, `ExpiryEndsAuthority` (liveness) |
| `companion_two_tabs` | 2 tabs, 1 origin, 1 binding | `TypeOK`, `AuthorityCoherent`, `ClaimWithinScope`, `GenerationNamesClaim` |
| `journal` | 2 ids, a journal of one entry, horizon 1 | `JournalAhead`, `CompletionIsFinal`, `RunsAtMostOnce` (the refinement of `AtMostOnce`) |
| `journal_replay` | 1 id with a click, two typed inputs, two operations, corruption | `TypeOK`, `ReplaysOwnRequest` |
| `act_requests` | 1 tab, 2 ids, a cache of one outcome | `TypeOK`, `OneWriteAtATime`, `OneEffect`, `EffectIsRecorded`, `SentUnderItsClaim`, `LandsWhereObserved` |
| `groups` | 2 tabs, 2 sites, 1 group, 1 request, 2 overlapping reconcile runs | `TypeOK`, `OwnedTabsAreShared`, `AccessIsConsented` |
| `captures` | 1 tab, 2 captures, 2 bindings, 2 documents, 2 addresses, two changes of either | `TypeOK`, `SlotHeld`, `PictureOfItsPage`, `PictureIsClean`, `DeliveredUnderOneBinding`, `SlotComesBack` (liveness) |
| `assets` | 2 requests, a stream of one item, room for one of two transfers | `TypeOK`, `StreamInOrder`, `OneBinding`, `A1CapHolds` |
| `artifacts` | 1 screenshot call, 1 reader, 1 reaper run, 2 pictures in room for one | `TypeOK`, `ReadWasCovered`, `SparesTheLive`, `EndedGoes` (liveness) |
| `broker_calls` | a call of any kind and a mutation that may share its id, an act with typed input and an operation, room for one pending request, 2 hosts | `TypeOK`, `NotStartedIsTrue`, `CompletedIsTrue`, `HostFreesUp` (liveness) |

What each of them says is in the comment above its definition. Each property has a mutant: a plausible bug in one
definition (a dropped re-check, a missing reset, an early record) under which TLC finds the property violated in the same
run. The mutants stand beside the definitions they change, named `Definition_WhatIsWrong`.

Two runs show where the code departs from what it or its documents say (`findings` in `PROJECT.json`):

| Run | Property | What happens |
|---|---|---|
| `outcomes_collapsed` | `CompletedMeansApplied` | `mutation_status` reports `completed` for an action the page refused or applied in part. |
| `ambiguous_reaps` | `RemovesOnlyEnded` | When a second browser has a live session receipt, a status says "disconnected", the reaper takes this for the end of the access and removes pictures whose binding is live. |

**Bounds.** Each is a named constant.

- *Companion.* `MaxGeneration` stops users and agents at that claim generation: 3 changes of control are enough for
  claim, loss and a second claim. `MaxId` 2 gives an old and a new binding, which is all a lineage check distinguishes;
  `MaxRuns` 2 a host and its successor; `MaxEvents` 1 is one tab event overtaken by everything else. One handler is in
  flight beside the events; that several are is covered by the proofs, which hold for any number.
- *Journal.* The horizon is 1 and the clock goes to 2 or 3, so that an entry is fresh, at the boundary and beyond it;
  `MaxDurable` 1 against two ids makes every second start evict; `MaxRuns` 2 lets a second effect happen and be seen.
  Two of `Typed` and two of `Operations` are all it takes for parameters that the file cannot tell apart.
- *ActRequests.* `MaxCompleted` 1 against two ids reaches eviction, `MaxPage` 2 a navigation or a gesture at each point,
  `MaxGeneration` 4 a claim, its loss, a resume and a second claim; `MaxObserved` 1 suffices because a reference of an
  older grant or claim never matches again and each id keeps its reference.
- *GroupScope.* `MaxWork` 3 bounds the steps of the user, requests and topology events together, `MaxUser` 2 the first
  of them: two reconcile runs that overlap, or one with a request, each with a step of the user, or a page at another
  site whose group is removed and whose change is confirmed. `MaxBindings` 2 lets a run of the first binding write into
  the second.
- *Captures.* Two captures contend for one slot and one place (`MaxArtifacts` 1); `MaxPage` 2 lets the page leave and
  come back between any two messages, by document or by address (`Documents`, `Addresses`: two each).
- *AssetTransfer.* `Cap` 1 against `MaxOpens` 2 reaches the limit; `Length` 1 with the end of file gives two positions,
  a repeated chunk and a wrong one; one change of page or binding.
- *Artifacts.* `MaxFiles` 1 against two pictures reaches eviction; two chunks give a loss between them; `Attempts` 2 a
  retry; one event at each point.
- *BrokerCalls.* One id of an act and one of an operation, which either call may use; `MaxPending` 1 against two calls
  reaches BROKER_BUSY; `MaxAttempts` 2 a retry that joins or follows its
  first attempt; two host processes and two bindings an old and a new one; `MaxRuns` 2 lets a second effect be seen.

`CHECK_DEADLOCK FALSE` is set everywhere: with the bounds used up the models stop, and the program may simply wait for
its user. Symmetry (`Symmetry` in the MC modules) permutes ids, tabs, consumers, requests or parameters that no
definition tells apart; the runs with a liveness property do not use it.

**Fairness.** No user, agent or page action is assumed ever to happen.

- `Companion`: weak fairness of `AuthorityTick` while the deadline has passed. The tick is an interval timer of the
  background page and nothing can disable it while the page lives.
- `Captures`: weak fairness of the companion's own steps (`CaptureProceeds`) and of its two timers (`TokenExpires`,
  `HardExpiry`). Neither the renderer is assumed to finish nor the page to answer a ping, which has no timeout:
  `SlotComesBack` says that the slot comes back or the capture that has it waits for such an answer for ever.
- `Artifacts`: the reaper's interval fires and a run that has its answer decides (weak); a status that is asked for ends
  in an answer or a failure (weak) and, asked for again and again, is answered some time (strong: a retry that failed
  for ever would be a browser that is unreachable for ever, and then the files go at their expiry).
- `BrokerCalls`: the host reads what arrives at its sockets and its per-request timers fire (weak).

## 5. What is proved

The theorems hold for every value of the constants: any number of tabs, origins, consumers, handlers, requests and ids,
any cache, journal and queue size, and with no bound on the counters beyond the named ones. They assume only the `ASSUME`
of the modules, which TLC evaluates in every run, and the conditions a theorem states.

**Companion_proofs**: every safety and action property of the two Companion runs. `Coherence` and `ClaimStaysInScope`:
`AuthorityCoherent` is not inductive alone, a commit installs what its handler holds, so `IndInv` adds the types and that
a grant in flight names its duration, and `ClaimWithinScope` is carried along because a tab may leave the scope by six
paths, each of which has to end a claim on it. The proof is organised by the helpers of the code (`EndAuthority`,
`DropBinding`, `RemoveTabFromScope`, `EnsureAuthorityCurrent`): each keeps an authority good, and the actions follow.
`ClaimsAreNamed`, `UserKeepsControl` and `ExpiredMakesNoClaim` look at one step each, from the same invariant;
`BoundToLiveHost` needs that a hello and a disconnect of the host end the binding before anything else reads it.

**MutationJournal_proofs**, the effects: `RecordedFirst` (`JournalAhead`), `OneAtATime`, `Implementation` (`Spec => RunsAtMostOnce`,
the refinement of `AtMostOnce`). The invariant says that entries carry the time they were started, not before the id was
minted; that every id on its way, running or run is recorded or refused, on disk and, while a host lives, in its memory;
and that an execution is in exactly one place. Two conditions are stated in the theorems because without them the
property is false: the journal stays readable (`MayCorrupt = FALSE`) and every operation is one browser call
(`MultiStep = {}`); see the observations.

**MutationJournal_proofs**, the answers: `OwnRequest` (`ReplaysOwnRequest`) and `TypeCorrect` without any condition, corruption and
multi-step operations included. What is proved is what `mutationFingerprint` can promise: a recorded answer goes to a
request with the same durable parameters; to the very same request if the process that recorded it still runs, or if it
is typed input. After a restart an operation with another url, title or members is answered like the first
(observation 16). `Finality` (`CompletionIsFinal`) needs only that the file stays readable.

**ActRequests_proofs**, the queues: `TypeCorrect`, `Serial` (`OneWriteAtATime`), `Sent` (`SentUnderItsClaim`). The invariant is
`TypeOK`, `QueueOK` (a queue holds each pending write of its tab once, and a running write is its first), `Aimed` and
`Reviewed` (while an unknown outcome waits, control is withheld). Serial execution follows from `QueueOK` alone. For
`Sent`, the dispatch check makes the claim exact, and `Reviewed` turns it into "no unknown outcome is waiting".

**ActRequests_proofs**, the effects: `Once` (`OneEffect`), `Remembers` (`EffectIsRecorded`), `Lands` (`LandsWhereObserved`). Claim
generations only grow, and every change that empties `completedRequests` makes a new one: a request whose outcome was
cleared names a claim that never comes back, and the check before the dispatch turns it away. A reference keeps the
document it was read from, and the content script compares it once more.

**Captures_proofs**: every safety property of the run. *The picture's page* (`TheRightPage`): the picture lies between two
readings that are equal in document and address, so it shows that page, or the page had left after the first and was back
before the last (`Upto`: a capture reads the visits of its tab in order; observation 18). *No overlay*: a token that was
confirmed stays with its document, wherever the tab goes, until its release is read, the release is sent after the
render, and messages are read in order. *One binding*: the stamp is made with the binding of that moment and the delivery
compares it with the request's. *The slot*: it is given back only by the capture that holds it. *The limit*: room is made
once, before the digest is waited for, and only the holder of the slot adds a picture.

**AssetTransfer_proofs**: every property of the run. A read under way holds the busy mark of its transfer and the
position that is next, two reads of one transfer are the same, and a handle enters the registry only under the binding
its request was authorised under.

**BrokerCalls_proofs**: `NotStarted`, `Completed`, `TypeCorrect`. For an act whose id one call uses, the request is in
exactly one place (on the wire, in the pipe, running) or nowhere, and while it is anywhere before its effect, nothing has
happened; "not started" is only told from a state in which it is nowhere. That "completed" is true, of acts and
operations, of replays and of answers given after access has changed, follows backwards: from the answer to the journal or
the execution, and from both to the effect. The exception is stated in `Done`: an act whose refusal by the page was told
as completed because access had changed (`masked`), now or in a replay.

The same module proves `Implementation` (`Spec => RunsAtMostOnce`): the whole way, with the connections, retries, joined
waiters, cancellations, late answers, host restarts and bindings that lie on it, implements `AtMostOnce` *for acts*, for
calls that share an id too. For operations it does not hold: one that throws after its effect is answered as not started
and forgotten (observation 4); `NotStarted` and `Implementation` are about the ids of acts as `MutationJournal`'s are about
`MultiStep = {}`, while operations run beside them and contend for the same host. The mapping takes the ids of acts the
journal holds for `recorded` and their effects for `runs`; nothing is retired, because `BrokerCalls` leaves the age of
entries to `MutationJournal`. The invariant, `OnceInv`, says of each such id: one that the journal does not hold is not in
the pipe, not running and has not run; one whose request is in the pipe has not run and is not running; and there is one
request at most. An id leaves the journal only with the answer "not started", and an act is only given that answer from
a state in which the rest follows.

**GroupScope_proofs**: `ScopeInvariant`, `TypeCorrect`, `OwnedAreShared` (`OwnedTabsAreShared`), `AccessConsented`
(`AccessIsConsented`). A reconcile run writes what it learned into the scope of a later moment, perhaps of another
binding, so an invariant about the scope alone is not inductive. `Handled` speaks of every record of a group, in the
scope *and in the hands of the runs*: a handle belongs to one policy for good and is not newer than the binding; the
handles of groups the agent made never follow their group. `Chosen` then says that each tab of the scope is shared,
created by the agent, or a member through a handle that follows (a confirmed change that outlived its entry makes it
shared); a late write of a run names a followed handle of the
live binding or one that no group of it has, and grants nothing. The attempt to prove it corrected the model: groups the
agent makes have handles of their own (`newGroupHandle` draws a random one), not those of the first binding.

**Artifacts_proofs**: `ArtifactsInvariant`, `TypeCorrect` (with the cap on the directory), `GivenWasCovered`
(`ReadWasCovered`), `ReaperSparesTheLive` (`SparesTheLive`). A binding has a token of its own and one that ended is never
live again, so an answer that is out of date names a binding that is gone, and a picture of the new one is not in the
list that was made before (`Captured`, `Stamped`, `Permitting`). The cap follows from a lemma about the sweep: of the
files that are kept each has a different number of younger ones, all below `MaxFiles - 1`.

**Only model-checked**: liveness, which is outside the prover together with ENABLED: `ExpiryEndsAuthority`
(`Companion`), `SlotComesBack` (`Captures`), `EndedGoes` (`Artifacts`), `HostFreesUp` (`BrokerCalls`). Every other
property of a passing run is a theorem. `RunsAtMostOnce` of `BrokerCalls` is the one theorem that is not part of a run:
TLC finds it true on the instance of `broker_calls` when it is added to `BrokerCalls.cfg`. Induction over data and
RECURSIVE operators are outside the prover too; no module here uses recursion.

## 6. Observations

What the models show beside the properties: behaviour of the code as it is, which a reader should know before relying on
more than the properties say.

1. *Claim.* A claim request that waits for `tabs.get` through a revoke and a grant to another agent takes the claim for
   its own audience in the binding of the other (`background.js`, `claim`). That agent is refused everything else.
2. *Confirming a site.* `confirmOrigin` records what the tab shows when the lookup returns, not what the popup showed.
3. *Withdrawn without a question.* A tab that navigates while a grant commits, or before the pending changes are
   cleared, is at another site with nothing to confirm; access is denied until it is shared again.
4. *Not started, but done.* An operation that throws after its effect is answered `not_started`, the host forgets the id
   and a retry runs again: a later call of a multi-step operation fails; access ends during `tabs.create`, so that
   `registerOwnedTab` finds no binding; `observeGroup` cannot read a group after it was changed. Cancellation does not
   reach operations either. What holds of ids of acts is therefore not claimed of those of operations.
5. *Unreadable journal.* It is replaced by a mark in memory; a second restart before the next write loses the mark and
   an id that ran is accepted again.
6. *After a takeover.* `act` repeats its claim check before it is sent; navigate, reload and the group writes check
   before they wait for the focused window and leave after a takeover all the same.
7. *Followed groups.* "Stop sharing this tab" does not write `excludedTabIds` ("Manage access" does): a member of a
   followed group comes back at the next topology event.
8. *Transfers of an ended binding.* Ending a binding clears the background page's registry, not the page's transfers:
   they keep their places until they lapse, and new ones are refused with `active_transfer_limit_reached`.
9. *Closed provider.* A screenshot that is under way when the provider closes is stored after the directory was
   cleared, and no reaper is running any more.
10. *Exit of the host.* The answers `BROKER_EXITED` that `cleanupAndExit` gives its waiters are never written:
    `process.exit` comes first, and the clients see a closed connection.
11. *A claim in transit.* A claim whose connection is lost after dispatch is reported as `not_started`; it may hold.
12. *Retries with one id.* A retry that is refused on the way says `not_started` of itself, while the first attempt may
    have applied. `NotStartedIsTrue` is therefore about ids that one call uses.
13. *Snapshots.* References carry the claim generation of the end of the read (`docs/security-model.md` asks for an
    observation at the current generation); a claim made during the read makes them valid.
14. *Cancelled ids.* An id that is cancelled when it is not in flight stays in `cancelledRequests`.
15. *A silent page.* Nothing in the companion gives up on a page that never answers: the queue of its tab waits with it,
    and so does the capture slot, which then refuses the screenshots of every tab.
16. *Replay after a restart.* The durable fingerprint has neither url, title nor members: an id that is used again with
    another url for `navigate_tab` or `create_tab`, or other members for a group, gets the recorded answer of the first,
    where the process that recorded it would report a conflict.
17. *Completed, but refused.* A refusal of the page is ok:true with the outcome `not_started` inside. When access has
    changed by then, the companion tells it as completed with `authority_ended` (`deliverableAfterAuthorityLoss`), and the
    host stores it without that mark (`sanitizeStoredResponse`): a replay is an unqualified completion of something that
    did not happen. `CompletedIsTrue` exempts exactly these acts (`masked`).
18. *There and back.* A screenshot compares the page before and after by document and address. A page that goes to
    another address, or a tab that goes to another document, and is back before the last question is accepted with the
    picture of what it showed in between. `PictureOfItsPage` says no more than that.
19. *A change that outlives its entry.* `removeGroupFromScope` does not delete the pending changes of the members. Such a
    tab stays in the popup as a changed site; "Stop sharing" does not dismiss it, sharing the tab again leaves it
    inaccessible, and confirming the site puts the tab back into the scope. `GroupScope` takes a confirmation for consent
    and has `confirmOrigin` in one step (`Companion` has its await).

## 7. Not modelled

- Contents: what a page shows, how elements are found and events synthesised, error texts, formats, hashes.
- Framing, native messaging, authentication of local processes, the ageing of session receipts: a message arrives, late
  or never, and a session is found once, several times or not at all.
- The lock file of the journal with two hosts (a held lock is a write that fails), the epochs of the presence banner,
  joined reads, the observation list of the MCP server: planned, section 2.
- The v1 provider: an older interface over the same client, host and companion.
- Attention (badges, notifications), popup rendering, activation of tabs and groups, install/doctor/CLI, release
  scripts, type declarations: no authority decision reads their state.

## 8. Running

```
tlc -workers 2 -config BrokerCalls.cfg MCBrokerCalls
tlapm BrokerCalls_proofs.tla
```

`PROJECT.json` lists the runs (`runs`), the mutants, the definitions with the lines they translate (`map`), the
findings, the hazards and the theorems.
