# Formal models of ultracua

ultracua lets a language model author a browser workflow once (`learn`, or a human demonstration with `record`),
has a human approve it, and then replays it deterministically (`replay`, `run_batch`, `run_all`, the MCP server).
The models in this directory are about what makes that safe to run unattended when a flow *writes*: a write must
not be fired twice, must not be reported when it did not happen, and must not be run unless a human reviewed the
steps; and a value that is returned must be the one that was reviewed. All paths below are relative to the
package (`src/ultracua/...`; in `PROJECT.json` they carry the prefix `src/`).

- [1. The system](#1-the-system)
- [2. Modules](#2-modules)
- [3. The models and the code](#3-the-models-and-the-code)
- [4. Runs, bounds and fairness](#4-runs-bounds-and-fairness)
- [5. Proofs](#5-proofs)
- [6. Known limits](#6-known-limits)
- [7. What is not modelled](#7-what-is-not-modelled)
- [8. Plan](#8-plan)

To run: `tlasany M.tla`, `tlc -workers 2 -config X.cfg MCModule.tla`, `tlapm M_proofs.tla`.

## 1. The system

| Component | State it keeps | What makes it correct | Module |
|---|---|---|---|
| Batch runner (`flows.run_batch`), resume ledger (`ledger.RunLedger`) | results so far, an append-only JSONL file per job, what was read of it at the start | a row is `ok` or skipped only if its write landed; a write is repeated only if its record was lost | `BatchLedger` |
| Trust sidecar (`FlowMeta`, `_update_meta`, `_meta_lock`) and the calls on it | one JSON file, one lock file | no lost update; corruption and unreadability fail closed; what runs is what was approved | `TrustStore` |
| Trust lifecycle (`learn`, `approve`, `unapprove`, `mark_step`, `release`), value contracts | marks and their sources, approval's digests, the learned sample | evidence cannot be laundered; an approved flow returns what was reviewed | `Review` |
| Write replay (`replay`, `_attempt_replay`, `_auth_retry_allowed`) | evidence of the attempts | no second send without a precheck's miss; every claim true | `WriteReplay` |
| Replay engine (`flow._replay`, `_replay_step`, heal, suffix-replan) | position in the recipe, baselines, what is put back in the cache | a signal counts only if it appeared; writes in order; a repair adds no write | `WriteReplay`, `Repair` |
| Learn engine (`flow._learn`, `_author_steps`, best-of-N) | requests seen per step, the refusal file | a write is gated at the step that caused it; a refusal is remembered | `Learn` |
| Recorder (`recorder.record_demo`, `flows.record`) | queue of page events, turn markers | what is kept is complete, gated, and takes credentials from secret slots | `Record` |
| Locators and snapshots (`locators.py`, `snapshot.py`) | refs left on the page, cached locators | a keyed row keeps its step; a fallback never beats the element | `Bind` |
| Dry-run arbiter (`dryrun.DryRunArbiter`) | act window, held writes, two request ledgers | no write leaves the browser; the report is true | `DryRun` |
| MCP server (`mcpserver/server.py`) | a lock per flow, the ledger of job `mcp` | a human accepts each write; a client's retry does not repeat a landed one | `McpRail` |
| Fleet (`run_all`, audits), magnitude history (`history.py`, `contracts.py`) | value rings, anchors, evidence files | exit code 0 means nothing was left out silently; outliers do not become normal | `Fleet` |
| Browser sessions and the driver (`browser.py`), run record and usage (`obs.py`, `_RecordSink`), `llm/base.Router` | reference count, running totals | the driver lives as long as its users; bills and records do not understate | `Runs` |
| Recipe cache (`cache.FlowCache`) | one JSON file per flow, a refusal file | readers see whole recipes | `TrustStore`, `Learn`, `Record` |
| Pacing governor, `run_many`, providers, daemon, CLI, vision, WebMCP | see [section 7](#7-what-is-not-modelled) | | — |

**How they interact.** `run_batch` pre-flights all rows, then calls `replay` row by row and `RunLedger.record` after
each landed one; the only thing it knows of a row's write is the answer. The MCP server does the same for one row,
after asking a human. `replay` reads the sidecar, runs the pre-flight gate, calls `run_cached`, which reads the recipe
*again* and drives the engine in a browser session, and finally updates sidecar, history and evidence files. `learn`,
`record`, `approve` and the others read and write the same two files (recipe and sidecar, each replaced atomically, with an
advisory lock over the sidecar only) from other processes. The engine sees the target only through the page: requests it
sends, elements it resolves, and completion signals.

**What is hard.** Two processes on one flow or one job; a kill between the target's write, the engine's seeing it, and the
ledger's line; a write performed after the wait for it ended; a signal left over from an earlier run; requests
credited by *when* they leave to what did not cause them; page tasks and timers that are overdue; a page that
changes between capture and replay, or between gate and act; awaits between a check and its use; several runs in one
event loop sharing a driver and a router. `PROJECT.json` lists each hazard at its line with the properties that
cover it, and says where a property stops short.

## 2. Modules

```
ResumableJob   <=refines= BatchLedger     run_batch + RunLedger, several processes
                              |  a row's replay is one step there, with WriteContract's outcomes
WriteContract  <=refines= WriteReplay     replay(): attempt, verdict, retry
                              |  used also by McpRail, for the replay under the rail
AtomicSidecar  <=refines= TrustStore      recipe + sidecar + lock, several processes
      \______ TrustMeta _____/            the data and its updates

Learn, Record   how a recipe and its gates come about   Repair, Bind   what a replay does on a page that changed
Review          what marks, approval and contracts hold  DryRun         the same engine with nothing sent
Fleet           unattended ticks, baselines, audits      Runs           what runs of one event loop share
McpRail         tool calls with a human in the loop
```

Each `X` has `MCX` and `X_safety.cfg`, a small instance for TLC; `BatchLedger`, `TrustStore`, `WriteReplay`, `McpRail`,
`Learn`, `Repair`, `Fleet` and `DryRun` have `X_proofs`. Four components are proved beside another one, with which they
share no name: `Runs` in `WriteReplay_proofs`, `Bind` in `Repair_proofs`, `Review` in `BatchLedger_proofs`, `Record` in
`Fleet_proofs`; that is why their standard definitions carry the module's name (`RunsInit`, `BindNext`, `ReviewSpec`,
`RecordTypeOK`, ...). Definitions marked `Fault:` in a module are not part of its
specification: each is a plausible bug that one of the properties finds (`PROJECT.json`, `mutants`). The last section of a
module states what the code does *not* keep ([section 6](#6-known-limits)).

## 3. The models and the code

`PROJECT.json` (`map`) gives for each definition the lines it models. What follows is how to read each module and what
it leaves out.

**BatchLedger** (`flows.py` 4572-4805, `ledger.py`). A row is named by its `Idempotency-Key` tuple. The file is the
sequence of what `json.loads` makes of its lines: this flow's header, another flow's, a commit of a key, or junk; `open`
says the last line has no newline. `effects` counts how often the target performed a row. Pre-flight is one step for each
of its ends; each row ends by one of `SkipStopped`, `SkipCommitted`, `ReplayOk`, `ReplayLandedError`, `ReplayError`,
`ReplayRaises`, with report and record in the code's order. `record` is `OpenLedger`, `AppendHeader`, `AppendCommit` or a
failure of one; `Interrupted` is an append that raises or is killed and leaves nothing, part of a line or the line;
`AppendLine` glues a line to an open one. A process may be killed between any two of these and inside a replay or
a record. `unrecorded` is history. Left out: read batches and batches without a ledger (the same loop
without its ledger steps), argument errors; the `finally` with the driver is in `Runs`.

**TrustStore, TrustMeta** (`flows.py` 1127-1618, 1964-2415, 3398-3576, 4229-4354; `flow.py` 255-325). A recipe is the
`learn` that authored it and a human's mark, so recipes are equal when their `steps_hash` is. A sidecar keeps what some gate reads
or some writer must not lose. A call goes through labels: `read`, `decide`, `run`, `author`, `cached`, `bind`, `put`, and
for every update in its `todo` `lock`, `load`, `save`. `ProceedUnlocked` is the lock's deadline; `SetAside` and `Poison`
are the two steps of quarantining a corrupt sidecar; the two reads of the recipe in a replay are `Preflight` and
`RunCached`. Crashes free the lock, `Wedge` does not. `honoured` remembers whether the lock was ever passed by or the file
destroyed. Left out: timestamps and failure counters, `on_drift="relearn"`, the second put of `declares_barriers`.

**WriteReplay, WriteContract** (`flows.py` 1677-1919, 2593-2707, 3009-3309, 3765-4008; `flow.py` 1243-1422, 1639-1841). One
call with `on_drift="raise"` and no provider. A step reads, writes, or is only *marked* as writing. A request is
`inflight` or `performed`; `LandsLater` performs it later or never. `shown` is the set of steps whose completion signal
is on the page: it may be there from an earlier call, and it appears only if its write was performed. That only writes
cause their signals is an assumption of the model; the code cannot tell a signal somebody else
painted from a caused one. `AttemptRaises` is any exception that is not a `FlowReplayError`.

**McpRail** (`mcpserver/server.py` 144-549). A call looks its tool up (`LookUp`, `Classify`), and if it writes takes the
flow's lock, pre-flights, asks the ledger, asks the human (`Accept`, `Decline`), replays (`Gate`, `Precheck`, `Run`) and records.
`Operate` is learn, approve and unapprove from another process at any time; `Cancel` and `Crash` strike anywhere. The
replay is what `WriteContract` allows, with requests that land later. Left out: schemas, names, the transport. The human's
confirm has no timeout (`_make_confirm`), so one who never answers holds the lock; no liveness is claimed.

**Learn** (`flow.py` 183-325, 349-943, 978-1240; `cache.py` 341-428; `flows.py` 1964-2110). A pass decides, acts and verifies
step by step. Each act has a window, and the window a tail of `write_window_ms`; a request leaves now, later (in whatever window or
tail is open then) or unseen. `Gated`, `Attributed` and `Unreconciled` are the decisions at the pass's end. Assumes `verify_replay`
on, one request per step, one origin per pass. Left out: prompting, stuck detection, the loop's stop conditions (`Stop` is free).

**Repair** (`flow.py` 1243-1437, 1477-2004; `browser.py` 389-426). Readiness looks and the re-look, the gate, the act, the
model's heal of one step, the replan of the tail, and what they leave in the cache. The page changes at will; resolving
a locator has the outcomes target, wrong element, ambiguous, nothing. Left out: the interstitial check; a vision step.

**Record** (`recorder.py` 153-460, 478-519, 666-893; `flows.py` 4902-5435). The page is an event loop of dispatches, deferred tasks and an
overdue reset timer; the queue is drained by tasks that may lose a race with a navigation; Python reconciles markers with
requests it saw on the wire; then `record()` binds slots, audits credentials, attaches barriers, and keeps, refuses or
verifies. `record_demo` has put its recipe before any of that, so a verdict that raises leaves it, or what was mined of it, in the
cache: `Unjudged` before the steps have passed (the probe of the confirm, binding, a delete), `Unsettled` after (the verifying
replay, a put, a delete). A caller of those has an exception and no verdict; the properties speak of the recipes `record()` kept,
and `EveryWriteGated` of the unsettled ones too. `Happenings` bounds its requests and navigations together. The queue keeps the acts in order beside a set of request
markers, since Python takes the two kinds apart before it uses either. Left out: scroll coalescing, popups and iframes, storage quotas.

**Bind** (`locators.py`, `snapshot.py`, `flow.py` 619-665 and 1672-1701). A page is a list of records with one control each; `shape` says what a record
offers as identity, text and attributes. `Snapshot` sets refs and removes none, `ActOn` and
`Press` capture a locator by ref or by focus, `Change` changes the page, `Resolve` is the ladder with uniqueness, the
row guard and the scope gate. Left out: accessible-name computation (a name is a string of a small set, some of which
contain others), hints, coordinates.

**Review** (`flows.py` 1082-1114, 2022-2415, 3246-3309, 3420-3530, 4902-4934; `contracts.py` 34-281; `safety.py` 138-280;
`cache.py` 73-266). One flow and calls in any order: `EditSpec`, `Learn`, `Record`, `Approve`,
`Unapprove`, `MarkWrites`, `MarkReads`, `Quarantine` (a replay that read a wrong value), `Release`. `Classified` and
`Learned` give each step its marks with their sources. What a pass made of its page's requests is a choice (`Sightings`): a write
is credited to a step, or to nobody while some step was in flight, or leaves unseen; credited or in flight may be an act that
failed and has no step (0). A credited step is marked `wire`; a write held to no step (`Unattributed`) refuses the flow and
deletes the stale recipe; one that the marks agree with but the page does not prove gates every other step (`OverGates`).
A recipe remembers for the properties which steps were credited (`wrote`) and whether it was over-gated (`over`). `Digest` is over the fields `steps_hash` hashes; `Seed`,
`Effective` and `Violates` are the contracts. What a replay would return is the predicate `Returns(e)` for every
reading `e`. The reference is written by values (`Plausible`), not by the contracts' predicates. Left out:
minimum, boolean and datetime predicates, slot gates; magnitude (`Fleet`) and interleavings (`TrustStore`) are elsewhere, and which
window a request falls in and the memory of a refusal are `Learn`'s.

**Fleet** (`flows.py` 2386-2577, 4104-4490, 4229-4354; `audit.py` 122-315, 416-535; `history.py`; `contracts.py` 284-353). A job is one
flow of one tick: gates, replay, look at the ring, accrue or quarantine, capture of evidence. The audit gathers, then judges one
artifact at a time. `Capture` is best effort, as in the code: `audit.capture` may fail and answer `None` (the due flag is consumed all the
same), something may raise before it or at the flag, `prune` may age out any number of old artifacts, and an artifact may be
unreadable. `Gather` prunes likewise and takes up what it can read. A capture that failed, a prune by age and an unreadable
artifact are faults of the model's budget of `acts`. Humans approve, release, re-learn; sidecars and histories are destroyed, reads blink. Numbers
are levels; the band is computed with `Median2` and `Spread4` in integers (both sides scaled).
Left out: `--keep` and `--dry-run` of the audit, an unlink that fails (the evidence stays and is judged again); the canary is in `Runs`.

**DryRun** (`dryrun.py`, `flows.py` 3604-3713, `flow.py` 1315-1349, 1642-1841). A request is unseen, seen by the event,
handled, answered or continued; the handler runs after the event. `Open`, `Drain`, `GraceEnds` are the act window. `Handle`,
`Redirect`, `HandlerFails`, `Frame` are what happens to a request; `Latch` keeps the first abort. `fiction` is the step at
which the first made-up response was served. Left out: bodies and previews; the warning that the replay did not complete.

**Runs** (`browser.py` 49-209, 505-518; `flows.py` 2791-3035, 3765-3957, 4793-4848; `obs.py` 185-364; `llm/base.py` 59-87). A holder (a
run or a scope) waits for the lock, starts or joins the driver, uses a page, closes, releases. Starting is two steps, the launch of the
process (`Spawned`) and the end of its handshake (`Started`), since only the second assigns the handle; a holder cancelled in
between leaves a process behind. A run is a sequence of passes
(precheck, attempt, refresh, retry, repair, learn), each in a session, each adding a fact to the sink; the record is written
once, from the facts and from the difference of the routers' totals. `deed` is what a pass saw of its commit and `deeds` the
history of what the run's passes did; a commit that no pass credits (its confirm never came, its step failed, nobody marked it, or it is
a repair's of a read flow) is outside of both, and the record does deny it (`flows.py:3268`). `committed` is
`RunRecord.committed`; `RunRecord.landed` is `WriteReplay`'s. Cancellation may strike at every await. Left
out: `run_many`'s own browser, vision accounting, learn's second session, a task cancelled twice, kinds of tokens and prices.

## 4. Runs, bounds and fairness

| Run | What it asks | Distinct states |
|---|---|---|
| `BatchLedger_safety` | overlapping calls, killed anywhere, torn lines, a target that does not dedupe: `NoFalseSkip`, `RefireNeedsLoss`, `ImplementsJob` | 828 442 |
| `TrustStore_safety` | two processes, seven kinds of call, six faults: `QuarantineHolds`, `RunsOnlyApproved`, `ImplementsSidecar`, `CallsEnd` | 416 666 |
| `WriteReplay_safety` | every small flow: `RefireNeedsMiss`, `ClaimIsTrue`, `BarriersOrder`, `ImplementsContract` | 15 689 |
| `McpRail_safety` | two calls, two servers: `HumanAccepts`, `RepeatNeedsLoss` | 400 912 |
| `Learn_safety` | two calls, two samples, three steps: `LoneWriteGated`, `NoSecondFire`, `RefusedOnce` | 5 284 230 |
| `Repair_safety` | two replays of drifting recipes: `WritesActOnce`, `NoLaunderedWrite`, `SlotsAreTheCallers` | 2.4 million |
| `Fleet_safety` | two ticks and an audit: `GreenIsChosen`, `UnattendedWrites`, `AuditLooked`, `OutlierNeedsRace`, `CreepLeavesEvidence` | 1 905 096 |
| `Record_safety` | demonstrations of two acts: `EveryWriteGated`, `NothingLost`, `CredentialsFromSlots` | 2 291 356 |
| `DryRun_safety` | recipes of three steps, two requests: `NothingLeaves`, `EveryWriteShown`, `NamedIsCause`, `RepresentativeIsReal` | 4 599 592 |
| `Runs_safety` | two runs and a batch on one router: `DriverServes`, `NothingOrphaned`, `BillHolds`, `DenialIsFair` | 3 420 141 |
| `Bind_safety` | two records, three changes: `KeyedRowHolds`, `NeverPassedOver`, `FocusIsPinned` | 1 079 704 |
| `Review_safety` | any order of calls on four pages, seventeen readings: `EvidenceStands`, `ReturnsAsReviewed` | 548 200 |

All are exhaustive. What the properties say stands in a comment above each.

**Bounds, and why they are enough to be interesting.** *BatchLedger*: two calls are enough for one to resume the other and
for both to overlap; two rows for an earlier and a later one, a repeated one, and a good one beside a bad one. *TrustStore*:
one call per process; a reader between whose two reads a writer goes, and two writers. *WriteReplay*: three steps give a
write with a step on either side, two writes, and a write beside a keyword step; an attempt is made twice at most by
the code. *McpRail*: a call repeated on the same server and on another, with three recipes (one read, two writes) to
change under the confirm. *Learn*: three steps are the shortest pass with two steps whose windows both see a third's
request; two samples and two calls for every kind of repetition. *Repair*: recipes with a slot before a write and a late
write between reads, and replans of one step; the second replay runs what the first left. *Fleet*: `Warmup` 2 and
`RingSize` 3 let a ring warm up, roll over and drift; two levels are inside and outside of the band; two acts by
humans; one evidence file kept. *Record*: two acts and two happenings (two requests, or one and a navigation): a late request of
the first act inside the second's turn, or lost with the document. *DryRun*: three steps so that a window can be before, at or
after the cause; one URL, so that two requests look alike. *Runs*: two runs that share a router beside a scope that holds
a driver reference; two kinds of run (one that may repair, with one router for everything, and one that may not, with a router nobody watches); one unit of spending each; a scope that lost a
reference does not begin again. *Bind*: two records, one
element of room in a snapshot, three changes of the page in all (three records with two changes pass too). *Review*: four
pages of one or two controls, which suffice for a write credited to its step, to its neighbour, to a failed act or to nobody, provable
and not; five specs; state is finite without a bound on the number of calls. Symmetry is used in `McpRail`, `DryRun`
and `Runs`, on calls or requests, in runs without liveness. `CHECK_DEADLOCK FALSE` wherever calls end and
nobody has to make another.

**Fairness.** Weak fairness of `Step(p)` (`Step`) in `BatchLedger`, `TrustStore` and `WriteReplay` only: a live call keeps
taking steps, since every wait in that code has a timeout (browser waits, the lock's deadline, the model client's).
Nothing obliges an operator to start a call, a process to be killed, an exception to be raised, or the target to perform a
request. `CallsEnd` holds with a wedged lock holder only because `ProceedUnlocked` is part of `Step`. Two more
liveness properties hold when they are added to their run's PROPERTIES: `Terminates` (a batch that began ends) and `CallEnds`.

Other stated properties that hold when added and are not part of a run: `TypeOK` of every module, `LedgerSound`,
`OkMeansLanded`, `FailureStops` (`BatchLedger`), `LedgerTrue` (`McpRail`), `RefusalsStand` (`Repair`), and without torn lines
`RecordedIsDurable`.

## 5. Proofs

The theorems hold for every value of the constants that satisfies the modules' `ASSUME`s: any number of calls, processes,
rows, flows, ticks, requests, recipes of any length, and every set of faults. One theorem has a premise of its own,
`RecordsAreDurable`: a killed append leaves all of its line or nothing (`~TornAppends`, one value of a constant); with torn lines
its property is false ([section 6](#6-known-limits)).

| Theorem | Says | Along |
|---|---|---|
| `BatchLedger_proofs!Invariance`, `TypeCorrect` | `IInv` is inductive | one lemma per action |
| `LedgerIsSound`, `FalseSkipsNever`, `OkBatchesLanded` | `LedgerSound`, `NoFalseSkip`, `OkMeansLanded` | `IInv`: a call inside `record` is at a row that landed, what it has seen has landed, its report covers the rows behind it |
| `RefiresNeedLoss` | `RefireNeedsLoss` | `Remembered`: a row that landed has a line, was lost, or is being recorded |
| `FailuresStop` | `FailureStops` | `Heeded`: a call has reported only rows it has left behind, and is stopped as soon as a result says so |
| `RecordsAreDurable` | `RecordedIsDurable`, without torn lines | `Durable`: a row reported ok is in the file, reported failed too, or being recorded; `ReadableGrows` |
| `LedgerImplementsJob` | `BatchLedger` refines `ResumableJob` | `IInv`, and that only torn appends make a record unreadable |
| `TrustStore_proofs!TypeCorrect` | types | `TypeInv` |
| `ReplayIsApproved` | `RunsOnlyApproved`, under every fault | `ApprovalInv`: every approval on disk, in a copy or still to be written is of a recipe in `blessed` |
| `QuarantineIsSticky`, `UpdatesAreAtomic` | `QuarantineHolds`; refinement of `AtomicSidecar` | `LockInv`: while the lock is honoured, who saves holds it and saves over what it loaded |
| `WriteReplay_proofs!TypeCorrect`, `RefiresNeedMisses` | types; `RefireNeedsMiss` | `RetryInv`: how often each step may have been sent, by attempt and position |
| `ClaimsAreTrue`, `BarriersKeepOrder`, `CallsKeepContract` | `ClaimIsTrue`, `BarriersOrder`; refinement of `WriteContract` | `ClaimInv`: a signal absent at its baseline and shown now means its write was performed (`SignalInv`), every marked step passed has run (`ProgressInv`) |
| `McpRail_proofs!TypeCorrect`, `WritesAreAccepted`, `RepeatsNeedLoss`, `LedgerIsTrue` | `HumanAccepts`, `RepeatNeedsLoss`, `LedgerTrue` | `CallInv` for each call, `RailInv`: one holder of the lock, what was sent is settled, in the ledger or excused |
| `Learn_proofs!TypeCorrect`, `LoneWritesAreGated`, `NoPassFiresTwice`, `RefusalsAreRemembered` | `LoneWriteGated`, `NoSecondFire`, `RefusedOnce` | `Flagged` and `Placed`: what was seen is flagged, and credited to the step whose window it left in |
| `Repair_proofs!TypeCorrect`, `WritesAreActedOnce`, `NoWriteIsLaundered`, `SlotsStayTheCallers`, `RefusalsAreKept` | `WritesActOnce`, `NoLaunderedWrite`, `SlotsAreTheCallers`, `RefusalsStand` | `Kept` of both recipes, `Watched`, `ActedOnce`, `SlotsFilled`, `Refused` |
| `Fleet_proofs!GreenIsAChoice`, `UnattendedWritesAreGated`, `AuditsLook`, `OutliersNeedARace` | `GreenIsChosen`, `UnattendedWrites`, `AuditLooked`, `OutlierNeedsRace` | `LeftOut`, `Decided`, `Looked`, `Owed` over the types a number needs |
| `FleetTypeCorrect`, `CreepIsCaptured` | types and bounds; `CreepLeavesEvidence` | `Within`: no ring or evidence list outgrows its bound; `Anchors`: the anchor of a flow is the first number its baseline saw |
| `Fleet_proofs!RecordTypeCorrect`, `WritesAreGated`, `ActsAreNotLost`, `SecretsComeFromSlots` | `EveryWriteGated`, `NothingLost`, `CredentialsFromSlots` | `RecordIInv`: dispatches and tasks of the page (`PageOK`), each request's credit and marker (`RequestsOK`, `QueueOK`), what Python and `record()` have decided (`StageOK`); `Outnumbered`: fewer markers than requests on the wire mean an unmarked one |
| `WriteReplay_proofs!RunsTypeCorrect`, `DriverOutlivesUsers`, `DriversAreStopped` | `DriverServes`, `NothingOrphaned` | `DriverInv`: references are counted by the holders that have or lost one, and who holds the lock knows what it is about to do (`Counted`, `Locked`, `Gone`), and what runs is the driver handed out, the one on its way in or out, or one of somebody lost |
| `BillsCoverSpending`, `DenialsAreFair` | `BillHolds`, `DenialIsFair` | `RunInv`: the difference of the watched totals covers what a run was answered (`Armed`, `Metered`, `Billed`); `TellInv`: every deed of a run is a fact it has, or the one its pass is about to state, and every "yes" is of a deed seen |
| `Repair_proofs!BindTypeCorrect`, `KeyedRowsKeepTheirStep`, `GuessesNeverWin`, `FocusStaysPinned` | `KeyedRowHolds`, `NeverPassedOver`, `FocusIsPinned` | `BindInv`: what was captured of a keyed row is of no other row, and the ladder rung by rung; `First` by the minimum of a set of numbers (`WFMin` over `Nat`) |
| `BatchLedger_proofs!ReviewTypeCorrect`, `EvidenceKeepsItsMark` | `EvidenceStands` | `ReviewIInv`: every recipe is `Sound` (what speaks for a step left a source no verb takes back), and an approval is of the one recipe and the one sample behind it |
| `ReturnsAreReviewed` | `ReturnsAsReviewed` | `ReviewIInv` and `ChecksAreEnough`, which says of the contracts alone that what has the shape of a sample and violates none of its contracts is `Plausible`: a scalar, the fields of an object, the number of a list's items, its items, its columns |
| `DryRun_proofs!TypeCorrect`, `NothingReachesTheSite`, `TheReportShowsEveryAddress`, `TheNamedStepCausedIt`, `RepresentativeStepsSawTheSite` | the four properties of its run | `Wire`, `Recorded`, `Windows`, `Reached`, `Answered` |

None of the properties is inductive alone; each proof module begins with its inductive invariant, a conjunction of the named
parts of the last column, has a lemma per action or group of actions under `Next`, and ends with the theorems.

The assumptions on constants are about how the code's values are told apart and not about how it behaves: `None` and `Absent` are no value
of the kinds they stand beside (`NoneAssumption`, `AbsentAssumption`), runs and scopes are finitely many and no run is a scope
(`HoldersAssumption`), an array is a sequence (`ReviewAssumption`), no field is labelled with one of the two stand-ins for an unnamed slot
(`LabelsAssumption`), and the rings on disk when a fleet starts are no longer than `RingSize`, as every writer of them trims
(`FleetAssumption`).

Every invariant and action property of the runs is proved, and the three refinements. Checked by TLC only: liveness under fairness
(`CallsEnd`, `CallEnds`, `Terminates`) and ENABLED, which the provers cannot reach; and that the properties mean what they should,
that is, that each of them is violated by a mutant of the code.

## 6. Known limits

Each is a definition in the last section of its module, saying what a reader of the code's comments might expect and the
code does not keep. To see the trace, add it to the module's `_safety.cfg` as INVARIANT (or PROPERTY, for `AnnotationStales` and `DueIsHeeded`).
The properties of the runs carry the corresponding excuse, and no more.

| Definition | What happens |
|---|---|
| `BatchLedger.OneResultPerRow` | `record()` raises inside the row's `try`: the row is reported twice, or the report is lost |
| `BatchLedger.RecordedIsDurable` | with torn lines, the next run's first record is glued to the torn one and lost (`ledger.py:51`); it costs a re-fire, never a false skip |
| `TrustStore.NeverRunsUnapproved` | a re-learn between gate and run is run unapproved |
| `TrustStore.PinOfTheRecipe` | two re-learns: the pin of one beside the recipe of the other |
| `WriteReplay.EvidenceArms` | the confirm was seen, the readback raised before the evidence was stored |
| `WriteReplay.CommitsDisclosed` | a committed first write is not disclosed if the second drifts |
| `Learn.EveryWriteGated` | two immediate writes within `write_window_ms`: the second is credited to no step and cached ungated (`flow.py:396-399`) |
| `Repair.RepairWriteFails` | a heal whose act was seen to write is undone, and a replan may then report success |
| `Repair.WritesTheRow` | a heal clicks where the recipe types; the run goes on without the row's value (`flow.py:1857`) |
| `Fleet.UnjudgedIsNeverClean` | a failed judge call is counted as judged; a sidecar that blinks at the gather is skipped as already quarantined; an unreadable artifact, or one past its age, is passed over; all exit 0 |
| `Fleet.DueIsHeeded` | the artifact that a re-learn or a release asked for could not be written, and `audit_due` is cleared all the same (`flows.py:2550`) |
| `Record.NothingEverLost` | the last drain loses a race with a navigation, and a read flow is kept truncated |
| `Record.NeverGatesTheWrongStep` | a click the page makes itself is taken for the human's |
| `Record.NeverCachedUngated` | `record()` raises before its verdict, and the demonstration's recipe stays in the cache with a write ungated |
| `Record.NoBlankCredentialStays` | the verifying replay or a put raises (`flows.py:5383`, `5375`), and a recipe with a blank credential of no slot stays in the cache |
| `Runs.NoneLeftRunning` | a task cancelled while the driver starts (`browser.py:70`), while it waits to release it or while it stops it, or a `ledger.close()` that raises (`flows.py:4795`), leaves a driver process behind |
| `DryRun.EveryNameIsCause`, `EveryWriteListed`, `MissedIsSaid` | unmarked steps and page scripts cause writes too; a second request to a held address as the session closes is not listed; a step that sent twice hides one that did not act |
| `Bind.KeyHoldsAlone`, `SecretKeepsTheGuard`, `AnchorDecides`, `IntactIsFound`, `RefNamesTheSeen` | a row alone at capture has no discriminating key; a secret in a row removes its guard; a slid path is asked before the anchor; a row alone at replay is refused; stale refs name old elements |
| `Review.WatchedWriteStands` | `mark_step`'s docstring (`flows.py:2199-2202`): a human may not overrule a POST that was watched leaving. One attributed to nobody, or to a neighbour, leaves the committing step with its guess, and a guess may be taken off |
| `Review.LearnedSampleHolds`, `Reversible`, `PrecautionStands`, `AnnotationStales`, `DeclarationReviewed` | a learned list with many nulls violates its own contract; `body_read` cannot be taken back; the precaution of AB-1 leaves out a step its name has marked already, which stays demotable; adding `human` to a mark's sources does not stale an approval; whether a flow is a declared write is not bound by its approval |

Further behaviours met while modelling that no definition states: a re-learn and re-approve during the MCP human's wait makes the
recorded keys differ from those sent; best-of-N stops on a cached or written sample, not on `posted`; a release of a lost
sidecar leaves its flow unapproved, and the fleet leaves it out from then on; a precheck that found the write made but whose
session's close raises states no fact, which the fold takes for unknown; an answer of a model that times out is charged by the service and counted by nobody; step barriers are
evaluated in a dry run, though documented as never; requests of a shared worker are seen by neither ledger of a dry run.

## 7. What is not modelled

Listed in `PROJECT.json` (`components`) with the reason. In short: *external reads of a page* (extraction, vision,
verifiers, WebMCP, accessible names) appear as choices of their outcome; *prompting and parsing* around the model are
choices of what it proposes; *CLI, configuration, printing, transports, the daemon* (one request at a time, no
state between requests) change no state a property is about; *slot and parameter validation* is one bit per row;
*the pacing governor and `run_many`* (a semaphore and a delay per origin around `run_cached`) guard throughput, not
correctness; *`on_drift="relearn"`* is in `Runs` as a pass and in `TrustStore` as a `learn`, but not as one call. The
classes of errors and their wording are kinds in a set.

## 8. Plan

Done, in the order of what is at stake: `BatchLedger`, `TrustStore`, `WriteReplay` and their abstract specifications; the rail, learning,
repairs and the fleet; recording and dry runs; sessions and records; binding; review. What is left:

1. Composition of `TrustStore` with `WriteReplay`'s verdict: the evidence counts the marked steps of the recipe read before the
   pre-flight (`flows.py:3227`), the engine runs the recipe read later.
2. The clear of `release` against a second quarantine (`flows.py:2369`), with quarantines that have identities.
3. `run_many` with the pacing governor; the router's tiers and retries.
4. Proofs about compositions: that the answers of `WriteReplay`, as `WriteContract` has them, are those `BatchLedger`'s replays choose from.
