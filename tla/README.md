# GridProof in TLA+

GridProof collects evidence about the power supply of zones (sensor telemetry,
human reports, WhatsApp messages), turns suspicious evidence into candidates,
has candidates approved by a deterministic gate, an AI worker or a reviewer,
scores the approved ones per zone and hour, and commits every score and a hash
of what it counts to a smart contract. This directory specifies the part of the
program that makes a score trustworthy, and the services around it whose
failures and interleavings are hard to test; it checks them with TLC on small
instances, and proves the most important safety properties with TLAPS for all.

Paths below are relative to `src/`; `api/` stands for `apps/api/src/modules/`, `web/` for `apps/web/src/`.

## 1. Inventory

| Component | State | Operations | Talks to | What is hard | What makes it correct |
|---|---|---|---|---|---|
| NodeRegistry (`smart-contracts/src/NodeRegistry.sol`) | registrations, zone allowlist, pause | register, deactivate, add/remove zone, pause | read by the escrow | calls from inside a payment | one active registration per address; only allowed zones |
| ReputationEscrow (`ReputationEscrow.sol`) | stakes, pool, totals, policy, pause, ether | stake, withdraw, reward, slash, fund/withdraw pool, set policy, pause | NodeRegistry, any recipient of ether | re-entrancy, undone payments, checked arithmetic that could trap funds | the books equal the ether; principal moves by rule only; deactivated providers can leave |
| UptimeAttestation (`UptimeAttestation.sol`, `EpochMath.sol`) | one record per (zone, epoch start), epoch duration, pause | commitEpoch, setEpochDuration, pause | called by the relayer | durations that change between commits, unchecked uint64 sum | append-only; every grid disjoint; unfinished epochs only where the sum wraps |
| Evidence ingestion (`api/ingestion/`) | evidence_events, candidate_events | telemetry, report, WhatsApp endpoints | detection, pipeline | duplicates, failures after the row is stored, two readings at once | one candidate per key; every new candidate goes through the pipeline |
| Candidate detection (`api/detection/`) | none | rules, cross-source agreement, heartbeat gaps | ingestion, scheduler | late readings, boundaries of windows | a silence is one candidate; confidence within bounds |
| Approval pipeline (`api/pipeline/service.ts`) | agent_decisions, epoch_scores, chain_commitments | processCandidatePipeline, resolveReviewDecision | worker (queue), relayer (tables) | read, score and queue are separate statements; several tasks work on one epoch | a score counts vetted candidates, each once, and all of them |
| Agent review queue and worker (`api/jobs/queue.ts`, `apps/agent-worker/`) | BullMQ jobs, `redisUnavailable` | enqueue, run an attempt, retry | LLM agents, the same tables | retries after the work was done, Redis outages | a verdict is recorded once per agent and never counts below its threshold |
| Blockchain service (`api/blockchain/service.ts`, `packages/blockchain-client`) | rows of its sweep; chain_commitments | submit sweep, index sweep | tables, BOT Chain | lost answers, crashes between broadcast and update, overlapping sweeps, dropped transactions, batch limits | confirmed means on the ledger, with the hash shown; queued is confirmed in the end |
| Scheduler (`api/pipeline/scheduler.ts`) | timers | start heartbeat, submit and index sweeps | detection, pipeline, blockchain service | `setInterval` does not wait for the last run | a silence is processed exactly once |
| LLM agents (`packages/ai`, `apps/agent-worker/src/orchestrator.ts`) | none of their own | read five parts of a context, two model calls | the tables, the worker | evidence arrives between the queries; a model fails or is too late | the numbers the agents are shown belong to the evidence they are shown |
| Review list and alerts (`api/pipeline/service.ts`, `web/features/review-queue/`) | agent_decisions, audit rows | list, resolve, label | worker, reviewers | an audit row is lost, a retried job rewrites a row | nothing escalated disappears; a verdict is shown as given |
| Notification outbox (`api/notifications/`) | notification rows | enqueue, deliver, mark | webhook | nobody awaits the listener; delivery and its record are separate | at most one delivery; a row for the webhook is settled while its process lives |
| Rate limiter (`apps/api/src/middleware/rate-limit.ts`) | counters in Redis and per process | count, reject, fall back | every route | lost answers, stores that change within a window | a refusal is deserved; a known bound per window |
| Authentication (`api/auth/`, `web/features/settings/`) | accounts, tokens, a browser's session | register, log in, check | every route | overlapping calls answered out of order, roles that change | a lowered role ends with the sessions of before |
| Demo lab (`api/demo/`) | challenges, runs | challenge, consume, run, read back | ingestion, pipeline, worker | a challenge used twice, an hour that ends during a run | one run per challenge; a preview writes nothing to the chain |
| Providers (`api/providers/`, `web/features/providers/`) | provider rows, zones' keys | register, check on chain | NodeRegistry, ingestion, seed | overlapping upserts of one wallet | registrations are audited |
| Realtime, dashboard, audit (`api/realtime/`, `web/lib/realtime.ts`, `web/features/dashboard/`) | a tab's overlay and query cache | emit, fetch, invalidate | ingestion, relayer | events, answers and refetches out of order, broken sockets, failing queries | the newest status is shown, or demo data that says so |
| Sensor firmware (`hardware.ino`) | records and offset in flash, relay counters in RAM | sample, queue, compact, flush, cycle the relay | ingestion, a broker | restarts between flash operations, a full queue, lost answers | order kept, nothing kept is lost, the backlog drains |
| Demo seed and scripted scenario (`scripts/seed-demo-data.ts`, `simulate-hardware.ts`, `hardware-scenario.ts`) | rows with fixed ids; a run's expectations | reset, play, review, submit | every table, every endpoint | a reset of a live system; a run at any minute of the hour | nothing unvetted gets through; the first run passes |
| Deployment checks and migrations (`scripts/`, `smart-contracts/script/`) | - | - | - | - | sequential, by hand, nothing runs beside them |

How they interact: ingestion or the heartbeat sweep stores a candidate and
calls the pipeline in the same request. The pipeline writes the gate's verdict
and, for an approval, reads the approved candidates of the epoch, stores the
score and queues a commitment. An ambiguous candidate becomes a BullMQ job, the
worker process does the same with the AI's verdict, and a reviewer does it
through an endpoint. All of them meet in three Postgres tables, in single
statements without a transaction. The scheduler's timers (and an admin
endpoint) start sweeps that read queued rows, send transactions and look up
their receipts.

The services around this core share little with it and less with each other:
the board's queue and the limiter come before ingestion, the outbox and the
sockets after a decision or a confirmation, the demo lab starts candidates of
its own, sessions and the provider mirror guard and describe who may act. Each
has its own module, with what it meets of the others as actions in it.

## 2. Modules

| Module | Models | State and actions in the code |
|---|---|---|
| `NodeRegistry` | NodeRegistry.sol | `registry` is the storage; one action per external function, a revert is a stuttering step |
| `ReputationEscrow` | ReputationEscrow.sol over `NodeRegistry` | `escrow` is the storage and balance; `frames` is the stack of `_send` calls whose recipient still runs, each with the state its revert restores, so a recipient may re-enter any self-service function |
| `AppendOnlyLedger` | the abstract promise of the chain | a key is committed at most once and never changes |
| `EpochMath`, `UptimeAttestation` | EpochMath.sol, UptimeAttestation.sol | `epochs` by (zone, start); `Word` stands for 2^64; `lengthOf` is a history of the duration each record was committed under, which the contract does not store |
| `DetectionRules` | api/detection: the value of one reading, agreement and conflict of witnesses, heartbeat gaps | no state; confidences in 1/10000, which is what the code rounds to |
| `EvidenceIntake` | ingestion endpoints and the heartbeat sweep, over `DetectionRules` | `evidence` (with `receivedAt`) and `candidates` are the two tables, `gapRows` those of the second that record a silence; `pc[t]` is where a request stands between two statements; `todo[w]`, `recorded[w]` are a sweep's silences; `pipelineRuns` is a history variable and its increments are `ApprovalPipeline`'s `Detect` |
| `EpochStore` | the three shared tables and the statements on them | `decisions` by candidate and agent name, `scores` and `commitments` by slot (a zone's hour). A score is the votes it counts; the uptime in basis points is computed from them and the evidence hash is a function of them |
| `ApprovalPipeline` | api pipeline, review queue, worker | `pc[t]` is where task t (request, worker attempt, reviewer call, each for one candidate) stands between two awaits; `readVotes[t]` is what it read and has not stored; `jobs` the attempts left; `approvers` is a history variable |
| `ChainRelayer` | blockchain/service.ts against a chain | `batch[w]`, `sent[w]` are a submit sweep's rows and its transaction not yet stored; `checks[i]` an index sweep's; `txs` and `ledger` are the chain |
| `EpochProof` | the composition of the last two | both kinds of steps interleave over `EpochStore` |
| `ProofPromise` | the abstract promise of a proof | `trusted` are the candidates an entitled approver approved, `shown` the rows confirmed: a key is published once, with trusted candidates only, and shown only once it is published |
| `SeedReset` | scripts/seed-demo-data.ts, over `EpochProof` | `Seed` is the script's transaction: it overwrites its own rows by id while tasks and sweeps hold what they read before |
| `ReviewDesk` | the decision rows as reviewers and the alerts feed see them | `rows`, `audits` are agent_decisions and audit rows by candidate and agent; `job` the worker's attempts, `call` the reviewers' requests; a reviewer acts on a list that may be old |
| `AgentReview` | orchestrator.ts and packages/ai | `telemetryWindow`, `historicalBaseline`, `conflictingReports`, `providerMetadata` are filled by one query each, evidence arrives in between; `outcome` is what the agents' answers or failures become |
| `MemoryMode` | the same pipeline without Postgres | maps of one process: what runs between two awaits is one step; `Restart` empties them |
| `DemoRun` | api/demo/service.ts and what its candidate meets | `challenge`, `inMemory` are the service's maps; `at[r]` is where a run stands; `hour` passes at any time |
| `RateLimiter` | middleware/rate-limit.ts | `redis`, `expiry` are the shared counters, `memory`, `redisFallbackKeys` those of each process; a key is the window it was computed in |
| `Sessions` | api/auth and the settings page | `users` the accounts, `requests` the calls on their way, `stored` the browser's token, which an answer or a pasted token replaces; `seedUsers` is the seed's upsert of its accounts, which may lower a role (`loweredAt` is the history of that) |
| `ProviderMirror` | api/providers, the registry page, over `NodeRegistry` | `providers` by wallet and spelling of the address, `auditLog`, `calls` between read, upsert and audit; evidence and the seed write the same rows |
| `HardwareScenario` | simulate-hardware.ts playing hardware-scenario.ts, over `DetectionRules` | `SCENARIO_EVENTS` with the confidences the script expects; `Invocation`s start at various minutes and offsets; `checks` are the script's verdicts |
| `FirmwareQueue` | hardware.ino: flash queue, delivery loop, clock | `file`, `tmp` are the two files, `qOffset` the NVS offset; `pc` is the flash operation the board is at; `Restart` may come between any two; `fate` is a history of what became of each record. LittleFS commits a file when it is closed and not at all once a write to it has failed, so a failing write leaves no part of a record, and an empty file where there was none (`hollow`) |
| `StoreAndForward` | the abstract promise of the board's queue | `waiting` are the readings that wait, `accepted` those a sink will not be offered again, `intact` says that no compaction was interrupted or cut short: the oldest leaves first, when accepted or when the queue is full, and none is lost while `intact` |
| `ConverterRelay` | hardware.ino: self-healing | `failures`, `relayAttempts` are the RAM counters; `cyclesOfBoot`, `cyclesOfOutage` histories; the board may lose its power at any time |
| `NotificationOutbox` | api/notifications/service.ts | `task[e]` is where the task nobody awaits stands, `request[e]` the request that emitted; a rejection nobody handles ends the process with all requests in flight. `webhook` is whether the process has NOTIFICATION_WEBHOOK_URL: without it, which is the default, a task stores its row and stops |
| `LiveView` | socket gateway, client, store and zone query of one tab | `wire` is the socket, `overlay` the store, `cache` the query's data, `failed` whether it is in error (the page then shows `sampleZones`), `answer` a response the server has read and the tab not received |
| `NotificationPages` | NotificationCenter.tsx over the outbox | `outbox` is the table, `notifications` the rows fetched, by their place in it, `page` and the filters the component's state; `wanted`, `seen`, `overtaken` are histories of what a reviewer paging through should have been shown |
| `ReputationEscrowProofs`, `AttestationProofs`, `EpochProofProofs`, `IntakeProofs`, `DeliveryProofs`, `ServicesProofs`, `AccessProofs` | theorems | section 5; `DeliveryProofs` is about the queue, relay, outbox, notification pages and view, `ServicesProofs` about the demo lab, desk, memory mode, agents and scenario, `AccessProofs` about sessions, limiter and mirror |
| `SumTheorems` | lemmas about `SumFunction` of the community modules | the sums of stakes and votes |
| `MC*` | instances for TLC | `MCServices` and `MCDelivery` hold several components, see section 3; the others constants only |

`ChainRelayer` uses `AppendOnlyLedger` for the chain, and `UptimeAttestation`
is shown to implement it, so that the relayer's properties rest on what the
contract does. `EpochProof` in turn is shown to implement `ProofPromise`
(`PromiseIsKept`), with and without the resets of `SeedReset`: a reader of the
proof page needs to know no more than that one page. `FirmwareQueue` is shown to
implement `StoreAndForward` in the same way (`BufferIsKept`).

Definitions named `x_Fault` (for example `approvedVotes_AnyRow`) are wrong
versions of the definition below them. No specification uses them: each is
what a plausible bug in that line would look like, kept to show that the
property it is meant for notices it.

Modelling decisions:

- One SQL statement is one atomic action; between two awaits anything may happen.
- `Abort` is a query that throws; the request reports an error and stops, and
  BullMQ retries the job while it has attempts. `RestartApi` loses the API's
  requests in flight and resets `redisUnavailable`.
- `EndAttempt`: the worker's last insert (the audit row) may throw when all
  else is done, and the job is run again.
- What the two LLM agents conclude is a free choice of verdicts in
  `persistOrchestrationResult`.
- Reviewers and providers may do anything their role allows, at any time.
- The index sweep's receipt lookup and the update that follows are one step: a
  receipt, once there, does not change (no reorganisation), and none of the
  update's values depend on the row.
- A transaction is broadcast only if the gas estimate passes (`isFree`), and it
  may still revert in its block.
- `SubmitterCrash` is also a catch block that throws in turn. `AuditFails` is
  the audit insert after a stored hash: the row is marked failed with its hash.
  Update and insert are one step there; what an index sweep writes in between
  is overwritten.
- The agent whose name the seed writes is not the worker's. No job runs for the
  seed's candidates, so `SeedReset` keeps its row under "ai". The seeded scores
  are written by hand (0 and 9820, with a sha256): they stand for the votes of
  the candidates whose evidence their hash names.
- `DemoRun` leaves out that a live run starts a submit sweep at once
  (`api/demo/service.ts:120-131`), which is one more sweep of `EpochProof`, and
  retries of its job, which are `ApprovalPipeline`'s. `PublishedIfAuthorized`
  speaks of the commitments that are queued, before either.

## 3. Runs

| Run | Expect | Question | Properties |
|---|---|---|---|
| `escrow` | pass | Do the escrow's books agree with its ether with re-entrant, nested and undone payments and changing policies? Can a deactivated provider always leave? | `BucketsMatchBalance`, `StakesSumToTotal`, `DeactivatedMayLeave`, `PrincipalMovesByRule` |
| `attestation` | pass | Is the contract the append-only ledger, is every grid disjoint, and which epochs may be written before they are over, while the admin changes the duration and pauses, on a clock that wraps? | `AttestationIsLedger`, `GridsAreDisjoint`, `OnlyTheLastIsEarly` |
| `pipeline` | pass | Do scores count vetted candidates only and are they valid basis points, whatever tasks overlap, abort or retry? | `ScoresCountOnlyVetted`, `ScoresAreValidBps` |
| `intake` | pass | Does no candidate run the pipeline twice, however requests, retries and sweeps overlap or stop? Do contradicting witnesses notice each other when they arrive together? What may contest a recorded silence? | `IntakeTypeOK`, `OncePerCandidate`, `ConflictIsNoticed`, `SilenceIsReal` |
| `proof` | pass | Is what reaches the ledger vetted, is what is shown confirmed on the ledger, with the right transaction? Does every step keep the abstract promise, which says both of the first? | `LedgerCountsOnlyVetted`, `ConfirmedHashSucceeded`, `PromiseIsKept` |
| `proof_live` | pass | Is every approval confirmed in the end, and forgotten nowhere on its way? | `ApprovalIsConfirmed`, `ApprovalIsOnItsWay` |
| `seed` | pass | Is the promise still kept when an operator resets the database in the middle of it all? | `PromiseIsKept` |
| `services` | pass | Do limiter, review desk, demo lab, memory mode, provider mirror, sessions, scripted scenario, agents' context and the paged notification list keep their promises with overlapping calls, aborts and restarts? | `LimitedOnlyAbove`, `LimitPerStore`; `EscalationsStayListed`, `ReviewIsShown`; `OneRunPerChallenge`, `PublishedIfAuthorized`; `NoApprovalIsLost`; `RegistrationIsAudited`; `LoweredRoleEnds`; `FirstRunPasses`; `MetadataCountsTheEvidence`; `PagingMissesNothing` |
| `delivery` | pass | Do the board's queue and relay, the notification rows and the live view lose, repeat or disorder nothing they should not, and do they come to an end? | `BufferIsKept`, `OnlyTheHeadIsRepeated`, `BufferedIsKept`, `BacklogDrains`; `CyclesOfBootCapped`; `ReceivedOnceAtMost`, `RowIsSettled`; `UnbrokenViewIsCurrent` |
| `pipeline_twice` | violation | README.md:284: is a candidate in the hash once? | `EachCandidateVotesOnce` |
| `pipeline_race` | violation | docs/job-queues.md:61: does a quiet epoch's score count exactly the approved candidates? | `ScoreIsApprovedSet` |
| `proof_late` | violation | README.md:327: is the score shown as confirmed the one on the ledger? | `ConfirmedScoreIsOnChain` |

`services` and `delivery` check several components that share no state. Their
MC modules have a variable `running`, chosen in the initial state: a behaviour
follows one component from its start and leaves the variables of the others
alone, so the state spaces add up and are not multiplied.

### What the violations show

- `pipeline_twice`: an ambiguous candidate has a gate row and an AI row. The
  join at `api/pipeline/service.ts:340` returns the candidate once per
  approving row, so it is counted twice in the uptime and in the hash.
- `pipeline_race`: the first of two approvals to read may be the last to store.
  The same property fails in a second way, with a reviewer: a rejection returns
  before the recomputation (`service.ts:258`), and the stored score keeps the
  candidate.
- `proof_late`: `upsertDatabasePendingCommitment` (`service.ts:414`) keeps the
  old hash, so the epoch is never sent again and the old receipt confirms a
  score that is not on the ledger.

### Stated and refuted

Each of these is a definition of its module and says what a document, comment
or test says, or what one would expect, and TLC finds a behaviour of the code
that breaks it. They are in no regular run; named in the cfg of `services`,
`delivery` or `seed` they fail there, where no other instance is given.

- `PreviewsStayOffChain` (DemoLab.tsx:397; `MCEpochProof_preview.cfg`): the gate
  approves a preview's candidate and stops; the next approval of the epoch
  counts every approved candidate.
- `ConfirmedHashSucceeded` with two submitters (README.md:52;
  `MCEpochProof_race.cfg`): both sweeps broadcast before either is mined; the
  second one's hash replaces the first one's while an index sweep holds the
  first.
- `SuccessIsConfirmed` (docs/blockchain-indexing.md:7;
  `MCEpochProof_starved.cfg`): rows whose transaction was lost stay pending and
  oldest and fill the limited query of the index sweep for good.
- `LeavesOnlyAccepted` (hardware.ino:155): a record leaves the queue although
  nobody took it. A compaction into a partition that is too full writes a
  shorter copy, as the result of the write is not looked at (723-733); and a
  brown-out after removing the file leaves the records in the copy, which
  nothing takes up. `BufferedIsKept` is the part that holds: nothing else makes
  a record disappear.
- `EarlyReadingsAreHeld` (hardware.ino:1351): the API sink takes a reading
  without a time as one to drop (981-985).
- `CyclesOfOutageCapped` (hardware.ino:365): the reboot that follows the cap clears the
  counters, and the same outage gets more cycles.
- `FailuresLoseNoRequest` (docs/notifications.md:8): a
  listener's rejection reaches nobody and ends the process.
- `RefetchRecoversView` (docs/realtime.md:20): the overlay of a missed or late
  status event is shown before the refetched row until the page is left.
- "Prevents committing an epoch that hasn't finished yet" (`EpochMath.sol:29`):
  the unchecked sum wraps for the last epoch of a grid. `OnlyTheLastIsEarly`
  without its second disjunct fails in `attestation`.
- That records of one zone never overlap, whatever the durations: a record of
  one hour and one of three may cover the same hour. `GridsAreDisjoint` without
  its condition on the durations fails in `attestation`.
- That no heartbeat which had arrived falls into a recorded silence: the sweep
  reads the oldest rows, so its limit cuts off the newest. `SilenceIsReal` with
  `overlooked(gap) = {}` alone fails in `intake`.
- That no accepted token carries more than its account's role: the seed sets the
  role of its accounts back (`seed-demo-data.ts:144-146`) while tokens live.
  `LoweredRoleEnds` without its second disjunct fails in `services`.
- `LiveRunsHaveOwnEpoch` (DemoLab.tsx:250; `Live` both challenges): two runs
  choose the newest unscored epoch before either has scored it.
- `RunSurvivesRestart`: the query for a stored run asks for an agent name that
  nothing writes.
- `OnlyReviewsAreLabelled` (README.md:50): without audit row and trace a
  verdict is guessed from the row, and an agent's rejection looks like a
  reviewer's.
- `ReviewIsFinal`: the upsert of a retried agent job overwrites a review.
- `RejectedIsNotCounted`: in memory mode, as in database mode, a rejection
  recomputes nothing.
- `FreshRunPasses` (README.md:494): a second run within the window of the first
  meets its evidence and finds other confidences than it expects.
- `ContextIsOneSnapshot` (docs/test-plan.md:356) and `BaselineIsOfBefore`
  (docs/agent-orchestration.md:63): evidence arrives between the five queries,
  and the baseline counts the window under review.
- `OneRowPerWallet` (provider-registry.md:44), `EveryChangeIsAudited` (:110),
  `InstructionsWork` (ProviderRegistry.tsx:149): an address in another spelling
  is another row; of two overlapping calls one compares with what it read
  before; a wallet that is still active for its old zone cannot register.
- `ResetIsKept` (demo-script.md:18), `ConfirmedHasHash` (seed-demo-data.ts:28),
  `SeededNeverFail`: work in flight and sweeps that hold a row of before write
  over the reset, and an epoch already on the ledger is refused.

### Bounds

- `pipeline`: two candidates of one epoch: an ambiguous one (84 percent) that
  goes through gate, worker with two attempts and reviewer, and a preview that
  the gate approves alone (85). The thresholds are 85 and 50; the third range,
  below 50, is in `proof`. Tasks of different epochs share no row, so one slot
  has all the interference, and with one task per candidate and kind six tasks
  can recompute at the same time.
- `intake`: a unit of time is about ten minutes. Two sensors contradict each
  other at times 0 and 1, a reporter sides with one of them, the first payload
  is sent twice, and one sensor is heard again at 2, so that there are closed
  and open silences. Readings may arrive up to `MaxAge` = 1 late, `MaxTime` is
  3, and two sweeps overlap. A request or sweep that dies is one that takes no
  further step, which every safety property allows for. `SweepLimit` (5000 in
  the code) is 2, so that three sensor rows exceed it; `RecentLimit` (50) is above
  what any window holds, since beyond it `ConflictIsNoticed` does not hold.
- `proof`: two candidates of one slot (85 and 49 percent), one submitter, two index sweeps, two
  transactions, and every failure of `ChainFaults`. The second transaction is
  the one that can revert.
- `proof_live`: three candidates in two slots, so that a limit of one row has
  something to starve, and one slot is approved twice.
- `SubmitLimit` and `IndexLimit` (5 and 10 in the code, and in `seed`) are 1 in
  `proof` and `proof_live`, so that two rows exceed them.
- `escrow`: two providers with one unit of ether each, amounts 1 and 2, two
  policies (one with a cool-down that overflows the checked uint64 sum,
  `MaxUint64` = 2), two nested payments (`MaxDepth`), reputation within
  `MaxReputation` = 1 either way, and block times up to `MaxTime` = 2.
- `attestation`: `Word` = 8 stands for 2^64, and every value below it is a
  start, so that the sum of `isPastEpoch` wraps for starts 6 and 7. Two zones,
  durations 0, 2 and 3 (of which 2 divides `Word` and 3 does not), scores at both
  ends of the range and just beyond, time up to `MaxNow` = 4.
- `seed`: the seed's approved and disputed candidates of its zone in one slot,
  two transactions, one sweep of each kind, a reviewer, and two resets, so that
  work begun before a reset ends after it, and another follows.
- `services`: per component two or three overlapping calls, the smallest number
  at which one can be between two others' steps. Limiter: three calls, two
  processes, a limit of 1, windows of two ticks and a second window. Desk: one
  escalated candidate, two reviewers, two attempts. Demo lab: two challenges
  (live, and preview of an ambiguous scenario), two runs, three hours.
  Memory mode: an approval, an escalation and a preview in one epoch and two
  reviewers. Mirror: a wallet the seed also knows, two zones, two calls.
  Sessions: an account that the seed makes a reviewer, two calls, sessions of one
  hour in two; a registration's audit insert takes less than an hour
  (`AuditsEnd`), as the token's hour is counted from its end. Scenario:
  the whole constant list of events, started first at the hour, after it,
  within it, at its last second and in the next, with the documented offsets.
  Agents: four messages at, in and before a window that is read two rows at a
  time. Pages: one row per page and four rows, all for the webhook and all
  settling as sent. With more rows than a page holds leaving the filtered list
  between two fetches, rows jump over the page that is shown; three rows are too
  few for that, and `PagingMissesNothing` leaves such fetches (`overtaken`) out.
- `delivery`: four readings, a queue of three (so that one is pushed out) in a
  partition of four records: as on the board (9 MB of 9.9, hardware.ino:339),
  the copy of a compaction fits or does not, and a write may fail. At most two
  records per flush, a maximal age of two, restarts anywhere, brown-outs within
  a compaction and an unset clock. Relay: pause after 3, reboot after 6, up to
  14 silent cycles, so two reboots. Outbox: two events, every fault,
  processes with and without a webhook. View: three readings (up, down, up), two
  of them observed in the same second, and two fetches, each of which may fail.
- `SYMMETRY` permutes providers in `escrow`, sweeps and the two requests with the same payload in `intake` and transaction
  hashes in `proof` and `seed`: nothing orders or names them. The other runs, and
  all with liveness properties, use none.
- `CHECK_DEADLOCK FALSE` is set where candidates are finitely many and nobody
  is there to act for ever (no reviewer, or no `Faults`): when all are
  confirmed, or all transaction hashes used, the instance really stops. In
  `services` and `delivery` it is set because a component whose calls, readings
  or hours are used up has nothing left to do.

### Fairness

Only `proof_live` (`FairSpec`; also `MCEpochProof_starved.cfg`) and `delivery`
use fairness, and all of it is weak.

- `PipelineFairness`: a request or job that has started goes on with its next
  query (the event loop resumes it), and BullMQ hands out jobs it holds.
- `RelayerFairness`: time passes; `startScheduler` starts the sweeps again and
  again with `setInterval`; a sweep that runs goes on; the chain executes what
  is in its mempool, unless it drops it, where the fault "drop" is allowed.
- `QueueFairness`: the board's `loop()` is called again and again, so its next
  step is taken as long as it has one. `BacklogDrains` assumes that the sinks
  are back for good and the restarts have an end; nothing makes them.
- `OutboxFairness`: the event loop resumes a request and a task, and the fetch
  has a timer, so a post ends. `delivery` states both fairness conditions of the
  component that runs.
- None for `Detect`, reviewers, `Abort`, `RestartApi`, crashes or `Drop`.

## 4. What is not modelled

- Deployment checks, migrations, manifests: sequential and without concurrency.
- The other read models, counters and screens: nothing reads them back.
- Chain reorganisations and receipts that change; nonces and gas prices of
  ethers; ether forced into the escrow by other contracts' self-destruction.
- A job BullMQ declares stalled and runs a second time in parallel: attempts of
  one job are sequential here.
- Contents of evidence, hypotheses and reasoning; hashes are injective.
- Roles of the contracts that are granted or revoked after deployment.
- Signatures of readings, wallets and tokens, the parsing of WhatsApp messages,
  the enabled evidence sources. A hint of confidence a request carries: no
  statement stores it, so the rules never see one.
- Zone queries of other pages, which share the dashboard's cache, and the
  query of a single zone.
- Of the board: reading the meters, WiFi and broker set-up, and the choice of
  sinks at compile time (both are on).
- Starting and stopping the scheduler's timers.

Three facts the models show and no property states: a row for the outbox
(docs/notifications.md:32-47) and the one the seed writes stay queued for ever,
as rows are delivered only by the task that stored them; after a failed query a
dashboard whose socket reconnects goes on showing demo data until the next
status event, focus or reload; and when ingestion fails between storing a candidate and running
the pipeline, the retry is a duplicate that returns early, so the first run is
lost (`OncePerCandidate` says at most once, not exactly once).

Stated, true in the instances above and left out of the runs because a checked
property of the same component says more: the other type invariants,
`PageIsNeverEmpty`, `BadgeIsTheFilter`,
`ApprovalsAreNotMislabelled`, `SweepFindsTheSilence`, `RunDrainsTheQueue`,
`OnlySealedHoursQueued`, `RegisteredForItsZone`, `DecidedByGateOnce`,
`MemoryCountsOnlyVetted`, `QueueInOrder` (proved; `BufferIsKept` says more).

## 5. Proofs

All theorems hold for every value of the constants under the named assumptions
of their modules: sets of the right kind, null values outside their sets,
limits that are natural numbers. TLC evaluates them on every run. One of them
is more than a kind: providers, candidates, epochs, calls and processes are
finitely many (an address has 160 bits, a table's rows and the rest are counted
by the machine that stores them). The scenario is not started in the first hour of 1970
(`ScenarioAssumption`).

Some theorems have a hypothesis of their own, each a condition of the code
without which TLC finds the property violated:

- `OneSubmitter`: sweeps that submit do not overlap. `MCEpochProof_race.cfg`
  shows what happens when they do.
- `NothingFails`: what `proof_live` assumes, that is `OneSubmitter`, no failure of
  a process, of the chain or of a query, and Redis as it likes.
- `WitnessesFit`: no more readings of a zone fall into one agreement window
  than the query reads (`limit 50`).

### The contracts

- `EscrowInv` (`ReputationEscrowProofs`): types and
  `balance = totalStaked + rewardPool` at every instant. The invariant alone is
  not inductive: a revert restores the state saved in a frame, so the
  strengthening says the same of the state saved in every frame.
- `StakesSumProven`: `totalStaked` is the sum of the stakes, again of the state
  and of every saved one (`SumInv`). An action changes one provider's stake and
  the total by the same amount (`Restaked`, from `SumExcept`).
- `PrincipalProven`: the action property `PrincipalMovesByRule`, from the types
  that `EscrowInv` gives, by one case per action.
- `LeaverIsPaidProven`: nothing but the pause and the cool-down keeps a
  deactivated provider from its whole stake, whatever the policy, the slashes and
  the pool's withdrawals were. One stake is no more than the sum of the stakes,
  which is `totalStaked` (`SumInv`), which is no more than the ether
  (`EscrowInv`): so neither the checked subtraction nor the transfer can fail.
  The cool-down's sum cannot overflow while a timestamp that satisfies it is
  below 2^64.
- `AttestationRefines`: the contract implements `AppendOnlyLedger`, by
  `StepRefines`: a step is one `Commit` or leaves the records alone.
- `GridsDisjointProven`, `OnlyTheLastIsEarlyProven`: whatever durations the
  admin sets. `GridInv` says of every record that its start is a multiple of the
  duration it was committed under, and that its end is past or beyond the uint64
  range; `CommitKeepsGrid` is the one step that adds a record. Distinct multiples
  of d are d apart (`MultiplesApart`), and where `start + d` is below 2^64 the
  unchecked sum is the sum (`PastOrWrapped`). Nothing is assumed of start plus
  duration: the case in which it wraps is in the statement.

### Ingestion (`IntakeProofs`)

- `IntakeTyped`: the types, and that no confidence leaves its bounds. The bounds
  of the rules' arithmetic (`GapConfidenceBounds` and its neighbours) are lemmas.
- `OncePerCandidateProven`: for any number of requests, retries and sweeps. Who
  may still run the pipeline for a key is the request whose insert took the
  idempotency key (`RequestsApart`) or the sweep whose insert took the
  candidate's (`SweepsApart`); there is one of them, and it has not yet done so.
- `ConflictIsNoticedProven`, given `WitnessesFit`: a reading is `Sure` when it
  is, or is about to be stored as, a candidate above the band. Of two
  contradicting readings the later one's query finds the other, as evidence is
  stored before the query; so they are never both sure (`NotBothSure`).
- `SilenceIsRealProven`: of the recorded rows, at any later time, for any limit.
  `SilenceInv` says the same of what a sweep holds and has not recorded yet. A
  heartbeat in a silence between two rows the sweep read would have been read
  with them, since the rows are the oldest; so it came after the sweep looked, or
  the silence was open and the limit cut the heartbeat off.

### From candidate to ledger (`EpochProofProofs`)

- `OnlyVettedProven`, and `ScoresVettedProven` as its second conjunct: `TypeOK`,
  `ScoresCountOnlyVetted` and `LedgerCountsOnlyVetted` of the whole composition,
  with all failures and any number of overlapping sweeps. What counts is copied
  four times on its way (decision row, a task's `readVotes`, `scores`, a sweep's
  `batch`, `txs`, `ledger`), so the inductive invariant says of each place that
  it holds vetted candidates only, and of every approving row that its approver
  is entitled; and of a worker's task that its candidate was escalated, because
  the worker falls back to its own candidate when nothing is approved.
  `approvers` only grows, hence being vetted is never lost.
- `ScoresValidProven`: the votes for "restored" are a part of all votes
  (`SumOfPart`), and the rounded share of a part is at most 10000.
- `ConfirmedProven`: a confirmed row's slot is on the ledger. The invariant adds
  that a hash held by a row, an index sweep or a submit sweep belongs to a
  transaction of that slot (`HashesBelong`) and that a successful transaction's
  slot is recorded (`SuccessIsRecorded`).
- `ConfirmedHashProven`, given `OneSubmitter`: a confirmed row shows the hash of
  a transaction that succeeded. A row's hash is set once: the submitter holds a
  row only while it has none (`BatchHasNoHash`) and a transaction only while it
  holds the row (`SentIsInBatch`), so an index sweep looks up the row's own hash
  (`LooksUpItsRow`), however old what it read is.
- `OnItsWayProven`, given `NothingFails`: the part of `ApprovalIsConfirmed` that
  is safety, `ApprovalIsOnItsWay`. Of the tasks (`TasksInv`): who approves a
  candidate is a task that goes on to queue its epoch, and it stores the score
  before. Of the sweeps (`SweepsInv`): each transaction is known to its row or to
  the submitter, which together with `HashInv` above means that a slot has one
  at most (`OnePerSlot`). So no gas estimate fails and no transaction reverts,
  because either would need another transaction of the slot; and those are the
  only ways for a row to fail.
- `SeedKeepsTheProof`: `LedgerCountsOnlyVetted` and `ConfirmedIsOnChain` of
  `SeedReset`, where the seed script overwrites rows that tasks and sweeps hold.
  Its transaction preserves both invariants above, and they need no change: the
  rows it writes are approved by the gate, and it clears hashes, never sets one.
- `PromiseProven`, `SeedKeepsPromise`: `EpochProof`, alone and with the seed,
  implements `ProofPromise`. A transaction that is mined and succeeds is a
  `Publish` (vetted, by the first invariant; of a free key, by the contract), an
  index sweep's update that confirms is a `Show` (of a published key, by the
  second), and everything else is a `Revise` or a stutter: `approvers` only
  grows, and any other status a row is given hides it.

### Memory mode, lists, agents and the scripted scenario (`ServicesProofs`)

- `NoApprovalIsLostProven`: in memory mode the score of an epoch nobody works on
  counts every approval. The invariant says where an approval that is not yet
  counted is: in a task that will recompute.
- `OneRunPerChallengeProven`: a challenge some run holds is used, so nobody else
  can take it.
- `PublishedIfAuthorizedProven`: a run has no job before it escalates, and only a
  live run or its job comes to the steps that score and queue (`RunInv`).
- `EscalationsStayListedProven`: agents write another row than the gate, and
  only a reviewer changes the gate's.
- `ReviewIsShownProven`: a row a reviewer decided shows the last verdict unless
  the worker wrote it again since (`Traced`).
- `MetadataCountsTheEvidenceProven`: what a query has read stays stored, and the
  metadata is read last, so a provider's count is at least what is shown of it
  (`MetadataFits`). Counting needs that evidence arrives once (`ArrivalsDiffer`).
- `FirstRunPassesProven`: for every clock and every `--run-offset`, where TLC
  tries five pairs. While the first run sends, the store holds exactly the
  events it has sent (`FirstRunInv`), so the answer to the i-th depends on the
  scenario alone: sealed events are fixed to one hour and live ones to the clock,
  which is at least an hour later, and no two events of a zone in different bands
  come closer than that leaves (`OtherBandIsFar`, `CloseIsNear`). Five events meet
  another witness (`WitnessesAre`), and the rules give every one the confidence
  worked out by hand (`Worth`, `ScoreIsExpected`).

### Who may call, and how often (`AccessProofs`)

- `LoweredRoleEndsProven`: a role falls when the seed says so and else only
  grows. A token on its way or stored stands for no more than its account has, or
  was made of a row read no later than the hour of the fall (`LoweredByNow`,
  `AuditsAreRecent`), and lives one session from there.
- `LimitedOnlyAboveProven`: no store counts more calls of a window than have
  reached it (`CountsAreCalls`), whatever answers are lost.
- `LimitPerStoreProven`: the accepted calls of the current window are those
  Redis counted and, for each process, those its memory counted; each part is at
  most the limit (`EachStoreKeepsLimit`), and no counter of the window ends
  before it (`CountersLast`). The set that Redis counted is existentially
  quantified in the invariant: the counters do not say who was counted.
- `RegistrationIsAuditedProven`: a wallet that a registration wrote first has a
  record, or a call that found no row has yet to append it (`FirstIsAudited`).

### The board, the outbox, its pages and the dashboard (`DeliveryProofs`)

- `QueueInOrderProven`: for a queue, a partition and a flush of any size and a
  restart at any step. The invariant orders the file, the copy and what is still
  to be copied, at every step of a compaction.
- `OnlyTheHeadIsRepeatedProven`: of what is pending, and of the copy and the file
  while they are about to become it, only the first record may be finished
  (`HeadInv`).
- `BufferedIsKeptProven`: for every flash operation, where the records that wait
  are before it: in the pending part, in nothing, in the copy, or in the file
  (`UndamagedInv`); until a compaction is interrupted or does not fit.
- `BufferIsKeptProven`: the queue implements `StoreAndForward`. What waits is
  the unfinished part of `onFlash`: the copy while only the copy exists, the
  whole file until the offset is reset, what is behind the offset otherwise.
  `CopyInv` adds to the invariants above that an undamaged copy holds just the
  pending records. A delivery is `Accept` of the oldest (`HeadIsOldest`, from
  the order), `dropOldest` of an unfinished head is `PushOut`, an append is
  `Keep`, an interrupted or cut compaction is `Break`; all else stutters,
  restarts anywhere else included (one lemma `xKeepsPromise` for each action).
- `CyclesOfBootProven`: both counters are a function of the silent cycles.
- `ReceivedOnceProven`: what a task's step says about the receiver.
- `UnbrokenViewIsCurrentProven`: a newest published status is the last on the
  wire; or the overlay, with nothing on the wire; or known to the answer that is
  on its way, or to the cache (`UnbrokenInv`); and a page whose query is neither
  in flight nor in error has data (`Loaded`), also after the cache was dropped.

- `PagingProven`: what a reviewer has not been shown is further down than the
  page that is shown (`UnseenIsBehind`). A fetch moves a row up by no more places
  than rows leave the list (`PlaceMoves`), and a row that has left does not come
  back (`GoneForGood`): it is older than the list goes, or was queued and has
  settled. A page number beyond the last one is harmless: then all is seen.

### Sums (`SumTheorems`)

`SumFunction` is a fold, that is a recursive function over the subsets of a
finite set. The lemmas say that the recursion has a solution (`UnfoldsExists`)
which is unique (`UnfoldsAgree`), and then what changing one value, taking one
element away or taking a part does to a sum. The library's induction theorems
have an operator as parameter, so the inductions run by a smallest
counterexample among the subsets (`Smallest`), which needs sets only.

### Only model-checked

- `ApprovalIsConfirmed`, `BacklogDrains`, `RowIsSettled`: liveness under
  fairness, which the proof system does not cover. `OnItsWayProven` is what can
  be said of the first without it.

Every other property of the passing runs is a theorem.

## 6. Plan

Done: the contracts, detection and ingestion, the shared tables, the pipeline in
both modes, the relayer and their composition, the firmware, the services around
the pipeline, the seed and the scripted scenario, and the theorems above: every
safety property of the passing runs. Next, in this order:

1. `EvidenceIntake` where the documents promise more than "never twice": "the
   pipeline runs exactly once per silence even across restarts and concurrent
   instances" (`scheduler.ts:143-145`); its composition with `FirmwareQueue`.
2. An abstract specification of the kind of `ProofPromise` for a notification
   (queued, delivered at most once, settled).
