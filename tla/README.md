# jindiao: a TLA+ model of the due-diligence service

jindiao runs enterprise due-diligence investigations: an HTTP request creates a
*run*, source data about the enterprise is acquired and frozen into a snapshot,
one agent or a team of agents investigates a fixed catalogue of checks on it, a
reviewer may send work back, and a deterministic assembler writes the report.
Clients follow a run over server-sent events and may cancel it. One asyncio
process serves everything; what survives it is a directory of JSON files and one
JSONL event log per run.

This directory models the parts of that program whose correctness depends on
the order of things: awaits, crashes, failing writes, full queues, lost
connections and shared budgets. Paths below are relative to `src/src/jindiao/`.

## 1. Inventory

| Component | State it keeps | Operations | Interacts with |
|---|---|---|---|
| Run lifecycle (`application/run_coordinator.py`, `observability/run_store.py`) | metadata, result, idempotency receipts and event log on disk; caches, projection, sequencer, cancellation token and task per run in memory | create, start, execute, cancel, recover, hydrate, publish, complete | service (calls `_run_impl`), HTTP (calls), event store (appends) |
| Event delivery (`observability/run_store.py`, `api/sse.py`, `api/app.py`) | the log, one bounded queue per subscription, the encoder's own queue | register, replay, append and fan out, fill gaps, unregister, encode, reconnect | publisher, HTTP clients |
| Budget ledger and metered model (`orchestration/base.py`, `budgeted_model.py`) | request, token, tool, retry and repair counters, open reservations, exhaustion reason | reserve, dispatch, settle, release, claim | every agent of a run, concurrently |
| Submission blackboard (`investigation/blackboard.py`, `validation.py`, `assignments.py`) | assignment plan, versioned submissions, latest per check, reviews | submit assignments, check results (single, bound, batch), reviews | agents' tools, ledger (claims) |
| Investigation team (`agents/agent_teams_investigator.py`, `multi_investigator.py`, `single_investigator.py`, `orchestration/team_*.py`) | attempt number, minimum review version, milestones already published | stream attempts, recover missing work, drain, time out | blackboard, ledger, the external team runtime, publisher |
| Execution steps (`application/execution_steps.py`) | a plan of seven steps with a state, a message and executors each, a finished latch | start, observe, complete, fail | publisher |
| Service and formal pipeline (`application/service.py`, `formal_pipeline.py`, `agents/single_investigator.py`, `reporting/product_model.py`) | the stage of a run, a ledger per layer, the accepted checks, the draft of the report | resolve, acquire, supplement, freeze, grant, investigate, write, publish | all of the above |
| Source acquisition (`tianyancha/*`, `agents/enterprise_context.py`, `orchestration/*_toolset.py`) | shared queries, retries, a semaphore, the session of the source, state per source | collect, page, call, retry, resolve the entity, close | external MCP service, agents |
| Deep search supplement (`deepsearch/*`, `agents/deepsearch_*.py`) | planned tasks, captured and submitted outcomes | plan, search, fetch, submit | the web, acquisition, snapshot |
| Context snapshot (`acquisition/*`, `investigation/snapshot_access.py`) | the frozen snapshot, read grants, audit records | freeze, read | acquisition, agents |
| Agent runtimes and the older strategies (`orchestration/single.py`, `multi.py`, `evidence_store.py`, `reviewer.py`, `repair.py`) | the evidence store, the state of four domain tasks, the review | plan, investigate domains concurrently, merge, review, repair | toolsets, ledger |
| Risk engine, quality gate (`risk/*`) | none | score, gate | assembler |
| Reporting (`reporting/*`, `application/result_assembler.py`) | the report under construction | project facts, compute metrics, project risks, assemble, suggest, finish | pipeline |
| Reporting demo store (`reporting/demo_store.py`, `replay.py`) | the policy in force, proposals, frozen replays | bind, freeze, propose, apply, reset | run coordinator, operator |
| BFF (`bff/*`) | sessions, bindings of runs to users, slots, pending creates | log in, create, query, stream | browsers, the run API |
| Artifacts, trace, metrics (`observability/*`) | the files of a run | write, list, verify, load | service, HTTP |
| Skills evolution (`skills/*`), evaluation (`evaluation/*`) | files | promote, compare | offline |

What is hard in them, and what correct means:

- **Run lifecycle.** A run's outcome exists five times: stored metadata, result
  file, event log, projection, answers to cancel. They are written one await
  after the other, by the executing task, by any number of cancel requests and
  by recovery, and a crash or a failing write may fall between any two. Correct:
  they agree whenever nobody is in the middle of changing them; a success never
  shows before what it rests on is stored; one terminal event; no second
  execution; a stored outcome is final; every accepted run ends.
- **Event delivery.** A subscriber's queue is bounded and evicts. Correct: what a
  client receives is a gapless prefix of the log in order, over drops and
  reconnections, and a stream ends with the terminal event.
- **Budget.** Calls of different agents interleave between reading the budget and
  settling. Correct: what is spent stays within the budget, failures included;
  every reservation is settled once; exhaustion is final.
- **Blackboard and team.** Agents submit in any order, repeat themselves, submit
  new versions while the reviewer writes, and go on while the driver drains and
  closes their team. Correct: a repeated call changes
  and costs nothing, repair rounds are bounded and charged once, no conclusion
  is on the board that the snapshot does not support, a completed investigation
  is complete and reviewed, and its deadline ends it.
- **Execution steps.** Events reach the projector in any order. Correct: every
  snapshot it builds is one the public contract accepts, and a finished plan hides
  no finding.
- **Service and pipeline.** Three layers of agents buy model calls from budgets made
  of what the layers before left, while calls fail with usage nobody knows. Correct:
  together they keep to one budget; what is published is whole.
- **Acquisition, supplement, snapshot.** Queries are shared, paged, retried, slowed by
  a semaphore and cut off by a close. Correct: nothing is called complete or empty
  that the source did not say was; what is added never passes for the source's; every
  read is traced; every query ends.
- **Older strategies.** Four domains race, their evidence is merged under ids of its
  own, and repairs add to it. Correct: an accepted finding is supported by evidence of
  the outcome.
- **Reporting.** Correct: no combination of inputs makes the contract turn a reviewed
  run down; no risk is lost between a check and the result; complete means answered.
- **Demo store.** Correct: a changed layout in force was proposed, replayed and
  approved on the policy just before it.
- **BFF.** A stream is closed by its generator, its response, or both. Correct: slots
  and limits are exact wherever a request is cut off.
- **Artifacts.** Correct: what verifies is whole.

`PROJECT.json` lists every component with its status, every hazard with the
source line where it bites and the properties that would catch it, and for every
definition of the modules the lines it models.

## 2. Plan

Most important first; each module composes with those above it only where the
code does.

| Step | Modules | Abstract specification | State |
|---|---|---|---|
| 1 | `RunLifecycle`, `RunLifecycleInv` | `RunContract`: one outcome, never revised, reached by every accepted run | done, invariants and safety refinement proved |
| 2 | `EventDelivery` | `ReliableFeed`: every event, in order, once, up to the terminal one | done, safety refinement proved |
| 3 | `BudgetLedger`, `BudgetedModel` | none; the specification is the sum of what calls may still cost | done, invariants proved |
| 4 | `EvidenceGate`, `SubmissionBlackboard`, `AgentTeam` | `ReviewRound`: answered, reviewed, repaired within the rounds, concluded once | done, invariants and refinement proved |
| 5 | `ExecutionSteps` | none; the contract of a snapshot | done, proved |
| 6 | `FormalPipeline` with `ReportWriting` | the layers' spending adds up to the run's | done, invariants proved |
| 7 | `SourceAnswers`, `AcquisitionGateway` | what the source holds | done, safety proved of honest sources |
| 8 | `SupplementResearch`, `ContextSnapshot` | what the source said, and what was added to it | done, proved |
| 9 | `DomainArtifacts`, `EvidenceReview`, `PeerStrategies` | none | done, proved |
| 10 | `RiskScoring`, `ReportFacts`, `ProductReport` | the facts the report is projected from | done, proved |
| 11 | `RunArtifacts`, `ReportPolicies`, `BrowserProxy` | none | done, proved |
| 12 | the agent loop of the single investigator over `SubmissionBlackboard`; paired evaluation; skill promotion | | open |

Every safety property that a run checks is a theorem of its component. Theorems worth
proving next: that a snapshot read is answered by what its grant names, that what a query of
`AcquisitionGateway` reports of a source that is not honest is at most what its pages held.

## 3. Modules and code

### RunLifecycle

One asyncio process; a coroutine gives up the loop only where it really suspends,
while the agents work and while a cancel request awaits the run's task. What lies
between is a *section* that no other coroutine interleaves with: `pc` is its
position, `cur` its run, `pc = "idle"` when the loop is free. A section takes one
step per write to disk, because a crash or a failing write may fall between any
two, so that atomicity is assumed only of a single write.

| State | Code |
|---|---|
| `meta`, `receipts`, `result`, `log` | `metadata.json`, `idempotency.json`, `result.json`, the `.jsonl` log, on disk |
| `mem`, `idem`, `proj`, `ahead` | the repository's caches, `RunProjection`, the sequencer when it is past the log |
| `token`, `task`, `call` | cancellation token and asyncio task of a run, progress of each cancel request |
| `phase` | process down, booting (before `recover()`), ready |

`Create`, `Replay`, `Get`, `RequestCancel` are the HTTP requests; `StartTask`,
`Progress`, `WorkReturns`, `WorkCancelled`, `WorkFails` the task's steps around
`_run_impl`; `Recover` and what follows it the start-up; `Crash`, `Restart` and
`DiskFault` the environment. A coroutine woken by the task it awaited runs before
later ones (`Awaited`), as asyncio's ready queue has it. Step-completed events and
telemetry, which change no status, are the one event `progress`. Two requests with
one key and different bodies (409) change nothing and are left out.

`RunContract` is the abstract run: accepted, perhaps running, ended once.
`PublicStatus` maps to it: the stored outcome once there is one, else the
projection.

### EventDelivery

`append()` with its fan-out, and a registration with its reading of the history,
are single steps, since the store's locks guard sections without an await. A
client is `away`, has its generator `open`, `closing`, `closed`, or is `finished`,
`dropped` (gone, not noticed) or `lost`. `outbox` is what the SSE encoder holds
between the subscription and the client. `Streaming` clients reconnect with
their Last-Event-ID, after the server noticed that they had gone; `Direct` ones
(the v1 stream) cannot. An event is its sequence number and a kind: telemetry,
which a full queue drops, business and terminal, for which it evicts its oldest.
The generator's yields are steps of their own although some do not suspend: the
model allows more interleavings than the code. The publisher stops at the
terminal event; a second process, or a store in memory, is not modelled.

### BudgetLedger and BudgetedModel

A method of the ledger never awaits while it holds its lock, so that reservation,
slot and dispatch are one step; `_finish` suspends between giving the slot back
and settling, and the settlement runs in a shielded task (`settling`,
`interrupted`). `usage` is `_CallUsage`, `hold` and `held` the open reservations,
`reason` the exhaustion, `late` the deadline. `charge` and `charged` are what the
provider really metered, a history the ledger cannot see; `Overshoot` says how far
that may exceed a reservation. A successful call that reports both sides reports
exactly, any other report is a lower bound.

### EvidenceGate, SubmissionBlackboard, AgentTeam

`EvidenceGate` is `investigation/validation.py` and the binding of a draft:
`Bound(c, d)` is the result that reaches the board, after the declared gap, the
scope check and the downgrade; `PassesGate` the last check. The snapshot is
frozen, so it is constants: availability, evidence and conflicts of its
submodules, what a check requires and may use. A result keeps its status, what it
cites, what its risk items cite, whether it declares missing evidence, and its
conflicts.

`SubmissionBlackboard` is the board and the tools over it: the Leader's plan,
`SubmitCheck`, `SubmitReview`, each a claim from the ledger followed by the
board's own rules, in one step, because no tool suspends. Calls by the wrong
agent, and drafts refused for their scope or by the gate, change nothing and are
stutters; malformed drafts cost a schema retry. `ledger` keeps the claims that
depend on the board (repair rounds, schema retries) and whether anything ran out;
all other exhaustion is `Exhaust`, at any moment.

`AgentTeam` is `AgentTeamsInvestigatorTeam.run`: at most three attempts on one
board. `BeginAttempt` opens a stream, `ConsumeEvent` is the body of the loop over
its events, `StreamEnds`, `StreamRaises` and `Timeout` are the ways out,
`Close` the stream's cleanup followed by what the code does after it, `Conclude`
the `finally` clause. Agents act (`Assign`, `Investigate`, `Review`) between any two
driver steps from the opening of a stream to its close. `fresh` and `endorsed` are
history for two properties.

`ReviewRound` is what an investigation promises without its team: checks answered, a
reviewer's opinions, what was told of them, one verdict. `latest` maps to the answers,
whether each review asks for repairs to the opinions, `announced` to what was told,
`demo` to the leniency and `outcome` to the verdict. Plans, drafts, versions demanded,
streams, deadlines and recoveries are steps of it only where they change these.

### FormalPipeline, ReportWriting

One due diligence: `stage` follows `DueDiligenceService._execute` and the pipeline.
`spent` holds a ledger per layer, with what it recorded, what it knows it does not
know (`unknown`, `unreported`) and how many calls it metered; `charged` is what the
provider counted. A call and its settlement are one action here, because
`BudgetedModel` shows what concurrent calls of one ledger do; what matters between
layers is how the limits of the next are made (`TokensFor`, `RequestsFor`) and where
an unknown remainder stops the run (`ContextReturns`, `Grant`, `Returned`, `Refuses`).
`Finish` is the single investigator after its agent answered or timed out,
`TeamReturns` the outcome of the team, which `AgentTeam` models. `ReportWriting` is
what is taken from a draft of the report model: each section's claim is grounded in
the evidence and numbers it may use, and the risks of the draft must be the reviewed
ones with their evidence.

### ExecutionSteps

The projector of seven steps. An event is its type, member, work items, phase and
section; `Observe` is `observe` with every early return, `CompleteSteps` and
`FailActive` end the plan. `shown` are the snapshots the last call returned, by step.

### RiskScoring, ReportFacts, ProductReport

Each extends the one before. `RiskScoring` makes findings from checks, scores them
and projects the cards; `ReportFacts` is the projector from source coverage to report
fields, with the statuses a field and a module get, and the calculated figures;
`ProductReport` has the five steps that carry state: `ReviewReport` (assemble and
gate), `ProjectReport`, `PrepareReport`, `SuggestTerms`, `FinishReport`, each of which
may refuse. A contract of the result is a guard: where a constructor raises, the
report is `refused`. `Met` has the seven operators of the rules; that one text occurs in
another is the relation `Occurs`. `Unprojectable` gathers what the report's contracts refuse
of a source: an amount or a percentage out of its bounds, a figure that is not finite, a
total or a ranking that measures nothing, and a share of the first or the first five
customers or suppliers above the whole; `Uncalculable` is the share of a caller's bank
flow. `SuggestTerms` has the three ends of `generate`: the rules alone, a draft within the
limits whose cited evidence joins the plan's, and the rules with every module marked
`generation_failed` when no draft holds. A suggestion takes away the gap of each field it
was asked for, also where it declines the terms of a plan without new credit, as the code
does; `declined` records that.

### SourceAnswers, AcquisitionGateway

`SourceAnswers` resolves the entity and reads one answer: records, texts, counts and
what says that there is more. `AcquisitionGateway` runs one child per submodule;
children of a capability share its query, whose steps are claim, wait for a slot,
call, retry, next page; evidence that a page lists twice, or that an earlier page
listed, counts once (`repeats`). `Collect` is the model's tool call, `Submit` its end, `GiveUp`
the agent's deadline, `CancelRun` the token, `Close` the end of the session.

### SupplementResearch, ContextSnapshot

`SupplementResearch` plans tasks from gaps, searches the web for one (queries, ranks,
fetches, what is refused as foreign or too new) and walks back through annual reports;
the web is a parameter that may change with each call. `ContextSnapshot` is the agent
calling these tools in any order, the submission of outcomes, the freezer and the
reads of the frozen snapshot with their audit.

### DomainArtifacts, EvidenceReview, PeerStrategies

The runs that are not formal. `DomainArtifacts` is what a toolset brings home of a
domain from a *world* (a scenario's files, live tools, web, annual reports or a
corpus); `EvidenceReview` merges it into a store, reviews findings and plans repairs;
`PeerStrategies` is the sequential strategy and the concurrent one, in which domain
tasks enter and leave a semaphore in any order while the team talks.

### RunArtifacts

The files of a run, each written to a temporary name and renamed, the manifest last.
A write fault makes the service record a failure over what is there; the process can
stop between any two steps.

### ReportPolicies

`AcceptRun` binds a run to the policy in force, `FreezeReport` stores its replay,
`Propose` evaluates feedback by replaying the report (`Passes`), `Apply` and `Reset`
are the operator's, `Upgrade` a new implementation. The store's file lock spans each.

### BrowserProxy

A pending request is `idle`, `reading` its body, waiting for the gateway, `streaming`
or `ending`; `owed` is whether it holds a slot, `closed` whether its close ran. `CloseStream`
is called by the body and by the response, in any order, or late, when a generator
left at a yield is collected. Logins replace the session of the cookie they come with.

### Model-checking modules

`MCRunLifecycle`, `MCEventDelivery`, `MCBudgetedModel` and `MCAgentTeam` give one
module its constants. `MCRunService` and `MCSources` hold components that share no
variable: `focus` chooses which one a behaviour follows, so that a run explores the
sum of their state spaces and not the product. `MCRunService` has six (the pipeline,
the steps, the artifacts, the report with the inputs of `MCReport`, the policies, the
proxy), `MCSources` three (the acquisition, the snapshot, the strategies).

## 4. Runs

State counts are distinct states; every run ends within about a minute and a half.

| Run | Instance | Question |
|---|---|---|
| `run_steady` | one run, three cancel requests, fair, no failures | store, stream and projection agree whenever the loop is free, `RunContract` holds with its liveness, every run ends, every cancel returns |
| `run_crash` | two runs, one key, a crash, 345k states | a key has one run, a stored outcome is never revised |
| `run_fault` | a run and one found running, two cancels, a crash, two failing writes, 2.0M states | a success is never stored, shown or announced before what it rests on; one terminal event; recovery precedes requests |
| `event_live` | a streaming and a direct client, queue of one, four events, two breaks, 100k states | consecutive events, `ReliableFeed` with its liveness, every stream ends |
| `budget_enforced` | three calls, two slots, exact limits, 915k states | spending within the budget, the ledger's balance, complete usage is real, exhaustion is final |
| `budget_overshoot` | two calls, one slot, a provider that overshoots, deadline, fair | overshoot is noticed, every call settles |
| `team_whole` | two checks, a failed source, drafts and reviews of each kind, one retry, one round, two versions, three attempts, 579k states | each step is one of `ReviewRound`, all of it told at its end; repair rounds, support of conclusions, reviewed completion, exhaustion, and the deadline ends it |
| `service_inside` | the six focuses of `MCRunService`, 1.7M states | one budget for three layers, a whole success, true step snapshots, whole artifacts, earned policies, exact capacity, only figures refuse a report, no risk is hidden, complete is answered |
| `sources` | the three focuses of `MCSources`, 227k states, fair acquisition | contexts are true, frozen is faithful, reads are traced, accepted findings are supported, every query ends |

Names of runs as in `PROJECT.json`; the violation runs are in section 7.

Bounds, and why they suffice:

- *Runs.* Runs interact through an idempotency key and through recovery only; two
  runs give every pair, one is enough without crashes. Cancel requests interact
  with the task and with each other: three give a request that announces, one that
  waits and one that comes after. `MaxLog` bounds the agents' progress events,
  which leave the status alone. `MaxCrashes`, `MaxFaults`: a fault in the tail of
  `complete()` followed by one in its error handler is the deepest nesting the
  code has; a crash loses all memory, so a second one starts from states of the
  first kind.
- *Delivery.* A queue of one makes every drop and eviction happen with two
  events; the repository's own test does the same. Clients do not affect each
  other, but one of each kind is there.
- *Budget.* Two slots and three calls give a call refused a slot, and two settling
  while the third reserves. Token limits of three per side and five together make
  each of the limits the binding one.
- *Team.* Two checks are what it takes for a board to be incomplete. Two versions
  and two reviews give a replay, a repair and a second opinion; with one repair
  round and one retry the second is refused. `MaxVersions` and `MaxReviews`
  stop agents, never the driver.
- *Pipeline.* Three requests, four tokens and reserves of up to two make either limit
  the binding one in any layer, and leave a remainder after any of them. The policies
  are both arms, with and without enforcement and demonstration, and one of each
  special kind. Five drafts: a good one, no JSON, a lost risk, foreign evidence, an
  invented number.
- *Steps.* Two members, eleven events of every kind the projector tells apart and three
  results; `MaxExecutors` (one) and `MaxTags`, `MaxFacts` (two) are the code's limits
  made small, so that each list is cut off.
- *Report.* Four coverages with a capability absent, failed, cut off or not requested, three
  answers that can be reported, one of them whole, and nine that cannot, each by another figure;
  caller inputs that agree, contradict, lack a month or ask for nothing, amounts suggested
  before; evidence that is recorded or stale; five rules that use six of the seven operators;
  six suggestions, with one beyond each limit and one that cites what is not there. Thresholds
  are 20 and 40 points. Among the results are a run told to proceed, a complete plan with its
  terms declined, and a report without its analyses.
- *Acquisition.* Two capabilities, one of them shared by two submodules and one unpaged;
  one slot for both, four calls, two pages, two attempts: the budget, the slot, the page
  limit and the retries each run out. The pages of a source come in two pairs of the
  four there would be. `MaxCollections` bounds how often the model calls its tool: the
  acquisition is memoised, so a second call finds the first one's.
- *Snapshot.* Three submodules, three tool calls of the agent, so that a task is searched,
  submitted and searched again; two reads that are allowed and one that is refused
  (`MaxRefusals`), since a refused read changes only the audit.
- *Strategies.* Twelve worlds, one for each way an artifact differs; `MaxTools` (eight) runs
  out in the repairs, `MaxParallel` (two) of four domains, two repair rounds as in
  production, `TopK` two.
- *Policies.* Two runs, two keys and two targets allow two competing proposals on one
  revision and a stale one; three changes (`MaxPolicies`) are apply, reset, apply.
  `MaxUpgrades` is two: one upgrade that improves the suite and one that does not.
- *Proxy.* Three pending requests of two users, two connections in all and two per user,
  one binding, two sessions: each limit is reached and passed. `MaxLogins` (two) bounds
  session ids.

CHECK_DEADLOCK is off where the system may stop for good: a team that is done, a run
that has ended, a run whose clients are all served.

## 5. Fairness

- *RunLifecycle.* The loop runs what is ready (weak fairness of a begun section);
  a restarted process gets a first request; a scheduled task starts, the agents'
  work ends and a woken request resumes (strong, because other coroutines hold the
  loop in between). That work ends is what budgets and deadlines are for.
- *EventDelivery.* The store yields what it has, the encoder and the network move on,
  clients reconnect, and the publisher reaches the terminal event, which
  `EveryRunEnds` says of the run.
- *BudgetedModel.* Time passes; a call is broken off after the deadline
  (`asyncio.timeout(remaining)`); a settlement, being a task nobody can cancel,
  runs. Providers and agents owe nothing.
- *AgentTeam.* `asyncio.timeout` fires and the driver's own steps are not held up;
  agents and the team runtime owe nothing. That closing a stream returns is
  assumed of the runtime.
- *AcquisitionGateway* (`Progress`). The loop runs every ready child and query, a call
  ends by its own timeout, retries are bounded by `MaxAttempts`, and the agent by its
  deadline (`GiveUp`). The model need not call its tool, and nobody need cancel.

The other modules are checked for safety only: they have no waiting of their own that
does not end with a call whose timeout the transport sets.

## 6. Proofs

TLAPS proves what follows for all values of the constants, in eight modules; each component
proved about also has its type invariant (`TypeCorrect`) as a theorem.

- `RunLifecycle_proofs`. `IInv` is in `RunLifecycleInv`. The properties are not
  inductive: that a stored success has its result needs to know who may save
  what. `SectionOwners` gives each section its owner (the working task, a cancel
  request that found it over, recovery), `WorkingIsUnfinished` that a working
  task's run is stored as unfinished unless it is being closed, `Watermarks` that
  an outcome's watermark is past the log only while it is being completed, so that
  `Persist` writes the outcome it means to, and `SavedWithoutSuccess` that an error handler
  saves only after the store accepted its terminal event, when no success
  was logged. `CacheIsDisk` carries all this over a restart. It is proved action
  by action, a lemma each, then PTL.
- `RunRestart_proofs`, on the same invariant. `KeyNamesOneRun` rests on `KeyInv`: a receipt
  is in the cache before it is in the file only inside the creation that holds the
  loop, so a key is answered from the disk. `FoundRunsEndFailed` follows a run found running
  (`Found`) through recovery, another crash, a replay of its key and a cancel request: its
  log and its cached status exclude that a task starts or a cancel confirms. It
  assumes nothing. `OutcomesAreFinal` rests on `OutcomeInv`: a handler announces what it
  stores and the stream takes one end, so whoever comes second has nothing to store. The
  first and the last assume that no write fails (`MaxFaults = 0`), and are false otherwise: a
  receipt that reached the cache only answers until the next restart, and a last closing
  event that cannot be written makes the handler store "failed" over "completed".
- Its second part assumes also that nothing crashes or was left behind
  (`Undisturbed`), since a crash between a stored outcome and its last event parts the two for good.
  `SteadyInv` says where they may differ (a handler storing what it
  announced, a completion announcing what it stored), that a run that began is at work or
  over, and that no publisher is ahead of its stream, so that the store refuses no event the
  sections rely on. `ImplementsContract` adds `ShownInv`, which derives what GET shows from
  where the run is: nothing in its creation, "accepted" until its start is announced,
  "running" until its end is. With it a section moves one run's status along the contract
  (`ContractStep`) or none (`ContractStutter`).
- `EventDelivery_proofs`. The invariant is per client (`ClientInv`): cursor, gap
  and queue in order, and protected events within reach. A step touches one
  client, publishing all of them; `ByClient` splits it. `ImplementsFeed` shows
  that every step is a step of `ReliableFeed`: what a client receives is the next
  event, everything else a stutter.
- `BudgetedModel_proofs`. Sums over calls are sizes of sets of units (`Total`), so
  that the finite-set theorems give how a step changes them. `CallInv` bounds each
  call's charge by its reservation, `TotalsInv` ties the totals to the calls,
  `TokensInv` says what commitment covers. `WithinBudget` and `NothingIsFree`
  assume that providers stay within reservations; `WithinBudget` and
  `CompleteIsReal` assume enforcement. Without these they are false: a silent call whose
  reservation is deemed its usage counts less than the provider charged.
- `AgentTeam_proofs`. `ConclusionsPassTheGate` is about the gate alone: a draft
  that concludes is downgraded or accepted, never refused. The board's invariant
  says that versions are consecutive, rounds are the committed reviews that ask for
  repairs and every result passed the gate. The driver's adds
  `StaleIsShort`: when an attempt ended with checks missing and no review came
  since, the board has fewer reviews than `minimum`. That is the strengthening that makes
  `CompletionIsReviewedAfresh` inductive, since the driver itself looks at
  versions only. `ImplementsRound` maps each action to a step of `ReviewRound`, or
  none, under the same invariant: `ConcludesTheRound` says when an outcome is a verdict of the
  round, `VerdictConcludes` that `Verdict` is one whatever `minimum` is, and `RoundsAreCharged`
  bounds the opinions that ask for repairs. `WhatCountsIsAnnounced` (`EndIsAnnounced`) is
  proved alone: the run checks `KeepsTheRound`, whose verdict tells all there is.
- `FormalPipeline_proofs`. `RunWithinBudget` is not inductive: a layer's limits are made
  from what earlier layers *recorded*, so a remainder nobody knows could be spent twice.
  `BudgetInv` says that it is not: a layer begins only in stages in which the one before
  owes nothing (`AcquisitionSettled`, `InvestigationSettled`), later layers are unused until
  then (`BeforeInvestigation`, `BeforeReporting`), a ledger's commitments cover what the
  provider counted (`LedgerIsTrue`), and the sum of the commitments is within the run's
  tokens. `CallStaysWithin` does the arithmetic of a call once, for any layer.
  `SuccessStaysWhole` rests on `WholeInv`, which ties `partial` to `reportAllowed` and keeps
  a draft from the report until it is accepted; that an accepted draft loses no evidence, no
  number and no risk is `AppliedKeepsFacts` and `NarratedIsWhole`.
- `RunService_proofs` has five parts, one for each component that shares no variable with
  the others; the proofs about folds come first. A fold over a finite set is, by definition,
  a function on all its subsets; `FoldThere` says that this function exists and `FoldKeeps`
  that what every step of it keeps is kept by the whole. Both are inductions over the size of
  a set, done by hand: `NaturalSetInduction` follows from the well-foundedness of the numbers,
  on a set of numbers and so without an operator parameter.
  - *Report.* Three invariants, of a report's gaps, risks and references. `GapsInv`: once
    prepared, a module that is called complete has no gap, and the gaps tell
    (`GapsTell`) of every field that is neither filled nor verified to be empty, nor, once terms
    were suggested, declined (`Excused`). `RisksInv`: the review is still the one of the inputs
    and every card's area stands under attention from projection to publication. `RefsInv`: what
    the report refers to is in the evidence it carries at each of its stages, what was derived
    has parents there that are not themselves derived (`Rooted`), and what evidence supports is
    a field of the report (`Supported`), so that the contract of the result has nothing left to
    refuse. `ReviewedIsReported` assumes of each case that its evidence can be traced
    (`Traceable`); no figure is assumed, since the property names the figures.
  - *Steps.* `StepsInv` keeps beside each snapshot that its executors are named once and are
    no more than the contract takes. What a finished step says is two folds, over a result's
    candidates and over each one's evidence; `StatedIsSayable` is their invariant: facts with distinct
    texts, tags that are cited, lists within their limits.
  - *Artifacts.* `ArtifactsInv`: there is no manifest until the last file is there, and then
    the files are all of the completed run's, or an error's.
  - *Policies.* `PoliciesInv` adds to the property that revisions only grow and that a run bound
    to the revision in force is bound to the policy in force, so that a proposal made on it is
    applied to the policy it was replayed against; `Earned` of the bindings of earlier
    revisions is kept because a proposal is never revised after its evaluation.
  - *Proxy.* `ProxyInv`: `connections[u]` counts the requests that hold a slot, which `Settling`
    ties to where the request is and whether its close ran, and `pendingCreates` those
    that ask the gateway for a run, so that the two closers give a slot back once.
- `Sources_proofs` has four parts.
  - *Acquisition.* `ContextStaysTrue` rests on `Kept`, of one query and the pages of its source:
    on its way it has the evidence of the pages before (`Along`, a sum: `SumsAre`), and without a
    gap none of these was a count alone, nor held anything if no record was seen;
    at its end without a gap it has read the last page (`StopsAtTheEnd`). A child is told the
    outcome of such a query (`FinishedIsTrue`) whoever started it.
  - *Supplement and snapshot.* `SnapshotInv`: nothing is submitted that was not executed, the
    supplement ends with all its tasks submitted, and a snapshot is what the outcomes still say,
    because none is captured after that. That the walk through annual reports and the search
    bring back only current pages of the subject is proved of every state of their folds.
  - *Readers.* `ReadsInv` adds only types; the weight is on `Granted`, which says that the
    frozen contexts a grant names are there.
  - *Older strategies.* Acceptance follows the review of the store as it stands when the
    outcome is made, so that it needs no invariant over the schedule of the domains but one over
    the issues: each issue names every finding it is about (`SupportedCites`, `FitCites`).

Assumptions on constants are the named ASSUMEs of the modules; TLC evaluates them
in every run. What they ask, and why the code justifies it:

- `GatewayAssumption`: limits are positive, as the settings' validators demand, and a search
  finds finitely many companies.
- `SnapshotAssumption`: what acquisition returns is evidence of sources and covers the
  submodules that are granted; both are made from the one catalogue.
- `ReportAssumption`: the constants have the shape the code's tables have: a capability fills
  fields the report has, what answers is a capability, the two
  verification areas that only a caller answers belong to no domain, the application
  fields come from callers alone, a coverage lists a capability once and in one of the
  states it can come to, and a scalar is filled by two capabilities only where the earlier one
  also fills another field by itself (`config/acquisition-catalog-v1.json`).
- `IdsAssumption`: identities of the report's own evidence, which the code makes from hashes,
  do not collide. The model writes them as strings, whose concatenation the prover knows nothing of.
- `StepsAssumption`: members are those of the team, and a finding of a result lists its
  evidence once, as the result's contract has it. `ProxyAssumption`, `PeersAssumption`: finite
  sets and limits that are numbers.

Two hypotheses are about the environment and stand in their theorems. `AllTraceable` is that of
`ReviewedIsReported`; it excludes two evidence records under one id or one of the report's
own, and citations of evidence that is not there, which the evidence gate has refused by
then. `HonestSources` is that of `ContextStaysTrue`, and it is needed: of a source that answers a
capability without pages (`_NO_PAGINATION`) with a part of its records, that stops saying there is
more before its last page, or whose count exceeds the records it lists, the code calls a part
complete, and no client could tell. `SourcesAssumption` and `CasesAssumption`
let TLC check that the instances of the runs satisfy both.

Model-checked only, because the prover has no ENABLED: the liveness properties
`EveryRunEnds`, `CancelReturns`, `EveryStreamEnds`, `EveryCallSettles`,
`EveryInvestigationEnds` and `EveryQueryEnds`, and the liveness in `KeepsContract` and
`DeliversTheLog`, whose safety is proved.

## 7. Where code and documents disagree

Each of these runs checks one statement of the repository's documents or
docstrings and shows how the code breaks it; `PROJECT.json` quotes both.

- `run_zombie`: metadata are saved at creation and at the end, never with status
  running, so recovery does not find interrupted runs; repeating the create
  request starts the agents again.
- `team_fresh`: after an attempt that left a check missing and an empty review, the
  recovery team's empty review is a replay, never gets the version demanded of it,
  and the investigation is turned down.
- `report_conflict`: a caller's bank flow whose receipts exceed its inflow passes the
  input contract; the share calculated from it is above 100, the report's contract
  refuses it, and the run fails after everything was paid for. The figures of sources in
  `Unprojectable` do the same; `OnlyFiguresRefuse`, checked and proved, says that these and
  the bank flow's share are all that does.

## 8. Not modelled

Per component the reason is in `PROJECT.json`.

*Left out of what is modelled.* Run lifecycle: torn log lines, two processes on one
storage root. Team: a failing event sink while milestones are published, a stream's
close that the deadline interrupts, tools without a binding. Events: a cursor that no
client was given, the encoder's queue, which has no bound and so never drops. Metered
model: a stream generator nobody finishes. Supplement: conflicts and required facts
of `SupplementPolicy.plan`, which no caller passes; production asks for no gap tasks
(`max_gap_tasks` 0), the model covers one too. Strategies: the skip branch of the planner,
which cannot be reached, and the events they emit; the cache of ingested artifacts,
whose ids are unique. BFF: passwords, CSRF and origin checks, rate windows, sizes, the
filtering of frames. Report: what floating point does (five shares of a whole may come to a
hair above it, a quotient of large figures to infinity), null inside the list of an `in`
condition, and the wording of a draft, whose grounding `ReportWriting` has. Demo store: access checks, the busy lock, damaged files.
`MultiInvestigatorTeam` and the skills registry are called by nothing in `src/src`.

*Visible in the models, without a property,* because no document says which is right:

- A crash between the save and the last event of `complete()` leaves a terminal run
  without a terminal event; a stream of it waits for one.
- With enforcement off, a reservation is reported as usage that is complete
  (`application/service.py:449`); `budget_enforced` checks `CompleteUsageIsReal` with it on.
- A review that asks for repairs in the drain sends a run that announced its completion
  into recovery; a result resubmitted after the deciding review enters the outcome
  unreviewed; a draft refused by the gate costs no retry.
- The freezer drops every gap of a submodule that got any evidence
  (`acquisition/context_freezer.py:117`); the supplement's tools overwrite an outcome
  that was already submitted (`agents/deepsearch_runtime.py:286`, `:325`); an assigned
  read shows conflicting evidence that its audit record does not name.
- A gateway whose budget runs out on the second page discards the first page's evidence;
  a retry of an orphaned query opens a session nobody closes; an unpaged tool that
  answers an empty list with a total is taken for verified empty.
- An amount the caller had suggested is kept when the terms are declined, so that a complete
  plan may suggest 4000 and no term (`reporting/product_suggestions.py:120`).
- A suggested loan term may exceed the credit term (`reporting/product_suggestions.py:91`).
- `gather` leaves the siblings of a failed domain running (`orchestration/multi.py:203`);
  only conflicts find a target for repair; a scenario's verified-empty override still
  counts one record (`orchestration/scenario_toolset.py:130`).
- A temporary file left by a crash makes the manifest fail to verify for good.
