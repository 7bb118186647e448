# HubScope in TLA+

HubScope watches LLM gateways ("hubs"): it probes their model endpoints, alerts on
outages, and evaluates the models on question suites with juries of other models. It is one
Go process (`cmd/hubscope`) over one SQLite connection (`store.Open`, `SetMaxOpenConns(1)`),
with a Vue front end. Statements of the store are therefore serialised and a transaction is
one step; everything between two statements interleaves.

The repository also carries the design tool its front end is worked on with
(`.github/skills/impeccable/scripts`), whose live mode is a distributed protocol of its own:
a page in the browser, a helper server in node, agents that poll it for work, and a journal
that outlives all three.

This directory models the parts of both whose correctness depends on interleaving, on
crashes, on lost or late messages, or on time.

## Inventory

| Part | State it keeps | Operations | Interacts through | What is hard |
| --- | --- | --- | --- | --- |
| alert evaluator (`alerter/evaluator.go`, `window.go`, `group.go`, `quiet.go`) | cached outage flags, the aggregation window's buffers, window and quiet timers; `alert_events` | `HandleRound`, window flush, quiet boundary | called by the prober after a round; reads settings, probes, models; sends cards to Lark | a cache of a log, two timers, restarts, write-backs that fail after a send |
| score-drop alerts (`alerter/score_drop.go`) | deferred drops | `HandleCampaign` | hook of a settled campaign | deferral through quiet hours |
| login alerts, test alert (`alerter/login_alert.go`, `server/loginalert.go`) | one sliding window | failed login | login handler | limit and cool-down |
| overview cache (`server/overview_snapshot.go`) | snapshot and rebuild in flight, per scope; a generation | request, rebuild, invalidate | probe rows and handler edits move its markers | writes between the reads of a build, single flight |
| campaign lifecycle (`server/evals.go`, `campaign_retry.go`, `store/campaign.go`, `evaluator/campaign.go`, `retry.go`) | `campaigns`, `eval_runs`, `eval_results`; the cancel table | create, sweep, retry-failed, retry-units, restart, confirm, cancel, settle, crash cleanup | handlers start executors; executors settle; a settled campaign calls the alerter | check-then-act across statements, several executors for one campaign, cancels, disabled cases |
| executor and judge pipeline (`evaluator/evaluator.go`, `pipeline.go`) | two worker pools, two channels, votes, countdowns | feed, examine, offer, judge, end of a run, guards | hub calls; rows of the store | blocking channels, who ends a run, stopping |
| crash recovery of judging (`evaluator/recovery.go`) | `eval_answers`, `eval_judge_scores` | sweep at start | pipeline | votes re-issued next to live batches |
| weekly evaluation (`scheduler/eval.go`) | date of the last batch | tick | campaigns | dedupe across restarts |
| probe scheduler (`scheduler/scheduler.go`), prober (`prober/prober.go`) | due times, running and dropped marks, a semaphore | tick, dispatch, round | probes, alerter | endpoints that leave and return while a round is in flight |
| rollup and retention (`scheduler/rollup.go`, `store/rollups.go`, `deletion.go`) | raw rows, hourly rollups, a watermark per endpoint; when each job was last due | rollup, cleanup, removal and pruning of endpoints, the series | probes in, `GetSeries` out to the endpoint page and the trends | deleting what was not rolled up, late rows, a series read in three statements |
| discovery (`discovery/discovery.go`, `store/discovery.go`) | per-hub guard; models' retirement | sync | hubs, models | a listing that shrinks, returns, or is empty |
| sessions, login throttling (`server/auth.go`, `session.go`, `captcha.go`, `logindelay.go`, `ratelimit.go`) | sessions, capped tables | login, captcha, sweep | users | tables at their cap, one-shot answers |
| reports, progress, task center, administration, settings, audit, share links | tables, or projections of them | single statements | - | little: no concurrency of their own |
| verdicts, jury selection, medians, registry (`evaluator/verdict.go`, `jury.go`, `numeric.go`, ...) | none | pure functions | pipeline | boundary cases |
| hub client, web front end, question bank seeding | none of its own | I/O, views, one-time migration | - | outside this project |
| live helper server (`live-server.mjs`, `live/poll-lanes.mjs`) | pending events, leases, parked polls, in memory | browser events, polls, replies, publishes, restart | pages over HTTP and a stream; agents over polls; the session store | an await in the middle of a lease, leases that expire, replies that name no event, restarts |
| live session store (`live/session-store.mjs`, `vocabulary.mjs`) | a journal and a snapshot per session | append, restore | server, `live-complete.mjs` | what a restart offers again, and what it must not |
| live poll loop (`live-poll.mjs`, `live-accept.mjs`, `live-complete.mjs`) | the event in hand | poll, work, reply, complete | server, source files, store | lost agents, a stream that waits for its acknowledgement |
| live page (`live-browser.js`, `live-browser-session.js`) | the session on screen, local storage | go, accept, discard, resume, hot updates | server, agents through the stream, source files | reloads, lost connections, answers out of order |
| source edits, manual edits, anti-pattern detector, other scripts of the tool | files | text transformations, style rules | - | outside this project |

What makes each modelled part correct is stated by the properties below; the hazards that
ask for them, each at its line, are in `PROJECT.json`.

## Modules

| Module | Models | State and actions |
| --- | --- | --- |
| `Alerter` | alert evaluator, score-drop delivery | `log` is `alert_events`; the flags, buffers and timers are the evaluator's fields. `HandleRound`, `Flush`, `QuietBoundary`, `ScoreDrop` are the four holders of its mutex; `StoreProbe`, `EditSettings`, `Tick`, `Restart` are the environment. |
| `AlerterProofs` | | theorems about `Alerter` |
| `OverviewCache` | one scope of the overview snapshots | what a board shows is the set of writes its reads have seen; the markers are sets too. One action per read of `rebuild`: the markers, the models, the scores of all, then for each model its endpoints and their rows. One action per lock section of `overviewSnapshotFor`. |
| `OverviewCacheProofs` | | theorems about `OverviewCache` |
| `Campaigns` | campaign lifecycle around the executors | `campaign`, `run`, `result` are the three tables; `admitted` is what a handler has checked and not yet done; `jobs` are the executor goroutines with their cells; `cancels` is `Evaluator.cancels`. |
| `CampaignsProofs` | | theorems about `Campaigns` |
| `JudgePipeline` | one batch inside an executor | `exam` and `judge` are the goroutines of the two pools, `main` the feed loop and its waits, `book` the counters under `pipeline.mu`, `ctx` the batch's context and deadline. |
| `ProbeHistory` | rollup and retention | `probes`, `rollups` and `watermark` are the three tables, a rollup row being the set of rows it was computed from; `worker` is the tick of `RollupWorker` under way, between reading the rows and committing; `series` is what each request has read after each of its three statements. |
| `ProbeHistoryProofs` | | theorems about `ProbeHistory` |
| `LiveStore` | live session store | operators: a session's snapshot, and what each journaled event does to it |
| `LeaseQueue` | what the pending queue promises | abstract: a job is out of the queue, waiting, or held |
| `LiveServer` | helper server with its agents | `queue`, `parked` and `preflights` are `pendingEvents`, `pendingPolls` and the calls of `leaseEvent` that await; one action per handler, timer and step of a poll loop |
| `LiveServerProofs` | | theorems about `LiveServer` |
| `LeaseQueueProofs` | | its types, its parked polls, and that it implements `LeaseQueue` |
| `JudgePipelineProofs` | | the pipeline's types, and how its runs end |
| `LiveMode` | a page, the server's handlers for it, the journal | `page`, `storage`, `dom` are the page; `requests`, `answers`, `reads`, `link`, `inbox` what is under way; agents are the environment |
| `LiveModeProofs` | | theorems about `LiveMode` |
| `MC...` | | the instances TLC checks |

`Campaigns` and `JudgePipeline` meet at the cells: an executor's `Take`, `Examine`, `Offer`,
`Land` and `Tail` in `Campaigns` are what the pools of `JudgePipeline` do, without the pools.
`Campaigns` assumes that a batch goes on and ends; `JudgePipeline` says when that holds.
The alerter is called by the prober and by settled campaigns (`ScoreDrop`); nothing flows
back, so the two are not composed. `ProbeHistory` takes probes at any time, which covers every
schedule of the prober.

`LiveServer` and `LiveMode` extend the same `LiveStore`. The first has the queue in full and
browsers that may post anything the server admits; the second has a page in full and agents
that may answer anything they were handed. Composed, they are beyond TLC.

### Abstractions

* `ProbeHistory`: one row of an endpoint per tick; time is cut off at its beginning; an hour
  is any truncation that is monotone and idempotent. A late row is at most `MaxDelay` old,
  no more than the lag; a row that is later still would be lost (a probe's time is read just
  before its insertion, so an hour of delay is not expected). The three streaming modes are
  written together and are one.
* `LiveServer`: times are the order of expiries; a preflight ends before its lease does. A
  `steer_done` with neither file nor message is answered with 400 before anything changes
  (`live-server.mjs:1323`): it is a reply not given yet.
  Source files are the set of sessions whose variants they hold. Exit, prefetch, manual
  edits, tokens and `agent_phase` are left out.
* `LiveMode`: one page, its element always rendered; one arrived variant stands for all;
  what delays a request without guarding it is part of the request's way. A reload ends the
  requests on their way (one that the server still takes in is one that arrived before it).
  The three retries of a source read that finds an orphan are one. A stream that is lost
  connects again, so the page never gives the server up after twenty attempts
  (`handleServerLost`).
* `Alerter`: an alert's batch and quiet-summary rows appear as `told`, which counts the cards
  that told an event; the order of `created_at` is the order of ids; events are not purged;
  a probing round may end at any time with any probes stored before it; card wording is left
  out, and so is which model dropped (`compareSuiteRun` is a free choice). Of the reads of the
  store, those a turn, a round or a summary rests on may fail; so may the list of recovered
  members, whose card then names only some of them.
* `OverviewCache`: one scope; the hour boundary is a counter, and the clock is read with the
  models; a read of the store may fail. A write that concerns several reads (a model's name,
  an endpoint's switch) belongs to the first. The few queries that gather a model's rows are
  one read: a row counts as shown when it was there for the first of them.
* `Campaigns`: one case per suite, so that a unit is a suite and a model; samples and votes
  are one answer and one verdict, "null" or "scored". A plan reads all runs in one step. The
  status and the mutex are checked in one step by the handlers that check both, because the
  reopen checks the status again. Hub isolation, roles and auditing are left out, and so is
  the failure of a local store read or write other than creating runs and loading their cases.
  One of those matters: when a single run cannot be read back (`evaluator.go:266`), or the runs
  of a reopened campaign cannot (`retry.go:64`), the code returns with the run or the campaign
  still running, and `CampaignsSettle` and `RunningIsOwned` would not hold until a restart.
* `JudgePipeline`: a case has one sample; the batch is a fresh one (a retry uses the same
  pools without a budget). The end of a cell looks at the guards and stops the batch in one
  step. An answer call may succeed after the cancel, which the HTTP client mostly prevents.

## What is checked

Runs that pass:

| Run | Bounds | Shows |
| --- | --- | --- |
| `AlerterWindow` | two endpoints of one vendor, threshold two, seven rows, one restart, the end of a night, horizon 2 | `LastOutageIsOnACard`: what a window holds ends in a card that mentions each endpoint's last outage, alone or in a group. `GroupFollowsMembers`, `OutageReportedOnce`: group state follows its members, and an outage opens and closes once, also over a restart. `BufferIsFlushed`: with timers that fire nothing stays buffered, at night too. |
| `AlerterQuiet` | quiet hours from 3 to 1 of a day of 4, or off; two rows, one drop, one restart, one store error, one edit, one late timer, horizon 4 | `FlagsMatchLog`, `ToldAtMostOnce`, `DropsLeaveInTheMorning`, `BuffersAwaitFlush` |
| `OverviewBoard` | two clients, two models, a probe row of one, an edit of an endpoint of the other, an hour boundary, a failed read | `ReadsSeeEarlierWrites`, `RequestsAnswered` |
| `CampaignLife` | one campaign, two suites, one model, two handlers, two executors, three requests, a cancel, a disabled case, a restart | `RunningIsOwned`, `OneSettler`, `SettledIsOver` |
| `CampaignLive` | one suite, two models, two executors: weekly, live re-answer, resume; one cancel | `DroppedCellsFail`, `CampaignsSettle` |
| `JudgeBatch` | one run of two cells (two cases and one), a jury of two, two exam and two judge workers, breaker and abort thresholds of one, a cancel, a budget | `DoneRunsAreComplete`, `IncompleteRunsFail`, `BatchReturns`, `CancelEndsBatch` |
| `SeriesHistory` | one endpoint, two probes at most one tick late, hours of two ticks, lag one, retention three, a failed rollup, a restart, one reader, horizon 5 | `HistoryIsKept`, `SeriesIsExact`, `BucketsAreFinal`, `LivingAreKept` |
| `LiveQueue` | one session, an agent that takes anything and one that streams generations, a restart, a failure | `ClaimedOnce`, `NoGhostGeneration`, `OwedGenerateIsQueued`, `PollsAreServed`, `QueueDrains`; `KeepsThePromise`: `LiveServer` implements `LeaseQueue` |
| `LiveMode` | one session, one decision of the user, one reload, lost connection or restart | `FreedOnceDurable`, `GenerationReachesPage`, `SavingEnds`, `LostGoIsReleased` |

Each module also has its `TypeOK` in one of these runs. Every property has a mutant in
`PROJECT.json`: a plausible slip in one definition, kept next to it and marked "Mutant", that
TLC finds with that property.

The bounds are as small as the cases allow. Two members are the least with which a group's
state can differ from a member's, and seven rows are down, group down, down, recovered
and down again for them in one window. Two executors and three requests suffice for
every race of two requests on a campaign that a first one has settled; a second restart or
cancel repeats the first. Two workers per pool and a jury of two let the last cell, the last
vote and the settling of a case fall into any order. Two rows are the least of which one is
rolled up and deleted, in part of its hour, while the other waits; the theorems about
`ProbeHistory` have any number of endpoints, rows and readers. One session, one page and one
loss keep the live runs within minutes: the theorems about `LiveServer` hold for any number of
sessions and agents, steers among them, and the races of `LiveMode` are those of one session with
what was sent before. The thresholds of the code (five cases,
three cells) are parameters and only shortened.

Runs that end in a counterexample, each against what the repository says of itself:

* `CampaignStranded`: a case disabled (or edited, which disables the old case) between the
  admission of a re-answer and its plan leaves a reopened run without a cell. Nobody
  finishes it; the campaign runs, and refuses all others, until the next restart. The same
  end is reached when a live re-answer deletes a null row between a retry-failed's reopen and
  its plan; `CampaignLife` therefore leaves live re-answers to `CampaignLive`.
* `JudgeBudget`: past the deadline the judge workers leave without canceling the context,
  and exam workers that have votes to offer wait for them for ever. An operator's cancel
  still ends the batch (`CancelEndsBatch`).
* `LiveGo`: the page posts its checkpoint before the generate event that would create the
  session, and takes the 404 for a session of another project.

`RunningIsOwned` and `CampaignsSettle` except exactly the state of the first counterexample (a
running run whose case is disabled), and `BatchReturns` the batches that stay `Starved`, as in
the second; they hold otherwise.

Several disagreements are known from the models and have no run of their own:

* The quiet boundary timer of the alerter lives in memory and is armed by alert activity
  alone. After a restart at night nothing arms it until the next decision, and the outage
  of the night may never be summarised (`alerter/quiet.go:102`).
* When a marker moves during each of three build attempts, the overview stores the content
  of the last with the markers read after the write, and serves it as fresh.
* A resume plans before it reopens (`evaluator/retry.go:366`): a retry that runs in between
  scores a unit, and the resume deletes the score and asks again.
* `GetSeries` is said to stay complete before and after the retention (`store/rollups.go:228`),
  but a rollup committed after its first statement leaves the hours just rolled up out of
  that response: they are neither in the rollups read before nor in the raw tail read after.
  `SeriesIsExact` speaks of the reads that no rollup overtakes.
* The worker is said never to delete raw rows that are not rolled up (`scheduler/rollup.go:134`);
  that holds as long as no rollup fails. A failed one counts as done and the cleanup deletes by
  age alone, which loses rows when the process had been down for about as long as the retention.
* A stream waits until no event of its session is queued (`live-poll.mjs:299`): with a decision
  of the same session behind it, an agent that only streams waits for itself until the ACK
  timeout ends its process. `QueueDrains` holds because the run has a second loop.
* A publish that does not compile is acknowledged before it is refused (`live-server.mjs:1363`):
  the queue has forgotten a generation that the journal owes. `OwedGenerateIsQueued` leaves
  those sessions out.
* An error reply of an agent whose generation was retired meanwhile is journaled as a
  failure of the session (`live-server.mjs:1240`), and the journal forgets the decision that
  is still in the queue; a restart then loses it.

### Fairness

`Alerter`: timers that are due fire and their handlers get the mutex (Go timers and
`sync.Mutex`). `OverviewCache`: store reads return and a goroutine that has the lock goes on.
`Campaigns`: each admitted request is answered and each executor goes on, since hub calls
have a timeout (`RequestTimeout`). `JudgePipeline`: weak fairness of the batch as a whole,
the weakest that is of use: some goroutine that can go on does. `LiveServer`: a poll loop polls again, an agent answers in the end and, time after time, while
its lease of ten minutes still runs (strong fairness of `AnswersInTime`), and node's timers
fire. `LiveMode`: requests arrive and are answered, what has arrived is handled, the stream
connects again, a reload ends in a page; nothing is assumed of agents, hot updates or the user.
Operators, edits, probes, mishaps, restarts and deadlines are never forced. `ProbeHistory` states no liveness: its jobs run by the clock.

## What is proved

The theorems hold for all values of the constants that satisfy the named assumptions, which
say that the bounds are naturals, that families and settings are well formed, and that `None`
is not one of the things it stands against.

* `AlerterProofs`: `TypeCorrect`, with the invariant that buffered items and deferred drops
  refer to rows of their kind. `CacheMatchesLog` and `OutagesReportedOnce`: for every subject
  the flag in memory, once known, agrees with the last row of the log unless a store error
  has come between. `EventsToldAtMostOnce`: by `ToldInv`, which adds to `ToldAtMostOnce`
  that a drop that still waits has not been told. `GroupsFollowMembers`: `GroupFollowsMembers`
  reads flags that a restart forgets, so the invariant (`GroupsInv`) says the half-down rule of
  the event log alone, from which the flags are rebuilt. `BuffersMeetTheirFlush`, by `WindowInv`:
  the window opened no later than the first of its items was decided, and its timer is overdue
  by the lock's delay at most. `NoOutageIsSwallowed`, by `CardsInv`: only recovery cards list
  recovered members, and the group cards of a window have an order.
  `DropsLeaveWithTheSummary`, by `DropsInv`: whoever arms the boundary timer anew never moves it
  past the morning that a drop waits for. It has a hypothesis, `MaxLate < Loud(q)`: a handler
  does not wait for the mutex through the whole loud part of a day. TLC finds the property
  violated when it may (`MaxLate` and the loud part both 2): the next quiet hours then hold the
  drop for another night. The settings are whole hours, so the loud part is one at least, and a
  holder of the mutex sends a few cards of ten seconds at most (`sendTimeout`): the code meets it.
* `OverviewCacheProofs`: `BoardTypes`, and `RequestsSeeEarlierWrites` by `CacheInv`: what a
  marker counted when a request or a build began had been written by then; each read of a
  build contains what was written before it; and a board whose markers did not move during
  its reads contains all that its markers count. Without the last part the invariant is not
  inductive, since a request compares its markers with those of a board others have built.
* `CampaignsProofs`: `CampaignTypes`, `CampaignsHaveOneSettler` and `SettledCampaignsAreOver`,
  by `LifeInv`: the three, `NotYetRun` (an absent campaign, and one whose sweep has not
  been planned, has no runs) and `KindsInPhases` (only batches wait at the gate, only
  resumes reopen late, live re-answers never settle). `OneSettler` alone is not inductive: that a settler's campaign
  is running is what makes the reopens' guard exclude a second one, and the settle keeps it
  only because no other settler is left.

  `StoppedBatchesFail` adds `DropsInv`: a run's cells are marked done only when none of them is
  left to be taken or examined, only marked runs finish, and so the tail, which fails what is
  not finished, fails the run of every cell that was dropped. The settle finds that run: its
  campaign is running still, because it has one settler. `RunningCampaignsAreOwned` adds
  `Covers`: from its start to its settle, each running run of an executor's campaign is one that
  its plan will find or one that it works on, or the run's case is disabled. Its hypothesis
  `Apart` says that live re-answers and retries of failures are not both started. It is needed:
  with both TLC finds the race named under `CampaignStranded`. `CampaignLife` and `CampaignLive`
  each meet it.
* `ProbeHistoryProofs`: `TypesHold`, `HistoryIsNeverLost`, `ReadsAreExact`, `BucketsNeverChange`
  and `TheLivingStay`, by an invariant that says where rows are. Below the watermark of its endpoint
  a row is in the rollup of its hour, from it on it is raw (`RowsArePlaced`). For that to be
  inductive, the watermark is a whole hour no later than the lag allows (`MarksAreHours`), what
  the rollup has read must still be what it would read when it commits (`GroupsAreCurrent`),
  and the rollup of this process must have moved every watermark past the rows it read
  (`RolledIsMarked`), because the cleanup goes by age. `AgeAssumption` is what the code's
  constants meet with room: the lag (1 h) covers a late row, and a row as old as the retention
  (90 days) was below the cutoff of a rollup one interval (1 h) ago.
* `LiveServerProofs`: `PreflightsAreClaimedOnce`, `GhostsAreNotOffered` and
  `NoGenerationIsLost`, by `Good`: an event under preflight is leased in the queue and has
  one call (`Claimed`, `Once`); while a generation is still to be scaffolded nothing else has
  happened to its session (`InOrder`), so that a late preflight cannot overwrite a decision;
  and a decided session has no generation queued or owed (`Decided`). It is stated for given
  values of the variables, because a handler changes journal and queue and then leases from
  what it has left. The third theorem needs `Kept` besides: what the
  journal owes is queued unless its publish bounced, and an event under preflight still is.
* `LeaseQueueProofs` extends it: `ServerTypes`, `ParkedPollsAreServed`, and
  `ServerImplementsQueue`, that `LiveServer` is `LeaseQueue` seen event by event. Every step of
  a running server is a `Work` step and a restart is a `Crash`. What has to be shown is that an
  event leaves the queue only when an agent has had it or its session no longer wants it, and
  replies do not name their event: the server infers it from what is queued and leased. So
  the invariant keeps account of what agents have been handed (`Handed`): what is leased, under
  preflight, in hand or in the source was; a variant that failed to mount belongs to a
  generation that was; an agent that finishes has carried out an accept, whose session has no
  generation left for its error to take (`Decided` again). Failed mounts are none of the jobs,
  because a done or an error about one may acknowledge the generation, which was handed out
  before, but the reverse happens too. The parked polls need the other half: a handler frees
  one event at most, and the flush after it is the last thing it does. `NextSeq` takes a
  maximum, so the types need that the queue stays finite and its numbers distinct.
* `JudgePipelineProofs`: `PipelineTypes`, `DoneMeansComplete` and `TheRestFails`, for any runs,
  cells, cases, jury and pools. The invariant says what the counters count. A run's
  `remaining` is the number of its cells that are still to be offered or in a worker's hands
  (`CellsGood`), and when it is 0 the run is marked or a worker is about to mark it. A run's
  `judgePending` is the number of votes of its judged cases without a row that have not
  landed, offered or lost, and of the workers that have landed one and not yet put it away
  (`Counted`). That gives the ends once a case without a row is known to have a vote missing
  or a worker that is about to settle it (`DueGood`); and that in turn needs that the calls
  in flight never exceed what the jury has left (`CallsFit`, `OffersFit`). A run without cells is
  excluded by `PipelineAssumption`: the code marks it before the pools start.

* `LiveModeProofs`: `LiveModeTypes` and `PickerIsFreedDurably`, for any number of sessions. The
  types rest on what is in flight (`Phased`, `AllNamed`): a checkpoint carries a phase that the
  journal knows, a message of the stream names a session. The second theorem follows an accept
  from the journal to the picker: an accept that is answered ok is in the journal (`Granted`),
  and so is the one whose answer freed the picker (`Durable`). Neither the events that come
  later nor a restart take a decision out of the journal again, because what a session owes is
  only ever a generation, an accept or a discard (`Owing`). The handlers of the page are
  functions of a world (page, storage, markup, requests, reads), and each has a lemma that says
  it keeps the world sound.

Every invariant and every safety action property of the passing runs is stated by a theorem.
Model-checked only is the liveness (`BufferIsFlushed`, `RequestsAnswered`, `CampaignsSettle`,
`BatchReturns`, `CancelEndsBatch`, `QueueDrains`, `GenerationReachesPage`, `SavingEnds`,
`LostGoIsReleased`): the provers have no rule for fairness here.

The live protocol heals twice over in places: breaking only one of the recoveries of a missed
result (the page's own reading of the source, and the server's resume) leaves
`GenerationReachesPage` true, so its mutant breaks what both rest on.

## Not modelled

What the map covers is about 17 % of the Go code outside tests, and about 3 % of the JavaScript,
TypeScript and Vue. Of the latter, 25,800 lines are the front end, views and formatting
over the HTTP API without state of their own, and most of the rest is text: an
anti-pattern detector of some thousands of style rules, source transformations for several
frameworks, and the panels of the live page. What coordinates anything there, the live
protocol, is modelled; thresholds and markup would only be written down a second time.

On the Go side: jury selection and the probe gate's measurements, costs, live queue counters,
the task center, reports and leaderboards, HTTP details, authorisation, the hub client,
schema migration and seeding are pure functions, projections, or I/O, as
`PROJECT.json` says part by part. Two confirmations of one jury gate close a channel twice
and panic; the gate is one action here.

Left for later, in this order: what an executor promises (each run ends once) as an abstract
specification that `JudgePipeline` implements; judging after a crash next
to live batches; the marks of the probe scheduler for endpoints that leave and return in
flight; discovery's retirements; login throttling at its caps; and on the live page the steer
chat, exit, and manual edits. Known behaviour of the live page that `LiveMode` keeps and no
property speaks of: a source read that comes back late shows variants whatever the page has
moved to; an error said while the page has no connection is not said again; a late answer to
an accept or discard is applied to the session of the moment.
