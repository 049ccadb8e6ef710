# Formal model of the futures analysis service

TLA+ modules for `src/src/dragonboat_ai/futures_agent`, the configurations that
model-check them with TLC, and proofs that TLAPS checks.  Paths below are
relative to that package.  `PROJECT.json` maps every definition to the lines it
translates and lists the runs, the mutations that each property must detect,
the findings, the hazards and the theorems.

## 1. The system

The service stores point-in-time futures data, follows the main contract of an
instrument through its rolls, and answers requests for an analysis as of an
instant.  Everything it writes is meant to be append-only: what was known at an
instant can be read again later, and gives the same answer.

```
 provider ──> refresh ──> curves, bars ──> mapping + continuous series (vintages)
 (MCP/Tushare) (one at a     (batches,        │  main-contract machine
               time)         revisions)       v
 request ───> analyze ──> context as of t ──> features, factors, gates ──> run + event
                 │                                                │         │
                 │                                    observation of        outbox ──> consumer
                 └── narrative threads                earlier runs
                                                      (invalidation)
```

| Component | State | Operations | Interacts with | Hard part | Correct when |
|---|---|---|---|---|---|
| Main contract roll (`contracts/main_contract_*.py`, `mapping_pipeline.py`, `calendar.py`) | incumbent, pending switch, challenger and streak; mapping rows | replay one session: adopt, keep, challenge, confirm, emergency roll, block | read by the rebuild of every refresh and by contexts | missing sessions, lost eligibility, ties, a pending switch that meets either | a switch is confirmed by N sessions in a row, announced, never missed, never retroactive |
| Market store and refresh (`application/refresh.py`, `infrastructure/ingestion/pipeline.py`, `infrastructure/database/*`) | revisions with instant and batch, batches, vintages, lock | refresh: lock, fetch, stage, commit, rebuild, analyse; read a context | provider, analyses | crash between any two steps, corrections, readers during a commit | what was visible as of t stays visible; contexts join one information set only |
| Analysis service (`application/analyst.py`, `SqlAlchemyAnalysisRepository`) | runs, children, events; narrative slots | analyze: look up, compute, save, observe, narrate, save | store, invalidation, outbox | identical concurrent requests, failing second transaction, threads that hang | one analysis and one narrative per identity, one event per run, every call ends |
| Invalidation (`invalidation/*`) | state rows per condition | record an observation, read the status | called between the two saves of an analysis | observations in any order of as_of, revisions, weekends, missing values | streaks count sessions, verdicts are witnessed and stay |
| Outbox and consumer (`operations/outbox.py`, `events.py`) | event status; seen ids | enqueue, pending, mark published, mark failed, retry; consume | saves, an external relay and broker | two relays, ambiguous errors, redelivery, restarts | nothing lost, nothing processed twice |
| Shadow loop and watermark (`operations/shadow.py`, `watermark.py`, `observability.py`) | journal in memory, table of observations | one session: decide, analyse, record; alerts | analyses | faults, exceptions, a table that cannot be written, crashes | every call leaves its observation or is accounted for, a fault is a gap |
| HTTP access (`api/*`, `operations/auth.py`, `bot_reader.py`) | hits per client | limit, route, report the error of the source | market sources, refresh, analyses | the limit at its boundary, every error path closes its source | at most N accepted requests in any minute, every request ends |
| Market sources (`infrastructure/ingestion/mcp_*.py`, `tushare_*.py`) | a child process and its buffer | start, request, deadline, close; chunks and retries | refresh, market queries | late, repeated, foreign or no answers, a dead process | an answer belongs to its request, no child is left |
| Trading calendar store (`calendar_store.py`) | days with revisions | add, read as of | mapping, refresh | corrections of a day | the newest visible revision counts |
| Continuous series (`continuous_series.py`, `research_returns.py`) | none | gaps and back adjustment, return index | rebuild, labels | rolls over missing sessions, contracts not quoted, prices not positive | a roll adds no jump and no return |
| Features (`features/*`) | none | metrics with status and instant of availability | analyze | too few samples, missing inputs, inputs of several ages | no metric is stamped before its inputs |
| Regime and scoring (`regime/*`, `scoring/*`, `invalidation/engine.py`) | none | factors, direction, regime, quality, confidence, risk, opportunity, conditions | analyze | seven engines that each treat missing values their own way | missing or gated data never end in an actionable result; longs and shorts alike |
| Replay and evaluation (`research/*`) | none | labels, splits, purging | stored analyses, series | leakage over a split boundary, labels over a roll | train and test are apart, a label is a return that could be had |
| Domain types, schema, migrations, backup, narrative text, scripts | – | – | – | – | – |

## 2. Modules

| Module | Models | Extends / instances |
|---|---|---|
| `MainContractPolicy` | `LiquidityConfirmedMainContractPolicy`: eligibility and ranking of one curve | - |
| `MainContract` | `MainContractStateMachine.replay` and the mapping rows derived from it, for any policy that satisfies `PolicyContract` | - |
| `ContinuousSeries` | points, roll gaps, adjusted series and return index of a replay | `MainContract` |
| `Research` | labels, walk-forward splits and purging over that series | `ContinuousSeries` |
| `MC_MainContract` | the four above on five curves | `Research`, `MainContractPolicy` |
| `MainContractProofs`, `ResearchProofs` | proofs | `MainContract`, `Research` |
| `MarketStore` | refreshes, revisions, batches, vintages, readers | - |
| `MC_MarketStore` | two dates, symmetry | `MarketStore` |
| `MarketStoreProofs` | proofs | `MarketStore` |
| `AnalysisLedger` | abstract: what `analyze()` promises about an identity | - |
| `AnalysisRun` | concurrent `analyze()` calls, step by step | instances `AnalysisLedger` |
| `AnalysisRunProofs` | proofs, with the refinement | `AnalysisRun` |
| `Invalidation` | the rows of one condition under observations in any order | - |
| `InvalidationProofs` | proofs | `Invalidation` |
| `MC_Invalidation` | a week and three kinds of input | `Invalidation` |
| `Outbox` | the event table, relays, broker, consumer | - |
| `OutboxProofs` | proofs | `Outbox` |
| `Features` | `ReferenceFeatureEngine.compute`: which metrics exist, with what status, since when | - |
| `Scoring` | configuration, factors, direction, regime, data quality, confidence, risk | `Features` |
| `Analyst` | opportunity, invalidation conditions, the whole of `analyze()`'s computation, the reader's summary | `Scoring` |
| `Shadow` | `ShadowRunner.run_session` around an analysis | `Analyst` |
| `ShadowProofs` | proofs, of the engines too | `Shadow` |
| `MC_Shadow` | about a hundred market contexts | `Shadow` |
| `McpTransport` | `StdioMcpTransport` and a child process, as operators on a session | - |
| `MarketGateway` | HTTP requests through limiter, routes or refresh, adapters, retries and transport | `McpTransport` |
| `MarketGatewayProofs` | proofs | `MarketGateway` |
| `MC_MarketGateway` | three requests of two clients | `MarketGateway` |

A definition whose name ends in an underscore and a word (`LockSave_Deferred`)
under a comment "Mutation" is a plausible bug in the definition that follows it.
No specification uses it; it exists to show that a property can fail.

### MainContract

One step is one element of the list `expanded` of `replay`: an observed session
or a calendar session without a curve (`MissingSession`).  Each branch of the
loop is an action: `Adopt`, `Block`, `EmergencyRoll`, `KeepTop`, `Challenge`,
`ConfirmRoll`; consuming a pending switch, which the code does at the head of
the loop, is part of each of them (`ConsumePending`).  `records` is the list
the code returns, `EffectiveMapping` is `load_effective_mapping` over the rows
the pipeline makes of it.  The policy is a parameter, so the theorems hold for
any policy; TLC uses the one of the code.  Shares are compared by cross
multiplication, exact where the code divides.

Sessions off the calendar: the code accepts any date from `sessions`.  The
constants allow that (`SessionDays`), and the run has them on the calendar:
with a date off it a pending switch may become due on a day no one announced,
and `SwitchAnnounced` and `RollNotMissed` are claims about calendar sessions.

### MarketStore

Curve rows carry date, revision, content, instant and batch; daily bars are
numbered and committed in the same way in the same batch and are not repeated
(a bar with price limits is stamped at its receipt already in its first
revision, `pipeline.py` 194-197, where a curve is stamped at its publication).
`StartRefresh`, `IngestCurve`, `Commit`, `BuildVintage`, `FinishRefresh` and
`Abort` are the phases of `RefreshAndAnalyzeService.run`; a crash is an `Abort`,
because the lock is the operating system's and goes with the process, and staged
rows stay.  A refresh fetches from `Window` days before the last visible curve
to its target, or from an earlier date while there is none; what a source leaves
out of that window ends it (`INCOMPLETE_MARKET_DATA` is an `Abort`), and
it answers only if its target is the last curve it sees.  `Visible`
and `VisibleVintage` are the ranked queries of the repository.  A reader opens
one snapshot (`ReadCurves`) and reads the rest of its context from it later
(`ReadSeries`).  The provider (`Correct`, external) may change a date it has
published at any time, and the recipe (calendar and policy) may change
(`ChangeRecipe`).  A vintage is identified by its inputs and recipe, as the
payload hash is.

### AnalysisLedger and AnalysisRun

`AnalysisLedger` is the promise: an identity is registered once with one id,
its narrative is written at most once, and every answer is what is registered.
`AnalysisRun` is the code: each caller moves through look-up, compute, save
(`LockSave` is `BEGIN IMMEDIATE`, `WriteSave` the statements, `CommitSave` the
commit), observe, narrate and the second save.  Generator threads take one of
`NarrativeSlots` slots, may end after the caller gave up (`orphans`), and may
hang.  `Fail` rolls back any database step, including the expiry of the busy
timeout; `Crash` loses everything but the three tables.  The rows that a save
writes with a run (evidence, rules, factors, audit) are part of the run.

The refinement maps the ledger's entry of an identity to the stored run of that
identity.  `CommitSave` is `Register`, `Narrate` or a stutter; `Answer` is
`Answer`; every other step stutters.

### Invalidation

`Record` is one call of `record_analysis_observation` for one condition: the
row selection (`Newest`, `Prior`, `Superseded`) as the queries order it, the
weekday rule (`Follows`, `Resumed`), the state machine (`Observe`).  Values
matter only by their side of the threshold, -1, 0, 1, or missing; a change of
the selected contract or a blocking issue is a missing value, as in the code.
`session` gives the newest session published at each instant.  With `Lagging`
an analysis may have been computed from data older than that, because its
session was ingested after it.

### Outbox

The table operations and the consumer are actions; the relay and the broker are
not in the repository and are as bad as can be: relays share nothing, an error
may hide a success, a delivery repeats at will.

### ContinuousSeries and Research

Both are functions of the state of `MainContract`: after every session the
series of `build_mapping_and_continuous` is what `Points`, `RollGaps`,
`Adjusted` and `ReturnIndex` say of the records so far, so that one run checks
them over every history of curves, missing sessions and rolls.  Settlements are
whole numbers given by contract and day, index values are fractions.

`Research` labels a signal day twice: with the stored index, as
`replay_history.py` does, and as `attach_research_labels` does from plain
prices, without calendar and denominators (`PlainIndex`).  The docstring of
`same_contract_return_index` says a missing observation breaks the chain; with
no calendar there is nothing to notice it by, so `LabelsAttainable` asks less
of the second kind of label.  The splits are over positions in a list that has
`History` sessions before the replayed ones.

### Features, Scoring, Analyst

A market context is a record of how much data there is, how old it is, since
when it is available, and what the statistics come to where the data allow
them.  The statistics are floating point sums over windows and stay outside;
their guards (which sample size, which missing input, zero volatility) are
inside, because that is where a metric comes to exist or not.  Scores are whole
points of -100..100, weights whole percents, quotients are truncated towards
zero, which keeps comparisons with whole thresholds.  Every engine is an
operator under the name of its method, `Analyze` composes them in the order of
`analyze()`, and `consumer_intent` is what `bot_reader.py` tells a consumer.
`DefaultConfig` is the configuration of `ScoringConfig.default()`, `ValidConfig`
its `__post_init__`, which is also the assumption on the constant.

### Shadow

`RunSession` is `run_session` up to `analyze()`; the call, its repetition under
`DUPLICATE_BATCH`, a timeout, another exception and the record are steps of
their own, as is a crash, which takes the journal and leaves the table.
Appending to the table may fail after the journal was written.  An injected
`TIMEOUT` does nothing unless `analyze()` times out, and `DUPLICATE_BATCH`
passes through to a record; either may record a candidate under a fault.  The
runbook (line 70) calls that a defect and the alert reports it: what
`FaultsAreGaps` claims is that the other faults never get so far and that these
page.  An exchange without a watermark is a `ValueError` that `run_session` lets
through before any fault is looked at: such a call has no observation.  The
script screens the exchange, the class does not.

### McpTransport and MarketGateway

A session is a value: its process, the number of the last request, what the
child was asked, the lines it has written and whether its input pipe is full.
The child (`Child`, external) may answer anything it was asked, late or twice,
with any result, write lines that are not JSON or too long, exit, or leave its
input unread until the pipe is full; these faults are bounded by `MaxFaults`.
It may also go on and on with notifications and requests of its own, of which it
is `MaxBacklog` lines ahead of the transport at most.  `_send` writes to the pipe
without a deadline: asking, refusing a request of the child and cancelling are
not possible while the pipe is full (`Blocked`).  A child that exits then ends
the wait with an error of the pipe, which the caller is told as it is told of a
closed session.  A request passes the limiter (`Arrive`), gets a thread and a source (`Open`), makes its calls
(`Ask`, `Read`, `EndOfFile`, `TimeOut`) and closes the source (`Close`).
`CallFails` and `CallSucceeds` are the control flow between calls: the three
calls that set a session up, then one call of a query or the tasks of a refresh
in chunks, with `_retry` around each task but the calendar.  An answer is judged by
`__init__` of the transport (`SetupError`: as required or `MCP_START_FAILED`), by
the source of a refresh (`RowsError`) or by the queries (`QueryError`).  A timeout closes
the session, so that a retry after one meets `MCP_CLOSED`: the retries of
`_retry` help against an error of the tool only, and the error that is reported
is that of the last attempt.

## 3. Runs

| Run | Question | Properties | Bounds |
|---|---|---|---|
| `main_contract` | does every sequence of sessions roll as confirmed, and are the series and labels made of it right? | `TypeOK` `RollConfirmed` `RollNotMissed` `SwitchAnnounced` `IncumbentEligible` `MappingAgrees` `MappingNotRewritten` `RollGapRemoved` `ReturnIndexChains` `LabelsAttainable` `SplitsDoNotLeak` | 3 contracts, 5 curves, days 1 to 8 with a weekend, N = 2; horizons 1 and 2, three plans |
| `emergency_same_session` | is a decision after the close in force on the next session at the earliest? | `EffectiveNextSession`, violated | as above |
| `market_store` | do refreshes that overlap, fail and restart keep the store coherent? | `TypeOK` `RevisionsOrdered` `VintageCausal` `RebuildComplete` `RefreshReturnsFetched` `HistoryKept` | 2 refreshers, 3 batches, 2 dates, 2 contents, time to 3, `Window` 0 |
| `market_store_readers` | what do readers see between commits and rebuilds? | `ContextCoherent` | 1 refresher, 1 reader, 2 batches, 2 recipes, `Window` 1 |
| `series_of_a_reverted_recipe` | is the series a refresh answers with its own? | `SeriesIsCurrent`, violated | 1 refresher, 3 batches, 2 recipes, `Window` 1 |
| `analysis_run` | does the service implement the ledger, and does every call end? | `TypeOK` `EventPerRun` `InsertsNeverConflict` `ObservationFindsRun` `GeneratorsBounded` `LedgerSpec` `CallsEnd` | 2 callers, 1 identity, 3 calls, 1 slot |
| `observation_lost` | is every answered analysis observed? | `AnsweredIsObserved`, violated | 1 caller, 2 calls |
| `invalidation` | are verdicts witnessed, complete and final in any order of observations? | `InvalidationWitnessed` `RunOfHitsInvalidates` `InvalidationStays` | 5 observations, 4 instants, 4 sessions over a weekend |
| `late_observation` | ... also if data lag behind the analyses? | `RunOfHitsInvalidates`, violated | as above, `Lagging` |
| `outbox` | is every event consumed, and once? | `NothingStranded` `ProcessedOnce` `AtLeastOnce` | 2 events, 2 relays |
| `shadow` | can an analysis mislead whoever acts on it, and does a shadow call get lost? | `CandidateIsSafe` `MetricCausal` `MirrorSymmetric` `CallsAccounted` `FaultsAreGaps` | 102 contexts, 2 exchanges (one without a watermark), 2 sessions, 4 instants, 2 calls |
| `market_gateway` | do requests get their own answers, within the limit, and end? | `AnsweredInFull` `SessionsReaped` `WindowExact` `RequestsEnd` | 3 requests, 2 clients, limit 1 per 2 instants, time to 2, 1 thread, 2 chunks, 3 attempts, 1 fault, 1 line ahead |

Why the bounds are enough.  A roll involves an incumbent and two rivals, N + 1
sessions, one gap and the switch that follows; eight days hold two of these in
a row.  Labels and splits need a window longer than the longest horizon.  A
refresh can meet the remains of one failed attempt and the work of one
concurrent refresh: three batches hold both.  With `Window` 0 the earlier of two
dates is not fetched again once the later is there, as beyond the ten days of the
code; with 1 both are fetched every time.  An identity race needs two savers
and a call that comes after both.  The rule under invalidation asks for two
sessions, so four sessions around a weekend and five rows contain a run, a gap,
a revision and an observation out of order.  Two relays and two events contain
every pair of operations on one row and on two.  The contexts of `shadow` are
every combination of twelve markets and five risk profiles with complete data,
and twenty-one shapes of incomplete, stale or oddly timed data under a strong
market either way: each threshold of the engines is met from both sides.  Two
calls are enough for a record, a crash and a record after it.  In
`market_gateway` one fault is one answer that is late, repeated, foreign or
missing, one exit or one pipe left full, and everything after it must cope; lines
of the child's own come besides, as often as it likes, and one line ahead is
enough for a transport that never finds it silent; retries and chunks exceed one;
three requests exceed the limit and the threads.  The clock stands still once
every request has come, as only the limiter reads it.

`CHECK_DEADLOCK FALSE` is set where the bounds (last day, number of calls,
requests, batches or rows) end every behaviour; the outbox run checks deadlock.

Symmetry is used in the two passing runs of `MarketStore` (refreshers,
contents), whose actions do not distinguish the members of these sets, and in
no run with a liveness property.

### Fairness

`analysis_run` assumes `WF(Advance(c))`: a caller's thread is scheduled,
waiting for the writer slot ends in an error after `busy_timeout` (30 s,
`session.py`), and waiting for a narrative ends after
`narrative_timeout_seconds`.  Nothing is assumed about generator threads,
which may hang for ever.  `market_gateway` assumes `WF(Advance(r))`, that the
thread of a request is scheduled unless it waits for room in the pipe, and
`WF(TimeOut(r))`, that the deadline of a call passes, since `request` looks at
the clock before every line it reads, whatever the child writes.  The child need
not answer, exit or be silent.  It could defeat one thing: a child that lives on
and leaves its input pipe full keeps a thread in `_send` for ever, and with a
refresh its lock.  `RequestsEnd` says so in its premise: no child does that for
ever (without the premise TLC finds the thread that hangs).  `outbox` assumes what the runbook asks of the environment: relays
keep polling and publishing, an event that is tried again and again gets
through, `retry_failed` is called while there are failures, and the broker
delivers.  Polling and sending have strong fairness because other relays and
crashes disable them now and then.

## 4. Proofs

TLAPS checks these for every value of the constants that satisfies the named
assumptions.

| Module | Theorem | Establishes |
|---|---|---|
| `MainContractProofs` | `TypeCorrect` | types; one record per session |
| | `RollsAreConfirmed` | `RollConfirmed`, for any calendar, policy and N |
| | `MappingIsNotRewritten` | `MappingNotRewritten` |
| | `RollsAreNotMissed`, `SwitchesAreAnnounced`, `IncumbentsAreEligible`, `MappingTellsTheSame` | `RollNotMissed`, `SwitchAnnounced`, `IncumbentEligible`, `MappingAgrees`, with the sessions on the calendar |
| `ResearchProofs` | `SplitsNeverLeak` | `SplitsDoNotLeak`, for any plan, horizon and number of sessions |
| | `RollGapsAreRemoved` | `RollGapRemoved`, for any settlements and any number of rolls |
| | `ReturnIndexIsChained` | `ReturnIndexChains`, with the sessions on the calendar |
| | `LabelsAreAttainable` | `LabelsAttainable`, for any horizon, on either index |
| `MarketStoreProofs` | `TypeCorrect` | types; a refresh runs only while it holds the lock |
| | `RevisionsStayOrdered`, `VintagesAreCausal` | the invariants of the same run |
| | `HistoryIsKept` | `HistoryKept`: a commit takes no row from a closed information set and replaces none; it may add first revisions that arrive late |
| | `ContextsAreCoherent` | `ContextCoherent`, for any number of readers |
| | `RebuildsAreComplete` | `RebuildComplete`: every instant that sees a curve has a vintage, made from exactly the curves it sees |
| | `RefreshesReturnFetched` | `RefreshReturnsFetched`: a refresh answers with its own data, for the dates it fetched |
| `AnalysisRunProofs` | `TypeCorrect` | types; the writer slot belongs to the caller inside a save |
| | `EventsMatchRuns`, `NoInsertConflicts`, `ObservationsAreOfRuns` | the invariants of the same run |
| | `GeneratorsAreBounded` | slots are given back exactly once |
| | `LedgerImplemented` | `Spec => LedgerSpec`: the service implements the ledger |
| `InvalidationProofs` | `TypeCorrect` | types; a status says what its streak says |
| | `InvalidationIsFinal`, `InvalidationIsWitnessed` | `InvalidationStays`, `InvalidationWitnessed`, in any order of observations |
| | `RunsAreNoticed` | `RunOfHitsInvalidates`, without lag and with a session on every weekday |
| `OutboxProofs` | `TypeCorrect`, `NoEventStranded`, `EventsProcessedOnce` | the safety part of the outbox run |
| `ShadowProofs` | `TypeCorrect` | types |
| | `CallsAreAccounted`, `FaultsAreRecordedAsGaps` | `CallsAccounted`, `FaultsAreGaps`, for any exchanges, sessions, instants and number of calls |
| | `MetricsAreCausal` | `MetricCausal`, for any contexts |
| | `CandidatesAreSafe` | `CandidateIsSafe`, for any contexts and any accepted configuration |
| | `MirrorIsSymmetric` | `MirrorSymmetric`, for any contexts and any accepted configuration |
| `MarketGatewayProofs` | `SessionsAreReaped` | `SessionsReaped`: no child outlives its request |
| | `RequestsAreAnsweredInFull` | `AnsweredInFull`, for any number of requests, chunks, retries and faults |
| | `LimiterIsExact` | `WindowExact`, for any limit, window and number of clients |

*MainContract.*  Assumptions: `ContractAssumption`, `CalendarAssumption` (a
session follows every day) and `PolicyContract` (the ranked contract is one of
the eligible).  `RollConfirmed` speaks of the past N sessions and the machine
keeps a number only, so the invariant says what the number means: the last
`streak` records are sessions in which the challenger outranked the incumbent
that is still in force.  `MappingNotRewritten` follows from the rows: a new row
is effective no earlier than its session, which is later than every recorded
one.  The other four are claims about sessions of the calendar (section 2) and
have `OnCalendar`, every session a trading day, as a hypothesis.  With it each
step is a session that comes at once after the last (`ComesAtOnce`), so that a
pending switch is due exactly when it meets its session; `Told` then relates
the last record to what the machine keeps, and `Counts` the streak to the
sessions it stands for.  The mapping agrees because the rows are in the order of
their sessions (`RowOrder`) and the one in force is the last to become
effective.

*Sums and recursion.*  The induction theorems of the library take the statement
as an operator, which the provers cannot instantiate, and the value of a
recursive function at n is not known before the function is known to exist.
Both are met the same way here.  A bounded set of numbers has a greatest
element (`Greatest`, from the well-founded order of finite sets), so that a set
that has 0, and k + 1 with every k below N, has all of 0..N (`UpTo`); the set
may be that of the n up to which a function with the right equations exists.
`SumIs` obtains in this way what a sum over a finite set is; from it `SumRemove`
(take one element out), `SumNat` and `SumNegated` follow, and nothing else about
sums is used.

*Research.*  Assumptions: `ResearchAssumption` (windows and horizons are
positive) and `SeriesAssumption` (settlements are whole numbers, contracts of
the curves have them).  The series are functions of the records, so that the
invariant of `MainContract` needs only the order of the days (`SeriesInv`).
That a roll adds no jump: two neighbouring points have the same later rolls or
differ by the roll between them, whose gap `SumRemove` takes out of the sum.
The return index is chained in the order of the sessions, and from one price to
the next it multiplies by their quotient (`Grew`), so that over a stretch on
one contract everything between the first and the last price cancels
(`GrownOver`, an induction over the length of the stretch).  A stretch goes on
only over an exchange night, which is a claim about calendar sessions:
`OnCalendar` is a hypothesis of `ReturnIndexIsChained` and of no other theorem
about the series.  A label's window is counted in sessions
(`WindowIs`, `WindowTraded`), and the label is the quotient of its last and
first price on one contract (`StoredLabel`, `PlainLabel`), whether the index
comes from the calendar or from plain prices.  The gap between partitions
exceeds the embargo and the plan's horizon by one (`GapExceeds`), which is what
a label that starts a day late needs (`NothingPurged`); splits start at
multiples of the test window and so test different days (`TestsApart`).

*MarketStore.*  Assumption: `StoreAssumption` (dates are 1..n and published in
order).  The invariant adds to the properties what the types cannot say: the
highest revision of a date is the number of its revisions (`Counted`), so a new
one is numbered past all others even after a failed refresh; a running refresh
works on published dates under the youngest batch (`Working`), its rows are not
committed, and a correction among them is younger than the refresh (`Staging`);
the cutoffs of a rebuild are instants of committed rows (`Building`).
`HistoryKept` then has one case of substance, the commit: a row it brings into
an information set older than the refresh is a first revision, and a first
revision never supersedes another.  That a vintage contains a row as young as
itself needs a greatest revision among the rows of one instant (`Greatest`).
Readers need no part of this: what they deliver is what they validated in the
snapshot they hold (`Validated`).  `RebuildComplete` and
`RefreshReturnsFetched` are about what a refresh has done so far.  While it
rebuilds, every instant of a committed row has its vintage or is still to be
built, and vintages of one instant are numbered in the order of what they were
built from (`Rebuilding`), so that the one a reader finds is the last
(`VisibleVintageIsLast`).  Of every date it has staged, the latest revision has
the content it fetched and is its own or committed (`Fetching`, `Delivering`),
and stays so because the lock keeps other refreshes out.  Assumption here:
`VintageAssumption` (no vintage is the value "none").

*AnalysisRun.*  Assumption: `RunAssumption`.  The types alone are not
inductive: a caller that saves must hold an identity, one that commits a row
(`Holding`).  The safety invariant `Inv` splits the life of a call in two.
While it computes, its id is its own: no run and no other call has it
(`FreshId`).  From its first commit on it holds the id of the stored run of its
identity (`HeldRun`), and what it is about to answer is that run's narrative or
none (`Phase`).  Between `WriteSave` and `CommitSave` the staged row is still
the right one (`StagedRow`), because the writer slot keeps other commits out.
`CommitShape` then says that a commit either stores a new row under a fresh id
or gives back the stored one; the refinement and the four invariants follow.
The slots have an invariant of their own: free slots, awaited threads and
orphans add up to `NarrativeSlots`.

*Invalidation.*  Assumptions: `InvalidationAssumption` and `RowAssumption` (the
calendar, the rule, and that no row is the value "none").  The invariant says
that of any rows one is the newest (`Ranked`) and that every row is of a session from
the origin on (`Sound`).  A streak is
witnessed by induction on the steps: a row that continues another one adds its
session to the sessions that witness the other.  The converse is where the
order of `as_of` matters: only if no analysis lags (`~Lagging`), so that rows
in the order of `as_of` are in the order of their sessions (`Timely`), and only
if weekday distance is session distance (`TradingDays = Weekdays`), does every
streak count all hits that precede it (`Counted`).  The run `late_observation`
shows that the first hypothesis is needed.

*Outbox.*  `NothingStranded` needs that what a relay counts as sent was
accepted; `ProcessedOnce` that the counter is positive exactly for seen events.

*Shadow.*  Assumptions: `NoneIsNoNumber`, `ScoringAssumption` (an accepted
configuration, with a positive least coverage) and `ShadowAssumption` (sessions
and instants are whole numbers, the contexts are `MarketContexts`, the table
`Freshness` has every age they lead to).  The loop
needs only that a call in progress passed the watermark and the faults
(`Running`) and that what ended is accounted for up to the call before
(`Accounted`); each way a call can end is one lemma about these.  That a stale
fault never passes is arithmetic: a settlement three days early is of an earlier
day (`StaleIsNotReady`).  The other three theorems are about `Analyze` and hold
context by context.  A metric is stamped with the last of at most five instants
(`StampIsLast`), and what its formula reads is among them (`ReadIsStamped`).  A
result is actionable only if there is no gate, no blocking issue and no reason
(`ActionableIsUngated`), and each of these absences says something of the
context (`UngatedIsSafe`, `UnblockedIsFresh`, `UnrefusedIsStrong`).  These
comparisons mean something only between numbers: `ScoresAreWhole` follows every
score from the readings through the weighted sums to the analysis.

For the mirror, `Reflected` relates the metrics of a context and of its image:
signed values and all factor scores are opposite, the rest is equal
(`ComputeMirrored`; RSI is the exception, 100 less it).  Each engine then is a
lemma of its own.  Weighted means of opposite scores are opposite
(`FactorMirrored`, `DirectionMirrored`, by `SumNegated` and because quotients
are cut towards zero); quality, risk, freshness and agreement do not see a
direction (`QualityMirrored`, `RiskMirrored`, `ConfidenceMirrored`); labels and
conditions are exchanged one for one, so that there are as many
(`RegimeMirrored`, `ConditionsMirrored`); entry, fit and action exchange the
sides (`EntryMirrored`, `FitMirrored`, `ActionMirrored`).  The contexts need not
contain their images.

*MarketGateway.*  Assumption: `GatewayAssumption` (the limits and bounds are
natural numbers).  The invariant speaks of one request at a time (`Sound`), so
that a step of one leaves the others alone.  Its session part says that the
numbers of requests and lines are of calls already made (`Numbered`); a new call
has a number that no earlier line can carry, so a line with that number answers
the current question (`Current`), however late or repeated the others are.  Its
log part says how far the calls have come (`Progress`): every call before the
current one has its chunks, in the attempt that counts (`Satisfied`).  A source
is open exactly while its request may still use it.

The limiter has an invariant of its own (`LimiterInv`).  The list of a client
holds the instants of its accepted requests of the last window, one entry each:
some injective map takes the entries to those requests (`Counted`), so that its
length is their number.  Only the present window can be fuller than before, and
a request is refused exactly when the list is full.  The entries that stay
after the old ones are dropped are given by `Kept`, a function, because
`SelectSeq` has no definition the provers can expand.

Only model-checked: liveness (`CallsEnd`, `AtLeastOnce`, `RequestsEnd`), which
is out of the prover's reach.  Every invariant and every action property of a
passing run is the statement of a theorem.

## 5. Findings

| Run | What happens |
|---|---|
| `emergency_same_session` | an emergency roll decided on the close of day D is effective on D; DESIGN.md says the next trading day at the earliest |
| `series_of_a_reverted_recipe` | a calendar or policy that goes back to an earlier value makes no new vintage, and the refresh answers with the series of the value in between |
| `observation_lost` | an analysis whose observation failed is answered from the cache afterwards and never observed |
| `late_observation` | rows are ordered by the as_of of the observing analysis: an analysis made before its session was ingested hides the rows recorded for that session, and two consecutive hits stay a warning |

A correction is stamped while it is staged, so that an instant between stamp
and commit is read without it first and with it later; no property excludes
that.  `HistoryKept` is what does hold: once no refresh that started before an
instant is still to commit, what the instant sees is neither taken away nor
replaced.  It may still grow: a first revision is stamped at its publication,
however late it arrives.

Met while modelling, without a run of their own: the two faults under which the
shadow loop may record a candidate (section 2, `Shadow`); retries of a closed
session (`MarketGateway`); `volatility_percentile` is reported as usable from
22 prices on, where `docs/DESIGN.md` line 183 asks for a reference window that
is long enough; plain-price labels without a calendar (`Research`).
`ScoringConfig` accepts a least factor weight of 0, with which
`DirectionEngine.assess` divides by zero once no factor has a score
(`scoring/direction_engine.py` lines 40 and 49): the proofs need a positive one,
which every configuration in the repository has.

## 6. Not modelled

Numbers: statistics over windows, normalisation and percentiles are floating
point; the modules take their results as given.  Texts of narratives, reasons
and evidence, serialisation and hashing (a hash is the value it identifies).
Field mapping of the vendors and the HTTP client of the second provider.  The
schema's migrations.  SQLite itself: one writer, snapshot reads and atomic
commits are taken as given.  Command line ingestion without the refresh lock.
Sharing of feature snapshots between code versions.  Purging without a cutoff
and evaluation sums.  The calendar store, whose only writer never writes a
second revision: a calendar is a set of days.  The server that is killed while
a child runs: the child has a session of its own and ends when it reads the end
of its input, which is up to that program.  The components marked
`not_modelled` in `PROJECT.json`.

## 7. Plan

Order: what can corrupt stored history first, then what answers depend on, then
the edges.

1. Done: `MainContract` with its series and labels, `MarketStore`,
   `AnalysisRun` with `AnalysisLedger`, `Invalidation`, `Outbox`, `Shadow` with
   the engines of an analysis, `MarketGateway` with the transport, and the
   proofs of section 4.
2. `AnalysisPipeline`, composing `AnalysisRun`, `Outbox` and `Invalidation`
   over one database: from a committed run to a consumed event and a recorded
   observation, with an abstract end-to-end promise.
3. The context builder as the step from `MarketStore` to `Features`: ages and
   instants of a context derived from what is visible as of t.
4. Proofs: the modules of steps 2 and 3 as they come, with the theorems on
   `AnalysisRun`, `Outbox` and `MarketStore` carried over by refinement.
