# TraWalp in TLA+

TraWalp screens US equities, backtests trading rules and keeps a *forward Shadow*: an append-only journal in which a frozen strategy
("champion F") is run one official exchange session at a time, without money and without hindsight. This directory holds TLA+
specifications of the parts of the program whose correctness depends on order, interruption and time, the TLC configurations
that check them on small instances, and TLAPS proofs of what matters most. Paths below are relative to `src/src/trading_system/`
unless they start with `docs/` or `tests/`, which are under `src/`.

## 1. Inventory

| Part | State it keeps | Operations | Hard because of | What makes it correct |
|---|---|---|---|---|
| **Shadow journal** `shadow/journal.py`, `shadow/state.py` | SQLite table of hash-chained events; everything else is rebuilt from it | `initialize`, `append`, `verify`; reducer of six economic events | any sequence of events may be found in the file; verification is the only guard | a verified journal is a contiguous run of official sessions and a conserved ledger with one position or one intent |
| **Shadow runner** `shadow/runner.py`, `shadow/execution.py` | none between invocations; a write transaction while it runs | `shadow-f-init`, `shadow-f-run [--session]`, `shadow-f-status`, `shadow-f-verify` | several processes, a clock read before the lock, crashes, failed preflights, code edited between runs | one session per commit, all of it or nothing; what it appends always verifies; never backfills; a failure never wedges it |
| **Shadow inputs** `shadow/inputs.py`, `readiness.py`, `qualification.py`, `contracts.py` | a read-only market snapshot for one session | snapshot, readiness, fingerprints, drift | a sync may run at the same time | one session sees one snapshot; drift refuses the run |
| **Massive request budget** `data/massive_rate_limit.py`, `massive_reference.py` | a user-wide state file, marker byte and lock file | `transmit`, `recover_clock_anomaly`, bounded retries | processes, death in flight, clock steps, reboots | at most five requests in any rolling minute |
| **SEC change sync** `data/sync.py`, `database.py`, `sec_client.py`, `sec_force.py` | a date cursor; per company its facts, the accessions noted and marks of missing resources | full, incremental and partial runs; discovery from daily indexes with overlap; one transaction per company; the cursor | runs that overlap without a lock, failing companies, missing resources, death between companies and cursor | no filing falls behind the cursor unread; a noted filing is held or asked for again |
| **Daily history** `data/sync.py`, `data/qualification.py` | daily bars; per symbol one range, and whether it is proven complete | synchronization of a range, full or incremental, in batches; repair of a block | failing and invalid answers, overlapping commands, one range for several gaps | a range proven complete is stored; what was repaired is usable |
| **Security reference** `data/security_reference.py` | a staged and a promoted snapshot | paged download, promotion | failing pages | readers see a whole snapshot |
| **Position manager** `backtest/position_manager.py` | stops, target, levels sold, high-water marks of one position | decisions at open, within the bar and at the close; updates after a bar | several exits in one bar, gaps, four kinds of stops | stops fixed before the bar win; stops only rise; fills were possible |
| **Backtest engine** `backtest/engine.py` | positions, orders, last exits, legs | daily loop: opens, orders, ranges, closes, orders for the next session, final liquidation | missing bars, several legs in one bar, orders that compete for places | limits hold, legs add up, cooldowns and maxima are kept, it ends flat |
| **Pairs daily fixpoint** `backtest/pairs_stat_arb_v1_daily_*.py`, `..._data.py`, `..._selection.py`, `..._research.py` | a certificate of what the provider lacks, manifests with their trace | rounds of discovery, audit, repair, recheck; check of a saved trace | exclusion changes the selection; failing requests; overlapping preflights and synchronizations; a manifest written after its recheck | an exclusion is true of the provider; an accepted manifest is complete; what a success says of its inputs lasts; it ends |
| **Intraday data** `data/sync.py`, `data/intraday_remediation.py` | bars; observations of what the provider lacked | synchronization by windows, full or incremental; remediation of required sessions and warmups | failing windows, late answers, several processes | no silent hole; absent means asked for and not delivered |

The first two interact closely: a run opens one connection, takes SQLite's writer lock (`BEGIN IMMEDIATE`), verifies the whole
journal, appends the events of one session and verifies the whole journal again before `COMMIT`. The runner calls the backtest engine
and the position manager for prices, sizes and exits, and the calendar (`data/market_sessions.py`, backed by the
`exchange_calendars` package) for which days are sessions and when they close. Market data, rankings and reference data reach the
Shadow only through the read-only snapshot.

Not modelled at all, and why: ranking, scoring, fundamentals and indicators (`strategy/`, `fundamentals/`, `technical/`) are
numeric formulas without state; research studies and reports (`backtest/*_research.py`, `validation.py`, `diagnostics.py`,
`report.py`, ...) read data and write files; `cli.py`, `config.py`, `models/`, `ai/` and the provider clients are dispatch, record types
and I/O.

## 2. Modules

```
ShadowCalendar ── ShadowState ─┬─ ShadowJournal ─┬─ ShadowVerifier ── MCShadowVerifier
                               └─ ShadowSession ─┤        └── ShadowVerifier_proofs (with ShadowCalendar_proofs)
                                      │          └─ ShadowRunner ─┬─ MCShadowRunner
                                      └─ ShadowLedger ◄─ refines ─┘  ├─ ShadowOperations ── MCShadowOperations
                                                                     └─ ShadowRunner_proofs (with ShadowCalendar_proofs)

MassiveRateLimit ─┬─ MCMassiveRateLimit          SecChangeSync ─┬─ MCSecChangeSync
                  └─ MassiveRateLimit_proofs                    └─ SecChangeSync_proofs

PositionManager ── DailyBacktest ─┬─ MCDailyBacktest         IntradayData ─┬─ MCIntradayData
                                  └─ DailyBacktest_proofs                  └─ IntradayData_proofs
DailyHistory ── DailyFixpoint ─┬─ MCDailyFixpoint
                               └─ DailyFixpoint_proofs
```

**ShadowCalendar** is the exchange calendar. Days are numbers, `Official` the sessions, `Close[s]` the instant a session closes. `Clock` is
the set of instants a process may read; nothing orders two readings, so clocks may stand still or run backwards.
`Consecutive(a, b)` is the code's `trading_sessions_between(a, b) == [a, b]`, `NextSession` the ten-day search for the next session.
`CalendarAssumption` asks only that closes are ordered and that every clock reading has a last closed session.

**ShadowState** is the ledger and the reducer `reduce_transition` of `shadow/state.py`: one operator per kind of event, and
`ValidState` for `validate_state`. Amounts are integers, so the code's tolerances (1e-8, 1e-10) become equalities. A digest is the value it
digests. `last_exits` is left out: the reducer copies it, and with the champion's re-entry cooldown of zero it decides nothing.

**ShadowJournal** is `Journal._verify` as a fold: a record `Verification` (the loop's locals), one `...Accepted` operator per branch,
`Fold` for what the branch assigns. Sequence numbers, hash links, triggers and canonical encodings become the order of the fold.

**ShadowVerifier** is every journal the verifier accepts: from genesis, any event out of `Offers(v)` that it accepts. `book` is a history
variable, the ledger at the last commit.

**ShadowSession** says what one session may do to a ledger (`Trades`, `Ages`), and **ShadowLedger** is the abstract promise: after an
inception, sessions are added one at a time, in order, each in one step. Neither has events, processes or files.

**ShadowRunner** is processes running `shadow-f-init` and `shadow-f-run` on one journal file.

| Variable | Stands for |
|---|---|
| `file` | the journal file: absent, created but empty, or with schema and genesis |
| `journal` | what the committed events verify to (the table itself would only be folded again) |
| `disk` | the code, configuration and runtime that `fingerprints` reads |
| `lock` | the process inside a write transaction |
| `txn` | that transaction: session, in-memory ledger of `ChampionSession`, what the events appended so far verify to, the screen |
| `proc[p]` | where an invocation is, the clock reading it took, the code it has loaded |

Actions follow the code in order: `RunBegin` reads the clock *before* the lock; `RunLock`; `RunRefused`/`RunAdmitted` verify, check drift, select
the session and apply the refusals; `PreflightFails` or `PreflightPasses`; then the stages of `ChampionSession.process` (`Age`, `Open`, `Entry`,
`Bar`, `ScreenEvaluated`, `CloseBar`, `DecideNoTrade`/`DecideIntent`), `Seal` and `Commit`. `Crash` may happen at any stage and rolls back; so
does every exception. Engine prices, fills and rankings are chosen freely, so what holds, holds for every market. The runner's ledger
(`t.state`) is computed as the engine computes it, and the event is judged by the verifier (`t.check`) as the journal would: whether the two
agree is a property, not an assumption.

**ShadowOperations** adds the operator: late runs started again and again, and at most `MaxMishaps` things going wrong.

**MassiveRateLimit** is the request budget of `data/massive_rate_limit.py`, which shares nothing with the Shadow.

| Variable | Stands for |
|---|---|
| `disk` | the state file (`timestamps`, `last_clock`, `in_flight`), whether it exists, and the marker byte of the lock file |
| `lock` | the owner of the file lock, held from before the file is read until after the request |
| `proc[c]` | where a caller of `transmit` or `recover_clock_anomaly` is, its state in memory and the readings it compares with |
| `clock` | what `time.time()` and `time.monotonic()` would return |
| `real` | true time, which no process reads |
| `requests` | history: every reservation that reached the disk, from then to the end of its transport or of its owner |

`Load`, `Adopt`, `Look`, `Reserve`, `Sent`, `Complete` are `transmit` cut wherever a clock is read or the disk written; `OpenRecovery` and `Settle` are the
recovery; `Anomaly` is every clock check that raises; `SaveFails` every write that does, before or after the file was replaced. The environment
may kill a caller at any step, set the wall clock, put the machine to sleep (monotonic time stands still), boot it (monotonic time starts
at zero, everybody is gone) and delete the state file. A reservation counts as a request even if it was never sent, which only makes
the property stronger. A file deleted after its first write failed to mark the lock file would start a fresh budget; no request was
sent in that case, and `Delete` therefore takes marked files only. The model's ticks are exact: that a computer's clocks run
a little fast or slow is not modelled (half a second in sixty is the code's margin). The four attempts of `_get` are separate calls, a later one with a
deadline.

**SecChangeSync** is how fundamentals follow the filings at the SEC. A filing is a company and its day.

| Variable | Stands for |
|---|---|
| `filed`, `listed`, `today` | the SEC and the calendar: what was filed when, which days' indexes are published |
| `db` | the cursor, and per company the accessions noted, the filings in the facts, and the marks for missing resources |
| `run[p]` | a run of `_sync_sec`: what it read of the database when it started, what the indexes named, what is left to do, the answer in hand |
| `floor`, `passed` | history: since when the cursor answers for filings, and which companies a partial run moved it past |

`Begin` reads accessions and marks once, as the code does; `Discover` reads the indexes and chooses companies; `Fetch` and `Commit` are a company's requests and
its transaction, apart, so that another run can commit in between with values computed from older reads; `Reject` is a `SecCompanySyncError`; `Finish` moves the cursor
or not; `Abort` is a death or any other exception. Two properties of the code came out of this. A partial run (`--symbols`) moves the cursor for everybody: companies it did not
cover are exempt (`passed`) until they are refreshed. And an overlap of seven days is enough only because runs are short: a run that fetched before a filing can commit after
another has noted the filing and marked the company, and its commit clears the mark. With runs of at most `RunDays` the
filing stays in every window as long as `2 * RunDays + Delay <= Overlap`, which is the assumption.

**PositionManager** is `backtest/position_manager.py` as operators over a position and the rules in force: `EvaluateOpen`, `EvaluateIntrabar`, `EvaluateClose`, and the updates of
stops after a bar. Prices are ticks; a percentage of a price is a number of ticks.

**DailyBacktest** is the daily loop around it. Its phases follow the numbered comments of the engine: 1 the open of each position (`AtOpen`), 2 the orders of the day before
(`Buy`, `Skip`), 3 the range of the bar (`InRange`), 4 the rules of the close (`Screen`, `AtClose`), 5 the final liquidation (`Finish`, `Liquidate`) or 6 the orders for the next
session. For these, `Order` fixes how many places there are, `Consider` takes the candidates one by one, in the order of their scores, and `OrdersDone` ends the session. A bar is revealed as
the loop needs it: any open, any low and high around it, or no bar at all. Sizing and cash are left open: an order that is admitted may be
refused. The entry commission is a fee per share, the value of a position its price times its shares. A session is a day of the cooldown. The score is the order of the ranking, and what
is thought of a held position at the close is a choice (`view`). `Rules` is what the configuration validates. `BacktestAssumption` adds that the slippage is less than the distance at which a stop can be
set at the fill: every initial stop, a trail without an activation profit, and an ATR trail with neither an activation profit nor a number of bars to wait for. Otherwise a position could have a stop above the open
it was bought at, and be stopped at a price its bar never had. The configuration does not check this, but its defaults (5 basis points against 0.6% and more) are far from it.

**IntradayData** is native intraday bars in one timeframe, counted as slots. `BeginSync` is `sync-intraday`, incremental (`EdgeRanges`: before the first stored bar and after the last) or in full;
`BeginRemedy` the remediation of the sessions a report requires. Both leave groups of symbols and intervals that `Fetch` asks for window by window; `Fail` gives up a
group's other windows, `Garbled` is an answer with invalid bars among valid ones; `Record` writes the observation of one symbol after the bars were stored. `Classified` and `ClassifiedWarmup` are how later
runs read the observations.

**DailyHistory** is `_sync_daily_history` of `data/sync.py`, by any number of commands (`Syncers`) at once.

| Variable | Stands for |
|---|---|
| `provider`, `bars` | the daily bars the provider has, and those stored |
| `coverage` | `daily_history_coverage`: per symbol a range of sessions, and whether it is `VERIFIED_COMPLETE` |
| `sync[q]` | a command under way: its range and plan, the coverage it read when it started, whose requests are still to come, have failed or fell short |
| `mishaps`, `syncs` | how many things have gone wrong, and how many ordinary synchronizations there were: both bounded by `MaxEvents` |

`StartSync` reads the coverage and plans, `AnswerBatch` and `FailBatch` are one request, `FinishSync` checks the stored bars and writes the coverage from what `StartSync` read, whatever has become of it.
Sessions are successive days, so that ranges meet when no session lies between them; in the code ranges on both sides of a weekend do not meet, and replace each other even more often.
`data/daily_history.py` only reads the result, for reports.

**DailyFixpoint** is the qualification of daily history for the pairs research. `Now` is a discovery: which symbols are excluded, failed, and which inputs of the selection are
missing. `Discover` is one round of `iterate` with every reason to end; `Probe`, `Repair`, `FinishRepair`, `Certify` are `audit_and_repair` cut where it talks to the provider or writes: each block of successive missing sessions is
a synchronization of its own, through the steps of `DailyHistory`. `Requalify` and `Finalize` are the rest of `prepare_fixpoint`: every
preflight comes to a verdict (`Finish`), a success only if the inputs are found unchanged. `Report` is the rest of `run_pairs_stat_arb_v1`, which writes the manifest after the summary and the tables (`backtest/pairs_stat_arb_v1_research.py:461-541`). No lock or transaction is held between the recheck and that
write: bars may be stored and the certificate replaced by another preflight in between, so a success is true of the database at the recheck (`SuccessRechecked`) and not necessarily when it is written. With one preflight that discovers, repairs and has yet to certify, and another that discovers after the
repairs and before that certificate, the model reaches the writing of a manifest whose state is no longer that of the database. What is left of it in spite of the gap is `SuccessStands`; and a validation compares the whole state again (`Accepts`, `VerifiedIsComplete`). A preflight writes under a name of its own (`research.py:443-444`); of each process the last manifest that is a success or wants a review is kept. `Accepts` is `verify_trace`; `OrdinarySync` is `sync-daily-history` beside it. A session of a symbol
is `returned`, `empty`, `failed`, `unstored` (returned, but not there at the recheck) or `uncovered` (stored, but outside the range of the symbol). There is one
SIC2 group, ranked by number, and one request per symbol; identities are never in doubt, and the time of an observation is left out. `Members` leaves out the price and the least ADV
a member needs, a discovery is one snapshot where `prepare_pairs_data` reads in several steps, and `Probe` fails per symbol where the code asks block by block. Since the provider always has the same bars, a stored `empty` answer never goes out of date;
in the code it is used again whatever the provider has come to have since.

## 3. Runs

| Run | Configuration | Checks | Shows |
|---|---|---|---|
| `shadow_verifier` | `ShadowVerifier.cfg` | `TypeOK`, `CommittedContiguous`, `AtRestIsBook`, `RestingBook`, `SessionsTrade` | every accepted journal is a legal history of the ledger, whatever was offered |
| `shadow_runner` | `ShadowRunner.cfg` | `TypeOK`, `AppendsVerify`, `ForwardOnly`, `ImplementsLedger` | runner, engine, reducer and verifier agree; the journal implements `ShadowLedger` |
| `shadow_runner_code` | `ShadowRunnerCode.cfg` | `RunsInceptionCode` (violated) | finding 1 |
| `shadow_operations` | `ShadowOperations.cfg` | `InvocationsEnd`, `CatchesUp` | every invocation ends, and every due session is committed in the end |
| `massive_rate_limit` | `MassiveRateLimit.cfg` | `TypeOK`, `RollingBudget`, `SavedStateLoads`, `SleepsOneWindow`, `OwnersRelease` | the budget is kept in true time, the file stays usable, waits are bounded, and whoever holds the lock gives it back, through all faults |
| `sec_change_sync` | `SecChangeSync.cfg` | `TypeOK`, `CursorLeavesNothing`, `NotedMeansHeld`, `FilingsArrive` | no filing is left behind or noted without its facts, and each one arrives |
| `daily_backtest` | `DailyBacktest.cfg` | `TypeOK`, `FillsInRange`, `StopsFirst`, `StopsNeverFall`, `LegsAddUp`, `OrdersFit`, `HardHoldKept`, `CooldownKept`, `EndsFlat` | manager and loop together, for every market of small prices |
| `intraday_data` | `IntradayData.cfg` | `TypeOK`, `AbsenceIsReal`, `ResumesWithoutHole`, `Settles` | absence is true of the provider, failures leave no hole, remediation settles |
| `intraday_hole` | `IntradayDataHole.cfg` | `NoSilentHole` (violated) | finding 2 |
| `intraday_warmup` | `IntradayDataWarmup.cfg` | `WarmupAbsenceIsReal` (violated) | finding 3 |
| `daily_fixpoint` | `DailyFixpoint.cfg` | `TypeOK`, `QuarantineHonest`, `VerifiedIsComplete`, `CoverageHonest`, `SuccessStands`, `SuccessRechecked`, `Converges` | exclusions are honest, accepted manifests complete, proven ranges stored, successes true at the recheck and lasting in their inputs, and preflights come to a verdict |
| `daily_fixpoint_repair` | `DailyFixpointRepair.cfg` | `RepairedIsUsable` (violated) | finding 4 |

*Bounds.* The verifier's calendar has days 0..4 with day 2 closed, two symbols, capital 2, inceptions before the first or the second
session: long enough for an intent, its execution over a closed day, holding, management and exit, and for a second entry. Offers are
right and wrong: other sessions, other symbols, a coin too much, wrong phases, holdings, entry sessions, reasons and fees. The runner's
calendar has days 0..6 with day 2 closed; `Clock` has a reading exactly at a close, between two closes, and at the end, in any
order; requests name any of five days or none, before, at, after and off the calendar; two processes and two code versions; a
fill that spends the cash partly and one that exceeds it; exits with gain and with loss; `MaxHold = 3`, so that a position is aged, and sold by the max
hold, within the calendar. The last official day has no successor, which exercises the end of the calendar. `shadow_operations` has one code version and
a shorter hold limit, and two mishaps. Symmetry (processes, code versions) is used where all properties are safety properties.

The request budget has two slots instead of five, slots that expire after three ticks instead of 60.5 seconds, and clocks that may
disagree by one tick instead of half a second. Two callers are configured with limits one and two. The wall clock is set back by one, which
the tolerance hides as long as the clock does not run backwards between two readings, or forward by two, which every comparison notices. Calls
begin up to time 1, so that a third request of the same window is tried right after two others, after a death, and after a recovery; any two faults may be
combined. From `StartBy` on, time passes only while the owner of the lock sleeps, so that the horizon of 20 cuts no sleep off. The order of limits, ages and faults matters,
not the number of slots; the proofs cover every number.

The SEC model follows one company (companies only meet in the cursor, and the failure of any other is `RejectOther`) through filings on two days, with two
processes whose runs may last over a midnight, the shortest overlap the assumption allows for them, a mark that expires after one day, databases that hold the first filing or not, with or
without bookkeeping, and two mishaps: failures, deaths, missing resources, full or partial runs and runs beside another one. Its last day is late enough for every retry.

The backtest has four sessions, two symbols in one sector, prices of one to five ticks and three sets of rules: a fixed stop and target with a hard maximum and two places; all
trailing stops, two partial levels, a cooldown and one place in the sector; and the rules of the close on strict data with one place in all. Every path of the loop is taken within 41 steps. Four sessions let a symbol be bought, sold
and bought again after the cooldown; four shares let two partial levels leave a remainder.

The intraday model has three sessions of two bars, windows of one session and an overlap of one bar; the provider lacks a whole session or single bars; the report requires sessions of both
symbols, with a warmup before them. All synchronizations ask for one interval: several that do not touch would leave a gap between them that no edge range covers. One request, or one process, fails; the two violation runs need one symbol. The fixpoint has three symbols of which two are selected, four sessions of history, at most
two rounds and one exclusion, and four worlds: a gap that hides another symbol's lack, a lack that makes room for a symbol with a lack of its own, two holes nobody can fill with a gap besides, and two gaps in one
symbol. Two preflights overlap, and one thing happens besides (`MaxEvents`): a failing probe, request or repair, an invalid bar, a death, or an ordinary synchronization of an old session by a third command. Requests take
two symbols, so that three symbols are two batches. The violation run has one preflight and no event.

`CHECK_DEADLOCK FALSE` is set for the verifier runs, where a journal may stop growing at the end of the calendar, for the request
budget and the SEC model, where time stands still at its bound, for the backtest, which ends, and for the intraday and fixpoint runs, where nothing
may be left to remedy.

*Fairness.* `FairSpec` gives each invocation weak fairness of its next step: a process that is not killed keeps running, and nothing is required
to start, die or deploy. The wait for the lock has SQLite's timeout, which is the enabled step of a waiting run. `OpsSpec` assumes an operator who
keeps starting runs on a day by which all sessions of the clock have closed (the repository has no scheduler; strong fairness because another run may be in the way again and
again), and strong fairness of an invocation's ordinary steps, since the lock is released again and again; failures are bounded by `MaxMishaps`. The `FairSpec` of the request budget has weak fairness of time and of the
steps of the caller that owns the lock: it is a running process, and its request ends because the transport has timeouts. A caller that
waits for the lock polls it every tenth of a second and may lose every time, so nothing is claimed of it.
`SecChangeSync` assumes that days pass, that indexes appear, that the nightly command is started whenever a process is free, and that a run which has begun goes on; `IntradayData` and
`DailyFixpoint` that started work goes on and that the command which may ask the provider is started again and again, however often others are (strong fairness: the others make it impossible in
between). Failures are bounded, so that a run without one comes in the end. A backtest is one loop: weak fairness of its next step.

Each property has a mutant, an operator beside the one it replaces (for instance `LaterSession` for `Consecutive`, `CommitDeferring` for
`CommitAccepted`, `FlatCommission` for `Commission`, `RunWaits` for `RunTurnedAway`): with it TLC finds the property violated.

### Findings

1. *Drift is checked on the files, not on the loaded code.* `fingerprints` reads the source files when the lock is held; a process that imported the code before
   the files of the inception were deployed passes the check and processes a session.
2. *A hole before the high-water mark.* The comment at `data/sync.py:1747-1749` says that giving up a group after a failed window lets the next incremental run resume "without a silent
   hole". That is true of what lies after the last stored bar. When an earlier start is asked for, the interval before the first stored bar is fetched from its beginning; if its second window fails, the
   first stored bar has already moved to the start, and no later incremental run asks for what is missing between. `--full-window` and the remediation do.
   `ResumesWithoutHole` shows that a single start has no such hole.
3. *Warmup evidence is not bound to a warmup.* The observation of a warmup does not record how many bars were asked for, so a check of a short one confirms the absence
   of a longer one (`data/intraday_remediation.py:615-633`), although the provider may have those bars.
4. *Repairs of separate gaps spoil each other.* Each block of missing sessions is synchronized on its own, and a symbol has one covered range: the second repair replaces that of the first
(`data/sync.py:409-441`). The recheck (`backtest/pairs_stat_arb_v1_daily_qualification_audit.py:302-310`) finds the first block uncovered and marks the repair as failed. Although every bar is stored, the symbol fails this
preflight and every later one, since stored sessions are not audited again and the mark is merged into later proofs. `Converges` exempts exactly this case.

Some facts are worth knowing although they are no findings. With a non-zero commission every exit would fail verification: the reducer
subtracts entry and exit commission from cash (`trade.fees`, `shadow/state.py:141`), the engine only the exit's (`backtest/engine.py:2726`);
`validate_champion_config` pins the commission to zero, and the mutant `FlatCommission` shows what depends on that. And a death between the creation of the
journal file and its genesis leaves a file that no command will ever use: the code keeps it on purpose, as evidence. A `POSITION_MANAGED` event may change `entry_date`, which `shadow/state.py:147-154` does not
pin; by `RestingBook` the count of sessions agrees all the same, so that an entry can only move across closed days, and the runner never writes such an event. A partial SEC run moves the cursor for all companies.
A transient request failure of a fixpoint audit is kept in the certificate and fails every later preflight before its first audit, whatever bars arrive, until the audit command is run by hand; `Converges` therefore
speaks of preflights without failures. A remediation stores bars of single sessions, which the next incremental synchronization takes for its high-water mark: `ResumesWithoutHole` exempts its symbols (`touched`).
At a close every position that the one best candidate beats is sold, although the candidate can replace only one of them.

## 4. Proofs

`ShadowCalendar_proofs` has the facts on the calendar: successors are unique, and from one session to the next the number of sessions since an
earlier day grows by exactly one (`CountToNext`), which needs only that the calendar is a finite set of days.

`ShadowVerifier_proofs` proves, for every calendar, symbol set, capital and writer, that `Spec` implies `[]TypeOK`, `[]CommittedContiguous`, `[]AtRestIsBook`,
`[]RestingBook` and `SessionsTrade`. None of these is inductive alone. The invariant `SessionInv` adds what holds *inside* a session:
which of the ways of `Trades` the session can still end in, given the events accepted so far (`Progress`), that the intent found at the start is
still there or was settled in this session, and that at rest the holding counter is the number of sessions. `TransitionProgress` shows that one
accepted event keeps it, `CommitKeepsInv` that a commit turns it into the resting book. The assumptions used are `CalendarAssumption`,
`StateAssumption`, `JournalAssumption` and `HoldAssumption`, all evaluated by TLC in the runs.

`MassiveRateLimit_proofs` proves, for every number of slots, expiry, tolerance, set of callers, clock steps and faults, that `Spec` implies
`[]RollingBudget` (`BudgetHolds`), `[]SavedStateLoads` (`StateLoads`) and `[]TypeOK` (`BudgetTypeCorrect`). None is inductive: the file says nothing of
true time. The invariant `BudgetInv` relates the three: a list of slots is *covered* when every recorded reservation that it does not hold
ended at least `Expiry` ago in true time, and every slot it holds has a monotonic age of at most the true time since its reservation ended. Both the file and the memory of
the owner of the lock are covered at every step between load and save, and only the owner is ever between them. That monotonic time never outruns true time is all
that is needed of the clocks (`CoveredPruned`): the tolerance and the wall clock decide how soon a call fails, never whether it
sends too early. Forgetting every slot is sound because the recovery has waited out a whole window with the lock held (`CoveredFresh`). A
state the invariant holds of also has its readings in order, which is `SavedStateLoads`. From that order follows `[]SleepsOneWindow` (`SleepsBounded`): `SleepInv` says what a caller remembers of its sleeps, and `SlotsArePast` that no slot of a well-formed
state lies after the reading that goes with it, so that what is left of the oldest (`DelayIsBounded`) is at most a window. Its argument goes along the whole sequence but is no induction: the last slot out of place would be followed by one in place, and there is a last one
because the natural numbers are well-founded (`Least`). The one assumption is `RateLimitAssumption`, the types of the constants.

`SecChangeSync_proofs` proves, for any companies, processes, overlap, delays and faults with `2 * RunDays + Delay <= Overlap`, that `Spec` implies `[]CursorLeavesNothing` (`NothingLeftBehind`),
`[]NotedMeansHeld` (`NotedIsHeld`) and `[]TypeOK` (`SyncTypeCorrect`). The two properties are about the database, and a run that is under way can spoil both: it will write an answer,
accessions and a cursor that it computed from old reads. The invariant `SyncInv` therefore says of every running process what its next writes are worth. `Reads`: whatever it holds was filed. `Answered`: an answer with facts has every filing
from before the run began. `OldReads`: what it found noted long enough ago is still answered for. `Behind` and `InHand`: every filing before the first index it read was done with then, and one inside its window that it may
pass is stored, marked, still to do, in the answer in hand, or the run has failed and will not move the cursor. The filings at stake are those before `Cutoff`, which are older than anything a run
that is still going on could have missed; this is where the assumption is used: `RunDays` once for the run that notes a filing and once for the run that clears its mark. `SyncInv` is inductive, one lemma per action, and implies the two properties.
The assumptions are `SecAssumption` and `NoneAssumption`, both evaluated in the run.

`DailyFixpoint_proofs` proves, for any symbols, sessions, provider, limits, and number of commands and preflights at once, that `Spec` implies `[]CoverageHonest` (`CoverageIsHonest`), `[]QuarantineHonest` (`QuarantineIsHonest`),
`[]VerifiedIsComplete` (`VerifiedManifests`), `SuccessRechecked` (`SuccessesAreRechecked`), `[]SuccessStands` (`SuccessesStand`) and `[]TypeOK` (`FixpointTypeCorrect`). The coverage is written from a value that may have been
replaced since, so the first is not inductive. `HistoryInv` adds that whatever range a command under way has read was true of the stored bars, and stays so because bars are only added (`CommandGrows`);
`CoverageValueSound` is the arithmetic of two ranges that meet. `PreflightInv` says of every process what its next writes are worth: the answers in hand and the proofs it started from are `Honest` about the provider, so that a certificate written as a whole
over that of another process is honest too (`MergedHonest`). A state that ends in success is `Settled`: everybody not excluded is eligible. `SettledIsResolved` shows that the comparison made by `Finalize` and `verify_trace` is strong enough:
a database in which a discovery comes to a settled state again lacks none of the selection's inputs, because each input belongs to a member of the universe (`RequiredOfUniverse`) and would make it ineligible.
That a written success lasts is carried through the gap by `Stands`, from the discovery to the recheck, the verdict and the manifest: `SuccessIsStanding` establishes it, and it outlasts every step of anybody (`StandsOn`), because bars are only added, and only bars the provider has.
That requirements depend on the bars of the universe alone (`RequirementsLocal`) allows to speak of them by the manifest's own record of its inputs.
The assumptions are `HistoryAssumption`, `FixpointAssumption` and `NoneAssumption`, evaluated in the runs.

`IntradayData_proofs` proves, for any symbols, sessions, windows, overlaps, requirements and processes, that `Spec` implies `[]AbsenceIsReal` (`AbsencesAreReal`). The property looks at observations only, and an
observation was an answer before: `Inv` says of each process that an answer in hand that did not fail lacks nothing of a session that the provider has (`Honest`), which stays true however late it is recorded, since the provider does not change. That an
answer is honest when it comes (`AnswerIsHonest`) rests on the groups (`Sane`): one for a session fits into one window, so that no earlier window of it can have been lost, and what it leaves out before the first gap and after the last is stored
(`SessionGroupIsSane`). Here `PerSession <= Window` is used: the configuration asks for windows of a day at least (`config.py:171`), and a longer session would be asked for in several.
`SyncsResume` is `[]ResumesWithoutHole` for synchronizations that all start at the same bar, with any ends, full or incremental, any number of them at once, and any failures and deaths. The invariant `Resuming` says of the bars of a symbol that no remediation has touched that they are a `Prefix`: nothing
that the provider has from the start on is left out before a stored bar. It says of each process (`Onward`) that before each interval it has still to ask for everything is stored, and that what an incremental run without an error must bring is stored or still asked for.
A process asks for one window after the other and gives up an interval at the first failure, so a window that is stored begins where everything before it is stored (`WindowExtends`); and the edges that a new run computes leave out nothing of its interval (`EdgesResume`). Without the hypothesis `Starts = {start}` the property is false of the code (finding 2):
the interval before the first stored bar is then fetched into a gap. `IntradayTypes` is `[]TypeOK`, with `Typed` for the answer in hand: no interval asked for is empty (`RangesHaveLength`, `WarmupHasLength`). The assumption is `IntradayAssumption`, evaluated in the runs.

`ShadowRunner_proofs` proves, for any processes, calendar, clocks, screens, fills, exits, deaths and deployments, that `Spec` implies `[]AppendsVerify` (`RunnerVerifies`), `[]ForwardOnly` (`NeverBackfills`),
`[]TypeOK` (`RunnerTypes`) and `ImplementsLedger` (`RunnerImplementsLedger`). The journal alone says nothing of a session that is half done, so `RunnerInv` does. `Rest` is the committed journal: nothing is active, the committed
sessions lie after the boundary that the inception's clock fixed, and the ledger is a `Book`, in which a position is younger than the maximum hold, its counter is the number of sessions since its entry, and an intent was signalled in the last session. `Content` is the open
transaction: the ledger of the engine and that of the verifier are one (`t.check.state = t.state`), and `Progress` says, stage by stage, how it may differ from the committed one.
Three arguments carry the proof. *The clock is read before the lock*, and the journal may have moved since: the admitted session is nevertheless the successor of what is committed *now*, since `RunAdmitted` compares under the lock
(`RunAdmittedKeeps`), and its close lies after the inception whatever the clock read (`ClosedLater`). *The engine and the reducer do their sums apart* (`SaleReduces`): they agree because no position has paid a fee, which is an invariant of the champion's zero commission and not of the reducer. *An intent is for this session*
(`IntentIsForNow`): it was signalled in the last committed session, and successors are unique. `HoldingCounts` is the step from "aged by one" to "the number of sessions since the entry", by `CountToNext`. For the
refinement, `JournalStep` is all a step does to the journal, a genesis or one `Processed` session or nothing, and `JournalStepIsLedgerStep` maps it to the step of `ShadowLedger` that `ShadowSession` describes. `ForwardOnly` and `AppendsVerify` are
consequences of `RunnerInv`. The assumptions are `CalendarAssumption`, `StateAssumption`, `JournalAssumption`, `HoldAssumption`, `RunnerAssumption` and `TransactionAssumption`, all evaluated by TLC in the runs. That a finished run leaves the journal verifying for
every later run is part of it; that it finishes (`InvocationsEnd`, `CatchesUp`) is not.

`DailyBacktest_proofs` proves, for any symbols, sectors, rule sets, prices, ATR readings, missing bars and number of sessions, that `Spec` implies every safety property of the run: `[]FillsInRange`, `[]StopsFirst`, `StopsNeverFall`, `[]LegsAddUp`, `[]OrdersFit`,
`[]HardHoldKept`, `CooldownKept` and `[]TypeOK`. The invariant `BacktestInv` was checked by TLC on the run's instance first. Beside the properties it has:

- `StopsInForce`: when the range of a bar is to come, its position is `Facing` it. The stops that count are those of the position, all lie below the open, and no target or partial level that is still unsold does: otherwise the open would have
  sold. From this follows that every price the range can sell at lies in the bar. Once the range is over, what is held was not reached (`Faced`). This is where the assumption about slippage is needed, in `OpenedSound`: a position bought at the open
  faces the range of the same bar without having been evaluated.
- `Control` and `BarsSound`: which positions and which parts of a bar each phase can find.
- `OrdersSound` and `Cooled`: orders and candidates are different symbols, and the cooldown of an ordered symbol was over in the session that ranked it, `Ranked`. From there to the open nothing can sell a symbol that is not held. `SoldNoted`: whatever was sold out has a date,
  except what the last session sells.
- `Holding`: what the close has come to and kept is younger than a hard maximum.

The lemmas on the position manager's operators stand before those on the loop. `ActivateRaises` and `UpdateRaises`: arming and updating only raise stops, through `RaiseOnlyRaises`, whichever of the four kinds is armed, withdrawn or left alone. `OpenSound`, `RangeSound`, `CloseSound`: a decision sells no more than
there is, and only a sale by a level not sold before leaves any; its price is the open, or a level that the range has reached. `Shares` is the integer arithmetic of cost: a part of an amount, rounded down, never exceeds it, so nothing becomes negative over several partial sales. `ExecuteKeeps`, `ChangeKeeps` and
`QuietKeeps` are a sale, a change of one position and a step that touches none; each action is then a short lemma. The engine makes all orders of a day in one loop: a fold over the candidates would need an induction along the sequence, so the model has the steps of that loop instead, and
`AdmittedFits` is one of them. The assumptions are `CostAssumption`, `BacktestAssumption` and `RecordAssumption`, evaluated in the run.

Every safety invariant and action property of the passing runs is the subject of a theorem. Only model-checked are the liveness properties (`InvocationsEnd`, `CatchesUp`,
`OwnersRelease`, `FilingsArrive`, `Settles`, `Converges`, `EndsFlat`), which the prover does not reach.

## 5. Not modelled

Besides the parts section 1 leaves out: of the SEC synchronization the dataset rows, the bootstrap from the legacy cursor, the forced companyfacts refresh and the cached submissions
of a company met for the first time; of the daily history the selection of the universe, the benchmark and changes of the feed; the security reference, whose pages are collected in memory and promoted in one
transaction; of the engine the intraday, first-hour, swing-exit, lifecycle and opening-veto variants of the loop, sizing and cash; of the intraday remediation how requirements are derived
from a report; of the fixpoint identity quarantines and the stand-alone audit command.

## 6. Plan

1. `SecurityReference`, the intraday variants of the loop.
