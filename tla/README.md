# Kraken Knight in TLA+

Models, model-checking runs and machine-checked proofs for the `kraken-knight`
shadow-trading program (Python, `src/src/kraken_knight`). The program decides once a day
from public candles, records the decision and the order it *would* place in an immutable
SQLite ledger, reconciles a Kraken account through read-only calls, replays history through
a backtest with risk gates, and shows all of it on a dashboard. It places no orders, so what
can go wrong is what it records and reports.

Line numbers below and in `PROJECT.json` refer to the repository.

## 1. Inventory

| Component | State it keeps | Operations | What is hard about it |
|---|---|---|---|
| Immutable ledger, `ledger.py` | SQLite file: `user_version`, three tables, triggers | `initialize` (creates, migrates 2 to 3), `append_daily_decision`, `append_order_intent`, `append_reconciliation_snapshot`, `status`, `reconciliation_binding_hashes` | several processes, the write lock and its 5 s timeout, deaths between statements, retries that must find their own row, two truncated hashes that may collide |
| Reconciliation job, `reconcile_job.py` | the host lease (`flock`), one run's reads | `execute_read_only_reconciliation`, `discover_kraken_account_binding` | a check and the append that relies on it are a minute of network calls apart; two clocks |
| Its account reads, `reconcile_job.py:1366-1742` | the answers of some twenty requests | opening reads, history, closing reads, fence, tail, gates | the account moves between any two reads, and time bounds are whole seconds |
| Authenticated client, `kraken_read.py` | per-key lock, last nonce, request budget | `_private_post` and the endpoints over it | threads, wall clocks set back, timeouts with a request still in flight, restarts |
| Backtest risk gates, `backtest.py`, `risk.py` | high-water mark, disarm, cooldown, rolling-loss block, epochs | one turn of `run_backtest`'s loop with `_execute_rebalance` | gates that raise, extend and clear each other; the order of early returns; missing references |
| Historical download, `historical_data.py` | raw archive, state file, dataset, manifest | `download_btc_cad_trades`, `write_normalized_dataset` | deaths between the archive and its state, page boundaries, reruns, nothing that locks the directory |
| Daily decision, `daily_job.py`, `market_data.py` | none of its own; appends to the ledger | `execute_daily_decision`, `validate_batch_freshness` | freshness windows over two clocks, retries on one day, a redeploy between them |
| Strategy, `strategy.py` | none | momentum and trend targets | a pure function |
| Account report, `reconciliation.py` | none | `reconcile_account`: codes, matched hints, inventory and status of one observation | some forty codes that excuse or forbid each other; answers that lack, repeat or contradict a record; identity by ids that need not be unique |
| Dashboard, `dashboard_snapshot.py`, `dashboard/app.py` | a JSON file replaced under its readers | export, load | a read transaction beside writers; stale files |
| Archive import, `kraken_archive_csv.py` | normalized file, manifest | `import_kraken_time_and_sales_csv` | two files replaced in turn, and a source that is opened twice |
| Study, `historical_study.py` | a directory of artifacts with checksums and a manifest | `run_historical_study_from_csv` | inputs of different imports, a run that dies or is not alone in the directory; a holdout that tuning must not read |
| Counterfactual, `historical_counterfactual.py` | its own bundle | `run_historical_counterfactual_from_csv` | the published bundle is read file by file, and may be exchanged meanwhile |
| Metrics, charts, `research_*.py` | none | statistics and SVG text | pure |
| `cli.py`, `config.py`, `provenance.py`, `deploy/systemd` | settings | which calls are made, and when | timers and operators overlap |

How they interact. `cli.py` opens the ledger and calls `initialize` before it appends.
The daily job appends a decision (nothing calls `append_order_intent` yet); the reconciliation job holds the host lease
over its Kraken reads (through the authenticated client, its lock and its budget), reads earlier
bindings from the ledger, and appends one snapshot. The dashboard export reads the ledger in one
read transaction and replaces a file. The import writes a normalized file and its manifest; the study reads
both, replays the clean history through the backtest, which shares no state, and writes a bundle that an operator
publishes; the counterfactual verifies the published bundle against frozen hashes and replays the same bars. The historical
download is the other way to a normalized file.

What makes each correct: the ledger must only grow, never hold two intents of a day and never
tell a caller that another row is its own; an account must never be bound to two wallets and a
CLEAN report must be true of the account; no nonce may be refused and no lock kept; nothing may
be bought while a risk gate is up; a dataset must be the tape, whatever was killed on the way, and a result must rest on
the data that its manifest names. An account's report may call it explained only if it is.
`PROJECT.json` lists the single hazards with their lines, and which property covers each.

## 2. Modules

| Module | Models |
|---|---|
| `AppendOnlyBook` | abstract: what the ledger promises. A set of facts that only grows, without shared keys or dangling references, and acknowledged facts that are in it |
| `Ledger`, `MCLedger` | `ledger.py` statement by statement; implements `AppendOnlyBook` |
| `ReconcileJob`, `MCReconcileJob` | the runs of several processes: lease, early reports, binding continuity, one snapshot |
| `ReconcileCollect` | the read sequence of one run, in its order, against an account that moves |
| `AccountReport` | `reconcile_account`, code by code, as operators on an observation |
| `AccountEvidence` | accounts, the observation that the job makes of one, what can be wrong with it, and the report on it |
| `MCReconciliation` | `ReconcileCollect` and `AccountEvidence` in one run |
| `PrivateRequests` | nonces, lock and budget of one API key |
| `RequestPacer` | the pacer's estimate and sleeps beside Kraken's own counter |
| `MCPrivateRequests` | `PrivateRequests` and `RequestPacer` in one run |
| `RiskGate` | the risk state of `run_backtest` over every path of prices and signals |
| `StudyInputs` | from a tape to daily bars, the clean history, its split and what a replay reads |
| `Research` | import, studies and counterfactual over the files they share |
| `MCRiskGate` | `RiskGate` and `Research` in one run |
| `HistoricalDownload` | the resumable archive and the dataset made of it |
| `DailyDecision` | the daily command: release binding, candles, freshness over two clocks, the decision it appends |
| `Telemetry`, `MCTelemetry` | `DailyDecision` composed with the dashboard's export, which reads the same ledger and replaces a file |
| `*Proofs` | the theorems about the module of that name (`ReconciliationProofs`: about `ReconcileCollect`, `AccountReport` and `AccountEvidence`; `DownloadProofs`: about `HistoricalDownload`; `ResearchProofs`: about `Research`, `StudyInputs` and `RiskGate`; `PrivateRequestsProofs`: also about `RequestPacer`; `DailyDecisionProofs`: also about `Telemetry`) |
| `Numbers` | lemmas that the proofs share: intervals, sums over finite sets, ordered records |

**Ledger.** The database is `version`, `objects` (which schema is present) and `rows`; `writer`
is SQLite's write lock. Each process has a program counter whose stages are the statements that
others can come between: in `initialize` the read of `user_version`, the check of the objects, and
the migration's transaction; in an append the check of the schema on a connection of its own, the
`INSERT OR IGNORE` that takes the lock, then either the commit or the lookup and comparison with
the row it lost to. `Keys` are the primary key and the UNIQUE columns, `Needs` the foreign key.
`ClientKey` is a constant because `client_order_id` keeps 16 of a digest's 64 digits; the two runs
give it the identity and a colliding map. `Crash` may happen anywhere and rolls an open transaction
back; `LockTimeout` is the busy timeout, also of the change to WAL mode with which `initialize` makes a new file. SQLite is the only external part, and is modelled by
what the code relies on: atomic commits, one writer, reads of the last commit.

**ReconcileJob.** `lease` is the flock, `prior` the answer of `reconciliation_binding_hashes`,
`snapshots` the table. `Fail` covers any exception of any request and `Crash` a killed process,
whose lock the kernel drops. A report that is decided before the account is read carries the
host's clock, a complete one Kraken's: `skew` is their difference. The collection is one step
here; `ReconcileCollect` opens it up. `Ledger.status` chooses the latest snapshot of any
account; the model asks for the latest of one, which is the same with one configured account.

**ReconcileCollect.** Every read is one action, in the order of the code, and between any two the
account may take a deposit, a withdrawal, an order, a fill or a cancel, each at a tick of its own.
Several ticks make a second, because the fences are whole seconds and entries are not. The gates of
`reconcile_account` that decide whether anything moved are predicates on what was read. Left out:
queried orders and the fee tier, which no modelled gate reads; a request that fails is
`ReconcileJob`'s `Fail`. The order fence must lie in a later second than the closing fence for CLEAN to rule out
orders: the pacer makes it so, and the property says it.

**AccountReport, AccountEvidence.** `Reconciled` is `reconcile_account` with every code it can add, in the sets in which
the code collects them: `BalanceCodes`, `LiabilityCodes`, `OrderCodes`, `TradeCodes`, `FillCodes`, `FeeCodes`, `HintCodes`,
`OwnershipCodes`, `HeldCodes`, then `Inventory` and `Status`. A record has a copy number, since a tuple may hold
it twice and a set may not; of times and prices only the outcomes of the comparisons are kept. `AccountEvidence` lets orders
be placed, filled and canceled, builds the observation as the job does (`Seen`) and reports on it once (`JudgeAny`), with any
set of hints and at most one harm to an answer, which is incomplete, out of date, repeated, or contradicts another. A hint may have a slip
(a false amount or time), lack ids, or be void: of a submission that no order came of. The client id of a void hint may be on anybody's order,
since nothing keeps client ids unique; `reconcile_account` then takes that order for the legacy program's (`Misleads`, `Credited`), and the
properties say so instead of ruling it out. The order id in a hint is always of an order the legacy program placed. It takes an owner that
a local ledger would know, which the function accepts and the job never passes.

**PrivateRequests.** Clients of one key run the steps of `_private_post`: lock, charge, pace, draw
and check the nonce, send. A request that times out may arrive later or never. A client may have an
injected nonce source, which need not increase. `Restart` clears what a process remembers.

**RequestPacer.** One call of the hook is `PacePrivate` or `PacePublic`, and `WakePrivate` or `WakePublic` after a sleep,
which may last longer than asked. `counter` is Kraken's, which falls with true time and rises when a request arrives: up to
`Delay` later, in any order, or never. The private requests on their way are kept as costs by age (`recent`), the public ones by their
ages: nothing else tells them apart. `leftover` is what an earlier process left in the counter; it does not decay by itself, since
the estimate falls during the time in which it would. A suspended host's monotonic clock stands still.

**RiskGate.** A candle is one turn of the loop. `Inputs` are what it may bring: a signal that is long with some target weight, flat or
unusable, days missing before it (`gap`), which make its signal stale, a reference price or none, and a volume that lets none, one or all lots
trade. A stale signal keeps what it wanted: the loss gate compares it with the holding, as the code does, while a disarmed account passes over staleness.
Precise execution mode only, whole lots, no fees, slippage, reserves or caps (a cap that stops an
order is a volume of none). `Holds` are the early returns in their order.

**StudyInputs, Research.** A file is absent, cut off (`Truncated`) or holds one content, which is also its hash, and every opening of a file is a step of
its own: the import hashes its source and streams it from a second opening, the study loads the bars and hashes the file
after it, the counterfactual reads, hashes and compares the published files one by one. A study looks at its directory
(`CheckOutput`), binds its data to the manifest and the preregistered hash (`Bind`), then writes its artifacts, reads them back for
the checksums (`List`) and writes the manifest last. Each program may die at each step, another study may run, the
operator may extract another version of the archive, discard output, publish a bundle or check out another one. A study writes its files in
place, so its crash may cut off the one it is at. What a replay writes is a function of its bars, so it stands as the clean bars. Its tables are three
groups by what the counterfactual does with them: hashes it has frozen (`metrics`), frozen hashes and reproduced rows (`equity`, with the risk
events), reproduced rows only (`fills`, with the decisions and entries); the listed rest, which it only hashes, is left out. `torn` and `overlapped` are history variables: the code does not claim to
survive a file replaced between two openings or two studies in one directory, and the properties say what holds without and what holds even then: `ManifestVouches` nothing of
studies that overlapped, `CounterfactualIsOfTheSealedStudy` that the frozen data still agree.

**HistoricalDownload.** `file` is the raw archive's lines and `state` the state file. `Begin`
is the inspection, `Rehash` the second reading of the archive that starts the running digest,
`AppendPage` and `SaveState` the two writes of a page, `Verify`, `WriteCsv` and `WriteManifest` the
normalization. A trade is its position on Kraken's tape and a hash is what it hashes. Kraken's `since`
repeats the trade that the cursor names, as the code's docstring says. A crash during an append leaves
nothing, a part of the line, or all of it.

**DailyDecision.** `Start` is what a process is given at its start (the release named in `daily.env` and
the mode), `Bind` is `verify_release_binding` on the directory it was put in, `Fetch` and `Observe` are
the answer and its stamp by the host's clock, `Evaluate` is `validate_batch_freshness`, `Record` is
`append_daily_decision` (its statements one by one are `Ledger`'s). `Completed` is the row before Kraken's
last. Kraken's row of a new day appears at any time after midnight, its last row changes until then, and one
earlier row may be corrected. The host's clock jumps among `Skews`. A row's `dir` is the directory the process
ran in, which the code does not store; it is there for the property only. systemd resolves
`current` once for the working directory and once for the executable; the model takes both as one.

**Telemetry.** `BEGIN` is deferred and the ledger in WAL mode, so the first query fixes the rows that
`View` gives to the later ones, while `Record` and `Reconcile` go on. `Publish` is the temporary file
with `os.replace`; `Abandon` any error or death before it.

## 3. Runs

About a quarter of an hour in all; each ends by itself. Bounds are named in the configurations.

| Run | Question and instance |
|---|---|
| `ledger_one_day` | two processes, one day, two inputs, bodies and reports: safety of all calls, and the refinement of `AppendOnlyBook` |
| `ledger_two_days` | two days whose intents share a truncated client order id; with fairness, every call returns and a migration finishes |
| `reconcile_runs` | two processes, two wallets, clocks that drift beyond the limit: continuity, exclusion, and the lease comes back |
| `reconcile_shown` | finding: a disarmed run may be hidden behind an older CLEAN one |
| `collect_reads` | a deposit, a withdrawal and an order, five ticks a second, 18 ticks: what CLEAN means of what was read. And any two orders of eight kinds, with one harm and a hint or with two hints: what CLEAN means of the account |
| `collect_fence` | finding: the closing fence's own second |
| `private_nonces` | two clients, one with an injected source, a budget of 4, nonces up to 3. And a pacer with a ceiling of 3, costs of 1 and 2, delays up to 2, up to 4 left by an earlier process, 8 ticks of the local clock |
| `risk_cooldown` | six days of every price, signal with weights of 50 and 80 %, missing candle and volume, re-arming policy. And two versions of the archive, two studies and a counterfactual |
| `risk_liquidation` | finding: a day that both blocks and disarms keeps its holding |
| `download_resume` | two downloads in one directory, three trades a page, five trades of which several share a time |
| `daily_export` | daily runs, deployments, clock jumps, late and corrected candles, and an export of the ledger beside them |
| `download_batches` | finding: the host clock set back between two pages |

Why the bounds are enough. The ledger's and the lease's properties relate two calls, so two
processes, two rows of each kind and two days are every case of sharing or differing in a key.
A collection has two history windows and three instants that matter in each; 18 ticks let the
account move at any of them with the clock in the same or in a later second. Six days hold a
loss, a disarm, a cooldown of two days, a re-arm and a second loss; two weights let a stale or fresh signal ask for more or for less than is held, and a
single missing day makes a signal as stale as many. Five trades in pages of three
make a page boundary within a group of equal times and one past the cutoff. Four nonces let every
order of two requests, a late arrival and the end of the nonce range occur.

Three runs hold two modules that share no state, each explored while the other rests (`part`): the report is a pure function of what was
collected, a request sees of the pacer only that it waits, and a replay touches no file. The comments of the `MC` modules say so.

Two orders are every case of two records that share an id, a hint or a fee asset, and of one that hides behind another; the kinds
are the smallest set with two legacy buys, a sale, a person's orders under a legacy client id and under that of a void submission, known and unknown
owners and a foreign asset. `JudgeFew` bounds the hints of the run: two on a faithful observation, one with a slip at most, and one on a harmed one. A ceiling of 3 makes every cost wait or pass, a delay of 2 lets two requests overtake each other, and an earlier process may
have left more than falls off in that delay. Six days are the shortest
history that a study takes with a warm-up of one; the version that is not pinned has the same days and row counts and one other
price, so that only its content tells it apart. `MCRiskGate` keeps imports and checkouts to the steps at which somebody reads what they
write (`ImportMatters`, `CheckoutMatters`), and of studies that write at once lets each write its last two tables in one go and a crash cut off only the
checksums (`MCStudyNext`); the two studies are symmetric. The theorems have no such bound. Two assumptions of `MCRiskGate` check the choice of the
clean history against its definition for every set of eight days, and the split for every history up to 120 days.

Two ticks make a day of `daily_export`, one of them the completion delay: five ticks hold the windows of two
dates, before, in and after each, with a host clock on time or a tick ahead. One process runs the daily
command, one run after the other: a run shares only the ledger with others, and `Record` is one transaction. Releases
and candle contents are symmetric, since they are only compared. One correction (`Revise`) and one
reconciliation are enough for the properties to be about a row before or after them; the theorems have
neither bound on processes nor on reconciliations.

The violated runs each check one statement of the repository that the code does not keep; they are
listed under `findings` with the quoted line.

### Fairness

`Ledger!FairSpec`: a process that is not killed takes its next step (weak fairness of `Step`), and
whoever needs the ledger calls `initialize` again (strong fairness of its start), since every
command that writes begins with it. `EventuallyMigrated` further assumes that processes stop being
killed. `ReconcileJob!FairSpec` and `PrivateRequests!FairSpec`: a step that is due is taken, since every
request has a timeout and every database wait the busy timeout; nothing obliges anyone to start a run.
`Acquire` is within the weak fairness, so no thread is promised the lock, only that the lock comes free.

## 4. Proofs

TLAPS proves for every value of the constants, under the assumptions stated in the modules, what
TLC checks on the instances above. In every module the property is not inductive as it stands.

* `LedgerProofs`. `IInv` adds: no two rows share a key (`Unique`), a row's foreign key is in the
  table (`References`), the stages between lock and commit belong to the lock's holder (`Locking`),
  a process that examined the schema works on the version it saw or on 3 (`Schema`), a pending insert
  still has no rival (`Pending`), and a refused row has lost its keys for good (`Refused`). It is inductive because the
  lookup is made under the same lock as the insert. From it: all safety properties of
  `ledger_one_day` and `ClientOrderNamesOneIntent`, `AppendOnly`, and the refinement `BookSpec`, where
  `Commit` maps to `Record`, `Return` to `Acknowledge` and every other step to a stutter.
* `ReconcileJobProofs`. `IInv` adds that only the lease's holder is in a run (`Held`), that what the
  holder read of earlier bindings is still what the table says (`PriorsFresh`), that whoever goes on to
  collect passed the gates (`GatesPassed`) and that a pending verified report has the pinned wallet
  (`ReportAgrees`). Proved: `BindingContinuity` and `OneRun`.
* `PrivateRequestsProofs`. `IInv` adds that only the lock's holder is between charge and send (`Locked`),
  that what is charged and not sent is the holder's cost (`Charged`), and that Kraken's and every late nonce lies
  at or below the last one signed, and strictly below the one about to be sent (`Ordered`), all unless
  restarted. Proved: `NoNonceIsRefused` and `BudgetBoundsRequests`. For the pacer, `PacerInv` says of the estimate as it would be now (`EstimateNow`) that it
  covers what left within the last `a` ticks but for `a`, for every `a`, and the counter with all that may still arrive but for `Delay` (`Covers`): when the
  counter is at zero while the estimate falls, only requests on their way can make up for it later. `Apart` does the same for public requests. Proved:
  `KrakensLimitsHold`, which both bounds meet with equality in the run.
* `DailyDecisionProofs`. `IInv` says of a run, from its fetch on, what is to be shown of a row: its candles end before
  Kraken's last row and are Kraken's own unless it corrects one of them, and its directory is its release (`Knows`, `Sound`).
  `MarketKeeps` is the heart: a new row, a trade or a correction leaves a final account final. Proved:
  `DecisionIsFinal`, and from it `RetryFindsItsDecision`, since two final accounts of one date are equal. The theorems
  are about `DailySpec`, in which the reconciliation also appends; `JobsUndisturbed` shows that `Telemetry`'s `Spec` implies it, so they hold of the composition
  too. `ExportInv` says what an export has read at each step: an answer of the prefix `view` of the ledger, which stays what it is because rows
  are only appended. Proved from it: `PublishedIsOneMoment`, and with the types of what is not read yet (`NotYetRead`) `TypeOK`.
* `ReconciliationProofs`, the reads. `CollectInv` says at each stage what the run knows: the fences are whole seconds, in order and past (`Fences`);
  every answer holds exactly what the account did in its window, because it was read after the window was over (`History`); and an
  order that a look at the book missed had been closed by then, or came later (`Book`). Neither property is inductive, because both are
  about the end of the run only. `AccountStep` is the heart: what the account does from now on is later than every window
  that was read. `WholeIsNear` and `WholeIsOrdered` carry the arithmetic of whole seconds. Proved: `CleanIsTheAccount` and `CleanRulesOutOrders`.
  For `TypeOK`, `TypeInv` says that cash is what came less what went and what was traded, and is never below zero (`Cash`).
* `ReconciliationProofs`, the report. About any observation: `CleanMeansExplained`, from the codes that CLEAN excludes. About the observations of
  `AccountEvidence`: `OnlyLegacyOrdersCount`; a matched hint holds an id (`MatchedByIdentity`), and the id leads to an order of the legacy
  program in every harmed observation that still has the order. The strengthening `LegacyInv` adds only that what was ordered is a kind.
  The other two properties judge the report against the account, so `AccountInv` ties the two: the account's own
  bookkeeping (`MarketInv`: an order rests exactly while a lot of it is unfilled, and what rests to be sold is covered by what is held),
  and that a report, once made, is the report on an observation of the account as it still is (`ReportInv`).
  `HarmIsNoticed` then goes harm by harm: each leaves a code that disarms. For a repeated, altered or foreign
  record the code is found at the record itself; where an order or trade is missing or out of date, the order's volume no longer equals its
  trades' (`RecordedVolume`), or an order that alone covers a held balance is not there to cover it.
  `CleanIsASoundAccount` needs both directions. Where every record is `Faithful`, no code of balances, trades, fills or fees is found, so what is left
  are the hints and the owners: `MatchesAre` says that the hints the code matches are those that name a legacy order, and `NetIsGained`
  that its sum over the counted fills is what those orders left. The sums are over any number of orders and fills.
* `DownloadProofs`. The inspection and the dataset are recursions over the lines of the archive; `ScanUnfolds` and `ReadingUnfolds` show that they are well
  defined, `ScanOfLines` and `ReadingOfLines` what they compute: if every line continues the lines before it, the archive that the last line
  names, and the tape up to there. `DownloadInv` adds that every line is a page Kraken gave for its cursor, or torn (`Evidence`),
  what each process knows at each step of the lines it has read or written (`Runs`), and that whatever is published has
  the whole tape before the cutoff (`Written`). It holds with any number of downloads in one directory, which is why it cannot say
  that the lines form a chain. Proved: `DatasetIsTheTape` and `TypeOK`. `Resumable` says what
  holds while nothing was shared and no line torn: one run at a time, all lines chained, the state file that of a prefix, and
  the running archive that of the whole file. Proved from it: `CrashLeavesResumable`.
* `ResearchProofs`. `PinnedInv` adds that every program's last reading is still what the file holds and that a manifest names
  one version, unless `torn`; without it a manifest that passes the checks might speak of other bars. `BundleInv` adds what a
  writing study has written at each step, that a manifest which is there and whole is the last thing a study wrote (`Whole`), and that a writer is alone, unless `overlapped`. `SealedInv` adds that what is checked out is a
  version of the bundle and what the counterfactual has verified at each step. Proved: the three research properties, and
  `TuningSparesHoldout`, that no replay that chooses a policy reads a day of the holdout, for every length of history.
* `ResearchProofs`, the risk gates. `Inv` adds the types of the recorded times (`Times`), that a disarmed account's
  eligibility is its disarm plus the cooldown and one that is not disarmed has served it (`Cooldown`), and that
  a block that was dropped is a day past the newest loss (`LossGate`). Proved: the three action properties, and that cash
  never runs out, which needs that a share of the equity below 100 % never costs all the cash.

The theorems about `ReconcileCollect`, `PrivateRequests`, `RequestPacer`, `RiskGate`, `AccountEvidence` and `Research` are about their own
specifications; in the runs that hold two modules each of them takes the same steps while the other rests.

* `Numbers`. What is recursive is reasoned about by a least counterexample (`LeastNumber`, `AllNumbers`): a recursive function on `0..n`
  is defined because there is no least number at which it is not. A sum over a finite set is a function on its subsets (`SumsExist`,
  `SumsAgree`), from which come that it splits, that it is zero where its terms are, and what gains and
  losses of one size come to (`TotalOfEqual`).

What the theorems assume of the constants is stated in the modules, each with its reason: numbers are numbers, sets of orders, deposits and withdrawals
are finite, a kind of order has a side. Apart from this the theorems have none of the bounds of section 3; those about accounts hold for
any number of orders and lots and any set of the hints that `Claims` names, with at most one harm, those about downloads for any number of pages and processes.

Every invariant and every action property of the passing runs is a theorem. Only model-checked is liveness (`EveryCallReturns`, `EventuallyMigrated`,
`LeaseIsFreed`, `LockIsFreed`), which needs fairness and ENABLED; and the four findings are counterexamples, which TLC finds.

## 5. Not modelled

* Metrics and charts (`research_metrics.py`, `research_charts.py`): decimal statistics and SVG text, pure functions of one replay.
* The strategy (`strategy.py`): decimal averages of closed candles against thresholds. `DailyDecision` and `RiskGate` take any
  function in its place, so what they show does not depend on it.
* The dashboard application: it renders one file, which `Telemetry` shows to be of one moment.
* Deployment units: the models let every job run at any time and any number of them at once, more than the timers do.
* Parts of modelled components: parsing of responses, rows and settings, pagination, wording of discrepancies and reports; prices, fees and
  the daily-lag mode of the backtest; checks of git, code and configuration in the study and the counterfactual, which only refuse to
  start; the output that the counterfactual writes, which follows the same order of steps as the study's; the commands'
  reading of `status`, which nothing acts on.
