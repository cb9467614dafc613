# riskengine, specified

TLA+ modules that model the risk engine of this repository, TLC configurations
that check them on small instances, and theorems that TLAPS proves for every
value of the constants. Paths below are relative to the repository.

## The system

The engine is a C++ library (`src/`, `include/risk/`), two programs that drive it
(`src/main.cpp`, `tools/`), a Python package that keeps a book of its own
(`python/risk/`), and a Dash front end. There is no central object: a driver
owns one instance of each component and hands trades to them one after another.

| Component | State | Operations that change it | What makes it correct |
|---|---|---|---|
| PositionTracker | position per symbol, history of snapshots, lot method | `update_position`, `set_price`, `set_lot_match_method` | entry prices are averages of traded prices; profit agrees with cash; the audit trail is complete |
| PnLCalculator | cumulative and daily figures, peak, drawdown, attribution, last mark per symbol | `record_trade`, `update_unrealized`, `daily_pnl_reset`, `reset_all` | figures add up through resets; the drawdown is the deepest fall |
| LotMatching | queue of lots per symbol, method | `match`, `clear`, `clear_all`, `set_method` | lots stay in trade order; a covered sale earns its margin; cost and quantity balance |
| AlertManager | alert history, index by id, cooldown map, subscriber | `evaluate_rules`, `acknowledge`, `resolve`, `escalate`, `write_off`, `on_alert`, `set_cooldown_ms` | alerts of a rule are spaced, and a rule is silent for no other reason; subscribers see each once, in order; an id finds its own alert |
| TradeJournal | one SQLite file shared by processes, one handle per object | `log_trade`, `log_trades`, opening, closing | what was logged is durable, batches are all or nothing, no lock is kept |
| RiskEngineClient (Python) | position per symbol, one snapshot of the profit | `ingest_trade` | total = realised + unrealised - fees; agrees with the tracker |
| Replay (`src/main.cpp`, `tools/replay_tool.cpp`) | the components above, place in the file, `g_running` | the loop, the signal handler | journal and memory are the same book; the loop ends |
| MarketData | price cache, replay data and index, market hours, subscriber | `update_price`, `on_price_update`, `load_from_csv`, `replay_next`, `reset_replay`, `set_market_hours` | a file is replayed whole and in order; a fresh price is a recent one; subscribers can mirror the cache; the market is open when a session in force says so |
| RiskLimits | list of position limits, a loss and an exposure limit | `add_position_limit`, `set_...` | a position is judged by the bounds that were set |
| MetricsEngine | market value per symbol, gross and net exposure, parameters, totals | `update_position`, `set_risk_params`, `update_pnl` | exposures are the sums of what is held; judges a reading as RiskLimits does |
| WebSocket client (Python) | subscribers, one running flag | `on_update`, `start`, `connect`, `disconnect` | each update once and in order; it stops when told to |
| Greeks, VaR, margin | none | | numerics |
| Python Replay, dashboard, CLIs, bindings | little | | input and output |

How they interact. PositionTracker, AlertManager and MarketData each take a
subscriber and call it *while they hold their mutex*. Nothing in the repository
installs one, and the Python bindings (`python/pybind_module.cpp`) do not expose the
methods that would; only a C++ application can.
The replay loop passes each trade to the tracker, then to the calculator, reads
the position back to mark it, and logs the trade in the journal, whose result it
ignores. Several processes can log in one journal file; SQLite's write lock is
the only thing between them, and no busy timeout is set. `LotMatching` is
constructed by the replay but never called; the alerts and the market data
likewise; no position limit is added and no market value is fed, so the replay's
limit check can never report a hard breach (`main.cpp:87-92`). No configuration file is read. The
tests that `test/CMakeLists.txt` lists are not in the repository, so that the
documents and comments are all there is to compare the code with.

What is hard here: sequences of trades (opens, additions, partial and full
closes, flips, reopens) that reach states a single-trade test does not; figures
that are kept twice and must agree; a batch that fails between two statements, a
commit whose result is ignored, processes that meet each other's lock or die;
subscribers under locks; clocks that are set back; a replay that is killed and
started again; hours that are read while they are changed, out of a buffer that
every thread shares; answers that an error cuts short; a connection that is
stopped and reopened before its old loop has noticed. `PROJECT.json` lists the hazards line by line.

## The modules

| Module | Models | Notes |
|---|---|---|
| `Fractions` | `double`, exactly | a numerator over a positive denominator, compared by cross multiplication; rounding is left out |
| `Instruments`, `Sums` | | the symbols every component keys its maps by; the sum of the values of a map |
| `Trading`, `TrackerParameters` | `types.h` | sides, trades, signed quantity; the constants that the tracker and the lots share |
| `Positions` | the arithmetic of `position_tracker.cpp`, `position.h` | what a trade makes of a position; `AsUnsigned` keeps the cast of a negative quantity to 64 bits (`Word` stands for 2^64) |
| `PositionTracker` | `position_tracker.cpp` | the positions of all symbols, the history, the marks |
| `RiskClient` | `python/risk/client.py` | |
| `Books` | composition | tracker and client take the same trades; a ledger, a ghost, records the cash they moved |
| `PnLCalculator`, `PnLAudit` | `pnl_calculator.cpp` | `PnLAudit` adds what was recorded as a ghost |
| `Account` | nothing in the code | the abstract specification: an account that books, marks and starts days; `PnLCalculator` is checked, and proved, to implement it (`KeepsAccount`) |
| `LotMatching`, `LotAudit` | `lot_matching.cpp` | `LotAudit` adds the net position and the last match |
| `AlertManager` | `alert_manager.cpp` | the clock is the environment's |
| `CallbackLocks` | the mutexes of the three components that call back | what subscribers call is chosen at the start, among any wirings; one may throw at any of its calls |
| `TradeJournal` | `trade_journal.cpp` over SQLite | one action per SQL statement; SQLite's table, lock, transaction and autocommit are modelled from how the code uses them and marked external; a query, a count and an export are the *sets* of answers they may give, as an error of SQLite ends the rows early (`trade_journal.cpp:129,137,163-168,199`) and only `export_parquet` reports some of the causes |
| `TradeLog` | nothing in the code | the abstract specification of the journal, from README.md:122,125: a log keyed by trade id that only grows, by whole calls; `TradeJournal` is checked, and proved, to implement it (`KeepsLog`) |
| `MarketData` | `market_data.cpp` | an operation is one step but for those that race: `set_market_hours` is two stores; `is_market_open` is a call of `std::gmtime`, which fills a buffer of the whole process, a read of the hour from it, and two loads in any order; `OtherTime` is a `gmtime` of another thread, in a question of its own or to print a time (`timestamp.h:38`) |
| `RiskLimits` | `risk_limits.cpp` | a list of breaches is the set of its entries without messages |
| `MetricsEngine` | the exposure ledger and the checks of `metrics_engine.cpp` | concentration as a fraction of two integers |
| `LimitDesk` | composition | the two judges side by side, as `run_replay` holds them |
| `RiskWebSocket` | `python/risk/dashboard/websocket.py` | one task per call of `connect`; what runs between two awaits is one step. `start` runs one `connect` in a new event loop and returns when that has ended (`asyncio.run`): several tasks are several threads that called `start`, or an application's own loop, and `disconnect` comes from another thread or a callback |
| `Replay` | `run_replay`, `replay_tool.cpp` | extends `TradeJournal`, whose connections are the processes that replay, with the positions each holds in memory: a step of a replay is a step of its journal or leaves the journal alone |
| `ArithmeticProofs`, `PositionProofs` | | lemmas about fractions, finite sums and sequences; about positions and lots |
| `BooksProofs`, `RiskProofs`, `AlertManagerProofs`, `CallbackProofs`, `TradeJournalProofs`, `MarketDataProofs` | | theorems: of the tracker and the client (those of the lots are in `PositionProofs`); of the calculator and the limits; of the alerts; of the mutexes and the socket; of the journal and its replays; of the market data |

An operation under a mutex is one step, as nobody sees its middle. The exceptions
are the ones where somebody does: `CallbackLocks` splits a call into taking the
mutex, the calls of the subscriber, and leaving; `TradeJournal` splits a batch
into statements, because other processes and crashes come between them;
`MarketData` splits the two operations that race with each other and with `gmtime`; `RiskWebSocket` splits
`connect` at its awaits.
Names follow the code; a name that the code does not have is a helper and says
in its comment what it stands for. `map` in `PROJECT.json` gives the lines of
every definition. Definitions named `X_Y`, under a comment that starts with
*Mutant*, are plausible bugs of `X`: no specification uses them, and with one in
the place of `X` the property it is listed with fails.

## The runs

Bounds are the constants of the `.cfg` files; a bound on a counter is named in
the guard that uses it.

| Run | Bounds | Shows |
|---|---|---|
| `books` | 2 symbols (symmetric), quantities 1..3, prices 1..2, 3 trades | `LedgerIdentity`: realised profit and fees against cash until the first flip or large reduction; `KeepersAgree`: C++ and Python agree on quantity and entry price, flips included; `ClientIdentity`, `ClientTotal`: the client's profit and total against cash until a flip or an addition at another price; `EntryWithinPrices`; the audit trail is complete |
| `pnl` | 2 symbols, 2 strategies (both symmetric), hours 1, 25, 26, a fee of 1, 3 calls | through resets of the day: the account is kept (`KeepsAccount`: a refinement of `Account`), today's unrealised profit is what the marks gained today; every symbol, strategy and hour of the day is attributed the profit of its own trades; the drawdown is the deepest fall |
| `lots` | 1 symbol, quantities 1..3, 4 trades, 3 methods switched freely | order of lots, margin of covered sales, balance of average cost |
| `alerts` | readings on both sides of the thresholds of position, loss and drawdown and an exposure always above its own, a clock at 0 or 3 that goes forth and back, cooldowns of 1 and 2 ms of 2 ticks, 3 alerts, operators who act on the second | `CooldownSpacing` in true time unless the clock is set back between two alerts; `SilentOnlyAfterAlert`: a rule is silent only within the cooldown after an alert of its own, wherever the clock was set; announcement, index |
| `journal` | 2 processes, 3 ids, 4 batches (empty, overlapping, with a duplicate), 3 calls | what is logged stays, and a call whose COMMIT failed leaves all or nothing; a call that has returned holds no lock; every call ends; what a query, a count or an export has shown is found from then on by every read that meets no error, and contradicted by none; `KeepsLog`: the file refines `TradeLog`, so that batches enter whole, once, and nothing that entered changes |
| `locks` | 3 threads, 3 components, 4 calls, 3 wirings (calls in one direction, into the caller's own component, in a circle of two) | threads deadlock only where the subscribers of components they hold call those components in a circle, and then for good; every other call returns, subscribers that throw included |
| `replay` | 2 processes, 3 starts, files of 2 lines (flip, duplicate, malformed) | journal against memory, termination |
| `market` | 2 symbols, 3 ticks (two at one time), files out of order, malformed and missing, a clock 0..2 that may be set back, the session 9 to 16 of the constructor and 12 to 20, questions and other threads' times at hours 8, 13 and 20 of the next day | a file is replayed whole and in order of time, or its first lines as they come if one does not parse; `FreshIsRecent` in both directions with a wrapping difference; a subscriber has the cached price of every symbol whose last tick was live; an answer about the hours is justified by an hour written and a session in force meanwhile |
| `limits` | 2 symbols and the limit for all, 2 bounds, 3 position limits, thresholds that overlap, readings on both sides of each | which bounds judge a position; where `RiskLimits` and `MetricsEngine` agree; exposures add up |
| `socket` | 2 connections, 2 subscribers, 4 messages of which the third does not parse | each update once and in order unless loops overlap; one more update at most after `disconnect`; the loop ends |

Why the bounds are enough: three quantities give every class of trade the
tracker distinguishes (open, add, reduce by less and by more than half, close,
flip) and three trades reach each after each; two symbols show that they do
not mix. Fees that are always 1 are enough for the calculator, which only adds them. Four matched trades split a lot, use it up, oversell it and start
again. Three alerts of one rule and a clock that jumps by more than the shorter cooldown and less than
the longer, and back, are what spacing needs: a rule must re-arm after its second alert as it
does after its first. Operators act on one alert, the
second, so that an index which is off by one meets the wrong alert or none.
Two processes and three ids let batches overlap in one id and miss in another,
with every interleaving of a failed statement, a failed commit and a crash.
Three threads close a circle of two with one behind it; a circle takes no more
components than its wiring does.
Two connections are enough for a loop that is revived or replaced, and four messages
for an update before and after one that does not parse. Three position limits put a second
entry next to one of the same symbol and one for all. Two
sessions that overlap give a time inside both, one, and none. `Word` only has to exceed every
quantity. Where a property of a run needs a condition, the condition is stated in
the property with the reason (`LedgerIdentity` and `ClientIdentity` until the first
trade that the code misbooks): what happens past it is shown by the runs
below.

Where the documents promise something the code does not do, a run states the
promise and TLC finds it violated:

| Run | The document | The code |
|---|---|---|
| `flat_realizes_cash` | README.md:56 and :49, realised profit per trade | `position_tracker.cpp:69`: a flip books its profit as an addition; :75-78: a long position reduced by more than half is booked with what is left of it |
| `total_as_documented` | README.md:58, the total is realised and unrealised profit less fees | `pnl_calculator.cpp:68-69` adds each change of a mark to the cumulative and to the day's figure, and `total_pnl` (`:36`) adds the two: an open mark counts twice |

Other differences, without a run of their own:

- the unrealised profit of a short position has the wrong sign (README.md:57; `position.h:35`
  applies the sign of the quantity twice);
- `log_trades` returns true when its COMMIT has failed (`trade_journal.cpp:70-71`), and a query
  that an error of SQLite ends returns what it has (`:137`), so that the log of
  README.md:121-125 can look shorter than it is;
- the lots do not hold the net position (README.md:73; `lot_matching.cpp:48`
  stores a closing buy again, and lots have no side);
- a resolved or written-off alert can be acknowledged again (README.md:103-107;
  `alert_manager.cpp:90` sets the state whatever it was);
- an overnight session, as `config/market_hours.yaml` gives CME one from 23 to 22, is
  never open (`market_data.cpp:66` asks for both sides of the window), nor is that file read;
- a limit for all symbols judges a position next to the limit of its own symbol
  (`risk_limits.cpp:26`), and neither replaces the other;
- at a limit itself, and at a limit of zero, the two judges differ: `JudgesAgree` states
  exactly where;
- `MetricsEngine::update_pnl` keeps totals that nothing reads;
- a subscriber that calls back into the component that called it, or two that call each
  other's, can deadlock: the mutexes are not recursive and held during the call
  (`DeadlockIsACircleOfSubscribers` states exactly when);
- after a broken connection, a message that does not parse or a callback that raises, the
  socket's loop is over while its flag still says that it runs; a `disconnect` that comes
  before the task has begun is lost;
- a price in front of the first trade of its symbol stops the Python replay
  (`python/risk/replay.py:54-57` leaves an object without a quantity);
- the Python client books a profit
when a trade *adds* to a position (`client.py:91-96` does not compare directions),
which is why `ClientIdentity` ends at the first addition at another price;
- the drawdown alert is Critical in `alert_manager.cpp:74` and a Warning in README.md:113, there is
  no rule for VaR and stale data (README.md:114-115), and the journal exports CSV
  under the name of Parquet (`trade_journal.cpp:173`).

## Fairness

`TradeJournal` and `CallbackLocks` assume weak fairness of the steps of a
call that has begun (a thread that can run does), `Replay` of the steps of a
process, and nothing of the environment: calls, signals, kills and restarts may
come or not. No fairness is assumed of the order in which a mutex serves its
waiters; that calls still return, unless they deadlock, follows from the application making
finitely many (`MaxCalls`). SQLite never makes a call wait, because no busy timeout
is set: a statement that meets a lock fails. So weak fairness is all that
`CallsEnd` and `ReplayEnds` need. `RiskWebSocket` assumes weak fairness of the steps
of each task: the event loop runs what can run, a connection is opened or refused, and
`wait_for` gives up after its five seconds. Of the server nothing is assumed, not even that it
sends; `DisconnectEnds` holds because the timeout brings the loop back to its flag.

## What is proved

A theorem is about every value of the constants that satisfies the named assumptions: any number of
symbols, processes, threads, connections, rules and trades, any quantities, prices and fees
(`QuantitiesAssumption`, `PricesAssumption`, `FeesAssumption`, `WordAssumption`, `MaxTradesAssumption`:
positive quantities and prices, fees that are not negative).

What the proofs share is in `ArithmeticProofs`. Every operation on fractions returns what it should
up to `Same`, and an equation between fractions is settled by giving its terms a common unit. The sums of
the library are folds over sets, for which the prover has no induction: the lemmas build the function
that such a fold is defined by, and reason by well-founded induction about a *set* of good arguments,
in the place of the predicate that the library's induction theorems would take. From there: a sum
changes by what one of its parts changes by, splits over subsets, and is bounded by its parts. A
fold along a sequence is the library's fold over its indices, from the greatest down. `FoldOfAppend`
says that it goes on by its last element, and `SequenceInduction` carries such a fact to every sequence.

Of `PositionTracker`:

- `TypeCorrect`: `Spec => []TypeOK`. It carries the arithmetic: every
  figure stays a fraction because the division that averages an entry price happens
  only when the net quantity is not zero.
- `EntryPriceBounded`: `Spec => []EntryWithinPrices`. `TypeOK` alone is not enough
  to know that a weighted average stays between its parts; the lemmas show that
  a signed average of two prices between low and high is between them when both
  quantities have one sign, which is the condition `update_position` averages under.
- `AuditTrailComplete`: `Spec => []AuditTrail`, inductive together with `TypeOK`.
- `TrailNeverRewritten`: the action property `TrailAppendOnly`, from the type invariant.

Of `Books`, for any finite set of symbols (`SymbolsAssumption`) and as long as no position
outgrows the word its cast wraps in (`PositionsFitAssumption`; the code has 2^63 shares to spare):

- `BooksTracksPositions`: a step of the books is one of the tracker, so that its theorems hold here.
- `BooksInv`, the inductive invariant. The identities alone are not inductive. A reduction is booked
  with a quantity that was cast to an unsigned word, so the invariant needs that every position fits; and
  the client's total is a sum over all of its positions, of which the code recomputes all after a trade. So the invariant says per symbol
  (`Entered`) that quantity, entry price and profits of tracker, client and ledger fit together, and
  (`TotalAddsUp`) that the total is the sum of the parts.
- `TrackerKeepsLedger` (`LedgerIdentity`), `BooksAgree` (`KeepersAgree`), `ClientKeepsLedger`
  (`ClientIdentity`) and `ClientReportsWorth` (`ClientTotal`) follow from it.

Of `LotMatching` under its audit, for any symbols, quantities, prices and fees, queues of any length and
the three methods (`LotMethodsAssumption`: the values of the enum):

- `ConsumedUnderway`, the loop of `match_fifo` and `match_lifo`. Its invariant (`Underway`) says of what the
  lots behind it gave: the units taken are the first units of those lots, what is kept is the end of the
  queue and less of it, nothing is kept while the trade still wants units, and the profit of a sale and the
  cost that went in are the proceeds and the cost that is left. LIFO is the same loop over the queue
  turned around (`InOrderReversed`, `UnitsReverse`, `CostReverse`).
- `LotsInvariant`: `LotsInv`. `LotsInTradeOrder` alone is not inductive, as a new lot goes behind the others
  only because no lot is of a later trade (`InOrder`); and `AverageCostBalances` needs that a sale which
  the net quantity covers is one the lots cover.
- `LotsStayInOrder`, `LotsGoInMethodOrder`, `SalesEarnTheirMargin` and `AverageCostStaysBalanced`
  (`LotsInTradeOrder`, `ConsumesInMethodOrder`, `CoveredSaleEarnsMargin`, `AverageCostBalances`) follow from it.

Of `PnLCalculator` under its audit, for any finite sets of symbols, strategies and hours
(`AmountsAssumption`, `HoursAssumption`, `KeysAssumption`, `MaxCallsAssumption`):

- `AuditInvariant`: `AuditInv` adds to the types what the unrealised figures are in terms of the marks (`Marked`),
  that each key of an attribution has what its trades realised and each attribution sums to the
  realised profit (`Attributed`), that the calculator knows the last and
  the highest point of the curve (`Summit`), without which a new fall could not be compared
  with the old ones, and that the drawdown is the deepest fall (`DeepestFall`).
- `DayGainsAreMarks`, `AttributionsAddUp` and `DrawdownIsDeepest` follow from it.
- `CalculatorKeepsAccount`: the refinement of `Account`. A call that leaves every figure as it was stutters.

Of `RiskLimits` and `MetricsEngine` side by side, for any finite set of symbols, any limits, values and
readings (`LimitsAssumption`, `EngineAssumption`):

- `BookIsJudge`: `JudgedByBook`. Which bound judges is a matter of the *first* entry of a symbol, the
  one that `set_position_limit` finds. `LimitsInv` says that this entry holds the bound in the book,
  that there is one exactly when a bound was given, and that it is alone unless another was added beside it.
- `JudgesAreAlike`: `JudgesAgree`, from `MetricsInv`: the exposures are the sums of the values, so that
  no symbol and no net exposure exceeds the gross.
- `ExposureIsOneBook`: `ExposureAddsUp`. The bounds of the concentration are the inequality between
  the square of a sum and the sum of the squares, proved over finite sets.

Of `AlertManager`, for any rules, thresholds and cooldowns and a clock that may go back, with
times and cooldowns that stay below the width of a time stamp (`ClockAssumption`,
`CooldownAssumption`, `WordIsWide`):

- `AlertInvariant`: `AlertInv` adds to the types that ids number the history and the index finds them
  (`Numbered`), that the cooldown map holds for each rule a time at which it raised an alert, and the latest of
  those since the clock was last set back (`Remembered`), and that what
  a subscriber has been told is the alerts since it came, in order (`Announced`).
- `IndexIsSound`, `AnnouncementsInOrder`, `AlertsAreSpaced` and `SilenceIsJustified` follow from it. The
  code's own wrapped difference is shown to be the time that went by as long as the clock is not
  behind, and longer than any cooldown when it is. The invariant holds within an evaluation as well, after each rule, because one evaluation may raise several alerts.

Of `CallbackLocks`, for every set of threads and of components and every wiring of subscribers,
with or without circles (`WiringsAssumption`, `NobodyAssumption`):

- `DeadlocksAreSubscribers`: `DeadlockIsACircleOfSubscribers`. The inductive invariant, `LockInv`,
  says of the stack of every thread that each component on it was called by the subscriber of the one below,
  and what the thread waits for by the one on top (`CalledFromBelow`, `WaitsFromTop`,
  `OwesOwnCalls`), that no thread is inside a component twice (`InsideOnce`), and that a thread owns
  the mutexes of the components it is inside and no other (`Owned`). In a set of threads that
  wait for one another, the components they hold are called by one another along the stacks and
  across the waits, so that some of them call each other in a circle.
- `DeadlocksAreForGood`: `DeadlockIsForGood`. A thread that waits for an owned mutex takes no step,
  and no other thread gives that mutex back: every unlock is by its owner.

Of `TradeJournal`, for any set of processes, trades and batches (`BatchesAssumption`,
`MaxCallsAssumption`, and `ConnectionsAssumption`, which keeps the lock's free value apart from
the processes):

- `JournalInvariant`: `Spec => []JournalInv`. That what is logged is durable depends on rows which
  are not in the table yet. So `Progress` says that each trade of a running call is written or
  left, `PendingOfOwn` that the rows which wait are of the running call, or all the rows of a call
  whose COMMIT failed, `Locking` that rows wait under the write lock, so that two connections
  never have rows to commit, and `TableOfEnded` that no committed row is of a running call.
- `LoggedStays` (`LoggedIsDurable`; that a call whose COMMIT failed is in the table whole or not at all
  is the second half of `PendingOfOwn`) and `NothingHeldIdle` (`IdleHoldsNothing`) follow from it.
- `QueriesStay` (`QueriesAreDurable`): what an answer of a settled connection shows, whole or cut short,
  is part of every later one that meets no error. That the count, where it is not 0 for an error,
  does not fall needs the rows to be finitely many, which `Countable` says whatever the set of ids.
- `JournalKeepsLog`: the refinement `KeepsLog`. Beginning a call is `Offer`; a refusal and a crash are
  `Refuse`, as nothing of a running call is in the table; a COMMIT is `Grow`, of the call and
  of the calls whose transaction it ends; every other step stutters.

Of `Replay`, for any processes and files (`FilesAssumption`, `MaxStartsAssumption`):

- `StepsJournal`: a step of a replay is one of the journal, so that `JournalInv` carries over and with
  it `ReplaysKeepJournal`, the refinement of `TradeLog` while replays run, crash and start again.
- `ReplayInvariant`: `ReplayInv` adds for every process that its memory is the book of the lines it has
  read (`Booked`), that each line it is done with is in the journal or was missed (`Passing`), and that
  it logs one trade at a time (`Single`). `missed` takes a trade in only with an excuse, a lock of another
  process, a failed commit or a journal that is not open; `LogsOne` shows that a refusal without one
  is a duplicate's, so that the trade is in the table.
- `PassedStays` (`PassedIsJournaled`) and `MemoryKept` (`MemoryMatchesJournal`) follow from it; the second
  compares a sum over lines of the file with one over rows of the table.

Of `RiskWebSocket`, for any number of connections, subscribers and messages
(`MessagesAssumption`):

- `SocketInvariant`: `Spec => []SocketInv`. What was heard is only bounded by what was read if
  loops follow one another, so `OneAfterTheOther` ties every loop that listens to what its
  subscribers have heard; `LateOnce` says where a task can be once it has handed over
  an update behind a cleared flag, and `StrangersHearNothing` starts a new subscriber below
  those in front of it.
- `LastUpdate` (`OneMoreUpdate`), `UpdatesInOrder` (`HeardOnceInOrder`) and `FirstServed`
  (`EarlierHearsMore`) follow from it.

Of `MarketData`, for any symbols, ticks, files, sessions and questions (`TicksAssumption`,
`FilesAssumption`, `HoursAssumption`, `ClockAssumption`, which keeps times and ages below the
width of a timestamp):

- `AnswersJustified`: `AnswerJustified`. `SessionInv` adds that each hour is that of the session
  before or of the one being set (`HalfStored`), that what a question has loaded was the hour
  of a session in force since it began (`LoadsAreOld`), and that the hour it reads is one that was
  written since (`HourWritten`).
- `FreshPricesAreRecent`: `FreshIsRecent`, from `UnsignedAge`, the lemma that a difference that
  wraps is never in the range of a fresh age.
- `SubscriberMirrors`: `SubscriberSeesCache`. Both rest on `FeedInv`, for which `LoadsTicks` shows that
  every load, one that is cut short by a malformed line included, leaves ticks behind.
- `FilesReplayInOrder`: `ReplayInOrder`. Its invariant says that what is loaded is the file in order of time or
  the lines that parsed, and that what was delivered is the part in front of the index; `SortedKeeps`
  that sorting rearranges a file and loses no tick of it.

## Model-checked only

Liveness (`CallsEnd`, `CallsReturnOrDeadlock`, `ReplayEnds`, `DisconnectEnds`) is beyond TLAPS 1.4.5. Every other
property of a passing run is a theorem.

## Not modelled

Rounding of doubles; overflow of quantities other than through the cast above
(2^63 shares); timestamps of snapshots; the texts of alerts and breaches; the calculator's list of
daily snapshots, which nothing reads. A failing INSERT for another reason than a lock or
a duplicate id, and a journal whose schema could not be created. A subscriber of the alerts that throws
in the middle of an evaluation (the mutex's side of it is in `CallbackLocks`). Readers' and
writers' data races on members that are read without the mutex
(`LotMatching::method`, `MetricsEngine::set_risk_params`, of which every reader loads one
value), but for the hours of `MarketData` and the buffer of `gmtime`, which are modelled; of that
buffer only the hour, in whole values. VaR, Greeks, implied volatility and margin:
transcendental functions and random sampling. Dashboard panels, command
line tools and bindings: input and output around modelled calls.

Of `MetricsEngine`, the totals of `update_pnl`, which no operation reads. Python `Replay`: it has no
state of its own past the client's, and prices in front of a first trade stop it (above).
`main.cpp`'s live and status modes print and return.

## Plan

Multi-threaded ingestion: `get_position` and `update_unrealized` by several threads,
between each other's trades (README.md:237 names four threads), once the code has such a driver.
