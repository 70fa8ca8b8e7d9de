# Verification of algo-strategy

TLA+ models of the trading core of this repository, the TLC runs that check
them on small instances, and TLAPS proofs of what matters most for all
instances. Paths below are relative to `src/app/` unless they start with
`src/`. `PROJECT.json` lists the components, the runs, the lines every
definition translates, the hazards and the theorems.

## 1. Inventory

### How the system works

Four programs share a candle builder and an event bus. `main.py` runs five
strategies on NSE shares, each with a paper trader of its own, and two more
traders for what several of them agree on. `main_paper.py` trades one mean
reversion strategy in two variants. `main_cfd_paper.py` trades CFDs: the feed
delivers ticks, strategies look at closed candles and emit signals, a
`MultiAccountManager` fans signals, ticks and candles out to one executor per
account, and each executor asks its own `RiskGuard` before it opens anything.
`main_research.py` watches thousands of strategy variants: candles arm
variants, ticks fire them, and the resulting trades go to a database through a
batching recorder.

Behind them is a history: candles that the live programs archive and
that downloads fetch, and four kinds of offline studies that read it (the
replay of the research engine, the exit engine, the CFD backtest, and the
challenge simulators).

| component | state | operations | talks to |
|---|---|---|---|
| risk guard, `cfd_risk/risk_guard.py` | balance, floating result, start-of-day reference, drawdown floor, status | realize a close, mark to market, may-trade and per-trade checks, daily reset, reset and seeding of the account | called by the executors; reset by the monitor |
| exit rules, `cfd_execution/base.py`, `cfd_strategy/base.py` | the managed position | excursion, dynamic stop (breakeven, trailing), stop/target decision, time stop | used by both executors and the backtest |
| sizing and costs, `cfd_risk/position_sizing.py`, `costs.py` | none | lots for a risk budget, cost of a trade | executors |
| paper executor, `cfd_execution/paper_executor.py` | arms, open positions, open keys, last prices, guard | signal, tick, candle close, day reset, flatten (all, one instrument) | feed, monitor and chat threads; guard; store; notifier |
| cTrader executor, `cfd_execution/ctrader_executor.py` | the same, plus pending orders, closes under way, requested targets, last amended stop, last real balance | the same, as requests; execution events and the accounting fetched after a close | the broker, over an asyncio loop |
| accounts and runner, `cfd_execution/multi_account.py`, `main_cfd_paper.py` | executors, flatten-window flags, pause flag, day-reset mark | fan-out, candle handling, schedule monitor, shutdown | everything above |
| chat bot, `telegram/bot_commands.py` | pending confirmation and its time, pause flag | close, close all, confirm, pause, resume | runner |
| CFD entries, `cfd_research/entries/*.py`, `cfd_strategy/strategies/*.py` | per instrument: session range, cooldown, last signal, day | candle, reset of the day; replay over stored candles | candles; signals to the accounts |
| trade recorder, `execution/trade_recorder.py` | buffer, dedup set, timer, running flag | record, periodic flush, flush of a full buffer, stop | feed, timer and stopping threads; database |
| armed state, grouping, tick engine, `execution/*.py` | armed list per instrument, triggered-today set, price groups, last price | arm, expire, rebuild the groups, trigger, day reset | `main_research.py`'s handlers; recorder |
| research templates, `variants/strategies/*.py` | per instrument, timeframe or both: opening range, previous indicator values, squeeze, pullback | candle, reset of the day | orchestrator; armed state |
| candle builder and bus, `core/*.py` | candle in progress per instrument and timeframe, history, handlers | tick, candle event, injected history | feed; every consumer |
| reconnecting feed, `broker/reconnect.py` | running flag, retry count, consume thread, time of the last tick | connect, liveness check, retry with backoff, end at market close | broker client; candle builder |
| warm-up, `warmup/data_manager.py`, `utils/market_hours.py` | what was fetched so far | sleep until the next session, fetch from two interfaces with retries, cut | broker; candle builder |
| MT5 feed, `broker/mt5.py`, `main_mt5.py` | client, measured offset of the server's clock, cursor per symbol | poll, catch up, reconnect, backfill | terminal; candle builder; archive |
| cTrader feed and backfill, `broker/ctrader.py`, `broker/ctrader_backfill.py` | connection, backfill under way, time of the last one | pushed ticks, reconnect, backfill from bars | broker; candle builder; archive |
| archive and downloads, `db/*.py`, `backtest/fetch*.py` | candle tables, progress tables | insert (on conflict, nothing), mark a day or chunk done | feeds, studies |
| NSE strategies, `strategy/*.py` | per instrument and day: opening range, last indicator values, counters since a signal, squeeze in progress | candle, daily reset, replay of the history | candle builder; signals to the bus |
| NSE paper traders, `paper_trader/*.py` | per trader: positions, latest prices, square-off timer; signals waiting for agreement | signal, agreement, tick, square-off | bus |
| NSE main paper process, `main_paper.py` | regime, previous RSI, positions and statistics per variant | candle, tick, square-off, shutdown | feed; database |
| NSE replay, `backtest/replay.py` | a pipeline per day | candles and synthetic ticks in order | templates, armed state, recorder |
| exit engine, `exit_engine/engine.py`, `exit_engine/models/*.py` | per trade and model: stop, best price, targets taken | replays a day's trades under every exit model after the close | database: trades, candles, results |
| CFD backtest and exit models, `cfd_backtest/*.py`, `cfd_research/exit_models.py` | one simulated position | fill, exits over bars | exit rules |
| challenge simulators, `cfd_research/challenge_sim.py`, `portfolio_sim.py` | balance, day, peak, phase, open trades | one trade after another; concurrent; with caps on entries | results of the backtest |

The rest is computation without interaction (indicators, scoring), I/O
(wire formats of the broker clients, reports of the stores, notifiers) or
wiring and tools.

### What is hard here

* **Order.** A risk guard is told about closes, marks and resets in whatever
  order the executors happen to call it; limits must hold in all of them. The
  replay mixes made-up ticks with candles of three timeframes.
* **Threads without locks.** The feed, the schedule monitor and the chat bot
  call the same executors; `TradeRecorder` is the only class with a lock, and
  it does not hold it while it writes. A consume thread that is given up on is
  still there.
* **Requests and events.** The live executor schedules coroutines and learns
  what became of them from events. A request may be refused, or carried out
  with its answer lost.
* **Signals on the main thread.** The shutdown handler runs on the thread that
  also drives the broker's event loop.
* **Two copies of one fact.** The armed list and the price groups; the open
  keys and the positions; the executor's positions and the broker's; a candle
  and the mark that says that its day was fetched.
* **Stale values.** The floating result the guard holds is that of the last
  mark; the key check of a live entry is old by the time the order is answered;
  the offset of the MT5 server's clock is as old as the tick it was measured with.
* **Gaps.** Outages, crashes, weekends and failed requests leave holes that
  cursors, catch-ups, backfills and progress tables are to close.
* **The same thing twice.** The live strategy and its research original, the
  backtest and the account, three simulators of one challenge: each pair has to
  agree where it claims to.

### What makes each component correct

* *Risk guard*: no call leaves an account at or below its drawdown floor
  without declaring it blown; only a reset lifts a halt and only starting over
  lifts a breach; a trade it approves fits what is left of the day.
* *Exit rules and paper executor*: one position per key; a stop never loosens;
  what is left of a position is the whole less the targets taken; after a tick
  nothing is overdue; managed exits book the whole position; nothing is opened
  while halted, also not by an arm set before; arms do not stay for ever.
* *cTrader executor*: what it believes open is what the broker holds less fills
  in transit; a position is guarded against a second close only while one is
  under way; a key does not stay taken; an open position is closed in a flatten.
* *Runner and chat bot*: the flatten window ends with nothing open, whatever was
  armed, ordered, refused or in another thread's hands when it began; a shutdown
  terminates; the bot closes what was confirmed in time and nothing else; a
  pause holds across restarts.
* *Recorder*: an accepted trade is in the buffer, in a batch or in the table,
  and in the table in the end.
* *Feed and candles*: a history is in order and without doubles; an outage
  costs only the candles it covers; a feed that is silent is noticed.
* *Armed triggers and replay*: whatever is armed is watched, from after its
  candle to the end of its window, and no longer; the replay lets no arm see a
  tick of its own candle on a day that begins with indicators.
* *Warm-up*: an NSE process is awake before the open of the next trading day
  and has the candles its indicators need.
* *Archives*: what is archived is whole and rightly dated, what was missed is
  fetched again, and what is marked as fetched is stored.
* *Strategies, templates, CFD entries*: stops and targets on the right sides of
  the entry; signals as far apart and as few as configured; what a signal says
  happened before it did happen, on the same day; a live port enters where its
  original does.
* *NSE traders*: an agreement has as many voters as its name says, within the
  window, and is traded once; all positions are closed at 3:20 PM and none is
  opened after. *main_paper.py*: every trade is accounted for, also at the
  square-off and when its store fails, and the variants that share a candle see the same of it.
* *Exit models and backtest*: on one path, a result lies between the excursions
  stored with it; a stop bounds the loss; a trade that reached breakeven loses
  nothing; a tighter parameter leaves no later than a looser one; the backtest
  is no better than the account.
* *Challenge simulators*: an account said to pass is alive; they agree on
  trades that do not overlap.

## 2. Modules

```
TradingGate  <--implements-- RiskGuard --- PropFirmProofs
                                |
ExitRules   Sizing   RiskGuardOps           (pure operators)
    \_________|_________/    \
        PaperOps        CTraderExecutor (with its external broker)
            |                |
      PaperExecutor   CTraderExecutorProofs       CfdRunner
            |              (with FoldLemmas)          |
      PaperExecutorProofs                       CfdRunnerProofs
        (with FoldLemmas)

MCNse         NseTraders | MainPaper
MCStrategies  NseStrategies | ResearchTemplates | CfdEntries
MCResearch    LiveFeed (ReconnectingFeed + CandleBuilder) | ArmedTriggers
              | BacktestReplay (over ArmedTriggers) | TradeRecorder | Warmup
MCOffline     ExitModels | CfdExits (over ExitRules) | Challenge
              | Archives (Mt5Feed | CandleArchive | HistoryFetch)

ResearchProofs   LiveFeed | ArmedTriggers | BacktestReplay | TradeRecorder
                 | HistoryFetch
NseProofs        NseTraders | MainPaper
StrategyProofs   NseStrategies | ExitModels
PropFirmProofs   RiskGuard | Challenge        (all four with FoldLemmas)
```

`Lists` has the loops that filter or fill a list, as folds; `ArmedTriggers` and
`NseTraders` are written with it.

The last four MC modules check several models that share nothing in one run: a
variable chosen in the initial state says whose behaviour it is, and the
variables of the others stay at a constant (`|` above). In MCStrategies and
MCOffline a property names what the models have in common, with a case for each
of them; MCNse and MCResearch, and MCOffline for the challenge, check the
properties of their modules. Two models joined by `+` interact. The other MC modules give the constants of one module values.
An operator whose comment starts with "Planted fault" is no part of a model: it
is the mutated form of the definition after it, used to confirm that a run's
property would notice.

### CFD accounts

* **RiskGuardOps** holds the guard as a record and one operator per method;
  both executors contain such a record. **RiskGuard** is the guard on its own,
  driven by every sequence of calls, one action per public method. Money is in
  hundredths, percentages are integers, so that comparisons with limits are
  exact: the limits are compared as `100 * amount <= percentage * reference`
  (the code compares floats).
* **TradingGate** is the abstract specification of the guard: open, halted,
  over, with the two events that reopen it. `RiskGuard!GateSpec` maps status,
  number of resets and number of restarts onto it.
* **ExitRules** is `evaluate_exit`, `apply_dynamic_stop`, `update_excursion`,
  `time_stop_reached` and the plans `ExitPlan.__post_init__` lets through.
  Fractions are units of `Whole`.
* **Sizing**: lots for a budget, rounded down, at most the maximum.
* **PaperOps** translates every method of `PaperExecutor` as an operator from
  an executor record to an executor record, with all it calls: a tick checks
  the arms, manages the positions, and marks the account, in that order. The
  loops over `self._arms` and over a snapshot of the positions are folds
  (`CheckArms`, `AgeArms`, `Pass`), so that a pass sees what its own earlier
  rounds did to guard and keys.
  **PaperExecutor** turns each into one action and lets the callers come in
  any order.
* **CfdRunner** is the process around a paper and a live executor. What
  PaperExecutor and CTraderExecutor do in one step is cut where CPython may
  switch threads: a fill into position and key, a close into status, booking,
  removal; snapshots (`list(...)`) are atomic, as they are under the interpreter
  lock. The main thread's callbacks, the monitor's and the bot's flattens
  interleave there; the signal handler takes the main thread away anywhere, and
  what it interrupts never goes on. Coroutines and broker events only run while
  the main thread is in its loop. Of a position only its key and its stage are
  left: prices, sizes and guards decide nothing about who closes it, so a signal
  may be filled, armed or declined, and an order be filled or not. The chat bot
  keeps its pending command and the pause flag in its two copies and its file.
* **CTraderExecutor**: the executor's methods and the broker as an external
  party that answers requests with ok, refusal, or "done but the answer was
  lost", hits stops and targets it holds at any time, and reports fills.
  Requests and messages of one position keep their order. The list of arms is a
  function from keys, so a tick that reaches several submits them in any order.
* **CfdEntries**: the entries of the research replay and the live strategies,
  two of them ports of such entries, given the same candles; the port may miss
  some, starts in the middle of a session with little history, and is reset by
  the monitor when the day rolls.

### Feeds, candles, research

* **ReconnectingFeed**: the main thread's loop (subscribe, watch, give up,
  wait, end) and consume threads that deliver, are blocked, or have ended, with
  the one event they all signal their end through. **CandleBuilder**: candles of
  several timeframes known by their opening times, history, stale gaps, late
  ticks. **LiveFeed** composes them: ticks that the feed hears become candles on
  top of the injected history, while other instruments keep the connection
  alive or not.
* **ArmedTriggers**: armed list, groups and triggered set of one instrument;
  one action per tick, per candle (expiry, arming, rebuild, in the
  orchestrator's order) and per new day. **BacktestReplay** drives the same
  operators by the replay's timeline: a candle, four ticks made up from the
  next one, the longer candles that end with it. A day begins with any of
  several lengths of warm-up; a candle for which there are no indicators yet
  (`EarlyCandle`, `PassOver`) arms nothing, is followed by no ticks, and does
  not move on the index that the next ticks are taken at.
* **TradeRecorder**: three threads, the lock's critical sections as steps, the
  write outside the lock, refusals, the timer and the stop.
* **Warmup**: the sleep until the next trading day and the requests of the
  warm-up: the calendar days asked for, both interfaces, retries, the cut.
* **ResearchTemplates**: the NSE research's templates, one object of which
  serves all timeframes; a behaviour follows one template over candles of two
  timeframes, given to it in the order in which they are completed.

### NSE paper trading

* **NseStrategies**: one operator per strategy, from what it keeps and a candle
  to what it keeps and says. Indicators are inputs: a candle brings any answer
  they may give. A behaviour follows one strategy, since they share nothing, for
  two days; the time of day is a phase, because every comparison with the clock
  is one with the same few hours.
* **NseTraders**: all traders of the day for one instrument, the tracker that
  looks for agreement, the feed (signals and ticks) and the timers. A timer's
  pass closes one position per step, with ticks and signals in between; a tick
  is one step. Quantities and brokerage are left out.
* **MainPaper**: `main_paper.py` for one instrument: regimes, RSI, entries and
  exits of both variants, the square-off, crashes and restarts within a day. A
  tick is handled by the orchestrator before the candle builder, so a candle it
  completes is evaluated after the exits; a tick of the volatility index
  (`VixTick`) returns before them. The store is a database or a file: a load may
  fail and then reads like an empty store, a save may be lost, a database out of
  reach raises in the middle of a close (`Passes`), and a file that cannot be
  read is overwritten. Which way a trade goes is left out, since exits only say
  whether a price has been reached.

### Archives and offline studies

* **Mt5Feed**: terminal, client, cursor, offset, candles, archive and backfill
  over crashes, broken connections and a weekend. A tick is known by its time;
  the terminal stamps it with another clock, whose distance the client only
  guesses. **CandleArchive**: the same question for the feed that pushes and
  repeats nothing, whose backfill from bars runs beside the ticks.
  **HistoryFetch**: both downloads with their progress tables, over runs that
  overlap, fail and are broken off. **Archives** joins the three.
* **ExitModels**: the models of the exit engine as one operator each, from a
  trade and a candle to a trade, all advanced together over candles of any
  shape. The code runs each over the whole path; in lockstep their stops and
  results can be compared at every candle. Prices are offsets from the entry in
  the trade's direction, since the LONG and SHORT branches mirror each other;
  an indicator exit sees any answer of its indicator.
* **CfdExits**: one CFD signal resolved by the backtest, by the exit models of
  the research and by the paper account (its tick handling, from ExitRules) over
  the same bars, whose extremes may come in either order.
* **Challenge**: the sequential, the concurrent and the portfolio simulator fed
  the same trades in lockstep, beside the account itself, in which all open
  trades may be at their worst at once. With a calendar limit the sequential
  simulator looks at the time of entries, the concurrent one at that of every
  event.

### Plan

Done: every module above. What is left, in the order in which it would add most:

1. Several accounts of a kind on one broker account, and accounts that raise
   (`multi_account.py:125`).
2. Proofs: the parts of `GapsHealed` that are about the two feeds, the backtest
   beside the account (`ModelsComparable`), the templates and the CFD entries.
3. An abstract specification of a candle archive (what was traded, whole and
   once) that both feeds implement up to their excuses.

## 3. Runs

| run | bounds | what it shows |
|---|---|---|
| `risk_guard` | account of 100, limits 10 % and 20 %, three realized and three floating amounts, two days, two restarts-or-resets | the guard's invariants in every order of calls, and that it implements TradingGate. A loss of 8 twice passes the daily limit, three times the maximum one; a floating -12 does it in one gap |
| `paper_executor` | three plans (two targets with breakeven; short with time stop; half off and trailing), prices 2..7 with a risk distance of 1, four signals, two days | the invariants of the executor. Four signals are enough for every key to be open or armed at once and one to be refreshed or traded again; the price range covers the stop, both targets, a gap past each, and beyond; two lost trades blow the account |
| `cfd_runner` | one strategy, two instruments to ask about, two signals per process, two slots of time of which the second is a flatten window, any number of chat commands and restarts | with three threads and a signal handler: booked before removed; flat in the window; termination; confirmations; pause. Two signals let a position be filled while an earlier one of its key is being closed, or be armed behind it |
| `ctrader_executor` | one order (managed or simple plan), every answer to every request, real or missing accounting | bookkeeping and guards through every outcome; liveness of the flatten |
| `nse` | bot: three strategies, one of which sells too, three signals, two prices a stop apart, a day in which the window passes, the last entry and the square-off one apart. main_paper.py: a day of eight moments with seven candles between them, an hour being one candle, low and middle RSI, low volatility, all three structures, a history and a volatility of two candles, two starts, each with either store, one trade that is counted again | the bot: agreements, nothing traded twice, everybody flat in the end. Three signals are enough for both agreements, for a repetition of one voter, and for an agreement after the window. main_paper.py: positions whose time is up leave on a tick, both variants see the same candle, every trade is accounted for over a restart, failed loads and saves, and the square-off. The second start is what a failed load, or a file that was overwritten, needs |
| `strategies` | NSE: two days of up to 6 candles, cooldowns and a squeeze of 2 candles, a chop window of 3, prices 1..4 for the range, an indicator before, at or behind the price. Research: two days of six slots, timeframes of one and two slots, an opening range of the first candles, nine candle shapes over four prices (bodies, hammers, stars, a spinning top, two dojis). CFD: two days of ten candles with the session in their midst, two starts, a gap of one candle | where stops are, what is between two signals and what was before each, in every strategy of both markets; and that a live port that saw everything enters where the research does (gaps and restarts within the session or day, `intact`, and entries of the replay outside the port's slice, `outside`, are excluded). Six candles hold a squeeze, its breakout and another attempt past the daily limit, or two crosses with the cooldown between them; the second day shows what a reset forgets |
| `research` | feed: time 12 in halves of a five minute candle, timeframes of 2 and 6, a history of two, silence of 2, one abandoned thread, one retry. Arms: variants of two timeframes, windows of 1 and 2 candles, two levels, four candles; the replay's days begin with 0, 2 or 4 stored candles and indicators need 3. Recorder: three trades, two with one dedup key, buffer of two. Start: any moment of four in the third week of three, up to two holidays in the two weeks before, 50 candles needed, two tries | the research process from its start to its records. Twelve units hold an outage that passes a candle of each timeframe and the end of the longer one. The week after two with two holidays holds the longest weekend the warm-up's table of days has to bridge |
| `offline` | exit engine: 29 models, 9 candle shapes (up to two R, spikes, gaps each way), paths of up to 5 candles. CFD: five plans (both sides, one and two targets, breakeven, trail with time stop, an arm), 7 bar shapes, 4 bars. Challenge: trades that lose, win, and lose after a worse dip, three days of two slots, four trades, static and trailing limits, one set of rules with a calendar limit. Archives: polled week with trading at 1..4 and 16..18, server clock 4 ahead, two starts, one fault; pushed feed of 8 units, lookback 4, debounce 3, two starts, two troubles; three days of two pieces, three runs, one fault | results within reach, models and engines that compare, passes that are alive, simulators that agree, and archives without a hole. Five candles take every partial model through its three targets and into the trail; the weekend is longer than the client's plausible offset is wide; two troubles are a crash or an outage during the backfill of another |
| `paper_flatten_books_nothing`, `regime_locks_out`, `triggered_stays_watched`, `misdated_candles` | as the run of the same model | a statement of the code's own comments that the code does not keep (section 5) |

All runs say `CHECK_DEADLOCK FALSE`, because their programs do stop: calls,
signals, orders, days, positions or trades are bounded, and a process that exited
does nothing. What must not stop early is a liveness property of its run.

A module's type invariant is a property of its own where a theorem states it
(`risk_guard`); elsewhere it is the first conjunct of one of
the module's invariants, named there.

### What an archive is excused from

`GapsHealed` says of each source what its own documentation promises, and the
conditions in it are those the code cannot do without:

* *Polled feed*: every archived candle but the first was made from every tick of
  its interval, and no interval between archived candles with ticks is missing,
  unless the offset was wrong when it mattered, a poll came later than its
  window reaches back, the last ticks before a close were never polled, a
  catch-up was broken off by another outage or capped at its longest span, or
  the backfill was put off because nothing could be measured. A candle that
  ended with the ticks of a session is only written when the next tick comes,
  and dropped for a stale one (`LeftQuiet`).
* *Pushed feed*: a hole that is younger than the lookback when a backfill runs
  to its end is healed, and a row the backfill wrote is whole. Rows the builder
  wrote from half a candle stay (section 5).
* *Downloads*: of a day that a run has passed without an error, everything there
  was is stored, unless (`spoiled`) the day was fetched before it was over, its
  answer or file was damaged or missing, the store refused its write (the code
  marks it all the same), or it lay, itself unmarked, in a chunk whose first and
  last day were marked (`backtest/fetch.py:195-201`).

### Fairness

* `PaperExecutor!FairSpec`: candles of an instrument with arms keep coming. The
  candle builder emits one per interval while the feed is up.
* `CfdRunner!FairSpec`: a thread inside a call runs on (`MainRuns`, `PassStep`),
  time passes, the monitor wakes up (every 15 s, `main_cfd_paper.py:768`, and
  runs on, `MonitorRuns`), orders are answered, and of the closes that are
  scheduled again and again one is accepted some time (strong fairness of all
  coroutines together). The 30
  seconds of a confirmation (`HalfMinute`) may pass at any time. Candles, signals, ticks, chat commands, process signals and
  restarts are not fair.
* `CTraderExecutor!FairSpec`: the loop keeps running, so coroutines and events
  are handled; the broker answers every request, and a close that is asked for
  again and again is accepted some time (strong fairness); the flatten window
  re-issues its flatten on every pass of the monitor while anything is open
  (`main_cfd_paper.py:815-819`).
* `MCNse!NseSpec` (the bot's traders): the clock runs and so do the timer
  threads, some timer of a trader with open positions at a time. Passes of
  different traders share nothing but the last price, so the model runs one
  after the other. Signals and ticks are not fair, and nothing is asked of
  main_paper.py.
* `MCResearch!ResearchSpec`: the main thread of the feed goes on and time
  passes; consume threads, ticks and the broker are not fair. The recorder's
  threads run, its timer is rescheduled, and a write that is retried for ever
  succeeds some time (strong fairness).

## 4. Proofs

`PropFirmProofs` is about the two places that apply a prop firm's rules. Of the
live guard it proves, for every limit, balance, amount and clock:

* `TypeCorrect`: `Spec => []TypeOK`. The lemmas say what each record operator
  returns, so each action is one short case.
* `DrawdownSafe`: `Spec => [](AboveFloorUnlessBreached /\ OneHaltPerDay)`, and
  `HaltsOncePerDay` for the second part on its own. The
  floor part alone is not inductive over a reset: the proof carries that the
  status is the one a check would yield.
* `ApprovalSafe`: a trade the guard approved fits, lost in full, what the day
  leaves. It needs the balance at the time of approval to be tied to the guard's
  record until the next call.
* `ImplementsGate`: the refinement of TradingGate, initial states and every
  step, from the type invariant.

Of the challenge simulators, for any trades (their results, excursions,
instruments, times), targets, drawdown limits, modes, calendar limits, caps and
length of the day:

* `PassedAccountsLived`, `ChallengeSpec => []PassMeansAlive`;
* `SimulatorsConcur`, `ChallengeSpec => []SimulatorsAgree`.

Neither says how a simulator that has not passed yet stands to the account, so
neither is inductive. The invariant, `ChallengeInv`, says it for each simulator
while it is in phase 1. The concurrent one (`ConcFollows`) has the account's
balance, day and open trades, was at least as deep, and is above both floors with
everything that is open at its worst; only on a day of which it has seen no event
yet may the account have hit the day's floor, and then the simulator will be
below it at its first close. The portfolio's (`PortFollows`) is the same beside
the account with the trades it took, with nothing said of a day into which a
trade was carried. The sequential one (`SeqFollows`) looks back: with one trade
open at a time, whatever the account may have touched meanwhile it still touches
when the trade closes. For agreement, `Alike` says that the concurrent simulator
is where the sequential one will be once the open trade is entered. With a
calendar limit that is so until the concurrent one gives up (`GivenUp`): it
looks at the time of closes too, so it gives up no later than the sequential one,
which may decide yet; from then on the theorem claims nothing, as the code would
not keep it. A slot is a
fold of closes in the order of entry, so each of these has a form for the moment
between two closes (`InMidst`), proved close by close over the subsets of what
closes. That closing a trade never brings an account nearer to a floor
(`ClosingHelps`) is where it matters that a trade's result is never below its
adverse excursion. It assumes `ChallengeParameters`, which has that, and that a
calendar limit is at least a day.

`CfdRunnerProofs` proves `ClosesAreBooked`, `Spec => []BookedBeforeGone`, for
any strategies, instruments, windows and number of signals. The invariant has
four parts. For the paper executor it says what each thread knows at each of
its steps: a position in a thread's hands, or still to be visited, is held or
booked already by another thread; after its status was set it is closed; before
it is dropped it is booked. That is what makes a second close harmless to the
books. The live part carries that the number of a new signal has no
position before the live executor's turn, the chat part that there is a command
while one is fresh, and the last that nothing is left in memory once the process
is gone. It assumes `CfdRunnerAssumption`, in particular that "all" and
"none" are not instruments. From the same invariant `ChatMeansIt` proves the
action property `ChatCommandsHold`: a confirmation closes what was asked for
last, and a process started while paused takes no signal before `/resume`; what
is pending and what the user last asked for stay the same through every step.

`ResearchProofs` is about the research process and the downloads:

* `CandlesInOrder`, `LiveSpec => []HistoryInOrder`, for any timeframes, ticks,
  outages and injected history. The invariant, `LiveInv`, adds that whatever this
  process completed is earlier than the candle in progress: injected history may
  hold the period the process began in, and doubles before it are not its own, so
  the order is about what came after.
* `ArmsAreWatched`, `Spec => []ArmedIsWatched`, and `ArmsExpire`,
  `Spec => []WindowsRespected`, for any variants, windows, levels and limit on
  the arms of a direction. The invariant, `ArmsInv`, says that everything in the
  list is alive (of a variant that has not triggered today, and younger than its
  window), that each group holds arms of its own level only, and that every arm
  of the list is in the group of its level. The groups may hold more: another arm
  of a variant that triggered stays in its group until the next candle (see
  `triggered_stays_watched`), so what a tick finds in a group is not all in the
  list. The replay calls the same operations in another order;
  `ReplayLooksBack`, `ReplaySpec => []WindowsKept`, adds that the candles a
  timeframe has been told of never run ahead of the replayed bars. Otherwise an
  arm would meet made-up ticks of its own candle. On a day whose warm-up is too
  short the ticks do lag: the index is behind the bars by the candles that had no
  indicators (`Lagging`), at most as many as the warm-up lacks (`Skipped`), and
  the theorem bounds what an arm may meet by that number. On a day that begins
  with indicators it is zero.
* `RecorderLosesNothing`, `RecorderSpec => []NothingLost`, for any trades, keys
  and buffer size. The invariant says what a flush knows: from the copy to the
  trim its batch is the front of the buffer, and after the write its trades are
  in the table.
* `DownloadsWhole`, `FetchSpec => []NoSilentHoles`, for any days, pieces, runs and
  faults: what is owed is stored or spoiled, with the excuses listed under
  "What an archive is excused from" (days fetched before they were over, damaged,
  missing or refused ones, and those between two marked ones). The invariant adds that what a run
  has marked or passed over is settled in that sense, because runs mark days that
  another run wrote. It is the download part of `GapsHealed`.

Each assumes the named parameters of its module, which the runs `research` and
`offline` evaluate for their instances.

`NseProofs` is about the traders of the NSE bot, for any strategies, prices,
distances, window and times of the day:

* `AgreementsAreEarned`, `Spec => []ConfluenceEarned`;
* `NothingTradedTwice`, `Spec => []TradedOnce`.

A position keeps the names of the strategies it was traded on; that these had
signalled in time follows from what waits in the buffer: every vote there was
given, at the time it carries (`Votes`). That one agreement is not traded twice needs
that no position of an agreement's trader is later than the time the agreement
last fired, while a refused trade moves that time on all the same (`Fired`). And
that a trader never holds two of a side rests on the check at the opening and on
nothing reopening a position: the timer's pass, interleaved with ticks and
signals, closes only positions that are still open (`TimerKnows`). It assumes
`TradersParameters`, which has that the last entry is before the square-off and
that no strategy has the name of an agreement's trader.

Its second part is about main_paper.py, for any instruments, limits of the
sessions, history and candles:

* `VariantsAgree`, `PaperSpec => []SameCandleSameView`;
* `TradesAddUp`, `PaperSpec => []TradesAccounted`;
* `OverdueLeaves`, `PaperSpec => []OverdueLeavesOnTick`.

A tick does up to three things in order: it checks exits, squares off, and
completes a candle on which both variants are evaluated. The invariant,
`PaperInv`, says that a variant has at most one trade, that a process that is not
there has none, and that the square-off happened when the sessions were over;
only that keeps the candle completed by the very tick that squares off from
opening a trade nothing would ever close. A close counts a trade before it saves
it and removes it after that, so `TradesAccounted` says of the books what the
failures leave: a trade is counted once more for every time the store raised, the
cumulative result is the store's if nothing failed, no less than the store's if
the earlier results were loaded, and this process's own if they were not.
`OverdueLeavesOnTick` is about ticks of traded instruments on which the store did
not raise; `looked` says that such a tick has come since the time passed. It assumes `PaperParameters`: among
others that the morning session is over within four hours of the opening, which
bounds what a trade has left.

`StrategyProofs` is about the five strategies of the NSE bot, for any prices,
ranges, distances, cooldowns, windows, limits, warm-up and number of days and
candles. It proves what the `nse` case of `StopsLose`, `Rationed` and
`CausedToday` says of them in the run `strategies`:

* `StopsStraddle`, `Spec => []StraddlesEntry`;
* `SignalsAreRationed`, `Spec => []SignalsRationed`;
* `BreakoutsLeaveTheRange`, `Spec => []OrbBreaksOut`;
* `CausesAreOfToday`, `Spec => [](CauseOfToday /\ SqueezeBeforeBreakout)`.

What a strategy has of today is its state if it was reset today, and a fresh one
otherwise; the invariant, `StrategyInv`, relates that to what the day has shown.
The range is spanned by two prices of the formation and holds all others, and it
is ready only after the formation (`OrbKnows`): a reset that came late would leave
yesterday's range there. The candles since the last signal are counted no faster
than they come, although those outside the entry hours are not counted
(`VwapKnows`, `EmaKnows`). While a squeeze may still be traded, its count is at
most the length of the streak, which needs that it is nothing until the entry
hours have begun and the history is long enough: candles before that, and those
of the warm-up, interrupt a streak without the strategy noticing
(`SqueezeKnows`). It assumes `NseStrategiesAssumption`.

Its second part is about the exit engine, for any ATR, candle shapes, length of
the path and parameters of the delayed, timed and swing exits:

* `LossesEndAtTheStop`, `ExitsSpec => []LossBounded`;
* `BreakevenHolds`, `ExitsSpec => []BreakevenLocksIn`;
* `ResultsWerePossible`, `ExitsSpec => []WithinExcursion`;
* `TighterExitsFirst`, `ExitsSpec => []TighterLeavesFirst`.

Three kinds of trade are told apart. One that sells nothing before it is out has
its stop between its first stop and the last close (`Sound`): that the stop of an
open trade lies below the close is what makes leaving at it, in whichever candle,
a price the path offered. One that sells parts at targets has booked no more than
those parts at the best price (`PartSound`), at each of the nine combinations of
targets and parts left (`Stages`): this is what the end of the day rests on, where
a part may count as sold at its last target or at entry. One without a stop is
only in or out (`FreeSound`). Each operator of the model is shown to lead from one
such trade to another along a candle (`Leads`), the path included: its worst and
best price, the lows the swing trail looks back on, and whether it had a gap.
`TighterExitsFirst` needs more than the order of the stops, which a candle would
not preserve: two tied models have seen the same best price and the same breakeven
(`Tied`), and the ATR trail is never further behind its best price than 2R, which
its looser first stop alone would not say (`Orderly`). The proof assumes
`ExitModelAssumption`.

`PaperExecutorProofs` proves four properties for any signals, prices, limits and
order of the callers:

* `KeysKept`, `Spec => []OnePositionPerKey`;
* `EverythingBooked`, `Spec => []NothingVanishes`;
* `DueIsClosed`, `Spec => []NothingOverdueAfterTick`;
* `HaltedOpensNothing`, the action property `NoEntryWhileHalted`.

They share one invariant, `PaperInv`. It says of the executor record that it is
consistent (types; positions with keys of their own, which are the open keys;
arms with keys of their own, none of them open), that what is left of each
position is the whole less the targets it took, and that nothing is overdue.
None of the four properties is inductive alone: a fill from an arm keeps the keys
apart only because no arm has an open key, and what a target may close is its
full fraction only because the fractions of a valid plan add up to at most the
whole (`RoomForTargets`). A method is a fold over arms or positions, so each has
an invariant of its own for the prefix it has been through (`ArmsDone`,
`PassDone`, `ArmsAged`), proved round by round. That a halted account opens
nothing follows every fill back to the guard's check in the same step, with the
lemma that no check, booking or mark takes a guard back to trading.

`CTraderExecutorProofs` proves two properties for any number of orders, any
signals, prices, volumes and answers of the broker:

* `NothingStaysStuck`, `Spec => []NothingStuck`;
* `RemainderKept`, `Spec => []RemainderTracksBroker`, the variables' types
  included.

Neither is inductive alone. That the executor's remainder is the broker's plus
the fills on their way holds after an opening fill only if that fill comes before
any closing one and finds a position nobody has taken from. A guard against a
second close may rest on a request alone only if what the request asks for is at
least what the broker still holds, whatever targets and stops take in between;
otherwise the close would be answered, the guard kept, and nothing left to lift
it. And that a key is held by a position of its own needs that a key is freed only
by the position that has it. The invariant, `LiveInv`, says this per order as one predicate
(`Coherent`) of the order's entry, position, requests, messages and the broker's
record: what may be asked (`Asks`), answered (`Answered`), filled on opening
(`Opens`), what adds up (`Balanced`) and what keeps a guard (`Guarded`); beside
it are the types and `KeysHeld`. Each transition of one order has a lemma that it
keeps `Coherent` (`Placed`, `Amended`, `CloseReported`, `ServerExited`, `Filled`,
`Finalized` and so on), which speaks of values, not of variables; each action of
the executor has a lemma that says which transition every order goes through.
The assumptions are those of `LiveAssumption`. TLC finds `LiveInv` to hold in
every state of the run's instance with one order, and in simulated behaviours
with three.

`FoldLemmas` has what these proofs need about data, for all inputs: induction over
the naturals and over the subsets of a finite set, derived from the well-founded
sets of the library and stated with sets, not operators, so that they can be
cited; that functions defined by recursion over subsets exist, which is what
every fold of the community modules is; sums (of one more element, of a union, of
a part, under other names); least and greatest elements; steps of a fold from left
to right, and from them what `FillUp` and `Among` keep of a list; and that
`SetToSeq` lists a set. The prover has no definition of `SelectSeq`; the modules
that are proved about filter with folds instead.

Everything else is model-checked only. Out of the prover's reach are liveness
under fairness and ENABLED: that arms expire, the windows end flat, an open
position is closed, records are stored, a dead feed is noticed. Every invariant
and every action property that a run checks of the CFD accounts and their
process, of the NSE bot and of main_paper.py is proved, and of `research` all but
ReadyAtOpen of the warm-up, which is about the numbers of the code: it would not
hold for every number of candles and every calendar. The invariants of `strategies` and of `offline` are over
several models at once, selected in the initial state; of them the NSE strategies,
the downloads, the exit engine and the challenge simulators are proved about. TLC alone checks the rest,
whose state is bounded data rather than unbounded parameters, and TLC goes through
all of it. No module here declares a RECURSIVE operator.

## 5. Divergences

Checked by a run that violates the quoted statement:

* A flatten closes positions without recording a leg for the remainder, so its
  result is not booked (`paper_executor.py:396`, comment at 349).
* A variant whose regime check fails does not evaluate, and with that never
  updates the regime again; the other variant sees what is left of it
  (`main_paper.py:1517`, docstring 286 "Updated on each candle close").
* A variant armed on both sides of a range stays in the price group of the other
  side after it fired, until the next candle (`execution/tick_engine.py:149-153`,
  docstring `armed_state.py:9` "immediately removed from watch list").
* A process that starts up to 14 hours after the last tick takes the age of that
  tick for a part of the server's offset, and its startup backfill archives
  ticks under wrong times (`broker/mt5.py:146`; `main_mt5.py:256` "never the
  weekend fallback, which would misdate").

Seen while modelling, present in the models (or left out of a property with the
reason given there), without a run of their own:

**CFD accounts and process**

* `add_realized_pnl` checks limits with the floating result of the last mark,
  which still contains the position being closed; one loss counts twice, and an
  account may be declared blown whose equity never was at the floor
  (`risk_guard.py:264`, docstring 16-19). The daily reference may be taken from
  a floating result that a flatten or a time stop left behind (457).
* The shutdown handler waits for coroutines only its own thread can run
  (`main_cfd_paper.py:1014`, comment 1008-1009): the wait ends by its timeout,
  the closes are not sent. It also abandons what the main thread was doing: a
  close whose status was set but that was not booked is never booked
  (`paper_executor.py:336`).
* `/pause` and `/resume` set a copy of the flag the candle handler reads
  (`telegram/bot_commands.py:749`, docstrings 592 and 713): without a restart
  they have no effect.
* Two threads may close one position twice (`paper_executor.py:396`; the comment
  `main_cfd_paper.py:812-813` says closes are guarded). The second close frees
  a key that may belong to a new position by then. A key that is added after
  another thread already closed its position stays taken (`paper_executor.py:295`).
* An arm set before still fills inside the flatten window and while paused
  (`paper_executor.py:180`; the docstring `main_cfd_paper.py:702-706` says the
  window "gates NEW entries"); the next pass of the monitor closes it again. An
  arm passed by a gap is filled at its trigger price, also when the market is
  worse (203, comment at 202).
* `max_open_risk_pct` (`risk_guard.py:85`) is read by nothing on the way to an
  order.
* `CTraderExecutor`: an opening fill handled before `place_order` returns is
  dropped (490); a refused amend is not repeated (411-416); nothing reserves a
  key between an order and its answer (204, 384); a close booked from its legs
  does not move `_last_real_balance` (657); sizes come from the configured
  balance (178, comment 163-164).

**CFD strategies, backtest, research**

* `session_orb.py` says that 1R is "the range size" (20-21); it is the distance
  from the close behind the breakout to the range's other side. A strategy that
  starts in the middle of a session takes the rest of it for the range; one that
  missed the last five minute candle of a quarter of an hour aggregates by
  count. The target of a
  gap fade, the close of the day before, may lie on the losing side. An entry on
  the last candle of a day has no future and is dropped
  (`cfd_research/entry_replay.py`); one on a longer timeframe is timed by the
  start of its bar.
* The RSI2 and USDJPY ports fire with their originals only if they saw every
  candle (`cfd_strategy/strategies/rsi2_reversion.py:122-134`, 191;
  `usdjpy_orb.py:241`): cooldowns count candles handed over.
* `cfd_backtest/exit_simulator.py` "resolve exits identically" and "never
  flatters results" (4-7, 19), but it applies no breakeven, no trail and no time
  stop, and the rest of the bar of an intrabar fill does not test the stop.
  `ModelsComparable` compares it with the account for plans without an exit
  policy that are filled at the close.
* The sequential challenge simulator understates the day's drawdown of trades
  carried overnight (`challenge_sim.py:15-18`); trades that touch are opened
  before the earlier one is closed; phase 2 counts trades that were open when
  phase 1 passed; the portfolio simulator counts the days of trades it rejected,
  and takes a carried trade off before it looks at the drawdown of the day in
  which it closes (`portfolio_sim.py:225`; docstring 20-22 "never understates");
  `monte_carlo_portfolio` may draw a starting point twice. With a calendar limit
  the sequential simulator compares the time of entries with it
  (`challenge_sim.py:308`), the concurrent one that of every event (415), so a
  challenge may end by the limit in one and be decided in the other (docstring
  368 "Identical rules to `simulate_phase`"). The guard's daily
  reference is equity, the simulators' is realized.
* `strategy/cfd_indicators.py` is imported by nothing.

**Feeds, warm-up, archives**

* A consume thread that was given up on signals the shared event when it ends,
  and its successor is taken for ended (`broker/reconnect.py:235`, 243). The end
  of a consume resets the retry count, so the back-off never grows; a feed with a
  limit of retries does not reset them after a healthy session, and its end
  leaves main without `orchestrator.stop()`.
* `os._exit` at the close of the market skips the recorder's last flush
  (`broker/reconnect.py:161`), and with it the 15:35 report of `main_paper.py`.
* Overlapping flushes of the recorder write one batch and trim the buffer twice;
  the second trim takes off trades nobody wrote (`trade_recorder.py:190`, comment
  188-189). `NothingLost` is about flushes that do not overlap for that reason. A
  handler under way at `stop()` may record after the last flush.
* Ticks before 9:15 are skipped by the orchestrator but build candles, which are
  evaluated. The warm-up may inject the candle that is forming, and an empty
  answer of the old API counts as success; after a long weekend a restart has
  fewer five minute candles than asked for; the daily candles are asked for in
  calendar days.
* MT5: the cursor is in server time; replayed ticks take the trading path in the
  CFD runner; a catch-up longer than its cap or a late poll loses ticks
  ("guarantee gapless", `config.py:48`); a reconnect before the first tick has
  no cursor, so its gap is not caught up; ticks between the last poll and the
  close are never asked for; after a failed `initialize` the client answers None
  for ever, which counts as healthy; a deferred backfill is never run if the
  offset is measured after the market reopened; a refused write leaves a hole.
* cTrader: a reconnect within the debounce has no backfill and no retry, so gaps
  may last (`main_cfd_paper.py:973`, comment 224-226 "linger"); a host that
  booted less than 30 minutes ago skips the startup backfill; holes older than
  the lookback are never healed; candles half built at a start, a crash or a
  short outage are archived, and never replaced.
* Downloads: `ResearchStore` swallows its errors and the day is marked as done
  (`backtest/fetch_dukascopy.py:151-155`, docstring 12-13 "a day with holes is
  never stored"); a damaged file or a 404 counts as an hour without ticks; a day
  fetched before it is over is marked; `fetch.py` skips a chunk whose first and
  last day are marked.

**NSE bot**

* The NSE strategies get a history that already holds the candle that completed
  (`candle_builder.py:179-184`) and append it again. For SuperTrend the last two
  bars are then one candle, so a change of direction from the candle before is
  not seen as a flip (`supertrend_strategy.py:99`, docstring 6 "Entry on
  SuperTrend flip"); the others weigh the last candle twice.
* The replay of the history that is to tell BB_Squeeze whether a squeeze was in
  progress is wiped by the reset on the first candle (`bb_squeeze.py:348`,
  docstring 84-91). A VWAP/RSI recovery may span several candles, because the
  last RSI is not kept during a cooldown (`vwap_rsi.py:120`). An EMA signal that
  the CPR filter blocks starts a cooldown (`ema_crossover.py:178`). The last
  candle of the opening range is in the range only if the next tick comes before
  9:31 (`orb.py:98`). The CPR levels of the first instrument filter the signals
  of all of them (`main.py:428-434`).
* The stop of an agreement is the tightest of its voters', and may lie beyond
  the averaged entry price (`paper_trader/confluence.py:137-146`): the position
  is closed on the next tick, at a stop that is better than its entry.
* A tick and the square-off timer may close one position twice, the second
  overwriting exit and reason (`paper_trader/engine.py:333`, 497). The close
  events of a tick are one step in the model, so a tick never overwrites a
  square-off there. `_find_opposing_position` and `ConfluenceTracker.reset_daily`
  are called by nothing.

**main_paper.py**

* Variant 1 updates the regime before variant 2 is asked; the previous RSI moves
  on only when a variant evaluates (913); ATR histories are kept per variant.
  The shutdown handler reads a key that the statistics lack (about 1731). The
  daily reset in `_on_tick` is never reached, since the process ends each day. A
  restart forgets open positions. No variant uses
  `evaluate_vpa`, `evaluate_trend` and `evaluate_bb`.
* A tick of the volatility index returns before exits and square-off are looked
  at (1454-1456, comment 1462 "Check exit conditions on every tick").
* A failed load of earlier results counts as none (506-508, 540), so the
  cumulative result starts anew; with the file, the next save writes only what
  was loaded (513-519) and the earlier trades are gone.
* A database that cannot be reached raises while a trade is being closed (469,
  490). The trade has been counted by then and stays open, the rest of the tick
  is skipped, and the next tick counts it again. A save that fails otherwise is
  logged, and the trade is missing from the store.

**Research templates and replay**

* `vpa_template.py:61` takes the candle itself for the one before it, so an
  engulfing pattern is never found (docstring 5-7); `bb_template.py:77` counts
  the candle twice; `orb_template.py:92` lets candles after 9:30 widen the range
  (docstring "9:15-9:30"); a trend that turns over directly keeps
  `in_pullback`, and `_trend_direction` is never read. Live,
  `update_opening_range` and `set_prev_day_close` are called by nothing (only by
  `backtest/replay.py:329`, 363). The snapshot of the tick engine is the last of
  any timeframe. `main_research.py:267` resets back and forth while stamps of
  two days mix.
* A candle for which `indicator_engine.on_candle` gives nothing leaves the loop
  before the index of the ticks is moved on (`backtest/replay.py:373-388`,
  423-424), so on a day that begins with fewer than 29 candles of warm-up all
  later ticks come from candles that are as many too old, the arm's own or older
  ones (comment 421 "Synthetic ticks from NEXT 5m candle"). It takes 30 candles
  (`indicators/engine.py:120`), and the warm-up is the last 50 five minute candles
  (299): the 15 minute timeframe has its first indicators on the fourteenth
  candle of the day or later, and the 30 minute one, with 8 warm and 12 of the
  day, never.
* The replay's arms of longer timeframes miss the ticks of the next five minute
  candle, `_aggregate_candles` groups by count, and "One open position per key"
  does not hold with `record_all_signals`.

**Exit engine**

* `simulate_step_trail` sets the stop at -1R, -0.5R and entry for +1R, +2R and
  +3R; its docstring (`exit_engine/models/chandelier_exit.py:131-134`) promises
  half an R more at each step.
* `simulate_partial_a` trails the rest from a stop of 1.5 ATR below entry; its
  docstring (`exit_engine/models/partial_exit_models.py:30`) says that stop is
  moved to the entry. `simulate_partial_b` and `_c` book the rest of a position
  at the entry when a target before the last is hit on the last candle; a close
  at the market would be better.
* Every exit model fills its stop at the stop, also when a candle opens beyond
  it, so results may be better than any price of the path (WithinExcursion is
  about paths without gaps for that reason).

## 6. Not modelled

Listed per component in `PROJECT.json`. In short: the wire formats of the
broker clients, the reports of the stores and the notifiers are I/O; indicators
and scoring are numerical functions, whose results the models take as any
admissible input; the parameter sweeps, statistics and reports of the research
are floating-point summaries; `main.py` and the comparison and promotion tools
are wiring. Of the runner, several accounts of a kind are left out, and of the
live executor an outage: the client has no request for events it missed, so
there is nothing to check. Floating-point rounding is not modelled: money and
prices are integers, and the `1e-9` tolerances of the code are equality with
zero.
