----------------------------- MODULE BacktestReplay -----------------------------
(***************************************************************************)
(* The replay of stored candles through the research engine                *)
(* (backtest/replay.py), for one instrument and one day: every candle of   *)
(* five minutes is evaluated as in the live engine (ArmedTriggers), then   *)
(* four ticks made up from the next candle are run, and only then the      *)
(* longer candles that end with it are evaluated.                          *)
(*                                                                         *)
(* Every day has a pipeline of its own, warmed up from the days before.    *)
(* Where they have too little, the indicators are not there yet: such a    *)
(* candle arms nothing and does not count for the index that the next      *)
(* ticks are taken at, so that all later ticks of the day come from candles*)
(* that are as many too old.                                               *)
(***************************************************************************)
EXTENDS ArmedTriggers

CONSTANTS
    Base,           \* the timeframe of the stored candles
    Bars,           \* stored candles that make up one of each timeframe
    MaxBars,        \* candles of the day
    MinCandles,     \* candles that the indicators need
    Warmups         \* stored candles that the days before may have (50 are used)

ReplayParameters ==
    /\ TriggersParameters
    /\ Base \in Timeframes /\ Bars \in [Timeframes -> Nat \ {0}]
    /\ Bars[Base] = 1 /\ MaxBars \in Nat
    /\ MinCandles \in Nat \ {0} /\ Warmups \subseteq Nat

VARIABLES
    warm,           \* stored candles that the day was warmed up with
    bar,            \* candles processed
    index,          \* candle_5m_index
    due,            \* longer candles that end with it and are still to come
    ticks           \* synthetic ticks still to come

replayVars == <<vars, warm, bar, index, due, ticks>>

ReplayInit ==
    /\ Init /\ warm \in Warmups
    /\ bar = 0 /\ index = 0 /\ due = {} /\ ticks = <<>>

(* on_candle of the indicators: the n-th stored candle of the day leaves   *)
(* enough history of a timeframe.                                          *)
Complete(tf, n) == (warm \div Bars[tf]) + (n \div Bars[tf]) >= MinCandles

(* _generate_synthetic_ticks: open, the extreme against the direction of   *)
(* the candle, the other one, close.                                       *)
TicksOf(n, o, l, h, c) ==
    LET prices == IF c >= o THEN <<o, l, h, c>> ELSE <<o, h, l, c>>
    IN  [i \in 1..4 |-> [bar |-> n, price |-> prices[i]]]

MadeOf(n) ==
    {TicksOf(n, x[1], x[2], x[3], x[4]) :
        x \in {y \in Levels \X Levels \X Levels \X Levels :
                 y[2] <= y[1] /\ y[1] <= y[3] /\ y[2] <= y[4] /\ y[4] <= y[3]}}

(* Planted fault: the ticks of the candle that was just evaluated.         *)
SyntheticTicks_Same(n) == MadeOf(n)

(* Ticks of the next candle, if there is one.                              *)
SyntheticTicks(n) == IF n < MaxBars THEN MadeOf(n + 1) ELSE {<<>>}

(* _aggregate_candles groups by number; a group is stamped as its last.    *)
Ending(n) == {tf \in Timeframes \ {Base} : n % Bars[tf] = 0}

BaseCandle(new) ==
    /\ ticks = <<>> /\ due = {} /\ bar < MaxBars
    /\ Complete(Base, bar + 1)
    /\ bar' = bar + 1 /\ index' = index + 1
    /\ Candle(Base, new)
    /\ ticks' \in SyntheticTicks(index + 1)
    /\ due' = Ending(bar + 1)
    /\ UNCHANGED warm

(* Without indicators the candle is counted, what expired is dropped, and  *)
(* what the evaluator says is not used.                                    *)
EarlyCandle ==
    /\ ticks = <<>> /\ due = {} /\ bar < MaxBars
    /\ ~Complete(Base, bar + 1) /\ counter[Base] < MaxCandles
    /\ bar' = bar + 1
    /\ counter' = [counter EXCEPT ![Base] = @ + 1]
    /\ armed' = CleanupExpired(armed, Base, counter[Base] + 1)
    /\ due' = Ending(bar + 1)
    /\ UNCHANGED <<triggered, groups, warm, index, ticks>>

SyntheticTick ==
    /\ ticks # <<>>
    /\ ticks' = Tail(ticks)
    /\ IF Crossed(Head(ticks).price) # {} THEN Tick(Head(ticks).price) ELSE UNCHANGED vars
    /\ UNCHANGED <<warm, bar, index, due>>

(* TF_ORDER: the shorter ones first.                                       *)
Due(tf) == ticks = <<>> /\ tf \in due /\ \A other \in due : Bars[tf] <= Bars[other]

LongerCandle(tf, new) ==
    /\ Due(tf) /\ Complete(tf, bar)
    /\ due' = due \ {tf}
    /\ Candle(tf, new)
    /\ UNCHANGED <<warm, bar, index, ticks>>

(* Without indicators a longer candle is passed over.                      *)
PassOver(tf) ==
    /\ Due(tf) /\ ~Complete(tf, bar)
    /\ due' = due \ {tf}
    /\ UNCHANGED <<vars, warm, bar, index, ticks>>

(* _process_day begins with everything new.                                *)
NextDay ==
    /\ bar = MaxBars /\ due = {} /\ ticks = <<>>
    /\ bar' = 0 /\ index' = 0 /\ warm' \in Warmups
    /\ NewDay
    /\ UNCHANGED <<due, ticks>>

ReplayNext ==
    \/ \E new \in Produced(Base) : BaseCandle(new)
    \/ EarlyCandle
    \/ SyntheticTick
    \/ \E tf \in due : PassOver(tf) \/ \E new \in Produced(tf) : LongerCandle(tf, new)
    \/ NextDay

ReplaySpec == ReplayInit /\ [][ReplayNext]_replayVars

-----------------------------------------------------------------------------
(* Candles of a timeframe at the start of the day without indicators.      *)
Skipped(tf) ==
    LET before == warm \div Bars[tf]
    IN  IF before < MinCandles - 1 THEN MinCandles - 1 - before ELSE 0

(* The stored candle at which an arm was set; the longer candles that were *)
(* passed over were not counted.                                           *)
ArmedIn(a) ==
    LET tf == Timeframe[a.variant]
    IN  IF tf = Base THEN a.at ELSE (a.at + Skipped(tf)) * Bars[tf]

(* No tick of the replay meets an arm that its own candle, or a later one, *)
(* brought about, if the day began with indicators.  Every stored candle   *)
(* that had none puts all later ticks back by one candle, and by no more.  *)
TicksLookBack ==
    \A g \in GroupKeys : \A a \in groups[g] : \A i \in DOMAIN ticks :
        ArmedIn(a) < ticks[i].bar + Skipped(Base)

(* An arm is watched from after its candle until its window ends: it is    *)
(* never older than that, and on a day that began with indicators no tick  *)
(* of the replay meets an arm of its own or of a later candle.             *)
WindowsKept == WindowsRespected /\ TicksLookBack

=============================================================================
