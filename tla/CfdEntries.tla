------------------------------- MODULE CfdEntries -------------------------------
(***************************************************************************)
(* Where CFD trades begin: the entries that the research replays over      *)
(* stored candles (cfd_research/entries, entry_replay.py) and the          *)
(* strategies that trade (cfd_strategy/strategies), two of which are ports *)
(* of such entries.  An original and its port are given the same candles,  *)
(* the port as the runner hands them over: it may miss some, it starts     *)
(* with too little history or in the middle of a session, and the monitor  *)
(* resets it when the day rolls.                                           *)
(*                                                                         *)
(* A behaviour follows one strategy on one instrument.  Time is counted in *)
(* candles of five minutes; a day is a trading day, which rolls at 17:00   *)
(* New York.  Indicators are inputs, prices are small numbers.             *)
(***************************************************************************)
EXTENDS Integers, Sequences, FiniteSetsExt, Functions, TLC

CONSTANTS
    Prices,
    DaySlots,       \* candles of a day
    Session,        \* slots in which the session of the ORB is active
    SydneyOnly,     \* slots whose session tag is "sydney" and nothing else
    Span,           \* five minute candles in a bar of the ORB on fifteen minutes
    RangeBars,      \* range_bars
    Cooldown,       \* cooldown_bars
    Lookback,       \* lookback of the liquidity sweep
    Reward,         \* rr_target, or the backstop
    MinGap, MaxGap, \* min_gap_atr and max_gap_atr, with an ATR of 1
    MaxDays,        \* bound
    MaxStarts       \* bound on the processes that trade

Parameters ==
    /\ Prices \subseteq Nat /\ DaySlots \in Nat \ {0} /\ Session \subseteq 1..DaySlots
    /\ SydneyOnly \subseteq 1..DaySlots
    /\ Span \in Nat \ {0} /\ DaySlots % Span = 0 /\ RangeBars \in Nat \ {0, 1}
    /\ Cooldown \in Nat /\ Lookback \in Nat \ {0} /\ Reward \in Nat \ {0}
    /\ MinGap \in Nat /\ MaxGap \in Nat /\ MaxDays \in Nat /\ MaxStarts \in Nat

Ported == {"orb", "orb_htf", "rsi2"}
LiveOnly == {"sma_cross"}
ResearchOnly == {"mean_reversion", "sweep", "pullback", "squeeze", "volatility", "gap_fade"}
Kinds == Ported \cup LiveOnly \cup ResearchOnly
Orbs == {"orb", "orb_htf"}

VARIABLES
    kind,       \* the strategy
    time,       \* the slot whose candle comes next
    past,       \* what the history says, beyond the candle itself
    research,   \* what the entry strategy of the replay keeps
    live,       \* what the strategy that trades keeps
    missing,    \* candles that the history of the process lacks
    starts,     \* processes so far
    rolled,     \* the last day whose end the monitor has seen
    said,       \* what both said to the last candle
    signals,    \* slots of the signals of this session or day (for the properties)
    intact,     \* the port has seen all of this session or day (for the properties)
    formed,     \* the first bars of this session (for the properties)
    outside     \* an entry of it is outside the slice (for the properties)

memory == <<past, research, live>>
process == <<missing, starts, rolled>>
observed == <<said, signals, intact, formed, outside>>
vars == <<kind, time, memory, process, observed>>

None == "none"
Day(t) == (t - 1) \div DaySlots + 1
Slot(t) == ((t - 1) % DaySlots) + 1

Sign(side) == IF side = "LONG" THEN 1 ELSE -1

(* An entry; "target" is the mean it wants to revert to, or None.          *)
Entry(side, price, stop, target) ==
    [side |-> side, price |-> price, stop |-> stop, target |-> target]

Silent == [side |-> None]

(* build_rr_exit_plan with one target: the entry as the port signals it.   *)
Planned(e) ==
    IF e = Silent THEN e ELSE [e EXCEPT !.target = e.price + Reward * (e.price - e.stop)]

Keep(s) == [state |-> s, entry |-> Silent]
Say(s, entry) == [state |-> s, entry |-> entry]

(* A candle without its opening price.                                     *)
Shapes == {c \in [high : Prices, low : Prices, close : Prices] :
              c.low <= c.close /\ c.close <= c.high}

OpenShapes == {c \in [open : Prices, high : Prices, low : Prices, close : Prices] :
                 Max({c.open, c.close}) <= c.high /\ c.low <= Min({c.open, c.close})}

-----------------------------------------------------------------------------
(* Opening range breakout.  No bars: not in the session.                   *)
NoSession == [bars |-> 0, high |-> 0, low |-> 0, entered |-> FALSE]

Opened(bar) == [bars |-> 1, high |-> bar.high, low |-> bar.low, entered |-> FALSE]

Widened(s, bar) ==
    [s EXCEPT !.bars = @ + 1, !.high = Max({@, bar.high}), !.low = Min({@, bar.low})]

Broken(s, bar) ==
    IF bar.close > s.high THEN "LONG" ELSE IF bar.close < s.low THEN "SHORT" ELSE None

OtherEnd(s, side) == IF side = "LONG" THEN s.low ELSE s.high

(* SessionORB.entries, where every breakout is allowed, and                *)
(* _evaluate_on_bars, where only those in a ranging market are.            *)
Orb(s, bar, active, allowed) ==
    LET side == Broken(s, bar)
    IN  IF ~active THEN Keep(NoSession)
        ELSE IF s.bars = 0 THEN Keep(Opened(bar))
        ELSE IF s.bars < RangeBars THEN Keep(Widened(s, bar))
        ELSE IF s.entered \/ s.high = s.low \/ ~allowed \/ side = None THEN Keep(s)
        ELSE Say([s EXCEPT !.entered = TRUE], Entry(side, bar.close, OtherEnd(s, side), None))

(* aggregate_htf: the bar of the candles of one bucket.                    *)
NoBar == [high |-> 0, low |-> 0, close |-> 0]
AddTo(bar, c) ==
    IF bar = NoBar THEN c
    ELSE [high |-> Max({bar.high, c.high}), low |-> Min({bar.low, c.low}), close |-> c.close]

BarSpan == IF kind = "orb_htf" THEN Span ELSE 1

(* The candle is the last one of its bucket.                               *)
BarCloses(t) == t % BarSpan = 0

-----------------------------------------------------------------------------
(* Entries with a cooldown, which a new day ends.                          *)
NoWait == [day |-> 0, wait |-> 0]

Waiting(s, entry) == [s EXCEPT !.wait = Cooldown]

(* entries of MeanReversion, LiquiditySweep, TrendPullback,                *)
(* SqueezeBreakout and Rsi2Reversion, and evaluate of the port of the last.*)
Cooled(s, entry) ==
    LET t == IF s.day = Day(time) THEN s ELSE [day |-> Day(time), wait |-> 0]
    IN  IF t.wait > 0 THEN Keep([t EXCEPT !.wait = @ - 1])
        ELSE IF entry = Silent THEN Keep(t)
        ELSE Say(Waiting(t, entry), entry)

(* RSI-2: "rsi" is "low" below oversold, "high" above overbought, "off" is *)
(* the side of the trend's average that the close is on.  Prices are       *)
(* distances from the close; a stop one and a half ATR away is two away.   *)
(* Its target, an average that may be on either side, is left out.         *)
Rsi2(c) ==
    IF c.off = 1 /\ c.rsi = "low" THEN Entry("LONG", 0, -2, None)
    ELSE IF c.off = -1 /\ c.rsi = "high" THEN Entry("SHORT", 0, 2, None)
    ELSE Silent

Rsi2Candles == [off : {-1, 0, 1}, rsi : {"low", "mid", "high"}, ranging : BOOLEAN]

(* The port's gates: the tag is "sydney" and the market ranges.            *)
InSlice(c) == Slot(time) \in SydneyOnly /\ c.ranging

Rsi2Port(c) ==
    LET e == Rsi2(c)
    IN  IF InSlice(c) THEN Planned(e) ELSE Silent

(* Planted fault: a candle outside the slice does not count as one waited. *)
Rsi2Live_GateFirst(c) == IF InSlice(c) THEN Cooled(live, Rsi2Port(c)) ELSE Keep(live)

Rsi2Live(c) == Cooled(live, Rsi2Port(c))

-----------------------------------------------------------------------------
(* Mean reversion.  "mean" is the VWAP of the day or the middle band,      *)
(* "wick" that the longer wick is more than twice the body; with an ATR of *)
(* 1, stretched is at least one away.                                      *)
Bullish(c) == c.wick /\ c.close > c.open /\ c.low < c.open
Bearish(c) == c.wick /\ c.close < c.open /\ c.high > c.open

MeanReversion(c) ==
    IF ~c.calm THEN Silent
    ELSE IF c.close >= c.upper
    THEN IF c.close - c.mean >= 1 /\ Bearish(c)
         THEN Entry("SHORT", c.close, c.high + 1, c.mean) ELSE Silent
    ELSE IF c.close <= c.lower /\ c.mean - c.close >= 1 /\ Bullish(c)
         THEN Entry("LONG", c.close, c.low - 1, c.mean) ELSE Silent

MeanReversionCandles ==
    {s @@ x : s \in OpenShapes,
              x \in {y \in [upper : Prices, lower : Prices, mean : Prices,
                            wick : BOOLEAN, calm : BOOLEAN] : y.lower < y.upper}}

(* Liquidity sweep: beyond the extreme of the candles before and back.     *)
(* The buffer of a tenth of an ATR is left out: a stop beyond the wick is  *)
(* beyond it by one.  "bias" is where the close is of both EMA and VWAP.   *)
SwingHigh == Max({past[i].high : i \in DOMAIN past})
SwingLow == Min({past[i].low : i \in DOMAIN past})

(* Planted fault: a close beyond the level is a sweep as well, and the     *)
(* stop is at the level.                                                   *)
Sweep_Level(c) ==
    IF Len(past) < Lookback THEN Silent
    ELSE IF c.high > SwingHigh
    THEN IF c.bias = "below"
         THEN Entry("SHORT", c.close, SwingHigh, SwingLow) ELSE Silent
    ELSE IF c.low < SwingLow /\ c.close > SwingLow /\ c.bias = "above"
         THEN Entry("LONG", c.close, SwingLow, SwingHigh) ELSE Silent

Sweep(c) ==
    IF Len(past) < Lookback THEN Silent
    ELSE IF c.high > SwingHigh /\ c.close < SwingHigh
    THEN IF c.bias = "below"
         THEN Entry("SHORT", c.close, c.high + 1, SwingLow) ELSE Silent
    ELSE IF c.low < SwingLow /\ c.close > SwingLow /\ c.bias = "above"
         THEN Entry("LONG", c.close, c.low - 1, SwingHigh) ELSE Silent

SweepCandles == {s @@ x : s \in Shapes, x \in [bias : {"below", "mixed", "above"}]}

(* Trend pullback: the candle dips to the fast average and closes beyond   *)
(* it, in the direction of the trend; "untrended" is an ADX too low.       *)
Pullback(c) ==
    IF c.rsi = "untrended" THEN Silent
    ELSE IF /\ c.fast > c.slow /\ c.close > c.slow
            /\ c.low <= c.fast /\ c.close > c.fast /\ c.close > c.open /\ c.rsi # "low"
    THEN Entry("LONG", c.close, c.low - 1, None)
    ELSE IF /\ c.fast < c.slow /\ c.close < c.slow
            /\ c.high >= c.fast /\ c.close < c.fast /\ c.close < c.open /\ c.rsi # "high"
    THEN Entry("SHORT", c.close, c.high + 1, None)
    ELSE Silent

PullbackCandles ==
    {s @@ x : s \in OpenShapes, x \in [fast : Prices, slow : Prices,
                                       rsi : {"untrended", "low", "mid", "high"}]}

(* Squeeze release: the candle before was in a squeeze, this one is not.   *)
Release(c) ==
    IF ~past.squeezed \/ c.squeezed \/ c.momentum = 0 THEN Silent
    ELSE LET side == IF c.momentum > 0 THEN "LONG" ELSE "SHORT"
         IN  Entry(side, 0, -Sign(side) * 2, None)

SqueezeCandles == [squeezed : BOOLEAN, momentum : {-1, 0, 1}]

-----------------------------------------------------------------------------
(* Entries made once a day, from what the history says of the day before.  *)
NoDay == [open |-> None]
OneDay(c) == [open |-> c.open, high |-> c.high, low |-> c.low, close |-> c.close]

(* The grouping of the window by trading days, with this candle in it.     *)
WithCandle(days, c) ==
    IF Slot(time) = 1 THEN [before |-> days.today, today |-> OneDay(c)]
    ELSE IF days.today = NoDay THEN [days EXCEPT !.today = OneDay(c)]
    ELSE [days EXCEPT !.today = [open |-> @.open, high |-> Max({@.high, c.high}),
                                 low |-> Min({@.low, c.low}), close |-> c.close]]

Daily(enteredDay, entry) ==
    IF enteredDay = Day(time) \/ entry = Silent THEN Keep(enteredDay) ELSE Say(Day(time), entry)

(* VolatilityBreakout, with k = 1.                                         *)
Volatility(days, c) ==
    LET step == days.before.high - days.before.low
    IN  IF days.before = NoDay \/ step <= 0 THEN Silent
        ELSE IF c.close >= days.today.open + step
        THEN Entry("LONG", c.close, c.close - step, None)
        ELSE IF c.close <= days.today.open - step
        THEN Entry("SHORT", c.close, c.close + step, None)
        ELSE Silent

(* OpeningGapFade, on the first candle of a day only.                      *)
GapFade(days, c) ==
    LET gap == days.today.open - days.before.close
    IN  IF days.before = NoDay \/ Slot(time) # 1 \/ gap = 0 THEN Silent
        ELSE IF Max({gap, -gap}) \notin MinGap..MaxGap THEN Silent
        ELSE IF gap > 0 THEN Entry("SHORT", c.close, c.close + 1, days.before.close)
        ELSE Entry("LONG", c.close, c.close - 1, days.before.close)

-----------------------------------------------------------------------------
(* SmaCrossDemo.  Without a usable ATR it returns before it remembers the  *)
(* averages.                                                               *)
SmaCross(order, c) ==
    IF ~c.atr THEN Keep(order)
    ELSE IF order \in {"below", "equal"} /\ c.order = "above"
    THEN Say(c.order, Planned(Entry("LONG", 0, -1, None)))
    ELSE IF order \in {"above", "equal"} /\ c.order = "below"
    THEN Say(c.order, Planned(Entry("SHORT", 0, 1, None)))
    ELSE Keep(c.order)

SmaCandles == [order : {"above", "equal", "below"}, atr : BOOLEAN]

-----------------------------------------------------------------------------
FreshPast ==
    CASE kind \in Orbs -> [research |-> NoBar, live |-> NoBar]
      [] kind = "sweep" -> <<>>
      [] kind = "squeeze" -> [squeezed |-> FALSE]
      [] kind \in {"volatility", "gap_fade"} -> [before |-> NoDay, today |-> NoDay]
      [] OTHER -> None

Fresh ==
    CASE kind \in Orbs -> NoSession
      [] kind \in {"volatility", "gap_fade"} -> 0
      [] kind = "sma_cross" -> None
      [] OTHER -> NoWait

Nothing == [research |-> Silent, live |-> Silent]
NoSignals == [research |-> <<>>, live |-> <<>>]

Init ==
    /\ kind \in Kinds
    /\ time = 1 /\ past = FreshPast /\ research = Fresh /\ live = Fresh
    /\ missing \in {0, 1} /\ starts = 1 /\ rolled = 0
    /\ said = Nothing /\ signals = NoSignals /\ formed = <<>>
    /\ intact = FALSE /\ outside = FALSE

(* A candle of a session or day that has just begun, or of none.           *)
Begins == IF kind \in Orbs THEN Slot(time) \notin Session ELSE Slot(time) = 1

Since(before, entry) ==
    LET kept == IF Begins THEN <<>> ELSE before
    IN  IF entry = Silent THEN kept ELSE Append(kept, time)

Evaluated(delivered) == delivered /\ missing = 0

(* The next candle completes: what both make of it.  The candle reaches    *)
(* the process if the feed delivered it; with too little history it is not *)
(* evaluated.  "slice" says whether it belongs to the slice of the port.   *)
(* The monitor has seen the end of the day before by then.                 *)
Complete(r, l, delivered, slice) ==
    /\ Day(time) <= MaxDays /\ rolled >= Day(time) - 1
    /\ time' = time + 1
    /\ research' = r.state /\ live' = l.state
    /\ missing' = IF delivered THEN Max({missing - 1, 0}) ELSE missing
    /\ said' = [research |-> r.entry, live |-> l.entry]
    /\ signals' = [research |-> Since(signals.research, r.entry),
                   live |-> Since(signals.live, l.entry)]
    /\ intact' = ((Begins \/ intact) /\ Evaluated(delivered))
    /\ outside' = ((~Begins /\ outside) \/ (r.entry # Silent /\ ~slice))
    /\ UNCHANGED <<kind, starts, rolled>>

Traded(l) == [l EXCEPT !.entry = Planned(@)]

(* evaluate and _evaluate_htf: the port looks at a bar only when the last  *)
(* candle of its bucket arrives, the replay at every bucket.               *)
OrbCandle(c, ranging, delivered) ==
    LET mine   == AddTo(past.research, c)
        theirs == IF delivered THEN AddTo(past.live, c) ELSE past.live
        active == Slot(time) \in Session
        closes == BarCloses(time)
    IN  /\ past' = IF closes THEN FreshPast ELSE [research |-> mine, live |-> theirs]
        /\ formed' = IF Begins THEN <<>>
                     ELSE IF closes /\ Len(formed) < RangeBars THEN Append(formed, mine) ELSE formed
        /\ Complete(IF closes THEN Orb(research, mine, active, TRUE) ELSE Keep(research),
                    IF closes /\ Evaluated(delivered) THEN Traded(Orb(live, theirs, active, ranging))
                    ELSE Keep(live),
                    delivered, ranging)

(* What a candle may bring.  Prices and regime are fixed where they decide *)
(* nothing: a range is made of highs and lows, a breakout is a close in a  *)
(* market that ranges or not.  Bars end where a session begins.            *)
RangeIsMade(s) == s.bars = RangeBars

OrbShapes ==
    {c \in Shapes :
        /\ Slot(time) \notin Session => c.high = 1
        /\ ~RangeIsMade(research) /\ ~RangeIsMade(live) => c.close = c.high
        /\ RangeIsMade(research) /\ RangeIsMade(live) => c.low = c.high}

Regimes == IF RangeIsMade(research) \/ RangeIsMade(live) THEN BOOLEAN ELSE {TRUE}

Rsi2Candle(c, delivered) ==
    /\ UNCHANGED <<past, formed>>
    /\ Complete(Cooled(research, Rsi2(c)),
                IF Evaluated(delivered) THEN Rsi2Live(c) ELSE Keep(live),
                delivered, InSlice(c))

SmaCandle(c, delivered) ==
    /\ UNCHANGED <<past, formed>>
    /\ Complete(Keep(research),
                IF Evaluated(delivered) THEN SmaCross(live, c) ELSE Keep(live), delivered, TRUE)

(* replay_entries, for the entries without a port.                         *)
Replayed(r) == Complete(r, Keep(live), TRUE, TRUE) /\ UNCHANGED formed

MeanReversionCandle(c) ==
    Replayed(Cooled(research, MeanReversion(c))) /\ UNCHANGED past

SweepCandle(c) ==
    /\ Replayed(Cooled(research, Sweep(c)))
    /\ LET all == Append(past, [high |-> c.high, low |-> c.low])
       IN  past' = IF Len(all) > Lookback THEN Tail(all) ELSE all

PullbackCandle(c) ==
    Replayed(Cooled(research, Pullback(c))) /\ UNCHANGED past

SqueezeCandle(c) ==
    /\ Replayed(Cooled(research, Release(c)))
    /\ past' = [squeezed |-> c.squeezed]

VolatilityCandle(c) ==
    /\ past' = WithCandle(past, c)
    /\ Replayed(Daily(research, Volatility(WithCandle(past, c), c)))

GapCandle(c) ==
    /\ past' = WithCandle(past, c)
    /\ Replayed(Daily(research, GapFade(WithCandle(past, c), c)))

(* on_day_reset: the monitor looks every fifteen seconds, so the last      *)
(* candle of the day may come before or after it.                          *)
DayReset ==
    /\ kind \in Ported
    /\ rolled < Day(time)
    /\ Slot(time) = DaySlots \/ (Slot(time) = 1 /\ rolled < Day(time) - 1)
    /\ rolled' = IF Slot(time) = DaySlots THEN Day(time) ELSE Day(time) - 1
    /\ live' = Fresh
    /\ UNCHANGED <<kind, time, past, research, missing, starts, observed>>

(* The process starts anew; its history is filled again, or not quite.     *)
Restart ==
    /\ kind \in Ported \cup LiveOnly
    /\ starts < MaxStarts
    /\ starts' = starts + 1
    /\ live' = Fresh
    /\ missing' \in {0, 1}
    /\ signals' = [signals EXCEPT !.live = <<>>]
    /\ intact' = FALSE
    /\ said' = Nothing
    /\ UNCHANGED <<kind, time, past, research, rolled, formed, outside>>

Next ==
    \/ /\ kind \in Orbs
       /\ \E c \in OrbShapes, ranging \in Regimes, delivered \in BOOLEAN :
             OrbCandle(c, ranging, delivered)
    \/ /\ kind = "rsi2"
       /\ \E c \in Rsi2Candles : \E delivered \in BOOLEAN : Rsi2Candle(c, delivered)
    \/ /\ kind = "sma_cross"
       /\ \E c \in SmaCandles : \E delivered \in BOOLEAN : SmaCandle(c, delivered)
    \/ kind = "mean_reversion" /\ \E c \in MeanReversionCandles : MeanReversionCandle(c)
    \/ kind = "sweep" /\ \E c \in SweepCandles : SweepCandle(c)
    \/ kind = "pullback" /\ \E c \in PullbackCandles : PullbackCandle(c)
    \/ kind = "squeeze" /\ \E c \in SqueezeCandles : SqueezeCandle(c)
    \/ kind = "volatility" /\ \E c \in OpenShapes : VolatilityCandle(c)
    \/ kind = "gap_fade" /\ \E c \in OpenShapes : GapCandle(c)
    \/ DayReset
    \/ Restart

Spec == Init /\ [][Next]_vars

-----------------------------------------------------------------------------
Speakers == {"research", "live"}
Cooling == {"rsi2", "mean_reversion", "sweep", "pullback", "squeeze"}

TypeOK ==
    /\ kind \in Kinds /\ time \in 1..(MaxDays * DaySlots + 1)
    /\ rolled \in 0..MaxDays /\ missing \in Nat /\ starts \in 1..MaxStarts
    /\ intact \in BOOLEAN /\ outside \in BOOLEAN /\ Len(formed) <= RangeBars
    /\ kind \in Orbs => \A s \in {research, live} :
          s.bars \in 0..RangeBars /\ s.entered \in BOOLEAN /\ s.low <= s.high
    /\ kind \in Cooling => {research.wait, live.wait} \subseteq 0..Cooldown

(* Whatever the candles are, an entry's stop is where the trade loses, and *)
(* where the strategy names its own target (a port's multiple of the risk, *)
(* the mean that a stretched price reverts to), that is where it wins: the *)
(* simulators take the distance to the stop for the risk without asking    *)
(* for its sign.  The types are part of it.                                *)
StraddlesEntry ==
    /\ TypeOK
    /\ \A w \in Speakers : LET e == said[w] IN e # Silent =>
          /\ Sign(e.side) * (e.price - e.stop) > 0
          /\ (w = "live" \/ kind = "mean_reversion") => Sign(e.side) * (e.target - e.price) > 0

(* "One entry per session", "COOLDOWN: 3 bars after an entry", "one entry  *)
(* per trading day": as long as the process lives, and through the resets  *)
(* at the end of the day, nobody signals more often than it says.          *)
SignalsRationed ==
    \A w \in Speakers :
        /\ kind \in Orbs \cup {"volatility", "gap_fade"} => Len(signals[w]) <= 1
        /\ kind \in Cooling =>
              \A i, j \in DOMAIN signals[w] : i < j => signals[w][j] - signals[w][i] > Cooldown

(* A breakout is one of the session it is signalled in: it closes beyond   *)
(* every price of the bars that session opened with, and its stop is the   *)
(* farthest of them; for the port if it has seen them all.                 *)
CauseOfToday ==
    kind \in Orbs => \A w \in Speakers : LET e == said[w] IN
        (e # Silent /\ (w = "live" => intact)) =>
            /\ Len(formed) = RangeBars
            /\ \A bar \in Range(formed) : \A p \in {bar.high, bar.low} :
                  Sign(e.side) * (e.price - p) > 0 /\ Sign(e.side) * (p - e.stop) >= 0
            /\ e.stop \in UNION {{bar.high, bar.low} : bar \in Range(formed)}

SameEntry(e, f) ==
    \/ e = Silent /\ f = Silent
    \/ e # Silent /\ f # Silent /\ <<e.side, e.price, e.stop>> = <<f.side, f.price, f.stop>>

(* "Both use the SAME ORB logic as the research engine"; "FAITHFUL PORT".  *)
(* A port that has seen every candle of the session or day enters where    *)
(* and as the replay enters, and only there, as long as the replay has not *)
(* itself entered outside the slice the port is gated to.                  *)
PortFollowsResearch ==
    (kind \in Ported /\ intact /\ ~outside) => SameEntry(said.live, said.research)

=============================================================================
