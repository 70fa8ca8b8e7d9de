----------------------------- MODULE NseStrategies -----------------------------
(***************************************************************************)
(* The strategies of the NSE bot (app/strategy) as the state machines they *)
(* are for one instrument: what each keeps from candle to candle, when it  *)
(* forgets it, and when it signals.  Indicators are numerical functions of *)
(* the candles; a candle brings whatever they may say about it.  Five      *)
(* minute candles are all these strategies look at.                        *)
(*                                                                         *)
(* Strategies do not see each other, so a behaviour is that of one of      *)
(* them, chosen at the start.  The time of day is a phase: "opening" from  *)
(* 9:15, "settling" from 9:30, "trading" after 9:31, "closing" after 15:15,*)
(* "closed" after 15:30.  A candle is handled in the phase in which the    *)
(* next tick completes it.                                                 *)
(***************************************************************************)
EXTENDS Integers, Sequences, SequencesExt, FiniteSetsExt

CONSTANTS
    Prices,             \* of an opening range and its breakouts
    MinRange, MaxRange, \* min_range_pct and max_range_pct as sizes
    Distances,          \* from a price to an indicator that may be its stop
    MinStop,            \* the least distance of a stop, and the fallback
    RewardRatio,        \* rr_ratio
    VwapCooldown,       \* cooldown_candles of VWAPRSIStrategy
    EmaCooldown,        \* cooldown_candles of EMACrossoverStrategy
    VwapTrades,         \* max_trades_per_day of VWAPRSIStrategy
    SqueezeTrades,      \* max_trades_per_day of BBSqueezeStrategy
    ChopWindow,         \* chop_window
    MaxFlips,           \* max_flips_in_window
    MinSqueeze,         \* min_squeeze_candles
    Missing,            \* candles the history lacks when the session starts
    MaxCandles,         \* bound on the candles of a day
    MaxDays             \* bound

ASSUME NseStrategiesAssumption ==
    /\ Prices \subseteq Nat \ {0} /\ MinRange \in Nat \ {0} /\ MaxRange \in Nat
    /\ Distances \subseteq Int /\ MinStop \in Nat \ {0} /\ RewardRatio \in Nat \ {0}
    /\ VwapCooldown \in Nat /\ EmaCooldown \in Nat /\ VwapTrades \in Nat /\ SqueezeTrades \in Nat
    /\ ChopWindow \in Nat \ {0} /\ MaxFlips \in Nat /\ MinSqueeze \in Nat \ {0}
    /\ Missing \in Nat /\ MaxCandles \in Nat /\ MaxDays \in Nat \ {0}

Kinds == {"orb", "vwap_rsi", "ema", "supertrend", "squeeze"}
Phases == <<"opening", "settling", "trading", "closing", "closed">>
Sides == {"BUY", "SELL"}

VARIABLES
    kind,       \* the strategy
    phase,      \* index in Phases
    day,
    missing,    \* candles still missing for the indicators
    state,      \* what the strategy keeps
    resetDay,   \* _last_reset_date
    seen,       \* the day's candles (for the properties)
    log         \* the day's signals (for the properties)

vars == <<kind, phase, day, missing, state, resetDay, seen, log>>

InPhase(names) == Phases[phase] \in names

(* NO_TRADE_BEFORE <= now <= NO_TRADE_AFTER.                               *)
EntryHours == InPhase({"settling", "trading"})

Warm == missing = 0

-----------------------------------------------------------------------------
Sign(side) == IF side = "BUY" THEN 1 ELSE -1

(* A signal; where only distances matter, the price is 0.                  *)
Give(side, price, risk, reward) ==
    [side |-> side, price |-> price,
     stop |-> price - Sign(side) * risk, target |-> price + Sign(side) * reward]

NoSignal == [side |-> "none"]

(* What a strategy keeps, and what it says.                                *)
Keep(s) == [state |-> s, signal |-> NoSignal]
Say(s, signal) == [state |-> s, signal |-> signal]

(* CPRFilter.allows_signal: the levels are those of one instrument, so     *)
(* what they say of this one's price is anything.                          *)
Allows(bias, side) == bias \in {side, "NEUTRAL"}
Biases == Sides \cup {"NEUTRAL"}

(* _candles_since_signal, from the first signal of the day on.             *)
NotYet == -1
Aged(since) == IF since = NotYet THEN NotYet ELSE since + 1
(* Planted fault: one candle less.                                         *)
Cooling_Short(since, cooldown) == since # NotYet /\ since < cooldown - 1

Cooling(since, cooldown) == since # NotYet /\ since < cooldown

-----------------------------------------------------------------------------
(* ORBStrategy.                                                            *)
NoRange == [high |-> 0, low |-> 0]

OrbFresh == [range |-> NoRange, ready |-> FALSE, taken |-> {}]

(* _update_range.                                                          *)
Widen(range, c) ==
    IF range = NoRange THEN [high |-> c.high, low |-> c.low]
    ELSE [high |-> Max({range.high, c.high}), low |-> Min({range.low, c.low})]

Fits(range) == range # NoRange /\ range.high - range.low \in MinRange..MaxRange

Broken(range, c) ==
    IF c.close > range.high THEN "BUY" ELSE IF c.close < range.low THEN "SELL" ELSE "none"

(* _check_breakout: from beyond one end, with the stop at the other.       *)
Breakout(s, c) ==
    LET side == Broken(s.range, c)
        end  == IF side = "BUY" THEN s.range.low ELSE s.range.high
    IN  IF /\ side \notin s.taken \cup {"none"}
           /\ c.volume /\ c.vwap \in {side, "none"}
           /\ Allows(c.bias, side)
        THEN Say([s EXCEPT !.taken = @ \cup {side}],
                 Give(side, c.close, Sign(side) * (c.close - end),
                      RewardRatio * (s.range.high - s.range.low)))
        ELSE Keep(s)

(* on_candle: the range forms until 9:31; the first candle after that may  *)
(* already break it.                                                       *)
Orb(s, c) ==
    IF InPhase({"opening", "settling"})
    THEN Keep([s EXCEPT !.range = Widen(@, c)])
    ELSE LET t == [s EXCEPT !.ready = @ \/ Fits(s.range)]
         IN  IF t.ready /\ InPhase({"trading"}) THEN Breakout(t, c) ELSE Keep(t)

(* A candle; "vwap" is the side that the day's VWAP speaks for.  What only *)
(* a breakout asks for is fixed while the range forms, and its extremes    *)
(* after that.                                                             *)
OrbCandles ==
    LET forming == InPhase({"opening", "settling"})
        filters == IF forming THEN [volume : {TRUE}, vwap : {"none"}, bias : {"NEUTRAL"}]
                   ELSE [volume : BOOLEAN, vwap : Sides \cup {"none", "at"}, bias : Biases]
        prices  == {p \in [high : Prices, low : Prices, close : Prices] :
                       p.low <= p.close /\ p.close = p.high /\ (forming \/ p.low = p.high)}
    IN  {[high |-> p.high, low |-> p.low, close |-> p.close,
          volume |-> f.volume, vwap |-> f.vwap, bias |-> f.bias] : p \in prices, f \in filters}

-----------------------------------------------------------------------------
(* VWAPRSIStrategy.  "rsi" is "low" below rsi_oversold, "high" above       *)
(* rsi_overbought, "mid" from one to the other.                            *)
VwapRsiFresh == [rsi |-> "none", trades |-> 0, since |-> NotYet]

(* The side a pullback that ends with this candle speaks for.              *)
Recovery(before, c) ==
    IF c.vwap = "BUY" /\ before = "low" /\ c.rsi # "low" THEN "BUY"
    ELSE IF c.vwap = "SELL" /\ before = "high" /\ c.rsi # "high" THEN "SELL"
    ELSE "none"

StopDistance(distance) == Max({distance, MinStop})

Traded(s) == [s EXCEPT !.trades = @ + 1, !.since = 0]

(* on_candle.                                                              *)
VwapRsi(s, c) ==
    LET t    == [s EXCEPT !.since = Aged(@)]
        u    == [t EXCEPT !.rsi = c.rsi]
        side == Recovery(s.rsi, c)
        risk == StopDistance(c.distance)
    IN  IF ~EntryHours THEN Keep(s)
        ELSE IF s.trades >= VwapTrades \/ Cooling(t.since, VwapCooldown) \/ ~Warm
                \/ c.vwap = "none" THEN Keep(t)
        ELSE IF ~c.trending \/ side = "none" \/ ~Allows(c.bias, side) THEN Keep(u)
        ELSE Say(Traded(u), Give(side, 0, risk, RewardRatio * risk))

VwapRsiCandles ==
    [vwap : Sides \cup {"none", "at"}, rsi : {"low", "mid", "high"}, trending : BOOLEAN,
     distance : Distances \cap Nat, bias : Biases]

-----------------------------------------------------------------------------
(* EMACrossoverStrategy.  "order" is that of the fast and the slow average.*)
EmaFresh == [order |-> "none", since |-> NotYet]

Crossed(before, order) ==
    IF before \in {"below", "equal"} /\ order = "above" THEN "BUY"
    ELSE IF before \in {"above", "equal"} /\ order = "below" THEN "SELL"
    ELSE "none"

(* on_candle.  "filters" is what ADX, ATR and VWAP say; a signal that the  *)
(* CPR filter blocks starts a cooldown all the same.                       *)
Ema(s, c) ==
    LET t    == [s EXCEPT !.since = Aged(@)]
        u    == [t EXCEPT !.order = c.order]
        side == Crossed(s.order, c.order)
    IN  IF ~EntryHours THEN Keep(s)
        ELSE IF ~Warm THEN Keep(t)
        ELSE IF side = "none" \/ Cooling(t.since, EmaCooldown) \/ ~c.filters THEN Keep(u)
        ELSE IF ~Allows(c.bias, side) THEN Keep([u EXCEPT !.since = 0])
        ELSE Say([u EXCEPT !.since = 0], Give(side, 0, c.distance, RewardRatio * c.distance))

EmaCandles ==
    [order : {"above", "equal", "below"}, filters : BOOLEAN,
     distance : Distances \cap (Nat \ {0}), bias : Biases]

-----------------------------------------------------------------------------
(* SuperTrendStrategy.                                                     *)
SuperTrendFresh == [directions |-> <<>>]

Latest(seq, n) == IF Len(seq) <= n THEN seq ELSE SubSeq(seq, Len(seq) - n + 1, Len(seq))

Changes(directions) == {i \in 2..Len(directions) : directions[i] # directions[i - 1]}

Choppy(directions) ==
    Len(directions) >= ChopWindow /\ Cardinality(Changes(directions)) >= MaxFlips

(* The line is the stop if it is on the right side of the entry.           *)
LineStop(distance) == IF distance <= 0 THEN MinStop ELSE distance

(* on_candle.  "was" and "up" are what the indicator says of the last two  *)
(* candles it is given: the history it is called with holds the candle     *)
(* already, which is appended once more, so both are of the same candle.   *)
SuperTrend(s, c) ==
    LET t    == [s EXCEPT !.directions = Latest(Append(@, c.up), ChopWindow)]
        side == IF c.up THEN "BUY" ELSE "SELL"
        risk == LineStop(c.distance)
    IN  IF ~EntryHours \/ ~Warm THEN Keep(s)
        ELSE IF c.was = c.up \/ Choppy(t.directions) \/ ~Allows(c.bias, side) THEN Keep(t)
        ELSE Say(t, Give(side, 0, risk, RewardRatio * risk))

SuperTrendCandles == [was : BOOLEAN, up : BOOLEAN, distance : Distances, bias : Biases]

-----------------------------------------------------------------------------
(* BBSqueezeStrategy; the volumes of the squeeze are left to "volume".     *)
SqueezeFresh == [count |-> 0, was |-> FALSE, trades |-> 0]

(* _check_breakout: beyond a band, with the stop at the middle one.        *)
Release(s, c) ==
    IF /\ c.volume /\ c.beyond \in Sides
       /\ c.vwap \in {c.beyond, "none"}
       /\ Allows(c.bias, c.beyond)
    THEN Say([s EXCEPT !.trades = @ + 1],
             Give(c.beyond, 0, StopDistance(c.distance), RewardRatio * c.width))
    ELSE Keep(s)

(* Planted fault: the count goes on after a squeeze has ended.             *)
Squeeze_Total(s, c) ==
    LET ended == [s EXCEPT !.was = FALSE]
    IN  IF ~EntryHours \/ s.trades >= SqueezeTrades \/ ~Warm THEN Keep(s)
        ELSE IF c.squeezed THEN Keep([s EXCEPT !.count = @ + 1, !.was = TRUE])
        ELSE IF s.was /\ s.count >= MinSqueeze THEN Release(ended, c)
        ELSE Keep(ended)

(* on_candle.                                                              *)
Squeeze(s, c) ==
    LET ended == [s EXCEPT !.count = 0, !.was = FALSE]
    IN  IF ~EntryHours \/ s.trades >= SqueezeTrades \/ ~Warm THEN Keep(s)
        ELSE IF c.squeezed THEN Keep([s EXCEPT !.count = @ + 1, !.was = TRUE])
        ELSE IF s.was /\ s.count >= MinSqueeze THEN Release(ended, c)
        ELSE Keep(ended)

SqueezeCandles ==
    [squeezed : BOOLEAN, beyond : Sides \cup {"none"}, volume : BOOLEAN,
     vwap : Sides \cup {"none"}, distance : Distances \cap Nat,
     width : Distances \cap (Nat \ {0}), bias : Biases]

(* What warmup_history may leave behind.                                   *)
SqueezeReplayed == [count : 0..MinSqueeze, was : BOOLEAN, trades : {0}]

-----------------------------------------------------------------------------
Fresh ==
    [orb |-> OrbFresh, vwap_rsi |-> VwapRsiFresh, ema |-> EmaFresh,
     supertrend |-> SuperTrendFresh, squeeze |-> SqueezeFresh]

NothingSeen ==
    [total |-> 0, candles |-> 0, formed |-> {}, rsi |-> {}, order |-> "none", streak |-> 0]

Init ==
    /\ kind \in Kinds
    /\ phase = 1 /\ day = 1 /\ missing = Missing
    /\ state \in IF kind = "squeeze" THEN SqueezeReplayed ELSE {Fresh[kind]}
    /\ resetDay = 0
    /\ seen = NothingSeen
    /\ log = <<>>

(* _maybe_reset_daily.  The first candle ever resets as well, so what a    *)
(* replay of the history left behind is gone.                              *)
MaybeResetDaily == IF day = resetDay THEN state ELSE Fresh[kind]

(* A candle completes, and StrategyEngine._on_candle hands it over until   *)
(* the market closes; "result" is what the strategy makes of it, "note"    *)
(* what there was to see.                                                  *)
OnCandle(result, note) ==
    LET nr == IF EntryHours THEN seen.candles + 1 ELSE seen.candles
    IN  /\ ~InPhase({"closed"})
        /\ seen.total < MaxCandles
        /\ state' = result.state
        /\ resetDay' = day
        /\ missing' = Max({missing - 1, 0})
        /\ seen' = [note EXCEPT !.total = @ + 1, !.candles = nr]
        /\ log' = IF result.signal = NoSignal THEN log
                  ELSE Append(log, [signal |-> result.signal, at |-> nr, before |-> seen])
        /\ UNCHANGED <<kind, phase, day>>

OrbCandle(c) ==
    /\ kind = "orb"
    /\ OnCandle(Orb(MaybeResetDaily, c),
                IF InPhase({"opening", "settling"})
                THEN [seen EXCEPT !.formed = @ \cup {c.low, c.high}] ELSE seen)

VwapRsiCandle(c) ==
    /\ kind = "vwap_rsi"
    /\ OnCandle(VwapRsi(MaybeResetDaily, c),
                IF EntryHours THEN [seen EXCEPT !.rsi = @ \cup {c.rsi}] ELSE seen)

EmaCandle(c) ==
    /\ kind = "ema"
    /\ OnCandle(Ema(MaybeResetDaily, c),
                IF EntryHours /\ Warm THEN [seen EXCEPT !.order = c.order] ELSE seen)

SuperTrendCandle(c) ==
    /\ kind = "supertrend"
    /\ OnCandle(SuperTrend(MaybeResetDaily, c), seen)

SqueezeCandle(c) ==
    /\ kind = "squeeze"
    /\ OnCandle(Squeeze(MaybeResetDaily, c),
                [seen EXCEPT !.streak = IF c.squeezed THEN @ + 1 ELSE 0])

(* The day goes on.                                                        *)
PhaseEnds ==
    /\ phase < Len(Phases)
    /\ phase' = phase + 1
    /\ UNCHANGED <<kind, day, missing, state, resetDay, seen, log>>

(* The bot sleeps until the next morning.                                  *)
NextDay ==
    /\ InPhase({"closed"}) /\ day < MaxDays
    /\ phase' = 1 /\ day' = day + 1
    /\ seen' = NothingSeen /\ log' = <<>>
    /\ UNCHANGED <<kind, missing, state, resetDay>>

Next ==
    \/ \E c \in OrbCandles : OrbCandle(c)
    \/ \E c \in VwapRsiCandles : VwapRsiCandle(c)
    \/ \E c \in EmaCandles : EmaCandle(c)
    \/ \E c \in SuperTrendCandles : SuperTrendCandle(c)
    \/ \E c \in SqueezeCandles : SqueezeCandle(c)
    \/ PhaseEnds
    \/ NextDay

Spec == Init /\ [][Next]_vars

-----------------------------------------------------------------------------
TypeOK ==
    /\ kind \in Kinds /\ phase \in DOMAIN Phases /\ day \in 1..MaxDays
    /\ missing \in 0..Missing /\ resetDay \in 0..day
    /\ kind = "orb" =>
        /\ state.range = NoRange \/ {state.range.low, state.range.high} \subseteq Prices
        /\ state.taken \subseteq Sides /\ state.ready \in BOOLEAN
    /\ kind = "vwap_rsi" => state.trades \in 0..VwapTrades
    /\ kind = "ema" => state.order \in {"none", "above", "equal", "below"}
    /\ kind = "supertrend" => state.directions \in BoundedSeq(BOOLEAN, ChopWindow)
    /\ kind = "squeeze" => state.count \in Nat /\ state.was \in BOOLEAN

Given == {log[i].signal : i \in DOMAIN log}

(* Whatever the indicators say, a signal's stop is where the trade loses   *)
(* and its target where it wins.  The types are part of it.                *)
StraddlesEntry ==
    /\ TypeOK
    /\ \A signal \in Given :
          /\ Sign(signal.side) * (signal.stop - signal.price) < 0
          /\ Sign(signal.side) * (signal.target - signal.price) > 0

(* "Recording the high/low of the first 15 minutes", "trading the breakout *)
(* above/below that range", "using the opposite end of the range as        *)
(* stop-loss": an ORB signal is beyond every price of the formation, and   *)
(* its stop is the farthest of them.                                       *)
OrbBreaksOut ==
    kind = "orb" =>
        \A i \in DOMAIN log :
            LET signal == log[i].signal
                formed == log[i].before.formed
            IN  /\ \A p \in formed : /\ Sign(signal.side) * (signal.price - p) > 0
                                     /\ Sign(signal.side) * (p - signal.stop) >= 0
                /\ signal.stop \in formed

Spacing == [vwap_rsi |-> VwapCooldown, ema |-> EmaCooldown]

(* "Min candles between signals per instrument", "Max trades per instrument*)
(* per day"; an ORB trades each side once.                                 *)
SignalsRationed ==
    /\ kind \in DOMAIN Spacing =>
          \A i, j \in DOMAIN log : i < j => log[j].at - log[i].at >= Spacing[kind]
    /\ kind = "vwap_rsi" => Len(log) <= VwapTrades
    /\ kind = "squeeze" => Len(log) <= SqueezeTrades
    /\ kind = "orb" => \A i, j \in DOMAIN log : i # j => log[i].signal.side # log[j].signal.side

(* The cause of a signal is of the same day.  "RSI was oversold and crosses*)
(* back up": some candle of the entry hours was at the extreme the signal  *)
(* comes from.  An EMA signal is a cross of this very candle: on the one   *)
(* before, the averages were not yet in the order it speaks for.           *)
CauseOfToday ==
    \A i \in DOMAIN log :
        LET buys   == log[i].signal.side = "BUY"
            before == log[i].before
        IN  /\ kind = "vwap_rsi" => (IF buys THEN "low" ELSE "high") \in before.rsi
            /\ kind = "ema" => before.order \in {"equal", IF buys THEN "below" ELSE "above"}

(* "BB inside Keltner Channels for 5+ consecutive candles": a breakout ends*)
(* a squeeze that went on without interruption for as long as it must.     *)
SqueezeBeforeBreakout ==
    kind = "squeeze" => \A i \in DOMAIN log : log[i].before.streak >= MinSqueeze

=============================================================================
