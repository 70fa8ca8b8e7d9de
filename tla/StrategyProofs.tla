----------------------------- MODULE StrategyProofs -----------------------------
(***************************************************************************)
(* Proofs about the strategies of the NSE bot, for any prices, ranges,     *)
(* distances, cooldowns, windows and limits, and about the exit engine     *)
(* that replays their trades, for any ATR, candles and length of the path. *)
(***************************************************************************)
EXTENDS NseStrategies, ExitModels, FoldLemmas

Orders == {"none", "above", "equal", "below"}
Rsis == {"low", "mid", "high"}

Sight ==
    [total : Nat, candles : Nat, formed : SUBSET Prices, rsi : SUBSET Rsis, order : Orders,
     streak : Nat]

Signals == [side : Sides, price : Int, stop : Int, target : Int]

Entry == [signal : Signals, at : Nat, before : Sight]

Ranges == [high : Prices, low : Prices] \cup {NoRange}

States ==
    [orb        |-> [range : Ranges, ready : BOOLEAN, taken : SUBSET Sides],
     vwap_rsi   |-> [rsi : Rsis \cup {"none"}, trades : 0..VwapTrades, since : Nat \cup {NotYet}],
     ema        |-> [order : Orders, since : Nat \cup {NotYet}],
     supertrend |-> [directions : BoundedSeq(BOOLEAN, ChopWindow)],
     squeeze    |-> [count : Nat, was : BOOLEAN, trades : 0..SqueezeTrades]]

(* What the strategy keeps of today.                                       *)
Today == MaybeResetDaily

Times ==
    /\ kind \in Kinds /\ phase \in 1..5 /\ day \in 1..MaxDays
    /\ missing \in 0..Missing /\ resetDay \in 0..day

Straddled(signal) ==
    /\ Sign(signal.side) * (signal.stop - signal.price) < 0
    /\ Sign(signal.side) * (signal.target - signal.price) > 0

(* What was seen and said today; nothing before the first candle.          *)
Noted ==
    /\ seen \in Sight /\ log \in Seq(Entry)
    /\ resetDay # day => seen = NothingSeen /\ log = <<>>
    /\ \A i \in DOMAIN log : Straddled(log[i].signal)

(* The range is that of all prices of the formation, and a signal is noted.*)
OrbKnows ==
    /\ Today.range = NoRange => seen.formed = {}
    /\ Today.range # NoRange =>
          /\ {Today.range.low, Today.range.high} \subseteq seen.formed
          /\ \A p \in seen.formed : Today.range.low <= p /\ p <= Today.range.high
    /\ Today.ready => phase >= 3 /\ Fits(Today.range)
    /\ \A i \in DOMAIN log : log[i].signal.side \in Today.taken

(* The candles since the last signal are no fewer than the strategy counts.*)
Counted == \A i \in DOMAIN log : Today.since \in Nat /\ log[i].at <= seen.candles - Today.since

VwapKnows ==
    /\ Counted /\ Len(log) = Today.trades
    /\ Today.rsi = "none" \/ Today.rsi \in seen.rsi

EmaKnows == Counted /\ Today.order = seen.order

(* As long as a squeeze may still be traded, its candles came one after    *)
(* the other.                                                              *)
SqueezeKnows ==
    /\ Len(log) = Today.trades
    /\ phase <= 3 /\ Today.trades < SqueezeTrades =>
          /\ Today.count <= seen.streak
          /\ phase = 1 \/ ~Warm => Today.count = 0

Knows ==
    /\ kind = "orb" => OrbKnows
    /\ kind = "vwap_rsi" => VwapKnows
    /\ kind = "ema" => EmaKnows
    /\ kind = "squeeze" => SqueezeKnows

Promises == OrbBreaksOut /\ SignalsRationed /\ CauseOfToday /\ SqueezeBeforeBreakout

StrategyInv == Times /\ state \in States[kind] /\ Noted /\ Knows /\ Promises

-----------------------------------------------------------------------------
LEMMA PhaseNames ==
    ASSUME phase \in 1..5
    PROVE  /\ InPhase({"opening", "settling"}) <=> phase \in {1, 2}
           /\ EntryHours <=> phase \in {2, 3}
           /\ InPhase({"trading"}) <=> phase = 3
           /\ InPhase({"closed"}) <=> phase = 5
  <1>1. /\ Phases[1] = "opening" /\ Phases[2] = "settling" /\ Phases[3] = "trading"
        /\ Phases[4] = "closing" /\ Phases[5] = "closed" /\ Len(Phases) = 5
    BY DEF Phases
  <1>2. phase \in {1, 2, 3, 4, 5}
    OBVIOUS
  <1> QED
    BY <1>1, <1>2 DEF InPhase, EntryHours

LEMMA Fresh0 ==
    ASSUME NEW k \in Kinds
    PROVE  Fresh[k] \in States[k]
  <1>1. CASE k = "supertrend"
    <2>1. <<>> \in BoundedSeq(BOOLEAN, ChopWindow)
      <3>1. <<>> \in [1..0 -> BOOLEAN] /\ 0 \in 0..ChopWindow
        BY NseStrategiesAssumption
      <3> QED
        BY <3>1 DEF BoundedSeq, SeqOf
    <2> QED
      BY <1>1, <2>1 DEF Fresh, States, SuperTrendFresh
  <1>2. CASE k = "orb"
    BY <1>2 DEF Fresh, States, OrbFresh, Ranges
  <1>3. CASE k = "vwap_rsi"
    BY <1>3, NseStrategiesAssumption DEF Fresh, States, VwapRsiFresh
  <1>4. CASE k = "ema"
    BY <1>4 DEF Fresh, States, EmaFresh, Orders
  <1>5. CASE k = "squeeze"
    BY <1>5, NseStrategiesAssumption DEF Fresh, States, SqueezeFresh
  <1> QED
    BY <1>1, <1>2, <1>3, <1>4, <1>5 DEF Kinds

LEMMA TodayTyped == ASSUME StrategyInv PROVE Today \in States[kind]
  BY Fresh0 DEF StrategyInv, Times, Today, MaybeResetDaily

(* A morning: nothing seen, nothing said, everything forgotten.            *)
Morning == kind \in Kinds /\ Today = Fresh[kind] /\ seen = NothingSeen /\ log = <<>>

LEMMA Mornings == Morning => Noted /\ Knows /\ Promises
  <1> SUFFICES ASSUME Morning PROVE Noted /\ Knows /\ Promises
    OBVIOUS
  <1> USE DEF Morning
  <1>1. seen \in Sight /\ log \in Seq(Entry) /\ DOMAIN log = {} /\ Len(log) = 0
    BY DEF Sight, NothingSeen, Orders
  <1>2. Noted
    BY <1>1 DEF Noted
  <1>3. Promises
    BY <1>1, NseStrategiesAssumption
       DEF Promises, OrbBreaksOut, SignalsRationed, CauseOfToday, SqueezeBeforeBreakout
  <1>4. Knows
    BY <1>1 DEF Knows, OrbKnows, VwapKnows, EmaKnows, SqueezeKnows, Counted, Fresh, OrbFresh,
               VwapRsiFresh, EmaFresh, SqueezeFresh, NothingSeen
  <1> QED
    BY <1>2, <1>3, <1>4

LEMMA StrategyBegins == Init => StrategyInv
  <1> SUFFICES ASSUME Init PROVE StrategyInv
    OBVIOUS
  <1>1. Times
    BY NseStrategiesAssumption DEF Init, Times
  <1>2. Today = Fresh[kind]
    BY DEF Init, Today, MaybeResetDaily
  <1>3. state \in States[kind]
    <2>1. CASE kind = "squeeze"
      BY <2>1, NseStrategiesAssumption DEF Init, SqueezeReplayed, States
    <2> QED
      BY <2>1, Fresh0 DEF Init
  <1> QED
    BY <1>1, <1>2, <1>3, Mornings DEF Init, StrategyInv, Times, Morning

(* The day goes on, and the next one begins.                               *)
LEMMA PhaseEndsKeeps == ASSUME StrategyInv, PhaseEnds PROVE StrategyInv'
  <1>1. /\ phase' = phase + 1 /\ phase < 5
        /\ UNCHANGED <<kind, day, missing, state, resetDay, seen, log>> /\ Today' = Today
    BY DEF PhaseEnds, Phases, Today, MaybeResetDaily
  <1>2. phase \in 1..5
    BY DEF StrategyInv, Times
  <1>3. Times' /\ (state \in States[kind])' /\ Noted' /\ Promises'
    BY <1>1, <1>2 DEF StrategyInv, Times, Noted, Promises, OrbBreaksOut, SignalsRationed,
                      CauseOfToday, SqueezeBeforeBreakout
  <1>4. Knows'
    BY <1>1, <1>2 DEF StrategyInv, Knows, OrbKnows, VwapKnows, EmaKnows, SqueezeKnows, Counted, Warm
  <1> QED
    BY <1>3, <1>4 DEF StrategyInv

LEMMA NextDayKeeps == ASSUME StrategyInv, NextDay PROVE StrategyInv'
  <1>1. /\ phase' = 1 /\ day' = day + 1 /\ day < MaxDays /\ seen' = NothingSeen /\ log' = <<>>
        /\ UNCHANGED <<kind, missing, state, resetDay>>
    BY DEF NextDay
  <1>2. Times'
    BY <1>1, NseStrategiesAssumption DEF StrategyInv, Times
  <1>3. Today' = Fresh[kind]'
    BY <1>1 DEF StrategyInv, Times, Today, MaybeResetDaily
  <1>4. (Noted /\ Knows /\ Promises)'
    <2>1. Morning'
      BY <1>1, <1>2, <1>3 DEF Morning, Times
    <2>2. Morning' => (Noted /\ Knows /\ Promises)'
      BY Mornings, PTL
    <2> QED
      BY <2>1, <2>2
  <1> QED
    BY <1>1, <1>2, <1>4 DEF StrategyInv

-----------------------------------------------------------------------------
(* A candle is handed to the strategy: what it makes of it is what it has  *)
(* of today from then on, and its signal is noted.                         *)
Outcome(result) ==
    /\ result.state \in States[kind]
    /\ result.signal = NoSignal \/ (result.signal \in Signals /\ Straddled(result.signal))

Nr == IF EntryHours THEN seen.candles + 1 ELSE seen.candles

Noticed(note) == [note EXCEPT !.total = @ + 1, !.candles = Nr]

Said(signal) == [signal |-> signal, at |-> Nr, before |-> seen]

LEMMA NoneIsNoSide == NoSignal \notin Signals
  BY DEF NoSignal, Signals, Sides

LEMMA Handed ==
    ASSUME StrategyInv, NEW result, NEW note \in Sight, Outcome(result), OnCandle(result, note)
    PROVE  /\ Times' /\ (state \in States[kind])' /\ Noted'
           /\ Today' = result.state /\ UNCHANGED <<kind, phase>> /\ phase < 5
           /\ (missing = 0 => missing' = 0)
           /\ Nr \in Nat /\ seen' = Noticed(note)
           /\ log \in Seq(Entry)
           /\ IF result.signal = NoSignal THEN log' = log
              ELSE /\ Len(log') = Len(log) + 1 /\ log'[Len(log) + 1] = Said(result.signal)
                   /\ \A i \in DOMAIN log : i # Len(log) + 1 /\ log'[i] = log[i]
                   /\ DOMAIN log' = DOMAIN log \cup {Len(log) + 1}
  <1>1. /\ state' = result.state /\ resetDay' = day /\ missing' = Max({missing - 1, 0})
        /\ seen' = Noticed(note) /\ UNCHANGED <<kind, phase, day>>
        /\ log' = IF result.signal = NoSignal THEN log ELSE Append(log, Said(result.signal))
    BY DEF OnCandle, Noticed, Nr, Said
  <1>2. missing \in Nat /\ Missing \in Nat /\ day \in 1..MaxDays /\ phase \in 1..5
    BY NseStrategiesAssumption DEF StrategyInv, Times
  <1>3. missing' = IF missing > 0 THEN missing - 1 ELSE 0
    BY <1>1, <1>2, MaxOfTwo
  <1>4. phase < 5
    BY <1>2, PhaseNames DEF OnCandle
  <1>5. Times'
    BY <1>1, <1>2, <1>3, NseStrategiesAssumption DEF StrategyInv, Times
  <1>6. Today' = result.state
    BY <1>1 DEF Today, MaybeResetDaily
  <1>7. seen \in Sight /\ log \in Seq(Entry) /\ Nr \in Nat
    BY DEF StrategyInv, Noted, Sight, Nr
  <1>8. Noticed(note) \in Sight
    <2>1. note.total + 1 \in Nat
      BY DEF Sight
    <2> QED
      BY <1>7, <2>1, Zenon DEF Noticed, Sight
  <1>9. CASE result.signal = NoSignal
    BY <1>1, <1>3, <1>4, <1>5, <1>6, <1>7, <1>8, <1>9 DEF Noted, StrategyInv, Outcome
  <1>10. CASE result.signal # NoSignal
    <2>1. result.signal \in Signals /\ Straddled(result.signal)
      BY <1>10 DEF Outcome
    <2>2. Said(result.signal) \in Entry
      BY <1>7, <2>1 DEF Said, Entry
    <2>3. /\ log' \in Seq(Entry) /\ Len(log') = Len(log) + 1
          /\ log'[Len(log) + 1] = Said(result.signal)
          /\ \A i \in DOMAIN log : i # Len(log) + 1 /\ log'[i] = log[i]
          /\ DOMAIN log' = DOMAIN log \cup {Len(log) + 1}
      BY <1>1, <1>7, <1>10, <2>2
    <2>4. \A i \in DOMAIN log' : Straddled(log'[i].signal)
      <3>1. Said(result.signal).signal = result.signal
        BY DEF Said
      <3> QED
        BY <2>1, <2>3, <3>1 DEF StrategyInv, Noted
    <2>5. Noted'
      BY <1>1, <1>8, <2>3, <2>4 DEF Noted, Straddled
    <2> QED
      BY <1>1, <1>3, <1>4, <1>5, <1>6, <1>7, <1>10, <2>3, <2>5 DEF Outcome
  <1> QED
    BY <1>9, <1>10

(* A strategy that is not the one followed has nothing to keep.            *)
LEMMA OthersKeep ==
    ASSUME StrategyInv, NEW result, NEW note \in Sight, Outcome(result), OnCandle(result, note)
    PROVE  /\ kind # "orb" => OrbBreaksOut'
           /\ kind # "squeeze" => SqueezeBeforeBreakout'
           /\ kind \notin {"vwap_rsi", "ema"} => CauseOfToday'
           /\ kind = "supertrend" => SignalsRationed'
  BY DEF OnCandle, OrbBreaksOut, SqueezeBeforeBreakout, CauseOfToday, SignalsRationed, Spacing

(* What the indicators measure, and an amount times the reward ratio.      *)
LEMMA Measures == Distances \subseteq Int /\ MinStop \in Nat /\ MinStop > 0
  <1>1. Distances \subseteq Int /\ MinStop \in Nat \ {0}
    BY NseStrategiesAssumption
  <1> QED
    BY <1>1

LEMMA Rewarded ==
    ASSUME NEW risk \in Int, risk > 0
    PROVE  RewardRatio * risk \in Int /\ RewardRatio * risk > 0
  BY NseStrategiesAssumption

LEMMA GivesStraddle ==
    ASSUME NEW side \in Sides, NEW price \in Int, NEW risk \in Int, risk > 0,
           NEW reward \in Int, reward > 0
    PROVE  /\ Give(side, price, risk, reward) \in Signals
           /\ Straddled(Give(side, price, risk, reward))
           /\ Give(side, price, risk, reward).side = side
  <1>1. CASE side = "BUY"
    BY <1>1 DEF Give, Signals, Straddled, Sign, Sides
  <1>2. CASE side = "SELL"
    BY <1>2 DEF Give, Signals, Straddled, Sign, Sides
  <1> QED
    BY <1>1, <1>2 DEF Sides

-----------------------------------------------------------------------------
(* The latest n of a sequence of at most n that was appended to.           *)
LEMMA LatestBounded ==
    ASSUME NEW T, NEW n \in Nat, n > 0, NEW m \in 0..n, NEW q \in [1..m -> T], NEW e \in T
    PROVE  Latest(Append(q, e), n) \in BoundedSeq(T, n)
  <1> DEFINE more == Append(q, e)
  <1>1. q \in Seq(T) /\ Len(q) = m /\ m \in Nat
    OBVIOUS
  <1>2. more \in Seq(T) /\ Len(more) = m + 1
    BY <1>1
  <1> HIDE DEF more
  <1>3. \E r \in Seq(T) : r = Latest(more, n) /\ Len(r) \in 0..n
    <2>1. CASE m + 1 <= n
      BY <1>1, <1>2, <2>1 DEF Latest
    <2>2. CASE m + 1 > n
      <3>1. m = n /\ Latest(more, n) = SubSeq(more, 2, n + 1)
        BY <1>1, <1>2, <2>2 DEF Latest
      <3>2. SubSeq(more, 2, n + 1) \in Seq(T) /\ Len(SubSeq(more, 2, n + 1)) = n
        BY <1>2, <3>1
      <3> QED
        BY <3>1, <3>2
    <2> QED
      BY <1>1, <2>1, <2>2
  <1>4. PICK r \in Seq(T) : r = Latest(more, n) /\ Len(r) \in 0..n
    BY <1>3
  <1>5. r \in [1..Len(r) -> T]
    BY <1>4
  <1> QED
    BY <1>4, <1>5 DEF more, BoundedSeq, SeqOf

(* Super trend: a line on the wrong side of the price is no stop.          *)
LEMMA SuperTrendKeeps ==
    ASSUME StrategyInv, NEW c \in SuperTrendCandles, SuperTrendCandle(c)
    PROVE  StrategyInv'
  <1> DEFINE s == MaybeResetDaily
             result == SuperTrend(s, c)
             t == [s EXCEPT !.directions = Latest(Append(@, c.up), ChopWindow)]
             side == IF c.up THEN "BUY" ELSE "SELL"
             risk == LineStop(c.distance)
  <1>1. kind = "supertrend" /\ OnCandle(result, seen)
    BY DEF SuperTrendCandle
  <1>2. s \in States["supertrend"]
    BY <1>1, TodayTyped DEF Today
  <1>3. t \in States["supertrend"]
    <2>1. PICK m \in 0..ChopWindow : s.directions \in [1..m -> BOOLEAN]
      BY <1>2 DEF States, BoundedSeq, SeqOf
    <2>2. c.up \in BOOLEAN
      BY DEF SuperTrendCandles
    <2>3. Latest(Append(s.directions, c.up), ChopWindow) \in BoundedSeq(BOOLEAN, ChopWindow)
      BY <2>1, <2>2, NseStrategiesAssumption, LatestBounded
    <2> QED
      BY <1>2, <2>3 DEF States
  <1>4. side \in Sides /\ risk \in Int /\ risk > 0
    <2>1. c.distance \in Distances
      BY DEF SuperTrendCandles
    <2>2. c.distance \in Int
      BY <2>1, Measures, Zenon
    <2>3. MinStop \in Int /\ MinStop > 0
      BY Measures
    <2> QED
      BY <2>2, <2>3 DEF Sides, LineStop
  <1>5. Outcome(result)
    <2>1. result = Keep(s) \/ result = Keep(t)
          \/ result = Say(t, Give(side, 0, risk, RewardRatio * risk))
      BY DEF SuperTrend
    <2>2. RewardRatio * risk \in Int /\ RewardRatio * risk > 0
      BY <1>4, Rewarded
    <2>3. /\ Give(side, 0, risk, RewardRatio * risk) \in Signals
          /\ Straddled(Give(side, 0, risk, RewardRatio * risk))
      BY <1>4, <2>2, GivesStraddle
    <2> QED
      BY <1>1, <1>2, <1>3, <2>1, <2>3 DEF Outcome, Keep, Say
  <1>6. seen \in Sight
    BY DEF StrategyInv, Noted
  <1>7. kind' = kind
    BY <1>1 DEF OnCandle
  <1> QED
    BY <1>1, <1>5, <1>6, <1>7, Handed, OthersKeep DEF StrategyInv, Promises, Knows

-----------------------------------------------------------------------------
(* Opening range breakout.                                                 *)
LEMMA OrbPrices ==
    ASSUME NEW c \in OrbCandles
    PROVE  c.high \in Prices /\ c.low \in Prices /\ c.close \in Prices /\ c.low <= c.high
  <1> DEFINE forming == InPhase({"opening", "settling"})
             filters == IF forming THEN [volume : {TRUE}, vwap : {"none"}, bias : {"NEUTRAL"}]
                        ELSE [volume : BOOLEAN, vwap : Sides \cup {"none", "at"}, bias : Biases]
             prices == {p \in [high : Prices, low : Prices, close : Prices] :
                            p.low <= p.close /\ p.close = p.high /\ (forming \/ p.low = p.high)}
  <1>1. PICK p \in prices, f \in filters :
            c = [high |-> p.high, low |-> p.low, close |-> p.close,
                 volume |-> f.volume, vwap |-> f.vwap, bias |-> f.bias]
    <2>1. OrbCandles =
              {[high |-> p.high, low |-> p.low, close |-> p.close,
                volume |-> f.volume, vwap |-> f.vwap, bias |-> f.bias] : p \in prices, f \in filters}
      BY DEF OrbCandles
    <2> HIDE DEF filters, prices
    <2> QED
      BY <2>1
  <1>2. p \in [high : Prices, low : Prices, close : Prices] /\ p.low <= p.close /\ p.close = p.high
    OBVIOUS
  <1>3. c.high = p.high /\ c.low = p.low /\ c.close = p.close
    BY <1>1
  <1> QED
    BY <1>2, <1>3

LEMMA PricesNumbers == Prices \subseteq Nat /\ 0 \notin Prices
  <1>1. Prices \subseteq Nat \ {0}
    BY NseStrategiesAssumption
  <1> QED
    BY <1>1

(* The range after a candle of the formation.                              *)
LEMMA Widened ==
    ASSUME NEW old \in Ranges, NEW c, c.high \in Prices, c.low \in Prices, c.low <= c.high
    PROVE  LET wide == Widen(old, c)
           IN  /\ wide \in [high : Prices, low : Prices] /\ wide # NoRange
               /\ wide.low <= c.low /\ c.high <= wide.high
               /\ IF old = NoRange THEN wide.low = c.low /\ wide.high = c.high
                  ELSE /\ wide.low <= old.low /\ old.high <= wide.high
                       /\ wide.low \in {old.low, c.low} /\ wide.high \in {old.high, c.high}
  <1> DEFINE wide == Widen(old, c)
  <1>1. c.high \in Nat /\ c.low \in Nat /\ c.high # 0
    BY PricesNumbers
  <1>2. CASE old = NoRange
    BY <1>1, <1>2 DEF Widen, NoRange
  <1>3. CASE old # NoRange
    <2>1. old \in [high : Prices, low : Prices]
      BY <1>3 DEF Ranges
    <2>2. old.high \in Prices /\ old.low \in Prices /\ old.high \in Nat /\ old.low \in Nat
      BY <2>1, PricesNumbers
    <2>3. /\ wide.high = IF old.high >= c.high THEN old.high ELSE c.high
          /\ wide.low = IF old.low <= c.low THEN old.low ELSE c.low
          /\ wide = [high |-> wide.high, low |-> wide.low]
      BY <1>1, <1>3, <2>2, MaxOfTwo, MinOfTwo DEF Widen
    <2>4. wide.high # 0
      BY <1>1, <2>2, <2>3, PricesNumbers
    <2> QED
      BY <1>1, <1>3, <2>2, <2>3, <2>4 DEF NoRange
  <1> QED
    BY <1>2, <1>3

(* What a breakout says.                                                   *)
LEMMA BreakoutGives ==
    ASSUME NEW s \in States["orb"], Fits(s.range), NEW c, c.close \in Nat
    PROVE  LET result == Breakout(s, c)
               side   == Broken(s.range, c)
               signal == result.signal
           IN  \/ result = Keep(s)
               \/ /\ result.state = [s EXCEPT !.taken = @ \cup {side}]
                  /\ side \in Sides /\ side \notin s.taken
                  /\ signal \in Signals /\ Straddled(signal)
                  /\ signal.side = side /\ signal.price = c.close
                  /\ \/ side = "BUY" /\ c.close > s.range.high /\ signal.stop = s.range.low
                     \/ side = "SELL" /\ c.close < s.range.low /\ signal.stop = s.range.high
  <1> DEFINE result == Breakout(s, c)
             side == Broken(s.range, c)
             end == IF side = "BUY" THEN s.range.low ELSE s.range.high
             risk == Sign(side) * (c.close - end)
             reward == RewardRatio * (s.range.high - s.range.low)
  <1> SUFFICES ASSUME result # Keep(s)
               PROVE  LET signal == result.signal
                      IN  /\ result.state = [s EXCEPT !.taken = @ \cup {side}]
                          /\ side \in Sides /\ side \notin s.taken
                          /\ signal \in Signals /\ Straddled(signal)
                          /\ signal.side = side /\ signal.price = c.close
                          /\ \/ side = "BUY" /\ c.close > s.range.high
                                /\ signal.stop = s.range.low
                             \/ side = "SELL" /\ c.close < s.range.low
                                /\ signal.stop = s.range.high
    OBVIOUS
  <1>1. /\ side \notin s.taken \cup {"none"}
        /\ result = Say([s EXCEPT !.taken = @ \cup {side}], Give(side, c.close, risk, reward))
    BY DEF Breakout
  <1>2. s.range.high \in Nat /\ s.range.low \in Nat /\ s.range.high - s.range.low > 0
    <2>1. s.range \in [high : Prices, low : Prices]
      BY DEF States, Fits, Ranges
    <2>2. s.range.high \in Nat /\ s.range.low \in Nat
      BY <2>1, PricesNumbers
    <2>3. MinRange \in Nat /\ MinRange > 0 /\ MaxRange \in Nat
      BY NseStrategiesAssumption
    <2> QED
      BY <2>2, <2>3 DEF Fits
  <1>3. \/ side = "BUY" /\ c.close > s.range.high /\ risk = c.close - s.range.low
        \/ side = "SELL" /\ c.close < s.range.low /\ risk = s.range.high - c.close
    BY <1>1, <1>2 DEF Broken, Sign
  <1>4. risk \in Int /\ risk > 0 /\ side \in Sides
    BY <1>2, <1>3 DEF Sides
  <1>5. reward \in Int /\ reward > 0
    BY <1>2, Rewarded
  <1> HIDE DEF side, risk, reward
  <1>6. /\ Give(side, c.close, risk, reward) \in Signals
        /\ Straddled(Give(side, c.close, risk, reward))
        /\ Give(side, c.close, risk, reward).side = side
    <2>1. c.close \in Int
      OBVIOUS
    <2> HIDE DEF result
    <2> QED
      BY <1>4, <1>5, <2>1, GivesStraddle, Zenon
  <1>7. /\ Give(side, c.close, risk, reward).price = c.close
        /\ Give(side, c.close, risk, reward).stop =
              IF side = "BUY" THEN s.range.low ELSE s.range.high
    BY <1>2, <1>3, <1>4 DEF Give, Sign
  <1> QED
    BY <1>1, <1>3, <1>4, <1>6, <1>7 DEF Say

LEMMA SpacingNames ==
    /\ DOMAIN Spacing = {"vwap_rsi", "ema"}
    /\ Spacing["vwap_rsi"] = VwapCooldown /\ Spacing["ema"] = EmaCooldown
  BY DEF Spacing

(* While the range forms, a candle widens it.                              *)
LEMMA OrbForms ==
    ASSUME StrategyInv, NEW c \in OrbCandles, OrbCandle(c), phase \in {1, 2}
    PROVE  StrategyInv'
  <1> DEFINE s == MaybeResetDaily
             result == Keep([s EXCEPT !.range = Widen(@, c)])
             note == [seen EXCEPT !.formed = @ \cup {c.low, c.high}]
  <1>1. kind = "orb" /\ OnCandle(result, note) /\ phase \in 1..5
    <2>1. InPhase({"opening", "settling"}) /\ phase \in 1..5
      BY PhaseNames DEF StrategyInv, Times
    <2> QED
      BY <2>1 DEF OrbCandle, Orb
  <1>2. s \in States["orb"] /\ s = Today
    BY <1>1, TodayTyped DEF Today
  <1>3. c.high \in Prices /\ c.low \in Prices /\ c.low <= c.high
    BY OrbPrices
  <1>4. s.range \in Ranges
    BY <1>2 DEF States
  <1> DEFINE wide == Widen(s.range, c)
  <1>5. /\ wide \in Ranges /\ wide # NoRange /\ {wide.low, wide.high} \subseteq Prices
        /\ wide.low <= c.low /\ c.high <= wide.high
        /\ IF s.range = NoRange THEN wide.low = c.low /\ wide.high = c.high
           ELSE /\ wide.low <= s.range.low /\ s.range.high <= wide.high
                /\ wide.low \in {s.range.low, c.low} /\ wide.high \in {s.range.high, c.high}
    BY <1>3, <1>4, Widened DEF Ranges
  <1> HIDE DEF wide
  <1>6. result = [state |-> [s EXCEPT !.range = wide], signal |-> NoSignal]
    BY DEF Keep, wide
  <1>7. note \in Sight /\ Outcome(result)
    <2>1. seen \in Sight
      BY DEF StrategyInv, Noted
    <2>2. [s EXCEPT !.range = wide] \in States["orb"]
      BY <1>2, <1>5 DEF States
    <2> QED
      BY <1>1, <1>3, <1>6, <2>1, <2>2 DEF Sight, Outcome
  <1>8. /\ Times' /\ (state \in States[kind])' /\ Noted'
        /\ Today' = result.state /\ UNCHANGED <<kind, phase, log>> /\ seen' = Noticed(note)
    BY <1>1, <1>6, <1>7, Handed
  <1>9. Today'.range = wide /\ Today'.ready = s.ready /\ Today'.taken = s.taken
    BY <1>2, <1>6, <1>8 DEF States
  <1>10. seen'.formed = seen.formed \cup {c.low, c.high}
    BY <1>8 DEF Noticed, StrategyInv, Noted, Sight
  <1>11. OrbKnows /\ seen.formed \subseteq Prices
    BY <1>1 DEF StrategyInv, Knows, Noted, Sight
  <1>12. OrbKnows'
    <2>1. {wide.low, wide.high} \subseteq seen'.formed
      BY <1>2, <1>5, <1>10, <1>11 DEF OrbKnows
    <2>2. \A p \in seen'.formed : wide.low <= p /\ p <= wide.high
      <3>1. wide.low \in Nat /\ wide.high \in Nat /\ c.low \in Nat /\ c.high \in Nat
        BY <1>3, <1>5, PricesNumbers
      <3>2. CASE s.range = NoRange
        BY <1>2, <1>3, <1>5, <1>10, <1>11, <3>1, <3>2 DEF OrbKnows
      <3>3. CASE s.range # NoRange
        <4>1. s.range.low \in Nat /\ s.range.high \in Nat
          BY <1>4, <3>3, PricesNumbers DEF Ranges
        <4>2. \A p \in seen.formed : p \in Nat /\ s.range.low <= p /\ p <= s.range.high
          BY <1>2, <1>11, <3>3, PricesNumbers DEF OrbKnows
        <4> QED
          BY <1>3, <1>5, <1>10, <3>1, <3>3, <4>1, <4>2
      <3> QED
        BY <3>2, <3>3
    <2>3. ~Today'.ready
      BY <1>2, <1>9, <1>11 DEF OrbKnows
    <2> QED
      BY <1>2, <1>5, <1>8, <1>9, <1>11, <2>1, <2>2, <2>3 DEF OrbKnows
  <1>13. Promises'
    BY <1>8 DEF StrategyInv, Promises, OrbBreaksOut, SignalsRationed, CauseOfToday,
                SqueezeBeforeBreakout
  <1> QED
    BY <1>1, <1>8, <1>12, <1>13 DEF StrategyInv, Knows

(* After that, a candle may break it.                                      *)
LEMMA OrbTrades ==
    ASSUME StrategyInv, NEW c \in OrbCandles, OrbCandle(c), phase \notin {1, 2}
    PROVE  StrategyInv'
  <1> DEFINE s == MaybeResetDaily
             t == [s EXCEPT !.ready = @ \/ Fits(s.range)]
             result == IF t.ready /\ phase = 3 THEN Breakout(t, c) ELSE Keep(t)
             side == Broken(s.range, c)
             signal == result.signal
  <1>1. kind = "orb" /\ OnCandle(result, seen) /\ phase \in 3..5
    <2>1. ~InPhase({"opening", "settling"}) /\ phase \in 1..5 /\ (InPhase({"trading"}) <=> phase = 3)
      BY PhaseNames DEF StrategyInv, Times
    <2> QED
      BY <2>1 DEF OrbCandle, Orb
  <1>2. s \in States["orb"] /\ s = Today /\ OrbKnows /\ seen \in Sight
    BY <1>1, TodayTyped DEF Today, StrategyInv, Knows, Noted
  <1>3. /\ t \in States["orb"] /\ t.range = s.range /\ t.taken = s.taken
        /\ t.ready => Fits(t.range)
    BY <1>2 DEF States, Fits, OrbKnows
  <1> HIDE DEF t
  <1>4. c.close \in Nat
    BY OrbPrices, PricesNumbers
  <1>5. \/ result = Keep(t)
        \/ /\ result.state = [t EXCEPT !.taken = @ \cup {side}]
           /\ t.ready /\ side \in Sides /\ side \notin s.taken
           /\ signal \in Signals /\ Straddled(signal)
           /\ signal.side = side /\ signal.price = c.close
           /\ \/ side = "BUY" /\ c.close > s.range.high /\ signal.stop = s.range.low
              \/ side = "SELL" /\ c.close < s.range.low /\ signal.stop = s.range.high
    <2>1. CASE t.ready /\ phase = 3
      BY <1>3, <1>4, <2>1, BreakoutGives
    <2> QED
      BY <2>1
  <1>6. Outcome(result)
    BY <1>1, <1>3, <1>5 DEF Outcome, Keep, States
  <1> HIDE DEF result, side
  <1>7. /\ Times' /\ (state \in States[kind])' /\ Noted'
        /\ Today' = result.state /\ UNCHANGED <<kind, phase>> /\ seen' = Noticed(seen)
        /\ Nr \in Nat /\ log \in Seq(Entry)
        /\ IF signal = NoSignal THEN log' = log
           ELSE /\ Len(log') = Len(log) + 1 /\ log'[Len(log) + 1] = Said(signal)
                /\ \A i \in DOMAIN log : i # Len(log) + 1 /\ log'[i] = log[i]
                /\ DOMAIN log' = DOMAIN log \cup {Len(log) + 1}
    BY <1>1, <1>2, <1>6, Handed
  <1>8. seen'.formed = seen.formed
    BY <1>2, <1>7 DEF Noticed, Sight
  <1>9. SqueezeBeforeBreakout' /\ CauseOfToday'
    BY <1>1, <1>2, <1>6, OthersKeep
  <1>10. CASE result = Keep(t)
    <2>1. signal = NoSignal /\ log' = log /\ Today' = t
      BY <1>7, <1>10 DEF Keep
    <2>2. OrbKnows'
      BY <1>1, <1>2, <1>3, <1>7, <1>8, <2>1 DEF OrbKnows
    <2>3. OrbBreaksOut' /\ SignalsRationed'
      BY <1>7, <2>1 DEF StrategyInv, Promises, OrbBreaksOut, SignalsRationed
    <2> QED
      BY <1>1, <1>7, <1>9, <2>2, <2>3 DEF StrategyInv, Knows, Promises
  <1>11. CASE result # Keep(t)
    <2>1. /\ t.ready /\ side \in Sides /\ side \notin s.taken
          /\ signal \in Signals /\ signal.side = side /\ signal.price = c.close
          /\ \/ side = "BUY" /\ c.close > s.range.high /\ signal.stop = s.range.low
             \/ side = "SELL" /\ c.close < s.range.low /\ signal.stop = s.range.high
          /\ Today' = [t EXCEPT !.taken = @ \cup {side}]
      BY <1>5, <1>7, <1>11
    <2>2. /\ log'[Len(log) + 1] = Said(signal)
          /\ \A i \in DOMAIN log : i # Len(log) + 1 /\ log'[i] = log[i]
          /\ DOMAIN log' = DOMAIN log \cup {Len(log) + 1}
      BY <1>7, <2>1, NoneIsNoSide
    <2>3. /\ Said(signal).signal = signal /\ Said(signal).before.formed = seen.formed
      BY DEF Said
    <2>4. /\ Today'.range = s.range /\ Today'.ready = t.ready
          /\ Today'.taken = s.taken \cup {side}
      BY <1>3, <2>1 DEF States
    <2>5. OrbKnows'
      <3>1. \A i \in DOMAIN log' : log'[i].signal.side \in Today'.taken
        BY <1>2, <2>1, <2>2, <2>3, <2>4 DEF OrbKnows
      <3>2. Today'.ready => phase' >= 3 /\ Fits(Today'.range)
        BY <1>1, <1>3, <1>7, <2>4
      <3> QED
        BY <1>2, <1>8, <2>4, <3>1, <3>2 DEF OrbKnows
    <2>6. OrbBreaksOut'
      <3>1. s.range # NoRange
        BY <1>3, <2>1 DEF Fits
      <3>2. /\ s.range.low \in seen.formed /\ s.range.high \in seen.formed
            /\ \A p \in seen.formed : p \in Nat /\ s.range.low <= p /\ p <= s.range.high
        BY <1>2, <3>1, PricesNumbers DEF OrbKnows, Sight
      <3>3. /\ signal.stop \in seen.formed
            /\ \A p \in seen.formed : /\ Sign(signal.side) * (signal.price - p) > 0
                                       /\ Sign(signal.side) * (p - signal.stop) >= 0
        <4>1. CASE side = "BUY"
          BY <1>4, <2>1, <3>2, <4>1 DEF Sign
        <4>2. CASE side = "SELL"
          BY <1>4, <2>1, <3>2, <4>2 DEF Sign
        <4> QED
          BY <2>1, <4>1, <4>2 DEF Sides
      <3> QED
        BY <1>1, <1>7, <2>2, <2>3, <3>3 DEF StrategyInv, Promises, OrbBreaksOut, Sign
    <2>7. SignalsRationed'
      <3>1. \A i \in DOMAIN log : log[i].signal.side # side
        BY <1>2, <2>1 DEF OrbKnows
      <3>2. \A i, j \in DOMAIN log : i # j => log[i].signal.side # log[j].signal.side
        BY <1>1 DEF StrategyInv, Promises, SignalsRationed
      <3>3. \A i, j \in DOMAIN log' : i # j => log'[i].signal.side # log'[j].signal.side
        BY <2>1, <2>2, <2>3, <3>1, <3>2
      <3> QED
        BY <1>1, <1>7, <3>3, SpacingNames DEF SignalsRationed
    <2> QED
      BY <1>1, <1>7, <1>9, <2>5, <2>6, <2>7 DEF StrategyInv, Knows, Promises
  <1> QED
    BY <1>10, <1>11

-----------------------------------------------------------------------------
(* The candles since the last signal.                                      *)
LEMMA CountsOn ==
    ASSUME NEW since \in Nat \cup {NotYet}, NEW candles \in Nat, NEW q \in Seq(Entry),
           \A i \in DOMAIN q : since \in Nat /\ q[i].at <= candles - since
    PROVE  /\ Aged(since) \in Nat \cup {NotYet}
           /\ \A i \in DOMAIN q : Aged(since) \in Nat /\ q[i].at <= candles + 1 - Aged(since)
  <1>0. \A i \in DOMAIN q : q[i] \in Entry
    OBVIOUS
  <1>1. \A i \in DOMAIN q : q[i].at \in Nat
    BY <1>0 DEF Entry
  <1> QED
    BY <1>1 DEF Aged, NotYet

(* A signal that the cooldown lets through is far enough from all before.  *)
LEMMA Spaced ==
    ASSUME NEW since \in Nat \cup {NotYet}, NEW nr \in Nat, NEW q \in Seq(Entry),
           \A i \in DOMAIN q : since \in Nat /\ q[i].at <= nr - since,
           NEW gap \in Nat, ~Cooling(since, gap),
           \A i, j \in DOMAIN q : i < j => q[j].at - q[i].at >= gap,
           NEW more, DOMAIN more = DOMAIN q \cup {Len(q) + 1}, more[Len(q) + 1].at = nr,
           \A i \in DOMAIN q : i # Len(q) + 1 /\ more[i] = q[i]
    PROVE  /\ \A i, j \in DOMAIN more : i < j => more[j].at - more[i].at >= gap
           /\ \A i \in DOMAIN more : more[i].at <= nr - 0
  <1>0. \A i \in DOMAIN q : q[i] \in Entry /\ i \in Nat /\ i <= Len(q)
    OBVIOUS
  <1>1. \A i \in DOMAIN q : q[i].at \in Nat /\ i \in Nat /\ i <= Len(q)
    BY <1>0 DEF Entry
  <1>2. \A i \in DOMAIN q : since >= gap
    BY DEF Cooling, NotYet
  <1>3. \A i \in DOMAIN q : nr - q[i].at >= gap /\ q[i].at <= nr
    BY <1>1, <1>2
  <1>4. Len(q) \in Nat
    OBVIOUS
  <1> QED
    BY <1>1, <1>3, <1>4

(* What there was to see while signals may be given.                       *)
LEMMA Hours ==
    ASSUME StrategyInv
    PROVE  /\ EntryHours => Nr = seen.candles + 1
           /\ ~EntryHours => Nr = seen.candles
           /\ seen \in Sight /\ log \in Seq(Entry) /\ seen.candles \in Nat
           /\ kind \in {"vwap_rsi", "ema"} =>
                 \A i, j \in DOMAIN log : i < j => log[j].at - log[i].at >= Spacing[kind]
  BY SpacingNames DEF Nr, StrategyInv, Noted, Sight, Promises, SignalsRationed

LEMMA LimitsNumbers ==
    /\ VwapTrades \in Nat /\ SqueezeTrades \in Nat /\ MinSqueeze \in Nat /\ MinSqueeze > 0
    /\ VwapCooldown \in Nat /\ EmaCooldown \in Nat
  <1>1. MinSqueeze \in Nat \ {0}
    BY NseStrategiesAssumption
  <1> QED
    BY <1>1, NseStrategiesAssumption

LEMMA StopsApart ==
    ASSUME NEW distance \in Distances \cap Nat
    PROVE  StopDistance(distance) \in Int /\ StopDistance(distance) > 0
  <1>1. distance \in Int /\ MinStop \in Int /\ MinStop > 0
    BY Measures
  <1>2. StopDistance(distance) = IF distance >= MinStop THEN distance ELSE MinStop
    BY <1>1, MaxOfTwo DEF StopDistance
  <1> QED
    BY <1>1, <1>2

(* VWAP and RSI.                                                           *)
LEMMA VwapRsiCases ==
    ASSUME NEW s \in States["vwap_rsi"], NEW c \in VwapRsiCandles
    PROVE  LET result == VwapRsi(s, c)
               t      == [s EXCEPT !.since = Aged(@)]
               u      == [t EXCEPT !.rsi = c.rsi]
               signal == result.signal
           IN  \/ ~EntryHours /\ result = Keep(s)
               \/ EntryHours /\ result \in {Keep(t), Keep(u)}
               \/ /\ EntryHours /\ result.state = Traded(u) /\ s.trades < VwapTrades
                  /\ ~Cooling(Aged(s.since), VwapCooldown)
                  /\ signal \in Signals /\ Straddled(signal)
                  /\ \/ signal.side = "BUY" /\ s.rsi = "low"
                     \/ signal.side = "SELL" /\ s.rsi = "high"
  <1> DEFINE result == VwapRsi(s, c)
             t == [s EXCEPT !.since = Aged(@)]
             u == [t EXCEPT !.rsi = c.rsi]
             side == Recovery(s.rsi, c)
             risk == StopDistance(c.distance)
             signal == Give(side, 0, risk, RewardRatio * risk)
  <1>1. \/ ~EntryHours /\ result = Keep(s)
        \/ EntryHours /\ result \in {Keep(t), Keep(u)}
        \/ /\ EntryHours /\ result = Say(Traded(u), signal) /\ ~(s.trades >= VwapTrades)
           /\ ~Cooling(t.since, VwapCooldown) /\ side # "none"
    BY DEF VwapRsi
  <1>2. ASSUME side # "none"
        PROVE  \/ side = "BUY" /\ s.rsi = "low"
               \/ side = "SELL" /\ s.rsi = "high"
    BY <1>2 DEF Recovery
  <1>3. risk \in Int /\ risk > 0 /\ RewardRatio * risk \in Int /\ RewardRatio * risk > 0
    <2>1. c.distance \in Distances \cap Nat
      BY DEF VwapRsiCandles
    <2> QED
      BY <2>1, StopsApart, Rewarded
  <1>4. t.since = Aged(s.since) /\ s.trades \in Nat /\ VwapTrades \in Nat
    BY LimitsNumbers DEF States
  <1>5. ASSUME side # "none"
        PROVE  signal \in Signals /\ Straddled(signal) /\ signal.side = side
    <2>1. side \in Sides
      BY <1>2, <1>5 DEF Sides
    <2> HIDE DEF side, risk
    <2>2. 0 \in Int
      OBVIOUS
    <2> QED
      BY <1>3, <2>1, <2>2, GivesStraddle
  <1> HIDE DEF side, risk, signal
  <1> QED
    BY <1>1, <1>2, <1>4, <1>5 DEF Say

LEMMA VwapRsiKeeps ==
    ASSUME StrategyInv, NEW c \in VwapRsiCandles, VwapRsiCandle(c)
    PROVE  StrategyInv'
  <1> DEFINE s == MaybeResetDaily
             result == VwapRsi(s, c)
             t == [s EXCEPT !.since = Aged(@)]
             u == [t EXCEPT !.rsi = c.rsi]
             note == IF EntryHours THEN [seen EXCEPT !.rsi = @ \cup {c.rsi}] ELSE seen
             signal == result.signal
  <1>1. kind = "vwap_rsi" /\ OnCandle(result, note)
    BY DEF VwapRsiCandle
  <1>2. s \in States["vwap_rsi"] /\ s = Today /\ VwapKnows
    BY <1>1, TodayTyped DEF Today, StrategyInv, Knows
  <1>3. /\ EntryHours => Nr = seen.candles + 1
        /\ ~EntryHours => Nr = seen.candles
        /\ seen \in Sight /\ log \in Seq(Entry) /\ seen.candles \in Nat
        /\ \A i, j \in DOMAIN log : i < j => log[j].at - log[i].at >= VwapCooldown
    BY <1>1, Hours, SpacingNames
  <1>4. /\ s.since \in Nat \cup {NotYet} /\ s.trades \in 0..VwapTrades
        /\ s.rsi \in Rsis \cup {"none"} /\ c.rsi \in Rsis
        /\ Aged(s.since) \in Nat \cup {NotYet}
        /\ \A i \in DOMAIN log :
              /\ s.since \in Nat /\ log[i].at <= seen.candles - s.since
              /\ Aged(s.since) \in Nat /\ log[i].at <= seen.candles + 1 - Aged(s.since)
    <2>1. s.since \in Nat \cup {NotYet} /\ s.trades \in 0..VwapTrades
          /\ s.rsi \in Rsis \cup {"none"} /\ c.rsi \in Rsis
      BY <1>2 DEF States, VwapRsiCandles, Rsis
    <2>2. \A i \in DOMAIN log : s.since \in Nat /\ log[i].at <= seen.candles - s.since
      BY <1>2 DEF VwapKnows, Counted
    <2> QED
      BY <1>3, <2>1, <2>2, CountsOn
  <1>5. /\ t \in States["vwap_rsi"] /\ t.since = Aged(s.since)
        /\ t.trades = s.trades /\ t.rsi = s.rsi
        /\ u \in States["vwap_rsi"] /\ u.since = Aged(s.since)
        /\ u.trades = s.trades /\ u.rsi = c.rsi
    BY <1>2, <1>4 DEF States
  <1> HIDE DEF t, u
  <1>6. Len(log) = s.trades /\ (s.rsi = "none" \/ s.rsi \in seen.rsi)
    BY <1>2 DEF VwapKnows
  <1>7. note \in Sight /\ (EntryHours => note.rsi = seen.rsi \cup {c.rsi})
        /\ (~EntryHours => note = seen)
    BY <1>3, <1>4 DEF Sight
  <1>8. \/ ~EntryHours /\ result = Keep(s)
        \/ EntryHours /\ result \in {Keep(t), Keep(u)}
        \/ /\ EntryHours /\ result.state = Traded(u) /\ s.trades < VwapTrades
           /\ ~Cooling(Aged(s.since), VwapCooldown)
           /\ signal \in Signals /\ Straddled(signal)
           /\ \/ signal.side = "BUY" /\ s.rsi = "low"
              \/ signal.side = "SELL" /\ s.rsi = "high"
    BY <1>2, VwapRsiCases DEF t, u
  <1>9. s.trades < VwapTrades =>
            /\ Traded(u) \in States["vwap_rsi"] /\ Traded(u).since = 0
            /\ Traded(u).trades = s.trades + 1 /\ Traded(u).rsi = c.rsi
    <2>1. s.trades < VwapTrades => s.trades + 1 \in 0..VwapTrades
      BY <1>4, LimitsNumbers
    <2> QED
      BY <1>4, <1>5, <2>1 DEF Traded, States
  <1>10. Outcome(result)
    BY <1>1, <1>2, <1>5, <1>8, <1>9 DEF Outcome, Keep
  <1> HIDE DEF result, note
  <1>11. /\ Times' /\ (state \in States[kind])' /\ Noted'
         /\ Today' = result.state /\ UNCHANGED <<kind, phase>> /\ seen' = Noticed(note)
         /\ Nr \in Nat
         /\ IF signal = NoSignal THEN log' = log
            ELSE /\ Len(log') = Len(log) + 1 /\ log'[Len(log) + 1] = Said(signal)
                 /\ \A i \in DOMAIN log : i # Len(log) + 1 /\ log'[i] = log[i]
                 /\ DOMAIN log' = DOMAIN log \cup {Len(log) + 1}
    BY <1>1, <1>7, <1>10, Handed
  <1>12. seen'.candles = Nr /\ seen'.rsi = note.rsi
    BY <1>7, <1>11 DEF Noticed, Sight
  <1>13. OrbBreaksOut' /\ SqueezeBeforeBreakout'
    BY <1>1, <1>7, <1>10, OthersKeep
  <1>14. CASE result \in {Keep(s), Keep(t), Keep(u)}
    <2>1. signal = NoSignal /\ log' = log
      BY <1>11, <1>14 DEF Keep
    <2>2. VwapKnows'
      <3>1. CASE ~EntryHours
        <4>1. Today' = s
          BY <1>8, <1>11, <2>1, <3>1 DEF Keep
        <4> QED
          BY <1>3, <1>4, <1>6, <1>7, <1>11, <1>12, <2>1, <3>1, <4>1 DEF VwapKnows, Counted
      <3>2. CASE EntryHours
        <4>1. Today' \in {t, u}
          BY <1>8, <1>11, <1>14, <2>1, <3>2, NoneIsNoSide DEF Keep
        <4>2. Today'.since = Aged(s.since) /\ Today'.trades = s.trades
              /\ Today'.rsi \in {s.rsi, c.rsi}
          BY <1>5, <4>1
        <4> QED
          BY <1>3, <1>4, <1>6, <1>7, <1>11, <1>12, <2>1, <3>2, <4>2 DEF VwapKnows, Counted
      <3> QED
        BY <3>1, <3>2
    <2>3. SignalsRationed' /\ CauseOfToday'
      BY <1>11, <2>1 DEF StrategyInv, Promises, SignalsRationed, CauseOfToday
    <2> QED
      BY <1>1, <1>11, <1>13, <2>2, <2>3 DEF StrategyInv, Knows, Promises
  <1>15. CASE result \notin {Keep(s), Keep(t), Keep(u)}
    <2>1. /\ EntryHours /\ Today' = Traded(u) /\ s.trades < VwapTrades
          /\ ~Cooling(Aged(s.since), VwapCooldown) /\ signal \in Signals
          /\ \/ signal.side = "BUY" /\ s.rsi = "low"
             \/ signal.side = "SELL" /\ s.rsi = "high"
      BY <1>8, <1>11, <1>15
    <2>2. /\ log'[Len(log) + 1] = Said(signal) /\ Len(log') = Len(log) + 1
          /\ \A i \in DOMAIN log : i # Len(log) + 1 /\ log'[i] = log[i]
          /\ DOMAIN log' = DOMAIN log \cup {Len(log) + 1}
      BY <1>11, <2>1, NoneIsNoSide
    <2>3. /\ Said(signal).signal = signal /\ Said(signal).before = seen /\ Said(signal).at = Nr
      BY DEF Said
    <2>4. /\ \A i, j \in DOMAIN log' : i < j => log'[j].at - log'[i].at >= VwapCooldown
          /\ \A i \in DOMAIN log' : log'[i].at <= Nr - 0
      <3>1. /\ Aged(s.since) \in Nat \cup {NotYet} /\ Nr \in Nat /\ log \in Seq(Entry)
            /\ \A i \in DOMAIN log : Aged(s.since) \in Nat /\ log[i].at <= Nr - Aged(s.since)
        BY <1>3, <1>4, <1>11, <2>1
      <3>2. log'[Len(log) + 1].at = Nr /\ VwapCooldown \in Nat
        BY <2>2, <2>3, LimitsNumbers
      <3> QED
        BY <1>3, <2>1, <2>2, <3>1, <3>2, Spaced
    <2>5. Len(log') = s.trades + 1 /\ s.trades + 1 <= VwapTrades
      BY <1>4, <1>6, <2>1, <2>2, LimitsNumbers
    <2>6. VwapKnows'
      BY <1>7, <1>9, <1>12, <2>1, <2>4, <2>5 DEF VwapKnows, Counted
    <2>7. SignalsRationed'
      BY <1>1, <1>11, <2>4, <2>5, SpacingNames DEF SignalsRationed
    <2>8. CauseOfToday'
      <3>1. (IF signal.side = "BUY" THEN "low" ELSE "high") \in seen.rsi
        BY <1>6, <2>1
      <3> QED
        BY <1>1, <1>11, <2>2, <2>3, <3>1 DEF StrategyInv, Promises, CauseOfToday
    <2> QED
      BY <1>1, <1>11, <1>13, <2>6, <2>7, <2>8 DEF StrategyInv, Knows, Promises
  <1> QED
    BY <1>14, <1>15

(* EMA crossover.                                                          *)
LEMMA EmaCases ==
    ASSUME NEW s \in States["ema"], NEW c \in EmaCandles
    PROVE  LET result == Ema(s, c)
               t      == [s EXCEPT !.since = Aged(@)]
               u      == [t EXCEPT !.order = c.order]
               v      == [u EXCEPT !.since = 0]
               signal == result.signal
           IN  \/ ~EntryHours /\ result = Keep(s)
               \/ EntryHours /\ ~Warm /\ result = Keep(t)
               \/ EntryHours /\ Warm /\ result = Keep(u)
               \/ /\ EntryHours /\ Warm /\ result.state = v
                  /\ ~Cooling(Aged(s.since), EmaCooldown)
                  /\ \/ signal = NoSignal
                     \/ /\ signal \in Signals /\ Straddled(signal)
                        /\ s.order \in {"equal", IF signal.side = "BUY" THEN "below" ELSE "above"}
  <1> DEFINE result == Ema(s, c)
             t == [s EXCEPT !.since = Aged(@)]
             u == [t EXCEPT !.order = c.order]
             v == [u EXCEPT !.since = 0]
             side == Crossed(s.order, c.order)
             risk == c.distance
             signal == Give(side, 0, risk, RewardRatio * risk)
  <1>1. \/ ~EntryHours /\ result = Keep(s)
        \/ EntryHours /\ ~Warm /\ result = Keep(t)
        \/ EntryHours /\ Warm /\ result = Keep(u)
        \/ /\ EntryHours /\ Warm /\ result \in {Keep(v), Say(v, signal)}
           /\ ~Cooling(t.since, EmaCooldown) /\ side # "none"
    BY DEF Ema
  <1>2. ASSUME side # "none"
        PROVE  \/ side = "BUY" /\ s.order \in {"below", "equal"}
               \/ side = "SELL" /\ s.order \in {"above", "equal"}
    BY <1>2 DEF Crossed
  <1>3. risk \in Int /\ risk > 0 /\ RewardRatio * risk \in Int /\ RewardRatio * risk > 0
    <2>1. c.distance \in Distances \cap (Nat \ {0})
      BY DEF EmaCandles
    <2>2. risk \in Int /\ risk > 0
      BY <2>1
    <2> QED
      BY <2>2, Rewarded
  <1>4. t.since = Aged(s.since)
    BY DEF States
  <1>5. ASSUME side # "none"
        PROVE  signal \in Signals /\ Straddled(signal) /\ signal.side = side
    <2>1. side \in Sides
      BY <1>2, <1>5 DEF Sides
    <2> HIDE DEF side, risk
    <2>2. 0 \in Int
      OBVIOUS
    <2> QED
      BY <1>3, <2>1, <2>2, GivesStraddle
  <1> HIDE DEF side, risk, signal
  <1> QED
    BY <1>1, <1>2, <1>4, <1>5 DEF Say, Keep

LEMMA EmaKeeps ==
    ASSUME StrategyInv, NEW c \in EmaCandles, EmaCandle(c)
    PROVE  StrategyInv'
  <1> DEFINE s == MaybeResetDaily
             result == Ema(s, c)
             t == [s EXCEPT !.since = Aged(@)]
             u == [t EXCEPT !.order = c.order]
             v == [u EXCEPT !.since = 0]
             note == IF EntryHours /\ Warm THEN [seen EXCEPT !.order = c.order] ELSE seen
             signal == result.signal
  <1>1. kind = "ema" /\ OnCandle(result, note)
    BY DEF EmaCandle
  <1>2. s \in States["ema"] /\ s = Today /\ EmaKnows
    BY <1>1, TodayTyped DEF Today, StrategyInv, Knows
  <1>3. /\ EntryHours => Nr = seen.candles + 1
        /\ ~EntryHours => Nr = seen.candles
        /\ seen \in Sight /\ log \in Seq(Entry) /\ seen.candles \in Nat
        /\ \A i, j \in DOMAIN log : i < j => log[j].at - log[i].at >= EmaCooldown
    BY <1>1, Hours, SpacingNames
  <1>4. /\ s.since \in Nat \cup {NotYet} /\ s.order \in Orders /\ c.order \in Orders
        /\ Aged(s.since) \in Nat \cup {NotYet}
        /\ \A i \in DOMAIN log :
              /\ s.since \in Nat /\ log[i].at <= seen.candles - s.since
              /\ Aged(s.since) \in Nat /\ log[i].at <= seen.candles + 1 - Aged(s.since)
    <2>1. s.since \in Nat \cup {NotYet} /\ s.order \in Orders /\ c.order \in Orders
      BY <1>2 DEF States, EmaCandles, Orders
    <2>2. \A i \in DOMAIN log : s.since \in Nat /\ log[i].at <= seen.candles - s.since
      BY <1>2 DEF EmaKnows, Counted
    <2> QED
      BY <1>3, <2>1, <2>2, CountsOn
  <1>5. /\ t \in States["ema"] /\ t.since = Aged(s.since) /\ t.order = s.order
        /\ u \in States["ema"] /\ u.since = Aged(s.since) /\ u.order = c.order
        /\ v \in States["ema"] /\ v.since = 0 /\ v.order = c.order
    BY <1>2, <1>4 DEF States
  <1> HIDE DEF t, u, v
  <1>6. s.order = seen.order
    BY <1>2 DEF EmaKnows
  <1>7. /\ note \in Sight
        /\ IF EntryHours /\ Warm THEN note.order = c.order ELSE note.order = seen.order
    BY <1>3, <1>4 DEF Sight
  <1>8. \/ ~EntryHours /\ result = Keep(s)
        \/ EntryHours /\ ~Warm /\ result = Keep(t)
        \/ EntryHours /\ Warm /\ result = Keep(u)
        \/ /\ EntryHours /\ Warm /\ result.state = v
           /\ ~Cooling(Aged(s.since), EmaCooldown)
           /\ \/ signal = NoSignal
              \/ /\ signal \in Signals /\ Straddled(signal)
                 /\ s.order \in {"equal", IF signal.side = "BUY" THEN "below" ELSE "above"}
    BY <1>2, EmaCases DEF t, u, v
  <1>9. Outcome(result)
    BY <1>1, <1>2, <1>5, <1>8 DEF Outcome, Keep
  <1> HIDE DEF result, note
  <1>10. /\ Times' /\ (state \in States[kind])' /\ Noted'
         /\ Today' = result.state /\ UNCHANGED <<kind, phase>> /\ seen' = Noticed(note)
         /\ Nr \in Nat
         /\ IF signal = NoSignal THEN log' = log
            ELSE /\ Len(log') = Len(log) + 1 /\ log'[Len(log) + 1] = Said(signal)
                 /\ \A i \in DOMAIN log : i # Len(log) + 1 /\ log'[i] = log[i]
                 /\ DOMAIN log' = DOMAIN log \cup {Len(log) + 1}
    BY <1>1, <1>7, <1>9, Handed
  <1>11. seen'.candles = Nr /\ seen'.order = note.order
    BY <1>7, <1>10 DEF Noticed, Sight
  <1>12. OrbBreaksOut' /\ SqueezeBeforeBreakout'
    BY <1>1, <1>7, <1>9, OthersKeep
  <1>13. Today'.order = seen'.order
    BY <1>5, <1>6, <1>7, <1>8, <1>10, <1>11 DEF Keep
  <1>14. CASE signal = NoSignal
    <2>1. Counted'
      <3>1. \/ Nr = seen.candles /\ Today'.since = s.since
            \/ Nr = seen.candles + 1 /\ Today'.since \in {Aged(s.since), 0}
        BY <1>3, <1>5, <1>8, <1>10 DEF Keep
      <3>2. \A i \in DOMAIN log : log[i].at \in Nat
        <4>1. \A i \in DOMAIN log : log[i] \in Entry
          BY <1>3
        <4> QED
          BY <4>1 DEF Entry
      <3>3. \A i \in DOMAIN log : log[i].at <= seen.candles + 1
        BY <1>3, <1>4, <3>2
      <3> QED
        BY <1>3, <1>4, <1>10, <1>11, <1>14, <3>1, <3>2, <3>3 DEF Counted
    <2>2. SignalsRationed' /\ CauseOfToday'
      BY <1>10, <1>14 DEF StrategyInv, Promises, SignalsRationed, CauseOfToday
    <2> QED
      BY <1>1, <1>10, <1>12, <1>13, <2>1, <2>2 DEF StrategyInv, Knows, Promises, EmaKnows
  <1>15. CASE signal # NoSignal
    <2>1. /\ EntryHours /\ Today' = v /\ ~Cooling(Aged(s.since), EmaCooldown)
          /\ s.order \in {"equal", IF signal.side = "BUY" THEN "below" ELSE "above"}
      BY <1>8, <1>10, <1>15 DEF Keep
    <2>2. /\ log'[Len(log) + 1] = Said(signal) /\ Len(log') = Len(log) + 1
          /\ \A i \in DOMAIN log : i # Len(log) + 1 /\ log'[i] = log[i]
          /\ DOMAIN log' = DOMAIN log \cup {Len(log) + 1}
      BY <1>10, <1>15
    <2>3. /\ Said(signal).signal = signal /\ Said(signal).before = seen /\ Said(signal).at = Nr
      BY DEF Said
    <2>4. /\ \A i, j \in DOMAIN log' : i < j => log'[j].at - log'[i].at >= EmaCooldown
          /\ \A i \in DOMAIN log' : log'[i].at <= Nr - 0
      <3>1. /\ Aged(s.since) \in Nat \cup {NotYet} /\ Nr \in Nat /\ log \in Seq(Entry)
            /\ \A i \in DOMAIN log : Aged(s.since) \in Nat /\ log[i].at <= Nr - Aged(s.since)
        <4>1. Nr = seen.candles + 1
          BY <1>3, <2>1
        <4> QED
          BY <1>3, <1>4, <4>1
      <3>2. log'[Len(log) + 1].at = Nr /\ EmaCooldown \in Nat
        BY <2>2, <2>3, LimitsNumbers
      <3> QED
        BY <1>3, <2>1, <2>2, <3>1, <3>2, Spaced
    <2>5. Counted'
      BY <1>5, <1>11, <2>1, <2>4 DEF Counted
    <2>6. SignalsRationed'
      BY <1>1, <1>10, <2>4, SpacingNames DEF SignalsRationed
    <2>7. CauseOfToday'
      BY <1>1, <1>6, <1>10, <2>1, <2>2, <2>3 DEF StrategyInv, Promises, CauseOfToday
    <2> QED
      BY <1>1, <1>10, <1>12, <1>13, <2>5, <2>6, <2>7 DEF StrategyInv, Knows, Promises, EmaKnows
  <1> QED
    BY <1>14, <1>15

-----------------------------------------------------------------------------
(* Bollinger squeeze.                                                      *)
LEMMA SqueezeCases ==
    ASSUME NEW s \in States["squeeze"], NEW c \in SqueezeCandles
    PROVE  LET result == Squeeze(s, c)
               ended  == [s EXCEPT !.count = 0, !.was = FALSE]
               held   == [s EXCEPT !.count = @ + 1, !.was = TRUE]
               signal == result.signal
               open   == EntryHours /\ Warm /\ s.trades < SqueezeTrades
           IN  \/ ~open /\ result = Keep(s)
               \/ open /\ c.squeezed /\ result = Keep(held)
               \/ open /\ ~c.squeezed /\ result = Keep(ended)
               \/ /\ open /\ ~c.squeezed /\ s.count >= MinSqueeze
                  /\ result.state = [ended EXCEPT !.trades = @ + 1]
                  /\ signal \in Signals /\ Straddled(signal)
  <1> DEFINE result == Squeeze(s, c)
             ended == [s EXCEPT !.count = 0, !.was = FALSE]
             held == [s EXCEPT !.count = @ + 1, !.was = TRUE]
             risk == StopDistance(c.distance)
             signal == Give(c.beyond, 0, risk, RewardRatio * c.width)
             open == EntryHours /\ Warm /\ ~(s.trades >= SqueezeTrades)
  <1>1. \/ ~open /\ result = Keep(s)
        \/ open /\ c.squeezed /\ result = Keep(held)
        \/ open /\ ~c.squeezed /\ result = Keep(ended)
        \/ open /\ ~c.squeezed /\ s.count >= MinSqueeze /\ result = Release(ended, c)
    BY DEF Squeeze
  <1>2. \/ Release(ended, c) = Keep(ended)
        \/ /\ Release(ended, c) = Say([ended EXCEPT !.trades = @ + 1], signal)
           /\ c.beyond \in Sides
    BY DEF Release
  <1>3. risk \in Int /\ risk > 0 /\ RewardRatio * c.width \in Int /\ RewardRatio * c.width > 0
    <2>1. c.distance \in Distances \cap Nat /\ c.width \in Distances \cap (Nat \ {0})
      BY DEF SqueezeCandles
    <2>2. c.width \in Int /\ c.width > 0
      BY <2>1
    <2> QED
      BY <2>1, <2>2, StopsApart, Rewarded
  <1>4. ASSUME c.beyond \in Sides PROVE signal \in Signals /\ Straddled(signal)
    <2> HIDE DEF risk
    <2>1. 0 \in Int
      OBVIOUS
    <2> QED
      BY <1>3, <1>4, <2>1, GivesStraddle
  <1>5. s.trades \in Nat /\ SqueezeTrades \in Nat
    BY LimitsNumbers DEF States
  <1> HIDE DEF risk, signal, ended, held
  <1> QED
    BY <1>1, <1>2, <1>4, <1>5 DEF Say, ended, held

LEMMA SqueezeKeeps ==
    ASSUME StrategyInv, NEW c \in SqueezeCandles, SqueezeCandle(c)
    PROVE  StrategyInv'
  <1> DEFINE s == MaybeResetDaily
             result == Squeeze(s, c)
             ended == [s EXCEPT !.count = 0, !.was = FALSE]
             held == [s EXCEPT !.count = @ + 1, !.was = TRUE]
             spent == [ended EXCEPT !.trades = @ + 1]
             note == [seen EXCEPT !.streak = IF c.squeezed THEN @ + 1 ELSE 0]
             signal == result.signal
             open == EntryHours /\ Warm /\ s.trades < SqueezeTrades
  <1>1. kind = "squeeze" /\ OnCandle(result, note) /\ phase \in 1..5
    BY DEF SqueezeCandle, StrategyInv, Times
  <1>2. s \in States["squeeze"] /\ s = Today /\ SqueezeKnows
    BY <1>1, TodayTyped DEF Today, StrategyInv, Knows
  <1>3. /\ seen \in Sight /\ log \in Seq(Entry) /\ seen.streak \in Nat
        /\ s.trades \in 0..SqueezeTrades /\ s.count \in Nat
        /\ SqueezeTrades \in Nat /\ MinSqueeze \in Nat /\ MinSqueeze > 0
    BY <1>2, LimitsNumbers DEF StrategyInv, Noted, Sight, States
  <1>4. /\ ended \in States["squeeze"] /\ ended.count = 0 /\ ended.trades = s.trades
        /\ held \in States["squeeze"] /\ held.count = s.count + 1 /\ held.trades = s.trades
    <2>1. s \in [count : Nat, was : BOOLEAN, trades : 0..SqueezeTrades] /\ s.count + 1 \in Nat
      BY <1>2, <1>3 DEF States
    <2>2. /\ ended \in [count : Nat, was : BOOLEAN, trades : 0..SqueezeTrades]
          /\ ended.count = 0 /\ ended.trades = s.trades
      BY <2>1
    <2>3. /\ held \in [count : Nat, was : BOOLEAN, trades : 0..SqueezeTrades]
          /\ held.count = s.count + 1 /\ held.trades = s.trades
      BY <2>1
    <2> QED
      BY <2>2, <2>3 DEF States
  <1>5. open => /\ spent \in States["squeeze"] /\ spent.count = 0
                /\ spent.trades = s.trades + 1
    <2>1. open => s.trades + 1 \in 0..SqueezeTrades
      BY <1>3
    <2> HIDE DEF ended
    <2> QED
      BY <1>4, <2>1 DEF States
  <1>6. \/ ~open /\ result = Keep(s)
        \/ open /\ c.squeezed /\ result = Keep(held)
        \/ open /\ ~c.squeezed /\ result = Keep(ended)
        \/ /\ open /\ ~c.squeezed /\ s.count >= MinSqueeze /\ result.state = spent
           /\ signal \in Signals /\ Straddled(signal)
    BY <1>2, SqueezeCases
  <1> HIDE DEF ended, held, spent
  <1>7. Outcome(result)
    BY <1>1, <1>2, <1>4, <1>5, <1>6 DEF Outcome, Keep
  <1>8. note \in Sight /\ note.streak = IF c.squeezed THEN seen.streak + 1 ELSE 0
    <2>1. (IF c.squeezed THEN seen.streak + 1 ELSE 0) \in Nat
      BY <1>3
    <2> QED
      BY <1>3, <2>1 DEF Sight
  <1> HIDE DEF result, note
  <1>9. /\ Times' /\ (state \in States[kind])' /\ Noted'
        /\ Today' = result.state /\ UNCHANGED <<kind, phase>> /\ seen' = Noticed(note)
        /\ (Warm => Warm')
        /\ IF signal = NoSignal THEN log' = log
           ELSE /\ Len(log') = Len(log) + 1 /\ log'[Len(log) + 1] = Said(signal)
                /\ \A i \in DOMAIN log : i # Len(log) + 1 /\ log'[i] = log[i]
                /\ DOMAIN log' = DOMAIN log \cup {Len(log) + 1}
    BY <1>1, <1>7, <1>8, Handed DEF Warm
  <1>10. seen'.streak = IF c.squeezed THEN seen.streak + 1 ELSE 0
    BY <1>8, <1>9 DEF Noticed, Sight
  <1>11. OrbBreaksOut' /\ CauseOfToday'
    BY <1>1, <1>7, <1>8, OthersKeep
  <1>12. EntryHours <=> phase \in {2, 3}
    BY <1>1, PhaseNames
  <1>13. Len(log) = s.trades /\ (open => s.count <= seen.streak)
    BY <1>2, <1>12 DEF SqueezeKnows
  <1>14. CASE ~open /\ result = Keep(s)
    <2>1. Today' = s /\ signal = NoSignal
      BY <1>9, <1>14 DEF Keep
    <2>2. SqueezeKnows'
      <3>1. CASE s.trades >= SqueezeTrades
        BY <1>3, <1>9, <1>13, <2>1, <3>1 DEF SqueezeKnows
      <3>2. CASE s.trades < SqueezeTrades /\ phase \in {4, 5}
        BY <1>9, <1>13, <2>1, <3>2 DEF SqueezeKnows
      <3>3. CASE s.trades < SqueezeTrades /\ phase \in {1, 2, 3}
        <4>1. phase = 1 \/ ~Warm
          BY <1>12, <1>14, <3>3
        <4>2. s.count = 0
          BY <1>2, <3>3, <4>1 DEF SqueezeKnows
        <4> QED
          BY <1>3, <1>9, <1>10, <1>13, <2>1, <4>2 DEF SqueezeKnows
      <3> QED
        BY <1>1, <1>3, <3>1, <3>2, <3>3
    <2>3. SignalsRationed' /\ SqueezeBeforeBreakout'
      BY <1>9, <2>1 DEF StrategyInv, Promises, SignalsRationed, SqueezeBeforeBreakout
    <2> QED
      BY <1>1, <1>9, <1>11, <2>2, <2>3 DEF StrategyInv, Knows, Promises
  <1>15. CASE open /\ result \in {Keep(held), Keep(ended)}
    <2>1. Today' = result.state /\ signal = NoSignal /\ log' = log
      BY <1>9, <1>15 DEF Keep
    <2>2. /\ Today'.trades = s.trades
          /\ \/ c.squeezed /\ Today'.count = s.count + 1
             \/ ~c.squeezed /\ Today'.count = 0
      BY <1>4, <1>6, <1>15, <2>1, NoneIsNoSide DEF Keep
    <2>3. Warm' /\ phase' \in {2, 3}
      BY <1>9, <1>12, <1>15
    <2>4. SqueezeKnows'
      BY <1>3, <1>9, <1>10, <1>13, <1>15, <2>1, <2>2, <2>3 DEF SqueezeKnows
    <2>5. SignalsRationed' /\ SqueezeBeforeBreakout'
      BY <1>9, <2>1 DEF StrategyInv, Promises, SignalsRationed, SqueezeBeforeBreakout
    <2> QED
      BY <1>1, <1>9, <1>11, <2>4, <2>5 DEF StrategyInv, Knows, Promises
  <1>16. CASE open /\ signal \in Signals
    <2>1. /\ ~c.squeezed /\ s.count >= MinSqueeze /\ Today' = spent
      BY <1>6, <1>9, <1>16, NoneIsNoSide DEF Keep
    <2>2. /\ log'[Len(log) + 1] = Said(signal) /\ Len(log') = Len(log) + 1
          /\ \A i \in DOMAIN log : i # Len(log) + 1 /\ log'[i] = log[i]
          /\ DOMAIN log' = DOMAIN log \cup {Len(log) + 1}
      BY <1>9, <1>16, NoneIsNoSide
    <2>3. Said(signal).before = seen
      BY DEF Said
    <2>4. Warm' /\ phase' \in {2, 3}
      BY <1>9, <1>12, <1>16
    <2>5. SqueezeKnows'
      BY <1>5, <1>9, <1>10, <1>13, <1>16, <2>1, <2>2, <2>4 DEF SqueezeKnows
    <2>6. SignalsRationed'
      BY <1>1, <1>3, <1>9, <1>13, <1>16, <2>2, SpacingNames DEF SignalsRationed
    <2>7. SqueezeBeforeBreakout'
      <3>1. seen.streak >= MinSqueeze
        BY <1>3, <1>13, <1>16, <2>1
      <3> QED
        BY <1>1, <1>9, <2>2, <2>3, <3>1 DEF StrategyInv, Promises, SqueezeBeforeBreakout
    <2> QED
      BY <1>1, <1>9, <1>11, <2>5, <2>6, <2>7 DEF StrategyInv, Knows, Promises
  <1> QED
    BY <1>6, <1>14, <1>15, <1>16

-----------------------------------------------------------------------------
LEMMA StrategyStep == ASSUME StrategyInv, [Next]_vars PROVE StrategyInv'
  <1>1. ASSUME NEW c \in OrbCandles, OrbCandle(c) PROVE StrategyInv'
    BY <1>1, OrbForms, OrbTrades
  <1>2. ASSUME NEW c \in VwapRsiCandles, VwapRsiCandle(c) PROVE StrategyInv'
    BY <1>2, VwapRsiKeeps
  <1>3. ASSUME NEW c \in EmaCandles, EmaCandle(c) PROVE StrategyInv'
    BY <1>3, EmaKeeps
  <1>4. ASSUME NEW c \in SuperTrendCandles, SuperTrendCandle(c) PROVE StrategyInv'
    BY <1>4, SuperTrendKeeps
  <1>5. ASSUME NEW c \in SqueezeCandles, SqueezeCandle(c) PROVE StrategyInv'
    BY <1>5, SqueezeKeeps
  <1>6. CASE PhaseEnds
    BY <1>6, PhaseEndsKeeps
  <1>7. CASE NextDay
    BY <1>7, NextDayKeeps
  <1>8. CASE UNCHANGED vars
    BY <1>8 DEF vars, StrategyInv, Times, Noted, Knows, OrbKnows, VwapKnows, EmaKnows, SqueezeKnows,
                Counted, Today, MaybeResetDaily, Warm, Promises, OrbBreaksOut, SignalsRationed,
                CauseOfToday, SqueezeBeforeBreakout
  <1> QED
    BY <1>1, <1>2, <1>3, <1>4, <1>5, <1>6, <1>7, <1>8 DEF Next

(* What is kept is as it must be, on every day and whatever was seen.      *)
THEOREM StrategiesKnow == Spec => []StrategyInv
  <1>1. StrategyInv /\ [Next]_vars => StrategyInv'
    BY StrategyStep
  <1> QED
    BY <1>1, StrategyBegins, PTL DEF Spec

(* Whatever the indicators say, a signal of any of the five strategies has *)
(* its stop where the trade loses and its target where it wins: also one   *)
(* whose super trend line is on the wrong side of the price, or whose VWAP *)
(* or middle band is the price itself.                                     *)
THEOREM StopsStraddle == Spec => []StraddlesEntry
  <1>1. StrategyInv => StraddlesEntry
    <2> SUFFICES ASSUME StrategyInv PROVE StraddlesEntry
      OBVIOUS
    <2>1. TypeOK
      <3>1. Times /\ state \in States[kind] /\ DOMAIN Phases = 1..5
        BY DEF StrategyInv, Phases
      <3>2. CASE kind = "orb"
        BY <3>1, <3>2 DEF TypeOK, Times, States, Ranges, NoRange
      <3>3. CASE kind = "vwap_rsi"
        BY <3>1, <3>3 DEF TypeOK, Times, States
      <3>4. CASE kind = "ema"
        BY <3>1, <3>4 DEF TypeOK, Times, States, Orders
      <3>5. CASE kind = "supertrend"
        BY <3>1, <3>5 DEF TypeOK, Times, States
      <3>6. CASE kind = "squeeze"
        BY <3>1, <3>6 DEF TypeOK, Times, States
      <3> QED
        BY <3>1, <3>2, <3>3, <3>4, <3>5, <3>6 DEF Times, Kinds
    <2>2. \A signal \in Given : Straddled(signal)
      BY DEF Given, StrategyInv, Noted
    <2> QED
      BY <2>1, <2>2 DEF StraddlesEntry, Straddled
  <1> QED
    BY <1>1, StrategiesKnow, PTL

(* Two signals of VWAP/RSI or of the EMA crossover on one day are as many  *)
(* candles apart as the cooldown asks for, VWAP/RSI and the squeeze give no*)
(* more of them than they may, and an opening range is broken once on each *)
(* side, however the days, the hours and the warm-up fall.                 *)
THEOREM SignalsAreRationed == Spec => []SignalsRationed
  <1>1. StrategyInv => SignalsRationed
    BY DEF StrategyInv, Promises
  <1> QED
    BY <1>1, StrategiesKnow, PTL

(* An opening range signal comes from beyond every price of the formation  *)
(* and its stop is the farthest of them: the range never mixes two days.   *)
THEOREM BreakoutsLeaveTheRange == Spec => []OrbBreaksOut
  <1>1. StrategyInv => OrbBreaksOut
    BY DEF StrategyInv, Promises
  <1> QED
    BY <1>1, StrategiesKnow, PTL

(* What a signal follows from was seen on its own day: the RSI at its      *)
(* extreme, the averages not yet crossed, the squeeze without interruption.*)
(* What a strategy keeps of yesterday or of the warm-up never gives one.   *)
THEOREM CausesAreOfToday == Spec => [](CauseOfToday /\ SqueezeBeforeBreakout)
  <1>1. StrategyInv => CauseOfToday /\ SqueezeBeforeBreakout
    BY DEF StrategyInv, Promises
  <1> QED
    BY <1>1, StrategiesKnow, PTL

-----------------------------------------------------------------------------
(* The exit models.  A trade is followed along a path: the last close, the *)
(* worst and the best price, and whether it had no gap.                    *)
Quarter == Atr \div 4

Trades ==
    [stop : Int, best : Nat, be : BOOLEAN, taken : Nat, at : Nat, booked : Int, left : 0..Parts]

Paths == [at : Int, worst : Int, best : Int, whole : BOOLEAN]

Path == [at |-> last, worst |-> range.worst, best |-> range.best, whole |-> gapless]

OnPath(p) ==
    p \in Paths /\ (p.whole => /\ p.worst <= p.at /\ p.at <= p.best
                               /\ p.worst <= 0 /\ 0 <= p.best)

IsCandle(c) ==
    /\ c.worst \in Int /\ c.best \in Int /\ c.close \in Int
    /\ c.worst <= c.close /\ c.close <= c.best

(* The candle c leads from one path to the next.                           *)
Leads(c, p, q) ==
    /\ OnPath(p) /\ OnPath(q) /\ IsCandle(c) /\ q.at = c.close
    /\ q.whole => /\ p.whole /\ c.worst <= p.at /\ p.at <= c.best
                  /\ q.worst <= p.worst /\ p.best <= q.best
                  /\ q.worst <= c.worst /\ c.best <= q.best

(* What a trade may come to.                                               *)
Bounded(t, first, p) ==
    /\ Parts * first <= t.booked /\ (t.be => 0 <= t.booked)
    /\ p.whole => Parts * p.worst <= t.booked /\ t.booked <= Parts * p.best

(* A trade of a model that is in the market with all parts, or out.        *)
Sound(t, first, p) ==
    /\ t \in Trades /\ t.left \in {0, Parts}
    /\ t.left = Parts => /\ t.booked = 0 /\ first <= t.stop /\ t.stop <= p.at
                         /\ t.be => 0 <= t.stop
                         /\ p.whole => t.best <= p.best
    /\ t.left = 0 => Bounded(t, first, p)

(* And after a candle that it survived, its stop was out of reach.         *)
Stepped(t, first, c, q) == Sound(t, first, q) /\ (IsOpen(t) => t.stop < c.worst)

LEMMA Units ==
    /\ Quarter \in Nat /\ Quarter > 0
    /\ R(1) = 4 * Quarter /\ R(2) = 8 * Quarter /\ R(3) = 12 * Quarter
    /\ HalfR(1) = 2 * Quarter /\ HalfR(2) = 4 * Quarter /\ HalfR(3) = 6 * Quarter
    /\ HalfR(4) = 8 * Quarter /\ HalfR(6) = 12 * Quarter
    /\ HalfR(1) \div 2 = Quarter /\ HalfR(2) \div 2 = 2 * Quarter
  <1>1. Atr \in Nat /\ Atr # 0 /\ Atr % 4 = 0
    <2>1. Atr \in Nat \ {0} /\ Atr % 4 = 0
      BY ExitModelAssumption
    <2> QED
      BY <2>1
  <1>2. Quarter \in Nat /\ Quarter > 0 /\ Atr = 4 * Quarter
    BY <1>1 DEF Quarter
  <1> HIDE DEF Quarter
  <1> QED
    BY <1>2 DEF R, HalfR

LEMMA ClosedSound ==
    ASSUME NEW t \in Trades, t.left = Parts, t.booked = 0, NEW price \in Int, NEW first,
           first \in Int, first <= price, t.be => 0 <= price, NEW q \in Paths,
           q.whole => q.worst <= price /\ price <= q.best
    PROVE  /\ Sound(CloseAt(t, price), first, q) /\ ~IsOpen(CloseAt(t, price))
           /\ CloseAt(t, price).be = t.be
  <1> DEFINE u == CloseAt(t, price)
  <1>1. u \in Trades /\ u.left = 0 /\ u.booked = Parts * price /\ u.be = t.be
    <2>1. Parts = 12 /\ t.booked + t.left * price = 12 * price /\ 12 * price \in Int
      BY DEF Parts
    <2>2. u = [t EXCEPT !.booked = 12 * price, !.left = 0]
      BY <2>1 DEF CloseAt
    <2>3. 0 \in 0..Parts
      BY <2>1
    <2> QED
      BY <2>1, <2>2, <2>3 DEF Trades
  <1> HIDE DEF u
  <1>2. Bounded(u, first, q)
    BY <1>1 DEF Bounded, Parts, Paths
  <1>3. Sound(u, first, q) /\ ~IsOpen(u)
    BY <1>1, <1>2 DEF Sound, IsOpen, Parts
  <1> QED
    BY <1>1, <1>3 DEF u

(* A stop is checked, wherever it was moved to before.                     *)
LEMMA StopChecked ==
    ASSUME NEW t \in Trades, t.left = Parts, t.booked = 0, NEW first, first \in Int,
           first <= t.stop, t.be => 0 <= t.stop, NEW c, NEW p, NEW q, Leads(c, p, q),
           q.whole => t.best <= q.best /\ t.stop <= q.best
    PROVE  LET u == CheckStop(t, c)
           IN  /\ Stepped(u, first, c, q) /\ u.be = t.be
               /\ IsOpen(u) => u = t
               /\ IsOpen(u) <=> t.stop < c.worst
  <1>1. /\ c.worst \in Int /\ c.close \in Int /\ c.worst <= c.close /\ q \in Paths
        /\ q.at = c.close /\ (q.whole => q.worst <= c.worst) /\ t.stop \in Int
        /\ q.worst \in Int
    BY DEF Leads, OnPath, IsCandle, Trades, Paths
  <1>2. CASE c.worst <= t.stop
    <2>1. q.whole => q.worst <= t.stop /\ t.stop <= q.best
      BY <1>1, <1>2
    <2>2. /\ Sound(CloseAt(t, t.stop), first, q) /\ ~IsOpen(CloseAt(t, t.stop))
          /\ CloseAt(t, t.stop).be = t.be
      BY <1>1, <2>1, ClosedSound
    <2> QED
      BY <1>1, <1>2, <2>2 DEF CheckStop, Stepped
  <1>3. CASE ~(c.worst <= t.stop)
    <2>1. CheckStop(t, c) = t
      BY <1>3 DEF CheckStop
    <2>2. t.stop < c.worst /\ t.stop <= q.at
      BY <1>1, <1>3
    <2>3. Sound(t, first, q) /\ IsOpen(t)
      BY <1>1, <2>2 DEF Sound, Parts, IsOpen
    <2> QED
      BY <2>1, <2>2, <2>3 DEF Stepped
  <1> QED
    BY <1>2, <1>3

(* Out at the close, if at all.                                            *)
LEMMA OutAtCloseSound ==
    ASSUME NEW t, NEW first, first \in Int, NEW c, NEW p, NEW q, Leads(c, p, q),
           Stepped(t, first, c, q), NEW when \in BOOLEAN
    PROVE  LET u == OutAtClose(t, c, when)
           IN  Stepped(u, first, c, q) /\ u.be = t.be /\ (IsOpen(u) => u = t)
  <1>1. CASE IsOpen(t) /\ when
    <2>1. t \in Trades /\ t.left = Parts /\ t.booked = 0 /\ first <= t.stop /\ t.stop <= q.at
          /\ (t.be => 0 <= t.stop) /\ t.stop \in Int
      BY <1>1 DEF Stepped, Sound, IsOpen, Parts, Trades
    <2>2. q \in Paths /\ q.at = c.close /\ c.close \in Int
          /\ (q.whole => q.worst <= c.close /\ c.close <= q.best)
      BY DEF Leads, OnPath, IsCandle
    <2>3. first <= c.close /\ (t.be => 0 <= c.close)
      BY <2>1, <2>2
    <2>4. /\ Sound(CloseAt(t, c.close), first, q) /\ ~IsOpen(CloseAt(t, c.close))
          /\ CloseAt(t, c.close).be = t.be
      BY <2>1, <2>2, <2>3, ClosedSound
    <2> QED
      BY <1>1, <2>4 DEF OutAtClose, Stepped
  <1>2. CASE ~(IsOpen(t) /\ when)
    BY <1>2 DEF OutAtClose
  <1> QED
    BY <1>1, <1>2

(* What the stops are moved with.                                          *)
LEMMA BestSeen ==
    ASSUME NEW t \in Trades, NEW c, NEW p, NEW q, Leads(c, p, q), q.whole => t.best <= p.best
    PROVE  LET u == SeeBest(t, c)
           IN  /\ u = [t EXCEPT !.best = IF t.best >= c.best THEN t.best ELSE c.best]
               /\ u \in Trades /\ t.best <= u.best /\ c.best <= u.best
               /\ u.stop = t.stop /\ u.be = t.be /\ u.booked = t.booked /\ u.left = t.left
               /\ u.taken = t.taken
               /\ q.whole => u.best <= q.best
  <1> DEFINE m == IF t.best >= c.best THEN t.best ELSE c.best
  <1>1. t.best \in Nat /\ c.best \in Int /\ q \in Paths /\ p \in Paths
    BY DEF Trades, Leads, OnPath, IsCandle
  <1>2. SeeBest(t, c) = [t EXCEPT !.best = m]
    BY <1>1, MaxOfTwo DEF SeeBest
  <1>3. m \in Nat /\ t.best <= m /\ c.best <= m
    BY <1>1
  <1>4. q.whole => m <= q.best
    BY <1>1 DEF Leads, Paths
  <1> HIDE DEF m
  <1>5. [t EXCEPT !.best = m] \in Trades /\ [t EXCEPT !.best = m].best = m
    BY <1>3 DEF Trades
  <1> QED
    BY <1>2, <1>3, <1>4, <1>5 DEF m, Trades

LEMMA AtEntry ==
    ASSUME NEW t \in Trades
    PROVE  LET u == [t EXCEPT !.be = TRUE, !.stop = 0]
           IN  /\ u \in Trades /\ u.be = TRUE /\ u.stop = 0
               /\ u.best = t.best /\ u.booked = t.booked /\ u.left = t.left
  <1> DEFINE u == [t EXCEPT !.be = TRUE, !.stop = 0]
  <1>1. u.be = TRUE /\ u.stop = 0 /\ u.best = t.best /\ u.booked = t.booked /\ u.left = t.left
    BY Zenon DEF Trades
  <1>2. u \in Trades
    <2>1. TRUE \in BOOLEAN /\ 0 \in Int
      OBVIOUS
    <2> QED
      BY <2>1, Zenon DEF Trades
  <1> QED
    BY <1>1, <1>2

LEMMA Raised ==
    ASSUME NEW t \in Trades, NEW level \in Int
    PROVE  LET u == Raise(t, level)
           IN  /\ u \in Trades /\ u.stop = (IF t.stop >= level THEN t.stop ELSE level)
               /\ t.stop <= u.stop /\ level <= u.stop
               /\ u.best = t.best /\ u.be = t.be /\ u.booked = t.booked /\ u.left = t.left
               /\ u.taken = t.taken
  <1> DEFINE m == IF t.stop >= level THEN t.stop ELSE level
  <1>1. t.stop \in Int
    BY DEF Trades
  <1>2. Raise(t, level) = [t EXCEPT !.stop = m]
    BY <1>1, MaxOfTwo DEF Raise
  <1>3. m \in Int /\ t.stop <= m /\ level <= m
    BY <1>1
  <1> HIDE DEF m
  <1>4. [t EXCEPT !.stop = m] \in Trades /\ [t EXCEPT !.stop = m].stop = m
    BY <1>3 DEF Trades
  <1> QED
    BY <1>2, <1>3, <1>4 DEF m, Trades

(* What an open trade has.                                                 *)
LEMMA OpenTrade ==
    ASSUME NEW t, NEW first, NEW p, NEW c, NEW q, Leads(c, p, q), Sound(t, first, p), IsOpen(t)
    PROVE  /\ t \in Trades /\ t.left = Parts /\ t.booked = 0 /\ first <= t.stop
           /\ t.be => 0 <= t.stop
           /\ q.whole => t.best <= p.best /\ t.best <= q.best /\ t.stop <= q.best
           /\ c.worst \in Int /\ c.best \in Int /\ c.close \in Int /\ q \in Paths
           /\ q.whole => 0 <= q.best /\ q.worst <= 0 /\ c.best <= q.best
  <1>1. t \in Trades /\ t.left = Parts /\ t.booked = 0 /\ first <= t.stop /\ t.stop <= p.at
        /\ (t.be => 0 <= t.stop) /\ (p.whole => t.best <= p.best)
    BY DEF Sound, IsOpen, Parts, Trades
  <1>2. /\ p \in Paths /\ q \in Paths /\ (p.whole => p.at <= p.best)
        /\ (q.whole => p.whole /\ p.best <= q.best /\ 0 <= q.best /\ q.worst <= 0)
        /\ c.worst \in Int /\ c.best \in Int /\ c.close \in Int
        /\ (q.whole => c.best <= q.best)
    BY DEF Leads, OnPath, IsCandle
  <1>3. t.stop \in Int /\ t.best \in Nat /\ p.at \in Int /\ p.best \in Int /\ q.best \in Int
    BY <1>1, <1>2 DEF Trades, Paths
  <1> QED
    BY <1>1, <1>2, <1>3

(* Each model, for one more candle.                                        *)
LEMMA FixedStopSteps ==
    ASSUME NEW t, NEW first, first \in Int, NEW p, NEW c, NEW q, Leads(c, p, q),
           Sound(t, first, p), IsOpen(t)
    PROVE  LET u == FixedStop(t, c)
           IN  /\ Stepped(u, first, c, q) /\ u.be = t.be
               /\ (IsOpen(u) => u = t) /\ (IsOpen(u) <=> t.stop < c.worst)
  BY OpenTrade, StopChecked DEF FixedStop

LEMMA IndicatorSteps ==
    ASSUME NEW t, NEW first, first \in Int, NEW p, NEW c, NEW q, Leads(c, p, q),
           Sound(t, first, p), IsOpen(t), c.turned \in BOOLEAN
    PROVE  LET u == IndicatorExit(t, c)
           IN  Stepped(u, first, c, q) /\ u.be = t.be
  <1>1. Stepped(CheckStop(t, c), first, c, q) /\ CheckStop(t, c).be = t.be
    BY OpenTrade, StopChecked
  <1> DEFINE v == CheckStop(t, c)
  <1> HIDE DEF v
  <1>2. /\ Stepped(OutAtClose(v, c, c.turned), first, c, q)
        /\ OutAtClose(v, c, c.turned).be = v.be
    BY <1>1, OutAtCloseSound DEF v
  <1> QED
    BY <1>1, <1>2 DEF IndicatorExit, v

LEMMA RrSteps ==
    ASSUME NEW t, NEW first, first \in Int, first <= 0, NEW p, NEW c, NEW q, Leads(c, p, q),
           Sound(t, first, p), IsOpen(t), NEW r \in {1, 2, 3}
    PROVE  LET u == RrExit(t, c, r)
           IN  /\ Stepped(u, first, c, q) /\ u.be = t.be
               /\ (IsOpen(u) => u = t)
               /\ (IsOpen(u) <=> t.stop < c.worst /\ c.best < R(r))
  <1> DEFINE v == CheckStop(t, c)
  <1>1. R(r) \in Int /\ 0 < R(r)
    BY Units
  <1>2. /\ Stepped(v, first, c, q) /\ v.be = t.be /\ (IsOpen(v) => v = t)
        /\ (IsOpen(v) <=> t.stop < c.worst)
    BY OpenTrade, StopChecked
  <1>3. c.best \in Int
    BY OpenTrade
  <1>4. CASE IsOpen(v) /\ c.best >= R(r)
    <2>1. RrExit(t, c, r) = CloseAt(t, R(r))
      BY <1>2, <1>4 DEF RrExit
    <2>2. q.whole => q.worst <= R(r) /\ R(r) <= q.best
      BY <1>1, <1>4, OpenTrade DEF Paths
    <2>3. first <= R(r)
      BY <1>1
    <2>4. /\ Sound(CloseAt(t, R(r)), first, q) /\ ~IsOpen(CloseAt(t, R(r)))
          /\ CloseAt(t, R(r)).be = t.be
      BY <1>1, <2>2, <2>3, OpenTrade, ClosedSound
    <2> QED
      BY <1>1, <1>3, <1>4, <2>1, <2>4 DEF Stepped
  <1>5. CASE ~(IsOpen(v) /\ c.best >= R(r))
    <2>1. RrExit(t, c, r) = v
      BY <1>5 DEF RrExit
    <2> HIDE DEF v
    <2> QED
      BY <1>1, <1>2, <1>3, <1>5, <2>1
  <1> QED
    BY <1>4, <1>5

LEMMA TrailMoves ==
    ASSUME NEW t \in Trades, NEW p, NEW c, NEW q, Leads(c, p, q), q.whole => t.best <= p.best,
           NEW n, HalfR(n) \in Nat
    PROVE  LET v == SeeBest(t, c)
           IN  \E w \in Trades :
                  /\ Trail(t, c, n) = CheckStop(w, c)
                  /\ w.left = t.left /\ w.booked = t.booked /\ w.be = t.be /\ w.best = v.best
                  /\ w.taken = t.taken
                  /\ w.stop = IF v.best > t.best /\ t.stop < v.best - HalfR(n)
                              THEN v.best - HalfR(n) ELSE t.stop
                  /\ q.whole => w.best <= q.best
  <1> DEFINE v == SeeBest(t, c)
             level == v.best - HalfR(n)
             w == IF v.best > t.best THEN Raise(v, level) ELSE v
  <1>1. /\ v \in Trades /\ v.stop = t.stop /\ v.be = t.be /\ v.booked = t.booked
        /\ v.left = t.left /\ v.taken = t.taken /\ (q.whole => v.best <= q.best)
    BY BestSeen
  <1> HIDE DEF v
  <1>2. v.best \in Nat /\ level \in Int /\ t.stop \in Int
    BY <1>1 DEF Trades
  <1>3. Trail(t, c, n) = CheckStop(w, c)
    BY DEF Trail, v
  <1> HIDE DEF level
  <1>4. /\ w \in Trades /\ w.left = t.left /\ w.booked = t.booked /\ w.be = t.be
        /\ w.best = v.best /\ w.taken = t.taken
        /\ w.stop = IF v.best > t.best /\ t.stop < level THEN level ELSE t.stop
    <2> DEFINE x == Raise(v, level)
    <2>1. /\ x \in Trades /\ x.stop = (IF v.stop >= level THEN v.stop ELSE level)
          /\ x.best = v.best /\ x.be = v.be /\ x.booked = v.booked /\ x.left = v.left
          /\ x.taken = v.taken
      <3>1. v \in Trades /\ level \in Int
        BY <1>1, <1>2
      <3> QED
        BY <3>1, Raised
    <2>2. CASE v.best > t.best
      <3>1. w = x
        BY <2>2
      <3> HIDE DEF w, x
      <3> QED
        BY <1>1, <1>2, <2>1, <2>2, <3>1
    <2>3. CASE ~(v.best > t.best)
      BY <1>1, <2>3
    <2> QED
      BY <2>2, <2>3
  <1> HIDE DEF w
  <1> QED
    BY <1>1, <1>3, <1>4 DEF v, level

LEMMA TrailSteps ==
    ASSUME NEW t, NEW first, first \in Int, NEW p, NEW c, NEW q, Leads(c, p, q),
           Sound(t, first, p), IsOpen(t), NEW n, HalfR(n) \in Nat
    PROVE  LET u == Trail(t, c, n)
               v == SeeBest(t, c)
               stop == IF v.best > t.best /\ t.stop < v.best - HalfR(n)
                       THEN v.best - HalfR(n) ELSE t.stop
           IN  /\ Stepped(u, first, c, q) /\ u.be = t.be
               /\ IsOpen(u) => u.best = v.best /\ u.stop = stop
               /\ IsOpen(u) <=> stop < c.worst
  <1> DEFINE v == SeeBest(t, c)
             stop == IF v.best > t.best /\ t.stop < v.best - HalfR(n)
                     THEN v.best - HalfR(n) ELSE t.stop
  <1>1. /\ t \in Trades /\ t.left = Parts /\ t.booked = 0 /\ first <= t.stop
        /\ (t.be => 0 <= t.stop) /\ (q.whole => t.best <= p.best /\ t.stop <= q.best)
        /\ q \in Paths
    BY OpenTrade
  <1>2. PICK w \in Trades :
            /\ Trail(t, c, n) = CheckStop(w, c)
            /\ w.left = Parts /\ w.booked = 0 /\ w.be = t.be /\ w.best = v.best
            /\ w.stop = stop /\ (q.whole => w.best <= q.best)
    BY <1>1, TrailMoves
  <1>3. w.best \in Nat /\ t.stop \in Int /\ q.best \in Int /\ w.stop \in Int
    BY <1>1, <1>2 DEF Trades, Paths
  <1> HIDE DEF v
  <1>4. /\ first <= w.stop /\ (w.be => 0 <= w.stop)
        /\ (q.whole => w.best <= q.best /\ w.stop <= q.best)
    BY <1>1, <1>2, <1>3
  <1> HIDE DEF stop
  <1>5. /\ Stepped(CheckStop(w, c), first, c, q) /\ CheckStop(w, c).be = w.be
        /\ (IsOpen(CheckStop(w, c)) => CheckStop(w, c) = w)
        /\ (IsOpen(CheckStop(w, c)) <=> w.stop < c.worst)
    BY <1>2, <1>4, StopChecked
  <1> QED
    BY <1>2, <1>5 DEF stop, v

(* The breakeven rule.                                                     *)
LEMMA BreakevenMoves ==
    ASSUME NEW t, NEW first, first \in Int, first <= 0, NEW p, NEW c, NEW q, Leads(c, p, q),
           Sound(t, first, p), IsOpen(t), NEW n, HalfR(n) \in Nat
    PROVE  LET v     == Breakeven(t, c, n)
               best  == SeeBest(t, c).best
               floor == IF t.be THEN t.stop ELSE 0
           IN  /\ v \in Trades /\ v.left = Parts /\ v.booked = 0 /\ v.best = best
               /\ v.be = (t.be \/ best >= R(1)) /\ first <= v.stop /\ (v.be => 0 <= v.stop)
               /\ v.stop = IF ~v.be THEN t.stop
                           ELSE IF floor >= best - HalfR(n) THEN floor ELSE best - HalfR(n)
               /\ q.whole => v.best <= q.best /\ v.stop <= q.best
  <1> DEFINE u == SeeBest(t, c)
             w == IF ~u.be /\ u.best >= R(1) THEN [u EXCEPT !.be = TRUE, !.stop = 0] ELSE u
             level == w.best - HalfR(n)
             v == IF w.be THEN Raise(w, level) ELSE w
             floor == IF t.be THEN t.stop ELSE 0
  <1>1. /\ t \in Trades /\ t.left = Parts /\ t.booked = 0 /\ first <= t.stop
        /\ (t.be => 0 <= t.stop) /\ (q.whole => t.best <= p.best /\ t.stop <= q.best)
        /\ (q.whole => 0 <= q.best) /\ q \in Paths
    BY OpenTrade
  <1>2. /\ u \in Trades /\ u.stop = t.stop /\ u.be = t.be /\ u.booked = t.booked
        /\ u.left = t.left /\ (q.whole => u.best <= q.best)
    BY <1>1, BestSeen
  <1> HIDE DEF u
  <1>3. u.best \in Nat /\ t.stop \in Int /\ q.best \in Int /\ R(1) \in Int /\ t.be \in BOOLEAN
    BY <1>1, <1>2, Units DEF Trades, Paths
  <1>4. /\ w \in Trades /\ w.left = Parts /\ w.booked = 0 /\ w.best = u.best
        /\ w.be = (t.be \/ u.best >= R(1))
        /\ w.stop = IF w.be THEN floor ELSE t.stop
    <2>1. CASE ~u.be /\ u.best >= R(1)
      <3>1. w = [u EXCEPT !.be = TRUE, !.stop = 0]
        BY <2>1
      <3> HIDE DEF w
      <3> QED
        BY <1>1, <1>2, <2>1, <3>1 DEF Trades
    <2>2. CASE ~(~u.be /\ u.best >= R(1))
      <3>1. w = u
        BY <2>2
      <3> HIDE DEF w
      <3> QED
        BY <1>1, <1>2, <1>3, <2>2, <3>1
    <2> QED
      BY <2>1, <2>2
  <1> HIDE DEF w
  <1>5. w.stop \in Int /\ w.best \in Int /\ level \in Int /\ floor \in Int /\ w.be \in BOOLEAN
    BY <1>3, <1>4 DEF Trades
  <1>6. /\ v \in Trades /\ v.left = Parts /\ v.booked = 0 /\ v.best = u.best /\ v.be = w.be
        /\ v.stop = IF ~w.be THEN t.stop ELSE IF floor >= level THEN floor ELSE level
    <2>1. CASE w.be
      <3> DEFINE x == Raise(w, level)
      <3>1. x = v
        BY <2>1
      <3> HIDE DEF level, v
      <3>2. /\ x \in Trades /\ x.stop = (IF w.stop >= level THEN w.stop ELSE level)
            /\ x.best = w.best /\ x.be = w.be /\ x.booked = w.booked /\ x.left = w.left
        BY <1>4, <1>5, Raised
      <3> HIDE DEF x, floor
      <3> QED
        BY <1>4, <2>1, <3>1, <3>2
    <2>2. CASE ~w.be
      BY <1>4, <2>2
    <2> QED
      BY <2>1, <2>2, <1>5
  <1>7. Breakeven(t, c, n) = v
    BY DEF Breakeven, u, w
  <1> HIDE DEF v
  <1>8. /\ first <= v.stop /\ (v.be => 0 <= v.stop)
        /\ (q.whole => v.best <= q.best /\ v.stop <= q.best)
    BY <1>1, <1>2, <1>3, <1>4, <1>5, <1>6
  <1> QED
    BY <1>4, <1>6, <1>7, <1>8 DEF u

LEMMA BeTrailSteps ==
    ASSUME NEW t, NEW first, first \in Int, first <= 0, NEW p, NEW c, NEW q, Leads(c, p, q),
           Sound(t, first, p), IsOpen(t), NEW n, HalfR(n) \in Nat
    PROVE  LET u == BeTrail(t, c, n)
               v == Breakeven(t, c, n)
           IN  Stepped(u, first, c, q) /\ (IsOpen(u) => u = v) /\ (IsOpen(u) <=> v.stop < c.worst)
  <1> DEFINE v == Breakeven(t, c, n)
  <1>1. /\ v \in Trades /\ v.left = Parts /\ v.booked = 0 /\ first <= v.stop
        /\ (v.be => 0 <= v.stop) /\ (q.whole => v.best <= q.best /\ v.stop <= q.best)
    BY BreakevenMoves
  <1> HIDE DEF v
  <1>2. /\ Stepped(CheckStop(v, c), first, c, q)
        /\ (IsOpen(CheckStop(v, c)) => CheckStop(v, c) = v)
        /\ (IsOpen(CheckStop(v, c)) <=> v.stop < c.worst)
    BY <1>1, StopChecked
  <1> QED
    BY <1>2 DEF BeTrail, v

LEMMA BeRrTargetSteps ==
    ASSUME NEW t, NEW first, first \in Int, first <= 0, NEW p, NEW c, NEW q, Leads(c, p, q),
           Sound(t, first, p), IsOpen(t), NEW r \in {2, 3}
    PROVE  LET u == BeRrTarget(t, c, r)
               v == Breakeven(t, c, 4)
           IN  /\ Stepped(u, first, c, q) /\ (IsOpen(u) => u = v)
               /\ (IsOpen(u) <=> v.stop < c.worst /\ c.best < R(r))
  <1>1. R(r) \in Int /\ 0 < R(r) /\ HalfR(4) \in Nat /\ c.best \in Int
    BY Units, OpenTrade
  <1>2. CASE c.best >= R(r)
    <2>1. q.whole => q.worst <= R(r) /\ R(r) <= q.best
      BY <1>1, <1>2, OpenTrade DEF Paths
    <2>2. first <= R(r)
      BY <1>1
    <2>3. Sound(CloseAt(t, R(r)), first, q) /\ ~IsOpen(CloseAt(t, R(r)))
      BY <1>1, <2>1, <2>2, OpenTrade, ClosedSound
    <2> QED
      BY <1>1, <1>2, <2>3 DEF BeRrTarget, Stepped
  <1>3. CASE ~(c.best >= R(r))
    <2> DEFINE u == BeTrail(t, c, 4)
               v == Breakeven(t, c, 4)
    <2>1. Stepped(u, first, c, q) /\ (IsOpen(u) => u = v) /\ (IsOpen(u) <=> v.stop < c.worst)
      BY <1>1, BeTrailSteps
    <2>2. BeRrTarget(t, c, r) = u
      BY <1>3 DEF BeRrTarget
    <2> HIDE DEF u, v
    <2>3. c.best < R(r)
      BY <1>1, <1>3
    <2>4. /\ Stepped(BeRrTarget(t, c, r), first, c, q)
          /\ (IsOpen(BeRrTarget(t, c, r)) => BeRrTarget(t, c, r) = v)
          /\ (IsOpen(BeRrTarget(t, c, r)) <=> v.stop < c.worst /\ c.best < R(r))
      BY <2>1, <2>2, <2>3
    <2> QED
      BY <2>4 DEF v
  <1> QED
    BY <1>2, <1>3

LEMMA BeEmaTrailSteps ==
    ASSUME NEW t, NEW first, first \in Int, first <= 0, NEW p, NEW c, NEW q, Leads(c, p, q),
           Sound(t, first, p), IsOpen(t), c.turned \in BOOLEAN
    PROVE  Stepped(BeEmaTrail(t, c), first, c, q)
  <1> DEFINE u == SeeBest(t, c)
             v == IF ~u.be /\ u.best >= R(1) THEN [u EXCEPT !.be = TRUE, !.stop = 0] ELSE u
             w == CheckStop(v, c)
  <1>1. /\ t \in Trades /\ t.left = Parts /\ t.booked = 0 /\ first <= t.stop
        /\ (t.be => 0 <= t.stop) /\ (q.whole => t.best <= p.best /\ t.stop <= q.best)
        /\ (q.whole => 0 <= q.best) /\ q \in Paths
    BY OpenTrade
  <1>2. /\ u \in Trades /\ u.stop = t.stop /\ u.be = t.be /\ u.booked = t.booked
        /\ u.left = t.left /\ (q.whole => u.best <= q.best)
    BY <1>1, BestSeen
  <1> HIDE DEF u
  <1>3. /\ v \in Trades /\ v.left = Parts /\ v.booked = 0 /\ first <= v.stop
        /\ (v.be => 0 <= v.stop) /\ (q.whole => v.best <= q.best /\ v.stop <= q.best)
    <2>1. CASE ~u.be /\ u.best >= R(1)
      <3>1. v = [u EXCEPT !.be = TRUE, !.stop = 0]
        BY <2>1
      <3> HIDE DEF v
      <3>2. /\ v \in Trades /\ v.left = u.left /\ v.booked = u.booked /\ v.stop = 0
            /\ v.best = u.best
        BY <1>2, <3>1, AtEntry
      <3> QED
        BY <1>1, <1>2, <3>2
    <2>2. CASE ~(~u.be /\ u.best >= R(1))
      <3>1. v = u
        BY <2>2
      <3> HIDE DEF v
      <3> QED
        BY <1>1, <1>2, <3>1
    <2> QED
      BY <2>1, <2>2
  <1> HIDE DEF v
  <1>4. Stepped(w, first, c, q)
    BY <1>3, StopChecked
  <1>5. (w.be /\ c.turned) \in BOOLEAN
    OBVIOUS
  <1> HIDE DEF w
  <1>6. Stepped(OutAtClose(w, c, w.be /\ c.turned), first, c, q)
    BY <1>4, <1>5, OutAtCloseSound
  <1> QED
    BY <1>6 DEF BeEmaTrail, u, v, w

(* A number of whole steps within a distance.                              *)
LEMMA WholeSteps ==
    ASSUME NEW x \in Nat, NEW y \in Nat, y > 0
    PROVE  x \div y \in Nat /\ (x \div y) * y <= x /\ (x \div y) * y \in Nat
  OBVIOUS

LEMMA StepTrailSteps ==
    ASSUME NEW t, NEW p, NEW c, NEW q, Leads(c, p, q), Sound(t, -HalfR(3), p), IsOpen(t), ~t.be,
           NEW n \in {1, 2}
    PROVE  LET u == StepTrail(t, c, n) IN Stepped(u, -HalfR(3), c, q) /\ ~u.be
  <1> DEFINE far == Max({0, c.best})
             steps == far \div HalfR(n)
             half == HalfR(n) \div 2
             v == IF steps > t.taken
                  THEN [t EXCEPT !.taken = steps, !.stop = steps * half - HalfR(3)] ELSE t
             first == -HalfR(3)
  <1>1. /\ t \in Trades /\ t.left = Parts /\ t.booked = 0 /\ first <= t.stop
        /\ (q.whole => t.best <= q.best /\ t.stop <= q.best)
        /\ (q.whole => 0 <= q.best /\ c.best <= q.best) /\ q \in Paths /\ c.best \in Int
    BY OpenTrade
  <1>2. far \in Nat /\ (q.whole => far <= q.best)
    BY <1>1, MaxOfTwo
  <1>3. HalfR(n) \in Nat /\ HalfR(n) > 0 /\ half \in Nat /\ HalfR(n) = 2 * half /\ HalfR(3) \in Nat
    <2>1. CASE n = 1
      BY <2>1, Units
    <2>2. CASE n = 2
      BY <2>2, Units
    <2> QED
      BY <2>1, <2>2
  <1>4. steps \in Nat /\ steps * HalfR(n) <= far /\ steps * HalfR(n) \in Nat
    BY <1>2, <1>3, WholeSteps
  <1> HIDE DEF far, steps, half
  <1>5. steps * half \in Nat /\ steps * half <= far
    <2>1. steps * HalfR(n) = 2 * (steps * half)
      BY <1>3, <1>4
    <2>2. steps * half \in Nat
      BY <1>3, <1>4
    <2> QED
      BY <1>2, <1>4, <2>1, <2>2
  <1>6. /\ v \in Trades /\ v.left = Parts /\ v.booked = 0 /\ first <= v.stop /\ ~v.be
        /\ (q.whole => v.best <= q.best /\ v.stop <= q.best)
    <2>1. CASE steps > t.taken
      <3> DEFINE level == steps * half - HalfR(3)
      <3>1. level \in Int /\ first <= level /\ (q.whole => level <= q.best)
        BY <1>1, <1>2, <1>3, <1>5 DEF Paths
      <3>2. v = [t EXCEPT !.taken = steps, !.stop = level]
        BY <2>1
      <3> HIDE DEF v, level
      <3> QED
        BY <1>1, <1>4, <3>1, <3>2 DEF Trades
    <2>2. CASE ~(steps > t.taken)
      BY <1>1, <2>2
    <2> QED
      BY <2>1, <2>2
  <1>7. first \in Int
    BY <1>3
  <1> HIDE DEF v, first
  <1>8. Stepped(CheckStop(v, c), first, c, q) /\ CheckStop(v, c).be = v.be
    BY <1>6, <1>7, StopChecked
  <1> QED
    BY <1>6, <1>8 DEF StepTrail, v, first, steps, half, far

LEMMA DelayedSteps ==
    ASSUME NEW t, NEW p, NEW c, NEW q, Leads(c, p, q), Sound(t, -HalfR(3), p), IsOpen(t), ~t.be,
           NEW r \in {2, 3}
    PROVE  LET u == DelayedChandelier(t, c, r)
               v == SeeBest(t, c)
               far == IF -HalfR(3) >= v.best - R(r) THEN -HalfR(3) ELSE v.best - R(r)
               stop == IF count < Delay THEN t.stop ELSE far
           IN  /\ Stepped(u, -HalfR(3), c, q) /\ ~u.be
               /\ IsOpen(u) => u.best = v.best /\ u.stop = stop
               /\ IsOpen(u) <=> stop < c.worst
  <1> DEFINE v == SeeBest(t, c)
             first == -HalfR(3)
             far == IF first >= v.best - R(r) THEN first ELSE v.best - R(r)
             stop == IF count < Delay THEN t.stop ELSE far
             w == IF count < Delay THEN v ELSE [v EXCEPT !.stop = Max({first, v.best - R(r)})]
  <1>1. /\ t \in Trades /\ t.left = Parts /\ t.booked = 0 /\ first <= t.stop
        /\ (q.whole => t.best <= p.best /\ t.stop <= q.best)
        /\ (q.whole => 0 <= q.best) /\ q \in Paths
    BY OpenTrade
  <1>2. /\ v \in Trades /\ v.stop = t.stop /\ v.be = t.be /\ v.booked = t.booked
        /\ v.left = t.left /\ (q.whole => v.best <= q.best)
    BY <1>1, BestSeen
  <1> HIDE DEF v
  <1>3. /\ v.best \in Nat /\ R(r) \in Nat /\ first \in Int /\ first <= 0 /\ q.best \in Int
        /\ t.stop \in Int
    BY <1>1, <1>2, Units DEF Trades, Paths
  <1>4. far \in Int /\ first <= far /\ far = Max({first, v.best - R(r)})
        /\ (q.whole => far <= q.best)
    <2>1. v.best - R(r) \in Int
      BY <1>3
    <2>2. Max({first, v.best - R(r)}) = IF first >= v.best - R(r) THEN first ELSE v.best - R(r)
      BY <1>3, <2>1, MaxOfTwo
    <2> QED
      BY <1>1, <1>2, <1>3, <2>2
  <1> HIDE DEF far, first
  <1>5. /\ w \in Trades /\ w.left = Parts /\ w.booked = 0 /\ w.stop = stop /\ w.best = v.best
        /\ ~w.be /\ first <= w.stop /\ (q.whole => w.best <= q.best /\ w.stop <= q.best)
    <2>1. CASE count < Delay
      BY <1>1, <1>2, <2>1
    <2>2. CASE ~(count < Delay)
      <3>1. w = [v EXCEPT !.stop = far]
        BY <1>4, <2>2
      <3>2. stop = far
        BY <2>2
      <3> HIDE DEF w, stop
      <3> QED
        BY <1>1, <1>2, <1>4, <3>1, <3>2 DEF Trades
    <2> QED
      BY <2>1, <2>2
  <1> HIDE DEF w, stop
  <1>6. /\ Stepped(CheckStop(w, c), first, c, q) /\ CheckStop(w, c).be = w.be
        /\ (IsOpen(CheckStop(w, c)) => CheckStop(w, c) = w)
        /\ (IsOpen(CheckStop(w, c)) <=> w.stop < c.worst)
    BY <1>3, <1>5, StopChecked
  <1>7. DelayedChandelier(t, c, r) = CheckStop(w, c)
    BY DEF DelayedChandelier, w, v, first
  <1> QED
    BY <1>5, <1>6, <1>7 DEF stop, far, first, v

(* The worst price of the latest candles.                                  *)
LEMMA LowsLeast ==
    ASSUME NEW T, T \subseteq Int, NEW s \in Seq(T), Len(s) > 0
    PROVE  Min(ToSet(s)) \in T
  <1> DEFINE D == 1..Len(s)
             f == [i \in D |-> -s[i]]
  <1>0. \A i \in D : s[i] \in Int
    <2>1. \A i \in D : s[i] \in T
      OBVIOUS
    <2> QED
      BY <2>1
  <1>1. IsFiniteSet(D) /\ D # {} /\ f \in [D -> Int]
    <2>1. Len(s) \in Int /\ Len(s) >= 1 /\ 1 \in Int
      OBVIOUS
    <2>2. IsFiniteSet(D) /\ D # {}
      <3>1. IsFiniteSet(1..Len(s))
        BY <2>1, FS_Interval, Zenon
      <3>2. 1 \in D
        BY <2>1
      <3> QED
        BY <3>1, <3>2
    <2>3. \A i \in D : -s[i] \in Int
      BY <1>0
    <2> QED
      BY <2>2, <2>3
  <1>2. PICK x \in D : \A y \in D : f[x] >= f[y]
    BY <1>1, HasGreatest
  <1>3. s[x] \in ToSet(s) /\ \A e \in ToSet(s) : s[x] <= e
    <2>1. DOMAIN s = D
      OBVIOUS
    <2>2. \A y \in D : s[x] <= s[y]
      BY <1>0, <1>2
    <2> HIDE DEF D
    <2> QED
      BY <2>1, <2>2 DEF ToSet
  <1>4. Min(ToSet(s)) \in ToSet(s)
    BY <1>3 DEF Min
  <1> QED
    BY <1>4 DEF ToSet

LEMMA SwingTrailSteps ==
    ASSUME NEW t, NEW first, first \in Int, NEW p, NEW c, NEW q, Leads(c, p, q),
           Sound(t, first, p), IsOpen(t), Len(lows) = Lookback => Min(ToSet(lows)) \in Int,
           p.whole /\ Len(lows) = Lookback => Min(ToSet(lows)) <= p.best
    PROVE  LET u == SwingTrail(t, c) IN Stepped(u, first, c, q) /\ u.be = t.be
  <1> DEFINE level == Min(ToSet(lows))
             v == IF Len(lows) = Lookback THEN Raise(t, level) ELSE t
  <1>1. /\ t \in Trades /\ t.left = Parts /\ t.booked = 0 /\ first <= t.stop
        /\ (t.be => 0 <= t.stop) /\ (q.whole => t.best <= q.best /\ t.stop <= q.best)
        /\ q \in Paths
    BY OpenTrade
  <1>2. /\ v \in Trades /\ v.left = Parts /\ v.booked = 0 /\ first <= v.stop /\ v.be = t.be
        /\ (v.be => 0 <= v.stop) /\ (q.whole => v.best <= q.best /\ v.stop <= q.best)
    <2>1. CASE Len(lows) = Lookback
      <3> DEFINE x == Raise(t, level)
      <3>1. level \in Int /\ (q.whole => level <= q.best) /\ x = v
        <4>1. level \in Int /\ (p.whole => level <= p.best)
          BY <2>1
        <4>2. (q.whole => p.whole /\ p.best <= q.best) /\ p.best \in Int /\ q.best \in Int
          BY DEF Leads, OnPath, Paths
        <4> QED
          BY <2>1, <4>1, <4>2
      <3> HIDE DEF level, v
      <3>2. /\ x \in Trades /\ x.stop = (IF t.stop >= level THEN t.stop ELSE level)
            /\ x.best = t.best /\ x.be = t.be /\ x.booked = t.booked /\ x.left = t.left
        BY <1>1, <3>1, Raised
      <3>3. t.stop \in Int
        BY <1>1 DEF Trades
      <3> HIDE DEF x
      <3> QED
        BY <1>1, <3>1, <3>2, <3>3
    <2>2. CASE Len(lows) # Lookback
      BY <1>1, <2>2
    <2> QED
      BY <2>1, <2>2
  <1> HIDE DEF v
  <1>3. Stepped(CheckStop(v, c), first, c, q) /\ CheckStop(v, c).be = v.be
    BY <1>2, StopChecked
  <1> QED
    BY <1>2, <1>3 DEF SwingTrail, v

(* Models without a stop.                                                  *)
FreeSound(t, p) ==
    /\ t \in Trades /\ ~t.be /\ t.left \in {0, Parts}
    /\ t.left = Parts => t.booked = 0
    /\ t.left = 0 /\ p.whole => Parts * p.worst <= t.booked /\ t.booked <= Parts * p.best

LEMMA FreeCloses ==
    ASSUME NEW t, NEW p, NEW q \in Paths, FreeSound(t, p), IsOpen(t), NEW price \in Int,
           q.whole => q.worst <= price /\ price <= q.best
    PROVE  FreeSound(CloseAt(t, price), q) /\ ~IsOpen(CloseAt(t, price))
  <1>1. t \in Trades /\ t.left = Parts /\ t.booked = 0 /\ ~t.be
    BY DEF FreeSound, IsOpen, Parts, Trades
  <1>2. price <= price
    OBVIOUS
  <1>3. /\ Sound(CloseAt(t, price), price, q) /\ ~IsOpen(CloseAt(t, price))
        /\ CloseAt(t, price).be = t.be
    BY <1>1, <1>2, ClosedSound
  <1> QED
    BY <1>1, <1>3 DEF Sound, FreeSound, Bounded, IsOpen, Parts

LEMMA FreeSteps ==
    ASSUME NEW t, NEW p, NEW c, NEW q, Leads(c, p, q), FreeSound(t, p), IsOpen(t),
           NEW when \in BOOLEAN
    PROVE  FreeSound(OutAtClose(t, c, when), q)
  <1>1. /\ q \in Paths /\ c.close \in Int
        /\ (q.whole => q.worst <= c.close /\ c.close <= q.best)
    BY DEF Leads, OnPath, IsCandle
  <1>2. CASE when
    <2>1. OutAtClose(t, c, when) = CloseAt(t, c.close)
      BY <1>2 DEF OutAtClose
    <2> QED
      BY <1>1, <2>1, FreeCloses
  <1>3. CASE ~when
    <2>1. OutAtClose(t, c, when) = t
      BY <1>3 DEF OutAtClose
    <2>2. t.left = Parts
      BY DEF FreeSound, IsOpen, Trades, Parts
    <2> QED
      BY <2>1, <2>2 DEF FreeSound, Parts
  <1> QED
    BY <1>2, <1>3

(* Models that leave at targets, a part at each: what is left of the parts *)
(* after how many of them.                                                 *)
Stages ==
    {<<1, 0, 12>>, <<1, 1, 6>>, <<2, 0, 12>>, <<2, 1, 8>>, <<2, 2, 4>>,
     <<3, 0, 12>>, <<3, 1, 9>>, <<3, 2, 6>>, <<3, 3, 3>>}

PartSound(t, targets, p) ==
    /\ t \in Trades /\ ~t.be /\ t.taken \in 0..targets
    /\ t.left > 0 =>
          /\ <<targets, t.taken, t.left>> \in Stages
          /\ t.stop <= p.at /\ 0 <= t.booked
          /\ -(IF t.taken < targets THEN R(1) ELSE HalfR(3)) <= t.stop
          /\ p.whole => /\ t.best <= p.best /\ R(t.taken) <= p.best
                        /\ t.booked <= (Parts - t.left) * p.best
    /\ t.left = 0 => Bounded(t, -R(1), p)

(* What was booked and the rest at a price.                                *)
LEMMA PartSums ==
    ASSUME NEW n \in {3, 4, 6, 8, 9, 12}, NEW b \in Int, 0 <= b, NEW x \in Int
    PROVE  /\ b + n * x \in Int
           /\ \A k \in Nat : (n \in {3, 4, 6} /\ -(6 * k) <= x) \/ -(4 * k) <= x
                             => -(48 * k) <= b + n * x
           /\ \A lo, hi \in Int : lo <= 0 /\ lo <= x /\ x <= hi /\ 0 <= hi /\ b <= (12 - n) * hi
                                  => 12 * lo <= b + n * x /\ b + n * x <= 12 * hi
  <1>1. CASE n = 3
    BY <1>1
  <1>2. CASE n = 4
    BY <1>2
  <1>3. CASE n = 6
    BY <1>3
  <1>4. CASE n = 8
    BY <1>4
  <1>5. CASE n = 9
    BY <1>5
  <1>6. CASE n = 12
    BY <1>6
  <1> QED
    BY <1>1, <1>2, <1>3, <1>4, <1>5, <1>6

LEMMA PartCloses ==
    ASSUME NEW t \in Trades, ~t.be, NEW targets \in {1, 2, 3}, t.taken \in 0..targets,
           <<targets, t.taken, t.left>> \in Stages, 0 <= t.booked, NEW price \in Int,
           -(IF t.taken < targets THEN R(1) ELSE HalfR(3)) <= price, NEW q \in Paths,
           q.whole => /\ q.worst <= 0 /\ 0 <= q.best /\ q.worst <= price /\ price <= q.best
                      /\ t.booked <= (Parts - t.left) * q.best
    PROVE  PartSound(CloseAt(t, price), targets, q) /\ ~IsOpen(CloseAt(t, price))
  <1> DEFINE u == CloseAt(t, price)
             sum == t.booked + t.left * price
  <1>1. /\ Quarter \in Nat /\ R(1) = 4 * Quarter /\ HalfR(3) = 6 * Quarter
        /\ t.booked \in Int /\ q.worst \in Int /\ q.best \in Int
    BY Units DEF Trades, Paths
  <1>2. t.left \in {3, 4, 6, 8, 9, 12} /\ (t.taken < targets \/ t.left \in {3, 4, 6})
    <2>1. CASE targets = 1
      BY <2>1 DEF Stages
    <2>2. CASE targets = 2
      BY <2>2 DEF Stages
    <2>3. CASE targets = 3
      BY <2>3 DEF Stages
    <2> QED
      BY <2>1, <2>2, <2>3
  <1>3. /\ sum \in Int /\ Parts * (-R(1)) <= sum
        /\ q.whole => Parts * q.worst <= sum /\ sum <= Parts * q.best
    <2>1. /\ t.left \in {3, 4, 6, 8, 9, 12}
          /\ (t.left \in {3, 4, 6} /\ -(6 * Quarter) <= price) \/ -(4 * Quarter) <= price
      <3>1. CASE t.taken < targets
        BY <1>1, <1>2, <3>1
      <3>2. CASE ~(t.taken < targets)
        BY <1>1, <1>2, <3>2
      <3> QED
        BY <1>2, <3>1, <3>2
    <2>2. sum \in Int /\ -(48 * Quarter) <= sum
      BY <1>1, <2>1, PartSums
    <2>3. q.whole => 12 * q.worst <= sum /\ sum <= 12 * q.best
      BY <1>1, <2>1, PartSums DEF Parts
    <2> QED
      BY <1>1, <2>2, <2>3 DEF Parts
  <1>4. u = [t EXCEPT !.booked = sum, !.left = 0]
    BY DEF CloseAt
  <1> HIDE DEF sum
  <1>5. u \in Trades /\ u.left = 0 /\ u.booked = sum /\ u.be = t.be /\ u.taken = t.taken
    <2>1. 0 \in 0..Parts
      BY DEF Parts
    <2> QED
      BY <1>3, <1>4, <2>1 DEF Trades
  <1> HIDE DEF u
  <1>6. PartSound(u, targets, q) /\ ~IsOpen(u)
    BY <1>3, <1>5 DEF PartSound, Bounded, IsOpen
  <1> QED
    BY <1>6 DEF u

(* A partial trade before its stop is checked.                             *)
PartReady(t, targets, q) ==
    /\ t \in Trades /\ ~t.be /\ t.taken \in 0..targets /\ 0 <= t.booked
    /\ <<targets, t.taken, t.left>> \in Stages
    /\ -(IF t.taken < targets THEN R(1) ELSE HalfR(3)) <= t.stop
    /\ q.whole => /\ t.best <= q.best /\ R(t.taken) <= q.best /\ t.stop <= q.best
                  /\ t.booked <= (Parts - t.left) * q.best

LEMMA StageParts ==
    ASSUME NEW targets \in {1, 2, 3}, NEW taken, NEW left, <<targets, taken, left>> \in Stages
    PROVE  /\ left \in {3, 4, 6, 8, 9, 12} /\ taken \in {0, 1, 2, 3}
           /\ R(taken) \in Int
           /\ \A a, b \in Int : a <= b => (Parts - left) * a <= (Parts - left) * b
           /\ (Parts - left) * 0 = 0
  <1>1. left \in {3, 4, 6, 8, 9, 12} /\ taken \in {0, 1, 2, 3}
    BY DEF Stages
  <1>2. R(0) \in Int /\ R(1) \in Int /\ R(2) \in Int /\ R(3) \in Int
    <2>1. R(0) \in Int
      BY ExitModelAssumption DEF R
    <2> QED
      BY <2>1, Units
  <1>3. R(taken) \in Int
    BY <1>1, <1>2
  <1>4. /\ \A a, b \in Int : a <= b => (Parts - left) * a <= (Parts - left) * b
        /\ (Parts - left) * 0 = 0
    <2>1. left = 3 \/ left = 4 \/ left = 6 \/ left = 8 \/ left = 9 \/ left = 12
      BY <1>1
    <2> QED
      BY <2>1 DEF Parts
  <1> QED
    BY <1>1, <1>3, <1>4

LEMMA PartOpen ==
    ASSUME NEW t, NEW targets \in {1, 2, 3}, NEW p, NEW c, NEW q, Leads(c, p, q),
           PartSound(t, targets, p), IsOpen(t)
    PROVE  /\ PartReady(t, targets, q) /\ (q.whole => t.best <= p.best)
           /\ t.stop \in Int /\ q.best \in Int /\ q.worst \in Int
           /\ c.worst \in Int /\ c.best \in Int /\ c.close \in Int /\ q \in Paths
           /\ q.at = c.close /\ c.worst <= c.close
           /\ q.whole => 0 <= q.best /\ q.worst <= 0 /\ c.best <= q.best /\ q.worst <= c.worst
  <1>1. /\ t \in Trades /\ ~t.be /\ t.taken \in 0..targets
        /\ <<targets, t.taken, t.left>> \in Stages /\ t.stop <= p.at /\ 0 <= t.booked
        /\ -(IF t.taken < targets THEN R(1) ELSE HalfR(3)) <= t.stop
        /\ p.whole => /\ t.best <= p.best /\ R(t.taken) <= p.best
                      /\ t.booked <= (Parts - t.left) * p.best
    BY DEF PartSound, IsOpen
  <1>2. /\ p \in Paths /\ q \in Paths /\ (p.whole => p.at <= p.best)
        /\ (q.whole => p.whole /\ p.best <= q.best /\ 0 <= q.best /\ q.worst <= 0)
        /\ c.worst \in Int /\ c.best \in Int /\ c.close \in Int
        /\ q.at = c.close /\ c.worst <= c.close
        /\ (q.whole => c.best <= q.best /\ q.worst <= c.worst)
    BY DEF Leads, OnPath, IsCandle
  <1>3. /\ t.stop \in Int /\ t.best \in Nat /\ p.at \in Int /\ p.best \in Int /\ q.best \in Int
        /\ q.worst \in Int /\ t.booked \in Int
    BY <1>1, <1>2 DEF Trades, Paths
  <1>4. R(t.taken) \in Int /\ (q.whole => (Parts - t.left) * p.best <= (Parts - t.left) * q.best)
    BY <1>1, <1>2, <1>3, StageParts
  <1>5. (Parts - t.left) * p.best \in Int /\ (Parts - t.left) * q.best \in Int
    BY <1>1, <1>3 DEF Trades, Parts
  <1>6. q.whole => t.booked <= (Parts - t.left) * q.best
    BY <1>1, <1>2, <1>3, <1>4, <1>5
  <1>7. q.whole => t.best <= q.best /\ R(t.taken) <= q.best /\ t.stop <= q.best
    BY <1>1, <1>2, <1>3, <1>4
  <1> QED
    BY <1>1, <1>2, <1>3, <1>6, <1>7 DEF PartReady

LEMMA PartStopChecked ==
    ASSUME NEW t, NEW targets \in {1, 2, 3}, NEW p, NEW c, NEW q, Leads(c, p, q),
           PartReady(t, targets, q)
    PROVE  LET u == CheckStop(t, c)
           IN  PartSound(u, targets, q) /\ (IsOpen(u) => u = t /\ t.stop < c.worst)
  <1>1. /\ c.worst \in Int /\ c.close \in Int /\ c.worst <= c.close /\ q \in Paths
        /\ q.at = c.close
        /\ (q.whole => q.worst <= c.worst /\ q.worst <= 0 /\ 0 <= q.best)
        /\ t.stop \in Int /\ q.worst \in Int
    BY DEF Leads, OnPath, IsCandle, Trades, Paths, PartReady
  <1>2. CASE c.worst <= t.stop
    <2>1. q.whole => q.worst <= t.stop /\ t.stop <= q.best
      BY <1>1, <1>2 DEF PartReady
    <2>2. PartSound(CloseAt(t, t.stop), targets, q) /\ ~IsOpen(CloseAt(t, t.stop))
      BY <1>1, <2>1, PartCloses DEF PartReady
    <2> QED
      BY <1>2, <2>2 DEF CheckStop
  <1>3. CASE ~(c.worst <= t.stop)
    <2>1. CheckStop(t, c) = t
      BY <1>3 DEF CheckStop
    <2>2. t.stop < c.worst /\ t.stop <= q.at
      BY <1>1, <1>3
    <2>3. t.left # 0
      BY StageParts DEF PartReady
    <2> QED
      BY <2>1, <2>2, <2>3 DEF PartReady, PartSound
  <1> QED
    BY <1>2, <1>3

PartOf == [targets \in {1, 2, 3} |-> CASE targets = 1 -> 6 [] targets = 2 -> 4 [] targets = 3 -> 3]

LEMMA NextStage ==
    ASSUME NEW targets \in {1, 2, 3}, NEW taken, NEW left, <<targets, taken, left>> \in Stages,
           taken < targets
    PROVE  LET part == PartOf[targets]
           IN  /\ <<targets, taken + 1, left - part>> \in Stages /\ taken + 1 \in 1..targets
               /\ left - part \in 1..Parts /\ part \in Nat
               /\ R(taken + 1) \in Nat
               /\ \A b, x, hi \in Int : x <= hi /\ b <= (Parts - left) * hi
                                        => b + part * x <= (Parts - (left - part)) * hi
  <1> DEFINE part == PartOf[targets]
  <1>1. \/ targets = 1 /\ taken = 0 /\ left = 12
        \/ targets = 2 /\ taken = 0 /\ left = 12
        \/ targets = 2 /\ taken = 1 /\ left = 8
        \/ targets = 3 /\ taken = 0 /\ left = 12
        \/ targets = 3 /\ taken = 1 /\ left = 9
        \/ targets = 3 /\ taken = 2 /\ left = 6
    <2>1. CASE targets = 1
      BY <2>1 DEF Stages
    <2>2. CASE targets = 2
      BY <2>2 DEF Stages
    <2>3. CASE targets = 3
      BY <2>3 DEF Stages
    <2> QED
      BY <2>1, <2>2, <2>3
  <1>2. \/ targets = 1 /\ taken = 0 /\ left = 12 /\ part = 6 /\ left - part = 6
        \/ targets = 2 /\ taken = 0 /\ left = 12 /\ part = 4 /\ left - part = 8
        \/ targets = 2 /\ taken = 1 /\ left = 8 /\ part = 4 /\ left - part = 4
        \/ targets = 3 /\ taken = 0 /\ left = 12 /\ part = 3 /\ left - part = 9
        \/ targets = 3 /\ taken = 1 /\ left = 9 /\ part = 3 /\ left - part = 6
        \/ targets = 3 /\ taken = 2 /\ left = 6 /\ part = 3 /\ left - part = 3
    BY <1>1 DEF PartOf
  <1> HIDE DEF part
  <1>3. taken + 1 = 1 \/ taken + 1 = 2 \/ taken + 1 = 3
    BY <1>2
  <1>4. R(taken + 1) \in Nat
    BY <1>3, Units
  <1>5. \A b, x, hi \in Int : x <= hi /\ b <= (Parts - left) * hi
                              => b + part * x <= (Parts - (left - part)) * hi
    <2> SUFFICES ASSUME NEW b \in Int, NEW x \in Int, NEW hi \in Int, x <= hi,
                        b <= (Parts - left) * hi
                 PROVE  b + part * x <= (Parts - (left - part)) * hi
      OBVIOUS
    <2>1. CASE part = 6 /\ left = 12
      BY <2>1 DEF Parts
    <2>2. CASE part = 4 /\ left = 12
      BY <2>2 DEF Parts
    <2>3. CASE part = 4 /\ left = 8
      BY <2>3 DEF Parts
    <2>4. CASE part = 3 /\ left = 12
      BY <2>4 DEF Parts
    <2>5. CASE part = 3 /\ left = 9
      BY <2>5 DEF Parts
    <2>6. CASE part = 3 /\ left = 6
      BY <2>6 DEF Parts
    <2> QED
      BY <1>2, <2>1, <2>2, <2>3, <2>4, <2>5, <2>6
  <1>6. <<targets, taken + 1, left - part>> \in Stages /\ taken + 1 \in 1..targets
    BY <1>2 DEF Stages
  <1>7. left - part \in 1..Parts /\ part \in Nat
    BY <1>2 DEF Parts
  <1> QED
    BY <1>4, <1>5, <1>6, <1>7 DEF part

(* The next target is hit.                                                 *)
LEMMA TargetHit ==
    ASSUME NEW t, NEW targets \in {1, 2, 3}, NEW p, NEW c, NEW q, Leads(c, p, q),
           PartReady(t, targets, q), t.taken < targets, t.stop < c.worst,
           c.best >= R(t.taken + 1), NEW u, count \in Nat,
           u = [t EXCEPT !.taken = @ + 1, !.at = count + 1, !.left = @ - PartOf[targets],
                         !.booked = @ + PartOf[targets] * R(t.taken + 1),
                         !.stop = IF t.taken + 1 = targets THEN -HalfR(3) ELSE @]
    PROVE  PartSound(u, targets, q)
  <1> DEFINE k == t.taken + 1
             part == PartOf[targets]
             left == t.left - part
             sum == t.booked + part * R(k)
             stop == IF k = targets THEN -HalfR(3) ELSE t.stop
  <1>1. /\ t \in Trades /\ ~t.be /\ 0 <= t.booked /\ <<targets, t.taken, t.left>> \in Stages
        /\ -R(1) <= t.stop
        /\ q.whole => t.best <= q.best /\ t.booked <= (Parts - t.left) * q.best
    BY DEF PartReady
  <1>2. /\ t.stop \in Int /\ t.booked \in Int /\ t.left \in Int /\ t.taken \in Nat
        /\ q \in Paths /\ q.best \in Int /\ q.at = c.close /\ c.worst <= c.close
        /\ c.worst \in Int /\ c.close \in Int /\ c.best \in Int
        /\ (q.whole => c.best <= q.best)
    BY <1>1 DEF Leads, OnPath, IsCandle, Trades, Paths
  <1>3. /\ <<targets, k, left>> \in Stages /\ k \in 1..targets
        /\ left \in 1..Parts /\ part \in Nat /\ R(k) \in Nat
        /\ \A b, x, hi \in Int : x <= hi /\ b <= (Parts - t.left) * hi
                                 => b + part * x <= (Parts - left) * hi
    BY <1>1, NextStage
  <1>4. u = [t EXCEPT !.taken = k, !.at = count + 1, !.left = left, !.booked = sum, !.stop = stop]
    OBVIOUS
  <1>5. R(k) <= c.best
    OBVIOUS
  <1> HIDE DEF k, part, left
  <1>6. sum \in Int /\ 0 <= sum
    <2>1. part * R(k) \in Nat
      BY <1>3
    <2> QED
      BY <1>1, <1>2, <2>1
  <1>7. q.whole => R(k) <= q.best /\ sum <= (Parts - left) * q.best
    <2>1. q.whole => R(k) <= q.best
      BY <1>2, <1>3, <1>5
    <2>2. R(k) \in Int
      BY <1>3
    <2> QED
      BY <1>1, <1>2, <1>3, <2>1, <2>2
  <1>8. /\ stop \in Int /\ stop <= q.at
        /\ -(IF k < targets THEN R(1) ELSE HalfR(3)) <= stop
    <2>1. Quarter \in Nat /\ R(1) = 4 * Quarter /\ HalfR(3) = 6 * Quarter
      BY Units
    <2>2. k \in Int /\ targets \in Int /\ k <= targets
      BY <1>3
    <2>3. t.stop <= q.at
      BY <1>2
    <2>4. CASE k = targets
      BY <1>1, <1>2, <2>1, <2>2, <2>3, <2>4
    <2>5. CASE k # targets
      BY <1>1, <1>2, <2>1, <2>2, <2>3, <2>5
    <2> QED
      BY <2>4, <2>5
  <1> HIDE DEF sum, stop
  <1>9. /\ u \in Trades /\ u.taken = k /\ u.left = left /\ u.booked = sum /\ u.stop = stop
        /\ u.be = t.be /\ u.best = t.best
    <2>1. k \in Nat /\ count + 1 \in Nat /\ left \in 0..Parts
      BY <1>3 DEF Parts
    <2> QED
      BY <1>1, <1>4, <1>6, <1>8, <2>1 DEF Trades
  <1>10. u.left # 0 /\ u.taken \in 0..targets
    <2>1. k \in 0..targets /\ left # 0
      BY <1>3
    <2> QED
      BY <1>9, <2>1
  <1> QED
    BY <1>1, <1>3, <1>6, <1>7, <1>8, <1>9, <1>10 DEF PartSound

LEMMA PartSteps ==
    ASSUME NEW t, NEW targets \in {1, 2, 3}, NEW p, NEW c, NEW q, Leads(c, p, q),
           PartSound(t, targets, p), IsOpen(t), count \in Nat
    PROVE  PartSound(PartialExit(t, c, targets, PartOf[targets]), targets, q)
  <1>1. /\ PartReady(t, targets, q) /\ (q.whole => t.best <= p.best)
        /\ t.stop \in Int /\ q.best \in Int /\ c.worst \in Int /\ c.best \in Int
        /\ q.whole => 0 <= q.best
    BY PartOpen
  <1>2. t \in Trades /\ t.taken \in 0..targets
    BY <1>1 DEF PartReady
  <1>3. CASE t.taken = targets
    <2> DEFINE v == SeeBest(t, c)
    <2>1. HalfR(4) \in Nat
      BY Units
    <2>2. PICK w \in Trades :
              /\ Trail(t, c, 4) = CheckStop(w, c)
              /\ w.left = t.left /\ w.booked = t.booked /\ w.be = t.be /\ w.best = v.best
              /\ w.taken = t.taken
              /\ w.stop = IF v.best > t.best /\ t.stop < v.best - HalfR(4)
                          THEN v.best - HalfR(4) ELSE t.stop
              /\ q.whole => w.best <= q.best
      BY <1>1, <1>2, <2>1, TrailMoves
    <2> HIDE DEF v
    <2>3. w.best \in Nat /\ w.stop \in Int /\ t.stop <= w.stop
      <3>1. w.best \in Nat /\ w.stop \in Int
        BY DEF Trades
      <3> QED
        BY <1>1, <2>1, <2>2, <3>1
    <2>4. q.whole => w.stop <= q.best
      <3>1. q.whole => t.stop <= q.best
        BY <1>1 DEF PartReady
      <3> QED
        BY <1>1, <2>1, <2>2, <2>3, <3>1
    <2>5. -(IF w.taken < targets THEN R(1) ELSE HalfR(3)) <= w.stop
      <3>1. -HalfR(3) <= t.stop /\ HalfR(3) \in Int
        BY <1>1, <1>3, Units DEF PartReady
      <3> QED
        BY <1>1, <1>3, <2>2, <2>3, <3>1
    <2>6. PartReady(w, targets, q)
      BY <1>1, <2>2, <2>4, <2>5 DEF PartReady
    <2>7. PartSound(CheckStop(w, c), targets, q)
      BY <2>6, PartStopChecked
    <2> QED
      BY <1>3, <2>2, <2>7 DEF PartialExit, AtrTrail
  <1>4. CASE t.taken # targets
    <2> DEFINE u == CheckStop(t, c)
    <2>1. PartSound(u, targets, q) /\ (IsOpen(u) => u = t /\ t.stop < c.worst)
      BY <1>1, PartStopChecked
    <2>2. t.taken < targets
      BY <1>2, <1>4
    <2>3. CASE IsOpen(u) /\ c.best >= R(t.taken + 1)
      <3>1. PartialExit(t, c, targets, PartOf[targets]) =
              [t EXCEPT !.taken = @ + 1, !.at = count + 1, !.left = @ - PartOf[targets],
                        !.booked = @ + PartOf[targets] * R(t.taken + 1),
                        !.stop = IF t.taken + 1 = targets THEN -HalfR(3) ELSE @]
        BY <1>4, <2>1, <2>3 DEF PartialExit
      <3>2. t.stop < c.worst /\ c.best >= R(t.taken + 1)
        BY <2>1, <2>3
      <3> QED
        BY <1>1, <2>2, <3>1, <3>2, TargetHit
    <2>4. CASE ~(IsOpen(u) /\ c.best >= R(t.taken + 1))
      <3>1. PartialExit(t, c, targets, PartOf[targets]) = u
        BY <1>4, <2>4 DEF PartialExit
      <3> QED
        BY <2>1, <3>1
    <2> QED
      BY <2>3, <2>4
  <1> QED
    BY <1>3, <1>4

(* A trade that is over keeps its result along the path.                   *)
Extends(p, q) ==
    /\ OnPath(p) /\ OnPath(q)
    /\ q.whole => p.whole /\ q.worst <= p.worst /\ p.best <= q.best

LEMMA BoundedKeeps ==
    ASSUME NEW t \in Trades, NEW first \in Int, NEW p, NEW q, Extends(p, q), Bounded(t, first, p)
    PROVE  Bounded(t, first, q)
  <1>1. /\ p.worst \in Int /\ p.best \in Int /\ q.worst \in Int /\ q.best \in Int
        /\ t.booked \in Int
        /\ (q.whole => p.whole /\ q.worst <= p.worst /\ p.best <= q.best)
    BY DEF Extends, OnPath, Paths, Trades
  <1> QED
    BY <1>1 DEF Bounded, Parts

LEMMA ClosedKeeps ==
    ASSUME NEW t, ~IsOpen(t), NEW p, NEW q, Extends(p, q)
    PROVE  /\ \A first \in Int : Sound(t, first, p) => Sound(t, first, q)
           /\ \A targets \in Nat : PartSound(t, targets, p) => PartSound(t, targets, q)
           /\ FreeSound(t, p) => FreeSound(t, q)
  <1>1. t \in Trades => t.left = 0
    BY DEF IsOpen, Trades
  <1>2. ASSUME NEW first \in Int, Sound(t, first, p) PROVE Sound(t, first, q)
    <2>1. t \in Trades /\ t.left = 0 /\ Bounded(t, first, p)
      BY <1>1, <1>2 DEF Sound
    <2>2. Bounded(t, first, q)
      BY <2>1, BoundedKeeps
    <2> QED
      BY <2>1, <2>2 DEF Sound, Parts
  <1>3. ASSUME NEW targets \in Nat, PartSound(t, targets, p) PROVE PartSound(t, targets, q)
    <2>1. t \in Trades /\ t.left = 0 /\ Bounded(t, -R(1), p)
      BY <1>1, <1>3 DEF PartSound
    <2>2. -R(1) \in Int
      BY Units
    <2>3. Bounded(t, -R(1), q)
      BY <2>1, <2>2, BoundedKeeps
    <2> QED
      BY <1>3, <2>1, <2>3 DEF PartSound
  <1>4. ASSUME FreeSound(t, p) PROVE FreeSound(t, q)
    <2>1. t \in Trades /\ t.left = 0
      BY <1>1, <1>4 DEF FreeSound
    <2>2. /\ p.worst \in Int /\ p.best \in Int /\ q.worst \in Int /\ q.best \in Int
          /\ t.booked \in Int
          /\ (q.whole => p.whole /\ q.worst <= p.worst /\ p.best <= q.best)
      BY <2>1 DEF Extends, OnPath, Paths, Trades
    <2> QED
      BY <1>4, <2>1, <2>2 DEF FreeSound, Parts
  <1> QED
    BY <1>2, <1>3, <1>4

(* What is open at the end of the day is settled.                          *)
LEMMA WholeEnds ==
    ASSUME NEW t, NEW first \in Int, NEW p, OnPath(p), Sound(t, first, p), IsOpen(t)
    PROVE  Sound(CloseAt(t, p.at), first, p) /\ ~IsOpen(CloseAt(t, p.at))
           /\ CloseAt(t, p.at).be = t.be
  <1>1. /\ t \in Trades /\ t.left = Parts /\ t.booked = 0 /\ first <= t.stop /\ t.stop <= p.at
        /\ (t.be => 0 <= t.stop)
    BY DEF Sound, IsOpen, Parts, Trades
  <1>2. p \in Paths /\ p.at \in Int /\ (p.whole => p.worst <= p.at /\ p.at <= p.best)
    BY DEF OnPath, Paths
  <1>3. first <= p.at /\ (t.be => 0 <= p.at)
    BY <1>1, <1>2 DEF Trades
  <1> QED
    BY <1>1, <1>2, <1>3, ClosedSound

LEMMA FreeEnds ==
    ASSUME NEW t, NEW p, OnPath(p), FreeSound(t, p), IsOpen(t)
    PROVE  FreeSound(CloseAt(t, p.at), p) /\ ~IsOpen(CloseAt(t, p.at))
  <1>1. p \in Paths /\ p.at \in Int /\ (p.whole => p.worst <= p.at /\ p.at <= p.best)
    BY DEF OnPath, Paths
  <1> QED
    BY <1>1, FreeCloses

LEMMA PartEnds ==
    ASSUME NEW t, NEW targets \in {1, 2, 3}, NEW p, OnPath(p), PartSound(t, targets, p),
           IsOpen(t), NEW price,
           price \in {p.at, IF t.taken = targets THEN R(t.taken) ELSE 0}
    PROVE  PartSound(CloseAt(t, price), targets, p) /\ ~IsOpen(CloseAt(t, price))
  <1>1. /\ t \in Trades /\ ~t.be /\ t.taken \in 0..targets
        /\ <<targets, t.taken, t.left>> \in Stages /\ t.stop <= p.at /\ 0 <= t.booked
        /\ -(IF t.taken < targets THEN R(1) ELSE HalfR(3)) <= t.stop
        /\ p.whole => /\ t.best <= p.best /\ R(t.taken) <= p.best
                      /\ t.booked <= (Parts - t.left) * p.best
    BY DEF PartSound, IsOpen
  <1>2. /\ p \in Paths /\ p.at \in Int /\ p.worst \in Int /\ p.best \in Int
        /\ p.whole => p.worst <= p.at /\ p.at <= p.best /\ p.worst <= 0 /\ 0 <= p.best
    BY DEF OnPath, Paths
  <1>3. t.stop \in Int /\ R(1) \in Nat /\ HalfR(3) \in Nat
    BY <1>1, Units DEF Trades
  <1>4. t.taken = targets => R(t.taken) \in Nat
    BY Units
  <1>5. /\ price \in Int /\ -(IF t.taken < targets THEN R(1) ELSE HalfR(3)) <= price
        /\ p.whole => p.worst <= price /\ price <= p.best
    <2>1. CASE price = p.at
      BY <1>1, <1>2, <1>3, <2>1
    <2>2. CASE price # p.at
      BY <1>1, <1>2, <1>3, <1>4, <2>2
    <2> QED
      BY <2>1, <2>2
  <1> QED
    BY <1>1, <1>2, <1>5, PartCloses

-----------------------------------------------------------------------------
(* The models by kind.                                                     *)
Indicators == {"ema_trail", "vwap_cross", "ema20_cross", "rsi_70_exit", "ema_9_21_xover"}

BeModels ==
    {"be_tight_trail", "be_atr_trail", "be_wide_trail", "be_ema_trail", "be_rr2_target",
     "be_rr3_target"}

HalfModels ==
    Indicators \cup BeModels \cup
    {"atr_stop", "atr_trail", "swing_trail", "step_trail_1r", "step_trail_05r",
     "delayed_chand_2x", "delayed_chand_3x"}

Whole == HalfModels \cup {"rr1", "rr2", "rr3", "chandelier_2x", "chandelier_3x"}

Partials == {"partial_a", "partial_b", "partial_c"}

LEMMA FirstStops ==
    /\ DOMAIN FirstStop = Whole \cup Partials
    /\ \A m \in HalfModels : FirstStop[m] = -HalfR(3)
    /\ \A m \in {"rr1", "rr2", "rr3"} \cup Partials : FirstStop[m] = -R(1)
    /\ FirstStop["chandelier_2x"] = -R(2) /\ FirstStop["chandelier_3x"] = -R(3)
    /\ \A m \in DOMAIN FirstStop : FirstStop[m] \in Int /\ FirstStop[m] <= 0
  <1>1. DOMAIN FirstStop = Whole \cup Partials
    BY DEF FirstStop, Whole, Partials, HalfModels, Indicators, BeModels
  <1>2. \A m \in HalfModels : FirstStop[m] = -HalfR(3)
    <2> TAKE m \in HalfModels
    <2>1. /\ m \in DOMAIN FirstStop
          /\ m \notin {"rr1", "rr2", "rr3", "partial_a", "partial_b", "partial_c"}
          /\ m # "chandelier_2x" /\ m # "chandelier_3x"
      BY <1>1 DEF Whole, HalfModels, Indicators, BeModels
    <2> QED
      BY <2>1 DEF FirstStop
  <1>3. \A m \in {"rr1", "rr2", "rr3"} \cup Partials : FirstStop[m] = -R(1)
    BY DEF FirstStop, Partials
  <1>4. FirstStop["chandelier_2x"] = -R(2) /\ FirstStop["chandelier_3x"] = -R(3)
    BY DEF FirstStop
  <1>5. /\ HalfR(3) \in Nat /\ R(1) \in Nat /\ R(2) \in Nat /\ R(3) \in Nat
    BY Units
  <1>6. \A m \in DOMAIN FirstStop : FirstStop[m] \in Int /\ FirstStop[m] <= 0
    <2> TAKE m \in DOMAIN FirstStop
    <2>1. \/ m \in HalfModels \/ m \in {"rr1", "rr2", "rr3"} \cup Partials
          \/ m = "chandelier_2x" \/ m = "chandelier_3x"
      BY <1>1 DEF Whole
    <2>2. \/ FirstStop[m] = -HalfR(3) \/ FirstStop[m] = -R(1) \/ FirstStop[m] = -R(2)
          \/ FirstStop[m] = -R(3)
      BY <1>2, <1>3, <1>4, <2>1
    <2> QED
      BY <1>5, <2>2
  <1> QED
    BY <1>1, <1>2, <1>3, <1>4, <1>6

LEMMA ModelsByKind ==
    /\ Models = Whole \cup Partials \cup Unstopped
    /\ Whole \cap Partials = {} /\ Whole \cap Unstopped = {} /\ Partials \cap Unstopped = {}
    /\ BeModels \subseteq Whole /\ HalfModels \subseteq Whole
    /\ DOMAIN Targets = Partials
    /\ Targets["partial_a"] = 1 /\ Targets["partial_b"] = 2 /\ Targets["partial_c"] = 3
  <1>1. Models = Whole \cup Partials \cup Unstopped
    BY FirstStops DEF Models
  <1>2. Whole \cap Partials = {} /\ Whole \cap Unstopped = {} /\ Partials \cap Unstopped = {}
    BY DEF Whole, HalfModels, Indicators, BeModels, Partials, Unstopped
  <1>3. BeModels \subseteq Whole /\ HalfModels \subseteq Whole
    BY DEF Whole, HalfModels
  <1>4. /\ DOMAIN Targets = Partials
        /\ Targets["partial_a"] = 1 /\ Targets["partial_b"] = 2 /\ Targets["partial_c"] = 3
    BY DEF Targets, Partials
  <1> QED
    BY <1>1, <1>2, <1>3, <1>4

(* What each model makes of a candle.                                      *)
LEMMA AfterIs ==
    ASSUME NEW t, NEW c
    PROVE  /\ After("rr1", t, c) = RrExit(t, c, 1)
           /\ After("rr2", t, c) = RrExit(t, c, 2)
           /\ After("rr3", t, c) = RrExit(t, c, 3)
           /\ After("atr_stop", t, c) = FixedStop(t, c)
           /\ After("atr_trail", t, c) = Trail(t, c, 4)
           /\ After("chandelier_2x", t, c) = Trail(t, c, 4)
           /\ After("chandelier_3x", t, c) = Trail(t, c, 6)
           /\ After("swing_trail", t, c) = SwingTrail(t, c)
           /\ \A m \in Indicators : After(m, t, c) = IndicatorExit(t, c)
           /\ After("be_tight_trail", t, c) = BeTrail(t, c, 2)
           /\ After("be_atr_trail", t, c) = BeTrail(t, c, 4)
           /\ After("be_wide_trail", t, c) = BeTrail(t, c, 6)
           /\ After("be_ema_trail", t, c) = BeEmaTrail(t, c)
           /\ After("be_rr2_target", t, c) = BeRrTarget(t, c, 2)
           /\ After("be_rr3_target", t, c) = BeRrTarget(t, c, 3)
           /\ After("step_trail_1r", t, c) = StepTrail(t, c, 2)
           /\ After("step_trail_05r", t, c) = StepTrail(t, c, 1)
           /\ After("delayed_chand_2x", t, c) = DelayedChandelier(t, c, 2)
           /\ After("delayed_chand_3x", t, c) = DelayedChandelier(t, c, 3)
           /\ After("partial_a", t, c) = PartialExit(t, c, 1, 6)
           /\ After("partial_b", t, c) = PartialExit(t, c, 2, 4)
           /\ After("partial_c", t, c) = PartialExit(t, c, 3, 3)
           /\ \A m \in Unstopped : \E when \in BOOLEAN :
                 After(m, t, c) = OutAtClose(t, c, when) \/ After(m, t, c) = t
  <1>1. /\ After("rr1", t, c) = RrExit(t, c, 1)
        /\ After("rr2", t, c) = RrExit(t, c, 2)
        /\ After("rr3", t, c) = RrExit(t, c, 3)
    BY DEF After
  <1>2. /\ After("atr_stop", t, c) = FixedStop(t, c)
        /\ After("atr_trail", t, c) = Trail(t, c, 4)
        /\ After("swing_trail", t, c) = SwingTrail(t, c)
    BY DEF After, AtrTrail
  <1>3. /\ After("chandelier_2x", t, c) = Trail(t, c, 4)
        /\ After("chandelier_3x", t, c) = Trail(t, c, 6)
    <2>1. 2 * 2 = 4 /\ 2 * 3 = 6
      OBVIOUS
    <2>2. /\ After("chandelier_2x", t, c) = ChandelierExit(t, c, 2)
          /\ After("chandelier_3x", t, c) = ChandelierExit(t, c, 3)
      BY DEF After
    <2> QED
      BY <2>1, <2>2 DEF ChandelierExit
  <1>4. \A m \in Indicators : After(m, t, c) = IndicatorExit(t, c)
    <2>1. /\ After("ema_trail", t, c) = IndicatorExit(t, c)
          /\ After("vwap_cross", t, c) = IndicatorExit(t, c)
          /\ After("ema20_cross", t, c) = IndicatorExit(t, c)
      BY DEF After, EmaTrail, VwapCross, EmaCross
    <2>2. /\ After("rsi_70_exit", t, c) = IndicatorExit(t, c)
          /\ After("ema_9_21_xover", t, c) = IndicatorExit(t, c)
      BY DEF After, RsiExtreme, EmaCrossover
    <2> QED
      BY <2>1, <2>2 DEF Indicators
  <1>5. /\ After("be_tight_trail", t, c) = BeTrail(t, c, 2)
        /\ After("be_atr_trail", t, c) = BeTrail(t, c, 4)
        /\ After("be_wide_trail", t, c) = BeTrail(t, c, 6)
    BY DEF After
  <1>6. /\ After("be_ema_trail", t, c) = BeEmaTrail(t, c)
        /\ After("be_rr2_target", t, c) = BeRrTarget(t, c, 2)
        /\ After("be_rr3_target", t, c) = BeRrTarget(t, c, 3)
    BY DEF After
  <1>7. /\ After("step_trail_1r", t, c) = StepTrail(t, c, 2)
        /\ After("step_trail_05r", t, c) = StepTrail(t, c, 1)
    BY DEF After
  <1>8. /\ After("delayed_chand_2x", t, c) = DelayedChandelier(t, c, 2)
        /\ After("delayed_chand_3x", t, c) = DelayedChandelier(t, c, 3)
    BY DEF After
  <1>9. /\ After("partial_a", t, c) = PartialExit(t, c, 1, 6)
        /\ After("partial_b", t, c) = PartialExit(t, c, 2, 4)
        /\ After("partial_c", t, c) = PartialExit(t, c, 3, 3)
    <2>1. Parts \div 2 = 6 /\ Parts \div 3 = 4 /\ Parts \div 4 = 3
      BY DEF Parts
    <2>2. /\ After("partial_a", t, c) = PartialA(t, c)
          /\ After("partial_b", t, c) = PartialB(t, c)
          /\ After("partial_c", t, c) = PartialC(t, c)
      BY DEF After
    <2> QED
      BY <2>1, <2>2, ModelsByKind DEF PartialA, PartialB, PartialC
  <1>10. \A m \in Unstopped : \E when \in BOOLEAN :
            After(m, t, c) = OutAtClose(t, c, when) \/ After(m, t, c) = t
    <2>1. After("time_exit", t, c) = OutAtClose(t, c, count + 1 = Checkpoint)
      BY DEF After, TimeExit
    <2>2. \/ After("session_exit", t, c) = OutAtClose(t, c, count + 1 = Checkpoint - 1)
          \/ After("session_exit", t, c) = t
      BY DEF After, SessionExit, TimeExit
    <2>3. After("dead_trade", t, c) = OutAtClose(t, c, count + 1 = Checkpoint /\ c.close <= 0)
      BY DEF After, DeadTradeExit
    <2>4. /\ (count + 1 = Checkpoint) \in BOOLEAN /\ (count + 1 = Checkpoint - 1) \in BOOLEAN
          /\ (count + 1 = Checkpoint /\ c.close <= 0) \in BOOLEAN
      OBVIOUS
    <2> TAKE m \in Unstopped
    <2>5. CASE m = "time_exit"
      BY <2>1, <2>4, <2>5
    <2>6. CASE m = "session_exit"
      BY <2>2, <2>4, <2>6
    <2>7. CASE m = "dead_trade"
      BY <2>3, <2>4, <2>7
    <2> QED
      BY <2>5, <2>6, <2>7 DEF Unstopped
  <1> QED
    BY <1>1, <1>2, <1>3, <1>4, <1>5, <1>6, <1>7, <1>8, <1>9, <1>10

(* Any model with a stop that never sells a part, for one more candle.     *)
LEMMA WholeAfter ==
    ASSUME NEW m \in Whole, NEW t, NEW p, NEW c, NEW q, Leads(c, p, q), c.turned \in BOOLEAN,
           Sound(t, FirstStop[m], p), IsOpen(t), m \notin BeModels => ~t.be,
           Len(lows) = Lookback => Min(ToSet(lows)) \in Int,
           p.whole /\ Len(lows) = Lookback => Min(ToSet(lows)) <= p.best
    PROVE  /\ Stepped(After(m, t, c), FirstStop[m], c, q)
           /\ m \notin BeModels => ~After(m, t, c).be
  <1> DEFINE first == FirstStop[m]
             Suits(u) == Stepped(u, first, c, q) /\ (m \notin BeModels => ~u.be)
  <1>1. first \in Int /\ first <= 0
    BY FirstStops
  <1>2. HalfR(2) \in Nat /\ HalfR(4) \in Nat /\ HalfR(6) \in Nat
    BY Units
  <1>3. m \in HalfModels => first = -HalfR(3)
    BY FirstStops
  <1> HIDE DEF first
  <1>4. CASE m \in {"rr1", "rr2", "rr3"}
    <2>1. \A r \in {1, 2, 3} : Suits(RrExit(t, c, r))
      <3> TAKE r \in {1, 2, 3}
      <3>1. Stepped(RrExit(t, c, r), first, c, q) /\ RrExit(t, c, r).be = t.be
        BY <1>1, RrSteps DEF first
      <3> QED
        BY <3>1
    <2> HIDE DEF Suits
    <2>2. Suits(After(m, t, c))
      BY <1>4, <2>1, AfterIs
    <2> QED
      BY <2>2 DEF Suits, first
  <1>5. CASE m \in {"atr_trail", "chandelier_2x", "chandelier_3x"}
    <2>1. ASSUME NEW n, HalfR(n) \in Nat PROVE Suits(Trail(t, c, n))
      <3>1. Stepped(Trail(t, c, n), first, c, q) /\ Trail(t, c, n).be = t.be
        BY <1>1, <2>1, TrailSteps DEF first
      <3> QED
        BY <3>1
    <2> HIDE DEF Suits
    <2>2. Suits(Trail(t, c, 4)) /\ Suits(Trail(t, c, 6))
      BY <1>2, <2>1
    <2>3. Suits(After(m, t, c))
      BY <1>5, <2>2, AfterIs
    <2> QED
      BY <2>3 DEF Suits, first
  <1>6. CASE m = "atr_stop"
    <2>1. Stepped(FixedStop(t, c), first, c, q) /\ FixedStop(t, c).be = t.be
      BY <1>1, FixedStopSteps DEF first
    <2> QED
      BY <1>6, <2>1, AfterIs DEF first
  <1>7. CASE m = "swing_trail"
    <2>1. Stepped(SwingTrail(t, c), first, c, q) /\ SwingTrail(t, c).be = t.be
      BY <1>1, SwingTrailSteps DEF first
    <2> QED
      BY <1>7, <2>1, AfterIs DEF first
  <1>8. CASE m \in Indicators
    <2>1. Stepped(IndicatorExit(t, c), first, c, q) /\ IndicatorExit(t, c).be = t.be
      BY <1>1, IndicatorSteps DEF first
    <2> QED
      BY <1>8, <2>1, AfterIs DEF first
  <1>9. CASE m \in {"step_trail_1r", "step_trail_05r"}
    <2>1. m \in HalfModels /\ m \notin BeModels
      BY <1>9 DEF HalfModels, BeModels
    <2>2. \A n \in {1, 2} : Suits(StepTrail(t, c, n))
      <3> TAKE n \in {1, 2}
      <3>1. Sound(t, -HalfR(3), p) /\ ~t.be
        BY <1>3, <2>1 DEF first
      <3>2. Stepped(StepTrail(t, c, n), -HalfR(3), c, q) /\ ~StepTrail(t, c, n).be
        BY <3>1, StepTrailSteps
      <3> QED
        BY <1>3, <2>1, <3>2
    <2> HIDE DEF Suits
    <2>3. Suits(After(m, t, c))
      BY <1>9, <2>2, AfterIs
    <2> QED
      BY <2>3 DEF Suits, first
  <1>10. CASE m \in {"delayed_chand_2x", "delayed_chand_3x"}
    <2>1. m \in HalfModels /\ m \notin BeModels
      BY <1>10 DEF HalfModels, BeModels
    <2>2. \A r \in {2, 3} : Suits(DelayedChandelier(t, c, r))
      <3> TAKE r \in {2, 3}
      <3>1. Sound(t, -HalfR(3), p) /\ ~t.be
        BY <1>3, <2>1 DEF first
      <3>2. /\ Stepped(DelayedChandelier(t, c, r), -HalfR(3), c, q)
            /\ ~DelayedChandelier(t, c, r).be
        BY <3>1, DelayedSteps
      <3> QED
        BY <1>3, <2>1, <3>2
    <2> HIDE DEF Suits
    <2>3. Suits(After(m, t, c))
      BY <1>10, <2>2, AfterIs
    <2> QED
      BY <2>3 DEF Suits, first
  <1>11. CASE m \in BeModels
    <2>1. ASSUME NEW n, HalfR(n) \in Nat PROVE Stepped(BeTrail(t, c, n), first, c, q)
      BY <1>1, <2>1, BeTrailSteps DEF first
    <2>2. /\ Stepped(BeTrail(t, c, 2), first, c, q) /\ Stepped(BeTrail(t, c, 4), first, c, q)
          /\ Stepped(BeTrail(t, c, 6), first, c, q)
      BY <1>2, <2>1
    <2>3. \A r \in {2, 3} : Stepped(BeRrTarget(t, c, r), first, c, q)
      BY <1>1, BeRrTargetSteps DEF first
    <2>4. Stepped(BeEmaTrail(t, c), first, c, q)
      BY <1>1, BeEmaTrailSteps DEF first
    <2>5. Stepped(After(m, t, c), first, c, q)
      <3>1. CASE m \in {"be_tight_trail", "be_atr_trail", "be_wide_trail"}
        BY <2>2, <3>1, AfterIs
      <3>2. CASE m \in {"be_ema_trail", "be_rr2_target", "be_rr3_target"}
        BY <2>3, <2>4, <3>2, AfterIs
      <3> QED
        BY <1>11, <3>1, <3>2 DEF BeModels
    <2> QED
      BY <1>11, <2>5 DEF first
  <1> QED
    BY <1>4, <1>5, <1>6, <1>7, <1>8, <1>9, <1>10, <1>11 DEF Whole, HalfModels

LEMMA PartAfter ==
    ASSUME NEW m \in Partials, NEW t, NEW p, NEW c, NEW q, Leads(c, p, q),
           PartSound(t, Targets[m], p), IsOpen(t), count \in Nat
    PROVE  PartSound(After(m, t, c), Targets[m], q)
  <1>1. PartOf[1] = 6 /\ PartOf[2] = 4 /\ PartOf[3] = 3
    BY DEF PartOf
  <1>2. \A k \in {1, 2, 3} : PartSound(t, k, p)
                             => PartSound(PartialExit(t, c, k, PartOf[k]), k, q)
    BY PartSteps
  <1>3. CASE m = "partial_a"
    BY <1>1, <1>2, <1>3, ModelsByKind, AfterIs
  <1>4. CASE m = "partial_b"
    BY <1>1, <1>2, <1>4, ModelsByKind, AfterIs
  <1>5. CASE m = "partial_c"
    BY <1>1, <1>2, <1>5, ModelsByKind, AfterIs
  <1> QED
    BY <1>3, <1>4, <1>5 DEF Partials

LEMMA FreeAfter ==
    ASSUME NEW m \in Unstopped, NEW t, NEW p, NEW c, NEW q, Leads(c, p, q), FreeSound(t, p),
           IsOpen(t)
    PROVE  FreeSound(After(m, t, c), q)
  <1>1. PICK when \in BOOLEAN : After(m, t, c) = OutAtClose(t, c, when) \/ After(m, t, c) = t
    BY AfterIs
  <1>2. FreeSound(OutAtClose(t, c, when), q)
    BY FreeSteps
  <1>3. OutAtClose(t, c, FALSE) = t
    BY DEF OutAtClose
  <1>4. FreeSound(OutAtClose(t, c, FALSE), q)
    BY FreeSteps
  <1> QED
    BY <1>1, <1>2, <1>3, <1>4

-----------------------------------------------------------------------------
(* What holds of the path so far and of every model on it.                 *)
Below(p) == {x \in Int : p.whole => x <= p.best}

PathKept ==
    /\ OnPath(Path) /\ count \in 0..PathLength /\ done \in BOOLEAN
    /\ lows \in Seq(Below(Path)) /\ Len(lows) = Min({count, Lookback})
    /\ count = 0 => last = 0 /\ range.worst = 0 /\ range.best = 0

LEMMA LowsGrow ==
    ASSUME NEW S, NEW T, S \subseteq T, NEW s \in Seq(S), NEW x \in T, NEW n \in Nat, n # 0
    PROVE  LET all == Append(s, x)
               new == IF Len(all) > n THEN Tail(all) ELSE all
           IN  /\ new \in Seq(T)
               /\ \A k \in Nat : Len(s) = (IF k <= n THEN k ELSE n)
                                 => Len(new) = (IF k + 1 <= n THEN k + 1 ELSE n)
  <1> DEFINE all == Append(s, x)
             new == IF Len(all) > n THEN Tail(all) ELSE all
  <1>1. s \in Seq(T) /\ Len(s) \in Nat
    <2>1. s \in [1..Len(s) -> T] /\ Len(s) \in Nat
      OBVIOUS
    <2> QED
      BY <2>1
  <1>2. all \in Seq(T) /\ Len(all) = Len(s) + 1
    BY <1>1
  <1> HIDE DEF all
  <1>3. all # <<>>
    BY <1>1, <1>2
  <1>4. Tail(all) \in Seq(T) /\ Len(Tail(all)) = Len(s)
    BY <1>1, <1>2, <1>3
  <1>5. new \in Seq(T)
    BY <1>2, <1>4
  <1>6. ASSUME NEW k \in Nat, Len(s) = (IF k <= n THEN k ELSE n)
        PROVE  Len(new) = (IF k + 1 <= n THEN k + 1 ELSE n)
    <2>1. CASE Len(s) + 1 > n
      BY <1>1, <1>2, <1>4, <1>6, <2>1
    <2>2. CASE ~(Len(s) + 1 > n)
      BY <1>1, <1>2, <1>6, <2>2
    <2> QED
      BY <2>1, <2>2
  <1> QED
    BY <1>5, <1>6 DEF all

LEMMA CandleLeads ==
    ASSUME PathKept, NEW c \in Candles, Candle(c)
    PROVE  /\ Leads(c, Path, Path') /\ Extends(Path, Path') /\ PathKept'
           /\ c.turned \in BOOLEAN /\ count \in Nat
           /\ Len(lows) = Lookback => Min(ToSet(lows)) \in Int
           /\ Path.whole /\ Len(lows) = Lookback => Min(ToSet(lows)) <= Path.best
  <1>1. /\ last \in Int /\ range.worst \in Int /\ range.best \in Int /\ gapless \in BOOLEAN
        /\ gapless => range.worst <= last /\ last <= range.best
                      /\ range.worst <= 0 /\ 0 <= range.best
        /\ count \in Nat /\ count <= PathLength
    BY ExitModelAssumption DEF PathKept, OnPath, Paths, Path
  <1>2. PICK s \in Shapes, b \in BOOLEAN :
            c = [worst |-> last + s[1], best |-> last + s[2], close |-> last + s[3], turned |-> b]
    BY DEF Candles
  <1>3. IsCandle(c) /\ c.turned \in BOOLEAN
    <2>1. {s[1], s[2], s[3]} \subseteq Int /\ s[1] <= s[3] /\ s[3] <= s[2]
      BY ExitModelAssumption
    <2>2. s[1] \in Int /\ s[2] \in Int /\ s[3] \in Int
      BY <2>1
    <2> QED
      BY <1>1, <1>2, <2>1, <2>2 DEF IsCandle
  <1>4. /\ last' = c.close /\ count' = count + 1 /\ count < PathLength /\ done' = done
        /\ gapless' = (gapless /\ c.worst <= last /\ last <= c.best)
    BY DEF Candle
  <1>5. /\ range'.worst = IF count = 0 THEN c.worst
                          ELSE IF range.worst <= c.worst THEN range.worst ELSE c.worst
        /\ range'.best = IF count = 0 THEN c.best
                         ELSE IF range.best >= c.best THEN range.best ELSE c.best
    <2>1. c.worst \in Int /\ c.best \in Int
      BY <1>3 DEF IsCandle
    <2>2. /\ Min({range.worst, c.worst}) = IF range.worst <= c.worst THEN range.worst ELSE c.worst
          /\ Max({range.best, c.best}) = IF range.best >= c.best THEN range.best ELSE c.best
      BY <1>1, <2>1, MinOfTwo, MaxOfTwo
    <2>3. range' = IF count = 0 THEN [worst |-> c.worst, best |-> c.best]
                   ELSE [worst |-> Min({range.worst, c.worst}), best |-> Max({range.best, c.best})]
      BY DEF Candle
    <2> QED
      BY <2>2, <2>3
  <1>6. count = 0 => last = 0 /\ range.worst = 0 /\ range.best = 0
    BY DEF PathKept
  <1>7. /\ last' \in Int /\ range'.worst \in Int /\ range'.best \in Int /\ gapless' \in BOOLEAN
        /\ range'.worst <= c.worst /\ c.best <= range'.best
        /\ gapless' => /\ gapless /\ c.worst <= last /\ last <= c.best
                       /\ range'.worst <= range.worst /\ range.best <= range'.best
                       /\ range'.worst <= last' /\ last' <= range'.best
                       /\ range'.worst <= 0 /\ 0 <= range'.best
    <2>1. /\ c.worst \in Int /\ c.best \in Int /\ c.close \in Int
          /\ c.worst <= c.close /\ c.close <= c.best
      BY <1>3 DEF IsCandle
    <2>2. gapless' \in BOOLEAN /\ last' \in Int
      BY <1>4, <2>1
    <2>3. gapless' => gapless /\ c.worst <= last /\ last <= c.best
      BY <1>4
    <2>4. CASE count = 0
      <3>1. range'.worst = c.worst /\ range'.best = c.best
        BY <1>5, <2>4
      <3> QED
        BY <1>1, <1>4, <1>6, <2>1, <2>2, <2>3, <2>4, <3>1
    <2>5. CASE count # 0
      <3>1. /\ range'.worst = (IF range.worst <= c.worst THEN range.worst ELSE c.worst)
            /\ range'.best = (IF range.best >= c.best THEN range.best ELSE c.best)
        BY <1>5, <2>5
      <3>2. /\ range'.worst \in Int /\ range'.best \in Int
            /\ range'.worst <= c.worst /\ c.best <= range'.best
            /\ range'.worst <= range.worst /\ range.best <= range'.best
        BY <1>1, <2>1, <3>1
      <3> QED
        BY <1>1, <1>4, <2>1, <2>2, <2>3, <3>2
    <2> QED
      BY <2>4, <2>5
  <1>8. OnPath(Path) /\ OnPath(Path')
    <2>1. Path' \in Paths
      BY <1>7 DEF Path, Paths
    <2> QED
      BY <1>7, <2>1 DEF PathKept, OnPath, Path
  <1>9. Leads(c, Path, Path') /\ Extends(Path, Path')
    <2>1. /\ Path'.at = last' /\ Path'.worst = range'.worst /\ Path'.best = range'.best
          /\ Path'.whole = gapless' /\ Path.at = last /\ Path.worst = range.worst
          /\ Path.best = range.best /\ Path.whole = gapless
      BY DEF Path
    <2> QED
      BY <1>3, <1>4, <1>7, <1>8, <2>1 DEF Leads, Extends
  <1>10. lows' \in Seq(Below(Path')) /\ Len(lows') = Min({count + 1, Lookback})
    <2>1. Below(Path) \subseteq Below(Path')
      BY <1>1, <1>7 DEF Below, Path
    <2>2. c.worst \in Below(Path')
      <3>1. c.worst \in Int /\ c.worst <= c.best /\ c.best \in Int
        BY <1>3 DEF IsCandle
      <3> QED
        BY <1>7, <3>1 DEF Below, Path
    <2>3. Lookback \in Nat /\ Lookback # 0
      BY ExitModelAssumption
    <2>4. lows' = LET all == Append(lows, c.worst)
                  IN  IF Len(all) > Lookback THEN Tail(all) ELSE all
      BY DEF Candle
    <2>5. /\ Min({count, Lookback}) = IF count <= Lookback THEN count ELSE Lookback
          /\ Min({count + 1, Lookback}) = IF count + 1 <= Lookback THEN count + 1 ELSE Lookback
      BY <1>1, <2>3, MinOfTwo
    <2>6. lows \in Seq(Below(Path)) /\ Len(lows) = IF count <= Lookback THEN count ELSE Lookback
      BY <2>5 DEF PathKept
    <2> QED
      BY <1>1, <2>1, <2>2, <2>3, <2>4, <2>5, <2>6, LowsGrow
  <1>11. PathKept'
    <2>1. count' \in 0..PathLength /\ count' # 0
      BY <1>1, <1>4, ExitModelAssumption
    <2> QED
      BY <1>4, <1>8, <1>10, <2>1 DEF PathKept
  <1>12. Len(lows) = Lookback => Min(ToSet(lows)) \in Below(Path)
    <2>1. lows \in Seq(Below(Path)) /\ Below(Path) \subseteq Int
      BY DEF PathKept, Below
    <2>2. Lookback > 0
      BY ExitModelAssumption
    <2> QED
      BY <2>1, <2>2, LowsLeast
  <1> QED
    BY <1>1, <1>3, <1>9, <1>11, <1>12 DEF Below

ModelsSound ==
    /\ DOMAIN model = Models
    /\ \A m \in Whole : Sound(model[m], FirstStop[m], Path)
    /\ \A m \in Partials : PartSound(model[m], Targets[m], Path)
    /\ \A m \in Unstopped : FreeSound(model[m], Path)
    /\ \A m \in Whole \ BeModels : ~model[m].be
    /\ done => \A m \in Models : ~IsOpen(model[m])

(* What the next candle makes of each model.                               *)
LEMMA CandleSteps ==
    ASSUME PathKept, ModelsSound, NEW c \in Candles, Candle(c)
    PROVE  /\ DOMAIN model' = Models
           /\ \A m \in Models :
                 model'[m] = IF IsOpen(model[m]) THEN After(m, model[m], c) ELSE model[m]
           /\ \A m \in Whole : IsOpen(model[m]) =>
                 Stepped(After(m, model[m], c), FirstStop[m], c, Path')
           /\ ModelsSound'
  <1>1. /\ Leads(c, Path, Path') /\ Extends(Path, Path') /\ c.turned \in BOOLEAN /\ count \in Nat
        /\ Len(lows) = Lookback => Min(ToSet(lows)) \in Int
        /\ Path.whole /\ Len(lows) = Lookback => Min(ToSet(lows)) <= Path.best
    BY CandleLeads
  <1>2. /\ DOMAIN model' = Models
        /\ \A m \in Models :
              model'[m] = IF IsOpen(model[m]) THEN After(m, model[m], c) ELSE model[m]
    BY DEF Candle
  <1>3. ASSUME NEW m \in Whole, IsOpen(model[m])
        PROVE  /\ Stepped(After(m, model[m], c), FirstStop[m], c, Path')
               /\ m \notin BeModels => ~After(m, model[m], c).be
    <2>1. Sound(model[m], FirstStop[m], Path) /\ (m \notin BeModels => ~model[m].be)
      BY DEF ModelsSound
    <2> QED
      BY <1>1, <1>3, <2>1, WholeAfter
  <1>4. \A m \in Whole : Sound(model'[m], FirstStop[m], Path')
    <2> TAKE m \in Whole
    <2>1. m \in Models /\ FirstStop[m] \in Int /\ Sound(model[m], FirstStop[m], Path)
      BY ModelsByKind, FirstStops DEF ModelsSound
    <2>2. CASE IsOpen(model[m])
      BY <1>2, <1>3, <2>1, <2>2 DEF Stepped
    <2>3. CASE ~IsOpen(model[m])
      BY <1>1, <1>2, <2>1, <2>3, ClosedKeeps
    <2> QED
      BY <2>2, <2>3
  <1>5. \A m \in Whole \ BeModels : ~model'[m].be
    <2> TAKE m \in Whole \ BeModels
    <2>1. m \in Models /\ ~model[m].be
      BY ModelsByKind DEF ModelsSound
    <2> QED
      BY <1>2, <1>3, <2>1
  <1>6. \A m \in Partials : PartSound(model'[m], Targets[m], Path')
    <2> TAKE m \in Partials
    <2>1. m \in Models /\ Targets[m] \in Nat /\ PartSound(model[m], Targets[m], Path)
      BY ModelsByKind DEF ModelsSound, Partials
    <2>2. CASE IsOpen(model[m])
      BY <1>1, <1>2, <2>1, <2>2, PartAfter
    <2>3. CASE ~IsOpen(model[m])
      BY <1>1, <1>2, <2>1, <2>3, ClosedKeeps
    <2> QED
      BY <2>2, <2>3
  <1>7. \A m \in Unstopped : FreeSound(model'[m], Path')
    <2> TAKE m \in Unstopped
    <2>1. m \in Models /\ FreeSound(model[m], Path)
      BY ModelsByKind DEF ModelsSound
    <2>2. CASE IsOpen(model[m])
      BY <1>1, <1>2, <2>1, <2>2, FreeAfter
    <2>3. CASE ~IsOpen(model[m])
      BY <1>1, <1>2, <2>1, <2>3, ClosedKeeps
    <2> QED
      BY <2>2, <2>3
  <1>8. ~done'
    BY DEF Candle
  <1>9. ModelsSound'
    BY <1>2, <1>4, <1>5, <1>6, <1>7, <1>8 DEF ModelsSound
  <1> QED
    BY <1>2, <1>3, <1>9

LEMMA EndCloses ==
    ASSUME PathKept, ModelsSound, EndOfDay
    PROVE  PathKept' /\ ModelsSound' /\ \A m \in Models : ~IsOpen(model'[m])
  <1>1. Path' = Path /\ OnPath(Path) /\ Path.at = last /\ done'
    BY DEF PathKept, EndOfDay, Path
  <1>2. /\ DOMAIN model' = Models
        /\ \A m \in Models :
              model'[m] = IF IsOpen(model[m]) THEN AtEndOfDay(m, model[m]) ELSE model[m]
    BY DEF EndOfDay
  <1>3. \A m \in Whole : /\ Sound(model'[m], FirstStop[m], Path) /\ ~IsOpen(model'[m])
                         /\ m \notin BeModels => ~model'[m].be
    <2> TAKE m \in Whole
    <2>1. /\ m \in Models /\ m \notin DOMAIN Targets /\ FirstStop[m] \in Int
          /\ Sound(model[m], FirstStop[m], Path) /\ (m \notin BeModels => ~model[m].be)
      BY ModelsByKind, FirstStops DEF ModelsSound
    <2>2. CASE IsOpen(model[m])
      <3>1. model'[m] = CloseAt(model[m], Path.at)
        BY <1>1, <1>2, <2>1, <2>2 DEF AtEndOfDay
      <3> QED
        BY <1>1, <2>1, <2>2, <3>1, WholeEnds
    <2>3. CASE ~IsOpen(model[m])
      BY <1>2, <2>1, <2>3
    <2> QED
      BY <2>2, <2>3
  <1>4. \A m \in Partials : PartSound(model'[m], Targets[m], Path) /\ ~IsOpen(model'[m])
    <2> TAKE m \in Partials
    <2> DEFINE t == model[m]
    <2>1. m \in Models /\ Targets[m] \in {1, 2, 3} /\ PartSound(t, Targets[m], Path)
      BY ModelsByKind DEF ModelsSound, Partials
    <2>2. CASE IsOpen(t)
      <3>1. PICK price \in {Path.at, IF t.taken = Targets[m] THEN R(t.taken) ELSE 0} :
                model'[m] = CloseAt(t, price)
        BY <1>1, <1>2, <2>1, <2>2 DEF AtEndOfDay
      <3> HIDE DEF t
      <3> QED
        BY <1>1, <2>1, <2>2, <3>1, PartEnds
    <2>3. CASE ~IsOpen(t)
      BY <1>2, <2>1, <2>3
    <2> QED
      BY <2>2, <2>3
  <1>5. \A m \in Unstopped : FreeSound(model'[m], Path) /\ ~IsOpen(model'[m])
    <2> TAKE m \in Unstopped
    <2>1. m \in Models /\ m \notin DOMAIN Targets /\ FreeSound(model[m], Path)
      BY ModelsByKind DEF ModelsSound
    <2>2. CASE IsOpen(model[m])
      <3>1. model'[m] = CloseAt(model[m], Path.at)
        BY <1>1, <1>2, <2>1, <2>2 DEF AtEndOfDay
      <3> QED
        BY <1>1, <2>1, <2>2, <3>1, FreeEnds
    <2>3. CASE ~IsOpen(model[m])
      BY <1>2, <2>1, <2>3
    <2> QED
      BY <2>2, <2>3
  <1>6. \A m \in Models : ~IsOpen(model'[m])
    BY <1>3, <1>4, <1>5, ModelsByKind
  <1>7. ModelsSound'
    BY <1>1, <1>2, <1>3, <1>4, <1>5, <1>6 DEF ModelsSound
  <1>8. PathKept'
    BY <1>1 DEF PathKept, EndOfDay
  <1> QED
    BY <1>6, <1>7, <1>8

LEMMA StartsSound == ExitsInit => PathKept /\ ModelsSound
  <1> SUFFICES ASSUME ExitsInit PROVE PathKept /\ ModelsSound
    OBVIOUS
  <1>1. PathKept
    <2>1. OnPath(Path)
      BY DEF ExitsInit, OnPath, Path, Paths
    <2>2. 0 \in 0..PathLength /\ Lookback \in Nat
      BY ExitModelAssumption
    <2>3. lows \in Seq(Below(Path)) /\ Len(lows) = Min({count, Lookback})
      BY <2>2, MinOfTwo DEF ExitsInit
    <2> QED
      BY <2>1, <2>2, <2>3 DEF ExitsInit, PathKept
  <1>2. /\ DOMAIN model = Models
        /\ \A m \in Models : model[m] = Started(IF m \in Unstopped THEN 0 ELSE FirstStop[m])
    BY DEF ExitsInit
  <1>3. last = 0 /\ range.best = 0 /\ gapless \in BOOLEAN /\ Path.at = 0 /\ Path.best = 0 /\ ~done
    BY DEF ExitsInit, Path
  <1>4. \A stop \in Int : /\ Started(stop) \in Trades /\ ~Started(stop).be
                          /\ Started(stop).left = 12 /\ Started(stop).taken = 0
                          /\ Started(stop).booked = 0 /\ Started(stop).best = 0
                          /\ Started(stop).stop = stop
    BY DEF Started, Trades, Parts
  <1>5. \A m \in Whole : Sound(model[m], FirstStop[m], Path) /\ ~model[m].be
    <2> TAKE m \in Whole
    <2>1. m \in Models /\ m \notin Unstopped /\ FirstStop[m] \in Int /\ FirstStop[m] <= 0
      BY ModelsByKind, FirstStops
    <2>2. model[m] = Started(FirstStop[m])
      BY <1>2, <2>1
    <2> QED
      BY <1>3, <1>4, <2>1, <2>2 DEF Sound, Parts
  <1>6. \A m \in Partials : PartSound(model[m], Targets[m], Path)
    <2> TAKE m \in Partials
    <2>1. /\ m \in Models /\ m \notin Unstopped /\ FirstStop[m] \in Int /\ FirstStop[m] <= 0
          /\ FirstStop[m] = -R(1) /\ Targets[m] \in {1, 2, 3}
      BY ModelsByKind, FirstStops DEF Partials
    <2>2. model[m] = Started(FirstStop[m])
      BY <1>2, <2>1
    <2>3. R(0) = 0
      BY ExitModelAssumption DEF R
    <2>4. <<Targets[m], 0, 12>> \in Stages /\ 0 \in 0..Targets[m] /\ 0 < Targets[m]
      BY <2>1 DEF Stages
    <2> QED
      BY <1>3, <1>4, <2>1, <2>2, <2>3, <2>4 DEF PartSound, Parts
  <1>7. \A m \in Unstopped : FreeSound(model[m], Path)
    <2> TAKE m \in Unstopped
    <2>1. m \in Models
      BY ModelsByKind
    <2>2. model[m] = Started(0)
      BY <1>2, <2>1
    <2> QED
      BY <1>4, <2>2 DEF FreeSound, Parts
  <1>8. ModelsSound
    BY <1>2, <1>3, <1>5, <1>6, <1>7 DEF ModelsSound
  <1> QED
    BY <1>1, <1>8

LEMMA ExitsPreserved ==
    ExitsSpec => [](PathKept /\ ModelsSound)
  <1>1. PathKept /\ ModelsSound /\ [ExitsNext]_exitsVars => (PathKept /\ ModelsSound)'
    <2> SUFFICES ASSUME PathKept, ModelsSound, [ExitsNext]_exitsVars
                 PROVE  PathKept' /\ ModelsSound'
      OBVIOUS
    <2>1. CASE \E c \in Candles : Candle(c)
      BY <2>1, CandleLeads, CandleSteps
    <2>2. CASE EndOfDay
      BY <2>2, EndCloses
    <2>3. CASE UNCHANGED exitsVars
      BY <2>3 DEF exitsVars, PathKept, ModelsSound, Path
    <2> QED
      BY <2>1, <2>2, <2>3 DEF ExitsNext
  <1> QED
    BY <1>1, StartsSound, PTL DEF ExitsSpec

LEMMA SoundResults ==
    ASSUME PathKept, ModelsSound
    PROVE  LossBounded /\ BreakevenLocksIn /\ WithinExcursion
  <1>1. \A m \in Whole : Sound(model[m], FirstStop[m], Path)
    BY DEF ModelsSound
  <1>2. \A m \in Partials : PartSound(model[m], Targets[m], Path)
    BY DEF ModelsSound
  <1>3. \A m \in Unstopped : FreeSound(model[m], Path)
    BY DEF ModelsSound
  <1>4. \A m \in Models : model[m] \in Trades
    BY <1>1, <1>2, <1>3, ModelsByKind DEF Sound, PartSound, FreeSound
  <1>5. \A m \in Models : ~IsOpen(model[m]) => model[m].left = 0
    BY <1>4 DEF IsOpen, Trades
  <1>6. ExitTypes
    <2>1. \A m \in Models : LET t == model[m]
                            IN  /\ t.stop \in Int /\ t.best \in Nat /\ t.booked \in Int
                                /\ t.be \in BOOLEAN /\ t.left \in 0..Parts
      BY <1>4 DEF Trades
    <2>2. \A m \in Models : m \in DOMAIN Targets => model[m].taken \in 0..Targets[m]
      BY <1>2, ModelsByKind DEF PartSound
    <2> QED
      BY <2>1, <2>2 DEF ExitTypes, PathKept
  <1>7. ASSUME NEW m \in DOMAIN FirstStop, ~IsOpen(model[m])
        PROVE  Bounded(model[m], FirstStop[m], Path)
    <2>1. model[m].left = 0
      BY <1>5, <1>7, FirstStops, ModelsByKind
    <2>2. CASE m \in Whole
      BY <1>1, <2>1, <2>2 DEF Sound
    <2>3. CASE m \in Partials
      BY <1>2, <2>1, <2>3, FirstStops DEF PartSound
    <2> QED
      BY <2>2, <2>3, FirstStops
  <1>8. LossBounded
    <2> SUFFICES ASSUME NEW m \in DOMAIN FirstStop, ~IsOpen(model[m])
                 PROVE  model[m].booked >= Parts * FirstStop[m]
      BY <1>6 DEF LossBounded
    <2>1. Parts * FirstStop[m] <= model[m].booked
      BY <1>7 DEF Bounded
    <2>2. FirstStop[m] \in Int /\ model[m].booked \in Int
      BY <1>4, FirstStops, ModelsByKind DEF Trades
    <2> QED
      BY <2>1, <2>2 DEF Parts
  <1>9. BreakevenLocksIn
    <2> SUFFICES ASSUME NEW m \in Models, model[m].be, ~IsOpen(model[m])
                 PROVE  model[m].booked >= 0
      BY DEF BreakevenLocksIn
    <2>1. m \in DOMAIN FirstStop
      BY <1>2, <1>3, FirstStops, ModelsByKind DEF PartSound, FreeSound
    <2>2. 0 <= model[m].booked
      BY <1>7, <2>1 DEF Bounded
    <2>3. model[m].booked \in Int
      BY <1>4 DEF Trades
    <2> QED
      BY <2>2, <2>3
  <1>10. WithinExcursion
    <2> SUFFICES ASSUME done, gapless, NEW m \in Models
                 PROVE  /\ Parts * range.worst <= model[m].booked
                        /\ model[m].booked <= Parts * range.best
      BY DEF WithinExcursion
    <2>1. Path.whole /\ Path.worst = range.worst /\ Path.best = range.best
      BY DEF Path
    <2>2. ~IsOpen(model[m]) /\ model[m].left = 0
      BY <1>5 DEF ModelsSound
    <2>3. CASE m \in DOMAIN FirstStop
      BY <1>7, <2>1, <2>2, <2>3 DEF Bounded
    <2>4. CASE m \in Unstopped
      BY <1>3, <2>1, <2>2, <2>4 DEF FreeSound
    <2> QED
      BY <2>3, <2>4, FirstStops, ModelsByKind
  <1> QED
    BY <1>8, <1>9, <1>10

(* A model with a stop never loses more than its first stop, whatever gaps *)
(* the path has (simulate_all_rr ... simulate_all_indicator_exits).        *)
THEOREM LossesEndAtTheStop == ExitsSpec => []LossBounded
  <1>1. PathKept /\ ModelsSound => LossBounded
    BY SoundResults
  <1> QED
    BY <1>1, ExitsPreserved, PTL

(* Once its breakeven rule fired a trade cannot lose any more              *)
(* (_simulate_be_trail, simulate_be_rr_target, simulate_be_ema_trail).     *)
THEOREM BreakevenHolds == ExitsSpec => []BreakevenLocksIn
  <1>1. PathKept /\ ModelsSound => BreakevenLocksIn
    BY SoundResults
  <1> QED
    BY <1>1, ExitsPreserved, PTL

(* On a path without gaps no model reports a result that the path did not  *)
(* offer (mae <= pnl <= mfe of _process_trade), parts sold at targets and  *)
(* what AtEndOfDay makes of the rest included.                             *)
THEOREM ResultsWerePossible == ExitsSpec => []WithinExcursion
  <1>1. PathKept /\ ModelsSound => WithinExcursion
    BY SoundResults
  <1> QED
    BY <1>1, ExitsPreserved, PTL

-----------------------------------------------------------------------------
(* The tighter of two models.  It is tied to the looser one: as long as it *)
(* is in the trade so is the other, with the same best price and breakeven *)
(* and a stop not above its own.                                           *)
Tied(t, u) == IsOpen(t) => /\ IsOpen(u) /\ u.stop <= t.stop
                           /\ u.best = t.best /\ u.be = t.be

(* An open trade of a sound model on a path.                               *)
Holds(t, p) == \E first \in Int : first <= 0 /\ Sound(t, first, p) /\ IsOpen(t)

LEMMA HeldTrade ==
    ASSUME NEW t, NEW p, Holds(t, p)
    PROVE  /\ t \in Trades /\ t.stop \in Int /\ t.best \in Nat /\ t.be \in BOOLEAN
           /\ IsOpen(t)
  BY DEF Holds, Sound, Trades

LEMMA BestOf ==
    ASSUME NEW t \in Trades, NEW c, c.best \in Int
    PROVE  SeeBest(t, c).best = IF t.best >= c.best THEN t.best ELSE c.best
  <1>1. t.best \in Int
    BY DEF Trades
  <1>2. Max({t.best, c.best}) = IF t.best >= c.best THEN t.best ELSE c.best
    BY <1>1, MaxOfTwo
  <1> QED
    BY <1>2 DEF SeeBest, Trades

LEMMA TrailHeld ==
    ASSUME NEW t, NEW p, NEW c, NEW q, Leads(c, p, q), Holds(t, p), NEW n, HalfR(n) \in Nat
    PROVE  LET u == Trail(t, c, n)
               best == IF t.best >= c.best THEN t.best ELSE c.best
               stop == IF best > t.best /\ t.stop < best - HalfR(n)
                       THEN best - HalfR(n) ELSE t.stop
           IN  /\ IsOpen(u) => u.best = best /\ u.stop = stop
               /\ IsOpen(u) <=> stop < c.worst
               /\ u.be = t.be /\ c.best \in Int /\ c.worst \in Int
  <1>1. PICK first \in Int : first <= 0 /\ Sound(t, first, p) /\ IsOpen(t)
    BY DEF Holds
  <1>2. t \in Trades /\ c.best \in Int /\ c.worst \in Int
    BY HeldTrade DEF Leads, IsCandle
  <1>3. SeeBest(t, c).best = IF t.best >= c.best THEN t.best ELSE c.best
    BY <1>2, BestOf
  <1> QED
    BY <1>1, <1>2, <1>3, TrailSteps

LEMMA TrailTied ==
    ASSUME NEW t, NEW u, NEW p, NEW c, NEW q, Leads(c, p, q), Holds(t, p), Holds(u, p),
           Tied(t, u), NEW n, NEW k, HalfR(n) \in Nat, HalfR(k) \in Nat, HalfR(n) <= HalfR(k)
    PROVE  Tied(Trail(t, c, n), Trail(u, c, k))
  <1> DEFINE v == Trail(t, c, n)
             w == Trail(u, c, k)
             best == IF t.best >= c.best THEN t.best ELSE c.best
             best2 == IF u.best >= c.best THEN u.best ELSE c.best
             stop == IF best > t.best /\ t.stop < best - HalfR(n) THEN best - HalfR(n) ELSE t.stop
             stop2 == IF best2 > u.best /\ u.stop < best2 - HalfR(k) THEN best2 - HalfR(k) ELSE u.stop
  <1>1. /\ t.stop \in Int /\ t.best \in Nat /\ u.stop \in Int /\ u.best \in Nat
        /\ u.stop <= t.stop /\ u.best = t.best /\ u.be = t.be
    BY HeldTrade DEF Tied
  <1>2. /\ IsOpen(v) => v.best = best /\ v.stop = stop
        /\ IsOpen(v) <=> stop < c.worst
        /\ v.be = t.be /\ c.best \in Int /\ c.worst \in Int
    BY TrailHeld
  <1>3. /\ IsOpen(w) => w.best = best2 /\ w.stop = stop2
        /\ IsOpen(w) <=> stop2 < c.worst
        /\ w.be = u.be
    BY TrailHeld
  <1> HIDE DEF v, w
  <1>4. best2 = best /\ best \in Int
    BY <1>1, <1>2
  <1>5. stop2 <= stop /\ stop \in Int /\ stop2 \in Int
    BY <1>1, <1>2, <1>4
  <1> HIDE DEF stop, stop2, best, best2
  <1>6. Tied(v, w)
    BY <1>1, <1>2, <1>3, <1>4, <1>5 DEF Tied
  <1> QED
    BY <1>6 DEF v, w

LEMMA BreakevenHeld ==
    ASSUME NEW t, NEW p, NEW c, NEW q, Leads(c, p, q), Holds(t, p), NEW n, HalfR(n) \in Nat
    PROVE  LET v     == Breakeven(t, c, n)
               best  == IF t.best >= c.best THEN t.best ELSE c.best
               floor == IF t.be THEN t.stop ELSE 0
           IN  /\ v.best = best /\ v.be = (t.be \/ best >= R(1)) /\ v.be \in BOOLEAN
               /\ v.stop = IF ~v.be THEN t.stop
                           ELSE IF floor >= best - HalfR(n) THEN floor ELSE best - HalfR(n)
               /\ c.best \in Int /\ c.worst \in Int
  <1>1. PICK first \in Int : first <= 0 /\ Sound(t, first, p) /\ IsOpen(t)
    BY DEF Holds
  <1>2. t \in Trades /\ c.best \in Int /\ c.worst \in Int
    BY HeldTrade DEF Leads, IsCandle
  <1>3. SeeBest(t, c).best = IF t.best >= c.best THEN t.best ELSE c.best
    BY <1>2, BestOf
  <1>4. Breakeven(t, c, n) \in Trades
    BY <1>1, BreakevenMoves
  <1>5. Breakeven(t, c, n).be \in BOOLEAN
    BY <1>4 DEF Trades
  <1> DEFINE v == Breakeven(t, c, n)
             peak == SeeBest(t, c).best
             best == IF t.best >= c.best THEN t.best ELSE c.best
             floor == IF t.be THEN t.stop ELSE 0
  <1>6. /\ v.best = peak /\ v.be = (t.be \/ peak >= R(1))
        /\ v.stop = IF ~v.be THEN t.stop
                    ELSE IF floor >= peak - HalfR(n) THEN floor ELSE peak - HalfR(n)
    BY <1>1, BreakevenMoves
  <1>7. peak = best
    BY <1>3
  <1> HIDE DEF v, peak, best, floor
  <1>8. /\ v.best = best /\ v.be = (t.be \/ best >= R(1)) /\ v.be \in BOOLEAN
        /\ v.stop = IF ~v.be THEN t.stop
                    ELSE IF floor >= best - HalfR(n) THEN floor ELSE best - HalfR(n)
    BY <1>5, <1>6, <1>7 DEF v
  <1> QED
    BY <1>2, <1>8 DEF v, best, floor

(* The breakeven rule keeps two models tied.                               *)
LEMMA BreakevenTied ==
    ASSUME NEW t, NEW u, NEW p, NEW c, NEW q, Leads(c, p, q), Holds(t, p), Holds(u, p),
           Tied(t, u), NEW n, NEW k, HalfR(n) \in Nat, HalfR(k) \in Nat, HalfR(n) <= HalfR(k)
    PROVE  LET v == Breakeven(t, c, n)
               w == Breakeven(u, c, k)
           IN  /\ w.best = v.best /\ w.be = v.be /\ w.stop <= v.stop
               /\ v.stop \in Int /\ w.stop \in Int
  <1> DEFINE v == Breakeven(t, c, n)
             w == Breakeven(u, c, k)
             best == IF t.best >= c.best THEN t.best ELSE c.best
             best2 == IF u.best >= c.best THEN u.best ELSE c.best
             floor == IF t.be THEN t.stop ELSE 0
             floor2 == IF u.be THEN u.stop ELSE 0
             high == IF floor >= best - HalfR(n) THEN floor ELSE best - HalfR(n)
             high2 == IF floor2 >= best2 - HalfR(k) THEN floor2 ELSE best2 - HalfR(k)
  <1>1. /\ t.stop \in Int /\ t.best \in Nat /\ u.stop \in Int /\ u.best \in Nat
        /\ u.stop <= t.stop /\ u.best = t.best /\ u.be = t.be
    BY HeldTrade DEF Tied
  <1>2. /\ v.best = best /\ v.be = (t.be \/ best >= R(1)) /\ v.be \in BOOLEAN
        /\ v.stop = IF ~v.be THEN t.stop ELSE high
        /\ c.best \in Int
    BY BreakevenHeld
  <1>3. /\ w.best = best2 /\ w.be = (u.be \/ best2 >= R(1)) /\ w.be \in BOOLEAN
        /\ w.stop = IF ~w.be THEN u.stop ELSE high2
    BY BreakevenHeld
  <1> HIDE DEF v, w
  <1>4. best2 = best /\ best \in Int /\ floor \in Int /\ floor2 \in Int /\ floor2 <= floor
    BY <1>1, <1>2
  <1> HIDE DEF best, best2, floor, floor2
  <1>5. high2 <= high /\ high \in Int /\ high2 \in Int
    BY <1>4
  <1> HIDE DEF high, high2
  <1>6. w.best = v.best /\ w.be = v.be
    BY <1>1, <1>2, <1>3, <1>4
  <1>7. w.stop <= v.stop /\ v.stop \in Int /\ w.stop \in Int
    BY <1>1, <1>2, <1>3, <1>5, <1>6
  <1> QED
    BY <1>6, <1>7 DEF v, w

LEMMA BeTied ==
    ASSUME NEW t, NEW u, NEW p, NEW c, NEW q, Leads(c, p, q), Holds(t, p), Holds(u, p),
           Tied(t, u)
    PROVE  /\ \A n, k \in {2, 4, 6} : n <= k => Tied(BeTrail(t, c, n), BeTrail(u, c, k))
           /\ Tied(BeRrTarget(t, c, 2), BeRrTarget(u, c, 3))
           /\ Tied(BeRrTarget(t, c, 3), BeTrail(u, c, 4))
  <1>0. c.best \in Int /\ c.worst \in Int
    BY DEF Leads, IsCandle
  <1>1. \A n \in {2, 4, 6} : HalfR(n) \in Nat
    BY Units
  <1>2. \A n, k \in {2, 4, 6} : n <= k => HalfR(n) <= HalfR(k)
    BY Units
  <1>3. \A n, k \in {2, 4, 6} : n <= k =>
            LET v == Breakeven(t, c, n)
                w == Breakeven(u, c, k)
            IN  /\ w.best = v.best /\ w.be = v.be /\ w.stop <= v.stop
                /\ v.stop \in Int /\ w.stop \in Int
    BY <1>1, <1>2, BreakevenTied
  <1>4. \A n \in {2, 4, 6} : /\ IsOpen(BeTrail(t, c, n)) => BeTrail(t, c, n) = Breakeven(t, c, n)
                             /\ IsOpen(BeTrail(t, c, n)) <=> Breakeven(t, c, n).stop < c.worst
    BY <1>1, BeTrailSteps DEF Holds
  <1>5. \A n \in {2, 4, 6} : /\ IsOpen(BeTrail(u, c, n)) => BeTrail(u, c, n) = Breakeven(u, c, n)
                             /\ IsOpen(BeTrail(u, c, n)) <=> Breakeven(u, c, n).stop < c.worst
    BY <1>1, BeTrailSteps DEF Holds
  <1>6. \A r \in {2, 3} :
            /\ IsOpen(BeRrTarget(t, c, r)) => BeRrTarget(t, c, r) = Breakeven(t, c, 4)
            /\ IsOpen(BeRrTarget(t, c, r)) <=> Breakeven(t, c, 4).stop < c.worst /\ c.best < R(r)
    BY BeRrTargetSteps DEF Holds
  <1>7. \A r \in {2, 3} :
            /\ IsOpen(BeRrTarget(u, c, r)) => BeRrTarget(u, c, r) = Breakeven(u, c, 4)
            /\ IsOpen(BeRrTarget(u, c, r)) <=> Breakeven(u, c, 4).stop < c.worst /\ c.best < R(r)
    BY BeRrTargetSteps DEF Holds
  <1>8. R(2) \in Int /\ R(3) \in Int /\ R(2) <= R(3)
    BY Units
  <1>9. ASSUME NEW n \in {2, 4, 6}, NEW k \in {2, 4, 6}, n <= k
        PROVE  Tied(BeTrail(t, c, n), BeTrail(u, c, k))
    <2> DEFINE v == Breakeven(t, c, n)
               w == Breakeven(u, c, k)
    <2>1. /\ w.best = v.best /\ w.be = v.be /\ w.stop <= v.stop
          /\ v.stop \in Int /\ w.stop \in Int
      BY <1>3, <1>9
    <2>2. /\ IsOpen(BeTrail(t, c, n)) => BeTrail(t, c, n) = v
          /\ IsOpen(BeTrail(t, c, n)) <=> v.stop < c.worst
      BY <1>4
    <2>3. /\ IsOpen(BeTrail(u, c, k)) => BeTrail(u, c, k) = w
          /\ IsOpen(BeTrail(u, c, k)) <=> w.stop < c.worst
      BY <1>5
    <2> HIDE DEF v, w
    <2> QED
      BY <1>0, <2>1, <2>2, <2>3 DEF Tied
  <1> DEFINE v == Breakeven(t, c, 4)
             w == Breakeven(u, c, 4)
  <1>10. /\ w.best = v.best /\ w.be = v.be /\ w.stop <= v.stop
         /\ v.stop \in Int /\ w.stop \in Int
    BY <1>3
  <1>11. /\ IsOpen(BeRrTarget(t, c, 2)) => BeRrTarget(t, c, 2) = v
         /\ IsOpen(BeRrTarget(t, c, 2)) <=> v.stop < c.worst /\ c.best < R(2)
         /\ IsOpen(BeRrTarget(t, c, 3)) => BeRrTarget(t, c, 3) = v
         /\ IsOpen(BeRrTarget(t, c, 3)) <=> v.stop < c.worst /\ c.best < R(3)
    BY <1>6
  <1>12. /\ IsOpen(BeRrTarget(u, c, 3)) => BeRrTarget(u, c, 3) = w
         /\ IsOpen(BeRrTarget(u, c, 3)) <=> w.stop < c.worst /\ c.best < R(3)
         /\ IsOpen(BeTrail(u, c, 4)) => BeTrail(u, c, 4) = w
         /\ IsOpen(BeTrail(u, c, 4)) <=> w.stop < c.worst
    BY <1>5, <1>7
  <1> HIDE DEF v, w
  <1>13. Tied(BeRrTarget(t, c, 2), BeRrTarget(u, c, 3))
    BY <1>0, <1>8, <1>10, <1>11, <1>12 DEF Tied
  <1>14. Tied(BeRrTarget(t, c, 3), BeTrail(u, c, 4))
    BY <1>0, <1>10, <1>11, <1>12 DEF Tied
  <1> QED
    BY <1>9, <1>13, <1>14

(* What the delayed chandelier makes of a candle.                          *)
LEMMA DelayedHeld ==
    ASSUME NEW t, NEW p, NEW c, NEW q, Leads(c, p, q), Sound(t, -HalfR(3), p), IsOpen(t), ~t.be,
           NEW r \in {2, 3}
    PROVE  LET u == DelayedChandelier(t, c, r)
               best == IF t.best >= c.best THEN t.best ELSE c.best
               far == IF -HalfR(3) >= best - R(r) THEN -HalfR(3) ELSE best - R(r)
               stop == IF count < Delay THEN t.stop ELSE far
           IN  /\ IsOpen(u) => u.best = best /\ u.stop = stop
               /\ IsOpen(u) <=> stop < c.worst
               /\ ~u.be
  <1>1. t \in Trades /\ c.best \in Int
    BY OpenTrade
  <1>2. SeeBest(t, c).best = IF t.best >= c.best THEN t.best ELSE c.best
    BY <1>1, BestOf
  <1> DEFINE u == DelayedChandelier(t, c, r)
             peak == SeeBest(t, c).best
             best == IF t.best >= c.best THEN t.best ELSE c.best
             Stop(b) == IF count < Delay THEN t.stop
                        ELSE IF -HalfR(3) >= b - R(r) THEN -HalfR(3) ELSE b - R(r)
  <1>3. /\ IsOpen(u) => u.best = peak /\ u.stop = Stop(peak)
        /\ IsOpen(u) <=> Stop(peak) < c.worst
        /\ ~u.be
    BY DelayedSteps
  <1>4. peak = best
    BY <1>2
  <1> HIDE DEF u, peak, best, Stop
  <1>5. /\ IsOpen(u) => u.best = best /\ u.stop = Stop(best)
        /\ IsOpen(u) <=> Stop(best) < c.worst
        /\ ~u.be
    BY <1>3, <1>4
  <1> QED
    BY <1>5 DEF u, best, Stop

LEMMA DelayedTied ==
    ASSUME NEW t, NEW u, NEW p, NEW c, NEW q, Leads(c, p, q), Sound(t, -HalfR(3), p), IsOpen(t),
           ~t.be, Sound(u, -HalfR(3), p), ~u.be, Tied(t, u)
    PROVE  /\ Tied(DelayedChandelier(t, c, 2), DelayedChandelier(u, c, 3))
           /\ t.best - HalfR(4) <= t.stop => Tied(Trail(t, c, 4), DelayedChandelier(u, c, 2))
  <1> DEFINE best == IF t.best >= c.best THEN t.best ELSE c.best
             far2 == IF -HalfR(3) >= best - R(2) THEN -HalfR(3) ELSE best - R(2)
             far3 == IF -HalfR(3) >= best - R(3) THEN -HalfR(3) ELSE best - R(3)
             stop == IF best > t.best /\ t.stop < best - HalfR(4) THEN best - HalfR(4) ELSE t.stop
             v2 == DelayedChandelier(t, c, 2)
             w2 == DelayedChandelier(u, c, 2)
             w3 == DelayedChandelier(u, c, 3)
             x == Trail(t, c, 4)
  <1>1. IsOpen(u) /\ u.stop <= t.stop /\ u.best = t.best
    BY DEF Tied
  <1>2. /\ t.stop \in Int /\ t.best \in Nat /\ u.stop \in Int /\ -HalfR(3) <= t.stop
        /\ c.best \in Int /\ c.worst \in Int
    BY <1>1, OpenTrade DEF Trades
  <1>3. /\ HalfR(3) \in Nat /\ HalfR(4) \in Nat /\ HalfR(4) = R(2) /\ R(2) \in Nat /\ R(3) \in Nat
        /\ R(2) <= R(3)
    BY Units
  <1>4. /\ IsOpen(v2) => v2.best = best /\ v2.stop = IF count < Delay THEN t.stop ELSE far2
        /\ IsOpen(v2) <=> (IF count < Delay THEN t.stop ELSE far2) < c.worst
        /\ ~v2.be
    BY DelayedHeld
  <1>5. /\ IsOpen(w2) => w2.best = best /\ w2.stop = IF count < Delay THEN u.stop ELSE far2
        /\ IsOpen(w2) <=> (IF count < Delay THEN u.stop ELSE far2) < c.worst
        /\ ~w2.be
    BY <1>1, DelayedHeld
  <1>6. /\ IsOpen(w3) => w3.best = best /\ w3.stop = IF count < Delay THEN u.stop ELSE far3
        /\ IsOpen(w3) <=> (IF count < Delay THEN u.stop ELSE far3) < c.worst
        /\ ~w3.be
    BY <1>1, DelayedHeld
  <1>7. /\ IsOpen(x) => x.best = best /\ x.stop = stop
        /\ IsOpen(x) <=> stop < c.worst
        /\ x.be = t.be
    <2>1. Holds(t, p)
      <3>1. -HalfR(3) \in Int /\ -HalfR(3) <= 0
        BY Units
      <3> QED
        BY <3>1 DEF Holds
    <2> QED
      BY <1>3, <2>1, TrailHeld
  <1>8. /\ best \in Int /\ far2 \in Int /\ far3 \in Int /\ far3 <= far2 /\ stop \in Int
        /\ t.best - HalfR(4) <= t.stop => far2 <= stop
        /\ t.stop <= stop
    BY <1>2, <1>3
  <1>9. v2.be \in BOOLEAN /\ w2.be \in BOOLEAN /\ w3.be \in BOOLEAN /\ x.be \in BOOLEAN
    <2>1. t.be \in BOOLEAN
      BY OpenTrade DEF Trades
    <2>2. /\ Stepped(v2, -HalfR(3), c, q) /\ Stepped(w2, -HalfR(3), c, q)
          /\ Stepped(w3, -HalfR(3), c, q)
      BY <1>1, DelayedSteps
    <2>3. v2 \in Trades /\ w2 \in Trades /\ w3 \in Trades
      BY <2>2 DEF Stepped, Sound
    <2> QED
      BY <1>7, <2>1, <2>3 DEF Trades
  <1>10. w2.be = v2.be /\ w3.be = v2.be /\ w2.be = x.be
    BY <1>4, <1>5, <1>6, <1>7, <1>9
  <1> HIDE DEF best, far2, far3, stop, v2, w2, w3, x
  <1>11. Tied(v2, w3)
    BY <1>1, <1>2, <1>4, <1>6, <1>8, <1>10 DEF Tied
  <1>12. t.best - HalfR(4) <= t.stop => Tied(x, w2)
    BY <1>1, <1>2, <1>5, <1>7, <1>8, <1>10 DEF Tied
  <1> QED
    BY <1>11, <1>12 DEF v2, w2, w3, x

Trailing == {<<"atr_trail", "chandelier_2x">>, <<"chandelier_2x", "chandelier_3x">>}

Breakevens ==
    {<<"be_tight_trail", "be_atr_trail">>, <<"be_atr_trail", "be_wide_trail">>,
     <<"be_rr2_target", "be_rr3_target">>, <<"be_rr3_target", "be_atr_trail">>}

Delayed == {<<"delayed_chand_2x", "delayed_chand_3x">>, <<"atr_trail", "delayed_chand_2x">>}

(* Stops that never move, and which models are tied.                       *)
Orderly ==
    /\ \A m \in {"rr1", "rr2", "rr3"} : IsOpen(model[m]) => model[m].stop = -R(1)
    /\ IsOpen(model["rr1"]) => IsOpen(model["rr2"])
    /\ IsOpen(model["rr2"]) => IsOpen(model["rr3"])
    /\ IsOpen(model["atr_stop"]) => model["atr_stop"].stop = -HalfR(3)
    /\ \A m \in HalfModels : IsOpen(model[m]) => IsOpen(model["atr_stop"])
    /\ IsOpen(model["atr_trail"]) =>
          model["atr_trail"].best - HalfR(4) <= model["atr_trail"].stop
    /\ \A pair \in Trailing \cup Breakevens \cup Delayed : Tied(model[pair[1]], model[pair[2]])

LEMMA PairsAreModels ==
    /\ \A pair \in Trailing \cup Breakevens \cup Delayed : pair[1] \in Whole /\ pair[2] \in Whole
    /\ {"rr1", "rr2", "rr3", "atr_stop", "atr_trail"} \subseteq Whole
    /\ \A m \in {"delayed_chand_2x", "delayed_chand_3x", "atr_trail"} :
          m \in HalfModels /\ m \notin BeModels
  BY DEF Trailing, Breakevens, Delayed, Whole, HalfModels, BeModels

LEMMA OrderKept ==
    ASSUME PathKept, ModelsSound, Orderly, NEW c \in Candles, Candle(c)
    PROVE  Orderly'
  <1> DEFINE p == Path
             q == Path'
  <1>1. Leads(c, p, q)
    BY CandleLeads
  <1>2. \A m \in Whole : IsOpen(model'[m]) =>
            /\ IsOpen(model[m]) /\ model'[m] = After(m, model[m], c)
            /\ Stepped(After(m, model[m], c), FirstStop[m], c, q)
    BY CandleSteps, ModelsByKind
  <1>3. \A m \in Whole : IsOpen(model[m]) =>
            /\ model'[m] = After(m, model[m], c) /\ Holds(model[m], p)
            /\ Sound(model[m], FirstStop[m], p)
    <2> TAKE m \in Whole
    <2> HAVE IsOpen(model[m])
    <2>1. model'[m] = After(m, model[m], c) /\ Sound(model[m], FirstStop[m], p)
      BY CandleSteps, ModelsByKind DEF ModelsSound
    <2>2. FirstStop[m] \in Int /\ FirstStop[m] <= 0
      BY FirstStops
    <2> QED
      BY <2>1, <2>2 DEF Holds
  <1> HIDE DEF p, q
  <1>4. c.worst \in Int /\ c.best \in Int
    BY <1>1 DEF Leads, IsCandle
  <1>5. /\ \A m \in {"rr1", "rr2", "rr3"} : IsOpen(model'[m]) => model'[m].stop = -R(1)
        /\ IsOpen(model'["rr1"]) => IsOpen(model'["rr2"])
        /\ IsOpen(model'["rr2"]) => IsOpen(model'["rr3"])
    <2>1. \A m \in {"rr1", "rr2", "rr3"} : IsOpen(model[m]) => \A r \in {1, 2, 3} :
              /\ IsOpen(RrExit(model[m], c, r)) => RrExit(model[m], c, r) = model[m]
              /\ IsOpen(RrExit(model[m], c, r)) <=> -R(1) < c.worst /\ c.best < R(r)
      <3> TAKE m \in {"rr1", "rr2", "rr3"}
      <3> HAVE IsOpen(model[m])
      <3> TAKE r \in {1, 2, 3}
      <3>1. m \in Whole /\ model[m].stop = -R(1)
        BY PairsAreModels DEF Orderly
      <3>2. Sound(model[m], FirstStop[m], p) /\ FirstStop[m] \in Int /\ FirstStop[m] <= 0
        BY <1>3, <3>1, FirstStops
      <3>3. /\ IsOpen(RrExit(model[m], c, r)) => RrExit(model[m], c, r) = model[m]
            /\ IsOpen(RrExit(model[m], c, r)) <=> model[m].stop < c.worst /\ c.best < R(r)
        BY <1>1, <3>2, RrSteps
      <3> QED
        BY <3>1, <3>3
    <2>2. /\ "rr1" \in Whole /\ "rr2" \in Whole /\ "rr3" \in Whole
          /\ After("rr1", model["rr1"], c) = RrExit(model["rr1"], c, 1)
          /\ After("rr2", model["rr2"], c) = RrExit(model["rr2"], c, 2)
          /\ After("rr3", model["rr3"], c) = RrExit(model["rr3"], c, 3)
      BY PairsAreModels, AfterIs
    <2>3. R(1) \in Int /\ R(2) \in Int /\ R(3) \in Int /\ R(1) <= R(2) /\ R(2) <= R(3)
      BY Units
    <2>4. ASSUME IsOpen(model'["rr1"])
          PROVE  model'["rr1"].stop = -R(1) /\ IsOpen(model'["rr2"])
      <3>1. IsOpen(model["rr1"]) /\ model'["rr1"] = RrExit(model["rr1"], c, 1)
        BY <1>2, <2>2, <2>4
      <3>2. IsOpen(model["rr2"]) /\ model'["rr2"] = RrExit(model["rr2"], c, 2)
            /\ model["rr1"].stop = -R(1)
        BY <1>3, <2>2, <3>1 DEF Orderly
      <3>3. -R(1) < c.worst /\ c.best < R(1) /\ model'["rr1"] = model["rr1"]
        BY <2>1, <2>4, <3>1
      <3>4. c.best < R(2)
        BY <1>4, <2>3, <3>3
      <3>5. IsOpen(RrExit(model["rr2"], c, 2))
        BY <2>1, <3>2, <3>3, <3>4
      <3> QED
        BY <3>2, <3>3, <3>5
    <2>5. ASSUME IsOpen(model'["rr2"])
          PROVE  model'["rr2"].stop = -R(1) /\ IsOpen(model'["rr3"])
      <3>1. IsOpen(model["rr2"]) /\ model'["rr2"] = RrExit(model["rr2"], c, 2)
        BY <1>2, <2>2, <2>5
      <3>2. IsOpen(model["rr3"]) /\ model'["rr3"] = RrExit(model["rr3"], c, 3)
            /\ model["rr2"].stop = -R(1)
        BY <1>3, <2>2, <3>1 DEF Orderly
      <3>3. -R(1) < c.worst /\ c.best < R(2) /\ model'["rr2"] = model["rr2"]
        BY <2>1, <2>5, <3>1
      <3>4. c.best < R(3)
        BY <1>4, <2>3, <3>3
      <3>5. IsOpen(RrExit(model["rr3"], c, 3))
        BY <2>1, <3>2, <3>3, <3>4
      <3> QED
        BY <3>2, <3>3, <3>5
    <2>6. ASSUME IsOpen(model'["rr3"]) PROVE model'["rr3"].stop = -R(1)
      <3>1. IsOpen(model["rr3"]) /\ model'["rr3"] = RrExit(model["rr3"], c, 3)
        BY <1>2, <2>2, <2>6
      <3>2. model'["rr3"] = model["rr3"]
        BY <2>1, <2>6, <3>1
      <3> QED
        BY <3>1, <3>2 DEF Orderly
    <2> QED
      BY <2>4, <2>5, <2>6
  <1>6. /\ IsOpen(model'["atr_stop"]) => model'["atr_stop"].stop = -HalfR(3)
        /\ \A m \in HalfModels : IsOpen(model'[m]) => IsOpen(model'["atr_stop"])
    <2>1. "atr_stop" \in Whole /\ After("atr_stop", model["atr_stop"], c) = FixedStop(model["atr_stop"], c)
      BY PairsAreModels, AfterIs
    <2>2. ASSUME IsOpen(model["atr_stop"])
          PROVE  /\ model'["atr_stop"] = FixedStop(model["atr_stop"], c)
                 /\ IsOpen(model'["atr_stop"]) => model'["atr_stop"] = model["atr_stop"]
                 /\ IsOpen(model'["atr_stop"]) <=> -HalfR(3) < c.worst
      <3>1. /\ Sound(model["atr_stop"], FirstStop["atr_stop"], p) /\ FirstStop["atr_stop"] \in Int
            /\ model["atr_stop"].stop = -HalfR(3)
        BY <1>3, <2>1, <2>2, FirstStops DEF Orderly
      <3>2. model'["atr_stop"] = FixedStop(model["atr_stop"], c)
        BY <1>3, <2>1, <2>2
      <3> QED
        BY <1>1, <2>2, <3>1, <3>2, FixedStopSteps
    <2>3. IsOpen(model'["atr_stop"]) => model'["atr_stop"].stop = -HalfR(3)
      BY <1>2, <2>1, <2>2 DEF Orderly
    <2>4. ASSUME NEW m \in HalfModels, IsOpen(model'[m]) PROVE IsOpen(model'["atr_stop"])
      <3>1. /\ m \in Whole /\ FirstStop[m] = -HalfR(3) /\ HalfR(3) \in Int
        BY FirstStops, ModelsByKind, Units
      <3>2. /\ IsOpen(model[m]) /\ Stepped(model'[m], -HalfR(3), c, q)
        BY <1>2, <2>4, <3>1
      <3>3. model'[m] \in Trades /\ model'[m].stop < c.worst /\ -HalfR(3) <= model'[m].stop
        BY <2>4, <3>2 DEF Stepped, Sound, IsOpen, Parts, Trades
      <3>4. -HalfR(3) < c.worst
        BY <1>4, <3>1, <3>3 DEF Trades
      <3>5. IsOpen(model["atr_stop"])
        BY <3>2 DEF Orderly
      <3> QED
        BY <2>2, <3>4, <3>5
    <2> QED
      BY <2>3, <2>4
  <1>7. IsOpen(model'["atr_trail"]) =>
            model'["atr_trail"].best - HalfR(4) <= model'["atr_trail"].stop
    <2> SUFFICES ASSUME IsOpen(model'["atr_trail"])
                 PROVE  model'["atr_trail"].best - HalfR(4) <= model'["atr_trail"].stop
      OBVIOUS
    <2> DEFINE t == model["atr_trail"]
               u == model'["atr_trail"]
               best == IF t.best >= c.best THEN t.best ELSE c.best
               stop == IF best > t.best /\ t.stop < best - HalfR(4)
                       THEN best - HalfR(4) ELSE t.stop
    <2>1. /\ IsOpen(t) /\ u = Trail(t, c, 4) /\ Holds(t, p) /\ HalfR(4) \in Nat
          /\ t.best - HalfR(4) <= t.stop
      BY <1>2, <1>3, PairsAreModels, AfterIs, Units DEF Orderly
    <2>2. u.best = best /\ u.stop = stop
      BY <1>1, <2>1, TrailHeld
    <2>3. t.stop \in Int /\ t.best \in Nat
      BY <2>1, HeldTrade
    <2> HIDE DEF t, u
    <2>4. best - HalfR(4) <= stop
      BY <1>4, <2>1, <2>3
    <2> QED
      BY <2>2, <2>4 DEF u
  <1>8. \A pair \in Trailing \cup Breakevens \cup Delayed : Tied(model'[pair[1]], model'[pair[2]])
    <2> TAKE pair \in Trailing \cup Breakevens \cup Delayed
    <2> SUFFICES ASSUME IsOpen(model'[pair[1]])
                 PROVE  Tied(After(pair[1], model[pair[1]], c), After(pair[2], model[pair[2]], c))
      <3>1. /\ pair[1] \in Whole /\ pair[2] \in Whole
            /\ Tied(model[pair[1]], model[pair[2]])
        BY PairsAreModels DEF Orderly
      <3>2. CASE IsOpen(model'[pair[1]])
        <4>1. IsOpen(model[pair[1]]) /\ model'[pair[1]] = After(pair[1], model[pair[1]], c)
          BY <1>2, <3>1, <3>2
        <4>2. IsOpen(model[pair[2]]) /\ model'[pair[2]] = After(pair[2], model[pair[2]], c)
          BY <1>3, <3>1, <4>1 DEF Tied
        <4> QED
          BY <3>2, <4>1, <4>2
      <3>3. CASE ~IsOpen(model'[pair[1]])
        BY <3>3 DEF Tied
      <3> QED
        BY <3>2, <3>3
    <2> DEFINE t == model[pair[1]]
               u == model[pair[2]]
    <2>1. /\ pair[1] \in Whole /\ pair[2] \in Whole /\ Tied(t, u)
      BY PairsAreModels DEF Orderly
    <2>2. IsOpen(t) /\ IsOpen(u)
      BY <1>2, <2>1 DEF Tied
    <2>3. Holds(t, p) /\ Holds(u, p)
      BY <1>3, <2>1, <2>2
    <2>4. HalfR(4) \in Nat /\ HalfR(6) \in Nat /\ HalfR(4) <= HalfR(6)
      BY Units
    <2>5. CASE pair \in Trailing
      <3>1. Tied(Trail(t, c, 4), Trail(u, c, 4))
        <4>1. HalfR(4) <= HalfR(4)
          BY <2>4
        <4> QED
          BY <1>1, <2>1, <2>3, <2>4, <4>1, TrailTied
      <3>2. Tied(Trail(t, c, 4), Trail(u, c, 6))
        BY <1>1, <2>1, <2>3, <2>4, TrailTied
      <3>3. CASE pair = <<"atr_trail", "chandelier_2x">>
        BY <3>1, <3>3, AfterIs
      <3>4. CASE pair = <<"chandelier_2x", "chandelier_3x">>
        BY <3>2, <3>4, AfterIs
      <3> QED
        BY <2>5, <3>3, <3>4 DEF Trailing
    <2>6. CASE pair \in Breakevens
      <3>1. /\ \A n, k \in {2, 4, 6} : n <= k => Tied(BeTrail(t, c, n), BeTrail(u, c, k))
            /\ Tied(BeRrTarget(t, c, 2), BeRrTarget(u, c, 3))
            /\ Tied(BeRrTarget(t, c, 3), BeTrail(u, c, 4))
        BY <1>1, <2>1, <2>3, BeTied
      <3>2. Tied(BeTrail(t, c, 2), BeTrail(u, c, 4)) /\ Tied(BeTrail(t, c, 4), BeTrail(u, c, 6))
        BY <3>1
      <3>3. CASE pair = <<"be_tight_trail", "be_atr_trail">>
        BY <3>2, <3>3, AfterIs
      <3>4. CASE pair = <<"be_atr_trail", "be_wide_trail">>
        BY <3>2, <3>4, AfterIs
      <3>5. CASE pair = <<"be_rr2_target", "be_rr3_target">>
        BY <3>1, <3>5, AfterIs
      <3>6. CASE pair = <<"be_rr3_target", "be_atr_trail">>
        BY <3>1, <3>6, AfterIs
      <3> QED
        BY <2>6, <3>3, <3>4, <3>5, <3>6 DEF Breakevens
    <2>7. CASE pair \in Delayed
      <3>1. pair[1] \in {"delayed_chand_2x", "atr_trail"}
            /\ pair[2] \in {"delayed_chand_2x", "delayed_chand_3x"}
        BY <2>7 DEF Delayed
      <3>2. /\ pair[1] \in HalfModels /\ pair[1] \notin BeModels
            /\ pair[2] \in HalfModels /\ pair[2] \notin BeModels
        BY <3>1, PairsAreModels
      <3>3. /\ Sound(t, -HalfR(3), p) /\ ~t.be /\ Sound(u, -HalfR(3), p) /\ ~u.be
        <4>1. FirstStop[pair[1]] = -HalfR(3) /\ FirstStop[pair[2]] = -HalfR(3)
          BY <3>2, FirstStops
        <4> QED
          BY <1>3, <2>1, <2>2, <3>2, <4>1 DEF ModelsSound
      <3>4. /\ Tied(DelayedChandelier(t, c, 2), DelayedChandelier(u, c, 3))
            /\ t.best - HalfR(4) <= t.stop => Tied(Trail(t, c, 4), DelayedChandelier(u, c, 2))
        BY <1>1, <2>1, <2>2, <3>3, DelayedTied
      <3>5. CASE pair = <<"delayed_chand_2x", "delayed_chand_3x">>
        BY <3>4, <3>5, AfterIs
      <3>6. CASE pair = <<"atr_trail", "delayed_chand_2x">>
        <4>1. t.best - HalfR(4) <= t.stop
          BY <2>2, <3>6 DEF Orderly
        <4> QED
          BY <3>4, <3>6, <4>1, AfterIs
      <3> QED
        BY <2>7, <3>5, <3>6 DEF Delayed
    <2> QED
      BY <2>5, <2>6, <2>7
  <1> QED
    BY <1>5, <1>6, <1>7, <1>8 DEF Orderly

LEMMA StartsInOrder == ExitsInit => Orderly
  <1> SUFFICES ASSUME ExitsInit PROVE Orderly
    OBVIOUS
  <1>1. \A m \in Whole : /\ IsOpen(model[m]) /\ model[m].stop = FirstStop[m]
                         /\ model[m].best = 0 /\ model[m].be = FALSE
    <2> TAKE m \in Whole
    <2>1. m \in Models /\ m \notin Unstopped
      BY ModelsByKind
    <2>2. model[m] = Started(FirstStop[m])
      BY <2>1 DEF ExitsInit
    <2> QED
      BY <2>2 DEF Started, IsOpen, Parts
  <1>2. /\ \A m \in {"rr1", "rr2", "rr3"} : m \in Whole /\ FirstStop[m] = -R(1)
        /\ FirstStop["atr_stop"] = -HalfR(3) /\ FirstStop["atr_trail"] = -HalfR(3)
        /\ "atr_stop" \in Whole /\ "atr_trail" \in Whole
    BY FirstStops, PairsAreModels DEF HalfModels
  <1>3. HalfR(3) \in Nat /\ HalfR(4) \in Nat /\ HalfR(3) <= HalfR(4)
    BY Units
  <1>4. \A pair \in Trailing \cup Breakevens \cup Delayed :
            FirstStop[pair[2]] <= FirstStop[pair[1]]
    <2> TAKE pair \in Trailing \cup Breakevens \cup Delayed
    <2>1. /\ -HalfR(3) <= -HalfR(3) /\ -R(2) <= -HalfR(3) /\ -R(3) <= -R(2)
      BY Units
    <2>2. \/ pair = <<"atr_trail", "chandelier_2x">> \/ pair = <<"chandelier_2x", "chandelier_3x">>
          \/ pair[1] \in HalfModels /\ pair[2] \in HalfModels
      BY DEF Trailing, Breakevens, Delayed, HalfModels, BeModels
    <2> QED
      BY <2>1, <2>2, <1>2, FirstStops
  <1>5. \A pair \in Trailing \cup Breakevens \cup Delayed :
            Tied(model[pair[1]], model[pair[2]])
    BY <1>1, <1>4, PairsAreModels DEF Tied
  <1>6. model["atr_trail"].best - HalfR(4) <= model["atr_trail"].stop
    BY <1>1, <1>2, <1>3
  <1> QED
    BY <1>1, <1>2, <1>5, <1>6 DEF Orderly

(* Of two exits of which one is the tighter by its parameters, the tighter *)
(* one is never still in the trade when the looser one is out, on any path *)
(* (exit_rr 1R..3R, atr and chandelier trails, breakeven trails and        *)
(* targets, delayed chandeliers, and every stop against the fixed one).    *)
THEOREM TighterExitsFirst == ExitsSpec => []TighterLeavesFirst
  <1> DEFINE IInv == PathKept /\ ModelsSound /\ Orderly
  <1>1. ExitsInit => IInv
    BY StartsSound, StartsInOrder
  <1>2. IInv /\ [ExitsNext]_exitsVars => IInv'
    <2> SUFFICES ASSUME PathKept, ModelsSound, Orderly, [ExitsNext]_exitsVars
                 PROVE  PathKept' /\ ModelsSound' /\ Orderly'
      OBVIOUS
    <2>1. CASE \E c \in Candles : Candle(c)
      BY <2>1, CandleLeads, CandleSteps, OrderKept
    <2>2. CASE EndOfDay
      <3>1. PathKept' /\ ModelsSound' /\ \A m \in Models : ~IsOpen(model'[m])
        BY <2>2, EndCloses
      <3>2. \A m \in Whole : ~IsOpen(model'[m])
        BY <3>1, ModelsByKind
      <3>3. Orderly'
        BY <3>2, ModelsByKind, PairsAreModels DEF Orderly, Tied
      <3> QED
        BY <3>1, <3>3
    <2>3. CASE UNCHANGED exitsVars
      BY <2>3 DEF exitsVars, PathKept, ModelsSound, Orderly, Path
    <2> QED
      BY <2>1, <2>2, <2>3 DEF ExitsNext
  <1>3. IInv => TighterLeavesFirst
    <2> SUFFICES ASSUME Orderly, NEW pair \in Tighter, IsOpen(model[pair[1]])
                 PROVE  IsOpen(model[pair[2]])
      BY DEF TighterLeavesFirst
    <2>1. CASE pair \in Trailing \cup Breakevens \cup Delayed
      BY <2>1 DEF Orderly, Tied
    <2>2. CASE pair[1] \in HalfModels /\ pair[2] = "atr_stop"
      BY <2>2 DEF Orderly
    <2>3. CASE pair = <<"rr1", "rr2">> \/ pair = <<"rr2", "rr3">>
      BY <2>3 DEF Orderly
    <2>4. \/ pair \in Trailing \cup Breakevens \cup Delayed
          \/ pair[1] \in HalfModels /\ pair[2] = "atr_stop"
          \/ pair = <<"rr1", "rr2">> \/ pair = <<"rr2", "rr3">>
      BY DEF Tighter, Trailing, Breakevens, Delayed, HalfModels, Indicators, BeModels
    <2> QED
      BY <2>1, <2>2, <2>3, <2>4
  <1>4. QED
    BY <1>1, <1>2, <1>3, PTL DEF ExitsSpec

=============================================================================
