--------------------------- MODULE ResearchTemplates ---------------------------
(***************************************************************************)
(* The strategy templates of the NSE research (app/variants/strategies) for*)
(* one instrument.  One object of each serves every instrument and every   *)
(* timeframe, live and in the replay, so what it keeps is kept under a key.*)
(* A behaviour is that of one template; a candle brings whatever the       *)
(* indicators may say about it, and nothing at all before there is history *)
(* enough for them.                                                        *)
(*                                                                         *)
(* Time is counted in candles of the shortest timeframe since 9:15.  What  *)
(* variants make of a candidate is ArmedTriggers' or the recorder's.       *)
(***************************************************************************)
EXTENDS Integers, Sequences, SequencesExt, FiniteSetsExt

CONSTANTS
    Frames,             \* the timeframes
    Bars,               \* shortest candles in a candle of each
    Prices,             \* of the opening range
    MinSpan, MaxSpan,   \* of a range that is neither too tight nor too wide
    Opening,            \* ORB_END, in shortest candles
    MinSqueeze,         \* MIN_SQUEEZE_CANDLES
    Shapes,             \* candles for the patterns: open, high, low, close
    DaySlots,           \* shortest candles of a day
    MaxDays             \* bound

Parameters ==
    /\ Bars \in [Frames -> Nat \ {0}]
    /\ Prices \subseteq Nat \ {0} /\ MinSpan \in Nat /\ MaxSpan \in Nat
    /\ Opening \in Nat /\ MinSqueeze \in Nat \ {0} /\ DaySlots \in Nat /\ MaxDays \in Nat

Templates == {"orb", "bb", "mr", "trend", "vpa"}
Sides == {"LONG", "SHORT"}

VARIABLES
    template,
    date, slot,     \* the day, and how many candles of it have closed
    due,            \* timeframes whose candle closes now
    warm,           \* timeframes with history enough
    kept,           \* what the template keeps
    resetDate,      \* _last_reset_date
    seen,           \* the day's last candles of each timeframe (for the properties)
    formed,         \* prices of the day's opening candles (for the properties)
    given,          \* candles since each timeframe signalled (for the properties)
    said            \* the last evaluation, with what was there before it

vars == <<template, date, slot, due, warm, kept, resetDate, seen, formed, given, said>>

(* (token, timeframe.value)                                                *)
Key(tf) == tf

Fresh ==
    CASE template = "orb"   -> [high |-> 0, low |-> 0, ready |-> FALSE, fired |-> {}]
      [] template = "bb"    -> [tf \in Frames |-> [count |-> 0, was |-> FALSE]]
      [] template = "mr"    -> [tf \in Frames |-> "none"]
      [] template = "trend" -> [tf \in Frames |-> FALSE]
      [] OTHER              -> "nothing"

Candidate(side, level) == [side |-> side, level |-> level]

Silent(k) == [kept |-> k, all |-> {}]

-----------------------------------------------------------------------------
(* ORBTemplate: the candles that open up to ORB_END make the range, which  *)
(* is judged once, by the first candle after them of any timeframe; every  *)
(* timeframe asks for each side once.                                      *)
Orb(k, tf, c) ==
    IF slot - Bars[tf] <= Opening
    THEN Silent([k EXCEPT !.high = Max({k.high, c.high}),
                          !.low  = IF k.high = 0 THEN c.low ELSE Min({k.low, c.low})])
    ELSE LET ready == k.ready \/ (k.high > 0 /\ k.high - k.low \in MinSpan..MaxSpan)
             sides == {d \in Sides : ready /\ <<Key(tf), d>> \notin k.fired}
         IN  [kept |-> [k EXCEPT !.ready = ready, !.fired = @ \cup ({Key(tf)} \X sides)],
              all  |-> {Candidate(d, IF d = "LONG" THEN k.high ELSE k.low) : d \in sides}]

(* BBTemplate: both sides, when a squeeze that was long enough ends.       *)
Bb(k, tf, c) ==
    LET mine == k[Key(tf)]
    IN  IF c.squeezed
        THEN Silent([k EXCEPT ![Key(tf)] = [count |-> Min({mine.count + 1, MinSqueeze}), was |-> TRUE]])
        ELSE [kept |-> [k EXCEPT ![Key(tf)] = [count |-> 0, was |-> FALSE]],
              all  |-> IF mine.was /\ mine.count >= MinSqueeze
                       THEN {Candidate(d, 0) : d \in Sides} ELSE {}]

(* MeanReversionTemplate: the RSI comes back over its bound while the price*)
(* is far from the mean.                                                   *)
Mr(k, tf, c) ==
    LET before == k[Key(tf)]
        long  == c.off = -1 /\ before \in {"zero", "low"} /\ c.rsi \in {"mid", "high"}
        short == c.off = 1 /\ before = "high" /\ c.rsi \in {"low", "mid"}
    IN  [kept |-> [k EXCEPT ![Key(tf)] = c.rsi],
         all  |-> {Candidate(d, 0) : d \in {x \in Sides : IF x = "LONG" THEN long ELSE short}}]

(* TrendTemplate: the first candle of a pullback; the direction it keeps is*)
(* never read.                                                             *)
Trend(k, tf, c) ==
    LET back == c.trend # "none" /\ c.near
    IN  [kept |-> [k EXCEPT ![Key(tf)] = back],
         all  |-> IF back /\ ~k[Key(tf)]
                  THEN {Candidate(IF c.trend = "bull" THEN "LONG" ELSE "SHORT", 0)} ELSE {}]

-----------------------------------------------------------------------------
(* VPATemplate: patterns of a candle o, h, l, c.                           *)
Body(c) == [top |-> Max({c[1], c[4]}), bottom |-> Min({c[1], c[4]})]
Size(c) == Body(c).top - Body(c).bottom

Engulfs(prev, c) == Body(c).bottom <= Body(prev).bottom /\ Body(c).top >= Body(prev).top

BullishEngulfing(prev, c) == prev[4] < prev[1] /\ c[4] > c[1] /\ Engulfs(prev, c)
BearishEngulfing(prev, c) == prev[4] > prev[1] /\ c[4] < c[1] /\ Engulfs(prev, c)

Hammer(c) ==
    /\ Size(c) > 0
    /\ Body(c).bottom - c[3] >= 2 * Size(c)
    /\ 10 * (c[2] - Body(c).top) <= 3 * Size(c)
    /\ 100 * (Body(c).top - c[3]) >= 65 * (c[2] - c[3])

ShootingStar(c) ==
    /\ Size(c) > 0
    /\ c[2] - Body(c).top >= 2 * Size(c)
    /\ 10 * (Body(c).bottom - c[3]) <= 3 * Size(c)
    /\ 100 * (Body(c).bottom - c[3]) <= 35 * (c[2] - c[3])

(* The last of the history is the candle itself: the builder and the replay*)
(* put it there before it is evaluated.                                    *)
Vpa(k, c) ==
    LET prev  == c
        long  == BullishEngulfing(prev, c) \/ Hammer(c)
        short == BearishEngulfing(prev, c) \/ ShootingStar(c)
    IN  [kept |-> k,
         all  |-> {Candidate(d, 0) : d \in {x \in Sides : IF x = "LONG" THEN long ELSE short}}]

-----------------------------------------------------------------------------
(* What a candle may bring; after the opening its prices do not matter.    *)
Later == [high |-> 0, low |-> 0]

Candles(tf) ==
    CASE template = "orb" ->
            IF slot - Bars[tf] <= Opening
            THEN {c \in [high : Prices, low : Prices] : c.low <= c.high} ELSE {Later}
      [] template = "bb"    -> [squeezed : BOOLEAN]
      [] template = "mr"    -> [rsi : {"zero", "low", "mid", "high"}, off : {-1, 0, 1}]
      [] template = "trend" -> [trend : {"bull", "bear", "none"}, near : BOOLEAN]
      [] OTHER              -> Shapes

(* evaluate                                                                *)
Evaluated(tf, c) ==
    LET k == IF resetDate # date THEN Fresh ELSE kept
    IN  CASE template = "orb"   -> Orb(k, tf, c)
          [] template = "bb"    -> Bb(k, tf, c)
          [] template = "mr"    -> Mr(k, tf, c)
          [] template = "trend" -> Trend(k, tf, c)
          [] OTHER              -> Vpa(k, c)

Never == [d \in Sides |-> -1]
Nothing == [tf |-> "none"]

Init ==
    /\ template \in Templates
    /\ date = 1 /\ slot = 0 /\ due = {}
    /\ warm \in SUBSET Frames
    /\ kept = Fresh /\ resetDate = 0
    /\ seen = [tf \in Frames |-> <<>>] /\ formed = {}
    /\ given = [tf \in Frames |-> Never]
    /\ said = Nothing

(* What the properties remember of the candles of a timeframe.             *)
Trait(c) ==
    CASE template = "bb" -> c.squeezed [] template = "mr" -> c.rsi
      [] template = "trend" -> c.trend # "none" /\ c.near [] OTHER -> TRUE
Depth == IF template = "bb" THEN MinSqueeze ELSE 1
Latest(s) == SubSeq(s, Max({1, Len(s) - Depth + 1}), Len(s))

(* A candle more since the last signals, as far as it matters.             *)
Aged(since) ==
    [d \in Sides |-> IF since[d] = -1 THEN -1 ELSE Min({since[d] + 1, MinSqueeze + 1})]

(* A candle that is evaluated, with what the properties need to know of it.*)
Candle(tf, c) ==
    /\ tf \in warm
    /\ LET result == Evaluated(tf, c)
           sides  == {x.side : x \in result.all}
       IN  /\ kept' = result.kept
           /\ said' = [tf |-> tf, candle |-> c, all |-> result.all,
                       before |-> seen[tf], since |-> Aged(given[tf])]
           /\ given' = [given EXCEPT ![tf] =
                          [d \in Sides |-> IF d \in sides THEN 0 ELSE Aged(@)[d]]]
    /\ resetDate' = date
    /\ seen' = [seen EXCEPT ![tf] = Latest(Append(@, Trait(c)))]
    /\ formed' = IF template = "orb" /\ c # Later
                 THEN {Max(formed \cup {c.high}), Min(formed \cup {c.low})} ELSE formed
    /\ due' = due \ {tf}
    /\ UNCHANGED <<template, date, slot, warm>>

(* Without a snapshot nothing is evaluated; there may be one next time.    *)
Unevaluated(tf) ==
    /\ tf \notin warm
    /\ warm' \in {warm, warm \cup {tf}}
    /\ due' = due \ {tf}
    /\ UNCHANGED <<template, date, slot, kept, resetDate, seen, formed, given, said>>

(* No candle: no tick, or it was stale.                                    *)
NoCandle(tf) ==
    /\ due' = due \ {tf}
    /\ UNCHANGED <<template, date, slot, warm, kept, resetDate, seen, formed, given, said>>

NextSlot ==
    /\ due = {} /\ slot < DaySlots
    /\ slot' = slot + 1
    /\ due' = {tf \in Frames : slot' % Bars[tf] = 0}
    /\ said' = Nothing
    /\ UNCHANGED <<template, date, warm, kept, resetDate, seen, formed, given>>

(* Another day: the replay resets the templates; the live process begins   *)
(* anew, or resets them at the first tick.                                 *)
NextDay ==
    /\ due = {} /\ slot = DaySlots /\ date < MaxDays
    /\ date' = date + 1 /\ slot' = 0
    /\ kept' = Fresh /\ resetDate' = 0
    /\ seen' = [tf \in Frames |-> <<>>] /\ formed' = {} /\ said' = Nothing
    /\ given' = [tf \in Frames |-> Never]
    /\ UNCHANGED <<template, due, warm>>

(* The shorter timeframe's candle comes first.                             *)
Next ==
    \/ \E tf \in due :
          /\ \A other \in due : Bars[tf] <= Bars[other]
          /\ \/ \E c \in Candles(tf) : Candle(tf, c)
             \/ Unevaluated(tf)
             \/ NoCandle(tf)
    \/ NextSlot
    \/ NextDay

-----------------------------------------------------------------------------
TypeOK ==
    /\ template \in Templates /\ date \in 1..MaxDays /\ slot \in 0..DaySlots
    /\ due \subseteq Frames /\ warm \subseteq Frames /\ resetDate \in {0, date}

(* No timeframe asks twice for one opportunity: a side of a breakout once a*)
(* day, a squeeze once, a pullback or a crossing not on two candles in a   *)
(* row.  The types are part of it.                                         *)
SignalsRationed ==
    /\ TypeOK
    /\ said # Nothing => \A x \in said.all :
          LET apart == said.since[x.side]
          IN  apart = -1 \/ CASE template = "orb" -> FALSE
                              [] template = "bb"  -> apart > MinSqueeze
                              [] template \in {"mr", "trend"} -> apart > 1
                              [] OTHER -> TRUE

(* The candle before, of the same day and timeframe, was one of these.     *)
Before(traits) == said.before # <<>> /\ Last(said.before) \in traits

(* "A 5m evaluation stomping 15m state for the same instrument": what a    *)
(* template says of a candle follows from that day's candles of that       *)
(* timeframe alone, whatever the others do in between.  Only the levels of *)
(* a breakout are those of all of them, and a candle has one direction.    *)
CauseOfToday ==
    said # Nothing =>
        LET c     == said.candle
            sides == {x.side : x \in said.all}
        IN  CASE template = "orb" ->
                    /\ sides # {} => c = Later /\ sides = Sides
                    /\ \A x \in said.all : x.level = (IF x.side = "LONG" THEN Max(formed) ELSE Min(formed))
                    /\ (c = Later /\ kept.ready /\ said.since = Never) => sides # {}
              [] template = "bb" ->
                    sides = IF /\ ~c.squeezed /\ said.before = [i \in 1..MinSqueeze |-> TRUE]
                            THEN Sides ELSE {}
              [] template = "mr" ->
                    /\ "LONG" \in sides <=> /\ Before({"zero", "low"})
                                            /\ c.rsi \in {"mid", "high"} /\ c.off = -1
                    /\ "SHORT" \in sides <=> /\ Before({"high"})
                                             /\ c.rsi \in {"low", "mid"} /\ c.off = 1
              [] template = "trend" ->
                    sides = IF /\ c.trend # "none" /\ c.near
                               /\ ~Before({TRUE})
                            THEN {IF c.trend = "bull" THEN "LONG" ELSE "SHORT"} ELSE {}
              [] OTHER -> sides # Sides

=============================================================================
