------------------------------ MODULE CandleBuilder ------------------------------
(***************************************************************************)
(* The candle builder (core/candle_builder.py) of one instrument: ticks    *)
(* become candles of several timeframes, which go into a bounded history   *)
(* and out as events.  A candle is known by the time it opens; prices are  *)
(* left out.                                                               *)
(***************************************************************************)
EXTENDS Integers, Sequences, SequencesExt, FiniteSetsExt

CONSTANTS
    Frames,         \* the timeframes
    Interval,       \* TIMEFRAME_MS of each
    MaxHistory      \* _max_history

BuilderParameters == Interval \in [Frames -> Nat \ {0}] /\ MaxHistory \in Nat \ {0}

VARIABLES
    forming,        \* _states: of each timeframe, opening and last tick, or None
    history         \* _history: the openings of completed candles

builderVars == <<forming, history>>

None == [open |-> -1, last |-> -1]

Keep(h) == SubSeq(h, Max({1, Len(h) - MaxHistory + 1}), Len(h))

(* inject_history, into a history that may hold some of the candles.       *)
NotIn(h, candles) ==
    FoldLeft(LAMBDA new, c : IF c \in ToSet(h) THEN new ELSE Append(new, c), <<>>, candles)

InjectHistory(h, candles) == Keep(h \o NotIn(h, candles))

(* _floor_timestamp *)
PeriodOf(tf, stamp) == (stamp \div Interval[tf]) * Interval[tf]

(* Planted fault: a tick of any other period begins a candle.              *)
Closes_Any(tf, stamp) == forming[tf] # None /\ PeriodOf(tf, stamp) # forming[tf].open

(* A tick of a later period closes the candle; a late one is added to it.  *)
Closes(tf, stamp) == forming[tf] # None /\ PeriodOf(tf, stamp) > forming[tf].open

(* Planted fault: one interval is all that is accepted.                    *)
Stale_Soon(tf, stamp) == stamp - forming[tf].last > Interval[tf]

Stale(tf, stamp) == stamp - forming[tf].last > 2 * Interval[tf]

(* _process_tick, for every timeframe: a closed candle is kept and emitted *)
(* unless it is stale.                                                     *)
OnTick(stamp) ==
    /\ forming' = [tf \in Frames |->
                     IF forming[tf] = None \/ Closes(tf, stamp)
                     THEN [open |-> PeriodOf(tf, stamp), last |-> stamp]
                     ELSE [forming[tf] EXCEPT !.last = stamp]]
    /\ history' = [tf \in Frames |->
                     IF Closes(tf, stamp) /\ ~Stale(tf, stamp)
                     THEN Keep(Append(history[tf], forming[tf].open))
                     ELSE history[tf]]

=============================================================================
