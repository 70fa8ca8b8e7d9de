----------------------------- MODULE ExitModels -----------------------------
(***************************************************************************)
(* The offline exit engine (app/exit_engine): one recorded trade replayed  *)
(* under every exit model at once.  Each model is a function of the        *)
(* candles after the entry; the code runs them over the whole path one     *)
(* after the other, here they advance together, candle by candle, so that  *)
(* what they do on one path can be compared.                               *)
(*                                                                         *)
(* Prices are offsets from the entry in the trade's direction (the LONG    *)
(* and SHORT branches of the code are mirror images).  A candle has its    *)
(* worst and best price for the trade, its close, and whether the          *)
(* indicator an exit looks at has turned: the indicators are functions of  *)
(* the closes and any answer of theirs is allowed.  A result is kept times *)
(* Parts, so that thirds and quarters of a position are integers.          *)
(***************************************************************************)
EXTENDS Integers, Sequences, SequencesExt, FiniteSetsExt, TLC

CONSTANTS
    Atr,            \* one R: ATR at entry; a multiple of 4
    Shapes,         \* candles: <<worst, best, close>> from the last close
    PathLength,     \* bound on the candles after the entry
    Delay,          \* delay_candles of the delayed chandelier
    Checkpoint,     \* candles after which time and dead-trade exits look
    Lookback        \* swing_lookback

ASSUME ExitModelAssumption ==
    /\ Atr \in Nat \ {0} /\ Atr % 4 = 0
    /\ \A s \in Shapes : {s[1], s[2], s[3]} \subseteq Int /\ s[1] <= s[3] /\ s[3] <= s[2]
    /\ PathLength \in Nat /\ Delay \in Nat
    /\ Checkpoint \in Nat \ {0} /\ Lookback \in Nat \ {0}

VARIABLES
    model,      \* the models' progress, by name
    count,      \* candles so far
    last,       \* last close
    lows,       \* worst prices of the last Lookback candles
    range,      \* worst and best price of the path: MAE and MFE
    gapless,    \* every candle so far traded at the close before it
    done        \* the day is over

exitsVars == <<model, count, last, lows, range, gapless, done>>

Parts == 12

R(n) == n * Atr
HalfR(n) == (n * Atr) \div 2

-----------------------------------------------------------------------------
(* One model's trade: `stop' as an offset, `best' price seen, `be' once the*)
(* breakeven rule fired, targets taken and the candle of the last one,     *)
(* result booked and parts still open.                                     *)
Started(stop) ==
    [stop |-> stop, best |-> 0, be |-> FALSE, taken |-> 0, at |-> 0,
     booked |-> 0, left |-> Parts]

IsOpen(t) == t.left > 0

CloseAt(t, price) == [t EXCEPT !.booked = @ + t.left * price, !.left = 0]

(* What every stop check does: out at the stop, wherever the candle went.  *)
CheckStop(t, c) == IF c.worst <= t.stop THEN CloseAt(t, t.stop) ELSE t

Raise(t, level) == [t EXCEPT !.stop = Max({@, level})]

SeeBest(t, c) == [t EXCEPT !.best = Max({@, c.best})]

OutAtClose(t, c, when) == IF IsOpen(t) /\ when THEN CloseAt(t, c.close) ELSE t

(* simulate_rr_exit: stop at 1R, target at r R, the stop first.            *)
RrExit(t, c, r) ==
    LET u == CheckStop(t, c)
    IN  IF IsOpen(u) /\ c.best >= R(r) THEN CloseAt(u, R(r)) ELSE u

(* simulate_atr_stop, simulate_swing_stop, simulate_fixed_stop: a stop     *)
(* that never moves.                                                       *)
FixedStop(t, c) == CheckStop(t, c)

(* simulate_atr_trail and simulate_chandelier_exit differ in their first   *)
(* stop: trail n half R behind the best price.                             *)
Trail(t, c, n) ==
    LET u == SeeBest(t, c)
    IN  CheckStop(IF u.best > t.best THEN Raise(u, u.best - HalfR(n)) ELSE u, c)

AtrTrail(t, c) == Trail(t, c, 4)

ChandelierExit(t, c, r) == Trail(t, c, 2 * r)

(* simulate_swing_trail: to the lowest price of the candles before.        *)
SwingTrail(t, c) ==
    CheckStop(IF Len(lows) = Lookback THEN Raise(t, Min(ToSet(lows))) ELSE t, c)

(* simulate_ema_trail, and with other indicators simulate_vwap_cross_exit, *)
(* simulate_ema_cross_exit, simulate_rsi_extreme_exit,                     *)
(* simulate_ema_crossover_exit: the first stop, then out at the close of a *)
(* candle at which the indicator has turned.                               *)
IndicatorExit(t, c) == OutAtClose(CheckStop(t, c), c, c.turned)

EmaTrail(t, c)      == IndicatorExit(t, c)
VwapCross(t, c)     == IndicatorExit(t, c)
EmaCross(t, c)      == IndicatorExit(t, c)
RsiExtreme(t, c)    == IndicatorExit(t, c)
EmaCrossover(t, c)  == IndicatorExit(t, c)

(* The breakeven rule of _simulate_be_trail and simulate_be_rr_target:     *)
(* stop to entry once 1R was seen, from then on n half R behind the best.  *)
Breakeven(t, c, n) ==
    LET u == SeeBest(t, c)
        v == IF ~u.be /\ u.best >= R(1) THEN [u EXCEPT !.be = TRUE, !.stop = 0] ELSE u
    IN  IF v.be THEN Raise(v, v.best - HalfR(n)) ELSE v

BeTrail(t, c, n) == CheckStop(Breakeven(t, c, n), c)

(* simulate_be_rr_target: the target first, then breakeven, trail (2R) and *)
(* stop.                                                                   *)
BeRrTarget(t, c, r) ==
    IF c.best >= R(r) THEN CloseAt(t, R(r)) ELSE BeTrail(t, c, 4)

(* simulate_be_ema_trail: the first stop until breakeven, then the entry,  *)
(* or the close when the indicator has turned.                             *)
BeEmaTrail(t, c) ==
    LET u == SeeBest(t, c)
        v == IF ~u.be /\ u.best >= R(1) THEN [u EXCEPT !.be = TRUE, !.stop = 0] ELSE u
        w == CheckStop(v, c)
    IN  OutAtClose(w, c, w.be /\ c.turned)

(* simulate_step_trail: a step every n half R of a candle's best price     *)
(* raises the stop by half as much.                                        *)
StepTrail(t, c, n) ==
    LET steps == Max({0, c.best}) \div HalfR(n)
        u     == IF steps > t.taken
                 THEN [t EXCEPT !.taken = steps,
                                !.stop  = steps * (HalfR(n) \div 2) - HalfR(3)]
                 ELSE t
    IN  CheckStop(u, c)

(* simulate_delayed_chandelier: the first stop alone for Delay candles,    *)
(* then r R behind the best price but never below it.                      *)
DelayedChandelier(t, c, r) ==
    LET u == SeeBest(t, c)
    IN  CheckStop(IF count < Delay THEN u
                  ELSE [u EXCEPT !.stop = Max({-HalfR(3), u.best - R(r)})], c)

(* simulate_time_exit; a session exit holds for what is left of it.        *)
TimeExit(t, c, hold) == OutAtClose(t, c, count + 1 = hold)

SessionExit(t, c, entry, end) ==
    IF end <= entry THEN t ELSE TimeExit(t, c, end - entry)

(* simulate_dead_trade_exit: out at the checkpoint unless in profit.       *)
DeadTradeExit(t, c, hold) == OutAtClose(t, c, count + 1 = hold /\ c.close <= 0)

(* Planted fault: the part that went out at a target is sold twice.        *)
PartialExit_SoldTwice(t, c, targets, part) ==
    IF t.taken = targets THEN AtrTrail(t, c)
    ELSE LET u == CheckStop(t, c)
         IN  IF IsOpen(u) /\ c.best >= R(t.taken + 1)
             THEN [u EXCEPT !.taken = @ + 1, !.at = count + 1,
                            !.booked = @ + part * R(t.taken + 1),
                            !.stop = IF t.taken + 1 = targets THEN -HalfR(3) ELSE @]
             ELSE u

(* simulate_partial_a, _b, _c: parts of the position out at 1R, 2R, ...    *)
(* (rr exits of the path after the last hit), the rest on an ATR trail     *)
(* that starts afresh after the last target.                               *)
PartialExit(t, c, targets, part) ==
    IF t.taken = targets THEN AtrTrail(t, c)
    ELSE LET u == CheckStop(t, c)
         IN  IF IsOpen(u) /\ c.best >= R(t.taken + 1)
             THEN [u EXCEPT !.taken = @ + 1, !.at = count + 1, !.left = @ - part,
                            !.booked = @ + part * R(t.taken + 1),
                            !.stop = IF t.taken + 1 = targets THEN -HalfR(3) ELSE @]
             ELSE u

Targets == [partial_a |-> 1, partial_b |-> 2, partial_c |-> 3]

PartialA(t, c) == PartialExit(t, c, Targets.partial_a, Parts \div 2)
PartialB(t, c) == PartialExit(t, c, Targets.partial_b, Parts \div 3)
PartialC(t, c) == PartialExit(t, c, Targets.partial_c, Parts \div 4)

-----------------------------------------------------------------------------
(* simulate_all_rr ... simulate_all_indicator_exits: every model's first   *)
(* stop.  Time exits and dead-trade exits have none.                       *)
FirstStop ==
    [m \in {"rr1", "rr2", "rr3", "partial_a", "partial_b", "partial_c", "chandelier_2x",
            "chandelier_3x", "atr_stop", "atr_trail", "swing_trail", "ema_trail", "vwap_cross",
            "ema20_cross", "rsi_70_exit", "ema_9_21_xover", "be_tight_trail",
            "be_atr_trail", "be_wide_trail", "be_ema_trail", "be_rr2_target",
            "be_rr3_target", "step_trail_1r", "step_trail_05r",
            "delayed_chand_2x", "delayed_chand_3x"} |->
        CASE m \in {"rr1", "rr2", "rr3", "partial_a", "partial_b", "partial_c"} -> -R(1)
          [] m = "chandelier_2x" -> -R(2)
          [] m = "chandelier_3x" -> -R(3)
          [] OTHER -> -HalfR(3)]

Unstopped == {"time_exit", "session_exit", "dead_trade"}

Models == DOMAIN FirstStop \cup Unstopped

(* What each model makes of one more candle.                               *)
After(m, t, c) ==
    CASE m = "rr1" -> RrExit(t, c, 1)
      [] m = "rr2" -> RrExit(t, c, 2)
      [] m = "rr3" -> RrExit(t, c, 3)
      [] m = "atr_stop" -> FixedStop(t, c)
      [] m = "atr_trail" -> AtrTrail(t, c)
      [] m = "swing_trail" -> SwingTrail(t, c)
      [] m = "ema_trail" -> EmaTrail(t, c)
      [] m = "vwap_cross" -> VwapCross(t, c)
      [] m = "ema20_cross" -> EmaCross(t, c)
      [] m = "rsi_70_exit" -> RsiExtreme(t, c)
      [] m = "ema_9_21_xover" -> EmaCrossover(t, c)
      [] m = "be_tight_trail" -> BeTrail(t, c, 2)
      [] m = "be_atr_trail" -> BeTrail(t, c, 4)
      [] m = "be_wide_trail" -> BeTrail(t, c, 6)
      [] m = "be_ema_trail" -> BeEmaTrail(t, c)
      [] m = "be_rr2_target" -> BeRrTarget(t, c, 2)
      [] m = "be_rr3_target" -> BeRrTarget(t, c, 3)
      [] m = "chandelier_2x" -> ChandelierExit(t, c, 2)
      [] m = "chandelier_3x" -> ChandelierExit(t, c, 3)
      [] m = "step_trail_1r" -> StepTrail(t, c, 2)
      [] m = "step_trail_05r" -> StepTrail(t, c, 1)
      [] m = "delayed_chand_2x" -> DelayedChandelier(t, c, 2)
      [] m = "delayed_chand_3x" -> DelayedChandelier(t, c, 3)
      [] m = "partial_a" -> PartialA(t, c)
      [] m = "partial_b" -> PartialB(t, c)
      [] m = "partial_c" -> PartialC(t, c)
      [] m = "time_exit" -> TimeExit(t, c, Checkpoint)
      [] m = "session_exit" -> SessionExit(t, c, 1, Checkpoint)
      [] m = "dead_trade" -> DeadTradeExit(t, c, Checkpoint)

Candles ==
    {[worst |-> last + s[1], best |-> last + s[2], close |-> last + s[3], turned |-> b] :
        s \in Shapes, b \in BOOLEAN}

(* The trade is entered at 0; the candle it was entered in is not part of  *)
(* the path (_process_trade).                                              *)
ExitsInit ==
    /\ model = [m \in Models |-> Started(IF m \in Unstopped THEN 0 ELSE FirstStop[m])]
    /\ count = 0 /\ last = 0 /\ lows = <<>>
    /\ range = [worst |-> 0, best |-> 0]
    /\ gapless = TRUE /\ done = FALSE

(* The next candle of the path.                                            *)
Candle(c) ==
    /\ ~done /\ count < PathLength
    /\ model' = [m \in Models |-> IF IsOpen(model[m]) THEN After(m, model[m], c) ELSE model[m]]
    /\ count' = count + 1
    /\ last' = c.close
    /\ lows' = LET all == Append(lows, c.worst)
               IN  IF Len(all) > Lookback THEN Tail(all) ELSE all
    /\ range' = IF count = 0 THEN [worst |-> c.worst, best |-> c.best]
                ELSE [worst |-> Min({range.worst, c.worst}), best |-> Max({range.best, c.best})]
    /\ gapless' = (gapless /\ c.worst <= last /\ last <= c.best)
    /\ UNCHANGED done

(* The last candle's close settles what is open.  A partial model whose    *)
(* target was hit on that candle has no path left: after its last target   *)
(* the rest counts as sold at that target, before it as sold at entry.     *)
AtEndOfDay(m, t) ==
    IF m \in DOMAIN Targets /\ t.taken > 0 /\ t.at = count
    THEN CloseAt(t, IF t.taken = Targets[m] THEN R(t.taken) ELSE 0)
    ELSE CloseAt(t, last)

EndOfDay ==
    /\ ~done /\ count > 0
    /\ model' = [m \in Models |-> IF IsOpen(model[m]) THEN AtEndOfDay(m, model[m]) ELSE model[m]]
    /\ done' = TRUE
    /\ UNCHANGED <<count, last, lows, range, gapless>>

ExitsNext == (\E c \in Candles : Candle(c)) \/ EndOfDay

ExitsSpec == ExitsInit /\ [][ExitsNext]_exitsVars

-----------------------------------------------------------------------------
ExitTypes ==
    /\ \A m \in Models : LET t == model[m]
                         IN  /\ t.stop \in Int /\ t.best \in Nat /\ t.booked \in Int
                             /\ t.be \in BOOLEAN /\ t.left \in 0..Parts
                             /\ m \in DOMAIN Targets => t.taken \in 0..Targets[m]
    /\ count \in 0..PathLength
    /\ Len(lows) = Min({count, Lookback})

(* Whatever path a trade takes without gaps, no model reports a result     *)
(* outside what the path offered: between the worst and the best excursion *)
(* that the engine stores beside it (mae <= pnl <= mfe).                   *)
WithinExcursion ==
    done /\ gapless =>
        \A m \in Models : /\ Parts * range.worst <= model[m].booked
                          /\ model[m].booked <= Parts * range.best

(* A model with a stop never loses more than its first stop, gaps or not.  *)
(* The types are part of it.                                               *)
LossBounded ==
    /\ ExitTypes
    /\ \A m \in DOMAIN FirstStop : ~IsOpen(model[m]) => model[m].booked >= Parts * FirstStop[m]

(* Once the breakeven rule fired a trade cannot lose any more.             *)
BreakevenLocksIn ==
    \A m \in Models : model[m].be /\ ~IsOpen(model[m]) => model[m].booked >= 0

(* Of two models of which one is the tighter by its parameters, the tighter*)
(* one is never still in the trade when the looser one is out: comparing   *)
(* their results compares what the parameter means.                        *)
Tighter ==
    {<<"rr1", "rr2">>, <<"rr2", "rr3">>, <<"atr_trail", "chandelier_2x">>,
     <<"chandelier_2x", "chandelier_3x">>, <<"atr_trail", "atr_stop">>,
     <<"swing_trail", "atr_stop">>, <<"ema_trail", "atr_stop">>,
     <<"be_tight_trail", "be_atr_trail">>, <<"be_atr_trail", "be_wide_trail">>,
     <<"be_rr2_target", "be_rr3_target">>, <<"be_rr3_target", "be_atr_trail">>,
     <<"be_ema_trail", "atr_stop">>, <<"delayed_chand_2x", "delayed_chand_3x">>,
     <<"atr_trail", "delayed_chand_2x">>, <<"delayed_chand_3x", "atr_stop">>,
     <<"step_trail_1r", "atr_stop">>}

TighterLeavesFirst ==
    \A p \in Tighter : ~IsOpen(model[p[2]]) => ~IsOpen(model[p[1]])

=============================================================================
