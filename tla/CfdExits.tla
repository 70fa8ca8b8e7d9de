-------------------------------- MODULE CfdExits --------------------------------
(***************************************************************************)
(* One CFD signal resolved three times over the same bars: by the backtest *)
(* (cfd_backtest: the fill of replay.py and simulate_exit), by the exit    *)
(* models of the research (cfd_research/exit_models.py), and by the paper  *)
(* account, which sees the ticks the bars are made of.  The code resolves  *)
(* a trade over all its future at once; here the three advance together,   *)
(* bar by bar, so that they can be compared.                               *)
(*                                                                         *)
(* A bar is [open, high, low, close]; its ticks visit its extremes in      *)
(* either order.  Positions and exit rules are those of ExitRules.  The    *)
(* models work on distances from the entry in the trade's direction, with  *)
(* a result that is a distance times Whole.  Sizing and costs are the same *)
(* for all and left out.                                                   *)
(***************************************************************************)
EXTENDS ExitRules, SequencesExt

CONSTANTS
    Signals,        \* signals: a plan, with "mode" and "expiry"
    Shapes,         \* <<open, high, low, close>> from the close before
    Atrs, AtrMult,  \* ATR at entry, 0 if there is none; atr_mult
    Means,          \* distance of target_price; what is not a gain falls back
    TargetR,        \* rr of the models
    MaxHold,        \* max_bars of the time stop
    MaxBars         \* bound

Parameters ==
    /\ \A s \in Signals : ValidPlan(s)
    /\ \A b \in Shapes : b[3] <= Min({b[1], b[4]}) /\ Max({b[1], b[4]}) <= b[2]
    /\ Atrs \subseteq Nat /\ AtrMult \in Nat /\ Means \subseteq Int
    /\ TargetR \in Nat \ {0} /\ MaxHold \in Nat \ {0} /\ MaxBars \in Nat /\ Whole % 2 = 0

VARIABLES
    signal,     \* the signal
    count,      \* bars since it
    last,       \* last close
    sim,        \* the backtest's position, or none yet
    live,       \* the paper account's position, or none yet
    filled,     \* the bars in which the two were filled
    atr,        \* ATR at entry
    mean,       \* target_price
    model,      \* the models' trades, by name
    done        \* the bars are over

vars == <<signal, count, last, sim, live, filled, atr, mean, model, done>>

NoPosition == [left |-> 0]

Risk == RiskDistance(signal)

-----------------------------------------------------------------------------
(* The backtest.                                                           *)
TicksOf(c, lowFirst) ==
    IF lowFirst THEN <<c.open, c.low, c.high, c.close>> ELSE <<c.open, c.high, c.low, c.close>>

(* synthetic_tick_path *)
SyntheticPath(c) == TicksOf(c, c.close >= c.open)

BookTargets(p, price) == IF p.left = 0 THEN p ELSE Book(p, EvaluateExit(p, price, price))

(* Planted fault: the targets of a bar are resolved before its stop.       *)
SimulateBar_TargetsFirst(p, c) == FoldLeft(BookTargets, p, SyntheticPath(c))

(* simulate_exit for one bar: a stop anywhere in the bar takes everything, *)
(* otherwise the targets are met along the synthetic path.                 *)
SimulateBar(p, c) ==
    IF StopHit(p, c.high, c.low) THEN Book(p, EvaluateExit(p, c.high, c.low))
    ELSE FoldLeft(BookTargets, p, SyntheticPath(c))

(* _resolve_fill: the trigger is touched within expiry_candles bars.       *)
Touched(c) ==
    /\ count + 1 <= signal.expiry
    /\ IF signal.dir = "LONG" THEN c.high >= signal.entry ELSE c.low <= signal.entry

(* The exits start with the bar after the one that filled.                 *)
Backtest(c) ==
    IF filled.sim = 0
    THEN IF Touched(c) THEN NewPosition(signal, signal.entry, 1) ELSE sim
    ELSE IF sim.left = 0 THEN sim ELSE SimulateBar(sim, c)

-----------------------------------------------------------------------------
(* The paper account (see PaperOps), tick by tick: a position it manages,  *)
(* and an arm it fills as long as that is not too old.                     *)
Manage(p, price) ==
    LET moved == ApplyDynamicStop(UpdateExcursion(p, price))
    IN  Book(moved, EvaluateExit(moved, price, price))

Tick(x, price) ==
    LET y == IF ~x.filled /\ count < signal.expiry /\ Gain(signal.dir, signal.entry, price) >= 0
             THEN [filled |-> TRUE, pos |-> NewPosition(signal, signal.entry, 1)] ELSE x
    IN  IF y.filled /\ y.pos.left > 0 THEN [y EXCEPT !.pos = Manage(y.pos, price)] ELSE y

(* The bar closes: the time stop.                                          *)
Older(p, price) ==
    LET q == [p EXCEPT !.bars = Min({@ + 1, p.plan.timeBars})]
    IN  IF p.left > 0 /\ TimeStopReached(q)
        THEN Book(q, {[tp |-> 0, price |-> price, frac |-> q.left]}) ELSE q

Trade(c, lowFirst) ==
    LET x == FoldLeft(Tick, [filled |-> filled.live > 0, pos |-> live], TicksOf(c, lowFirst))
    IN  IF x.filled THEN [x EXCEPT !.pos = Older(@, c.close)] ELSE x

-----------------------------------------------------------------------------
(* The exit models, on distances.  "moved" says that the stop has left its *)
(* first place in an earlier bar.                                          *)
Started == [stop |-> -Risk, best |-> 0, worst |-> 0, be |-> FALSE,
            booked |-> 0, left |-> Whole, moved |-> FALSE, bars |-> 0]

Reach(c) ==
    [best  |-> IF signal.dir = "LONG" THEN c.high - signal.entry ELSE signal.entry - c.low,
     worst |-> IF signal.dir = "LONG" THEN c.low - signal.entry ELSE signal.entry - c.high,
     close |-> Gain(signal.dir, signal.entry, c.close)]

CloseAt(t, d) == [t EXCEPT !.booked = @ + t.left * d, !.left = 0]

(* _excursion *)
See(t, b) == [t EXCEPT !.best = Max({@, b.best}), !.worst = Min({@, b.worst})]

Hit(t, b) == b.worst <= t.stop

(* Stop first, then the target: what most of the models do.                *)
StopOrTarget(t, b, target) ==
    IF Hit(t, b) THEN CloseAt(See(t, b), t.stop)
    ELSE IF b.best >= target THEN CloseAt(See(t, b), target)
    ELSE See(t, b)

Target == TargetR * Risk

FixedRR(t, b) == StopOrTarget(t, b, Target)

(* Breakeven from the next bar on.                                         *)
BreakevenAfter1R(t, b) ==
    LET u == StopOrTarget(t, b, Target)
    IN  IF u.left > 0 /\ b.best >= Risk THEN [u EXCEPT !.be = TRUE, !.stop = 0] ELSE u

TimeStop(t, b) ==
    LET u == StopOrTarget(t, b, Target)
    IN  IF u.left > 0 /\ count + 1 >= MaxHold THEN CloseAt(u, b.close) ELSE u

TrailBy == AtrMult * (IF atr > 0 THEN atr ELSE Risk)

(* _ratchet *)
Ratchet(t, floors) == [t EXCEPT !.stop = Max({@, t.best - TrailBy} \cup floors)]

(* The stop of the bars before, and only then this bar's.                  *)
AtrTrailing(t, b) ==
    IF Hit(t, b) THEN CloseAt(See(t, b), t.stop) ELSE Ratchet(See(t, b), {})

(* Half out at the target, the rest trailed above the entry; a runner that *)
(* is stopped does not look at its last bar.                               *)
ScaleRunner(t, b) ==
    IF t.be
    THEN IF Hit(t, b) THEN CloseAt(t, t.stop) ELSE Ratchet(See(t, b), {0})
    ELSE LET u == See(t, b)
         IN  IF Hit(t, b) THEN CloseAt(u, t.stop)
             ELSE IF b.best < Target THEN u
             ELSE Ratchet([u EXCEPT !.be = TRUE, !.left = @ - Whole \div 2, !.stop = 0,
                                    !.booked = @ + (Whole \div 2) * Target], {0})

MeanTarget(t, b) == StopOrTarget(t, b, IF mean > 0 THEN mean ELSE Target)

(* default_exit_models *)
Models == {"fixed", "breakeven", "scale", "atr", "time", "mean"}

After(m, t, b) ==
    CASE m = "fixed" -> FixedRR(t, b)
      [] m = "breakeven" -> BreakevenAfter1R(t, b)
      [] m = "scale" -> ScaleRunner(t, b)
      [] m = "atr" -> AtrTrailing(t, b)
      [] m = "time" -> TimeStop(t, b)
      [] m = "mean" -> MeanTarget(t, b)

Resolve(m, t, b) ==
    IF t.left = 0 THEN t
    ELSE [After(m, [t EXCEPT !.moved = t.be], b) EXCEPT !.bars = count + 1]

-----------------------------------------------------------------------------
AtClose(s) == s.mode = "CANDLE_CLOSE"

Init ==
    /\ signal \in Signals
    /\ count = 0 /\ last = signal.entry - (IF AtClose(signal) THEN 0 ELSE Sign(signal.dir))
    /\ filled = IF AtClose(signal) THEN [sim |-> 1, live |-> 1] ELSE [sim |-> 0, live |-> 0]
    /\ sim = IF AtClose(signal) THEN NewPosition(signal, signal.entry, 1) ELSE NoPosition
    /\ live = sim
    /\ atr \in Atrs /\ mean \in Means
    /\ model = [m \in Models |-> Started]
    /\ done = FALSE

BarOf(shape) == [open |-> last + shape[1], high |-> last + shape[2],
                 low |-> last + shape[3], close |-> last + shape[4]]

(* One more bar.  The models know entries at a close only.                 *)
Bar(c, lowFirst) ==
    /\ ~done /\ count < MaxBars
    /\ LET x == Trade(c, lowFirst)
       IN  /\ live' = x.pos
           /\ filled' = [sim  |-> IF filled.sim = 0 /\ Touched(c) THEN count + 1 ELSE filled.sim,
                         live |-> IF filled.live = 0 /\ x.filled THEN count + 1 ELSE filled.live]
    /\ sim' = Backtest(c)
    /\ model' = IF AtClose(signal) THEN [m \in Models |-> Resolve(m, model[m], Reach(c))]
                ELSE model
    /\ count' = count + 1
    /\ last' = c.close
    /\ UNCHANGED <<signal, atr, mean, done>>

(* The day, or the data, ends: what is open is valued at the last close.   *)
Flattened(p) ==
    IF p.left = 0 THEN p ELSE Book(p, {[tp |-> 0, price |-> last, frac |-> p.left]})

EndOfBars ==
    /\ ~done /\ count > 0
    /\ done' = TRUE
    /\ sim' = Flattened(sim)
    /\ model' = [m \in Models |->
                    IF model[m].left = 0 \/ ~AtClose(signal) THEN model[m]
                    ELSE CloseAt(model[m], Gain(signal.dir, signal.entry, last))]
    /\ UNCHANGED <<signal, count, last, live, filled, atr, mean>>

Next == (\E s \in Shapes, lowFirst \in BOOLEAN : Bar(BarOf(s), lowFirst)) \/ EndOfBars

Spec == Init /\ [][Next]_vars

-----------------------------------------------------------------------------
TypeOK ==
    /\ signal \in Signals /\ count \in 0..MaxBars /\ last \in Int
    /\ sim.left \in 0..Whole /\ live.left \in 0..Whole
    /\ \A m \in Models : model[m].left \in {0, Whole \div 2, Whole}

(* What a position is worth if it were closed at the last price.           *)
Worth(p) == p.booked + GainOf(p, last) * p.left

Comparable == AtClose(signal) /\ count > 0

NoPolicy(s) == s.beAt = 0 /\ TrailDistance(s) = 0 /\ s.timeBars = 0

(* "This never flatters results": whatever order the ticks of a bar came   *)
(* in, a trade without an exit policy is never better off in the backtest  *)
(* than in the account that saw the ticks.  The types are part of it.      *)
BacktestNeverFlatters ==
    TypeOK /\ (Comparable /\ NoPolicy(signal) => Worth(sim) <= Worth(live))

OneTarget(s) ==
    NoPolicy(s) /\ Len(s.tps) = 1 /\ s.tps[1].frac = Whole /\ Reward(s, 1) = Target

(* The engines that were written apart agree: an arm is filled in the      *)
(* backtest in the bar in which it is filled live, and backtest and models *)
(* resolve alike the plan both know, a stop and a target for everything.   *)
EnginesAgree ==
    /\ filled.sim = filled.live
    /\ Comparable /\ OneTarget(signal) =>
        /\ (sim.left = 0) <=> (model["fixed"].left = 0)
        /\ sim.booked = model["fixed"].booked

(* "mae_price = min(abs(max_adv_price - entry), R)": a model loses no more *)
(* than the adverse excursion it reports, which the challenge counts as    *)
(* its worst moment, and gains no more than the favourable one.            *)
ResultWithinExcursion ==
    \A m \in Models : model[m].left = 0 =>
        /\ model[m].booked >= -Whole * Min({-model[m].worst, Risk})
        /\ model[m].booked <= Whole * model[m].best

(* A trade that was protected before the bar it left in gives nothing back *)
(* of what it has: the entry, or the half that was sold at the target.     *)
BreakevenLocksIn ==
    \A m \in Models : model[m].left = 0 /\ model[m].moved =>
        model[m].booked >= IF m = "scale" THEN (Whole \div 2) * Target ELSE 0

=============================================================================
