------------------------------ MODULE ExitRules ------------------------------
(***************************************************************************)
(* Exit plans and the exit decisions every executor shares                 *)
(* (cfd_strategy/base.py, cfd_execution/base.py): pure operators on a      *)
(* managed position, no state of their own.                                *)
(*                                                                         *)
(* Prices are integers.  A position is Whole units; a take-profit closes   *)
(* `frac' of them (close_fraction = frac / Whole).  A rule of the exit     *)
(* policy that the code leaves at None is 0 here; the code refuses 0 and   *)
(* negative values for all of them.  R multiples are integers.             *)
(* Adverse excursion, realized R and timestamps are only reported.         *)
(***************************************************************************)
EXTENDS Integers, Sequences, FiniteSets, FiniteSetsExt, Functions, TLC

CONSTANTS
    Whole,      \* units of a full position (remaining_fraction = 1.0)
    MinRR       \* MIN_RR, the floor on the furthest target's R multiple

ASSUME ExitAssumption == Whole \in Nat \ {0} /\ MinRR \in Nat

Directions == {"LONG", "SHORT"}

Sign(dir) == IF dir = "LONG" THEN 1 ELSE -1

Abs(n) == IF n < 0 THEN -n ELSE n

(* Direction-adjusted gain from a to b.                                    *)
Gain(dir, a, b) == (b - a) * Sign(dir)

(* A signal carries its exit plan:                                         *)
(*   dir, entry, sl      direction, reference entry and stop price         *)
(*   tps                 sequence of [price, frac], in the plan's order    *)
(*   beAt, beOffset      breakeven rule, in R (beAt = 0: off)              *)
(*   trailDist, trailR   trailing rule, absolute or in R (0: off)          *)
(*   timeBars            time stop, in candles (0: off)                    *)
RiskDistance(s) == Abs(s.entry - s.sl)

Reward(s, i) == Gain(s.dir, s.entry, s.tps[i].price)

Fractions(s) == [i \in DOMAIN s.tps |-> s.tps[i].frac]

(* ExitPlan.__post_init__, ExitPolicy and TakeProfit: what a strategy is   *)
(* able to construct at all.                                               *)
ValidPlan(s) ==
    /\ s.entry > 0 /\ s.sl > 0
    /\ s.tps # <<>>
    /\ Gain(s.dir, s.sl, s.entry) > 0
    /\ \A i \in DOMAIN s.tps : Reward(s, i) > 0 /\ s.tps[i].frac \in 1..Whole
    /\ SumFunction(Fractions(s)) <= Whole
    /\ \E i \in DOMAIN s.tps : Reward(s, i) >= MinRR * RiskDistance(s)
    /\ s.beAt >= 0 /\ s.trailDist >= 0 /\ s.trailR >= 0 /\ s.timeBars >= 0

(* __post_init__ of ManagedPosition, as both executors build it: nothing   *)
(* closed yet, best price and managed stop at their starting values.       *)
NewPosition(s, price, lots) ==
    [plan |-> s, entry |-> price, lots |-> lots, left |-> Whole, booked |-> 0,
     taken |-> {}, best |-> price, stop |-> s.sl, bars |-> 0]

GainOf(p, price) == Gain(p.plan.dir, p.entry, price)

(* update_excursion: the best price seen (max_favorable_price).            *)
UpdateExcursion(p, price) ==
    [p EXCEPT !.best = IF Gain(p.plan.dir, @, price) > 0 THEN price ELSE @]

(* _tighter_stop: of some stops the one furthest in the trade's favour.    *)
Tightest(dir, stops) == CHOOSE x \in stops : \A y \in stops : Gain(dir, x, y) <= 0

(* Stops the policy asks for at this moment: entry plus offset once the    *)
(* favourable excursion has reached beAt R, and the best price less the    *)
(* trailing distance (the absolute distance wins over the R one).          *)
TrailDistance(s) == IF s.trailDist > 0 THEN s.trailDist ELSE s.trailR * RiskDistance(s)

PolicyStops(p) ==
    LET s == p.plan
        r == RiskDistance(s)
    IN  {x \in {p.entry + Sign(s.dir) * s.beOffset * r} :
            s.beAt > 0 /\ GainOf(p, p.best) >= s.beAt * r}
        \cup
        {x \in {p.best - Sign(s.dir) * TrailDistance(s)} : TrailDistance(s) > 0}

(* apply_dynamic_stop: the managed stop only ever ratchets.                *)
ApplyDynamicStop(p) ==
    [p EXCEPT !.stop = Tightest(p.plan.dir, {@} \cup PolicyStops(p))]

(* Planted fault: a price at the stop does not hit it.                     *)
StopHit_Beyond(p, high, low) ==
    IF p.plan.dir = "LONG" THEN low < p.stop ELSE high > p.stop

StopHit(p, high, low) ==
    IF p.plan.dir = "LONG" THEN low <= p.stop ELSE high >= p.stop

TargetHit(p, i, high, low) ==
    IF p.plan.dir = "LONG" THEN high >= p.plan.tps[i].price ELSE low <= p.plan.tps[i].price

(* The targets this range reaches that have not fired before.              *)
Hits(p, high, low) ==
    {i \in DOMAIN p.plan.tps : i \notin p.taken /\ TargetHit(p, i, high, low)}

(* Target j is served before target i: nearer, or as near and listed first.*)
Before(p, j, i) ==
    \/ GainOf(p, p.plan.tps[j].price) < GainOf(p, p.plan.tps[i].price)
    \/ /\ p.plan.tps[j].price = p.plan.tps[i].price
       /\ j < i

(* What target i closes: its fraction, bounded by what the targets served  *)
(* before it leave of the position.                                        *)
TargetFraction(p, i, hits) ==
    LET ahead == SumFunctionOnSet(Fractions(p.plan), {j \in hits : Before(p, j, i)})
    IN  Max({0, Min({p.plan.tps[i].frac, p.left - ahead})})

(* evaluate_exit: the closes that a price range triggers, as a set of legs *)
(* (tp = 0: the stop).  The stop takes precedence and closes what remains; *)
(* otherwise the targets hit close their fractions, nearest first.         *)
EvaluateExit(p, high, low) ==
    LET hits == Hits(p, high, low)
    IN  IF StopHit(p, high, low)
        THEN {[tp |-> 0, price |-> p.stop, frac |-> p.left]}
        ELSE {leg \in {[tp |-> i, price |-> p.plan.tps[i].price,
                        frac |-> TargetFraction(p, i, hits)] : i \in hits} : leg.frac > 0}

Closed(legs) == SumFunction([leg \in legs |-> leg.frac])
Realized(p, legs) == SumFunction([leg \in legs |-> GainOf(p, leg.price) * leg.frac])

(* Planted fault: a target that closed its part is not crossed off.        *)
Book_KeepsTargets(p, legs) ==
    [p EXCEPT !.left = @ - Closed(legs), !.booked = @ + Realized(p, legs)]

(* Recording legs on a position: realized gain, targets taken, remainder.  *)
Book(p, legs) ==
    [p EXCEPT !.left   = @ - Closed(legs),
              !.booked = @ + Realized(p, legs),
              !.taken  = @ \cup ({leg.tp : leg \in legs} \ {0})]

Stopped(legs) == \E leg \in legs : leg.tp = 0

TimeStopReached(p) == p.plan.timeBars > 0 /\ p.bars >= p.plan.timeBars

=============================================================================
