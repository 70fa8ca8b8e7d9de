-------------------------------- MODULE Sizing --------------------------------
(***************************************************************************)
(* What a signal is to an executor, and how it is sized                    *)
(* (cfd_strategy/base.py, cfd_risk/position_sizing.py).                    *)
(***************************************************************************)
EXTENDS ExitRules

CONSTANTS
    Keys,           \* [name, inst, dir]: (strategy and variant, instrument, direction)
    Instruments,
    SizingBalance,  \* AccountConfig.initial_balance
    RiskPct,        \* effective_risk_per_trade_pct()
    MaxLot,         \* CFDInstrument.max_lot, in lot steps
    LotCost         \* calculate_trade_cost of one lot step

ASSUME AccountAssumption ==
    /\ \A k \in Keys : k.inst \in Instruments /\ k.dir \in Directions
    /\ SizingBalance \in Nat /\ RiskPct \in Nat /\ MaxLot \in Nat /\ LotCost \in Nat

(* A signal is an exit plan plus its key, entry mode and arm lifetime.     *)
SignalFields ==
    [key : Keys, dir : Directions, mode : {"CANDLE_CLOSE", "INTRABAR"},
     entry : Int, sl : Int, tps : Seq([price : Int, frac : Int]),
     beAt : Int, beOffset : Int, trailDist : Int, trailR : Int, timeBars : Int, expiry : Int]

ValidSignal(s) ==
    /\ s \in SignalFields /\ ValidPlan(s)
    /\ s.dir = s.key.dir
    /\ s.expiry >= 1

(* calculate_lot_size: the risk budget over the cost of the stop, rounded  *)
(* down to the lot step and clamped; less than one step is a rejection.    *)
LotSize(dist) ==
    IF dist = 0 THEN 0
    ELSE Min({MaxLot, (SizingBalance * RiskPct) \div (100 * dist * Whole)})

(* What a position loses if its stop is hit at its price.                  *)
StopRisk(s, price, lots) == lots * Abs(price - s.sl) * Whole

=============================================================================
