------------------------------- MODULE PaperOps -------------------------------
(***************************************************************************)
(* The paper executor of one account (cfd_execution/paper_executor.py) as  *)
(* operators on its state record, one per public method.  PaperExecutor is *)
(* the state machine over one such record.                                 *)
(*                                                                         *)
(*   guard      the account's RiskGuard                                    *)
(*   arms       _arms, in dictionary order: [sig, left] records            *)
(*   positions  _positions, in dictionary order                            *)
(*   open       _open_keys                                                 *)
(*   price      _last_price (0: no tick of that instrument yet)            *)
(*   opened     _trades_opened                                             *)
(*   closes     history: the closes of the last call                       *)
(*                                                                         *)
(* Money is counted in units of one price step of one unit of one lot, so  *)
(* that a full position of n lots moves n * Whole per price step.          *)
(* Persistence and notification only report a close and are left out.      *)
(***************************************************************************)
EXTENDS RiskGuardOps, Sizing, SequencesExt

NewExecutor ==
    [guard |-> NewGuard(SizingBalance), arms |-> <<>>, positions |-> <<>>,
     open |-> {}, price |-> [i \in Instruments |-> 0], opened |-> 0,
     closes |-> <<>>]

Quiet(x) == [x EXCEPT !.closes = <<>>]

(* _fill: size from the constant balance, ask the guard, open.             *)
Fill(x, s, price) ==
    LET lots == LotSize(Abs(price - s.sl))
        g    == CheckBreach(x.guard)
    IN  IF lots = 0 THEN x
        ELSE IF ~RiskAllowed(x.guard, StopRisk(s, price, lots)) THEN [x EXCEPT !.guard = g]
        ELSE [x EXCEPT !.guard     = g,
                       !.positions = Append(@, NewPosition(s, price, lots)),
                       !.open      = @ \cup {s.key},
                       !.opened    = @ + 1]

Armed(x, key) == \E i \in DOMAIN x.arms : x.arms[i].sig.key = key

NewArm(s) == [sig |-> s, left |-> s.expiry]

(* on_signal: ignored when the key is open, refreshes the arm when the key *)
(* is armed (whatever the new signal's mode), dropped when the guard says  *)
(* no; otherwise filled at once or armed.                                  *)
OnSignal(x0, s) ==
    LET x == Quiet(x0)
        g == CheckBreach(x.guard)
    IN  IF s.key \in x.open THEN x
        ELSE IF Armed(x, s.key) THEN
            [x EXCEPT !.arms = [i \in DOMAIN @ |->
                IF @[i].sig.key = s.key THEN NewArm(s) ELSE @[i]]]
        ELSE IF ~CanTrade(x.guard) THEN [x EXCEPT !.guard = g]
        ELSE IF s.mode = "CANDLE_CLOSE" THEN Fill([x EXCEPT !.guard = g], s, s.entry)
        ELSE [x EXCEPT !.guard = g, !.arms = Append(@, NewArm(s))]

Reached(arm, inst, price) ==
    /\ arm.sig.key.inst = inst
    /\ Gain(arm.sig.dir, arm.sig.entry, price) >= 0

(* One arm whose trigger was reached: filled at its trigger price, unless  *)
(* its key is open by now or the guard has stopped trading.                *)
FireArm(x, a) ==
    LET y == [x EXCEPT !.guard = CheckBreach(@)]
    IN  IF a.sig.key \in x.open THEN x
        ELSE IF CanTrade(x.guard) THEN Fill(y, a.sig, a.sig.entry)
        ELSE y

(* _check_arms: every arm that the price reached leaves the list.          *)
CheckArms(x, inst, price) ==
    FoldLeft(LAMBDA y, a : IF Reached(a, inst, price) THEN FireArm(y, a)
                           ELSE [y EXCEPT !.arms = Append(@, a)],
             [x EXCEPT !.arms = <<>>], x.arms)

(* Planted fault: the key of the closed position is not freed.             *)
ClosePosition_KeepsKey(x, p, reason) ==
    [x EXCEPT !.guard  = RealizePnl(@, p.booked * p.lots - LotCost * p.lots),
              !.closes = Append(@, [reason |-> reason, unbooked |-> p.left])]

(* _close_position: the sum of the recorded legs, less costs, is realized; *)
(* the key is free again.                                                  *)
ClosePosition(x, p, reason) ==
    [x EXCEPT !.guard  = RealizePnl(@, p.booked * p.lots - LotCost * p.lots),
              !.open   = @ \ {p.plan.key},
              !.closes = Append(@, [reason |-> reason, unbooked |-> p.left])]

(* One position leaves a pass over the positions kept as p, or closed.     *)
Settle(x, p, closed, reason) ==
    IF closed THEN ClosePosition(x, p, reason)
    ELSE [x EXCEPT !.positions = Append(@, p)]

(* _manage_positions for one position: excursion, dynamic stop, exits; the *)
(* position closes when nothing is left or when its stop was hit.          *)
ManageOne(x, p, price) ==
    LET moved == ApplyDynamicStop(UpdateExcursion(p, price))
        legs  == EvaluateExit(moved, price, price)
        q     == Book(moved, legs)
    IN  Settle(x, q, legs # {} /\ (q.left = 0 \/ Stopped(legs)),
               IF Stopped(legs) THEN "STOP_LOSS" ELSE "TAKE_PROFIT")

(* _apply_exit of all that remains at the last known price.                *)
CloseAtMarket(x, p, reason) ==
    LET price == IF x.price[p.plan.key.inst] = 0 THEN p.entry ELSE x.price[p.plan.key.inst]
    IN  ClosePosition(x, Book(p, {[tp |-> 0, price |-> price, frac |-> p.left]}), reason)

(* What on_candle_close does to one position: a candle older, and closed   *)
(* at the last known price when its time stop is up.  bars_open is only    *)
(* compared with the time stop, so it is counted no further than that.     *)
AgeOne(x, p) ==
    LET older == [p EXCEPT !.bars = Min({@ + 1, p.plan.timeBars})]
    IN  IF TimeStopReached(older) THEN CloseAtMarket(x, older, "TIME_STOP")
        ELSE Settle(x, older, FALSE, "")

(* flatten closes a position without a leg for what remains of it.         *)
Handled(x, p, call) ==
    CASE call.kind = "tick"    -> ManageOne(x, p, call.price)
      [] call.kind = "candle"  -> AgeOne(x, p)
      [] call.kind = "flatten" -> Settle(x, p, TRUE, call.reason)

(* The pass of a call over a snapshot of the positions, in order: those of *)
(* its instruments are kept or closed, the others are left alone.          *)
Pass(x, insts, call) ==
    FoldLeft(LAMBDA y, p : IF p.plan.key.inst \in insts THEN Handled(y, p, call)
                           ELSE Settle(y, p, FALSE, ""),
             [x EXCEPT !.positions = <<>>], x.positions)

(* _total_floating_pnl_usd, over all instruments that have a price.        *)
Floating(x) ==
    SumFunction([i \in DOMAIN x.positions |->
                    LET p     == x.positions[i]
                        price == x.price[p.plan.key.inst]
                    IN  IF price = 0 THEN 0 ELSE GainOf(p, price) * p.left * p.lots])

(* on_tick: record the price, fill the arms it reaches, manage the         *)
(* positions of the instrument, and only then mark the account to market.  *)
OnTick(x0, inst, price) ==
    LET x == CheckArms([Quiet(x0) EXCEPT !.price[inst] = price], inst, price)
        y == Pass(x, {inst}, [kind |-> "tick", price |-> price])
    IN  [y EXCEPT !.guard = MarkToMarket(@, Floating(y))]

(* Planted fault: a candle renews the arms instead of ageing them.         *)
AgeArms_Renews(x, inst) == [i \in DOMAIN x.arms |-> NewArm(x.arms[i].sig)]

(* Arms of the instrument lose one candle; at zero they are gone.          *)
AgeArms(x, inst) ==
    FoldLeft(LAMBDA kept, a :
                 IF a.sig.key.inst # inst THEN Append(kept, a)
                 ELSE IF a.left > 1 THEN Append(kept, [a EXCEPT !.left = @ - 1])
                 ELSE kept,
             <<>>, x.arms)

(* on_candle_close: age the instrument's arms, then its positions.         *)
OnCandleClose(x, inst) ==
    Pass([Quiet(x) EXCEPT !.arms = AgeArms(x, inst)], {inst}, [kind |-> "candle"])

(* flatten_all, flatten_instrument *)
FlattenAll(x, reason) ==
    Pass(Quiet(x), Instruments, [kind |-> "flatten", reason |-> reason])

FlattenInstrument(x, inst, reason) ==
    Pass(Quiet(x), {inst}, [kind |-> "flatten", reason |-> reason])

(* on_day_reset *)
OnDayReset(x, now) == [Quiet(x) EXCEPT !.guard = CheckDailyReset(@, now)]

=============================================================================
