---------------------------- MODULE RiskGuardOps ----------------------------
(***************************************************************************)
(* The arithmetic of the prop-firm risk guard (cfd_risk/risk_guard.py) as  *)
(* operators on a guard record, so that the guard's own state machine      *)
(* (RiskGuard) and the executors that embed a guard share one translation. *)
(*                                                                         *)
(* Money is an integer number of account units.  Percent limits are kept   *)
(* exact by comparing hundredths: the code's                               *)
(*     equity <= balance * (1 - max_dd_pct / 100)                          *)
(* is  100 * equity <= floor  with  floor = balance * (100 - MaxDDPct).    *)
(* Time is an integer; a trading day is DayLength instants long and the    *)
(* reset falls ResetAt instants into it.  Counters that are only reported  *)
(* (peak balance, totals, lowest equity, trades today) are left out.       *)
(***************************************************************************)
EXTENDS Integers

CONSTANTS
    DailyDDPct,     \* RiskGuardConfig.daily_dd_pct
    MaxDDPct,       \* RiskGuardConfig.max_dd_pct
    MaxRiskPct,     \* RiskGuardConfig.max_risk_per_trade_pct
    DayLength,      \* instants per calendar day of the reset time zone
    ResetAt         \* reset_hour:reset_minute, as an instant of that day

ASSUME LimitsAssumption ==
    /\ DailyDDPct \in 1..100
    /\ MaxDDPct \in 1..100
    /\ MaxRiskPct \in 0..100

ASSUME ClockAssumption ==
    /\ DayLength \in Nat \ {0}
    /\ ResetAt \in 0..(DayLength - 1)

Status == {"ACTIVE", "DAILY_HALT", "MAX_DD_BREACH"}

Guard == [initial    : Int,     \* config.initial_balance, the sizing base
          balance    : Int,
          unrealized : Int,
          floor      : Int,     \* _max_dd_floor, in hundredths
          sod        : Int,     \* _daily.start_of_day_equity
          resetAt    : Int,     \* _daily.reset_timestamp
          halts      : Nat,     \* _daily_halts
          status     : Status]

(* __init__ : the guard of an account configured with balance b.           *)
NewGuard(b) ==
    [initial |-> b, balance |-> b, unrealized |-> 0,
     floor |-> b * (100 - MaxDDPct), sod |-> b, resetAt |-> 0,
     halts |-> 0, status |-> "ACTIVE"]

Equity(g) == g.balance + g.unrealized

AtMaxDD(g)   == 100 * Equity(g) <= g.floor
AtDailyDD(g) == 100 * (g.sod - Equity(g)) >= g.sod * DailyDDPct

(* Planted fault: the early return for a halted account comes first, so    *)
(* the maximum drawdown is no longer looked at while halted.               *)
StatusAfterCheck_HaltFirst(g) ==
    IF g.status # "ACTIVE" THEN g.status
    ELSE IF AtMaxDD(g) THEN "MAX_DD_BREACH"
    ELSE IF AtDailyDD(g) THEN "DAILY_HALT"
    ELSE "ACTIVE"

(* Planted fault: the blown state is not remembered; it follows equity.    *)
StatusAfterCheck_Recovers(g) ==
    IF AtMaxDD(g) THEN "MAX_DD_BREACH"
    ELSE IF AtDailyDD(g) \/ g.status = "DAILY_HALT" THEN "DAILY_HALT"
    ELSE "ACTIVE"

(* Planted fault: a status the enumeration does not have.                  *)
StatusAfterCheck_Renamed(g) ==
    IF g.status # "MAX_DD_BREACH" /\ AtMaxDD(g) THEN "BLOWN"
    ELSE IF g.status = "ACTIVE" /\ AtDailyDD(g) THEN "DAILY_HALT"
    ELSE g.status

(* The status _check_dd_breach leaves behind: a blown account stays blown, *)
(* the maximum drawdown is looked at before the daily one, and a halted    *)
(* account is only looked at for the maximum drawdown.                     *)
StatusAfterCheck(g) ==
    IF g.status # "MAX_DD_BREACH" /\ AtMaxDD(g) THEN "MAX_DD_BREACH"
    ELSE IF g.status = "ACTIVE" /\ AtDailyDD(g) THEN "DAILY_HALT"
    ELSE g.status

(* Planted fault: every check of a halted account counts one more halt.    *)
HaltsAfterCheck_Recounts(g) ==
    IF StatusAfterCheck(g) = "DAILY_HALT" THEN g.halts + 1 ELSE g.halts

(* A halt is counted when it is declared, not while it lasts.              *)
HaltsAfterCheck(g) ==
    IF g.status = "ACTIVE" /\ StatusAfterCheck(g) = "DAILY_HALT"
    THEN g.halts + 1 ELSE g.halts

CheckBreach(g) ==
    [g EXCEPT !.status = StatusAfterCheck(g), !.halts = HaltsAfterCheck(g)]

(* Planted fault: only a blown account may not trade.                      *)
CanTrade_BlownOnly(g) == StatusAfterCheck(g) # "MAX_DD_BREACH"

(* can_trade() runs the check, then answers from the status it left.       *)
CanTrade(g) == StatusAfterCheck(g) = "ACTIVE"

Pos(n) == IF n > 0 THEN n ELSE 0

(* Planted fault: the budget left ignores what the day has already lost.   *)
DailyRemaining_WholeDay(g) == Pos(g.sod * DailyDDPct)

(* daily_dd_remaining_usd, in hundredths.                                  *)
DailyRemaining(g) == Pos(g.sod * DailyDDPct - 100 * Pos(g.sod - Equity(g)))

(* check_trade_risk(risk): halted, above the per-trade limit, or above     *)
(* what is left of today's drawdown budget means no.                       *)
RiskAllowed(g, risk) ==
    /\ CanTrade(g)
    /\ 100 * risk <= g.initial * MaxRiskPct
    /\ 100 * risk <= DailyRemaining(g)

RealizePnl(g, pnl) == CheckBreach([g EXCEPT !.balance = @ + pnl])

MarkToMarket(g, floating) == CheckBreach([g EXCEPT !.unrealized = floating])

(* today_reset of check_daily_reset: the reset instant of now's own day.   *)
TodayReset(now) == (now \div DayLength) * DayLength + ResetAt

ResetDue(g, now) == TodayReset(now) > g.resetAt /\ now >= TodayReset(now)

(* _perform_daily_reset: the day's reference is the higher of balance and  *)
(* equity; a daily halt is lifted, a blown account is not.                 *)
DailyReset(g, now) ==
    [g EXCEPT !.sod     = IF g.unrealized > 0 THEN Equity(g) ELSE g.balance,
              !.resetAt = now,
              !.status  = IF @ = "DAILY_HALT" THEN "ACTIVE" ELSE @]

CheckDailyReset(g, now) == IF ResetDue(g, now) THEN DailyReset(g, now) ELSE g

(* _seed_balance: drawdown is measured from the broker's balance, sizing   *)
(* keeps the configured one.                                               *)
SeedBalance(g, real) == [NewGuard(real) EXCEPT !.initial = g.initial]

=============================================================================
