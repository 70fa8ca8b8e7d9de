------------------------------ MODULE RiskGuard ------------------------------
(***************************************************************************)
(* One account's RiskGuard as the executors drive it: every public method  *)
(* that changes state is an action, with the argument its callers pass.    *)
(* History variables: `approved' is the risk of the trade check_trade_risk *)
(* just approved (NoTrade otherwise), `resets' counts the daily resets of  *)
(* this account and `restarts' the times it was started over.              *)
(***************************************************************************)
EXTENDS RiskGuardOps

CONSTANTS
    Balance,        \* the configured initial balance
    Pnls,           \* realized results a closed trade may book
    Floatings,      \* totals update_unrealized_pnl may be given
    Risks,          \* risks a proposed trade may have
    RealBalances,   \* balances a broker may report or an operator may set
    MaxTime,        \* bound on the clock
    MinBalance,     \* bounds on the balance
    MaxBalance,
    MaxResets,      \* bound on `resets'
    MaxRestarts,    \* bound on `restarts'
    NoTrade         \* "nothing approved by the last call"

ASSUME InputsAssumption ==
    /\ Balance \in Nat \ {0}
    /\ Pnls \subseteq Int
    /\ Floatings \subseteq Int
    /\ Risks \subseteq Nat
    /\ RealBalances \subseteq Nat \ {0}
    /\ MaxTime \in Nat
    /\ MinBalance \in Int
    /\ MaxBalance \in Int
    /\ MaxResets \in Nat
    /\ MaxRestarts \in Nat
    /\ NoTrade \notin Nat

VARIABLES guard, clock, approved, resets, restarts

vars == <<guard, clock, approved, resets, restarts>>

TypeOK ==
    /\ guard \in Guard
    /\ clock \in Nat
    /\ approved \in Risks \cup {NoTrade}
    /\ resets \in Nat
    /\ restarts \in Nat

(* The clock is far past the epoch, so _daily.reset_timestamp = 0 is long  *)
(* ago when the account starts.                                            *)
Init ==
    /\ guard = NewGuard(Balance)
    /\ clock = DayLength
    /\ approved = NoTrade
    /\ resets = 0
    /\ restarts = 0

AddRealizedPnl(pnl) ==
    /\ guard.balance + pnl \in MinBalance..MaxBalance
    /\ guard' = RealizePnl(guard, pnl)
    /\ approved' = NoTrade
    /\ UNCHANGED <<clock, resets, restarts>>

UpdateUnrealizedPnl(floating) ==
    /\ guard' = MarkToMarket(guard, floating)
    /\ approved' = NoTrade
    /\ UNCHANGED <<clock, resets, restarts>>

CheckTradeRisk(risk) ==
    /\ guard' = CheckBreach(guard)
    /\ approved' = IF RiskAllowed(guard, risk) THEN risk ELSE NoTrade
    /\ UNCHANGED <<clock, resets, restarts>>

(* check_daily_reset when a reset is due; when none is, it does nothing.   *)
DueDailyReset ==
    /\ resets < MaxResets
    /\ ResetDue(guard, clock)
    /\ guard' = DailyReset(guard, clock)
    /\ approved' = NoTrade
    /\ resets' = resets + 1
    /\ UNCHANGED <<clock, restarts>>

(* force_daily_reset: the same reset, at any instant.                      *)
ForceDailyReset ==
    /\ resets < MaxResets
    /\ guard' = DailyReset(guard, clock)
    /\ approved' = NoTrade
    /\ resets' = resets + 1
    /\ UNCHANGED <<clock, restarts>>

(* reset_account and _seed_balance start the account over.                 *)
StartOver(g) ==
    /\ restarts < MaxRestarts
    /\ guard' = g
    /\ approved' = NoTrade
    /\ resets' = 0
    /\ restarts' = restarts + 1
    /\ UNCHANGED clock

ResetAccount(b) == StartOver(NewGuard(b))

Seed(b) == StartOver(SeedBalance(guard, b))

ClockTick ==
    /\ clock < MaxTime
    /\ clock' = clock + 1
    /\ UNCHANGED <<guard, approved, resets, restarts>>

Next ==
    \/ \E p \in Pnls : AddRealizedPnl(p)
    \/ \E f \in Floatings : UpdateUnrealizedPnl(f)
    \/ \E r \in Risks : CheckTradeRisk(r)
    \/ DueDailyReset
    \/ ForceDailyReset
    \/ \E b \in RealBalances : ResetAccount(b) \/ Seed(b)
    \/ ClockTick

Spec == Init /\ [][Next]_vars

-----------------------------------------------------------------------------
(* An account the guard has not blown really is above its floor: no order  *)
(* of closes, marks, resets and checks lets equity rest on or below the    *)
(* floor without the breach being declared, also while halted for the day. *)
AboveFloorUnlessBreached ==
    guard.status # "MAX_DD_BREACH" => 100 * Equity(guard) > guard.floor

(* The daily halt is declared at most once between two daily resets, and   *)
(* an account that is ACTIVE has had a reset since its last halt.          *)
OneHaltPerDay ==
    guard.halts <= resets + (IF guard.status = "ACTIVE" THEN 0 ELSE 1)

(* If the trade check_trade_risk just approved went to its full loss at    *)
(* once, today's loss would still be within the daily limit.               *)
ApprovedLossFitsDailyBudget ==
    approved # NoTrade =>
        100 * (guard.sod - (Equity(guard) - approved)) <= guard.sod * DailyDDPct

(* The guard is a trading gate: whatever the calls, a halt is lifted by a  *)
(* daily reset only and a blown account only by starting over.             *)
Gate == INSTANCE TradingGate WITH gate <- guard.status, days <- resets, lives <- restarts

GateSpec == Gate!Spec

=============================================================================
