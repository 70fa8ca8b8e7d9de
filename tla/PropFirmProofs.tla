--------------------------- MODULE PropFirmProofs ----------------------------
(***************************************************************************)
(* Proofs about the two places that apply a prop firm's rules: the live    *)
(* guard, for every account, limit and sequence of calls, and the          *)
(* simulators of a challenge, for every stream of trades and rules.        *)
(*                                                                         *)
(* Of the guard, the lemmas say what the record operators of RiskGuardOps  *)
(* return; the invariants then need one short case per action.  Of the     *)
(* simulators, they say how each account of a simulator stands to the      *)
(* account beside it, and that every event of a slot keeps it so.          *)
(***************************************************************************)
EXTENDS RiskGuard, Challenge, FoldLemmas

(* Two guard records with the same money and the same day.                 *)
SameAccount(g, h) ==
    /\ g.initial = h.initial
    /\ g.balance = h.balance
    /\ g.unrealized = h.unrealized
    /\ g.floor = h.floor
    /\ g.sod = h.sod
    /\ g.resetAt = h.resetAt

(* A check of a guard record yields a guard record that differs in status  *)
(* and halt count only.                                                    *)
LEMMA CheckBreachType ==
    ASSUME NEW g \in Guard
    PROVE  /\ CheckBreach(g) \in Guard
           /\ CheckBreach(g).status = StatusAfterCheck(g)
           /\ StatusAfterCheck(g) \in Status
           /\ SameAccount(CheckBreach(g), g)
<1>1. StatusAfterCheck(g) \in Status
  BY DEF StatusAfterCheck, Guard, Status
<1> DEFINE halts == HaltsAfterCheck(g)
<1>a. halts \in Nat
  BY DEF HaltsAfterCheck, Guard
<1>2. CheckBreach(g) \in Guard
  <2>1. CheckBreach(g) = [g EXCEPT !.status = StatusAfterCheck(g), !.halts = halts]
    BY DEF CheckBreach
  <2> HIDE DEF halts
  <2>2. QED  BY <1>1, <1>a, <2>1 DEF Guard
<1>3. CheckBreach(g).status = StatusAfterCheck(g)
  BY DEF CheckBreach, Guard
<1>4. SameAccount(CheckBreach(g), g)
  BY DEF CheckBreach, Guard, SameAccount
<1>5. QED  BY <1>1, <1>2, <1>3, <1>4

(* A fresh guard record is one.                                            *)
LEMMA NewGuardType ==
    ASSUME NEW b \in Int
    PROVE  NewGuard(b) \in Guard
  BY LimitsAssumption DEF NewGuard, Guard, Status

LEMMA SeedType ==
    ASSUME NEW g \in Guard, NEW b \in Int
    PROVE  SeedBalance(g, b) \in Guard
  BY LimitsAssumption DEF SeedBalance, NewGuard, Guard, Status

(* Every update of balance, floating or day keeps a guard record one.      *)
LEMMA UpdateTypes ==
    ASSUME NEW g \in Guard, NEW n \in Int
    PROVE  /\ [g EXCEPT !.balance = @ + n] \in Guard
           /\ [g EXCEPT !.unrealized = n] \in Guard
           /\ DailyReset(g, n) \in Guard
<1>1. [g EXCEPT !.balance = @ + n] \in Guard
  BY DEF Guard
<1>2. [g EXCEPT !.unrealized = n] \in Guard
  BY DEF Guard
<1>3. DailyReset(g, n) \in Guard
  <2> DEFINE sod == IF g.unrealized > 0 THEN Equity(g) ELSE g.balance
             status == IF g.status = "DAILY_HALT" THEN "ACTIVE" ELSE g.status
  <2>1. sod \in Int
    BY DEF Guard, Equity
  <2>2. status \in Status
    BY DEF Guard, Status
  <2>3. DailyReset(g, n) = [g EXCEPT !.sod = sod, !.resetAt = n, !.status = status]
    BY DEF DailyReset
  <2> HIDE DEF sod, status
  <2>4. QED  BY <2>1, <2>2, <2>3 DEF Guard
<1>4. QED  BY <1>1, <1>2, <1>3

(* TypeOK holds in every reachable state: no sequence of guard calls       *)
(* leaves the four statuses and counters out of their range.               *)
THEOREM TypeCorrect == Spec => []TypeOK
<1>1. Init => TypeOK
  BY NewGuardType, InputsAssumption, ClockAssumption DEF Init, TypeOK
<1>2. TypeOK /\ [Next]_vars => TypeOK'
  <2> SUFFICES ASSUME TypeOK, [Next]_vars
               PROVE  TypeOK'
    OBVIOUS
  <2> USE DEF TypeOK
  <2>1. ASSUME NEW p \in Pnls, AddRealizedPnl(p)
        PROVE  TypeOK'
    <3>1. [guard EXCEPT !.balance = @ + p] \in Guard
      BY UpdateTypes, InputsAssumption
    <3>2. guard' \in Guard
      BY <2>1, <3>1, CheckBreachType DEF AddRealizedPnl, RealizePnl
    <3>3. QED  BY <2>1, <3>2 DEF AddRealizedPnl
  <2>2. ASSUME NEW f \in Floatings, UpdateUnrealizedPnl(f)
        PROVE  TypeOK'
    <3>1. [guard EXCEPT !.unrealized = f] \in Guard
      BY UpdateTypes, InputsAssumption
    <3>2. guard' \in Guard
      BY <2>2, <3>1, CheckBreachType DEF UpdateUnrealizedPnl, MarkToMarket
    <3>3. QED  BY <2>2, <3>2 DEF UpdateUnrealizedPnl
  <2>3. ASSUME NEW r \in Risks, CheckTradeRisk(r)
        PROVE  TypeOK'
    BY <2>3, CheckBreachType DEF CheckTradeRisk
  <2>4. CASE DueDailyReset
    <3>1. clock \in Int
      OBVIOUS
    <3>2. DailyReset(guard, clock) \in Guard
      BY <3>1, UpdateTypes
    <3>3. QED  BY <2>4, <3>2 DEF DueDailyReset
  <2>5. CASE ForceDailyReset
    <3>1. clock \in Int
      OBVIOUS
    <3>2. DailyReset(guard, clock) \in Guard
      BY <3>1, UpdateTypes
    <3>3. QED  BY <2>5, <3>2 DEF ForceDailyReset
  <2>6. ASSUME NEW b \in RealBalances, ResetAccount(b) \/ Seed(b)
        PROVE  TypeOK'
    BY <2>6, NewGuardType, SeedType, InputsAssumption DEF ResetAccount, Seed, StartOver
  <2>7. CASE ClockTick
    BY <2>7 DEF ClockTick
  <2>8. CASE UNCHANGED vars
    BY <2>8 DEF vars
  <2>9. QED
    BY <2>1, <2>2, <2>3, <2>4, <2>5, <2>6, <2>7, <2>8 DEF Next
<1>3. QED  BY <1>1, <1>2, PTL DEF Spec

-----------------------------------------------------------------------------
(* The two invariants about drawdown are inductive together with TypeOK.   *)
DrawdownInv == AboveFloorUnlessBreached /\ OneHaltPerDay

(* After a check the account is above its floor, or declared blown; and    *)
(* the halt count grew only if the halt is new.                            *)
LEMMA CheckBreachEffect ==
    ASSUME NEW g \in Guard
    PROVE  /\ CheckBreach(g).status # "MAX_DD_BREACH" =>
                  100 * Equity(CheckBreach(g)) > CheckBreach(g).floor
           /\ \/ CheckBreach(g).status = g.status /\ CheckBreach(g).halts = g.halts
              \/ /\ g.status = "ACTIVE"
                 /\ CheckBreach(g).status = "DAILY_HALT"
                 /\ CheckBreach(g).halts = g.halts + 1
              \/ /\ g.status # "MAX_DD_BREACH"
                 /\ CheckBreach(g).status = "MAX_DD_BREACH"
                 /\ CheckBreach(g).halts = g.halts
<1> DEFINE h == CheckBreach(g)
<1>1. h.status = StatusAfterCheck(g) /\ SameAccount(h, g)
  BY CheckBreachType
<1>2. h.halts = HaltsAfterCheck(g)
  BY DEF CheckBreach, Guard
<1>3. Equity(h) = Equity(g) /\ h.floor = g.floor
  BY <1>1 DEF SameAccount, Equity
<1>4. Equity(g) \in Int /\ g.floor \in Int
  BY DEF Equity, Guard
<1> HIDE DEF h
<1>5. h.status # "MAX_DD_BREACH" => 100 * Equity(h) > h.floor
  BY <1>1, <1>3, <1>4 DEF StatusAfterCheck, AtMaxDD
<1>6. \/ h.status = g.status /\ h.halts = g.halts
      \/ g.status = "ACTIVE" /\ h.status = "DAILY_HALT" /\ h.halts = g.halts + 1
      \/ /\ g.status # "MAX_DD_BREACH"
         /\ h.status = "MAX_DD_BREACH"
         /\ h.halts = g.halts
  BY <1>1, <1>2 DEF StatusAfterCheck, HaltsAfterCheck
<1>7. QED  BY <1>5, <1>6 DEF h

(* A positive balance starts above its own floor.                          *)
LEMMA NewGuardAboveFloor ==
    ASSUME NEW b \in Nat \ {0}
    PROVE  100 * Equity(NewGuard(b)) > NewGuard(b).floor
<1>1. b * (100 - MaxDDPct) < 100 * b
  <2>1. MaxDDPct \in Int /\ MaxDDPct >= 1
    BY LimitsAssumption
  <2>2. b * MaxDDPct >= b
    BY <2>1
  <2>3. b * (100 - MaxDDPct) = 100 * b - b * MaxDDPct
    BY <2>1
  <2>4. QED  BY <2>1, <2>2, <2>3
<1>2. QED  BY <1>1 DEF NewGuard, Equity

(* A daily reset moves no money and clears nothing but a daily halt.       *)
LEMMA DailyResetEffect ==
    ASSUME NEW g \in Guard, NEW n \in Int
    PROVE  /\ Equity(DailyReset(g, n)) = Equity(g)
           /\ DailyReset(g, n).floor = g.floor
           /\ DailyReset(g, n).halts = g.halts
           /\ DailyReset(g, n).status \in {g.status, "ACTIVE"}
           /\ g.status = "MAX_DD_BREACH" => DailyReset(g, n).status = "MAX_DD_BREACH"
           /\ DailyReset(g, n).status # "DAILY_HALT"
  BY DEF DailyReset, Guard, Equity

(* What any step does to the guard: a check after some money moved, a      *)
(* daily reset, a fresh start, or nothing.                                 *)
LEMMA StepEffect ==
    ASSUME TypeOK, [Next]_vars
    PROVE  \/ /\ \E g \in Guard : /\ g.status = guard.status
                                   /\ g.halts = guard.halts
                                   /\ guard' = CheckBreach(g)
              /\ UNCHANGED <<resets, restarts>>
           \/ /\ \E n \in Int : guard' = DailyReset(guard, n)
              /\ resets' = resets + 1 /\ UNCHANGED restarts
           \/ /\ \E b \in Nat \ {0} : /\ guard'.status = "ACTIVE"
                                      /\ guard'.halts = 0
                                      /\ Equity(guard') = Equity(NewGuard(b))
                                      /\ guard'.floor = NewGuard(b).floor
              /\ resets' = 0 /\ restarts' = restarts + 1
           \/ UNCHANGED <<guard, resets, restarts>>
<1> USE DEF TypeOK
<1>1. ASSUME NEW p \in Pnls, AddRealizedPnl(p)
      PROVE  \E g \in Guard : /\ g.status = guard.status
                             /\ g.halts = guard.halts
                             /\ guard' = CheckBreach(g)
  <2> DEFINE g == [guard EXCEPT !.balance = @ + p]
  <2>1. g \in Guard
    BY UpdateTypes, InputsAssumption
  <2>2. g.status = guard.status /\ g.halts = guard.halts
    BY DEF Guard
  <2>3. guard' = CheckBreach(g)
    BY <1>1 DEF AddRealizedPnl, RealizePnl
  <2>4. QED  BY <2>1, <2>2, <2>3
<1>2. ASSUME NEW f \in Floatings, UpdateUnrealizedPnl(f)
      PROVE  \E g \in Guard : /\ g.status = guard.status
                             /\ g.halts = guard.halts
                             /\ guard' = CheckBreach(g)
  <2> DEFINE g == [guard EXCEPT !.unrealized = f]
  <2>1. g \in Guard
    BY UpdateTypes, InputsAssumption
  <2>2. g.status = guard.status /\ g.halts = guard.halts
    BY DEF Guard
  <2>3. guard' = CheckBreach(g)
    BY <1>2 DEF UpdateUnrealizedPnl, MarkToMarket
  <2>4. QED  BY <2>1, <2>2, <2>3
<1>3. ASSUME NEW r \in Risks, CheckTradeRisk(r)
      PROVE  guard' = CheckBreach(guard)
  BY <1>3 DEF CheckTradeRisk
<1>4. CASE DueDailyReset \/ ForceDailyReset
  BY <1>4 DEF DueDailyReset, ForceDailyReset
<1>5. ASSUME NEW b \in RealBalances, ResetAccount(b) \/ Seed(b)
      PROVE  /\ guard'.status = "ACTIVE"
             /\ guard'.halts = 0
             /\ Equity(guard') = Equity(NewGuard(b))
             /\ guard'.floor = NewGuard(b).floor
             /\ resets' = 0 /\ restarts' = restarts + 1
  BY <1>5 DEF ResetAccount, Seed, StartOver, SeedBalance, NewGuard, Equity
<1>6. CASE ClockTick \/ UNCHANGED vars
  BY <1>6 DEF ClockTick, vars
<1>7. ASSUME NEW p \in Pnls, AddRealizedPnl(p)
      PROVE  UNCHANGED <<resets, restarts>>
  BY <1>7 DEF AddRealizedPnl
<1>8. ASSUME NEW f \in Floatings, UpdateUnrealizedPnl(f)
      PROVE  UNCHANGED <<resets, restarts>>
  BY <1>8 DEF UpdateUnrealizedPnl
<1>9. ASSUME NEW r \in Risks, CheckTradeRisk(r)
      PROVE  UNCHANGED <<resets, restarts>>
  BY <1>9 DEF CheckTradeRisk
<1>10. CASE \E p \in Pnls : AddRealizedPnl(p)
  BY <1>10, <1>1, <1>7
<1>11. CASE \E f \in Floatings : UpdateUnrealizedPnl(f)
  BY <1>11, <1>2, <1>8
<1>12. CASE \E r \in Risks : CheckTradeRisk(r)
  BY <1>12, <1>3, <1>9
<1>13. CASE \E b \in RealBalances : ResetAccount(b) \/ Seed(b)
  BY <1>13, <1>5, InputsAssumption
<1>14. QED
  BY <1>4, <1>6, <1>10, <1>11, <1>12, <1>13 DEF Next

(* In every reachable state an account that is not blown is above its      *)
(* floor, and halts are declared at most once per trading day.             *)
THEOREM DrawdownSafe == Spec => [](AboveFloorUnlessBreached /\ OneHaltPerDay)
<1>1. Init => DrawdownInv
  <2> SUFFICES ASSUME Init  PROVE DrawdownInv
    OBVIOUS
  <2>1. AboveFloorUnlessBreached
    BY NewGuardAboveFloor, InputsAssumption DEF Init, AboveFloorUnlessBreached
  <2>2. OneHaltPerDay
    BY DEF Init, OneHaltPerDay, NewGuard
  <2>3. QED  BY <2>1, <2>2 DEF DrawdownInv
<1>2. TypeOK /\ TypeOK' /\ DrawdownInv /\ [Next]_vars => DrawdownInv'
  <2> SUFFICES ASSUME TypeOK, TypeOK', DrawdownInv, [Next]_vars
               PROVE  DrawdownInv'
    OBVIOUS
  <2> USE DEF DrawdownInv, AboveFloorUnlessBreached, OneHaltPerDay
  <2>t. /\ resets \in Nat /\ resets' \in Nat
        /\ guard \in Guard
        /\ guard.halts \in Nat /\ guard'.halts \in Nat
        /\ guard.status \in Status /\ guard'.status \in Status
    BY DEF TypeOK, Guard
  <2>1. ASSUME NEW g \in Guard, g.status = guard.status, g.halts = guard.halts,
               guard' = CheckBreach(g), UNCHANGED <<resets, restarts>>
        PROVE  DrawdownInv'
    <3>1. AboveFloorUnlessBreached'
      BY <2>1, CheckBreachEffect
    <3>2. OneHaltPerDay'
      BY <2>1, <2>t, CheckBreachEffect DEF Status
    <3>3. QED  BY <3>1, <3>2
  <2>2. ASSUME NEW n \in Int, guard' = DailyReset(guard, n), resets' = resets + 1
        PROVE  DrawdownInv'
    <3>1. AboveFloorUnlessBreached'
      BY <2>2, <2>t, DailyResetEffect DEF Status
    <3>2. OneHaltPerDay'
      BY <2>2, <2>t, DailyResetEffect DEF Status
    <3>3. QED  BY <3>1, <3>2
  <2>3. ASSUME NEW b \in Nat \ {0}, guard'.status = "ACTIVE", guard'.halts = 0,
               Equity(guard') = Equity(NewGuard(b)),
               guard'.floor = NewGuard(b).floor, resets' = 0
        PROVE  DrawdownInv'
    BY <2>3, NewGuardAboveFloor
  <2>4. CASE UNCHANGED <<guard, resets, restarts>>
    BY <2>4
  <2>5. QED  BY <2>1, <2>2, <2>3, <2>4, StepEffect
<1>3. DrawdownInv => AboveFloorUnlessBreached /\ OneHaltPerDay
  BY DEF DrawdownInv
<1>4. QED  BY <1>1, <1>2, <1>3, TypeCorrect, PTL DEF Spec

(* No order of closes, marks, checks and resets counts a second halt in    *)
(* one trading day, or leaves an account ACTIVE that was halted since its  *)
(* last reset.                                                             *)
THEOREM HaltsOncePerDay == Spec => []OneHaltPerDay
  BY DrawdownSafe, PTL

(* A trade the guard approves may go to its full loss at once and the      *)
(* day's loss still stays within the daily limit.                          *)
THEOREM ApprovalSafe == Spec => []ApprovedLossFitsDailyBudget
<1>1. Init => ApprovedLossFitsDailyBudget
  BY DEF Init, ApprovedLossFitsDailyBudget
<1>2. TypeOK /\ ApprovedLossFitsDailyBudget /\ [Next]_vars
          => ApprovedLossFitsDailyBudget'
  <2> SUFFICES ASSUME TypeOK, ApprovedLossFitsDailyBudget, [Next]_vars
               PROVE  ApprovedLossFitsDailyBudget'
    OBVIOUS
  <2> USE DEF ApprovedLossFitsDailyBudget
  <2>1. ASSUME NEW r \in Risks, CheckTradeRisk(r), approved' # NoTrade
        PROVE  ApprovedLossFitsDailyBudget'
    <3> DEFINE loss  == guard.sod - Equity(guard)
               limit == guard.sod * DailyDDPct
    <3>1. RiskAllowed(guard, r) /\ approved' = r /\ guard' = CheckBreach(guard)
      BY <2>1 DEF CheckTradeRisk
    <3>2. guard'.sod = guard.sod /\ Equity(guard') = Equity(guard)
      BY <3>1, CheckBreachType DEF TypeOK, SameAccount, Equity
    <3>3. loss \in Int /\ limit \in Int /\ r \in Nat
                /\ guard.sod \in Int /\ Equity(guard) \in Int
      BY LimitsAssumption, InputsAssumption DEF TypeOK, Guard, Equity
    <3>4. 100 * r <= Pos(limit - 100 * Pos(loss))
      BY <3>1 DEF RiskAllowed, DailyRemaining
    <3>5. 100 * loss < limit
      BY <3>1, <3>3 DEF RiskAllowed, CanTrade, StatusAfterCheck, AtDailyDD
    <3>6. 100 * (loss + r) <= limit
      <4> HIDE DEF loss, limit
      <4>1. QED  BY <3>3, <3>4, <3>5 DEF Pos
    <3>7. guard'.sod - (Equity(guard') - approved') = loss + r
      BY <3>1, <3>2, <3>3
    <3>8. QED  BY <3>1, <3>2, <3>6, <3>7
  <2>2. CASE approved' = NoTrade
    BY <2>2
  <2>3. CASE UNCHANGED <<guard, approved>>
    BY <2>3
  <2>4. QED
    BY <2>1, <2>2, <2>3
    DEF Next, AddRealizedPnl, UpdateUnrealizedPnl, DueDailyReset, ForceDailyReset,
        ResetAccount, Seed, StartOver, ClockTick, vars
<1>3. QED  BY <1>1, <1>2, TypeCorrect, PTL DEF Spec

(* The guard implements the three-state gate: a halt is lifted by a daily  *)
(* reset only, a blown account is opened by starting over only.            *)
THEOREM ImplementsGate == Spec => GateSpec
<1>1. Init => Gate!Init
  BY DEF Init, NewGuard, Gate!Init
<1>2. TypeOK /\ [Next]_vars => [Gate!Next]_(Gate!vars)
  <2> SUFFICES ASSUME TypeOK, [Next]_vars
               PROVE  [Gate!Next]_(Gate!vars)
    OBVIOUS
  <2> USE DEF Gate!Next, Gate!vars, Gate!Halt, Gate!Blow, Gate!NewDay, Gate!StartOver
  <2>1. ASSUME NEW g \in Guard, g.status = guard.status, guard' = CheckBreach(g),
               UNCHANGED <<resets, restarts>>
        PROVE  [Gate!Next]_(Gate!vars)
    BY <2>1, CheckBreachEffect
  <2>2. ASSUME NEW n \in Int, guard' = DailyReset(guard, n),
               resets' = resets + 1, UNCHANGED restarts
        PROVE  [Gate!Next]_(Gate!vars)
    BY <2>2, DailyResetEffect DEF TypeOK
  <2>3. ASSUME guard'.status = "ACTIVE", resets' = 0, restarts' = restarts + 1
        PROVE  [Gate!Next]_(Gate!vars)
    BY <2>3
  <2>4. CASE UNCHANGED <<guard, resets, restarts>>
    BY <2>4
  <2>5. QED  BY <2>1, <2>2, <2>3, <2>4, StepEffect
<1>3. QED  BY <1>1, <1>2, TypeCorrect, PTL DEF Spec, GateSpec, Gate!Spec

-----------------------------------------------------------------------------
(* The challenge simulators.                                               *)
Trades ==
    {t \in [id : Nat, ret : Int, mae : Nat, inst : Instruments, at : Nat] : t.ret >= -t.mae}

Holdings == {S \in SUBSET Trades : IsFiniteSet(S)}

Accounts ==
    [equity : Int, peak : Int, worst : Int, day : Int, sod : Int, days : SUBSET Int,
     held : Holdings, today : Int, start : Int, from : Int]

Sims == [phase : {1, 2}, verdict : Verdicts, acct : Accounts]

Truths == [acct : Accounts, maxHit : BOOLEAN, dayHit : BOOLEAN]

(* What may be lost on the trades held: the adverse excursions of all.     *)
LEMMA AdverseIsSum ==
    ASSUME NEW H \in Holdings
    PROVE  Adverse(H) = SumFunctionOnSet([t \in Trades |-> t.mae], H)
  <1> DEFINE f == [t \in Trades |-> t.mae]
             g == [t \in H |-> t.mae]
             id == [t \in H |-> t]
  <1>1. H \in SUBSET Trades /\ IsFiniteSet(H)
    BY DEF Holdings
  <1>2. f \in [Trades -> Int] /\ g \in [H -> Int]
    BY <1>1 DEF Trades
  <1>3. Renames(id, H, H, f, g)
    BY <1>1 DEF Renames
  <1>4. SumFunctionOnSet(g, H) = SumFunctionOnSet(f, H)
    <2> HIDE DEF f, g, id
    <2> QED
      BY <1>1, <1>2, <1>3, SumOfNames
  <1> QED
    BY <1>4 DEF Adverse

LEMMA AdverseType ==
    ASSUME NEW H \in Holdings
    PROVE  Adverse(H) \in Nat
  <1> DEFINE f == [t \in Trades |-> t.mae]
  <1>1. H \in SUBSET Trades /\ IsFiniteSet(H) /\ f \in [Trades -> Int]
    BY DEF Holdings, Trades
  <1>2. \A t \in H : f[t] >= 0
    BY <1>1 DEF Trades
  <1> HIDE DEF f
  <1>3. SumFunctionOnSet(f, H) \in Int /\ SumFunctionOnSet(f, H) >= 0
    BY <1>1, <1>2, SumType, SumNonnegative
  <1> QED
    BY <1>3, AdverseIsSum DEF f

LEMMA AdverseTakes ==
    ASSUME NEW H \in Holdings, NEW t \in H
    PROVE  H \ {t} \in Holdings /\ t \in Trades /\ Adverse(H) = t.mae + Adverse(H \ {t})
  <1> DEFINE f == [x \in Trades |-> x.mae]
  <1>1. H \in SUBSET Trades /\ IsFiniteSet(H) /\ f \in [Trades -> Int]
    BY DEF Holdings, Trades
  <1>2. H \ {t} \in Holdings
    BY <1>1, FS_Subset DEF Holdings
  <1>3. f[t] = t.mae /\ t \in Trades
    BY <1>1
  <1> HIDE DEF f
  <1>4. SumFunctionOnSet(f, H) = f[t] + SumFunctionOnSet(f, H \ {t})
    BY <1>1, SumTakes
  <1> QED
    BY <1>2, <1>3, <1>4, AdverseIsSum DEF f

LEMMA AdverseAdds ==
    ASSUME NEW H \in Holdings, NEW t \in Trades, t \notin H
    PROVE  H \cup {t} \in Holdings /\ Adverse(H \cup {t}) = t.mae + Adverse(H)
  <1>1. H \cup {t} \in Holdings
    BY FS_AddElement DEF Holdings
  <1>2. (H \cup {t}) \ {t} = H /\ t \in H \cup {t}
    OBVIOUS
  <1> QED
    BY <1>1, <1>2, AdverseTakes

LEMMA NothingAdverse == {} \in Holdings /\ Adverse({}) = 0
  <1> DEFINE f == [x \in Trades |-> x.mae]
  <1>1. {} \in Holdings
    BY FS_EmptySet DEF Holdings
  <1>2. f \in [Trades -> Int]
    BY DEF Trades
  <1>3. SumFunctionOnSet(f, {}) = 0
    <2> HIDE DEF f
    <2> QED
      BY <1>2, SumEmpty
  <1> QED
    BY <1>1, <1>3, AdverseIsSum

LEMMA PartsHeld ==
    ASSUME NEW H \in Holdings, NEW G, G \subseteq H
    PROVE  G \in Holdings
  BY FS_Subset DEF Holdings

LEMMA NewestIsOne ==
    ASSUME NEW H \in Holdings, H # {}
    PROVE  Newest(H) \in H
  <1> DEFINE f == [t \in H |-> t.id]
  <1>1. IsFiniteSet(H) /\ f \in [H -> Int]
    BY DEF Holdings, Trades
  <1>2. \E t \in H : \A u \in H : f[t] >= f[u]
    <2> HIDE DEF f
    <2> QED
      BY <1>1, HasGreatest
  <1>3. \E t \in H : \A u \in H : u.id <= t.id
    BY <1>1, <1>2
  <1> QED
    BY <1>3 DEF Newest

-----------------------------------------------------------------------------
(* What each part of a simulator does to an account.                       *)
SameBalance(b, a) == b.equity = a.equity /\ b.peak = a.peak

LEMMA RollIs ==
    ASSUME NEW a \in Accounts, NEW day \in Int
    PROVE  LET b == Roll(a, day)
           IN  /\ b \in Accounts /\ SameBalance(b, a)
               /\ b.worst = a.worst /\ b.held = a.held /\ b.from = a.from /\ b.days = a.days
               /\ b.start = a.start
               /\ b.day = day /\ b.sod = IF a.day = day THEN a.sod ELSE a.equity
  <1>1. CASE a.day = day
    <2>1. Roll(a, day) = a
      BY <1>1 DEF Roll
    <2> QED
      BY <1>1, <2>1 DEF SameBalance
  <1>2. CASE a.day # day
    <2>1. Roll(a, day) = [a EXCEPT !.day = day, !.sod = a.equity, !.today = 0]
      BY <1>2 DEF Roll
    <2>2. Roll(a, day) \in Accounts
      <3>1. PICK e \in Int : e = a.equity
        BY DEF Accounts
      <3>2. Roll(a, day) = [a EXCEPT !.day = day, !.sod = e, !.today = 0]
        BY <2>1, <3>1
      <3>3. [a EXCEPT !.day = day] \in Accounts
        BY DEF Accounts
      <3>4. PICK b \in Accounts : b = [a EXCEPT !.day = day]
        BY <3>3
      <3>5. [b EXCEPT !.sod = e] \in Accounts
        BY DEF Accounts
      <3>6. PICK c \in Accounts : c = [b EXCEPT !.sod = e]
        BY <3>5
      <3>7. [c EXCEPT !.today = 0] \in Accounts
        BY DEF Accounts
      <3>8. Roll(a, day) = [c EXCEPT !.today = 0]
        BY <3>2, <3>4, <3>6 DEF Accounts
      <3> QED
        BY <3>7, <3>8
    <2>3. LET b == Roll(a, day)
          IN  /\ b.equity = a.equity /\ b.peak = a.peak /\ b.worst = a.worst
              /\ b.held = a.held /\ b.from = a.from /\ b.days = a.days
              /\ b.day = day /\ b.sod = a.equity /\ b.start = a.start
      BY <2>1 DEF Accounts
    <2> QED
      BY <1>2, <2>2, <2>3 DEF SameBalance
  <1> QED
    BY <1>1, <1>2

LEMMA DipIs ==
    ASSUME NEW a \in Accounts, NEW low \in Int
    PROVE  LET b == Dip(a, low)
           IN  /\ b \in Accounts /\ SameBalance(b, a)
               /\ b.held = a.held /\ b.from = a.from /\ b.days = a.days
               /\ b.day = a.day /\ b.sod = a.sod /\ b.start = a.start
               /\ b.worst = IF a.worst >= -low THEN a.worst ELSE -low
  <1>1. a.worst \in Int /\ -low \in Int
    BY DEF Accounts
  <1>2. Max({a.worst, -low}) = IF a.worst >= -low THEN a.worst ELSE -low
    BY <1>1, MaxOfTwo
  <1>3. Dip(a, low) = [a EXCEPT !.worst = IF a.worst >= -low THEN a.worst ELSE -low]
    BY <1>2, Zenon DEF Dip
  <1> QED
    BY <1>1, <1>3 DEF Accounts, SameBalance

LEMMA BookIs ==
    ASSUME NEW a \in Accounts, NEW t \in Trades
    PROVE  LET b == BookTrade(a, t)
           IN  /\ b \in Accounts
               /\ b.equity = a.equity + t.ret
               /\ b.peak = IF a.peak >= b.equity THEN a.peak ELSE b.equity
               /\ b.worst = a.worst /\ b.held = a.held \ {t} /\ b.from = a.from
               /\ b.days = a.days /\ b.day = a.day /\ b.sod = a.sod /\ b.start = a.start
  <1> DEFINE e == a.equity + t.ret
             p == IF a.peak >= e THEN a.peak ELSE e
  <1>1. a.peak \in Int /\ e \in Int
    BY DEF Accounts, Trades
  <1>2. Max({a.peak, e}) = p
    BY <1>1, MaxOfTwo
  <1>3. a.held \ {t} \in Holdings
    <2>1. a.held \in Holdings
      BY DEF Accounts
    <2> QED
      BY <2>1, PartsHeld
  <1>4. BookTrade(a, t) = [a EXCEPT !.equity = e, !.peak = p, !.held = a.held \ {t}]
    BY <1>2, Zenon DEF BookTrade
  <1>5. p \in Int
    BY <1>1
  <1> HIDE DEF p
  <1>6. LET b == BookTrade(a, t)
        IN  /\ b \in Accounts /\ b.equity = e /\ b.peak = p
            /\ b.worst = a.worst /\ b.held = a.held \ {t} /\ b.from = a.from
            /\ b.days = a.days /\ b.day = a.day /\ b.sod = a.sod /\ b.start = a.start
    BY <1>1, <1>3, <1>4, <1>5 DEF Accounts
  <1> QED
    BY <1>6 DEF p

LEMMA FreshIs ==
    ASSUME NEW from \in Int
    PROVE  /\ Fresh(from) \in Accounts
           /\ LET b == Fresh(from)
              IN  /\ b.equity = 0 /\ b.peak = 0 /\ b.worst = 0 /\ b.day = -1 /\ b.sod = 0
                  /\ b.days = {} /\ b.held = {} /\ b.from = from
  BY NothingAdverse DEF Fresh, Accounts

-----------------------------------------------------------------------------
(* Days.                                                                   *)
LEMMA DayIs ==
    ASSUME ChallengeParameters, NEW x \in Nat
    PROVE  /\ SlotsPerDay \in Nat \ {0} /\ DayOf(x) \in Nat
           /\ DayOf(x) * SlotsPerDay <= x /\ x < DayOf(x) * SlotsPerDay + SlotsPerDay
  <1>1. SlotsPerDay \in Nat \ {0}
    BY DEF ChallengeParameters
  <1>2. DayOf(x) = x \div SlotsPerDay
    BY DEF DayOf
  <1> QED
    BY <1>1, <1>2

LEMMA DaysInOrder ==
    ASSUME ChallengeParameters, NEW x \in Nat, NEW y \in Nat, x <= y
    PROVE  DayOf(x) <= DayOf(y)
  <1> DEFINE d == DayOf(x)
             e == DayOf(y)
             n == SlotsPerDay
  <1>1. d \in Nat /\ e \in Nat /\ n \in Nat \ {0} /\ d * n <= x /\ y < e * n + n
    BY DayIs
  <1> SUFFICES ASSUME e < d PROVE FALSE
    BY <1>1
  <1>2. PICK k \in Nat : d = e + 1 + k
    <2>1. d - e - 1 \in Nat
      BY <1>1
    <2> QED
      BY <1>1, <2>1
  <1>3. d * n = e * n + n + k * n /\ k * n >= 0 /\ e * n \in Nat /\ k * n \in Nat
    <2> HIDE DEF d, e, n
    <2> QED
      BY <1>1, <1>2
  <1> HIDE DEF d, e, n
  <1> QED
    BY <1>1, <1>3

(* Two days are more than a day.                                           *)
LEMMA TwoDaysLater ==
    ASSUME ChallengeParameters, NEW x \in Nat, NEW y \in Nat, DayOf(x) + 1 < DayOf(y)
    PROVE  y - x > SlotsPerDay
  <1> DEFINE d == DayOf(x)
             e == DayOf(y)
             n == SlotsPerDay
  <1>1. d \in Nat /\ e \in Nat /\ n \in Nat \ {0} /\ x < d * n + n /\ e * n <= y
    BY DayIs
  <1>2. PICK k \in Nat : e = d + 2 + k
    <2>1. e - d - 2 \in Nat
      BY <1>1
    <2> QED
      BY <1>1, <2>1
  <1>3. e * n = d * n + n + n + k * n /\ k * n >= 0 /\ d * n \in Nat /\ k * n \in Nat
    <2> HIDE DEF d, e, n
    <2> QED
      BY <1>1, <1>2
  <1> HIDE DEF d, e, n
  <1> QED
    BY <1>1, <1>3 DEF n

-----------------------------------------------------------------------------
(* The worst moment of an account, and the floors it has to stay above.    *)
Low(a) == a.equity - Adverse(a.held)

AboveMax(a) == Low(a) > MaxFloor(a) /\ a.peak >= a.equity

AboveDay(a) == Low(a) > a.sod - DailyDD

LEMMA AccountType ==
    ASSUME NEW a \in Accounts
    PROVE  /\ a.equity \in Int /\ a.peak \in Int /\ a.worst \in Int /\ a.day \in Int
           /\ a.sod \in Int /\ a.from \in Int
           /\ a.held \in Holdings /\ Adverse(a.held) \in Nat /\ Low(a) \in Int
  <1>1. /\ a.equity \in Int /\ a.peak \in Int /\ a.worst \in Int /\ a.day \in Int
        /\ a.sod \in Int /\ a.from \in Int /\ a.held \in Holdings
    BY DEF Accounts
  <1>2. Adverse(a.held) \in Nat
    BY <1>1, AdverseType
  <1> QED
    BY <1>1, <1>2 DEF Low

LEMMA FloorType ==
    ASSUME ChallengeParameters, NEW a \in Accounts
    PROVE  /\ MaxFloor(a) \in Int /\ DailyDD \in Nat \ {0} /\ MaxDD \in Nat \ {0}
           /\ MaxFloor(a) = IF rules.mode = "trailing" THEN a.peak - MaxDD ELSE -MaxDD
  <1>1. DailyDD \in Nat \ {0} /\ MaxDD \in Nat \ {0}
    BY DEF ChallengeParameters
  <1>2. a.peak \in Int
    BY AccountType
  <1> QED
    BY <1>1, <1>2 DEF MaxFloor

LEMMA SameFloor ==
    ASSUME NEW a, NEW b, a.peak = b.peak
    PROVE  MaxFloor(a) = MaxFloor(b)
  BY DEF MaxFloor

(* A trade that is closed came to no less than its worst: the account is   *)
(* nearer to none of its floors.                                           *)
LEMMA ClosingHelps ==
    ASSUME ChallengeParameters, NEW a \in Accounts, NEW t \in a.held
    PROVE  LET b == BookTrade(a, t)
           IN  /\ b \in Accounts /\ Low(b) >= Low(a)
               /\ AboveMax(a) => AboveMax(b)
               /\ AboveDay(a) => AboveDay(b)
  <1> DEFINE b == BookTrade(a, t)
  <1>1. a.held \in Holdings /\ a.equity \in Int /\ a.peak \in Int /\ a.sod \in Int
    BY AccountType
  <1>2. t \in Trades /\ Adverse(a.held) = t.mae + Adverse(a.held \ {t})
    BY <1>1, AdverseTakes
  <1>3. t.ret \in Int /\ t.mae \in Nat /\ t.ret >= -t.mae
    BY <1>2 DEF Trades
  <1>4. /\ b \in Accounts /\ b.equity = a.equity + t.ret /\ b.held = a.held \ {t}
        /\ b.peak = (IF a.peak >= b.equity THEN a.peak ELSE b.equity) /\ b.sod = a.sod
    BY <1>2, BookIs
  <1>5. Adverse(b.held) \in Nat /\ b.peak \in Int /\ b.equity \in Int /\ Low(b) \in Int
    BY <1>4, AccountType
  <1>6. Low(b) = Low(a) + t.ret + t.mae /\ Low(a) = a.equity - Adverse(a.held)
        /\ Low(b) = b.equity - Adverse(b.held) /\ Low(a) \in Int
    <2> HIDE DEF b
    <2> QED
      BY <1>1, <1>2, <1>3, <1>4, <1>5, AccountType DEF Low
  <1>7. Low(b) >= Low(a)
    BY <1>3, <1>6
  <1>8. AboveDay(a) => AboveDay(b)
    <2>1. DailyDD \in Nat
      BY FloorType
    <2> HIDE DEF b
    <2> QED
      BY <1>1, <1>4, <1>5, <1>6, <1>7, <2>1 DEF AboveDay
  <1>9. ASSUME AboveMax(a) PROVE AboveMax(b)
    <2> DEFINE fa == MaxFloor(a)
               fb == MaxFloor(b)
    <2>1. fa = (IF rules.mode = "trailing" THEN a.peak - MaxDD ELSE -MaxDD)
          /\ fb = (IF rules.mode = "trailing" THEN b.peak - MaxDD ELSE -MaxDD)
          /\ MaxDD \in Nat
      BY <1>4, FloorType
    <2>2. Low(a) > fa /\ a.peak >= a.equity
      BY <1>9 DEF AboveMax
    <2>3. Low(b) > fb
      <3> HIDE DEF b, fa, fb
      <3>1. CASE rules.mode = "trailing"
        <4>1. fa = a.peak - MaxDD /\ fb = b.peak - MaxDD
          BY <2>1, <3>1
        <4>2. CASE b.peak = a.peak
          BY <1>1, <1>5, <1>6, <1>7, <2>1, <2>2, <4>1, <4>2
        <4>3. CASE b.peak = b.equity
          <5>1. Adverse(a.held) < MaxDD /\ Adverse(b.held) <= Adverse(a.held)
            <6>1. Adverse(a.held) \in Nat
              BY <1>1, AdverseType
            <6> QED
              BY <1>1, <1>2, <1>3, <1>4, <1>5, <1>6, <2>1, <2>2, <4>1, <6>1
          <5> QED
            BY <1>1, <1>5, <1>6, <2>1, <4>1, <4>3, <5>1, AdverseType
        <4> QED
          BY <1>4, <4>2, <4>3
      <3>2. CASE rules.mode # "trailing"
        BY <1>5, <1>6, <1>7, <2>1, <2>2, <3>2
      <3> QED
        BY <3>1, <3>2
    <2>4. b.peak >= b.equity
      <3> HIDE DEF b
      <3> QED
        BY <1>1, <1>4, <1>5
    <2> QED
      BY <2>3, <2>4 DEF AboveMax
  <1> QED
    BY <1>4, <1>7, <1>8, <1>9

LEMMA BreachIs ==
    ASSUME ChallengeParameters, NEW a \in Accounts, NEW low \in Int
    PROVE  /\ Breach(a, low) \in Verdicts \ {"PASS"}
           /\ Breach(a, low) = "NONE" <=> low > MaxFloor(a) /\ low > a.sod - DailyDD
  <1>1. MaxFloor(a) \in Int /\ a.sod \in Int /\ DailyDD \in Nat
    BY FloorType, AccountType
  <1>2. CASE low <= MaxFloor(a)
    BY <1>1, <1>2 DEF Breach, Verdicts
  <1>3. CASE low > MaxFloor(a) /\ low <= a.sod - DailyDD
    BY <1>1, <1>3 DEF Breach, Verdicts
  <1>4. CASE low > MaxFloor(a) /\ low > a.sod - DailyDD
    <2>1. Breach(a, low) = "NONE"
      BY <1>1, <1>4 DEF Breach
    <2> QED
      BY <1>4, <2>1 DEF Verdicts
  <1> QED
    BY <1>1, <1>2, <1>3, <1>4

-----------------------------------------------------------------------------
(* What the simulators do, case by case.                                   *)
Rolled(b, a, day) ==
    /\ b \in Accounts /\ SameBalance(b, a) /\ b.worst = a.worst /\ b.from = a.from
    /\ b.day = day /\ b.sod = IF a.day = day THEN a.sod ELSE a.equity

LEMMA StartedIs ==
    ASSUME NEW a \in Accounts, NEW slot \in Int
    PROVE  LET b == [a EXCEPT !.start = IF @ < 0 THEN slot ELSE @]
           IN  /\ b \in Accounts /\ SameBalance(b, a) /\ b.worst = a.worst /\ b.from = a.from
               /\ b.day = a.day /\ b.sod = a.sod /\ b.days = a.days /\ b.held = a.held
               /\ b.start = IF a.start < 0 THEN slot ELSE a.start
  <1>1. PICK from \in Int : from = IF a.start < 0 THEN slot ELSE a.start
    BY DEF Accounts
  <1>2. [a EXCEPT !.start = IF @ < 0 THEN slot ELSE @] = [a EXCEPT !.start = from]
    BY <1>1
  <1> QED
    BY <1>2 DEF Accounts, SameBalance

LEMMA CountedIs ==
    ASSUME NEW a \in Accounts, NEW day \in Int
    PROVE  LET b == [a EXCEPT !.days = @ \cup {day}]
           IN  /\ b \in Accounts /\ SameBalance(b, a) /\ b.worst = a.worst /\ b.from = a.from
               /\ b.day = a.day /\ b.sod = a.sod /\ b.days = a.days \cup {day} /\ b.held = a.held
               /\ b.start = a.start
  BY DEF Accounts, SameBalance

LEMMA TakenIs ==
    ASSUME NEW a \in Accounts, NEW t \in Trades
    PROVE  LET b == [a EXCEPT !.held = @ \cup {t}]
           IN  /\ b \in Accounts /\ SameBalance(b, a) /\ b.worst = a.worst /\ b.from = a.from
               /\ b.day = a.day /\ b.sod = a.sod /\ b.days = a.days /\ b.held = a.held \cup {t}
               /\ b.start = a.start
  <1>1. a.held \in Holdings
    BY AccountType
  <1>2. a.held \cup {t} \in Holdings
    <2>1. CASE t \in a.held
      <3>1. a.held \cup {t} = a.held
        BY <2>1
      <3> QED
        BY <1>1, <3>1
    <2>2. CASE t \notin a.held
      BY <1>1, <2>2, AdverseAdds
    <2> QED
      BY <2>1, <2>2
  <1>3. PICK h \in Holdings : h = a.held \cup {t}
    BY <1>2
  <1>4. [a EXCEPT !.held = @ \cup {t}] = [a EXCEPT !.held = h]
    BY <1>3
  <1> QED
    BY <1>3, <1>4 DEF Accounts, SameBalance

LEMMA SimType ==
    ASSUME NEW s \in Sims
    PROVE  s.phase \in {1, 2} /\ s.verdict \in Verdicts /\ s.acct \in Accounts
  BY DEF Sims

LEMMA CheckedIs ==
    ASSUME ChallengeParameters, NEW s \in Sims, NEW a \in Accounts, NEW low \in Int
    PROVE  LET c == Checked(s, a, low)
           IN  /\ c \in Sims /\ c.phase = s.phase /\ c.acct = Dip(a, low)
               /\ c.verdict = Breach(a, low) /\ c.verdict # "PASS"
  <1>1. Dip(a, low) \in Accounts
    BY DipIs
  <1>2. Breach(a, low) \in Verdicts /\ Breach(a, low) # "PASS"
    BY BreachIs
  <1> QED
    BY <1>1, <1>2 DEF Checked, Sims

TimedOut(d, s) ==
    /\ d \in Sims /\ d.phase = s.phase /\ d.verdict = "TIMEOUT" /\ d.acct = s.acct
    /\ rules.limit > 0

LEMMA TimeoutIs ==
    ASSUME NEW s \in Sims, NEW a, NEW slot, TooLate(a, slot)
    PROVE  TimedOut(Decide(s, "TIMEOUT"), s)
  BY DEF Decide, TimedOut, Sims, Verdicts, TooLate

(* The three ways a trade that did no harm may leave a phase.              *)
GoesOn(d, s, after) ==
    /\ ~TargetReached(s, after)
    /\ d.phase = s.phase /\ d.verdict = s.verdict /\ d.acct = after

Advances(d, s, after, fresh) ==
    /\ TargetReached(s, after) /\ s.phase = 1 /\ rules.target[2] > 0
    /\ d.phase = 2 /\ d.verdict = s.verdict /\ d.acct = fresh

Finishes(d, s, after) ==
    /\ TargetReached(s, after) /\ ~(s.phase = 1 /\ rules.target[2] > 0)
    /\ d.phase = s.phase /\ d.verdict = "PASS" /\ d.acct = after

LEMMA SettleIs ==
    ASSUME NEW s \in Sims, NEW after \in Accounts, NEW fresh \in Accounts
    PROVE  LET d == Settle(s, after, fresh)
           IN  /\ d \in Sims
               /\ GoesOn(d, s, after) \/ Advances(d, s, after, fresh) \/ Finishes(d, s, after)
  <1> DEFINE d == Settle(s, after, fresh)
  <1>1. CASE ~TargetReached(s, after)
    <2>1. d = [s EXCEPT !.acct = after]
      BY <1>1 DEF Settle
    <2>2. d \in Sims /\ d.phase = s.phase /\ d.verdict = s.verdict /\ d.acct = after
      BY <2>1 DEF Sims
    <2> QED
      BY <1>1, <2>2 DEF GoesOn
  <1>2. CASE TargetReached(s, after) /\ s.phase = 1 /\ rules.target[2] > 0
    <2>1. d = [s EXCEPT !.phase = 2, !.acct = fresh]
      BY <1>2 DEF Settle
    <2>2. d \in Sims /\ d.phase = 2 /\ d.verdict = s.verdict /\ d.acct = fresh
      BY <2>1 DEF Sims
    <2> QED
      BY <1>2, <2>2 DEF Advances
  <1>3. CASE TargetReached(s, after) /\ ~(s.phase = 1 /\ rules.target[2] > 0)
    <2>1. d = [s EXCEPT !.acct = after, !.verdict = "PASS"]
      BY <1>3 DEF Settle
    <2>2. d \in Sims /\ d.phase = s.phase /\ d.verdict = "PASS" /\ d.acct = after
      BY <2>1 DEF Sims, Verdicts
    <2> QED
      BY <1>3, <2>2 DEF Finishes
  <1> QED
    BY <1>1, <1>2, <1>3

(* From when the calendar limit counts once a trade has closed, and         *)
(* whether it has run out at a time.                                       *)
Started(a, t) == IF a.start < 0 THEN t.at ELSE a.start

Late(a, t, slot) == rules.limit > 0 /\ slot - Started(a, t) > rules.limit

(* simulate_phase, of a trade that closes.                                 *)
SeqLooksAt(b, s, t) ==
    /\ Rolled(b, s.acct, DayOf(t.at)) /\ b.start = Started(s.acct, t)
    /\ b.days = s.acct.days \cup {DayOf(t.at)} /\ b.held = s.acct.held

LEMMA SeqCloseIs ==
    ASSUME ChallengeParameters, NEW s \in Sims, Undecided(s), NEW t \in Trades
    PROVE  \/ TimedOut(SeqClose(s, t), s) /\ Late(s.acct, t, t.at)
           \/ \E b : /\ SeqLooksAt(b, s, t)
                     /\ LET c == Checked(s, b, b.equity - t.mae)
                        IN  SeqClose(s, t) = IF ~Undecided(c) THEN c
                                             ELSE Settle(c, BookTrade(c.acct, t), Fresh(now))
  <1> DEFINE a == [s.acct EXCEPT !.start = IF @ < 0 THEN t.at ELSE @]
             r == Roll(a, DayOf(t.at))
             b == [r EXCEPT !.days = @ \cup {DayOf(t.at)}]
             c == Checked(s, b, b.equity - t.mae)
  <1>1. t.at \in Nat /\ DayOf(t.at) \in Int /\ s.acct \in Accounts
    BY DayIs, SimType DEF Trades
  <1>2. /\ a \in Accounts /\ SameBalance(a, s.acct) /\ a.worst = s.acct.worst
        /\ a.from = s.acct.from /\ a.day = s.acct.day /\ a.sod = s.acct.sod
        /\ a.days = s.acct.days /\ a.held = s.acct.held /\ a.start = Started(s.acct, t)
    <2>1. t.at \in Int
      BY <1>1
    <2> QED
      BY <1>1, <2>1, StartedIs DEF Started
  <1> HIDE DEF a
  <1>3. /\ r \in Accounts /\ SameBalance(r, a) /\ r.worst = a.worst /\ r.held = a.held
        /\ r.from = a.from /\ r.days = a.days /\ r.start = a.start
        /\ r.day = DayOf(t.at) /\ r.sod = IF a.day = DayOf(t.at) THEN a.sod ELSE a.equity
    BY <1>1, <1>2, RollIs
  <1> HIDE DEF r
  <1>4. /\ b \in Accounts /\ SameBalance(b, r) /\ b.worst = r.worst /\ b.from = r.from
        /\ b.day = r.day /\ b.sod = r.sod /\ b.days = r.days \cup {DayOf(t.at)}
        /\ b.held = r.held /\ b.start = r.start
    BY <1>1, <1>3, CountedIs
  <1> HIDE DEF b
  <1>5. SeqLooksAt(b, s, t)
    BY <1>2, <1>3, <1>4 DEF SeqLooksAt, Rolled, SameBalance
  <1>6. SeqClose(s, t) = IF TooLate(a, t.at) THEN Decide(s, "TIMEOUT")
                         ELSE IF ~Undecided(c) THEN c
                         ELSE Settle(c, BookTrade(c.acct, t), Fresh(now))
    BY DEF SeqClose, a, r, b
  <1>7. CASE TooLate(a, t.at)
    BY <1>2, <1>6, <1>7, TimeoutIs DEF TooLate, Late
  <1>8. CASE ~TooLate(a, t.at)
    BY <1>5, <1>6, <1>8
  <1> QED
    BY <1>7, <1>8

(* simulate_phase_concurrent, of a trade that opens and of one that closes.*)
ConcTakes(b, s, t, slot) ==
    /\ Rolled(b, s.acct, DayOf(slot)) /\ b.start = s.acct.start
    /\ ~TooLate(s.acct, slot)
    /\ b.days = s.acct.days \cup {DayOf(t.at)} /\ b.held = s.acct.held \cup {t}

LEMMA ConcOpenIs ==
    ASSUME ChallengeParameters, NEW s \in Sims, Undecided(s), NEW t \in Trades, NEW slot \in Nat
    PROVE  \/ TimedOut(ConcOpenAt(s, t, slot), s)
           \/ \E b : /\ ConcTakes(b, s, t, slot)
                     /\ ConcOpenAt(s, t, slot) = Checked(s, b, Low(b))
  <1> DEFINE r == Roll(s.acct, DayOf(slot))
             d == [r EXCEPT !.days = @ \cup {DayOf(t.at)}]
             b == [d EXCEPT !.held = @ \cup {t}]
  <1>1. /\ t.at \in Nat /\ DayOf(t.at) \in Int /\ DayOf(slot) \in Int
        /\ s.acct \in Accounts
    BY DayIs, SimType DEF Trades
  <1>2. /\ r \in Accounts /\ SameBalance(r, s.acct) /\ r.worst = s.acct.worst
        /\ r.held = s.acct.held /\ r.from = s.acct.from /\ r.days = s.acct.days
        /\ r.day = DayOf(slot) /\ r.start = s.acct.start
        /\ r.sod = IF s.acct.day = DayOf(slot) THEN s.acct.sod ELSE s.acct.equity
    BY <1>1, RollIs
  <1> HIDE DEF r
  <1>3. /\ d \in Accounts /\ SameBalance(d, r) /\ d.worst = r.worst /\ d.from = r.from
        /\ d.day = r.day /\ d.sod = r.sod /\ d.days = r.days \cup {DayOf(t.at)}
        /\ d.held = r.held /\ d.start = r.start
    BY <1>1, <1>2, CountedIs
  <1>4. /\ b \in Accounts /\ SameBalance(b, d) /\ b.worst = d.worst /\ b.from = d.from
        /\ b.day = d.day /\ b.sod = d.sod /\ b.days = d.days /\ b.held = d.held \cup {t}
        /\ b.start = d.start
    <2> HIDE DEF d
    <2> QED
      BY <1>3, TakenIs
  <1>5. b = [r EXCEPT !.days = @ \cup {DayOf(t.at)}, !.held = @ \cup {t}]
    OBVIOUS
  <1>6. ConcOpenAt(s, t, slot) = IF TooLate(s.acct, slot) THEN Decide(s, "TIMEOUT")
                                 ELSE Checked(s, b, Low(b))
    <2> HIDE DEF d, b
    <2> QED
      BY <1>5 DEF ConcOpenAt, r, Low
  <1>7. ~TooLate(s.acct, slot) => ConcTakes(b, s, t, slot)
    <2> HIDE DEF d, b
    <2> QED
      BY <1>2, <1>3, <1>4 DEF ConcTakes, Rolled, SameBalance
  <1> HIDE DEF d, b
  <1>8. CASE TooLate(s.acct, slot)
    BY <1>6, <1>8, TimeoutIs
  <1>9. CASE ~TooLate(s.acct, slot)
    BY <1>6, <1>7, <1>9
  <1> QED
    BY <1>8, <1>9

ConcLooksAt(b, s, t) ==
    /\ Rolled(b, s.acct, DayOf(now)) /\ b.start = Started(s.acct, t)
    /\ b.days = s.acct.days /\ b.held = s.acct.held

LEMMA ConcCloseIs ==
    ASSUME ChallengeParameters, NEW s \in Sims, Undecided(s), NEW t \in Trades, now \in Nat
    PROVE  \/ TimedOut(ConcClose(s, t), s)
           \/ \E b : /\ ConcLooksAt(b, s, t)
                     /\ LET c == Checked(s, b, Low(b))
                            d == Settle(c, BookTrade(c.acct, t), Fresh(now))
                        IN  ConcClose(s, t) = IF ~Undecided(c) THEN c
                                              ELSE IF d.phase > s.phase
                                                   THEN Reopened(c.acct.held \ {t}) ELSE d
  <1> DEFINE a == [s.acct EXCEPT !.start = IF @ < 0 THEN t.at ELSE @]
             b == Roll(a, DayOf(now))
             c == Checked(s, b, Low(b))
             d == Settle(c, BookTrade(c.acct, t), Fresh(now))
  <1>1. t.at \in Int /\ DayOf(now) \in Int /\ s.acct \in Accounts
    BY DayIs, SimType DEF Trades
  <1>2. /\ a \in Accounts /\ SameBalance(a, s.acct) /\ a.worst = s.acct.worst
        /\ a.from = s.acct.from /\ a.day = s.acct.day /\ a.sod = s.acct.sod
        /\ a.days = s.acct.days /\ a.held = s.acct.held /\ a.start = Started(s.acct, t)
    BY <1>1, StartedIs DEF Started
  <1> HIDE DEF a
  <1>3. /\ b \in Accounts /\ SameBalance(b, a) /\ b.worst = a.worst /\ b.held = a.held
        /\ b.from = a.from /\ b.days = a.days /\ b.start = a.start
        /\ b.day = DayOf(now) /\ b.sod = IF a.day = DayOf(now) THEN a.sod ELSE a.equity
    BY <1>1, <1>2, RollIs
  <1>4. ConcClose(s, t) = IF TooLate(a, now) THEN Decide(s, "TIMEOUT")
                          ELSE IF ~Undecided(c) THEN c
                          ELSE IF d.phase > s.phase THEN Reopened(c.acct.held \ {t}) ELSE d
    BY DEF ConcClose, a, Low
  <1> HIDE DEF b
  <1>5. ConcLooksAt(b, s, t)
    BY <1>2, <1>3 DEF ConcLooksAt, Rolled, SameBalance
  <1>6. CASE TooLate(a, now)
    BY <1>4, <1>6, TimeoutIs
  <1>7. CASE ~TooLate(a, now)
    BY <1>4, <1>5, <1>7
  <1> QED
    BY <1>6, <1>7

(* simulate_portfolio_phase.                                               *)
PortTakes(b, s, t) ==
    /\ Rolled(b, s.acct, DayOf(now))
    /\ b.held = s.acct.held \/ b.held = s.acct.held \cup {t}

LEMMA PortOpenIs ==
    ASSUME ChallengeParameters, NEW s \in Sims, Undecided(s), NEW t \in Trades, InPhase(s, t),
           now \in Nat
    PROVE  \/ TimedOut(PortOpen(s, t), s)
           \/ \E b : PortTakes(b, s, t) /\ PortOpen(s, t) = Checked(s, b, Low(b))
  <1> DEFINE a == [s.acct EXCEPT !.start = IF @ < 0 THEN t.at ELSE @]
             r == Roll(a, DayOf(now))
             b == [r EXCEPT !.days = @ \cup {DayOf(now)}]
             h == [b EXCEPT !.held = @ \cup {t}, !.today = @ + 1]
             c == IF Rejected(b, t) THEN b ELSE h
  <1>1. t.at \in Int /\ DayOf(now) \in Int /\ s.acct \in Accounts
    BY DayIs, SimType DEF Trades
  <1>2. /\ a \in Accounts /\ SameBalance(a, s.acct) /\ a.worst = s.acct.worst
        /\ a.from = s.acct.from /\ a.day = s.acct.day /\ a.sod = s.acct.sod
        /\ a.days = s.acct.days /\ a.held = s.acct.held
    BY <1>1, StartedIs
  <1> HIDE DEF a
  <1>3. /\ r \in Accounts /\ SameBalance(r, a) /\ r.worst = a.worst /\ r.held = a.held
        /\ r.from = a.from /\ r.days = a.days
        /\ r.day = DayOf(now) /\ r.sod = IF a.day = DayOf(now) THEN a.sod ELSE a.equity
    BY <1>1, <1>2, RollIs
  <1> HIDE DEF r
  <1>4. /\ b \in Accounts /\ SameBalance(b, r) /\ b.worst = r.worst /\ b.from = r.from
        /\ b.day = r.day /\ b.sod = r.sod /\ b.held = r.held
    BY <1>1, <1>3, CountedIs
  <1> HIDE DEF b
  <1>5. /\ h \in Accounts /\ SameBalance(h, b) /\ h.worst = b.worst /\ h.from = b.from
        /\ h.day = b.day /\ h.sod = b.sod /\ h.held = b.held \cup {t}
    <2> DEFINE k == [b EXCEPT !.held = @ \cup {t}]
    <2>1. /\ k \in Accounts /\ SameBalance(k, b) /\ k.worst = b.worst /\ k.from = b.from
          /\ k.day = b.day /\ k.sod = b.sod /\ k.held = b.held \cup {t} /\ k.today = b.today
      <3>1. k.today = b.today
        BY <1>4 DEF Accounts
      <3> QED
        BY <1>4, <3>1, TakenIs
    <2>2. h = [k EXCEPT !.today = @ + 1]
      BY <1>4 DEF Accounts
    <2> HIDE DEF k, h
    <2> QED
      BY <2>1, <2>2 DEF Accounts, SameBalance
  <1>6. PortTakes(c, s, t)
    <2> HIDE DEF h
    <2>1. PortTakes(b, s, t)
      BY <1>2, <1>3, <1>4 DEF PortTakes, Rolled, SameBalance
    <2>2. PortTakes(h, s, t)
      BY <1>2, <1>3, <1>4, <1>5 DEF PortTakes, Rolled, SameBalance
    <2> QED
      BY <2>1, <2>2
  <1>7. PortOpen(s, t) = IF TooLate(a, now) THEN Decide(s, "TIMEOUT")
                         ELSE Checked(s, c, Low(c))
    BY DEF PortOpen, a, r, b, Low
  <1> HIDE DEF c
  <1>8. CASE TooLate(a, now)
    BY <1>7, <1>8, TimeoutIs
  <1>9. CASE ~TooLate(a, now)
    BY <1>6, <1>7, <1>9
  <1> QED
    BY <1>8, <1>9

PortBooks(b, s, t) ==
    \E r : /\ Rolled(r, s.acct, DayOf(now)) /\ r.held = s.acct.held
           /\ b = IF t \in r.held THEN BookTrade(r, t) ELSE r

LEMMA PortCloseIs ==
    ASSUME ChallengeParameters, NEW s \in Sims, Undecided(s), NEW t \in Trades, InPhase(s, t),
           now \in Nat
    PROVE  \/ TimedOut(PortClose(s, t), s)
           \/ \E b : /\ PortBooks(b, s, t)
                     /\ LET c == Checked(s, b, Low(b))
                        IN  PortClose(s, t) = IF ~Undecided(c) THEN c
                                              ELSE Settle(c, c.acct, Fresh(now + 1))
  <1> DEFINE r == Roll(s.acct, DayOf(now))
             b == IF t \in r.held THEN BookTrade(r, t) ELSE r
             c == Checked(s, b, Low(b))
  <1>1. DayOf(now) \in Int /\ s.acct \in Accounts
    BY DayIs, SimType
  <1>2. Rolled(r, s.acct, DayOf(now)) /\ r.held = s.acct.held
    <2> HIDE DEF r
    <2> QED
      BY <1>1, RollIs DEF Rolled, r
  <1>3. PortClose(s, t) = IF TooLate(s.acct, now) THEN Decide(s, "TIMEOUT")
                          ELSE IF ~Undecided(c) THEN c
                          ELSE Settle(c, c.acct, Fresh(now + 1))
    BY DEF PortClose, Low
  <1>4. PortBooks(b, s, t)
    <2> HIDE DEF r
    <2> QED
      BY <1>2 DEF PortBooks
  <1> HIDE DEF b
  <1>5. CASE TooLate(s.acct, now)
    BY <1>3, <1>5, TimeoutIs
  <1>6. CASE ~TooLate(s.acct, now)
    BY <1>3, <1>4, <1>6
  <1> QED
    BY <1>5, <1>6

-----------------------------------------------------------------------------
(* Phase 2 begins with the trades that are still open.                     *)
LEMMA EntersType ==
    ASSUME ChallengeParameters, NEW s \in Sims, NEW t \in Trades
    PROVE  LET d == ConcOpenAtEntry(s, t)
           IN  /\ d \in Sims /\ d.phase = s.phase
               /\ s.verdict # "PASS" => d.verdict # "PASS"
               /\ Undecided(d) => Undecided(s) /\ d.acct.held = s.acct.held \cup {t}
  <1> DEFINE d == ConcOpenAt(s, t, t.at)
  <1>1. t.at \in Nat
    BY DEF Trades
  <1>2. CASE ~Undecided(s)
    <2>1. d = s
      BY <1>2 DEF ConcOpenAt
    <2> QED
      BY <1>2, <2>1 DEF ConcOpenAtEntry
  <1>3. CASE Undecided(s)
    <2>1. CASE TimedOut(d, s)
      BY <2>1, <1>3 DEF ConcOpenAtEntry, TimedOut, Undecided
    <2>2. CASE \E b : ConcTakes(b, s, t, t.at) /\ d = Checked(s, b, Low(b))
      <3>1. PICK b : ConcTakes(b, s, t, t.at) /\ d = Checked(s, b, Low(b))
        BY <2>2
      <3>2. b \in Accounts /\ b.held = s.acct.held \cup {t}
        BY <3>1 DEF ConcTakes, Rolled
      <3>3. Low(b) \in Int
        BY <3>2, AccountType
      <3>4. /\ d \in Sims /\ d.phase = s.phase /\ d.acct = Dip(b, Low(b))
            /\ d.verdict # "PASS"
        BY <3>1, <3>2, <3>3, CheckedIs
      <3>5. d.acct.held = b.held
        BY <3>2, <3>3, <3>4, DipIs
      <3> QED
        BY <1>3, <3>2, <3>4, <3>5 DEF ConcOpenAtEntry
    <2> QED
      BY <1>1, <1>3, <2>1, <2>2, ConcOpenIs
  <1> QED
    BY <1>2, <1>3

NewPhase == [NewSim EXCEPT !.phase = 2]

LEMMA NewSimIs ==
    /\ NewSim \in Sims /\ NewSim.phase = 1 /\ NewSim.verdict = "NONE" /\ NewSim.acct = Fresh(0)
    /\ NewPhase \in Sims /\ NewPhase.phase = 2 /\ NewPhase.verdict = "NONE"
    /\ NewPhase.acct = Fresh(0)
  <1>1. Fresh(0) \in Accounts
    BY FreshIs
  <1> QED
    BY <1>1 DEF NewSim, NewPhase, Sims, Verdicts

Enters(h, H) ==
    h = [S \in SUBSET H |-> IF S = {} THEN NewPhase
                            ELSE ConcOpenAtEntry(h[S \ {Newest(S)}], Newest(S))]

LEMMA ReopenedIsFold ==
    ASSUME NEW H
    PROVE  Reopened(H) = (CHOOSE h : Enters(h, H))[H]
  BY DEF Reopened, InTurn, MapThenFoldSet, Enters, NewPhase

NewestOf(H) == [S \in SUBSET H |-> Newest(S)]

LEMMA NewestPicks ==
    ASSUME NEW H \in Holdings
    PROVE  IsFiniteSet(H) /\ Picks(NewestOf(H), H)
  <1>1. \A S \in SUBSET H : S \in Holdings
    BY PartsHeld
  <1> QED
    BY <1>1, NewestIsOne DEF Picks, NewestOf, Holdings

LEMMA EntersExists ==
    ASSUME ChallengeParameters, NEW H \in Holdings
    PROVE  \E h : Enters(h, H)
  <1> DEFINE step == [t \in H |-> [s \in Sims |-> ConcOpenAtEntry(s, t)]]
             pick == NewestOf(H)
  <1>1. step \in [H -> [Sims -> Sims]]
    <2>1. H \subseteq Trades
      BY DEF Holdings
    <2> QED
      BY <2>1, EntersType
  <1>2. PICK h : Recursive(h, H, Sims, NewPhase, pick, step)
    <2> HIDE DEF step, pick
    <2> QED
      BY <1>1, NewestPicks, NewSimIs, SubsetRecursion DEF pick
  <1>3. /\ h \in [SUBSET H -> Sims] /\ h[{}] = NewPhase
        /\ \A S \in SUBSET H : S # {} => h[S] = step[pick[S]][h[S \ {pick[S]}]]
    BY <1>2 DEF Recursive
  <1>4. ASSUME NEW S \in SUBSET H, S # {}
        PROVE  h[S] = ConcOpenAtEntry(h[S \ {Newest(S)}], Newest(S))
    <2>1. Newest(S) \in H /\ pick[S] = Newest(S) /\ h[S \ {Newest(S)}] \in Sims
      BY <1>3, <1>4, PartsHeld, NewestIsOne DEF NewestOf
    <2> QED
      BY <1>3, <1>4, <2>1
  <1>5. Enters(h, H)
    <2>1. \A S \in SUBSET H : h[S] = IF S = {} THEN NewPhase
                                     ELSE ConcOpenAtEntry(h[S \ {Newest(S)}], Newest(S))
      BY <1>3, <1>4
    <2> QED
      BY <1>3, <2>1 DEF Enters
  <1> QED
    BY <1>5

LEMMA ReopenedIs ==
    ASSUME ChallengeParameters, NEW H \in Holdings
    PROVE  /\ Reopened(H) \in Sims /\ Reopened(H).phase = 2 /\ Reopened(H).verdict # "PASS"
           /\ Undecided(Reopened(H)) => Reopened(H).acct.held \subseteq H
           /\ H = {} => Reopened(H) = NewPhase
  <1> DEFINE h == CHOOSE x : Enters(x, H)
             Good(d, S) == /\ d \in Sims /\ d.phase = 2 /\ d.verdict # "PASS"
                           /\ Undecided(d) => d.acct.held \subseteq S
             P == {S \in SUBSET H : Good(h[S], S)}
  <1>1. Enters(h, H) /\ Reopened(H) = h[H]
    BY EntersExists, ReopenedIsFold
  <1> HIDE DEF h
  <1>2. h[{}] = NewPhase
    BY <1>1 DEF Enters
  <1>3. ASSUME NEW S \in SUBSET H, \A T \in SUBSET S : T # S => T \in P
        PROVE  S \in P
    <2>1. CASE S = {}
      <3>1. Good(NewPhase, {})
        BY NewSimIs, FreshIs
      <3> QED
        BY <1>2, <2>1, <3>1
    <2>2. CASE S # {}
      <3> DEFINE t == Newest(S)
                 T == S \ {t}
      <3>1. t \in S /\ t \in Trades
        BY <2>2, PartsHeld, NewestIsOne DEF Holdings
      <3>2. Good(h[T], T)
        <4>1. T \in SUBSET S /\ T # S
          BY <3>1
        <4>2. T \in P
          <5> HIDE DEF P, T
          <5> QED
            BY <1>3, <4>1
        <4> QED
          BY <4>2
      <3>3. h[S] = ConcOpenAtEntry(h[T], t)
        BY <1>1, <2>2 DEF Enters
      <3> HIDE DEF t
      <3>4. Good(h[S], S)
        <4>1. PICK d : d = h[T] /\ Good(d, T)
          BY <3>2
        <4>2. PICK e : e = ConcOpenAtEntry(d, t)
          OBVIOUS
        <4>3. /\ e \in Sims /\ e.phase = d.phase /\ e.verdict # "PASS"
              /\ Undecided(e) => Undecided(d) /\ e.acct.held = d.acct.held \cup {t}
          BY <3>1, <4>1, <4>2, EntersType
        <4>4. h[S] = e
          BY <3>3, <4>1, <4>2
        <4>5. Good(e, S)
          BY <3>1, <4>1, <4>3
        <4> HIDE DEF Good
        <4> QED
          BY <4>4, <4>5
      <3> QED
        BY <3>4
    <2> QED
      BY <2>1, <2>2
  <1>4. SUBSET H \subseteq P
    <2>1. IsFiniteSet(H)
      BY DEF Holdings
    <2> HIDE DEF P
    <2> QED
      BY <1>3, <2>1, SubsetsByInduction
  <1>5. Good(h[H], H)
    BY <1>4
  <1> QED
    BY <1>1, <1>2, <1>5

-----------------------------------------------------------------------------
(* The account beside the simulators.                                      *)
LEMMA FeltIs ==
    ASSUME ChallengeParameters, NEW w \in Truths, NEW a \in Accounts
    PROVE  LET v == Felt(w, a)
               b == v.acct
           IN  /\ v \in Truths /\ SameBalance(b, a) /\ b.held = a.held
               /\ b.day = a.day /\ b.sod = a.sod /\ Low(b) = Low(a)
               /\ b.worst = (IF a.worst >= -Low(a) THEN a.worst ELSE -Low(a))
               /\ v.maxHit <=> w.maxHit \/ Low(a) <= MaxFloor(a)
               /\ v.dayHit <=> w.dayHit \/ Low(a) <= a.sod - DailyDD
  <1> DEFINE low == Low(a)
             b == Dip(a, low)
  <1>1. low \in Int
    BY AccountType
  <1> HIDE DEF low
  <1>2. /\ b \in Accounts /\ SameBalance(b, a) /\ b.held = a.held
        /\ b.day = a.day /\ b.sod = a.sod
        /\ b.worst = IF a.worst >= -low THEN a.worst ELSE -low
    BY <1>1, DipIs
  <1>3. Felt(w, a) = [acct |-> b, maxHit |-> w.maxHit \/ low <= MaxFloor(a),
                      dayHit |-> w.dayHit \/ low <= a.sod - DailyDD]
    BY DEF Felt, low, Low
  <1>4. w.maxHit \in BOOLEAN /\ w.dayHit \in BOOLEAN
    BY DEF Truths
  <1> HIDE DEF b
  <1>5. PICK m \in BOOLEAN, n \in BOOLEAN :
           /\ m <=> w.maxHit \/ low <= MaxFloor(a)
           /\ n <=> w.dayHit \/ low <= a.sod - DailyDD
    <2>1. /\ (w.maxHit \/ low <= MaxFloor(a)) \in BOOLEAN
          /\ (w.dayHit \/ low <= a.sod - DailyDD) \in BOOLEAN
      OBVIOUS
    <2> QED
      BY <2>1
  <1>6. Felt(w, a) = [acct |-> b, maxHit |-> m, dayHit |-> n]
    BY <1>3, <1>5, Zenon
  <1>7. Felt(w, a) \in Truths /\ Felt(w, a).acct = b /\ Felt(w, a).maxHit = m
        /\ Felt(w, a).dayHit = n
    BY <1>2, <1>6 DEF Truths
  <1>8. Low(b) = Low(a)
    BY <1>2 DEF Low, SameBalance
  <1> QED
    BY <1>2, <1>5, <1>7, <1>8 DEF low

LEMMA AdversePart ==
    ASSUME NEW H \in Holdings, NEW G \in SUBSET H
    PROVE  Adverse(G) <= Adverse(H)
  <1> DEFINE f == [x \in Trades |-> x.mae]
  <1>1. H \in SUBSET Trades /\ IsFiniteSet(H) /\ f \in [Trades -> Int] /\ G \in Holdings
    BY PartsHeld DEF Holdings, Trades
  <1>2. \A t \in H : f[t] >= 0
    BY <1>1 DEF Trades
  <1> HIDE DEF f
  <1>3. SumFunctionOnSet(f, G) <= SumFunctionOnSet(f, H)
    BY <1>1, <1>2, SumOfPart
  <1> QED
    BY <1>1, <1>3, AdverseIsSum DEF f

Deeper(x, y) == IF x >= y THEN x ELSE y

LEMMA TruthType ==
    ASSUME NEW w \in Truths
    PROVE  w.acct \in Accounts /\ w.maxHit \in BOOLEAN /\ w.dayHit \in BOOLEAN
  BY DEF Truths

(* A slot begins.                                                          *)
LEMMA BeginIs ==
    ASSUME ChallengeParameters, NEW w \in Truths, now \in Nat
    PROVE  LET v == AtBegin(w)
           IN  /\ v \in Truths /\ SameBalance(v.acct, w.acct) /\ v.acct.held = w.acct.held
               /\ v.acct.day = DayOf(now) /\ Low(v.acct) = Low(w.acct)
               /\ v.acct.sod = (IF w.acct.day = DayOf(now) THEN w.acct.sod ELSE w.acct.equity)
               /\ v.acct.worst = Deeper(w.acct.worst, -Low(w.acct))
               /\ v.maxHit <=> w.maxHit \/ Low(w.acct) <= MaxFloor(w.acct)
               /\ v.dayHit <=> w.dayHit \/ Low(v.acct) <= v.acct.sod - DailyDD
  <1> DEFINE r == Roll(w.acct, DayOf(now))
             v == Felt(w, r)
  <1>1. w.acct \in Accounts /\ DayOf(now) \in Int
    BY TruthType, DayIs
  <1>2. /\ r \in Accounts /\ SameBalance(r, w.acct) /\ r.worst = w.acct.worst
        /\ r.held = w.acct.held /\ r.day = DayOf(now)
        /\ r.sod = IF w.acct.day = DayOf(now) THEN w.acct.sod ELSE w.acct.equity
    BY <1>1, RollIs
  <1> HIDE DEF r
  <1>3. /\ v \in Truths /\ SameBalance(v.acct, r) /\ v.acct.held = r.held
        /\ v.acct.day = r.day /\ v.acct.sod = r.sod /\ Low(v.acct) = Low(r)
        /\ v.acct.worst = (IF r.worst >= -Low(r) THEN r.worst ELSE -Low(r))
        /\ v.maxHit <=> w.maxHit \/ Low(r) <= MaxFloor(r)
        /\ v.dayHit <=> w.dayHit \/ Low(r) <= r.sod - DailyDD
    BY <1>2, FeltIs
  <1>4. Low(r) = Low(w.acct) /\ MaxFloor(r) = MaxFloor(w.acct)
    BY <1>2, SameFloor DEF Low, SameBalance
  <1>5. AtBegin(w) = v
    BY DEF AtBegin, r
  <1> HIDE DEF v
  <1>6. SameBalance(v.acct, w.acct)
    BY <1>2, <1>3 DEF SameBalance
  <1>7. v.acct.worst = Deeper(w.acct.worst, -Low(w.acct))
    BY <1>2, <1>3, <1>4 DEF Deeper
  <1> QED
    BY <1>2, <1>3, <1>4, <1>5, <1>6, <1>7

(* A trade that is held closes.                                            *)
LEMMA AfterCloseIs ==
    ASSUME ChallengeParameters, NEW w \in Truths, NEW t \in w.acct.held
    PROVE  LET v == AfterClose(w, t)
               b == v.acct
               a == w.acct
           IN  /\ v \in Truths /\ b.equity = a.equity + t.ret
               /\ b.peak = Deeper(a.peak, b.equity)
               /\ b.held = a.held \ {t} /\ b.day = a.day /\ b.sod = a.sod
               /\ b.worst = Deeper(a.worst, -Low(b)) /\ Low(b) >= Low(a)
               /\ v.maxHit <=> w.maxHit \/ Low(b) <= MaxFloor(b)
               /\ v.dayHit <=> w.dayHit \/ Low(b) <= b.sod - DailyDD
               /\ AboveMax(a) => AboveMax(b)
               /\ AboveDay(a) => AboveDay(b)
  <1> DEFINE a == w.acct
             k == BookTrade(a, t)
             v == Felt(w, k)
             b == v.acct
  <1>1. a \in Accounts /\ t \in Trades
    BY TruthType, AccountType DEF Holdings
  <1> HIDE DEF a
  <1>2. /\ k \in Accounts /\ k.equity = a.equity + t.ret
        /\ k.peak = (IF a.peak >= k.equity THEN a.peak ELSE k.equity)
        /\ k.worst = a.worst /\ k.held = a.held \ {t} /\ k.day = a.day /\ k.sod = a.sod
    BY <1>1, BookIs
  <1>3. Low(k) >= Low(a) /\ (AboveMax(a) => AboveMax(k)) /\ (AboveDay(a) => AboveDay(k))
    BY <1>1, ClosingHelps DEF a
  <1> HIDE DEF k
  <1>4. /\ v \in Truths /\ SameBalance(b, k) /\ b.held = k.held
        /\ b.day = k.day /\ b.sod = k.sod /\ Low(b) = Low(k)
        /\ b.worst = (IF k.worst >= -Low(k) THEN k.worst ELSE -Low(k))
        /\ v.maxHit <=> w.maxHit \/ Low(k) <= MaxFloor(k)
        /\ v.dayHit <=> w.dayHit \/ Low(k) <= k.sod - DailyDD
    BY <1>2, FeltIs
  <1> HIDE DEF v
  <1>5. b.equity = k.equity /\ b.peak = k.peak /\ MaxFloor(b) = MaxFloor(k)
    BY <1>4, SameFloor DEF SameBalance
  <1>6. (AboveMax(k) => AboveMax(b)) /\ (AboveDay(k) => AboveDay(b))
    BY <1>4, <1>5 DEF AboveMax, AboveDay
  <1>7. AfterClose(w, t) = v
    BY DEF AfterClose, v, k, a
  <1>8. b.peak = Deeper(a.peak, b.equity) /\ b.worst = Deeper(a.worst, -Low(b))
    BY <1>2, <1>4, <1>5 DEF Deeper
  <1>9. /\ v \in Truths /\ b.equity = a.equity + t.ret
        /\ b.held = a.held \ {t} /\ b.day = a.day /\ b.sod = a.sod /\ Low(b) >= Low(a)
        /\ v.maxHit <=> w.maxHit \/ Low(b) <= MaxFloor(b)
        /\ v.dayHit <=> w.dayHit \/ Low(b) <= b.sod - DailyDD
        /\ AboveMax(a) => AboveMax(b)
        /\ AboveDay(a) => AboveDay(b)
    BY <1>2, <1>3, <1>4, <1>5, <1>6
  <1> QED
    BY <1>7, <1>8, <1>9 DEF a

(* Trades are opened.                                                      *)
LEMMA OpensIs ==
    ASSUME ChallengeParameters, NEW w \in Truths, NEW new, w.acct.held \cup new \in Holdings
    PROVE  LET v == AfterOpens(w, new)
               b == v.acct
               a == w.acct
           IN  /\ v \in Truths /\ SameBalance(b, a) /\ b.held = a.held \cup new
               /\ b.day = a.day /\ b.sod = a.sod
               /\ b.worst = Deeper(a.worst, -Low(b))
               /\ v.maxHit <=> w.maxHit \/ Low(b) <= MaxFloor(b)
               /\ v.dayHit <=> w.dayHit \/ Low(b) <= b.sod - DailyDD
  <1> DEFINE a == w.acct
             k == [a EXCEPT !.held = @ \cup new]
             v == Felt(w, k)
             b == v.acct
  <1>1. a \in Accounts
    BY TruthType
  <1>2. PICK H \in Holdings : H = a.held \cup new
    OBVIOUS
  <1> HIDE DEF a
  <1>3. k = [a EXCEPT !.held = H]
    BY <1>2
  <1>4. /\ k \in Accounts /\ SameBalance(k, a) /\ k.worst = a.worst
        /\ k.held = a.held \cup new /\ k.day = a.day /\ k.sod = a.sod
    BY <1>1, <1>2, <1>3 DEF Accounts, SameBalance
  <1> HIDE DEF k
  <1>5. /\ v \in Truths /\ SameBalance(b, k) /\ b.held = k.held
        /\ b.day = k.day /\ b.sod = k.sod /\ Low(b) = Low(k)
        /\ b.worst = (IF k.worst >= -Low(k) THEN k.worst ELSE -Low(k))
        /\ v.maxHit <=> w.maxHit \/ Low(k) <= MaxFloor(k)
        /\ v.dayHit <=> w.dayHit \/ Low(k) <= k.sod - DailyDD
    BY <1>4, FeltIs
  <1>6. AfterOpens(w, new) = v
    BY DEF AfterOpens, k, a
  <1> HIDE DEF v
  <1>7. SameBalance(b, a) /\ MaxFloor(b) = MaxFloor(k)
    BY <1>4, <1>5, SameFloor DEF SameBalance
  <1>8. b.worst = Deeper(a.worst, -Low(b))
    BY <1>4, <1>5 DEF Deeper
  <1>9. /\ v \in Truths /\ b.held = a.held \cup new /\ b.day = a.day /\ b.sod = a.sod
        /\ v.maxHit <=> w.maxHit \/ Low(b) <= MaxFloor(b)
        /\ v.dayHit <=> w.dayHit \/ Low(b) <= b.sod - DailyDD
    BY <1>4, <1>5, <1>7
  <1> QED
    BY <1>6, <1>7, <1>8, <1>9 DEF a

-----------------------------------------------------------------------------
(* How a simulator in phase 1 stands to the account beside it.  What is    *)
(* `new' has been opened by the simulator and not by the account yet.      *)
Running(s) == s.phase = 1 /\ Undecided(s)

SameDays(c, a) ==
    /\ c.day <= a.day
    /\ IF c.day = a.day THEN c.sod = a.sod ELSE a.sod = a.equity

Alongside(c, a, new) == SameBalance(c, a) /\ SameDays(c, a) /\ c.held = a.held \cup new

Shallower(c, w) == ~w.maxHit /\ AboveMax(c) /\ w.acct.worst <= c.worst /\ -Low(c) <= c.worst

(* The concurrent one looks at every event, at the worst of all that is    *)
(* open.  On a day without any, what was carried into it may have hit the  *)
(* floor of the day; it is looked at when it closes.                       *)
ConcFollows(s, w, new) ==
    Running(s) =>
        /\ Alongside(s.acct, w.acct, new) /\ Shallower(s.acct, w)
        /\ IF s.acct.day = w.acct.day THEN AboveDay(s.acct) /\ ~w.dayHit
           ELSE /\ new = {} /\ (w.dayHit => ~AboveDay(w.acct))
                /\ \A t \in w.acct.held : DayOf(t.at) < w.acct.day

(* An account that came through: whatever closes yet does it no harm.      *)
Through(s, w, daily) ==
    /\ ~w.maxHit /\ AboveMax(w.acct)
    /\ daily => ~w.dayHit /\ AboveDay(w.acct)
    /\ s.phase = 1 => w.acct.worst <= s.acct.worst /\ -Low(w.acct) <= s.acct.worst

LEMMA StaysThrough ==
    ASSUME ChallengeParameters, NEW s \in Sims, NEW w \in Truths, NEW t, NEW daily \in BOOLEAN,
           Through(s, w, daily)
    PROVE  Through(s, AfterClose(w, t), daily)
  <1>1. CASE t \notin w.acct.held
    BY <1>1 DEF AfterClose
  <1>2. CASE t \in w.acct.held
    <2> DEFINE v == AfterClose(w, t)
               a == w.acct
               b == v.acct
    <2>1. /\ v \in Truths /\ b.worst = Deeper(a.worst, -Low(b)) /\ Low(b) >= Low(a)
          /\ v.maxHit <=> w.maxHit \/ Low(b) <= MaxFloor(b)
          /\ v.dayHit <=> w.dayHit \/ Low(b) <= b.sod - DailyDD
          /\ AboveMax(a) => AboveMax(b)
          /\ AboveDay(a) => AboveDay(b)
      BY <1>2, AfterCloseIs
    <2>2. a \in Accounts /\ s.acct \in Accounts
      BY TruthType, SimType
    <2> HIDE DEF v
    <2>3. b \in Accounts
      BY <2>1, TruthType
    <2>4. /\ Low(a) \in Int /\ Low(b) \in Int /\ MaxFloor(b) \in Int /\ b.sod \in Int
          /\ DailyDD \in Int /\ a.worst \in Int /\ b.worst \in Int /\ s.acct.worst \in Int
      BY <2>2, <2>3, AccountType, FloorType
    <2>5. ~v.maxHit /\ AboveMax(b)
      BY <2>1, <2>4 DEF Through, AboveMax
    <2>6. daily => ~v.dayHit /\ AboveDay(b)
      BY <2>1, <2>4 DEF Through, AboveDay
    <2>7. s.phase = 1 => b.worst <= s.acct.worst /\ -Low(b) <= s.acct.worst
      BY <2>1, <2>4 DEF Through, Deeper
    <2> QED
      BY <2>5, <2>6, <2>7 DEF Through, v
  <1> QED
    BY <1>1, <1>2

LEMMA ConcBegins ==
    ASSUME ChallengeParameters, NEW s \in Sims, NEW w \in Truths, now \in Nat,
           ConcFollows(s, w, {}), w.acct.day <= DayOf(now),
           \A t \in w.acct.held : t.at < now /\ now - t.at <= SlotsPerDay,
           w.acct.day < DayOf(now) => \A t \in w.acct.held : DayOf(t.at) <= w.acct.day
    PROVE  ConcFollows(s, AtBegin(w), {})
  <1> SUFFICES ASSUME Running(s)
               PROVE  ConcFollows(s, AtBegin(w), {})
    BY DEF ConcFollows
  <1> DEFINE v == AtBegin(w)
             a == w.acct
             b == v.acct
             c == s.acct
  <1>1. /\ v \in Truths /\ SameBalance(b, a) /\ b.held = a.held
        /\ b.day = DayOf(now) /\ Low(b) = Low(a)
        /\ b.sod = (IF a.day = DayOf(now) THEN a.sod ELSE a.equity)
        /\ b.worst = Deeper(a.worst, -Low(a))
        /\ v.maxHit <=> w.maxHit \/ Low(a) <= MaxFloor(a)
        /\ v.dayHit <=> w.dayHit \/ Low(b) <= b.sod - DailyDD
    BY BeginIs
  <1> SUFFICES ConcFollows(s, v, {})
    OBVIOUS
  <1> HIDE DEF v
  <1>2. Alongside(c, a, {}) /\ Shallower(c, w)
    BY DEF ConcFollows
  <1>3. a \in Accounts /\ b \in Accounts /\ c \in Accounts
    BY <1>1, TruthType, SimType
  <1>4. /\ SameBalance(c, a) /\ c.held = a.held /\ c.day <= a.day
        /\ IF c.day = a.day THEN c.sod = a.sod ELSE a.sod = a.equity
    BY <1>2 DEF Alongside, SameDays
  <1>5. Low(c) = Low(a) /\ MaxFloor(c) = MaxFloor(a)
    BY <1>4, SameFloor DEF Low, SameBalance
  <1>6. /\ Low(a) \in Int /\ MaxFloor(a) \in Int /\ a.sod \in Int /\ b.sod \in Int /\ c.sod \in Int
        /\ a.equity \in Int /\ DailyDD \in Nat \ {0} /\ a.day \in Int /\ b.day \in Int
        /\ c.day \in Int /\ a.worst \in Int /\ b.worst \in Int /\ c.worst \in Int
    BY <1>3, AccountType, FloorType
  <1>7. Shallower(c, v)
    BY <1>1, <1>2, <1>5, <1>6 DEF Shallower, Deeper, AboveMax
  <1>8. CASE a.day = DayOf(now)
    <2>1. b.sod = a.sod /\ b.day = a.day
      BY <1>1, <1>8
    <2>2. Alongside(c, b, {})
      BY <1>1, <1>4, <2>1 DEF Alongside, SameDays, SameBalance
    <2>3. CASE c.day = a.day
      <3>1. AboveDay(c) /\ ~w.dayHit
        BY <2>3 DEF ConcFollows
      <3>2. ~v.dayHit
        BY <1>1, <1>4, <1>5, <1>6, <2>1, <2>3, <3>1 DEF AboveDay
      <3> QED
        BY <1>7, <2>1, <2>2, <2>3, <3>1, <3>2 DEF ConcFollows
    <2>4. CASE c.day # a.day
      <3>1. (w.dayHit => ~AboveDay(a)) /\ \A t \in a.held : DayOf(t.at) < a.day
        BY <2>4 DEF ConcFollows
      <3>2. v.dayHit => ~AboveDay(b)
        BY <1>1, <1>6, <2>1, <3>1 DEF AboveDay
      <3> QED
        BY <1>1, <1>7, <2>1, <2>2, <2>4, <3>1, <3>2 DEF ConcFollows
    <2> QED
      BY <2>3, <2>4
  <1>9. CASE a.day # DayOf(now)
    <2>1. a.day < b.day /\ c.day # b.day /\ c.day <= b.day /\ b.sod = a.equity
      BY <1>1, <1>4, <1>6, <1>9
    <2>2. Alongside(c, b, {})
      BY <1>1, <1>4, <2>1 DEF Alongside, SameDays, SameBalance
    <2>3. \A t \in b.held : DayOf(t.at) < b.day
      <3>1. ASSUME NEW t \in a.held PROVE DayOf(t.at) < b.day
        <4>1. t.at \in Nat
          BY <1>3, AccountType DEF Holdings, Trades
        <4>2. DayOf(t.at) \in Int
          BY <4>1, DayIs
        <4>3. DayOf(t.at) <= a.day
          BY <1>1, <2>1
        <4> QED
          BY <1>6, <2>1, <4>2, <4>3
      <3> QED
        BY <1>1, <3>1
    <2>4. ~w.dayHit
      <3>1. CASE c.day = a.day
        BY <3>1 DEF ConcFollows
      <3>2. CASE c.day # a.day
        <4>1. (w.dayHit => ~AboveDay(a)) /\ \A t \in a.held : DayOf(t.at) < a.day
          BY <3>2 DEF ConcFollows
        <4>2. a.held = {}
          <5> SUFFICES ASSUME NEW t \in a.held PROVE FALSE
            OBVIOUS
          <5>1. t.at \in Nat
            BY <1>3, AccountType DEF Holdings, Trades
          <5>2. DayOf(t.at) \in Nat /\ DayOf(now) \in Nat /\ SlotsPerDay \in Nat
            BY <5>1, DayIs
          <5>3. DayOf(t.at) + 1 < DayOf(now)
            BY <1>1, <1>6, <2>1, <4>1, <5>2
          <5>4. now - t.at > SlotsPerDay
            BY <5>1, <5>3, TwoDaysLater
          <5> QED
            BY <5>1, <5>2, <5>4
        <4>3. Low(a) = a.equity
          BY <1>6, <4>2, NothingAdverse DEF Low
        <4>4. a.sod = a.equity
          BY <1>4, <3>2
        <4> QED
          BY <1>6, <4>1, <4>3, <4>4 DEF AboveDay
      <3> QED
        BY <3>1, <3>2
    <2>5. v.dayHit => ~AboveDay(b)
      BY <1>1, <1>6, <2>4 DEF AboveDay
    <2> QED
      BY <1>7, <2>1, <2>2, <2>3, <2>5 DEF ConcFollows
  <1> QED
    BY <1>8, <1>9

LEMMA ConcOpens ==
    ASSUME ChallengeParameters, NEW s \in Sims, NEW w \in Truths, now \in Nat,
           ConcFollows(s, w, {}), w.acct.day = DayOf(now),
           NEW t \in Trades, t \notin w.acct.held
    PROVE  /\ ConcOpen(s, t) \in Sims
           /\ ConcFollows(ConcOpen(s, t), w, {t})
           /\ PassedOne(ConcOpen(s, t)) => PassedOne(s)
           /\ PassedOne(s) => PassedOne(ConcOpen(s, t))
           /\ ~Undecided(s) => ConcOpen(s, t) = s
           /\ s.phase = 2 => ConcOpen(s, t).phase = 2
           /\ Undecided(ConcOpen(s, t)) =>
                 Undecided(s) /\ ConcOpen(s, t).acct.held = s.acct.held \cup {t}
  <1> DEFINE d == ConcOpen(s, t)
             a == w.acct
             c == s.acct
  <1>0. d = ConcOpenAt(s, t, now)
    BY DEF ConcOpen
  <1> HIDE DEF d
  <1>1. CASE ~Undecided(s)
    <2>1. d = s
      BY <1>0, <1>1 DEF ConcOpenAt
    <2> QED
      BY <1>1, <2>1 DEF d, ConcFollows, Running
  <1>2. CASE Undecided(s) /\ TimedOut(d, s)
    BY <1>2 DEF d, TimedOut, ConcFollows, Running, Undecided, PassedOne
  <1>3. ASSUME Undecided(s), NEW b, ConcTakes(b, s, t, now), d = Checked(s, b, Low(b))
        PROVE  /\ d \in Sims /\ d.phase = s.phase /\ d.verdict # "PASS"
               /\ ConcFollows(d, w, {t})
               /\ d.acct.held = s.acct.held \cup {t}
    <2>1. /\ b \in Accounts /\ SameBalance(b, c) /\ b.worst = c.worst
          /\ b.day = DayOf(now) /\ b.held = c.held \cup {t}
          /\ b.sod = IF c.day = DayOf(now) THEN c.sod ELSE c.equity
      BY <1>3 DEF ConcTakes, Rolled
    <2>2. Low(b) \in Int
      BY <2>1, AccountType
    <2>3. /\ d \in Sims /\ d.phase = s.phase /\ d.acct = Dip(b, Low(b))
          /\ d.verdict = Breach(b, Low(b)) /\ d.verdict # "PASS"
      BY <1>3, <2>1, <2>2, CheckedIs
    <2> DEFINE k == d.acct
    <2>4. /\ k \in Accounts /\ SameBalance(k, b) /\ k.held = b.held
          /\ k.day = b.day /\ k.sod = b.sod
          /\ k.worst = IF b.worst >= -Low(b) THEN b.worst ELSE -Low(b)
      <3>1. PICK low \in Int : low = Low(b)
        BY <2>2
      <3>2. PICK e : e = Dip(b, low)
        OBVIOUS
      <3>3. /\ e \in Accounts /\ SameBalance(e, b) /\ e.held = b.held
            /\ e.day = b.day /\ e.sod = b.sod
            /\ e.worst = IF b.worst >= -low THEN b.worst ELSE -low
        BY <2>1, <3>2, DipIs
      <3>4. k = e
        BY <2>3, <3>1, <3>2
      <3> QED
        BY <3>1, <3>3, <3>4
    <2>5. ASSUME Running(d) PROVE ConcFollows(d, w, {t})
      <3>1. Running(s) /\ d.verdict = "NONE"
        BY <1>3, <2>3, <2>5 DEF Running, Undecided
      <3>2. Low(b) > MaxFloor(b) /\ Low(b) > b.sod - DailyDD
        BY <2>1, <2>2, <2>3, <3>1, BreachIs
      <3>3. Alongside(c, a, {}) /\ Shallower(c, w)
        BY <3>1 DEF ConcFollows
      <3>4. /\ SameBalance(c, a) /\ c.held = a.held
            /\ c.day <= a.day /\ IF c.day = a.day THEN c.sod = a.sod ELSE a.sod = a.equity
        BY <3>3 DEF Alongside, SameDays
      <3>5. b.sod = a.sod /\ b.day = a.day
        BY <2>1, <3>4 DEF SameBalance
      <3>6. Alongside(k, a, {t})
        BY <2>1, <2>4, <3>4, <3>5, AccountType DEF Alongside, SameDays, SameBalance
      <3>7. Low(k) = Low(b) /\ MaxFloor(k) = MaxFloor(b)
        BY <2>4, SameFloor DEF Low, SameBalance
      <3>8. a \in Accounts /\ c \in Accounts /\ a.held \in Holdings
        BY TruthType, SimType, AccountType
      <3>9. /\ a.worst \in Int /\ c.worst \in Int /\ k.worst \in Int /\ a.sod \in Int
            /\ DailyDD \in Int /\ Low(a) \in Int /\ a.equity \in Int /\ a.peak \in Int
            /\ Adverse(a.held) \in Nat
        BY <2>4, <3>8, AccountType, FloorType
      <3>10. Shallower(k, w)
        <4>1. AboveMax(k)
          BY <2>1, <2>4, <3>2, <3>3, <3>7 DEF AboveMax, Shallower, SameBalance
        <4>2. a.worst <= k.worst /\ -Low(k) <= k.worst /\ ~w.maxHit
          BY <2>1, <2>2, <2>4, <3>3, <3>7, <3>9 DEF Shallower
        <4> QED
          BY <4>1, <4>2 DEF Shallower
      <3>11. AboveDay(k)
        BY <2>4, <3>2, <3>7 DEF AboveDay
      <3>12. ~w.dayHit
        <4>1. Adverse(a.held \cup {t}) = t.mae + Adverse(a.held) /\ t.mae \in Nat
          BY <3>8, AdverseAdds DEF Trades
        <4>2. Low(b) = a.equity - (t.mae + Adverse(a.held)) /\ Low(a) = a.equity - Adverse(a.held)
          BY <2>1, <3>4, <4>1 DEF Low, SameBalance
        <4>3. AboveDay(a)
          BY <2>2, <3>2, <3>5, <3>9, <4>1, <4>2 DEF AboveDay
        <4> QED
          BY <3>1, <4>3 DEF ConcFollows
      <3> QED
        BY <2>4, <3>5, <3>6, <3>10, <3>11, <3>12 DEF ConcFollows
    <2>6. ConcFollows(d, w, {t})
      BY <2>5 DEF ConcFollows
    <2> QED
      BY <2>1, <2>3, <2>4, <2>6
  <1>4. CASE Undecided(s) /\ \E b : ConcTakes(b, s, t, now) /\ d = Checked(s, b, Low(b))
    BY <1>3, <1>4 DEF d, PassedOne, Undecided
  <1> QED
    BY <1>0, <1>1, <1>2, <1>4, ConcOpenIs

LEMMA ConcCloses ==
    ASSUME ChallengeParameters, NEW s \in Sims, NEW w \in Truths, now \in Nat,
           NEW new, w.acct.held \cup new \in Holdings,
           ConcFollows(s, w, new), w.acct.day = DayOf(now),
           NEW t \in w.acct.held, t \notin new, ~PassedOne(s)
    PROVE  /\ ConcFollows(ConcClose(s, t), AfterClose(w, t), new)
           /\ PassedOne(ConcClose(s, t)) => Through(ConcClose(s, t), AfterClose(w, t), TRUE)
  <1> DEFINE d == ConcClose(s, t)
             v == AfterClose(w, t)
             a == w.acct
             b == v.acct
             c == s.acct
  <1>1. CASE ~Undecided(s)
    <2>1. d = s
      BY <1>1 DEF ConcClose
    <2> QED
      BY <1>1, <2>1 DEF ConcFollows, Running
  <1>2. CASE Undecided(s) /\ TimedOut(d, s)
    BY <1>2 DEF TimedOut, ConcFollows, Running, Undecided, PassedOne
  <1>3. ASSUME Undecided(s), NEW r, ConcLooksAt(r, s, t),
               LET k == Checked(s, r, Low(r))
                   e == Settle(k, BookTrade(k.acct, t), Fresh(now))
               IN  d = IF ~Undecided(k) THEN k
                       ELSE IF e.phase > s.phase THEN Reopened(k.acct.held \ {t}) ELSE e
        PROVE  ConcFollows(d, v, new) /\ (PassedOne(d) => Through(d, v, TRUE))
    <2> DEFINE k == Checked(s, r, Low(r))
               m == k.acct
               n == BookTrade(m, t)
               e == Settle(k, n, Fresh(now))
    <2>0. s.phase = 1 /\ Running(s)
      BY <1>3, SimType DEF PassedOne, Running
    <2>1. /\ r \in Accounts /\ SameBalance(r, c) /\ r.worst = c.worst
          /\ r.day = DayOf(now) /\ r.held = c.held
          /\ r.sod = IF c.day = DayOf(now) THEN c.sod ELSE c.equity
      BY <1>3 DEF ConcLooksAt, Rolled
    <2>2. Low(r) \in Int
      BY <2>1, AccountType
    <2> HIDE DEF d, v
    <2>3. /\ k \in Sims /\ k.phase = s.phase /\ m = Dip(r, Low(r))
          /\ k.verdict = Breach(r, Low(r)) /\ k.verdict # "PASS"
      BY <2>1, <2>2, CheckedIs
    <2>4. /\ m \in Accounts /\ SameBalance(m, r) /\ m.held = r.held
          /\ m.day = r.day /\ m.sod = r.sod
          /\ m.worst = IF r.worst >= -Low(r) THEN r.worst ELSE -Low(r)
      BY <2>1, <2>2, <2>3, DipIs
    <2>k. d = IF ~Undecided(k) THEN k
              ELSE IF e.phase > s.phase THEN Reopened(m.held \ {t}) ELSE e
      BY <1>3
    <2> HIDE DEF k
    <2>5. CASE ~Undecided(k)
      <3>1. d = k
        BY <2>5, <2>k
      <3> QED
        BY <2>0, <2>3, <2>5, <3>1 DEF ConcFollows, Running, PassedOne
    <2>6. CASE Undecided(k)
      <3>1. Low(r) > MaxFloor(r) /\ Low(r) > r.sod - DailyDD
        BY <2>1, <2>2, <2>3, <2>6, BreachIs DEF Undecided
      <3>2. Alongside(c, a, new) /\ Shallower(c, w)
        BY <2>0 DEF ConcFollows
      <3>3. /\ SameBalance(c, a) /\ c.held = a.held \cup new
            /\ c.day <= a.day /\ IF c.day = a.day THEN c.sod = a.sod ELSE a.sod = a.equity
        BY <3>2 DEF Alongside, SameDays
      <3>4. r.sod = a.sod /\ r.day = a.day
        BY <2>1, <3>3 DEF SameBalance
      <3>5. a \in Accounts /\ c \in Accounts /\ t \in m.held /\ t \in Trades
        BY <2>1, <2>4, <3>3, TruthType, SimType, AccountType DEF Holdings
      <3>6. Low(m) = Low(r) /\ MaxFloor(m) = MaxFloor(r) /\ Low(c) = Low(r)
            /\ MaxFloor(a) = MaxFloor(r)
        BY <2>1, <2>4, <3>3, SameFloor DEF Low, SameBalance
      <3>7. Low(a) >= Low(m)
        <4>1. Adverse(a.held) <= Adverse(c.held)
          BY <3>3, AdversePart
        <4>2. a.equity = m.equity /\ m.held = c.held
          BY <2>1, <2>4, <3>3 DEF SameBalance
        <4> QED
          BY <2>4, <3>5, <4>1, <4>2, AccountType DEF Low
      <3>8. /\ a.worst \in Int /\ c.worst \in Int /\ m.worst \in Int /\ a.sod \in Int
            /\ DailyDD \in Int /\ Low(a) \in Int /\ Low(m) \in Int /\ MaxFloor(m) \in Int
            /\ a.equity \in Int /\ a.peak \in Int /\ a.day \in Int
        BY <2>4, <3>5, AccountType, FloorType
      <3>9. /\ n \in Accounts /\ n.equity = m.equity + t.ret
            /\ n.peak = (IF m.peak >= n.equity THEN m.peak ELSE n.equity)
            /\ n.worst = m.worst /\ n.held = m.held \ {t}
            /\ n.day = m.day /\ n.sod = m.sod
        BY <2>4, <3>5, BookIs
      <3>10. Low(n) >= Low(m) /\ (AboveMax(m) => AboveMax(n)) /\ (AboveDay(m) => AboveDay(n))
        BY <2>4, <3>5, ClosingHelps
      <3> HIDE DEF n
      <3>11. AboveMax(m) /\ AboveDay(m) /\ AboveMax(a) /\ AboveDay(a)
        <4>1. m.peak = a.peak /\ m.equity = a.equity /\ m.sod = a.sod
          BY <2>1, <2>4, <3>3, <3>4 DEF SameBalance
        <4>2. a.peak >= a.equity
          BY <3>2, <3>3 DEF Shallower, AboveMax, SameBalance
        <4> QED
          BY <3>1, <3>4, <3>6, <3>7, <3>8, <4>1, <4>2 DEF AboveMax, AboveDay
      <3>12. /\ v \in Truths /\ b.equity = a.equity + t.ret
             /\ b.peak = Deeper(a.peak, b.equity)
             /\ b.held = a.held \ {t} /\ b.day = a.day /\ b.sod = a.sod
             /\ b.worst = Deeper(a.worst, -Low(b)) /\ Low(b) >= Low(a)
             /\ v.maxHit <=> w.maxHit \/ Low(b) <= MaxFloor(b)
             /\ v.dayHit <=> w.dayHit \/ Low(b) <= b.sod - DailyDD
             /\ AboveMax(a) => AboveMax(b)
             /\ AboveDay(a) => AboveDay(b)
        BY AfterCloseIs DEF v
      <3>13. b \in Accounts /\ Low(b) \in Int /\ MaxFloor(b) \in Int /\ b.sod \in Int
             /\ Low(n) \in Int
        BY <3>9, <3>12, TruthType, AccountType, FloorType
      <3>14. AboveMax(b) /\ AboveDay(b) /\ ~v.maxHit
        BY <3>2, <3>8, <3>11, <3>12, <3>13 DEF AboveMax, Shallower
      <3>15. ~w.dayHit
        <4>1. CASE c.day = a.day
          BY <2>0, <4>1 DEF ConcFollows
        <4>2. CASE c.day # a.day
          BY <2>0, <3>11, <4>2 DEF ConcFollows
        <4> QED
          BY <4>1, <4>2
      <3>16. ~v.dayHit
        BY <3>8, <3>12, <3>13, <3>14, <3>15 DEF AboveDay
      <3>17. m.worst = c.worst /\ a.worst <= c.worst /\ -Low(m) <= c.worst
        BY <2>1, <2>4, <3>2, <3>6, <3>8 DEF Shallower
      <3>18. b.worst <= c.worst /\ -Low(b) <= c.worst /\ -Low(n) <= c.worst
        BY <3>7, <3>8, <3>10, <3>12, <3>13, <3>17 DEF Deeper
      <3>19. Alongside(n, b, new)
        <4>1. n.equity = b.equity /\ n.day = b.day /\ n.sod = b.sod
          BY <2>1, <2>4, <3>3, <3>4, <3>9, <3>12 DEF SameBalance
        <4>2. n.peak = b.peak
          BY <2>1, <2>4, <3>3, <3>9, <3>12, <4>1 DEF SameBalance, Deeper
        <4>3. n.held = b.held \cup new
          BY <2>1, <2>4, <3>3, <3>9, <3>12
        <4>4. n.day <= b.day
          BY <3>8, <3>12, <4>1
        <4> QED
          BY <4>1, <4>2, <4>3, <4>4 DEF Alongside, SameDays, SameBalance
      <3>20. /\ e \in Sims
             /\ GoesOn(e, k, n) \/ Advances(e, k, n, Fresh(now)) \/ Finishes(e, k, n)
        <4>1. now \in Int
          OBVIOUS
        <4> QED
          BY <2>3, <3>9, <4>1, FreshIs, SettleIs
      <3> HIDE DEF e
      <3>21. CASE GoesOn(e, k, n)
        <4>1. e.phase = 1 /\ e.verdict = "NONE" /\ e.acct = n
          BY <2>0, <2>3, <2>6, <3>21 DEF GoesOn, Undecided
        <4>2. d = e
          BY <2>0, <2>6, <2>k, <4>1
        <4>3. Shallower(n, v)
          BY <3>9, <3>10, <3>11, <3>14, <3>17, <3>18 DEF Shallower
        <4>4. AboveDay(n) /\ n.day = b.day
          BY <2>1, <2>4, <3>4, <3>9, <3>10, <3>11, <3>12
        <4>5. d.acct = n /\ ~PassedOne(d)
          BY <4>1, <4>2 DEF PassedOne
        <4>6. ConcFollows(d, v, new)
          BY <3>16, <3>19, <4>3, <4>4, <4>5 DEF ConcFollows
        <4> QED
          BY <4>5, <4>6
      <3>22. CASE Advances(e, k, n, Fresh(now))
        <4>1. e.phase = 2
          BY <3>22 DEF Advances
        <4>2. d = Reopened(m.held \ {t})
          BY <2>0, <2>6, <2>k, <4>1
        <4>3. m.held \ {t} \in Holdings
          BY <2>4, AccountType, PartsHeld
        <4>4. d.phase = 2
          BY <4>2, <4>3, ReopenedIs
        <4> QED
          BY <3>14, <3>16, <4>4 DEF ConcFollows, Running, Through
      <3>23. CASE Finishes(e, k, n)
        <4>1. e.phase = 1 /\ e.verdict = "PASS" /\ e.acct = n
          BY <2>0, <2>3, <3>23 DEF Finishes
        <4>2. d = e
          BY <2>0, <2>6, <2>k, <4>1
        <4> QED
          BY <3>9, <3>14, <3>16, <3>17, <3>18, <4>1, <4>2
             DEF ConcFollows, Running, Undecided, Through
      <3> QED
        BY <3>20, <3>21, <3>22, <3>23
    <2> QED
      BY <2>5, <2>6
  <1>4. CASE Undecided(s) /\ \E r : /\ ConcLooksAt(r, s, t)
                     /\ LET k == Checked(s, r, Low(r))
                            e == Settle(k, BookTrade(k.acct, t), Fresh(now))
                        IN  d = IF ~Undecided(k) THEN k
                                ELSE IF e.phase > s.phase THEN Reopened(k.acct.held \ {t}) ELSE e
    BY <1>3, <1>4
  <1>5. t \in Trades
    BY TruthType, AccountType DEF Holdings
  <1> QED
    BY <1>1, <1>2, <1>4, <1>5, ConcCloseIs

(* At the end of a slot the account has opened what the simulator has.     *)
LEMMA ConcEnds ==
    ASSUME ChallengeParameters, NEW s \in Sims, NEW w \in Truths,
           NEW new, w.acct.held \cup new \in Holdings, ConcFollows(s, w, new)
    PROVE  ConcFollows(s, AfterOpens(w, new), {})
  <1> SUFFICES ASSUME Running(s)
               PROVE  ConcFollows(s, AfterOpens(w, new), {})
    BY DEF ConcFollows
  <1> DEFINE v == AfterOpens(w, new)
             a == w.acct
             b == v.acct
             c == s.acct
  <1>1. /\ v \in Truths /\ SameBalance(b, a) /\ b.held = a.held \cup new
        /\ b.day = a.day /\ b.sod = a.sod
        /\ b.worst = Deeper(a.worst, -Low(b))
        /\ v.maxHit <=> w.maxHit \/ Low(b) <= MaxFloor(b)
        /\ v.dayHit <=> w.dayHit \/ Low(b) <= b.sod - DailyDD
    BY OpensIs
  <1> SUFFICES ConcFollows(s, v, {})
    OBVIOUS
  <1> HIDE DEF v
  <1>2. Alongside(c, a, new) /\ Shallower(c, w)
    BY DEF ConcFollows
  <1>3. a \in Accounts /\ b \in Accounts /\ c \in Accounts
    BY <1>1, TruthType, SimType
  <1>4. Alongside(c, b, {})
    BY <1>1, <1>2 DEF Alongside, SameDays, SameBalance
  <1>5. Low(c) = Low(b) /\ MaxFloor(c) = MaxFloor(b)
    BY <1>4, SameFloor DEF Low, SameBalance, Alongside
  <1>6. /\ Low(b) \in Int /\ MaxFloor(b) \in Int /\ a.worst \in Int /\ c.worst \in Int
        /\ a.sod \in Int /\ DailyDD \in Int /\ c.sod \in Int
    BY <1>3, AccountType, FloorType
  <1>7. Shallower(c, v)
    BY <1>1, <1>2, <1>5, <1>6 DEF Shallower, Deeper, AboveMax
  <1>8. CASE c.day = a.day
    <2>1. AboveDay(c) /\ ~w.dayHit /\ c.sod = a.sod
      BY <1>2, <1>8 DEF ConcFollows, Alongside, SameDays
    <2>2. ~v.dayHit
      BY <1>1, <1>5, <1>6, <2>1 DEF AboveDay
    <2> QED
      BY <1>1, <1>4, <1>7, <1>8, <2>1, <2>2 DEF ConcFollows
  <1>9. CASE c.day # a.day
    <2>1. new = {} /\ (w.dayHit => ~AboveDay(a)) /\ \A t \in a.held : DayOf(t.at) < a.day
      BY <1>9 DEF ConcFollows
    <2>2. b.held = a.held
      BY <1>1, <2>1
    <2>3. Low(b) = Low(a)
      BY <1>1, <2>2 DEF Low, SameBalance
    <2>4. v.dayHit => ~AboveDay(b)
      BY <1>1, <1>6, <2>1, <2>3 DEF AboveDay
    <2> QED
      BY <1>1, <1>4, <1>7, <1>9, <2>1, <2>2, <2>4 DEF ConcFollows
  <1> QED
    BY <1>8, <1>9

-----------------------------------------------------------------------------
(* The portfolio simulator looks after every event; of a day into which    *)
(* something was carried it does not say what happened before its first    *)
(* event, so that only days without are spoken of (daily).                 *)
PortFollows(s, w, new, daily) ==
    Running(s) =>
        /\ Alongside(s.acct, w.acct, new) /\ Shallower(s.acct, w) /\ s.acct.from = 0
        /\ daily => ~w.dayHit /\ Low(s.acct) > w.acct.sod - DailyDD

LEMMA PortBegins ==
    ASSUME ChallengeParameters, NEW s \in Sims, NEW w \in Truths, now \in Nat,
           NEW daily \in BOOLEAN, PortFollows(s, w, {}, daily), w.acct.day <= DayOf(now),
           daily /\ w.acct.day < DayOf(now) => w.acct.held = {}
    PROVE  PortFollows(s, AtBegin(w), {}, daily)
  <1> SUFFICES ASSUME Running(s)
               PROVE  PortFollows(s, AtBegin(w), {}, daily)
    BY DEF PortFollows
  <1> DEFINE v == AtBegin(w)
             a == w.acct
             b == v.acct
             c == s.acct
  <1>1. /\ v \in Truths /\ SameBalance(b, a) /\ b.held = a.held
        /\ b.day = DayOf(now) /\ Low(b) = Low(a)
        /\ b.sod = (IF a.day = DayOf(now) THEN a.sod ELSE a.equity)
        /\ b.worst = Deeper(a.worst, -Low(a))
        /\ v.maxHit <=> w.maxHit \/ Low(a) <= MaxFloor(a)
        /\ v.dayHit <=> w.dayHit \/ Low(b) <= b.sod - DailyDD
    BY BeginIs
  <1> SUFFICES PortFollows(s, v, {}, daily)
    OBVIOUS
  <1> HIDE DEF v
  <1>2. Alongside(c, a, {}) /\ Shallower(c, w) /\ c.from = 0
        /\ (daily => ~w.dayHit /\ Low(c) > a.sod - DailyDD)
    BY DEF PortFollows
  <1>3. a \in Accounts /\ b \in Accounts /\ c \in Accounts
    BY <1>1, TruthType, SimType
  <1>4. /\ SameBalance(c, a) /\ c.held = a.held /\ c.day <= a.day
        /\ IF c.day = a.day THEN c.sod = a.sod ELSE a.sod = a.equity
    BY <1>2 DEF Alongside, SameDays
  <1>5. Low(c) = Low(a) /\ MaxFloor(c) = MaxFloor(a)
    BY <1>4, SameFloor DEF Low, SameBalance
  <1>6. /\ Low(a) \in Int /\ MaxFloor(a) \in Int /\ a.sod \in Int /\ b.sod \in Int /\ c.sod \in Int
        /\ a.equity \in Int /\ DailyDD \in Nat \ {0} /\ a.day \in Int /\ b.day \in Int
        /\ c.day \in Int /\ a.worst \in Int /\ b.worst \in Int /\ c.worst \in Int
    BY <1>3, AccountType, FloorType
  <1>7. Shallower(c, v)
    BY <1>1, <1>2, <1>5, <1>6 DEF Shallower, Deeper, AboveMax
  <1>8. Alongside(c, b, {})
    <2>1. CASE a.day = DayOf(now)
      BY <1>1, <1>4, <2>1 DEF Alongside, SameDays, SameBalance
    <2>2. CASE a.day # DayOf(now)
      <3>1. a.day < b.day /\ c.day # b.day /\ c.day <= b.day /\ b.sod = a.equity
        BY <1>1, <1>4, <1>6, <2>2
      <3> QED
        BY <1>1, <1>4, <3>1 DEF Alongside, SameDays, SameBalance
    <2> QED
      BY <2>1, <2>2
  <1>9. ASSUME daily PROVE ~v.dayHit /\ Low(c) > b.sod - DailyDD
    <2>1. Low(b) > b.sod - DailyDD
      <3>1. CASE a.day = DayOf(now)
        BY <1>1, <1>2, <1>5, <1>9, <3>1
      <3>2. CASE a.day # DayOf(now)
        <4>1. a.held = {} /\ b.sod = a.equity
          BY <1>1, <1>6, <1>9, <3>2
        <4>2. Low(a) = a.equity
          BY <1>6, <4>1, NothingAdverse DEF Low
        <4> QED
          BY <1>1, <1>6, <4>1, <4>2
      <3> QED
        BY <3>1, <3>2
    <2> QED
      BY <1>1, <1>2, <1>5, <1>6, <1>9, <2>1
  <1> QED
    BY <1>2, <1>7, <1>8, <1>9 DEF PortFollows

LEMMA PortEnds ==
    ASSUME ChallengeParameters, NEW s \in Sims, NEW w \in Truths,
           NEW new, w.acct.held \cup new \in Holdings,
           NEW daily \in BOOLEAN, PortFollows(s, w, new, daily)
    PROVE  PortFollows(s, AfterOpens(w, new), {}, daily)
  <1> SUFFICES ASSUME Running(s)
               PROVE  PortFollows(s, AfterOpens(w, new), {}, daily)
    BY DEF PortFollows
  <1> DEFINE v == AfterOpens(w, new)
             a == w.acct
             b == v.acct
             c == s.acct
  <1>1. /\ v \in Truths /\ SameBalance(b, a) /\ b.held = a.held \cup new
        /\ b.day = a.day /\ b.sod = a.sod
        /\ b.worst = Deeper(a.worst, -Low(b))
        /\ v.maxHit <=> w.maxHit \/ Low(b) <= MaxFloor(b)
        /\ v.dayHit <=> w.dayHit \/ Low(b) <= b.sod - DailyDD
    BY OpensIs
  <1> SUFFICES PortFollows(s, v, {}, daily)
    OBVIOUS
  <1> HIDE DEF v
  <1>2. Alongside(c, a, new) /\ Shallower(c, w) /\ c.from = 0
        /\ (daily => ~w.dayHit /\ Low(c) > a.sod - DailyDD)
    BY DEF PortFollows
  <1>3. a \in Accounts /\ b \in Accounts /\ c \in Accounts
    BY <1>1, TruthType, SimType
  <1>4. Alongside(c, b, {})
    BY <1>1, <1>2 DEF Alongside, SameDays, SameBalance
  <1>5. Low(c) = Low(b) /\ MaxFloor(c) = MaxFloor(b)
    BY <1>4, SameFloor DEF Low, SameBalance, Alongside
  <1>6. /\ Low(b) \in Int /\ MaxFloor(b) \in Int /\ a.worst \in Int /\ c.worst \in Int
        /\ a.sod \in Int /\ DailyDD \in Int
    BY <1>3, AccountType, FloorType
  <1>7. Shallower(c, v)
    BY <1>1, <1>2, <1>5, <1>6 DEF Shallower, Deeper, AboveMax
  <1>8. daily => ~v.dayHit /\ Low(c) > b.sod - DailyDD
    BY <1>1, <1>2, <1>5, <1>6
  <1> QED
    BY <1>2, <1>4, <1>7, <1>8 DEF PortFollows

LEMMA PortOpens ==
    ASSUME ChallengeParameters, NEW s \in Sims, NEW w \in Truths, now \in Nat,
           NEW daily \in BOOLEAN, PortFollows(s, w, {}, daily), w.acct.day = DayOf(now),
           NEW t \in Trades, t \notin w.acct.held
    PROVE  /\ PortOpen(s, t) \in Sims
           /\ PortFollows(PortOpen(s, t), w, {t} \cap PortOpen(s, t).acct.held, daily)
           /\ ~Undecided(s) => PortOpen(s, t) = s
           /\ PortOpen(s, t).phase = s.phase
           /\ PassedOne(PortOpen(s, t)) => PassedOne(s)
           /\ Undecided(PortOpen(s, t)) =>
                 /\ Undecided(s) /\ PortOpen(s, t).acct.from = s.acct.from
                 /\ \/ PortOpen(s, t).acct.held = s.acct.held
                    \/ PortOpen(s, t).acct.held = s.acct.held \cup {t} /\ t.at >= s.acct.from
  <1> DEFINE d == PortOpen(s, t)
             a == w.acct
             c == s.acct
  <1> SUFFICES /\ d \in Sims /\ PortFollows(d, w, {t} \cap d.acct.held, daily)
               /\ ~Undecided(s) => d = s
               /\ d.phase = s.phase
               /\ PassedOne(d) => PassedOne(s)
               /\ Undecided(d) =>
                     /\ Undecided(s) /\ d.acct.from = c.from
                     /\ \/ d.acct.held = c.held
                        \/ d.acct.held = c.held \cup {t} /\ t.at >= c.from
    OBVIOUS
  <1>1. CASE ~Undecided(s)
    <2>1. d = s
      BY <1>1 DEF PortOpen
    <2> HIDE DEF d
    <2> QED
      BY <1>1, <2>1 DEF PortFollows, Running
  <1>2. CASE Undecided(s) /\ ~InPhase(s, t)
    <2>1. d = s
      BY <1>2 DEF PortOpen
    <2>2. ~Running(s)
      BY <1>2 DEF PortFollows, InPhase, Trades
    <2> HIDE DEF d
    <2> QED
      BY <1>2, <2>1, <2>2 DEF PortFollows
  <1>3. CASE Undecided(s) /\ TimedOut(d, s)
    <2> HIDE DEF d
    <2> QED
      BY <1>3 DEF TimedOut, PortFollows, Running, Undecided, PassedOne
  <1>4. ASSUME Undecided(s), InPhase(s, t), NEW b, PortTakes(b, s, t), d = Checked(s, b, Low(b))
        PROVE  /\ d \in Sims /\ d.phase = s.phase /\ d.verdict # "PASS"
               /\ PortFollows(d, w, {t} \cap d.acct.held, daily)
               /\ d.acct.from = c.from
               /\ \/ d.acct.held = c.held
                  \/ d.acct.held = c.held \cup {t} /\ t.at >= c.from
    <2>1. /\ b \in Accounts /\ SameBalance(b, c) /\ b.worst = c.worst /\ b.from = c.from
          /\ b.day = DayOf(now) /\ (b.held = c.held \/ b.held = c.held \cup {t})
          /\ b.sod = IF c.day = DayOf(now) THEN c.sod ELSE c.equity
      BY <1>4 DEF PortTakes, Rolled
    <2>2. Low(b) \in Int
      BY <2>1, AccountType
    <2> HIDE DEF d
    <2>3. /\ d \in Sims /\ d.phase = s.phase /\ d.acct = Dip(b, Low(b))
          /\ d.verdict = Breach(b, Low(b)) /\ d.verdict # "PASS"
      BY <1>4, <2>1, <2>2, CheckedIs
    <2> DEFINE k == d.acct
               new == {t} \cap k.held
    <2>4. /\ k \in Accounts /\ SameBalance(k, b) /\ k.held = b.held /\ k.from = b.from
          /\ k.day = b.day /\ k.sod = b.sod
          /\ k.worst = IF b.worst >= -Low(b) THEN b.worst ELSE -Low(b)
      BY <2>1, <2>2, <2>3, DipIs
    <2>5. ASSUME Running(d) PROVE PortFollows(d, w, new, daily)
      <3>1. Running(s) /\ d.verdict = "NONE"
        BY <1>4, <2>3, <2>5 DEF Running, Undecided
      <3>2. Low(b) > MaxFloor(b) /\ Low(b) > b.sod - DailyDD
        BY <2>1, <2>2, <2>3, <3>1, BreachIs
      <3>3. Alongside(c, a, {}) /\ Shallower(c, w) /\ c.from = 0
            /\ (daily => ~w.dayHit /\ Low(c) > a.sod - DailyDD)
        BY <3>1 DEF PortFollows
      <3>4. /\ SameBalance(c, a) /\ c.held = a.held
            /\ c.day <= a.day /\ IF c.day = a.day THEN c.sod = a.sod ELSE a.sod = a.equity
        BY <3>3 DEF Alongside, SameDays
      <3>5. b.sod = a.sod /\ b.day = a.day
        BY <2>1, <3>4 DEF SameBalance
      <3>6. Alongside(k, a, new)
        <4>1. k.held = a.held \cup new
          BY <2>1, <2>4, <3>4
        <4>2. SameBalance(k, a) /\ k.day = a.day /\ k.sod = a.sod
          BY <2>1, <2>4, <3>4, <3>5 DEF SameBalance
        <4>3. k.day <= a.day
          BY <2>4, <4>2, AccountType
        <4> QED
          BY <4>1, <4>2, <4>3 DEF Alongside, SameDays
      <3>7. Low(k) = Low(b) /\ MaxFloor(k) = MaxFloor(b)
        BY <2>4, SameFloor DEF Low, SameBalance
      <3>8. /\ a.worst \in Int /\ c.worst \in Int /\ k.worst \in Int
        BY <2>4, TruthType, SimType, AccountType
      <3>9. Shallower(k, w)
        <4>1. AboveMax(k)
          BY <2>1, <2>4, <3>2, <3>3, <3>7 DEF AboveMax, Shallower, SameBalance
        <4>2. a.worst <= k.worst /\ -Low(k) <= k.worst /\ ~w.maxHit
          BY <2>1, <2>2, <2>4, <3>3, <3>7, <3>8 DEF Shallower
        <4> QED
          BY <4>1, <4>2 DEF Shallower
      <3>10. daily => ~w.dayHit /\ Low(k) > a.sod - DailyDD
        BY <3>2, <3>3, <3>5, <3>7
      <3>11. k.from = 0
        BY <2>1, <2>4, <3>3
      <3> QED
        BY <3>6, <3>9, <3>10, <3>11 DEF PortFollows
    <2>6. PortFollows(d, w, new, daily)
      BY <2>5 DEF PortFollows
    <2>7. t.at >= c.from
      BY <1>4 DEF InPhase
    <2> QED
      BY <2>1, <2>3, <2>4, <2>6, <2>7
  <1>5. CASE /\ Undecided(s) /\ InPhase(s, t)
             /\ \E b : PortTakes(b, s, t) /\ d = Checked(s, b, Low(b))
    <2>1. /\ d \in Sims /\ d.phase = s.phase /\ d.verdict # "PASS"
          /\ PortFollows(d, w, {t} \cap d.acct.held, daily)
          /\ d.acct.from = c.from
          /\ \/ d.acct.held = c.held
             \/ d.acct.held = c.held \cup {t} /\ t.at >= c.from
      BY <1>4, <1>5
    <2> HIDE DEF d
    <2> QED
      BY <1>5, <2>1 DEF PassedOne
  <1> QED
    BY <1>1, <1>2, <1>3, <1>5, PortOpenIs

LEMMA PortCloses ==
    ASSUME ChallengeParameters, NEW s \in Sims, NEW w \in Truths, now \in Nat,
           NEW daily \in BOOLEAN, PortFollows(s, w, {}, daily), w.acct.day = DayOf(now),
           NEW t \in Trades, ~PassedOne(s)
    PROVE  /\ PortFollows(PortClose(s, t), AfterClose(w, t), {}, daily)
           /\ PassedOne(PortClose(s, t)) => Through(PortClose(s, t), AfterClose(w, t), daily)
  <1> DEFINE d == PortClose(s, t)
             v == AfterClose(w, t)
             a == w.acct
             b == v.acct
             c == s.acct
  <1> SUFFICES PortFollows(d, v, {}, daily) /\ (PassedOne(d) => Through(d, v, daily))
    OBVIOUS
  <1>1. CASE ~Running(s)
    <2>1. ~Undecided(s)
      BY <1>1, SimType DEF Running, PassedOne
    <2>2. d = s
      BY <2>1 DEF PortClose
    <2> HIDE DEF d, v
    <2> QED
      BY <1>1, <2>2 DEF PortFollows
  <1>2. CASE Running(s) /\ TimedOut(d, s)
    <2> HIDE DEF d, v
    <2> QED
      BY <1>2 DEF TimedOut, PortFollows, Running, Undecided, PassedOne
  <1>3. ASSUME Running(s), NEW g, PortBooks(g, s, t),
               LET k == Checked(s, g, Low(g))
               IN  d = IF ~Undecided(k) THEN k ELSE Settle(k, k.acct, Fresh(now + 1))
        PROVE  PortFollows(d, v, {}, daily) /\ (PassedOne(d) => Through(d, v, daily))
    <2> DEFINE k == Checked(s, g, Low(g))
               m == k.acct
               e == Settle(k, m, Fresh(now + 1))
    <2>0. /\ Alongside(c, a, {}) /\ Shallower(c, w) /\ c.from = 0
          /\ daily => ~w.dayHit /\ Low(c) > a.sod - DailyDD
      BY <1>3 DEF PortFollows
    <2>1. /\ SameBalance(c, a) /\ c.held = a.held
          /\ c.day <= a.day /\ IF c.day = a.day THEN c.sod = a.sod ELSE a.sod = a.equity
      BY <2>0 DEF Alongside, SameDays
    <2>2. PICK r : /\ Rolled(r, c, DayOf(now)) /\ r.held = c.held
                   /\ g = IF t \in r.held THEN BookTrade(r, t) ELSE r
      BY <1>3 DEF PortBooks
    <2>3. /\ r \in Accounts /\ SameBalance(r, c) /\ r.worst = c.worst /\ r.from = c.from
          /\ r.day = a.day /\ r.sod = a.sod
      BY <2>1, <2>2 DEF Rolled, SameBalance
    <2>4. a \in Accounts /\ c \in Accounts
      BY TruthType, SimType
    <2>n. /\ a.equity \in Int /\ a.peak \in Int /\ a.worst \in Int /\ c.worst \in Int
          /\ a.sod \in Int /\ DailyDD \in Int /\ a.day \in Int /\ Low(a) \in Int
          /\ MaxFloor(a) \in Int
      BY <2>4, AccountType, FloorType
    <2> HIDE DEF d, v
    (* What has been booked is what the account has.                       *)
    <2>5. /\ g \in Accounts /\ g.worst = c.worst /\ g.from = 0 /\ g.day = a.day /\ g.sod = a.sod
          /\ v \in Truths /\ SameBalance(g, b) /\ g.held = b.held
          /\ b.day = a.day /\ b.sod = a.sod /\ g.peak >= g.equity
      <3>1. CASE t \in a.held
        <4>1. t \in Trades /\ g = BookTrade(r, t)
          BY <2>1, <2>2, <3>1
        <4>2. /\ g \in Accounts /\ g.equity = r.equity + t.ret
              /\ g.peak = (IF r.peak >= g.equity THEN r.peak ELSE g.equity)
              /\ g.worst = r.worst /\ g.held = r.held \ {t} /\ g.from = r.from
              /\ g.day = r.day /\ g.sod = r.sod
          BY <2>3, <4>1, BookIs
        <4>3. /\ v \in Truths /\ b.equity = a.equity + t.ret
              /\ b.peak = Deeper(a.peak, b.equity)
              /\ b.held = a.held \ {t} /\ b.day = a.day /\ b.sod = a.sod
          BY <3>1, AfterCloseIs DEF v
        <4>4. g.equity = b.equity /\ g.peak = b.peak
          BY <2>1, <2>3, <4>2, <4>3 DEF SameBalance, Deeper
        <4>5. g.peak >= g.equity
          BY <2>n, <2>3, <4>2, AccountType
        <4> QED
          BY <2>0, <2>1, <2>2, <2>3, <4>2, <4>3, <4>4, <4>5 DEF SameBalance
      <3>2. CASE t \notin a.held
        <4>1. v = w /\ g = r
          BY <2>1, <2>2, <3>2 DEF v, AfterClose
        <4>2. g.peak >= g.equity
          BY <2>0, <2>3, <4>1 DEF Shallower, AboveMax, SameBalance
        <4> QED
          BY <2>0, <2>1, <2>2, <2>3, <4>1, <4>2 DEF SameBalance
      <3> QED
        BY <3>1, <3>2
    <2>6. /\ t \in a.held => /\ b.worst = Deeper(a.worst, -Low(b))
                             /\ v.maxHit <=> w.maxHit \/ Low(b) <= MaxFloor(b)
                             /\ v.dayHit <=> w.dayHit \/ Low(b) <= b.sod - DailyDD
          /\ t \notin a.held => v = w
      <3>1. CASE t \in a.held
        BY <3>1, AfterCloseIs DEF v
      <3>2. CASE t \notin a.held
        BY <3>2 DEF v, AfterClose
      <3> QED
        BY <3>1, <3>2
    <2>7. Low(g) \in Int /\ Low(b) = Low(g) /\ MaxFloor(g) = MaxFloor(b)
          /\ MaxFloor(g) \in Int
      BY <2>5, AccountType, FloorType, SameFloor DEF Low, SameBalance
    <2>8. /\ k \in Sims /\ k.phase = s.phase /\ m = Dip(g, Low(g))
          /\ k.verdict = Breach(g, Low(g)) /\ k.verdict # "PASS"
      BY <2>5, <2>7, CheckedIs
    <2>9. /\ m \in Accounts /\ SameBalance(m, g) /\ m.held = g.held /\ m.from = g.from
          /\ m.day = g.day /\ m.sod = g.sod
          /\ m.worst = IF g.worst >= -Low(g) THEN g.worst ELSE -Low(g)
      <3>1. PICK x : x = Dip(g, Low(g))
        OBVIOUS
      <3>2. g \in Accounts /\ Low(g) \in Int
        BY <2>5, <2>7
      <3>3. /\ x \in Accounts /\ SameBalance(x, g) /\ x.held = g.held /\ x.from = g.from
            /\ x.day = g.day /\ x.sod = g.sod
            /\ x.worst = IF g.worst >= -Low(g) THEN g.worst ELSE -Low(g)
        BY <3>1, <3>2, DipIs
      <3>4. m = x
        BY <2>8, <3>1
      <3> HIDE DEF k
      <3> QED
        BY <3>3, <3>4
    <2>k. d = IF ~Undecided(k) THEN k ELSE e
      BY <1>3
    <2> HIDE DEF k
    <2>10. CASE ~Undecided(k)
      <3>1. d = k
        BY <2>10, <2>k
      <3> QED
        BY <1>3, <2>8, <2>10, <3>1 DEF PortFollows, Running, PassedOne
    <2>11. CASE Undecided(k)
      <3>1. Low(g) > MaxFloor(g) /\ Low(g) > g.sod - DailyDD
        BY <2>5, <2>7, <2>8, <2>11, BreachIs DEF Undecided
      <3>2. Low(m) = Low(g) /\ MaxFloor(m) = MaxFloor(g)
        BY <2>9, SameFloor DEF Low, SameBalance
      <3>3. ~v.maxHit
        BY <2>0, <2>6, <2>7, <3>1 DEF Shallower
      <3>4. daily => ~v.dayHit
        BY <2>0, <2>n, <2>5, <2>6, <2>7, <3>1
      <3>5. m.worst \in Int /\ b.worst \in Int
        BY <2>5, <2>9, TruthType, AccountType
      <3>6. b.worst <= m.worst /\ -Low(b) <= m.worst
        <4>1. a.worst <= c.worst
          BY <2>0 DEF Shallower
        <4> QED
          BY <2>n, <2>5, <2>6, <2>7, <2>9, <3>5, <4>1 DEF Deeper
      <3>7. AboveMax(b) /\ AboveMax(m)
        BY <2>5, <2>7, <2>9, <3>1, <3>2 DEF AboveMax, SameBalance
      <3>8. Alongside(m, b, {})
        <4>1. m.day = b.day /\ m.sod = b.sod /\ m.held = b.held /\ SameBalance(m, b)
          BY <2>5, <2>9 DEF SameBalance
        <4>2. m.day <= b.day
          BY <2>n, <2>5, <4>1
        <4> QED
          BY <4>1, <4>2 DEF Alongside, SameDays
      <3>9. Shallower(m, v)
        BY <2>7, <3>2, <3>3, <3>6, <3>7 DEF Shallower
      <3>10. /\ e \in Sims
             /\ GoesOn(e, k, m) \/ Advances(e, k, m, Fresh(now + 1)) \/ Finishes(e, k, m)
        <4>1. now + 1 \in Int
          OBVIOUS
        <4> QED
          BY <2>8, <2>9, <4>1, FreshIs, SettleIs
      <3> HIDE DEF e
      <3>11. d = e
        BY <2>11, <2>k
      <3>12. CASE GoesOn(e, k, m)
        <4>1. d.phase = 1 /\ d.verdict = "NONE" /\ d.acct = m
          BY <1>3, <2>8, <2>11, <3>11, <3>12 DEF GoesOn, Undecided, Running
        <4>2. Low(m) > b.sod - DailyDD /\ m.from = 0
          BY <2>5, <2>9, <3>1, <3>2
        <4>3. PortFollows(d, v, {}, daily)
          BY <3>4, <3>8, <3>9, <4>1, <4>2 DEF PortFollows
        <4> QED
          BY <4>1, <4>3 DEF PassedOne
      <3>13. Through(e, v, daily)
        <4>1. AboveDay(b)
          BY <2>5, <2>7, <3>1 DEF AboveDay
        <4>2. ASSUME e.phase = 1
              PROVE  b.worst <= e.acct.worst /\ -Low(b) <= e.acct.worst
          <5>1. e.acct = m
            BY <3>10, <4>2 DEF GoesOn, Advances, Finishes
          <5> QED
            BY <3>6, <5>1
        <4> QED
          BY <3>3, <3>4, <3>7, <4>1, <4>2 DEF Through
      <3>14. CASE Advances(e, k, m, Fresh(now + 1)) \/ Finishes(e, k, m)
        <4>1. ~Running(e)
          BY <3>14 DEF Advances, Finishes, Running, Undecided
        <4> QED
          BY <3>11, <3>13, <4>1 DEF PortFollows
      <3> QED
        BY <3>10, <3>12, <3>14
    <2> QED
      BY <2>10, <2>11
  <1>4. CASE Running(s) /\ \E g : /\ PortBooks(g, s, t)
                     /\ LET k == Checked(s, g, Low(g))
                        IN  d = IF ~Undecided(k) THEN k ELSE Settle(k, k.acct, Fresh(now + 1))
    BY <1>3, <1>4
  <1>5. Running(s) => Undecided(s) /\ InPhase(s, t)
    BY DEF PortFollows, Running, InPhase, Trades
  <1> QED
    BY <1>1, <1>2, <1>4, <1>5, PortCloseIs

-----------------------------------------------------------------------------
(* The sequential simulator looks at a trade when it is closed, so that    *)
(* what happens while it is open is not known before; this is for trades   *)
(* that do not overlap.                                                    *)
SeqFollows(s, w, daily) ==
    Running(s) =>
        LET c == s.acct
            a == w.acct
        IN  /\ \A t, u \in a.held : t = u
            /\ SameBalance(c, a) /\ c.peak >= c.equity
            /\ a.equity > MaxFloor(a) /\ (w.maxHit => ~AboveMax(a))
            /\ -a.equity <= c.worst /\ (a.worst <= c.worst \/ a.worst <= -Low(a))
            /\ daily =>
                  /\ SameDays(c, a) /\ a.equity > a.sod - DailyDD
                  /\ w.dayHit => ~AboveDay(a)
                  /\ \A t \in a.held : DayOf(t.at) = a.day

LEMMA SeqBegins ==
    ASSUME ChallengeParameters, NEW s \in Sims, NEW w \in Truths, now \in Nat,
           NEW daily \in BOOLEAN, SeqFollows(s, w, daily), w.acct.day <= DayOf(now),
           daily /\ w.acct.day < DayOf(now) => w.acct.held = {}
    PROVE  SeqFollows(s, AtBegin(w), daily)
  <1> SUFFICES ASSUME Running(s)
               PROVE  SeqFollows(s, AtBegin(w), daily)
    BY DEF SeqFollows
  <1> DEFINE v == AtBegin(w)
             a == w.acct
             b == v.acct
             c == s.acct
  <1>1. /\ v \in Truths /\ SameBalance(b, a) /\ b.held = a.held
        /\ b.day = DayOf(now) /\ Low(b) = Low(a)
        /\ b.sod = (IF a.day = DayOf(now) THEN a.sod ELSE a.equity)
        /\ b.worst = Deeper(a.worst, -Low(a))
        /\ v.maxHit <=> w.maxHit \/ Low(a) <= MaxFloor(a)
        /\ v.dayHit <=> w.dayHit \/ Low(b) <= b.sod - DailyDD
    BY BeginIs
  <1> SUFFICES SeqFollows(s, v, daily)
    OBVIOUS
  <1> HIDE DEF v
  <1>2. /\ \A t, u \in a.held : t = u
        /\ SameBalance(c, a) /\ c.peak >= c.equity
        /\ a.equity > MaxFloor(a) /\ (w.maxHit => ~AboveMax(a))
        /\ -a.equity <= c.worst /\ (a.worst <= c.worst \/ a.worst <= -Low(a))
    BY DEF SeqFollows
  <1>3. daily =>
           /\ SameDays(c, a) /\ a.equity > a.sod - DailyDD
           /\ w.dayHit => ~AboveDay(a)
           /\ \A t \in a.held : DayOf(t.at) = a.day
    BY DEF SeqFollows
  <1>4. a \in Accounts /\ b \in Accounts /\ c \in Accounts
    BY <1>1, TruthType, SimType
  <1>5. b.equity = a.equity /\ b.peak = a.peak /\ MaxFloor(b) = MaxFloor(a)
    BY <1>1, SameFloor DEF SameBalance
  <1>6. /\ Low(a) \in Int /\ MaxFloor(a) \in Int /\ a.sod \in Int /\ b.sod \in Int
        /\ a.equity \in Int /\ DailyDD \in Nat \ {0} /\ a.day \in Int /\ b.day \in Int
        /\ c.day \in Int /\ a.worst \in Int /\ b.worst \in Int /\ c.worst \in Int
    BY <1>4, AccountType, FloorType
  <1>7. v.maxHit => ~AboveMax(b)
    BY <1>1, <1>2, <1>5, <1>6 DEF AboveMax
  <1>8. b.worst <= c.worst \/ b.worst <= -Low(b)
    BY <1>1, <1>2, <1>6 DEF Deeper
  <1>9. ASSUME daily
        PROVE  /\ SameDays(c, b) /\ b.equity > b.sod - DailyDD
               /\ v.dayHit => ~AboveDay(b)
               /\ \A t \in b.held : DayOf(t.at) = b.day
    <2>1. CASE a.day = DayOf(now)
      BY <1>1, <1>3, <1>5, <1>6, <1>9, <2>1 DEF SameDays, AboveDay
    <2>2. CASE a.day # DayOf(now)
      <3>1. /\ a.held = {} /\ b.held = {} /\ b.sod = b.equity /\ c.day <= b.day /\ c.day # b.day
        BY <1>1, <1>3, <1>5, <1>6, <1>9, <2>2 DEF SameDays
      <3>2. Low(a) = a.equity
        BY <1>6, <3>1, NothingAdverse DEF Low
      <3>3. ~w.dayHit
        BY <1>3, <1>9, <3>2 DEF AboveDay
      <3> QED
        BY <1>1, <1>5, <1>6, <3>1, <3>2, <3>3 DEF SameDays
    <2> QED
      BY <2>1, <2>2
  <1>10. SameBalance(c, b)
    BY <1>2, <1>5 DEF SameBalance
  <1> QED
    BY <1>1, <1>2, <1>5, <1>7, <1>8, <1>9, <1>10 DEF SeqFollows

LEMMA OneAdverse ==
    ASSUME NEW t, {t} \in Holdings
    PROVE  t \in Trades /\ Adverse({t}) = t.mae
  <1>1. Adverse({t}) = t.mae + Adverse({t} \ {t}) /\ t \in Trades
    BY AdverseTakes
  <1>2. {t} \ {t} = {}
    OBVIOUS
  <1>3. Adverse({t}) = t.mae + 0
    BY <1>1, <1>2, NothingAdverse
  <1> QED
    BY <1>1, <1>3 DEF Trades

LEMMA SeqCloses ==
    ASSUME ChallengeParameters, NEW s \in Sims, NEW w \in Truths, now \in Nat,
           NEW daily \in BOOLEAN, SeqFollows(s, w, daily),
           NEW t \in w.acct.held, ~PassedOne(s)
    PROVE  /\ SeqFollows(SeqClose(s, t), AfterClose(w, t), daily)
           /\ PassedOne(SeqClose(s, t)) => Through(SeqClose(s, t), AfterClose(w, t), daily)
  <1> DEFINE d == SeqClose(s, t)
             v == AfterClose(w, t)
             a == w.acct
             b == v.acct
             c == s.acct
  <1> SUFFICES SeqFollows(d, v, daily) /\ (PassedOne(d) => Through(d, v, daily))
    OBVIOUS
  <1>0. t \in Trades
    BY TruthType, AccountType DEF Holdings
  <1>1. CASE ~Running(s)
    <2>1. ~Undecided(s)
      BY <1>1, SimType DEF Running, PassedOne
    <2>2. d = s
      BY <2>1 DEF SeqClose
    <2> HIDE DEF d, v
    <2> QED
      BY <1>1, <2>2 DEF SeqFollows
  <1>2. CASE Running(s) /\ TimedOut(d, s)
    <2> HIDE DEF d, v
    <2> QED
      BY <1>2 DEF TimedOut, SeqFollows, Running, Undecided, PassedOne
  <1>3. ASSUME Running(s), NEW r, SeqLooksAt(r, s, t),
               LET k == Checked(s, r, r.equity - t.mae)
               IN  d = IF ~Undecided(k) THEN k ELSE Settle(k, BookTrade(k.acct, t), Fresh(now))
        PROVE  SeqFollows(d, v, daily) /\ (PassedOne(d) => Through(d, v, daily))
    <2> DEFINE low == r.equity - t.mae
               k == Checked(s, r, low)
               m == k.acct
               n == BookTrade(m, t)
               e == Settle(k, n, Fresh(now))
    <2>1. /\ \A u, x \in a.held : u = x
          /\ SameBalance(c, a) /\ c.peak >= c.equity
          /\ a.equity > MaxFloor(a) /\ (w.maxHit => ~AboveMax(a))
          /\ -a.equity <= c.worst /\ (a.worst <= c.worst \/ a.worst <= -Low(a))
      BY <1>3 DEF SeqFollows
    <2>2. daily =>
             /\ SameDays(c, a) /\ a.equity > a.sod - DailyDD
             /\ w.dayHit => ~AboveDay(a)
             /\ \A u \in a.held : DayOf(u.at) = a.day
      BY <1>3 DEF SeqFollows
    <2>3. /\ r \in Accounts /\ SameBalance(r, c) /\ r.worst = c.worst
          /\ r.day = DayOf(t.at)
          /\ r.sod = IF c.day = DayOf(t.at) THEN c.sod ELSE c.equity
      BY <1>3 DEF SeqLooksAt, Rolled
    <2>4. a \in Accounts /\ c \in Accounts /\ a.held \in Holdings /\ a.held = {t}
      BY <2>1, TruthType, SimType, AccountType
    <2>5. t.mae \in Nat /\ t.ret \in Int /\ t.ret >= -t.mae /\ r.equity \in Int /\ low \in Int
      BY <1>0, <2>3, AccountType DEF Trades
    <2> HIDE DEF d, v
    <2>6. low = Low(a)
      <3>1. Adverse(a.held) = t.mae
        BY <2>4, OneAdverse
      <3> QED
        BY <2>1, <2>3, <3>1 DEF Low, SameBalance
    <2> HIDE DEF low
    <2>7. /\ k \in Sims /\ k.phase = s.phase /\ m = Dip(r, low)
          /\ k.verdict = Breach(r, low) /\ k.verdict # "PASS"
      BY <2>3, <2>5, CheckedIs
    <2>k. d = IF ~Undecided(k) THEN k ELSE e
      BY <1>3 DEF low
    <2>8. /\ m \in Accounts /\ SameBalance(m, r) /\ m.day = r.day /\ m.sod = r.sod
          /\ m.worst = IF r.worst >= -low THEN r.worst ELSE -low
      <3>1. PICK x : x = Dip(r, low)
        OBVIOUS
      <3>2. /\ x \in Accounts /\ SameBalance(x, r) /\ x.day = r.day /\ x.sod = r.sod
            /\ x.worst = IF r.worst >= -low THEN r.worst ELSE -low
        BY <2>3, <2>5, <3>1, DipIs
      <3>3. m = x
        BY <2>7, <3>1
      <3> HIDE DEF k
      <3> QED
        BY <3>2, <3>3
    <2> HIDE DEF k
    <2>9. CASE ~Undecided(k)
      <3>1. d = k
        BY <2>9, <2>k
      <3> QED
        BY <1>3, <2>7, <2>9, <3>1 DEF SeqFollows, Running, PassedOne
    <2>10. CASE Undecided(k)
      <3>1. low > MaxFloor(r) /\ low > r.sod - DailyDD
        BY <2>3, <2>5, <2>7, <2>10, BreachIs DEF Undecided
      <3>2. /\ a.equity \in Int /\ a.peak \in Int /\ a.worst \in Int /\ c.worst \in Int
            /\ a.sod \in Int /\ DailyDD \in Int /\ a.day \in Int /\ Low(a) \in Int
            /\ MaxFloor(a) \in Int /\ m.worst \in Int /\ m.peak \in Int
        BY <2>4, <2>8, AccountType, FloorType
      <3>3. /\ v \in Truths /\ b.equity = a.equity + t.ret
            /\ b.peak = Deeper(a.peak, b.equity)
            /\ b.held = {} /\ b.day = a.day /\ b.sod = a.sod
            /\ b.worst = Deeper(a.worst, -Low(b)) /\ Low(b) >= Low(a)
            /\ v.maxHit <=> w.maxHit \/ Low(b) <= MaxFloor(b)
            /\ v.dayHit <=> w.dayHit \/ Low(b) <= b.sod - DailyDD
            /\ AboveMax(a) => AboveMax(b)
            /\ AboveDay(a) => AboveDay(b)
        <4>1. /\ v \in Truths /\ b.equity = a.equity + t.ret
              /\ b.peak = Deeper(a.peak, b.equity)
              /\ b.held = a.held \ {t} /\ b.day = a.day /\ b.sod = a.sod
              /\ b.worst = Deeper(a.worst, -Low(b)) /\ Low(b) >= Low(a)
              /\ v.maxHit <=> w.maxHit \/ Low(b) <= MaxFloor(b)
              /\ v.dayHit <=> w.dayHit \/ Low(b) <= b.sod - DailyDD
              /\ AboveMax(a) => AboveMax(b)
              /\ AboveDay(a) => AboveDay(b)
          BY AfterCloseIs DEF v
        <4>2. b.held = {}
          BY <2>4, <4>1
        <4> QED
          BY <4>1, <4>2
      <3>4. b \in Accounts /\ b.equity \in Int /\ Low(b) = b.equity /\ MaxFloor(b) \in Int
            /\ b.worst \in Int
        <4>1. b \in Accounts
          BY <3>3, TruthType
        <4>2. b.equity \in Int /\ MaxFloor(b) \in Int /\ b.worst \in Int
          BY <4>1, AccountType, FloorType
        <4>3. Low(b) = b.equity
          BY <3>3, <4>2, NothingAdverse DEF Low
        <4> QED
          BY <4>1, <4>2, <4>3
      <3>5. /\ n \in Accounts /\ n.equity = m.equity + t.ret
            /\ n.peak = (IF m.peak >= n.equity THEN m.peak ELSE n.equity)
            /\ n.worst = m.worst /\ n.day = m.day /\ n.sod = m.sod
        BY <1>0, <2>8, BookIs
      <3> HIDE DEF n
      <3>6. SameBalance(n, b) /\ n.peak >= n.equity
        <4>1. m.equity = a.equity /\ m.peak = a.peak
          BY <2>1, <2>3, <2>8 DEF SameBalance
        <4>2. n.equity = b.equity /\ n.peak = b.peak
          BY <3>3, <3>5, <4>1 DEF Deeper
        <4>3. n.peak >= n.equity
          BY <3>2, <3>4, <3>5, <4>2
        <4> QED
          BY <4>2, <4>3 DEF SameBalance
      <3>7. AboveMax(a)
        <4>1. MaxFloor(a) = MaxFloor(r) /\ a.peak >= a.equity
          BY <2>1, <2>3, SameFloor DEF SameBalance
        <4> QED
          BY <2>6, <3>1, <4>1 DEF AboveMax
      <3>8. AboveMax(b) /\ ~v.maxHit
        BY <2>1, <3>3, <3>4, <3>7 DEF AboveMax
      <3>9. b.worst <= n.worst /\ -b.equity <= n.worst
        BY <2>1, <2>3, <2>5, <2>6, <2>8, <3>2, <3>3, <3>4, <3>5 DEF Deeper
      <3>10. ASSUME daily
             PROVE  ~v.dayHit /\ AboveDay(b) /\ SameDays(n, b)
        <4>1. DayOf(t.at) = a.day /\ SameDays(c, a)
          BY <2>2, <3>10
        <4>2. r.sod = a.sod /\ r.day = a.day
          BY <2>1, <2>3, <4>1 DEF SameDays, SameBalance
        <4>3. AboveDay(a)
          BY <2>6, <3>1, <4>2 DEF AboveDay
        <4>4. ~v.dayHit
          BY <2>2, <3>2, <3>3, <3>4, <3>10, <4>3 DEF AboveDay
        <4>5. n.day = b.day /\ n.sod = b.sod /\ n.day <= b.day
          BY <2>8, <3>2, <3>3, <3>5, <4>2
        <4> QED
          BY <3>3, <4>3, <4>4, <4>5 DEF SameDays
      <3>11. /\ e \in Sims
             /\ GoesOn(e, k, n) \/ Advances(e, k, n, Fresh(now)) \/ Finishes(e, k, n)
        <4>1. now \in Int
          OBVIOUS
        <4> QED
          BY <2>7, <3>5, <4>1, FreshIs, SettleIs
      <3> HIDE DEF e
      <3>12. d = e
        BY <2>10, <2>k
      <3>13. CASE GoesOn(e, k, n)
        <4>1. d.phase = 1 /\ d.verdict = "NONE" /\ d.acct = n
          BY <1>3, <2>7, <2>10, <3>12, <3>13 DEF GoesOn, Undecided, Running
        <4>2. b.equity > MaxFloor(b)
          BY <3>4, <3>8 DEF AboveMax
        <4>3. daily => b.equity > b.sod - DailyDD
          BY <3>4, <3>10 DEF AboveDay
        <4>4. SeqFollows(d, v, daily)
          BY <3>3, <3>6, <3>8, <3>9, <3>10, <4>1, <4>2, <4>3 DEF SeqFollows
        <4> QED
          BY <4>1, <4>4 DEF PassedOne
      <3>14. CASE Advances(e, k, n, Fresh(now)) \/ Finishes(e, k, n)
        <4>1. ~Running(e)
          BY <3>14 DEF Advances, Finishes, Running, Undecided
        <4>2. e.phase = 1 => e.acct = n
          BY <3>14 DEF Advances, Finishes
        <4>3. Through(e, v, daily)
          BY <3>4, <3>8, <3>9, <3>10, <4>2 DEF Through
        <4> QED
          BY <3>12, <4>1, <4>3 DEF SeqFollows
      <3> QED
        BY <3>11, <3>13, <3>14
    <2> QED
      BY <2>9, <2>10
  <1>4. CASE Running(s) /\ \E r : /\ SeqLooksAt(r, s, t)
                     /\ LET k == Checked(s, r, r.equity - t.mae)
                        IN  d = IF ~Undecided(k) THEN k
                                ELSE Settle(k, BookTrade(k.acct, t), Fresh(now))
    BY <1>3, <1>4
  <1>5. Running(s) => Undecided(s)
    BY DEF Running
  <1> QED
    BY <1>0, <1>1, <1>2, <1>4, <1>5, SeqCloseIs

LEMMA SeqEnds ==
    ASSUME ChallengeParameters, NEW s \in Sims, NEW w \in Truths,
           NEW new, w.acct.held \cup new \in Holdings,
           NEW daily \in BOOLEAN, SeqFollows(s, w, daily),
           \A t, u \in w.acct.held \cup new : t = u,
           new = {} \/ w.acct.held = {},
           \A t \in new : DayOf(t.at) = w.acct.day
    PROVE  SeqFollows(s, AfterOpens(w, new), daily)
  <1> SUFFICES ASSUME Running(s)
               PROVE  SeqFollows(s, AfterOpens(w, new), daily)
    BY DEF SeqFollows
  <1> DEFINE v == AfterOpens(w, new)
             a == w.acct
             b == v.acct
             c == s.acct
  <1>1. /\ v \in Truths /\ SameBalance(b, a) /\ b.held = a.held \cup new
        /\ b.day = a.day /\ b.sod = a.sod
        /\ b.worst = Deeper(a.worst, -Low(b))
        /\ v.maxHit <=> w.maxHit \/ Low(b) <= MaxFloor(b)
        /\ v.dayHit <=> w.dayHit \/ Low(b) <= b.sod - DailyDD
    BY OpensIs
  <1> SUFFICES SeqFollows(s, v, daily)
    OBVIOUS
  <1> HIDE DEF v
  <1>2. /\ SameBalance(c, a) /\ c.peak >= c.equity
        /\ a.equity > MaxFloor(a) /\ (w.maxHit => ~AboveMax(a))
        /\ -a.equity <= c.worst /\ (a.worst <= c.worst \/ a.worst <= -Low(a))
    BY DEF SeqFollows
  <1>3. daily =>
           /\ SameDays(c, a) /\ a.equity > a.sod - DailyDD
           /\ w.dayHit => ~AboveDay(a)
           /\ \A t \in a.held : DayOf(t.at) = a.day
    BY DEF SeqFollows
  <1>4. a \in Accounts /\ b \in Accounts /\ c \in Accounts
    BY <1>1, TruthType, SimType
  <1>5. b.equity = a.equity /\ b.peak = a.peak /\ MaxFloor(b) = MaxFloor(a)
    BY <1>1, SameFloor DEF SameBalance
  <1>6. /\ Low(a) \in Int /\ Low(b) \in Int /\ MaxFloor(a) \in Int /\ a.sod \in Int
        /\ a.equity \in Int /\ DailyDD \in Nat \ {0}
        /\ a.worst \in Int /\ b.worst \in Int /\ c.worst \in Int
    BY <1>4, AccountType, FloorType
  <1>7. Low(b) = Low(a) \/ Low(a) = a.equity
    <2>1. CASE new = {}
      BY <1>1, <1>5, <2>1 DEF Low
    <2>2. CASE a.held = {}
      BY <1>6, <2>2, NothingAdverse DEF Low
    <2> QED
      BY <2>1, <2>2
  <1>8. v.maxHit => ~AboveMax(b)
    BY <1>1, <1>2, <1>5, <1>6, <1>7 DEF AboveMax, SameBalance
  <1>9. b.worst <= c.worst \/ b.worst <= -Low(b)
    BY <1>1, <1>2, <1>6, <1>7 DEF Deeper
  <1>10. ASSUME daily
         PROVE  /\ SameDays(c, b) /\ b.equity > b.sod - DailyDD
                /\ v.dayHit => ~AboveDay(b)
                /\ \A t \in b.held : DayOf(t.at) = b.day
    <2>1. SameDays(c, b) /\ b.equity > b.sod - DailyDD
      BY <1>1, <1>3, <1>5, <1>10 DEF SameDays
    <2>2. \A t \in b.held : DayOf(t.at) = b.day
      BY <1>1, <1>3, <1>10
    <2>3. v.dayHit => ~AboveDay(b)
      BY <1>1, <1>3, <1>6, <1>7, <1>10 DEF AboveDay
    <2> QED
      BY <2>1, <2>2, <2>3
  <1>11. SameBalance(c, b)
    BY <1>2, <1>5 DEF SameBalance
  <1>12. \A t, u \in b.held : t = u
    BY <1>1
  <1> QED
    BY <1>2, <1>5, <1>8, <1>9, <1>10, <1>11, <1>12 DEF SeqFollows

-----------------------------------------------------------------------------
(* The sequential and the concurrent simulator, over trades that neither   *)
(* touch nor are carried over the reset.  The concurrent one also looks at *)
(* the calendar when a trade closes, so it may give up on its own.         *)
AlikeAccounts(a, b) == SameBalance(a, b) /\ a.sod = b.sod /\ a.day = b.day /\ a.start = b.start

Alike(s, c, held) ==
    /\ s.phase = c.phase
    /\ held = {} => /\ s.verdict = c.verdict
                    /\ Undecided(s) => AlikeAccounts(s.acct, c.acct) /\ s.acct.days = c.acct.days
                                       /\ c.acct.held = {}
    /\ \A t \in held :
          LET a == Roll(s.acct, DayOf(t.at))
          IN  /\ held = {t}
              /\ ~Undecided(s) => c.verdict = s.verdict
              /\ Undecided(s) =>
                    /\ ~Late(s.acct, t, t.at)
                    /\ c.verdict = Breach(a, a.equity - t.mae)
                    /\ Undecided(c) =>
                          /\ AlikeAccounts(a, c.acct) /\ c.acct.held = {t}
                          /\ c.acct.days = s.acct.days \cup {DayOf(t.at)}

GivenUp(c) == rules.limit > 0 /\ c.verdict = "TIMEOUT"

Abreast(s, c, held) == GivenUp(c) \/ Alike(s, c, held)

(* Who has given up stays so.                                              *)
LEMMA StaysGivenUp ==
    ASSUME NEW c, GivenUp(c), NEW t
    PROVE  GivenUp(ConcOpen(c, t)) /\ GivenUp(ConcClose(c, t))
  <1>1. ~Undecided(c)
    BY DEF GivenUp, Undecided
  <1>2. ConcOpen(c, t) = c /\ ConcClose(c, t) = c
    BY <1>1 DEF ConcOpen, ConcOpenAt, ConcClose
  <1> QED
    BY <1>2

LEMMA DippedIs ==
    ASSUME NEW a \in Accounts, NEW low \in Int, NEW x, x = Dip(a, low)
    PROVE  /\ x \in Accounts /\ AlikeAccounts(x, a)
           /\ x.held = a.held /\ x.days = a.days
  BY DipIs DEF AlikeAccounts

LEMMA SameBreach ==
    ASSUME NEW a, NEW b, SameBalance(a, b), a.sod = b.sod, NEW low
    PROVE  Breach(a, low) = Breach(b, low)
  <1>1. MaxFloor(a) = MaxFloor(b) /\ a.sod = b.sod
    BY SameFloor DEF SameBalance
  <1> QED
    BY <1>1 DEF Breach

LEMMA AlikeOpens ==
    ASSUME ChallengeParameters, NEW s \in Sims, NEW c \in Sims, now \in Nat,
           rules.limit \in Nat, Alike(s, c, {}), NEW t \in Trades, t.at = now
    PROVE  Abreast(s, ConcOpen(c, t), {t})
  <1> DEFINE d == ConcOpen(c, t)
             a == Roll(s.acct, DayOf(t.at))
  <1>1. /\ s.phase = c.phase /\ s.verdict = c.verdict
        /\ Undecided(s) => AlikeAccounts(s.acct, c.acct) /\ s.acct.days = c.acct.days
                           /\ c.acct.held = {}
    BY DEF Alike
  <1>2. d = ConcOpenAt(c, t, now)
    BY DEF ConcOpen
  <1> SUFFICES Abreast(s, d, {t})
    OBVIOUS
  <1> HIDE DEF d
  <1>3. CASE ~Undecided(s)
    <2>1. d = c
      BY <1>1, <1>2, <1>3 DEF ConcOpenAt, Undecided
    <2> QED
      BY <1>1, <1>3, <2>1 DEF Alike, Abreast
  <1>4. CASE Undecided(s)
    <2>1. Undecided(c)
      BY <1>1, <1>4 DEF Undecided
    <2>0. CASE TimedOut(d, c)
      BY <2>0 DEF TimedOut, GivenUp, Abreast
    <2> SUFFICES ASSUME ~TimedOut(d, c) PROVE Abreast(s, d, {t})
      BY <2>0
    <2>2. PICK b : ConcTakes(b, c, t, now) /\ d = Checked(c, b, Low(b))
      BY <1>2, <2>1, ConcOpenIs
    <2>l. ~Late(s.acct, t, t.at)
      <3>1. s.acct.start = c.acct.start /\ s.acct.start \in Int /\ ~TooLate(c.acct, now)
        BY <1>1, <1>4, <2>2, SimType DEF ConcTakes, AlikeAccounts, Accounts
      <3> QED
        BY <3>1 DEF Late, Started, TooLate
    <2>3. /\ b \in Accounts /\ SameBalance(b, c.acct) /\ b.day = DayOf(now)
          /\ b.sod = (IF c.acct.day = DayOf(now) THEN c.acct.sod ELSE c.acct.equity)
          /\ b.days = c.acct.days \cup {DayOf(t.at)} /\ b.held = {t}
          /\ b.start = c.acct.start
      BY <1>1, <1>4, <2>2 DEF ConcTakes, Rolled
    <2>4. /\ SameBalance(a, s.acct) /\ a.day = DayOf(t.at) /\ a.start = s.acct.start
          /\ a.sod = (IF s.acct.day = DayOf(t.at) THEN s.acct.sod ELSE s.acct.equity)
      <3>1. s.acct \in Accounts /\ t.at \in Nat
        BY SimType
      <3>2. DayOf(t.at) \in Int
        BY <3>1, DayIs
      <3> QED
        BY <3>1, <3>2, RollIs
    <2> HIDE DEF a
    <2>5. AlikeAccounts(a, b)
      BY <1>1, <1>4, <2>3, <2>4 DEF AlikeAccounts, SameBalance
    <2>6. Low(b) = a.equity - t.mae /\ Low(b) \in Int
      BY <2>3, <2>5, OneAdverse, AccountType DEF Low, AlikeAccounts, SameBalance
    <2>7. /\ d.phase = c.phase /\ d.acct = Dip(b, Low(b)) /\ d.verdict = Breach(b, Low(b))
      BY <2>2, <2>3, <2>6, CheckedIs
    <2>8. AlikeAccounts(d.acct, b) /\ d.acct.held = b.held /\ d.acct.days = b.days
      BY <2>3, <2>6, <2>7, DippedIs
    <2>9. d.verdict = Breach(a, a.equity - t.mae)
      BY <2>5, <2>6, <2>7, SameBreach DEF AlikeAccounts
    <2>10. AlikeAccounts(a, d.acct)
      BY <2>5, <2>8 DEF AlikeAccounts, SameBalance
    <2>11. d.acct.held = {t} /\ d.acct.days = s.acct.days \cup {DayOf(t.at)}
      BY <1>1, <1>4, <2>3, <2>8
    <2> QED
      BY <1>1, <1>4, <2>7, <2>9, <2>10, <2>11, <2>l DEF Alike, Abreast, a
  <1> QED
    BY <1>3, <1>4

LEMMA AlikeCloses ==
    ASSUME ChallengeParameters, NEW s \in Sims, NEW c \in Sims, now \in Nat,
           NEW t \in Trades, Alike(s, c, {t}), DayOf(t.at) = DayOf(now)
    PROVE  Abreast(SeqClose(s, t), ConcClose(c, t), {})
  <1> DEFINE d == SeqClose(s, t)
             f == ConcClose(c, t)
             a == Roll(s.acct, DayOf(t.at))
  <1>1. /\ s.phase = c.phase
        /\ ~Undecided(s) => c.verdict = s.verdict
        /\ Undecided(s) =>
              /\ ~Late(s.acct, t, t.at)
              /\ c.verdict = Breach(a, a.equity - t.mae)
              /\ Undecided(c) =>
                    /\ AlikeAccounts(a, c.acct) /\ c.acct.held = {t}
                    /\ c.acct.days = s.acct.days \cup {DayOf(t.at)}
    BY DEF Alike
  <1>2. /\ a \in Accounts /\ SameBalance(a, s.acct) /\ a.day = DayOf(t.at) /\ a.start = s.acct.start
        /\ a.sod = (IF s.acct.day = DayOf(t.at) THEN s.acct.sod ELSE s.acct.equity)
    <2>1. s.acct \in Accounts /\ t.at \in Nat
      BY SimType DEF Trades
    <2>2. DayOf(t.at) \in Int
      BY <2>1, DayIs
    <2> QED
      BY <2>1, <2>2, RollIs
  <1> HIDE DEF a
  <1> SUFFICES Abreast(d, f, {})
    OBVIOUS
  <1>3. CASE ~Undecided(s)
    <2>1. d = s /\ f = c
      BY <1>1, <1>3 DEF SeqClose, ConcClose, Undecided
    <2> HIDE DEF d, f
    <2> QED
      BY <1>1, <1>3, <2>1 DEF Alike, Abreast
  <1>4. CASE Undecided(s)
    <2>1. PICK b : /\ SeqLooksAt(b, s, t)
                   /\ LET k == Checked(s, b, b.equity - t.mae)
                      IN  d = IF ~Undecided(k) THEN k
                              ELSE Settle(k, BookTrade(k.acct, t), Fresh(now))
      BY <1>1, <1>4, SeqCloseIs
    <2> DEFINE low == b.equity - t.mae
               k == Checked(s, b, low)
               n == BookTrade(k.acct, t)
               e == Settle(k, n, Fresh(now))
    <2>2. /\ b \in Accounts /\ SameBalance(b, s.acct) /\ b.day = DayOf(t.at)
          /\ b.sod = (IF s.acct.day = DayOf(t.at) THEN s.acct.sod ELSE s.acct.equity)
          /\ b.days = s.acct.days \cup {DayOf(t.at)} /\ b.start = Started(s.acct, t)
      BY <2>1 DEF SeqLooksAt, Rolled
    <2>3. SameBalance(a, b) /\ a.sod = b.sod /\ a.day = b.day
      BY <1>2, <2>2 DEF SameBalance
    <2>4. low \in Int /\ low = a.equity - t.mae
      BY <2>2, <2>3, AccountType DEF Trades, SameBalance
    <2>k. d = IF ~Undecided(k) THEN k ELSE e
      BY <2>1
    <2> HIDE DEF d, f, low
    <2>5. /\ k \in Sims /\ k.phase = s.phase /\ k.acct = Dip(b, low)
          /\ k.verdict = Breach(b, low)
      BY <2>2, <2>4, CheckedIs
    <2> HIDE DEF k
    <2>6. k.verdict = c.verdict
      BY <1>1, <1>4, <2>3, <2>4, <2>5, SameBreach
    <2>7. CASE ~Undecided(c)
      <3>1. f = c /\ d = k
        BY <2>6, <2>7, <2>k DEF ConcClose, Undecided, f
      <3> QED
        BY <1>1, <2>5, <2>6, <2>7, <3>1 DEF Alike, Abreast, Undecided
    <2>8. CASE Undecided(c)
      <3>1. AlikeAccounts(a, c.acct) /\ c.acct.held = {t}
            /\ c.acct.days = s.acct.days \cup {DayOf(t.at)}
        BY <1>1, <1>4, <2>8
      <3>0. CASE TimedOut(f, c)
        BY <3>0 DEF TimedOut, GivenUp, Abreast
      <3> SUFFICES ASSUME ~TimedOut(f, c) PROVE Abreast(d, f, {})
        BY <3>0
      <3>2. PICK r : /\ ConcLooksAt(r, c, t)
                     /\ LET q == Checked(c, r, Low(r))
                            h == Settle(q, BookTrade(q.acct, t), Fresh(now))
                        IN  f = IF ~Undecided(q) THEN q
                                ELSE IF h.phase > c.phase THEN Reopened(q.acct.held \ {t}) ELSE h
        BY <2>8, ConcCloseIs DEF f
      <3> DEFINE x == Low(r)
                 q == Checked(c, r, x)
                 o == BookTrade(q.acct, t)
                 h == Settle(q, o, Fresh(now))
      <3>3. /\ r \in Accounts /\ SameBalance(r, c.acct) /\ r.day = c.acct.day
            /\ r.sod = c.acct.sod /\ r.days = c.acct.days /\ r.held = {t}
            /\ r.start = Started(s.acct, t)
        BY <1>2, <3>1, <3>2 DEF ConcLooksAt, Rolled, AlikeAccounts, Started
      <3>4. AlikeAccounts(b, r)
        BY <2>2, <2>3, <3>1, <3>3 DEF AlikeAccounts, SameBalance
      <3>5. x = low /\ x \in Int
        BY <2>4, <3>3, <3>4, OneAdverse, AccountType DEF Low, AlikeAccounts, SameBalance, low
      <3>f. f = IF ~Undecided(q) THEN q
                ELSE IF h.phase > c.phase THEN Reopened(q.acct.held \ {t}) ELSE h
        BY <3>2
      <3> HIDE DEF x
      <3>6. /\ q \in Sims /\ q.phase = c.phase /\ q.acct = Dip(r, x)
            /\ q.verdict = Breach(r, x)
        BY <3>3, <3>5, CheckedIs
      <3> HIDE DEF q
      <3>7. Undecided(q) /\ Undecided(k)
        BY <2>5, <2>6, <2>8, <3>4, <3>5, <3>6, SameBreach DEF Undecided, AlikeAccounts
      <3>8. /\ k.acct \in Accounts /\ AlikeAccounts(k.acct, b) /\ k.acct.days = b.days
        BY <2>2, <2>4, <2>5, DippedIs
      <3>9. /\ q.acct \in Accounts /\ AlikeAccounts(q.acct, r) /\ q.acct.days = r.days
            /\ q.acct.held = {t}
        BY <3>3, <3>5, <3>6, DippedIs
      <3>10. /\ n \in Accounts /\ n.equity = k.acct.equity + t.ret
             /\ n.peak = (IF k.acct.peak >= n.equity THEN k.acct.peak ELSE n.equity)
             /\ n.days = k.acct.days /\ n.day = k.acct.day /\ n.sod = k.acct.sod
             /\ n.start = k.acct.start
        BY <3>8, BookIs
      <3>11. /\ o \in Accounts /\ o.equity = q.acct.equity + t.ret
             /\ o.peak = (IF q.acct.peak >= o.equity THEN q.acct.peak ELSE o.equity)
             /\ o.days = q.acct.days /\ o.day = q.acct.day /\ o.sod = q.acct.sod
             /\ o.start = q.acct.start
             /\ o.held = q.acct.held \ {t}
        BY <3>9, BookIs
      <3> HIDE DEF n, o
      <3>12. AlikeAccounts(n, o) /\ n.days = o.days /\ o.held = {}
        <4>1. k.acct.equity = q.acct.equity /\ k.acct.peak = q.acct.peak
              /\ k.acct.sod = q.acct.sod /\ k.acct.day = q.acct.day
              /\ k.acct.start = q.acct.start
          BY <3>4, <3>8, <3>9 DEF AlikeAccounts, SameBalance
        <4>2. k.acct.days = q.acct.days
          BY <2>2, <3>1, <3>3, <3>8, <3>9
        <4> QED
          BY <3>9, <3>10, <3>11, <4>1, <4>2 DEF AlikeAccounts, SameBalance
      <3>13. TargetReached(k, n) <=> TargetReached(q, o)
        BY <1>1, <2>5, <3>6, <3>12 DEF TargetReached, AlikeAccounts, SameBalance
      <3>14. /\ e \in Sims
             /\ GoesOn(e, k, n) \/ Advances(e, k, n, Fresh(now)) \/ Finishes(e, k, n)
        BY <2>5, <3>10, FreshIs, SettleIs
      <3>15. /\ h \in Sims
             /\ GoesOn(h, q, o) \/ Advances(h, q, o, Fresh(now)) \/ Finishes(h, q, o)
        BY <3>6, <3>11, FreshIs, SettleIs
      <3> HIDE DEF e, h
      <3>16. d = e
        BY <2>k, <3>7
      <3>17. f = IF h.phase > c.phase THEN Reopened(q.acct.held \ {t}) ELSE h
        BY <3>f, <3>7
      <3>18. k.phase = q.phase /\ q.phase = c.phase /\ c.phase \in {1, 2}
        BY <1>1, <2>5, <3>6, SimType
      <3>19. CASE GoesOn(e, k, n)
        <4>1. GoesOn(h, q, o)
          BY <3>13, <3>15, <3>19 DEF GoesOn, Advances, Finishes
        <4>2. f = h
          BY <3>17, <3>18, <4>1 DEF GoesOn
        <4> QED
          BY <3>7, <3>12, <3>16, <3>18, <3>19, <4>1, <4>2 DEF GoesOn, Alike, Abreast, Undecided
      <3>20. CASE Advances(e, k, n, Fresh(now))
        <4>1. Advances(h, q, o, Fresh(now))
          BY <3>13, <3>15, <3>18, <3>20 DEF GoesOn, Advances, Finishes
        <4>2. f = Reopened({})
          BY <3>9, <3>17, <3>18, <4>1 DEF Advances
        <4>3. f = NewPhase
          BY <4>2, NothingAdverse, ReopenedIs
        <4>4. /\ AlikeAccounts(Fresh(now), Fresh(0)) /\ Fresh(now).days = Fresh(0).days
              /\ Fresh(0).held = {}
          BY DEF Fresh, AlikeAccounts, SameBalance
        <4> QED
          BY <3>7, <3>16, <3>20, <4>3, <4>4, NewSimIs DEF Advances, Alike, Abreast, Undecided
      <3>21. CASE Finishes(e, k, n)
        <4>1. Finishes(h, q, o)
          BY <3>13, <3>15, <3>18, <3>21 DEF GoesOn, Advances, Finishes
        <4>2. f = h
          BY <3>17, <3>18, <4>1 DEF Finishes
        <4> QED
          BY <3>16, <3>18, <3>21, <4>1, <4>2 DEF Finishes, Alike, Abreast, Undecided
      <3> QED
        BY <3>14, <3>19, <3>20, <3>21
    <2> QED
      BY <2>7, <2>8
  <1> QED
    BY <1>3, <1>4

-----------------------------------------------------------------------------
(* Whoever has passed phase 1 stays so, and is left alone if that was all. *)
Kept(d, s) == d \in Sims /\ (PassedOne(s) => PassedOne(d) /\ (d.phase = 1 => d = s))

LEMMA KeptTimedOut ==
    ASSUME NEW s \in Sims, Undecided(s), NEW d, TimedOut(d, s)
    PROVE  Kept(d, s) /\ ~Undecided(d)
  BY SimType DEF Kept, TimedOut, Undecided, PassedOne

(* What an undecided simulator still holds, after a close.                 *)
LEMMA KeptSettled ==
    ASSUME NEW s \in Sims, Undecided(s), NEW d \in Sims, d.phase >= s.phase
    PROVE  Kept(d, s)
  <1>1. s.phase \in {1, 2} /\ d.phase \in {1, 2}
    BY SimType
  <1> QED
    BY <1>1 DEF Kept, PassedOne, Undecided

LEMMA SeqKeeps ==
    ASSUME ChallengeParameters, NEW s \in Sims, NEW t \in Trades, now \in Nat
    PROVE  LET d == SeqClose(s, t)
           IN  /\ Kept(d, s)
               /\ Undecided(d) => Undecided(s) /\ d.acct.held \subseteq s.acct.held \ {t}
  <1> DEFINE d == SeqClose(s, t)
  <1> SUFFICES /\ Kept(d, s)
               /\ Undecided(d) => Undecided(s) /\ d.acct.held \subseteq s.acct.held \ {t}
    OBVIOUS
  <1>1. CASE ~Undecided(s)
    <2>1. d = s
      BY <1>1 DEF SeqClose
    <2> HIDE DEF d
    <2>2. Kept(d, s)
      BY <2>1 DEF Kept
    <2> QED
      BY <1>1, <2>1, <2>2 DEF Undecided
  <1>2. CASE Undecided(s) /\ TimedOut(d, s)
    <2> HIDE DEF d
    <2> QED
      BY <1>2, KeptTimedOut
  <1>3. ASSUME Undecided(s), NEW r, SeqLooksAt(r, s, t),
               LET k == Checked(s, r, r.equity - t.mae)
               IN  d = IF ~Undecided(k) THEN k ELSE Settle(k, BookTrade(k.acct, t), Fresh(now))
        PROVE  Kept(d, s) /\ (Undecided(d) => d.acct.held \subseteq s.acct.held \ {t})
    <2> DEFINE low == r.equity - t.mae
               k == Checked(s, r, low)
               n == BookTrade(k.acct, t)
               e == Settle(k, n, Fresh(now))
    <2>1. r \in Accounts /\ r.held = s.acct.held
      BY <1>3 DEF SeqLooksAt, Rolled
    <2>2. low \in Int
      BY <2>1, AccountType DEF Trades
    <2>k. d = IF ~Undecided(k) THEN k ELSE e
      BY <1>3
    <2> HIDE DEF d, low
    <2>3. k \in Sims /\ k.phase = s.phase /\ k.acct = Dip(r, low)
      BY <2>1, <2>2, CheckedIs
    <2> HIDE DEF k
    <2>4. k.acct \in Accounts /\ k.acct.held = s.acct.held
      BY <2>1, <2>2, <2>3, DippedIs
    <2>5. n \in Accounts /\ n.held = s.acct.held \ {t}
      BY <2>4, BookIs
    <2> HIDE DEF n
    <2>6. /\ e \in Sims
          /\ GoesOn(e, k, n) \/ Advances(e, k, n, Fresh(now)) \/ Finishes(e, k, n)
      BY <2>3, <2>5, FreshIs, SettleIs
    <2> HIDE DEF e
    <2>7. e.phase >= s.phase /\ k.phase >= s.phase
      BY <2>3, <2>6, SimType DEF GoesOn, Advances, Finishes
    <2>8. Kept(d, s)
      BY <1>3, <2>k, <2>3, <2>6, <2>7, KeptSettled
    <2>9. Undecided(e) => e.acct.held \subseteq s.acct.held \ {t}
      BY <2>5, <2>6, FreshIs DEF GoesOn, Advances, Finishes, Undecided
    <2> QED
      BY <2>k, <2>8, <2>9
  <1>4. CASE Undecided(s) /\ \E r : /\ SeqLooksAt(r, s, t)
                     /\ LET k == Checked(s, r, r.equity - t.mae)
                        IN  d = IF ~Undecided(k) THEN k
                                ELSE Settle(k, BookTrade(k.acct, t), Fresh(now))
    BY <1>3, <1>4
  <1> QED
    BY <1>1, <1>2, <1>4, SeqCloseIs

LEMMA ConcKeeps ==
    ASSUME ChallengeParameters, NEW s \in Sims, NEW t \in Trades, now \in Nat
    PROVE  LET d == ConcClose(s, t)
           IN  /\ Kept(d, s)
               /\ Undecided(d) => Undecided(s) /\ d.acct.held \subseteq s.acct.held \ {t}
  <1> DEFINE d == ConcClose(s, t)
  <1> SUFFICES /\ Kept(d, s)
               /\ Undecided(d) => Undecided(s) /\ d.acct.held \subseteq s.acct.held \ {t}
    OBVIOUS
  <1>1. CASE ~Undecided(s)
    <2>1. d = s
      BY <1>1 DEF ConcClose
    <2> HIDE DEF d
    <2>2. Kept(d, s)
      BY <2>1 DEF Kept
    <2> QED
      BY <1>1, <2>1, <2>2 DEF Undecided
  <1>2. CASE Undecided(s) /\ TimedOut(d, s)
    <2> HIDE DEF d
    <2> QED
      BY <1>2, KeptTimedOut
  <1>3. ASSUME Undecided(s), NEW r, ConcLooksAt(r, s, t),
               LET k == Checked(s, r, Low(r))
                   e == Settle(k, BookTrade(k.acct, t), Fresh(now))
               IN  d = IF ~Undecided(k) THEN k
                       ELSE IF e.phase > s.phase THEN Reopened(k.acct.held \ {t}) ELSE e
        PROVE  Kept(d, s) /\ (Undecided(d) => d.acct.held \subseteq s.acct.held \ {t})
    <2> DEFINE low == Low(r)
               k == Checked(s, r, low)
               n == BookTrade(k.acct, t)
               e == Settle(k, n, Fresh(now))
    <2>1. r \in Accounts /\ r.held = s.acct.held
      BY <1>3 DEF ConcLooksAt, Rolled
    <2>2. low \in Int
      BY <2>1, AccountType
    <2>k. d = IF ~Undecided(k) THEN k
              ELSE IF e.phase > s.phase THEN Reopened(k.acct.held \ {t}) ELSE e
      BY <1>3
    <2> HIDE DEF d, low
    <2>3. k \in Sims /\ k.phase = s.phase /\ k.acct = Dip(r, low)
      BY <2>1, <2>2, CheckedIs
    <2> HIDE DEF k
    <2>4. k.acct \in Accounts /\ k.acct.held = s.acct.held
      BY <2>1, <2>2, <2>3, DippedIs
    <2>5. n \in Accounts /\ n.held = s.acct.held \ {t}
      BY <2>4, BookIs
    <2> HIDE DEF n
    <2>6. /\ e \in Sims
          /\ GoesOn(e, k, n) \/ Advances(e, k, n, Fresh(now)) \/ Finishes(e, k, n)
      BY <2>3, <2>5, FreshIs, SettleIs
    <2> HIDE DEF e
    <2> DEFINE f == Reopened(k.acct.held \ {t})
    <2>7. /\ f \in Sims /\ f.phase = 2
          /\ Undecided(f) => f.acct.held \subseteq s.acct.held \ {t}
      <3>1. k.acct.held \ {t} \in Holdings
        BY <2>4, AccountType, PartsHeld
      <3> QED
        BY <2>4, <3>1, ReopenedIs
    <2> HIDE DEF f
    <2>8. e.phase >= s.phase /\ k.phase >= s.phase /\ f.phase >= s.phase
      BY <2>3, <2>6, <2>7, SimType DEF GoesOn, Advances, Finishes
    <2>9. (d = k /\ ~Undecided(k)) \/ d = e \/ d = f
      BY <2>k DEF f
    <2>10. Kept(d, s)
      BY <1>3, <2>3, <2>6, <2>7, <2>8, <2>9, KeptSettled
    <2>11. Undecided(e) => e.acct.held \subseteq s.acct.held \ {t}
      BY <2>5, <2>6, FreshIs DEF GoesOn, Advances, Finishes, Undecided
    <2> QED
      BY <2>7, <2>9, <2>10, <2>11
  <1>4. CASE Undecided(s) /\ \E r : /\ ConcLooksAt(r, s, t)
                     /\ LET k == Checked(s, r, Low(r))
                            e == Settle(k, BookTrade(k.acct, t), Fresh(now))
                        IN  d = IF ~Undecided(k) THEN k
                                ELSE IF e.phase > s.phase THEN Reopened(k.acct.held \ {t}) ELSE e
    BY <1>3, <1>4
  <1> QED
    BY <1>1, <1>2, <1>4, ConcCloseIs

(* What a portfolio holds has been entered since its phase began.          *)
InItsPhase(s) == \A u \in s.acct.held : u.at >= s.acct.from

LEMMA PortKeeps ==
    ASSUME ChallengeParameters, NEW s \in Sims, NEW t \in Trades, now \in Nat,
           Undecided(s) => InItsPhase(s)
    PROVE  LET d == PortClose(s, t)
           IN  /\ Kept(d, s)
               /\ Undecided(d) => /\ Undecided(s) /\ InItsPhase(d)
                                  /\ d.acct.held \subseteq s.acct.held \ {t}
  <1> DEFINE d == PortClose(s, t)
  <1> SUFFICES /\ Kept(d, s)
               /\ Undecided(d) => /\ Undecided(s) /\ InItsPhase(d)
                                  /\ d.acct.held \subseteq s.acct.held \ {t}
    OBVIOUS
  <1>1. CASE ~Undecided(s)
    <2>1. d = s
      BY <1>1 DEF PortClose
    <2> HIDE DEF d
    <2>2. Kept(d, s)
      BY <2>1 DEF Kept
    <2> QED
      BY <1>1, <2>1, <2>2 DEF Undecided
  <1>2. CASE Undecided(s) /\ ~InPhase(s, t)
    <2>1. d = s /\ t \notin s.acct.held
      BY <1>2 DEF PortClose, InPhase, InItsPhase
    <2> HIDE DEF d
    <2> QED
      BY <1>2, <2>1 DEF Kept
  <1>3. CASE Undecided(s) /\ TimedOut(d, s)
    <2> HIDE DEF d
    <2> QED
      BY <1>3, KeptTimedOut
  <1>4. ASSUME Undecided(s), NEW g, PortBooks(g, s, t),
               LET k == Checked(s, g, Low(g))
               IN  d = IF ~Undecided(k) THEN k ELSE Settle(k, k.acct, Fresh(now + 1))
        PROVE  /\ Kept(d, s)
               /\ Undecided(d) => d.acct.held \subseteq s.acct.held \ {t} /\ InItsPhase(d)
    <2> DEFINE low == Low(g)
               k == Checked(s, g, low)
               e == Settle(k, k.acct, Fresh(now + 1))
    <2>1. g \in Accounts /\ g.held = s.acct.held \ {t} /\ g.from = s.acct.from
      <3>1. PICK r : /\ Rolled(r, s.acct, DayOf(now)) /\ r.held = s.acct.held
                     /\ g = IF t \in r.held THEN BookTrade(r, t) ELSE r
        BY <1>4 DEF PortBooks
      <3>2. r \in Accounts /\ r.from = s.acct.from
        BY <3>1 DEF Rolled
      <3>3. CASE t \in r.held
        BY <3>1, <3>2, <3>3, BookIs
      <3>4. CASE t \notin r.held
        BY <3>1, <3>2, <3>4
      <3> QED
        BY <3>3, <3>4
    <2>2. low \in Int
      BY <2>1, AccountType
    <2>k. d = IF ~Undecided(k) THEN k ELSE e
      BY <1>4
    <2> HIDE DEF d, low
    <2>3. k \in Sims /\ k.phase = s.phase /\ k.acct = Dip(g, low)
      BY <2>1, <2>2, CheckedIs
    <2> HIDE DEF k
    <2>4. /\ k.acct \in Accounts /\ k.acct.held = s.acct.held \ {t}
          /\ k.acct.from = s.acct.from
      BY <2>1, <2>2, <2>3, DipIs
    <2>5. /\ e \in Sims
          /\ GoesOn(e, k, k.acct) \/ Advances(e, k, k.acct, Fresh(now + 1))
             \/ Finishes(e, k, k.acct)
      <3>1. now + 1 \in Int
        OBVIOUS
      <3> QED
        BY <2>3, <2>4, <3>1, FreshIs, SettleIs
    <2> HIDE DEF e
    <2>6. e.phase >= s.phase /\ k.phase >= s.phase
      BY <2>3, <2>5, SimType DEF GoesOn, Advances, Finishes
    <2>7. Kept(d, s)
      BY <1>4, <2>k, <2>3, <2>5, <2>6, KeptSettled
    <2>8. CASE GoesOn(e, k, k.acct)
      BY <1>4, <2>k, <2>4, <2>7, <2>8 DEF GoesOn, InItsPhase
    <2>9. CASE Advances(e, k, k.acct, Fresh(now + 1))
      <3>1. e.acct.held = {}
        BY <2>9, FreshIs DEF Advances
      <3> QED
        BY <2>k, <2>7, <3>1 DEF InItsPhase
    <2>10. CASE Finishes(e, k, k.acct)
      BY <2>k, <2>7, <2>10 DEF Finishes, Undecided
    <2> QED
      BY <2>5, <2>8, <2>9, <2>10
  <1>5. CASE Undecided(s) /\ \E g : /\ PortBooks(g, s, t)
                     /\ LET k == Checked(s, g, Low(g))
                        IN  d = IF ~Undecided(k) THEN k ELSE Settle(k, k.acct, Fresh(now + 1))
    BY <1>4, <1>5
  <1> QED
    BY <1>1, <1>2, <1>3, <1>5, PortCloseIs

-----------------------------------------------------------------------------
(* The closes of a slot, one by one.                                       *)
Moments == [seq : Sims, conc : Sims, port : Sims, all : Truths, own : Truths]

Shapes ==
    /\ now \in Nat /\ open \in Holdings
    /\ sim["seq"] \in Sims /\ sim["conc"] \in Sims /\ sim["port"] \in Sims
    /\ truth.all \in Truths /\ truth.port \in Truths

(* When T of the open trades are closed, and new is to be opened.          *)
Midway(x, T, new) ==
    /\ x \in Moments
    /\ x.all.acct.held = open \ T /\ x.all.acct.day = DayOf(now)
    /\ x.own.acct.held \subseteq open \ T /\ x.own.acct.day = DayOf(now)
    /\ Undecided(x.seq) => x.seq.acct.held = {}
    /\ Undecided(x.conc) => x.conc.acct.held \subseteq (open \ T) \cup new
    /\ Undecided(x.port) => x.port.acct.held \subseteq open \ T /\ InItsPhase(x.port)
    /\ Kept(x.seq, sim["seq"]) /\ Kept(x.conc, sim["conc"]) /\ Kept(x.port, sim["port"])

Rode(s, d, w, daily) == ~PassedOne(s) /\ PassedOne(d) => Through(d, w, daily)

Beside(x, new, lone, daily) ==
    /\ ConcFollows(x.conc, x.all, new) /\ Rode(sim["conc"], x.conc, x.all, TRUE)
    /\ PortFollows(x.port, x.own, {}, daily) /\ Rode(sim["port"], x.port, x.own, daily)
    /\ lone => SeqFollows(x.seq, x.all, daily) /\ Rode(sim["seq"], x.seq, x.all, daily)

LEMMA MomentType ==
    ASSUME NEW x \in Moments
    PROVE  /\ x.seq \in Sims /\ x.conc \in Sims /\ x.port \in Sims
           /\ x.all \in Truths /\ x.own \in Truths
  BY DEF Moments

LEMMA ClosedIs ==
    ASSUME NEW x, NEW t
    PROVE  LET y == Closed(x, t)
           IN  /\ y.seq = SeqClose(x.seq, t) /\ y.conc = ConcClose(x.conc, t)
               /\ y.port = PortClose(x.port, t)
               /\ y.all = AfterClose(x.all, t) /\ y.own = AfterClose(x.own, t)
  BY DEF Closed

LEMMA AfterCloseType ==
    ASSUME ChallengeParameters, NEW w \in Truths, NEW t
    PROVE  LET v == AfterClose(w, t)
           IN  v \in Truths /\ v.acct.held = w.acct.held \ {t} /\ v.acct.day = w.acct.day
  <1>1. CASE t \in w.acct.held
    BY <1>1, AfterCloseIs
  <1>2. CASE t \notin w.acct.held
    <2>1. AfterClose(w, t) = w /\ w.acct.held = w.acct.held \ {t}
      BY <1>2 DEF AfterClose
    <2> QED
      BY <2>1
  <1> QED
    BY <1>1, <1>2

LEMMA PortCloseType ==
    ASSUME ChallengeParameters, NEW s \in Sims, NEW t \in Trades, now \in Nat
    PROVE  PortClose(s, t) \in Sims
  <1>1. CASE Undecided(s) => InItsPhase(s)
    BY <1>1, PortKeeps DEF Kept
  <1>2. CASE ~Undecided(s) \/ ~InPhase(s, t)
    <2>1. PortClose(s, t) = s
      BY <1>2 DEF PortClose
    <2> QED
      BY <2>1
  <1>3. CASE Undecided(s) /\ InPhase(s, t)
    <2> DEFINE d == PortClose(s, t)
    <2>1. CASE TimedOut(d, s)
      BY <2>1 DEF TimedOut
    <2>2. ASSUME NEW g, PortBooks(g, s, t),
                 LET k == Checked(s, g, Low(g))
                 IN  d = IF ~Undecided(k) THEN k ELSE Settle(k, k.acct, Fresh(now + 1))
          PROVE  d \in Sims
      <3> DEFINE k == Checked(s, g, Low(g))
      <3>1. g \in Accounts
        BY <2>2, BookIs DEF PortBooks, Rolled
      <3>2. Low(g) \in Int
        BY <3>1, AccountType
      <3>3. k \in Sims
        BY <3>1, <3>2, CheckedIs
      <3>4. d = IF ~Undecided(k) THEN k ELSE Settle(k, k.acct, Fresh(now + 1))
        BY <2>2
      <3> HIDE DEF k, d
      <3>5. k.acct \in Accounts /\ now + 1 \in Int
        BY <3>3, SimType
      <3>6. Settle(k, k.acct, Fresh(now + 1)) \in Sims
        BY <3>3, <3>5, FreshIs, SettleIs
      <3> QED
        BY <3>3, <3>4, <3>6
    <2> QED
      BY <1>3, <2>1, <2>2, PortCloseIs
  <1> QED
    BY <1>2, <1>3

LEMMA ClosedType ==
    ASSUME ChallengeParameters, NEW x \in Moments, NEW t \in Trades, now \in Nat
    PROVE  Closed(x, t) \in Moments
  <1>1. /\ SeqClose(x.seq, t) \in Sims /\ ConcClose(x.conc, t) \in Sims
        /\ PortClose(x.port, t) \in Sims
    BY MomentType, SeqKeeps, ConcKeeps, PortCloseType DEF Kept
  <1>2. AfterClose(x.all, t) \in Truths /\ AfterClose(x.own, t) \in Truths
    BY MomentType, AfterCloseType
  <1> QED
    BY <1>1, <1>2 DEF Closed, Moments

LEMMA KeptTwice ==
    ASSUME NEW s, NEW d, NEW e, Kept(d, s), Kept(e, d)
    PROVE  Kept(e, s)
  BY DEF Kept

LEMMA MidwayCloses ==
    ASSUME ChallengeParameters, Shapes, NEW T, NEW new, NEW t \in open \ T,
           NEW x, Midway(x, T, new)
    PROVE  Midway(Closed(x, t), T \cup {t}, new)
  <1> DEFINE y == Closed(x, t)
  <1>1. t \in Trades /\ now \in Nat
    BY DEF Shapes, Holdings
  <1>2. x \in Moments
    BY DEF Midway
  <1>3. /\ x.seq \in Sims /\ x.conc \in Sims /\ x.port \in Sims
        /\ x.all \in Truths /\ x.own \in Truths
    BY <1>2, MomentType
  <1>4. y \in Moments
    BY <1>1, <1>2, ClosedType
  <1>5. /\ y.all.acct.held = x.all.acct.held \ {t} /\ y.all.acct.day = x.all.acct.day
        /\ y.own.acct.held = x.own.acct.held \ {t} /\ y.own.acct.day = x.own.acct.day
    BY <1>3, ClosedIs, AfterCloseType
  <1>6. /\ Kept(y.seq, x.seq)
        /\ Undecided(y.seq) => Undecided(x.seq) /\ y.seq.acct.held \subseteq x.seq.acct.held \ {t}
    BY <1>1, <1>3, ClosedIs, SeqKeeps
  <1>7. /\ Kept(y.conc, x.conc)
        /\ Undecided(y.conc) =>
              Undecided(x.conc) /\ y.conc.acct.held \subseteq x.conc.acct.held \ {t}
    BY <1>1, <1>3, ClosedIs, ConcKeeps
  <1>8. /\ Kept(y.port, x.port)
        /\ Undecided(y.port) => /\ Undecided(x.port) /\ InItsPhase(y.port)
                                /\ y.port.acct.held \subseteq x.port.acct.held \ {t}
    <2>1. Undecided(x.port) => InItsPhase(x.port)
      BY DEF Midway
    <2> QED
      BY <1>1, <1>3, <2>1, ClosedIs, PortKeeps
  <1> HIDE DEF y
  <1>9. Kept(y.seq, sim["seq"]) /\ Kept(y.conc, sim["conc"]) /\ Kept(y.port, sim["port"])
    BY <1>6, <1>7, <1>8, KeptTwice DEF Midway
  <1>10. /\ y.all.acct.held = open \ (T \cup {t})
         /\ y.own.acct.held \subseteq open \ (T \cup {t})
    BY <1>5 DEF Midway
  <1>11. y.all.acct.day = DayOf(now) /\ y.own.acct.day = DayOf(now)
    BY <1>5 DEF Midway
  <1>12. Undecided(y.seq) => y.seq.acct.held = {}
    BY <1>6 DEF Midway
  <1>13. Undecided(y.conc) => y.conc.acct.held \subseteq (open \ (T \cup {t})) \cup new
    BY <1>7 DEF Midway
  <1>14. Undecided(y.port) => y.port.acct.held \subseteq open \ (T \cup {t}) /\ InItsPhase(y.port)
    BY <1>8 DEF Midway
  <1>15. Midway(y, T \cup {t}, new)
    BY <1>4, <1>9, <1>10, <1>11, <1>12, <1>13, <1>14 DEF Midway
  <1> QED
    BY <1>15 DEF y

LEMMA RodeOn ==
    ASSUME ChallengeParameters, NEW s, NEW d \in Sims, NEW e, Kept(e, d),
           NEW w \in Truths, NEW t, NEW daily \in BOOLEAN, Rode(s, d, w, daily),
           ~PassedOne(d) /\ PassedOne(e) => Through(e, AfterClose(w, t), daily)
    PROVE  Rode(s, e, AfterClose(w, t), daily)
  <1> DEFINE v == AfterClose(w, t)
  <1>1. CASE ~PassedOne(s) /\ PassedOne(d)
    <2>1. Through(d, v, daily)
      BY <1>1, StaysThrough DEF Rode
    <2> HIDE DEF v
    <2>2. Through(e, v, daily)
      BY <2>1, <1>1 DEF Through, Kept
    <2> QED
      BY <2>2 DEF Rode, v
  <1>2. CASE PassedOne(s) \/ ~PassedOne(d)
    BY <1>2 DEF Rode
  <1> QED
    BY <1>1, <1>2

LEMMA PassedIsOver ==
    ASSUME NEW s, PassedOne(s)
    PROVE  ~Running(s)
  BY DEF PassedOne, Running, Undecided

LEMMA BesideCloses ==
    ASSUME ChallengeParameters, Shapes, NEW T, NEW new, open \cup new \in Holdings,
           new \cap open = {}, NEW t \in open \ T,
           NEW x, Midway(x, T, new),
           NEW lone \in BOOLEAN, NEW daily \in BOOLEAN, Beside(x, new, lone, daily)
    PROVE  Beside(Closed(x, t), new, lone, daily)
  <1> DEFINE y == Closed(x, t)
  <1>1. t \in Trades /\ now \in Nat /\ TRUE \in BOOLEAN
    BY DEF Shapes, Holdings
  <1>2. x \in Moments
    BY DEF Midway
  <1>3. /\ x.seq \in Sims /\ x.conc \in Sims /\ x.port \in Sims
        /\ x.all \in Truths /\ x.own \in Truths
    BY <1>2, MomentType
  <1>4. /\ y.seq = SeqClose(x.seq, t) /\ y.conc = ConcClose(x.conc, t)
        /\ y.port = PortClose(x.port, t)
        /\ y.all = AfterClose(x.all, t) /\ y.own = AfterClose(x.own, t)
    BY ClosedIs
  <1> SUFFICES Beside(y, new, lone, daily)
    OBVIOUS
  <1> HIDE DEF y
  <1>5. t \in x.all.acct.held /\ t \notin new /\ x.all.acct.day = DayOf(now)
        /\ x.own.acct.day = DayOf(now) /\ x.all.acct.held \cup new \in Holdings
    <2>1. x.all.acct.held = open \ T
      BY DEF Midway
    <2>2. x.all.acct.held \cup new \subseteq open \cup new
      BY <2>1
    <2> QED
      BY <2>1, <2>2, PartsHeld DEF Midway
  <1>6. ConcFollows(y.conc, y.all, new) /\ Rode(sim["conc"], y.conc, y.all, TRUE)
    <2>1. ConcFollows(x.conc, x.all, new) /\ Rode(sim["conc"], x.conc, x.all, TRUE)
      BY DEF Beside
    <2>2. Kept(y.conc, x.conc)
      BY <1>1, <1>3, <1>4, ConcKeeps
    <2>3. ~PassedOne(x.conc) => /\ ConcFollows(y.conc, y.all, new)
                                /\ PassedOne(y.conc) => Through(y.conc, y.all, TRUE)
      BY <1>1, <1>3, <1>4, <1>5, <2>1, ConcCloses
    <2>4. PassedOne(x.conc) => ConcFollows(y.conc, y.all, new)
      BY <2>2, PassedIsOver DEF Kept, ConcFollows
    <2>5. Rode(sim["conc"], y.conc, y.all, TRUE)
      <3>1. PICK every \in BOOLEAN : every = TRUE
        OBVIOUS
      <3>2. /\ Rode(sim["conc"], x.conc, x.all, every)
            /\ ~PassedOne(x.conc) /\ PassedOne(y.conc) =>
                  Through(y.conc, AfterClose(x.all, t), every)
        BY <1>4, <2>1, <2>3, <3>1
      <3>3. Rode(sim["conc"], y.conc, AfterClose(x.all, t), every)
        BY <1>3, <2>2, <3>2, RodeOn
      <3> QED
        BY <1>4, <3>1, <3>3
    <2> QED
      BY <2>3, <2>4, <2>5
  <1>7. PortFollows(y.port, y.own, {}, daily) /\ Rode(sim["port"], y.port, y.own, daily)
    <2>1. PortFollows(x.port, x.own, {}, daily) /\ Rode(sim["port"], x.port, x.own, daily)
      BY DEF Beside
    <2>2. Kept(y.port, x.port)
      BY <1>1, <1>3, <1>4, PortKeeps DEF Midway
    <2>3. ~PassedOne(x.port) => /\ PortFollows(y.port, y.own, {}, daily)
                                /\ PassedOne(y.port) => Through(y.port, y.own, daily)
      BY <1>1, <1>3, <1>4, <1>5, <2>1, PortCloses
    <2>4. PassedOne(x.port) => PortFollows(y.port, y.own, {}, daily)
      BY <2>2, PassedIsOver DEF Kept, PortFollows
    <2>5. Rode(sim["port"], y.port, y.own, daily)
      BY <1>1, <1>3, <1>4, <2>1, <2>2, <2>3, RodeOn
    <2> QED
      BY <2>3, <2>4, <2>5
  <1>8. ASSUME lone
        PROVE  SeqFollows(y.seq, y.all, daily) /\ Rode(sim["seq"], y.seq, y.all, daily)
    <2>1. SeqFollows(x.seq, x.all, daily) /\ Rode(sim["seq"], x.seq, x.all, daily)
      BY <1>8 DEF Beside
    <2>2. Kept(y.seq, x.seq)
      BY <1>1, <1>3, <1>4, SeqKeeps
    <2>3. ~PassedOne(x.seq) => /\ SeqFollows(y.seq, y.all, daily)
                               /\ PassedOne(y.seq) => Through(y.seq, y.all, daily)
      BY <1>1, <1>3, <1>4, <1>5, <2>1, SeqCloses
    <2>4. PassedOne(x.seq) => SeqFollows(y.seq, y.all, daily)
      BY <2>2, PassedIsOver DEF Kept, SeqFollows
    <2>5. Rode(sim["seq"], y.seq, y.all, daily)
      BY <1>1, <1>3, <1>4, <2>1, <2>2, <2>3, RodeOn
    <2> QED
      BY <2>3, <2>4, <2>5
  <1> QED
    BY <1>6, <1>7, <1>8 DEF Beside

(* Of trades that do not touch there is one to close, on the day it was    *)
(* entered.                                                                *)
LEMMA AlikeMidway ==
    ASSUME ChallengeParameters, Shapes, NEW T, NEW new, NEW t \in open \ T, new = {},
           NEW x, Midway(x, T, new), DayOf(t.at) = DayOf(now),
           Abreast(x.seq, x.conc, (open \ T) \cup new)
    PROVE  Abreast(Closed(x, t).seq, Closed(x, t).conc, (open \ (T \cup {t})) \cup new)
  <1>1. CASE GivenUp(x.conc)
    BY <1>1, StaysGivenUp, ClosedIs DEF Abreast
  <1>2. CASE Alike(x.seq, x.conc, (open \ T) \cup new)
    <2>1. (open \ T) \cup new = {t}
      BY <1>2 DEF Alike
    <2>2. (open \ (T \cup {t})) \cup new = {}
      BY <2>1
    <2>3. x.seq \in Sims /\ x.conc \in Sims /\ t \in Trades /\ now \in Nat
      BY MomentType DEF Midway, Shapes, Holdings
    <2>4. Abreast(SeqClose(x.seq, t), ConcClose(x.conc, t), {})
      BY <1>2, <2>1, <2>3, AlikeCloses
    <2> QED
      BY <2>2, <2>4, ClosedIs
  <1> QED
    BY <1>1, <1>2 DEF Abreast

(* The closes as a function of the trades closed so far, for induction.    *)
ClosesOne(h, x, H) ==
    h = [S \in SUBSET H |-> IF S = {} THEN x ELSE Closed(h[S \ {Newest(S)}], Newest(S))]

LEMMA ClosesAreFold ==
    ASSUME NEW x, NEW H
    PROVE  InTurn(Closed, x, H) = (CHOOSE h : ClosesOne(h, x, H))[H]
  BY DEF InTurn, MapThenFoldSet, ClosesOne

LEMMA ClosesExist ==
    ASSUME ChallengeParameters, now \in Nat, NEW x \in Moments, NEW H \in Holdings
    PROVE  \E h : ClosesOne(h, x, H)
  <1> DEFINE step == [t \in H |-> [y \in Moments |-> Closed(y, t)]]
             pick == NewestOf(H)
  <1>1. step \in [H -> [Moments -> Moments]]
    <2>1. H \subseteq Trades
      BY DEF Holdings
    <2> QED
      BY <2>1, ClosedType
  <1>2. PICK h : Recursive(h, H, Moments, x, pick, step)
    <2> HIDE DEF step, pick
    <2> QED
      BY <1>1, NewestPicks, SubsetRecursion DEF pick
  <1>3. /\ h \in [SUBSET H -> Moments] /\ h[{}] = x
        /\ \A S \in SUBSET H : S # {} => h[S] = step[pick[S]][h[S \ {pick[S]}]]
    BY <1>2 DEF Recursive
  <1>4. ASSUME NEW S \in SUBSET H, S # {}
        PROVE  h[S] = Closed(h[S \ {Newest(S)}], Newest(S))
    <2>1. Newest(S) \in H /\ pick[S] = Newest(S) /\ h[S \ {Newest(S)}] \in Moments
      BY <1>3, <1>4, PartsHeld, NewestIsOne DEF NewestOf
    <2> QED
      BY <1>3, <1>4, <2>1
  <1>5. ClosesOne(h, x, H)
    <2>1. \A S \in SUBSET H : h[S] = IF S = {} THEN x
                                     ELSE Closed(h[S \ {Newest(S)}], Newest(S))
      BY <1>3, <1>4
    <2> QED
      BY <1>3, <2>1 DEF ClosesOne
  <1> QED
    BY <1>5

(* Everything that is said of a slot while its trades close.               *)
InMidst(x, T, new, lone, daily, quiet) ==
    /\ Midway(x, T, new) /\ Beside(x, new, lone, daily)
    /\ quiet => Abreast(x.seq, x.conc, (open \ T) \cup new)

LEMMA ClosesInTurn ==
    ASSUME ChallengeParameters, Shapes, NEW closes \in SUBSET open,
           NEW new, open \cup new \in Holdings, new \cap open = {},
           NEW lone \in BOOLEAN, NEW daily \in BOOLEAN, NEW quiet \in BOOLEAN,
           quiet => /\ closes = {} \/ new = {}
                    /\ \A t \in open : DayOf(t.at) = DayOf(now),
           NEW x, InMidst(x, {}, new, lone, daily, quiet)
    PROVE  InMidst(InTurn(Closed, x, closes), closes, new, lone, daily, quiet)
  <1> DEFINE h == CHOOSE g : ClosesOne(g, x, closes)
             P == {S \in SUBSET closes : InMidst(h[S], S, new, lone, daily, quiet)}
  <1>0. x \in Moments /\ now \in Nat /\ closes \in Holdings /\ IsFiniteSet(closes)
    BY PartsHeld DEF InMidst, Midway, Shapes, Holdings
  <1>1. ClosesOne(h, x, closes) /\ InTurn(Closed, x, closes) = h[closes]
    BY <1>0, ClosesExist, ClosesAreFold
  <1> HIDE DEF h
  <1>2. h[{}] = x
    BY <1>1 DEF ClosesOne
  <1>3. ASSUME NEW S \in SUBSET closes, \A T \in SUBSET S : T # S => T \in P
        PROVE  S \in P
    <2>1. CASE S = {}
      BY <1>2, <2>1
    <2>2. CASE S # {}
      <3>1. PICK t : t = Newest(S)
        OBVIOUS
      <3>2. t \in S
        BY <1>0, <2>2, <3>1, PartsHeld, NewestIsOne
      <3>3. PICK T : T = S \ {t}
        OBVIOUS
      <3>4. T \in P
        <4> HIDE DEF P
        <4> QED
          BY <1>3, <3>2, <3>3
      <3>5. PICK y : y = h[T]
        OBVIOUS
      <3>6. InMidst(y, T, new, lone, daily, quiet)
        BY <3>4, <3>5
      <3>7. h[S] = Closed(y, t)
        BY <1>1, <2>2, <3>1, <3>3, <3>5 DEF ClosesOne
      <3>8. T \cup {t} = S /\ t \in open \ T
        BY <3>2, <3>3
      <3>9. Midway(Closed(y, t), S, new)
        BY <3>6, <3>8, MidwayCloses DEF InMidst
      <3>10. Beside(Closed(y, t), new, lone, daily)
        BY <3>6, <3>8, BesideCloses DEF InMidst
      <3>11. ASSUME quiet
             PROVE  Abreast(Closed(y, t).seq, Closed(y, t).conc, (open \ S) \cup new)
        <4>1. new = {} /\ DayOf(t.at) = DayOf(now)
          BY <3>2, <3>8, <3>11
        <4>2. Midway(y, T, new) /\ Abreast(y.seq, y.conc, (open \ T) \cup new)
          BY <3>6, <3>11 DEF InMidst
        <4> QED
          BY <3>8, <4>1, <4>2, AlikeMidway
      <3> QED
        BY <3>7, <3>9, <3>10, <3>11 DEF InMidst
    <2> QED
      BY <2>1, <2>2
  <1>4. SUBSET closes \subseteq P
    <2> HIDE DEF P
    <2> QED
      BY <1>0, <1>3, SubsetsByInduction
  <1> QED
    BY <1>1, <1>4

-----------------------------------------------------------------------------
(* The invariant.                                                          *)
Latest == IF now = 0 THEN -1 ELSE DayOf(now - 1)

Books ==
    /\ \A t \in open : t.at < now /\ now - t.at <= SlotsPerDay
    /\ truth.all.acct.held = open /\ truth.all.acct.day = Latest
    /\ truth.port.acct.held \subseteq open /\ truth.port.acct.day = Latest
    /\ Undecided(sim["seq"]) => sim["seq"].acct.held = {}
    /\ Undecided(sim["conc"]) => sim["conc"].acct.held \subseteq open
    /\ Undecided(sim["port"]) => sim["port"].acct.held \subseteq open /\ InItsPhase(sim["port"])

Coupled ==
    /\ ConcFollows(sim["conc"], truth.all, {})
    /\ PortFollows(sim["port"], truth.port, {}, "carried" \notin seen)
    /\ "overlap" \notin seen => SeqFollows(sim["seq"], truth.all, "carried" \notin seen)

Agreeing == seen = {} => Abreast(sim["seq"], sim["conc"], open)

Unpassed == \A n \in Names : ~PassedOne(sim[n]) => fate[n] = NoTruth

ChallengeInv ==
    /\ ChallengeTypes /\ Shapes /\ Books /\ Coupled /\ Agreeing /\ Unpassed /\ PassMeansAlive

(* A slot, piece by piece.                                                 *)
Begun(opens) ==
    [seq |-> sim["seq"],
     conc |-> IF opens = {} THEN sim["conc"] ELSE ConcOpen(sim["conc"], Newest(opens)),
     port |-> sim["port"], all |-> AtBegin(truth.all), own |-> AtBegin(truth.port)]

Marked(closes, opens) ==
    seen \cup (IF opens # {} /\ open # closes THEN {"overlap"} ELSE {})
         \cup (IF opens # {} /\ closes # {} THEN {"touch"} ELSE {})
         \cup (IF \E t \in open : DayOf(t.at) < DayOf(now) THEN {"carried"} ELSE {})

OneAtMost(opens) ==
    \/ opens = {}
    \/ \E t \in Trades : opens = {t} /\ Newest(opens) = t /\ t.at = now

LEMMA OpensAre ==
    ASSUME ChallengeParameters, now \in Nat, dealt \in 0..MaxTrades,
           NEW opens \in {{}} \cup {{t} : t \in NewTrades}
    PROVE  OneAtMost(opens) /\ dealt + Cardinality(opens) \in 0..MaxTrades
  <1>0. MaxTrades \in Nat
    BY DEF ChallengeParameters
  <1>1. CASE opens = {}
    BY <1>0, <1>1, FS_EmptySet DEF OneAtMost
  <1>2. CASE opens # {}
    <2>1. PICK t \in NewTrades : opens = {t}
      BY <1>2
    <2>2. t \in Trades /\ t.at = now /\ dealt < MaxTrades
      <3>1. dealt # MaxTrades
        BY <2>1 DEF NewTrades
      <3>2. PICK k \in Kinds, i \in Instruments :
               t = [id |-> dealt + 1, ret |-> k.ret, mae |-> k.mae, inst |-> i, at |-> now]
        BY <2>1, <3>1 DEF NewTrades
      <3>3. k.mae \in Nat /\ k.ret \in Int /\ k.ret >= -k.mae
        BY DEF ChallengeParameters
      <3> QED
        BY <1>0, <3>1, <3>2, <3>3 DEF Trades
    <2>3. Newest(opens) = t
      <3>1. t.id <= t.id
        BY <2>2 DEF Trades
      <3> QED
        BY <2>1, <3>1 DEF Newest
    <2>4. Cardinality(opens) = 1
      BY <2>1, FS_Singleton
    <2> QED
      BY <1>0, <2>1, <2>2, <2>3, <2>4 DEF OneAtMost
  <1> QED
    BY <1>1, <1>2

LEMMA NewIsNew ==
    ASSUME Shapes, Books, NEW opens, OneAtMost(opens)
    PROVE  open \cup opens \in Holdings /\ opens \cap open = {} /\ opens \subseteq Trades
  <1>1. open \in Holdings
    BY DEF Shapes
  <1>2. CASE opens = {}
    BY <1>1, <1>2
  <1>3. ASSUME NEW t \in Trades, opens = {t}, t.at = now
        PROVE  open \cup opens \in Holdings /\ opens \cap open = {} /\ opens \subseteq Trades
    <2>1. t \notin open
      BY <1>3 DEF Books, Trades
    <2> QED
      BY <1>1, <1>3, <2>1, AdverseAdds
  <1> QED
    BY <1>2, <1>3 DEF OneAtMost

LEMMA LatestIs ==
    ASSUME ChallengeParameters, Shapes, Books
    PROVE  /\ Latest \in Int /\ DayOf(now) \in Nat /\ Latest <= DayOf(now)
           /\ \A t \in open : DayOf(t.at) \in Nat /\ DayOf(t.at) <= Latest
  <1>1. now \in Nat /\ DayOf(now) \in Nat
    BY DayIs DEF Shapes
  <1>2. CASE now = 0
    <2>1. open = {}
      BY <1>2 DEF Books, Shapes, Holdings, Trades
    <2> QED
      BY <1>1, <1>2, <2>1 DEF Latest
  <1>3. CASE now # 0
    <2>1. now - 1 \in Nat /\ now - 1 <= now
      BY <1>1, <1>3
    <2>2. DayOf(now - 1) \in Nat /\ DayOf(now - 1) <= DayOf(now)
      BY <1>1, <2>1, DayIs, DaysInOrder
    <2>3. ASSUME NEW t \in open PROVE DayOf(t.at) \in Nat /\ DayOf(t.at) <= DayOf(now - 1)
      <3>1. t.at \in Nat /\ t.at <= now - 1
        BY <1>1 DEF Books, Shapes, Holdings, Trades
      <3> QED
        BY <2>1, <3>1, DayIs, DaysInOrder
    <2> QED
      BY <1>1, <1>3, <2>2, <2>3 DEF Latest
  <1> QED
    BY <1>2, <1>3

LEMMA MarkedSays ==
    ASSUME NEW closes \in SUBSET open, NEW opens, NEW marks, marks = Marked(closes, opens)
    PROVE  /\ seen \subseteq marks
           /\ "overlap" \notin marks => opens = {} \/ open = closes
           /\ "carried" \notin marks => \A t \in open : ~(DayOf(t.at) < DayOf(now))
           /\ marks = {} => opens = {} \/ (open = {} /\ closes = {})
  <1>1. seen \subseteq marks
    BY DEF Marked
  <1>2. opens # {} /\ open # closes => "overlap" \in marks
    BY DEF Marked
  <1>3. opens # {} /\ closes # {} => "touch" \in marks
    BY DEF Marked
  <1>4. (\E t \in open : DayOf(t.at) < DayOf(now)) => "carried" \in marks
    BY DEF Marked
  <1> QED
    BY <1>1, <1>2, <1>3, <1>4

LEMMA PortLess ==
    ASSUME NEW s, NEW w, NEW new, NEW more, NEW less, less => more, PortFollows(s, w, new, more)
    PROVE  PortFollows(s, w, new, less)
  BY DEF PortFollows

LEMMA SeqLess ==
    ASSUME NEW s, NEW w, NEW more, NEW less, less => more, SeqFollows(s, w, more)
    PROVE  SeqFollows(s, w, less)
  BY DEF SeqFollows

LEMMA KeptSame ==
    ASSUME NEW s \in Sims
    PROVE  Kept(s, s)
  BY DEF Kept

LEMMA SlotBegins ==
    ASSUME ChallengeParameters, ChallengeInv, NEW closes \in SUBSET open,
           NEW opens, OneAtMost(opens), NEW marks, marks = Marked(closes, opens)
    PROVE  InMidst(Begun(opens), {}, opens, "overlap" \notin marks, "carried" \notin marks,
                   marks = {})
  <1> DEFINE lone == "overlap" \notin marks
             daily == "carried" \notin marks
             y == Begun(opens)
             s == sim["conc"]
             w == truth.all
             d == y.conc
             v == y.all
  <1>1. Shapes /\ Books /\ Coupled /\ Agreeing
    BY DEF ChallengeInv
  <1>2. /\ now \in Nat /\ open \in Holdings
        /\ sim["seq"] \in Sims /\ s \in Sims /\ sim["port"] \in Sims
        /\ w \in Truths /\ truth.port \in Truths
    BY <1>1 DEF Shapes
  <1>3. /\ y.seq = sim["seq"] /\ y.port = sim["port"]
        /\ d = (IF opens = {} THEN s ELSE ConcOpen(s, Newest(opens)))
        /\ v = AtBegin(w) /\ y.own = AtBegin(truth.port)
    BY DEF Begun
  <1>4. /\ Latest \in Int /\ DayOf(now) \in Nat /\ Latest <= DayOf(now)
        /\ \A t \in open : DayOf(t.at) \in Nat /\ DayOf(t.at) <= Latest
    BY <1>1, LatestIs
  <1>5. /\ \A t \in open : t.at < now /\ now - t.at <= SlotsPerDay
        /\ w.acct.held = open /\ w.acct.day = Latest
        /\ truth.port.acct.held \subseteq open /\ truth.port.acct.day = Latest
    BY <1>1 DEF Books
  <1>6. /\ v \in Truths /\ v.acct.held = open /\ v.acct.day = DayOf(now)
        /\ y.own \in Truths /\ y.own.acct.held \subseteq open /\ y.own.acct.day = DayOf(now)
    BY <1>2, <1>3, <1>5, BeginIs
  <1>7. /\ seen \subseteq marks
        /\ lone => opens = {} \/ open = closes
        /\ daily => \A t \in open : ~(DayOf(t.at) < DayOf(now))
        /\ marks = {} => opens = {} \/ open = {}
    BY MarkedSays
  <1>8. daily /\ Latest < DayOf(now) => open = {}
    BY <1>4, <1>7
  <1>9. y \in [seq : {y.seq}, conc : {d}, port : {y.port}, all : {v}, own : {y.own}]
    BY DEF Begun
  <1> SUFFICES InMidst(y, {}, opens, lone, daily, marks = {})
    OBVIOUS
  <1> HIDE DEF y, lone, daily
  (* The concurrent simulator, which opens first.                          *)
  <1>10. ConcFollows(s, v, {})
    <2>1. ConcFollows(s, w, {})
      BY <1>1 DEF Coupled
    <2>2. w.acct.day < DayOf(now) => \A t \in w.acct.held : DayOf(t.at) <= w.acct.day
      BY <1>4, <1>5
    <2> QED
      BY <1>2, <1>3, <1>4, <1>5, <2>1, <2>2, ConcBegins
  <1>11. /\ d \in Sims /\ ConcFollows(d, v, opens) /\ Kept(d, s)
         /\ PassedOne(d) => PassedOne(s)
         /\ Undecided(d) => d.acct.held \subseteq open \cup opens
         /\ marks = {} => Abreast(sim["seq"], d, open \cup opens)
    <2>1. Undecided(s) => s.acct.held \subseteq open
      BY <1>1 DEF Books
    <2>2. marks = {} => Abreast(sim["seq"], s, open)
      BY <1>1, <1>7 DEF Agreeing
    <2>3. CASE opens = {}
      <3>1. d = s /\ open \cup opens = open
        BY <1>3, <2>3
      <3> QED
        BY <1>2, <1>10, <2>1, <2>2, <2>3, <3>1, KeptSame
    <2>4. ASSUME NEW t \in Trades, opens = {t}, Newest(opens) = t, t.at = now
          PROVE  /\ d \in Sims /\ ConcFollows(d, v, opens) /\ Kept(d, s)
                 /\ PassedOne(d) => PassedOne(s)
                 /\ Undecided(d) => d.acct.held \subseteq open \cup opens
                 /\ marks = {} => Abreast(sim["seq"], d, open \cup opens)
      <3>1. d = ConcOpen(s, t)
        BY <1>3, <2>4
      <3>2. t \notin v.acct.held
        BY <1>2, <1>5, <1>6, <2>4
      <3>3. /\ d \in Sims /\ ConcFollows(d, v, {t})
            /\ PassedOne(d) => PassedOne(s)
            /\ PassedOne(s) => PassedOne(d)
            /\ ~Undecided(s) => d = s
            /\ s.phase = 2 => d.phase = 2
            /\ Undecided(d) => Undecided(s) /\ d.acct.held = s.acct.held \cup {t}
        <4>1. PICK e : e = ConcOpen(s, t)
          OBVIOUS
        <4>2. PICK a \in Truths : a = v
          BY <1>6
        <4>3. a.acct.day = DayOf(now) /\ t \notin a.acct.held /\ ConcFollows(s, a, {})
          BY <1>6, <1>10, <3>2, <4>2
        <4>4. /\ e \in Sims /\ ConcFollows(e, a, {t})
              /\ PassedOne(e) => PassedOne(s)
              /\ PassedOne(s) => PassedOne(e)
              /\ ~Undecided(s) => e = s
              /\ s.phase = 2 => e.phase = 2
              /\ Undecided(e) => Undecided(s) /\ e.acct.held = s.acct.held \cup {t}
          <5>1. s \in Sims /\ now \in Nat /\ t \in Trades
            BY <1>2, <2>4
          <5>2. ConcOpen(s, t) \in Sims /\ ConcFollows(ConcOpen(s, t), a, {t})
            BY <4>3, <5>1, ConcOpens
          <5>3. PassedOne(ConcOpen(s, t)) => PassedOne(s)
            BY <4>3, <5>1, ConcOpens
          <5>4. PassedOne(s) => PassedOne(ConcOpen(s, t))
            BY <4>3, <5>1, ConcOpens
          <5>5. /\ ~Undecided(s) => ConcOpen(s, t) = s
                /\ s.phase = 2 => ConcOpen(s, t).phase = 2
            BY <4>3, <5>1, ConcOpens
          <5>6. Undecided(ConcOpen(s, t)) =>
                   Undecided(s) /\ ConcOpen(s, t).acct.held = s.acct.held \cup {t}
            BY <4>3, <5>1, ConcOpens
          <5> QED
            BY <4>1, <5>2, <5>3, <5>4, <5>5, <5>6
        <4>5. d = e
          BY <3>1, <4>1
        <4> QED
          BY <4>2, <4>4, <4>5
      <3>4. Kept(d, s)
        BY <3>3 DEF Kept, PassedOne, Undecided
      <3>5. ASSUME marks = {}
            PROVE  Abreast(sim["seq"], d, open \cup opens)
        <4>1. open = {} /\ open \cup opens = {t}
          BY <1>7, <2>4, <3>5
        <4>2. Abreast(sim["seq"], s, {})
          BY <2>2, <3>5, <4>1
        <4>5. rules.limit \in Nat
          BY DEF ChallengeInv, ChallengeTypes, ChallengeParameters
        <4>3. CASE GivenUp(s)
          BY <3>1, <4>3, StaysGivenUp DEF Abreast
        <4>4. CASE Alike(sim["seq"], s, {})
          BY <1>2, <2>4, <3>1, <4>1, <4>4, <4>5, AlikeOpens
        <4> QED
          BY <4>2, <4>3, <4>4 DEF Abreast
      <3> QED
        BY <2>1, <2>4, <3>3, <3>4, <3>5
    <2> QED
      BY <2>3, <2>4 DEF OneAtMost
  (* The other two.                                                        *)
  <1>12. PortFollows(y.port, y.own, {}, daily)
    <2>1. PortFollows(sim["port"], truth.port, {}, "carried" \notin seen)
      BY <1>1 DEF Coupled
    <2>2. daily => "carried" \notin seen
      BY <1>7 DEF daily
    <2>3. daily \in BOOLEAN
      BY DEF daily
    <2>4. PortFollows(sim["port"], truth.port, {}, daily)
      BY <2>1, <2>2, PortLess
    <2>5. daily /\ truth.port.acct.day < DayOf(now) => truth.port.acct.held = {}
      BY <1>5, <1>8
    <2> QED
      BY <1>2, <1>3, <1>4, <1>5, <2>3, <2>4, <2>5, PortBegins
  <1>13. ASSUME lone PROVE SeqFollows(y.seq, v, daily)
    <2>1. SeqFollows(sim["seq"], w, "carried" \notin seen)
      BY <1>1, <1>7, <1>13 DEF Coupled, lone
    <2>2. daily => "carried" \notin seen
      BY <1>7 DEF daily
    <2>3. daily \in BOOLEAN
      BY DEF daily
    <2>4. SeqFollows(sim["seq"], w, daily)
      BY <2>1, <2>2, SeqLess
    <2>5. daily /\ w.acct.day < DayOf(now) => w.acct.held = {}
      BY <1>5, <1>8
    <2> QED
      BY <1>2, <1>3, <1>4, <1>5, <2>3, <2>4, <2>5, SeqBegins
  <1>14. y \in Moments
    BY <1>2, <1>3, <1>6, <1>9, <1>11 DEF Moments
  <1>15. Midway(y, {}, opens)
    <2>1. Kept(y.seq, sim["seq"]) /\ Kept(y.conc, s) /\ Kept(y.port, sim["port"])
      BY <1>2, <1>3, <1>11, KeptSame
    <2>2. /\ Undecided(y.seq) => y.seq.acct.held = {}
          /\ Undecided(y.port) => y.port.acct.held \subseteq open \ {} /\ InItsPhase(y.port)
      BY <1>1, <1>3 DEF Books
    <2>3. Undecided(y.conc) => y.conc.acct.held \subseteq (open \ {}) \cup opens
      BY <1>11
    <2>4. /\ y.all.acct.held = open \ {} /\ y.all.acct.day = DayOf(now)
          /\ y.own.acct.held \subseteq open \ {} /\ y.own.acct.day = DayOf(now)
      BY <1>6
    <2> QED
      BY <1>14, <2>1, <2>2, <2>3, <2>4 DEF Midway
  <1>16. Beside(y, opens, lone, daily)
    <2>1. Rode(s, y.conc, y.all, TRUE) /\ Rode(sim["port"], y.port, y.own, daily)
          /\ Rode(sim["seq"], y.seq, y.all, daily)
      BY <1>3, <1>11 DEF Rode
    <2> QED
      BY <1>11, <1>12, <1>13, <2>1 DEF Beside
  <1>17. marks = {} => Abreast(y.seq, y.conc, (open \ {}) \cup opens)
    <2>1. (open \ {}) \cup opens = open \cup opens
      OBVIOUS
    <2> QED
      BY <1>3, <1>11, <2>1
  <1> QED
    BY <1>15, <1>16, <1>17 DEF InMidst

LEMMA PortLast ==
    ASSUME ChallengeParameters, now \in Nat, NEW t \in Trades, NEW s \in Sims,
           NEW w \in Truths, w.acct.day = DayOf(now), t \notin w.acct.held,
           NEW daily \in BOOLEAN, PortFollows(s, w, {}, daily),
           Undecided(s) => InItsPhase(s)
    PROVE  LET p == PortOpen(s, t)
           IN  Kept(p, s) /\ PortFollows(p, w, {t} \cap p.acct.held, daily)
  <1> DEFINE p == PortOpen(s, t)
  <1>1. /\ p \in Sims
        /\ PortFollows(p, w, {t} \cap p.acct.held, daily)
        /\ ~Undecided(s) => p = s
        /\ p.phase = s.phase
        /\ PassedOne(p) => PassedOne(s)
    BY PortOpens
  <1> SUFFICES Kept(p, s) /\ PortFollows(p, w, {t} \cap p.acct.held, daily)
    OBVIOUS
  <1> HIDE DEF p
  <1> QED
    BY <1>1 DEF Kept, PassedOne, Undecided

LEMMA PortPasses ==
    ASSUME ChallengeParameters, now \in Nat, NEW t \in Trades, NEW s \in Sims,
           NEW w \in Truths, w.acct.day = DayOf(now), t \notin w.acct.held,
           NEW daily \in BOOLEAN, PortFollows(s, w, {}, daily),
           Undecided(s) => InItsPhase(s)
    PROVE  PassedOne(PortOpen(s, t)) => PassedOne(s)
  BY PortOpens

LEMMA PortHolds ==
    ASSUME ChallengeParameters, now \in Nat, NEW t \in Trades, NEW s \in Sims,
           NEW w \in Truths, w.acct.day = DayOf(now), t \notin w.acct.held,
           NEW daily \in BOOLEAN, PortFollows(s, w, {}, daily),
           Undecided(s) => InItsPhase(s)
    PROVE  LET p == PortOpen(s, t)
           IN  Undecided(p) => /\ Undecided(s) /\ InItsPhase(p)
                               /\ p.acct.held \subseteq s.acct.held \cup {t}
  <1> DEFINE p == PortOpen(s, t)
  <1>1. Undecided(p) =>
           /\ Undecided(s) /\ p.acct.from = s.acct.from
           /\ \/ p.acct.held = s.acct.held
              \/ p.acct.held = s.acct.held \cup {t} /\ t.at >= s.acct.from
    BY PortOpens
  <1> HIDE DEF p
  <1>2. Undecided(p) => InItsPhase(p)
    BY <1>1 DEF InItsPhase
  <1>3. Undecided(p) => Undecided(s) /\ p.acct.held \subseteq s.acct.held \cup {t}
    BY <1>1
  <1> QED
    BY <1>2, <1>3 DEF p

(* What a slot leaves behind, once its trade is opened.                    *)
Opened(y, p, v, u, opens) ==
    /\ p = IF opens = {} THEN y.port ELSE PortOpen(y.port, Newest(opens))
    /\ v = AfterOpens(y.all, opens) /\ u = AfterOpens(y.own, opens \cap p.acct.held)

Ended(y, p, v, u, left, lone, daily) ==
    /\ p \in Sims /\ v \in Truths /\ u \in Truths
    /\ Kept(p, sim["port"]) /\ Rode(sim["port"], p, y.own, daily)
    /\ v.acct.held = left /\ v.acct.day = DayOf(now)
    /\ u.acct.held \subseteq left /\ u.acct.day = DayOf(now)
    /\ Undecided(p) => p.acct.held \subseteq left /\ InItsPhase(p)
    /\ ConcFollows(y.conc, v, {})
    /\ PortFollows(p, u, {}, daily)
    /\ lone => SeqFollows(y.seq, v, daily)

LEMMA SlotEnds ==
    ASSUME ChallengeParameters, Shapes, Books, NEW closes \in SUBSET open,
           NEW opens, OneAtMost(opens),
           NEW lone \in BOOLEAN, NEW daily \in BOOLEAN, NEW quiet \in BOOLEAN,
           lone => opens = {} \/ open = closes,
           NEW y, InMidst(y, closes, opens, lone, daily, quiet),
           NEW p, NEW v, NEW u, Opened(y, p, v, u, opens)
    PROVE  Ended(y, p, v, u, (open \ closes) \cup opens, lone, daily)
  <1> DEFINE left == (open \ closes) \cup opens
             new == opens \cap p.acct.held
  <1>0. /\ p = IF opens = {} THEN y.port ELSE PortOpen(y.port, Newest(opens))
        /\ v = AfterOpens(y.all, opens) /\ u = AfterOpens(y.own, new)
    BY DEF Opened
  <1>1. Midway(y, closes, opens) /\ Beside(y, opens, lone, daily)
    BY DEF InMidst
  <1>2. /\ y.seq \in Sims /\ y.conc \in Sims /\ y.port \in Sims
        /\ y.all \in Truths /\ y.own \in Truths /\ now \in Nat
    BY <1>1, MomentType DEF Midway, Shapes
  <1>3. /\ y.all.acct.held = open \ closes /\ y.all.acct.day = DayOf(now)
        /\ y.own.acct.held \subseteq open \ closes /\ y.own.acct.day = DayOf(now)
        /\ Undecided(y.port) => y.port.acct.held \subseteq open \ closes /\ InItsPhase(y.port)
        /\ Kept(y.port, sim["port"])
    BY <1>1 DEF Midway
  <1>4. /\ ConcFollows(y.conc, y.all, opens)
        /\ PortFollows(y.port, y.own, {}, daily) /\ Rode(sim["port"], y.port, y.own, daily)
        /\ lone => SeqFollows(y.seq, y.all, daily)
    BY <1>1 DEF Beside
  <1>5. /\ open \cup opens \in Holdings /\ opens \cap open = {} /\ opens \subseteq Trades
    BY NewIsNew
  <1>6. /\ y.all.acct.held \cup opens \in Holdings /\ y.own.acct.held \cup new \in Holdings
    <2>1. /\ y.all.acct.held \cup opens \subseteq open \cup opens
          /\ y.own.acct.held \cup new \subseteq open \cup opens
      BY <1>3
    <2> HIDE DEF new
    <2> QED
      BY <1>5, <2>1, PartsHeld
  <1>7. /\ Kept(p, y.port) /\ PortFollows(p, y.own, new, daily)
        /\ PassedOne(p) => PassedOne(y.port)
        /\ Undecided(p) => p.acct.held \subseteq left /\ InItsPhase(p)
    <2>1. CASE opens = {}
      <3>1. p = y.port /\ new = {} /\ left = open \ closes
        BY <1>0, <2>1
      <3> QED
        BY <1>2, <1>3, <1>4, <3>1, KeptSame
    <2>2. CASE opens # {}
      <3>1. PICK t \in Trades : opens = {t} /\ Newest(opens) = t
        BY <2>2 DEF OneAtMost
      <3>2. p = PortOpen(y.port, t) /\ new = {t} \cap p.acct.held /\ t \notin y.own.acct.held
        BY <1>0, <1>3, <1>5, <2>2, <3>1
      <3>3. PICK s \in Sims, w \in Truths : s = y.port /\ w = y.own
        BY <1>2
      <3>4. w.acct.day = DayOf(now) /\ t \notin w.acct.held /\ PortFollows(s, w, {}, daily)
            /\ (Undecided(s) => InItsPhase(s))
        BY <1>3, <1>4, <3>2, <3>3
      <3>5. LET q == PortOpen(s, t)
            IN  /\ Kept(q, s) /\ PortFollows(q, w, {t} \cap q.acct.held, daily)
                /\ PassedOne(q) => PassedOne(s)
        <4>1. now \in Nat
          BY <1>2
        <4>2. Kept(PortOpen(s, t), s)
          BY <3>4, <4>1, PortLast
        <4>3. PortFollows(PortOpen(s, t), w, {t} \cap PortOpen(s, t).acct.held, daily)
          BY <3>4, <4>1, PortLast
        <4>4. PassedOne(PortOpen(s, t)) => PassedOne(s)
          BY <3>4, <4>1, PortPasses
        <4> QED
          BY <4>2, <4>3, <4>4
      <3>6. LET q == PortOpen(s, t)
            IN  Undecided(q) => /\ Undecided(s) /\ InItsPhase(q)
                                /\ q.acct.held \subseteq s.acct.held \cup {t}
        BY <1>2, <3>4, PortHolds
      <3>8. p = PortOpen(s, t)
        BY <3>2, <3>3
      <3>7. /\ Kept(p, s) /\ PortFollows(p, w, new, daily)
            /\ PassedOne(p) => PassedOne(s)
            /\ Undecided(p) => /\ Undecided(s) /\ InItsPhase(p)
                               /\ p.acct.held \subseteq s.acct.held \cup {t}
        BY <3>1, <3>5, <3>6, <3>8
      <3> HIDE DEF new
      <3> QED
        BY <1>3, <3>1, <3>3, <3>7
    <2> QED
      BY <2>1, <2>2
  <1>8. p \in Sims /\ Kept(p, sim["port"])
    BY <1>3, <1>7, KeptTwice DEF Kept
  <1>9. Rode(sim["port"], p, y.own, daily)
    BY <1>4, <1>7 DEF Rode, Through, Kept
  <1>10. /\ v \in Truths /\ v.acct.held = left /\ v.acct.day = DayOf(now)
    BY <1>0, <1>2, <1>3, <1>6, OpensIs
  <1>11. /\ u \in Truths /\ u.acct.held \subseteq left /\ u.acct.day = DayOf(now)
    <2>1. u \in Truths /\ u.acct.held = y.own.acct.held \cup new /\ u.acct.day = y.own.acct.day
      BY <1>0, <1>2, <1>6, OpensIs
    <2> QED
      BY <1>3, <2>1
  <1>12. ConcFollows(y.conc, v, {})
    BY <1>0, <1>2, <1>4, <1>6, ConcEnds
  <1>13. PortFollows(p, u, {}, daily)
    <2> HIDE DEF new
    <2>1. u = AfterOpens(y.own, new)
      BY <1>0 DEF new
    <2> QED
      BY <1>2, <1>6, <1>7, <1>8, <2>1, PortEnds
  <1>14. ASSUME lone PROVE SeqFollows(y.seq, v, daily)
    <2>1. CASE ~Running(y.seq)
      BY <2>1 DEF SeqFollows
    <2>2. CASE Running(y.seq)
      <3>1. \A t, x \in y.all.acct.held : t = x
        BY <1>4, <1>14, <2>2 DEF SeqFollows
      <3>2. opens = {} \/ y.all.acct.held = {}
        BY <1>3, <1>14
      <3>3. \A t, x \in y.all.acct.held \cup opens : t = x
        BY <3>1, <3>2 DEF OneAtMost
      <3>4. \A t \in opens : DayOf(t.at) = y.all.acct.day
        BY <1>3 DEF OneAtMost
      <3> QED
        BY <1>0, <1>2, <1>4, <1>6, <1>14, <3>2, <3>3, <3>4, SeqEnds
    <2> QED
      BY <2>1, <2>2
  <1> QED
    BY <1>7, <1>8, <1>9, <1>10, <1>11, <1>12, <1>13, <1>14 DEF Ended

(* What a simulator's fate says of the account it passed with.             *)
Outlived(d, f, daily) ==
    /\ ~f.maxHit
    /\ daily => ~f.dayHit
    /\ d.phase = 1 /\ d.verdict = "PASS" => f.acct.worst <= d.acct.worst

LEMMA FateIs ==
    ASSUME NEW s, NEW d, Kept(d, s), NEW w, NEW daily \in BOOLEAN, Rode(s, d, w, daily),
           NEW f, ~PassedOne(s) => f = NoTruth, Outlived(s, f, daily),
           NEW g, g = IF PassedOne(s) \/ ~PassedOne(d) THEN f ELSE w
    PROVE  Outlived(d, g, daily) /\ (~PassedOne(d) => g = NoTruth)
  <1>1. CASE PassedOne(s)
    BY <1>1 DEF Outlived, Kept
  <1>2. CASE ~PassedOne(s) /\ ~PassedOne(d)
    BY <1>2 DEF Outlived, NoTruth, PassedOne
  <1>3. CASE ~PassedOne(s) /\ PassedOne(d)
    BY <1>3 DEF Outlived, Rode, Through
  <1> QED
    BY <1>1, <1>2, <1>3

LEMMA StartsTogether ==
    ASSUME ChallengeParameters, ChallengeInit
    PROVE  ChallengeInv
  <1>1. /\ rules \in RuleSets /\ now = 0 /\ open = {} /\ dealt = 0 /\ seen = {}
        /\ sim["seq"] = NewSim /\ sim["conc"] = NewSim /\ sim["port"] = NewSim
        /\ truth.all = NoTruth /\ truth.port = NoTruth
        /\ fate["seq"] = NoTruth /\ fate["conc"] = NoTruth /\ fate["port"] = NoTruth
    BY DEF ChallengeInit, Names
  <1>2. PICK a \in Accounts : a = Fresh(0)
    BY FreshIs
  <1>3. /\ a.equity = 0 /\ a.peak = 0 /\ a.worst = 0 /\ a.day = -1 /\ a.sod = 0
        /\ a.days = {} /\ a.held = {} /\ a.from = 0
    BY <1>2, FreshIs
  <1>4. PICK s \in Sims : s = NewSim
    BY NewSimIs
  <1>5. s.phase = 1 /\ s.verdict = "NONE" /\ s.acct = a
    BY <1>2, <1>4, NewSimIs
  <1>6. PICK w \in Truths : w = NoTruth
    BY <1>2 DEF NoTruth, Truths
  <1>7. w.acct = a /\ ~w.maxHit /\ ~w.dayHit
    BY <1>2, <1>6 DEF NoTruth
  <1>8. Undecided(s) /\ Running(s) /\ ~PassedOne(s)
    BY <1>5 DEF Undecided, Running, PassedOne
  <1>9. Low(a) = 0 /\ AboveMax(a) /\ AboveDay(a) /\ a.equity > MaxFloor(a)
    <2>1. Low(a) = 0
      BY <1>3, NothingAdverse DEF Low
    <2>2. MaxFloor(a) = -MaxDD /\ MaxDD \in Nat \ {0} /\ DailyDD \in Nat \ {0}
      BY <1>3 DEF MaxFloor, ChallengeParameters
    <2> QED
      BY <1>3, <2>1, <2>2 DEF AboveMax, AboveDay
  <1>10. Shapes
    BY <1>1, <1>4, <1>6, NothingAdverse DEF Shapes
  <1>11. ChallengeTypes
    BY <1>1, <1>3, <1>4, <1>5 DEF ChallengeTypes, ChallengeParameters, Names, Verdicts
  <1>12. Books
    BY <1>1, <1>3, <1>4, <1>5, <1>6, <1>7 DEF Books, Latest, InItsPhase
  <1>13. ConcFollows(s, w, {}) /\ PortFollows(s, w, {}, TRUE)
    BY <1>3, <1>5, <1>7, <1>9
       DEF ConcFollows, PortFollows, Alongside, SameBalance, SameDays, Shallower, AboveDay
  <1>14. SeqFollows(s, w, TRUE)
    BY <1>3, <1>5, <1>7, <1>9 DEF SeqFollows, SameBalance, SameDays, AboveDay
  <1>15. Coupled
    BY <1>1, <1>4, <1>6, <1>13, <1>14 DEF Coupled
  <1>16. Agreeing
    BY <1>1, <1>3, <1>4, <1>5 DEF Agreeing, Abreast, Alike, AlikeAccounts, SameBalance
  <1>17. Unpassed
    BY <1>1 DEF Unpassed, Names
  <1>18. PassMeansAlive
    BY <1>1, <1>4, <1>5, <1>6, <1>7, <1>11 DEF PassMeansAlive, Names
  <1> QED
    BY <1>10, <1>11, <1>12, <1>15, <1>16, <1>17, <1>18 DEF ChallengeInv

LEMMA SlotHolds ==
    ASSUME ChallengeParameters, ChallengeInv, now < MaxSlots,
           NEW closes \in SUBSET open, NEW opens \in {{}} \cup {{t} : t \in NewTrades},
           \A t \in open \ closes : now - t.at < SlotsPerDay, Slot(closes, opens)
    PROVE  ChallengeInv'
  <1> DEFINE left == (open \ closes) \cup opens
  <1>1. /\ ChallengeTypes /\ Shapes /\ Books /\ Coupled /\ Agreeing /\ Unpassed
        /\ PassMeansAlive /\ now \in Nat /\ MaxSlots \in Nat /\ SlotsPerDay \in Nat \ {0}
    BY DEF ChallengeInv, Shapes, ChallengeParameters
  <1>2. OneAtMost(opens) /\ dealt + Cardinality(opens) \in 0..MaxTrades
    BY <1>1, OpensAre DEF ChallengeTypes
  <1>3. open \cup opens \in Holdings /\ opens \cap open = {} /\ opens \subseteq Trades
    BY <1>1, <1>2, NewIsNew
  <1>4. PICK marks : marks = Marked(closes, opens)
    OBVIOUS
  <1>5. PICK lone \in BOOLEAN : lone = ("overlap" \notin marks)
    OBVIOUS
  <1>6. PICK daily \in BOOLEAN : daily = ("carried" \notin marks)
    OBVIOUS
  <1>7. PICK quiet \in BOOLEAN : quiet = (marks = {})
    OBVIOUS
  <1>8. /\ seen \subseteq marks
        /\ lone => opens = {} \/ open = closes
        /\ daily => \A t \in open : ~(DayOf(t.at) < DayOf(now))
        /\ marks = {} => opens = {} \/ (open = {} /\ closes = {})
    BY <1>4, <1>5, <1>6, MarkedSays
  <1>9. quiet => /\ closes = {} \/ opens = {}
                 /\ \A t \in open : DayOf(t.at) = DayOf(now)
    <2>1. \A t \in open : DayOf(t.at) \in Nat /\ DayOf(t.at) <= DayOf(now) /\ DayOf(now) \in Nat
      BY <1>1, LatestIs
    <2>2. quiet => daily
      BY <1>6, <1>7
    <2>3. ASSUME quiet, NEW t \in open PROVE DayOf(t.at) = DayOf(now)
      <3>1. ~(DayOf(t.at) < DayOf(now)) /\ DayOf(t.at) <= DayOf(now)
        BY <1>8, <2>1, <2>2, <2>3
      <3> QED
        BY <2>1, <3>1
    <2> QED
      BY <1>7, <1>8, <2>3
  <1>10. PICK x : x = Begun(opens)
    OBVIOUS
  <1>11. InMidst(x, {}, opens, lone, daily, quiet)
    BY <1>2, <1>4, <1>5, <1>6, <1>7, <1>10, SlotBegins
  <1>12. PICK y : y = InTurn(Closed, x, closes)
    OBVIOUS
  <1>13. InMidst(y, closes, opens, lone, daily, quiet)
    BY <1>1, <1>3, <1>9, <1>11, <1>12, ClosesInTurn
  <1>14. PICK p : p = IF opens = {} THEN y.port ELSE PortOpen(y.port, Newest(opens))
    OBVIOUS
  <1>15. PICK v : v = AfterOpens(y.all, opens)
    OBVIOUS
  <1>16. PICK u : u = AfterOpens(y.own, opens \cap p.acct.held)
    OBVIOUS
  <1>17. /\ p \in Sims /\ v \in Truths /\ u \in Truths
         /\ Kept(p, sim["port"]) /\ Rode(sim["port"], p, y.own, daily)
         /\ v.acct.held = left /\ v.acct.day = DayOf(now)
         /\ u.acct.held \subseteq left /\ u.acct.day = DayOf(now)
         /\ Undecided(p) => p.acct.held \subseteq left /\ InItsPhase(p)
         /\ ConcFollows(y.conc, v, {})
         /\ PortFollows(p, u, {}, daily)
         /\ lone => SeqFollows(y.seq, v, daily)
    <2>1. lone => opens = {} \/ open = closes
      BY <1>8
    <2>2. Opened(y, p, v, u, opens)
      BY <1>14, <1>15, <1>16 DEF Opened
    <2>3. Ended(y, p, v, u, left, lone, daily)
      BY <1>1, <1>2, <1>13, <2>1, <2>2, SlotEnds
    <2> QED
      BY <2>3 DEF Ended
  <1>18. /\ sim' = [seq |-> y.seq, conc |-> y.conc, port |-> p]
         /\ truth' = [all |-> v, port |-> u]
         /\ fate' = [n \in Names |->
                        IF PassedOne(sim[n]) \/ ~PassedOne(sim'[n]) THEN fate[n]
                        ELSE IF n = "port" THEN y.own ELSE y.all]
         /\ open' = left /\ seen' = marks
         /\ dealt' = dealt + Cardinality(opens) /\ now' = now + 1 /\ rules' = rules
    <2>1. y = InTurn(Closed, Begun(opens), closes)
      BY <1>10, <1>12
    <2>2. /\ sim' = [seq |-> y.seq, conc |-> y.conc, port |-> p]
          /\ truth' = [all |-> v, port |-> u]
      BY <1>14, <1>15, <1>16, <2>1 DEF Slot, Begun
    <2>3. fate' = [n \in Names |->
                      IF PassedOne(sim[n]) \/ ~PassedOne(sim'[n]) THEN fate[n]
                      ELSE IF n = "port" THEN y.own ELSE y.all]
      BY <2>1 DEF Slot, Begun
    <2>4. /\ open' = left /\ seen' = marks
          /\ dealt' = dealt + Cardinality(opens) /\ now' = now + 1 /\ rules' = rules
      BY <1>4 DEF Slot, Marked
    <2> QED
      BY <2>2, <2>3, <2>4
  <1>19. /\ sim'["seq"] = y.seq /\ sim'["conc"] = y.conc /\ sim'["port"] = p
         /\ truth'.all = v /\ truth'.port = u
    BY <1>18
  <1>20. Midway(y, closes, opens) /\ Beside(y, opens, lone, daily)
         /\ (quiet => Abreast(y.seq, y.conc, left))
    BY <1>13 DEF InMidst
  <1>21. /\ y.seq \in Sims /\ y.conc \in Sims
         /\ Undecided(y.seq) => y.seq.acct.held = {}
         /\ Undecided(y.conc) => y.conc.acct.held \subseteq left
         /\ Kept(y.seq, sim["seq"]) /\ Kept(y.conc, sim["conc"])
    BY <1>20, MomentType DEF Midway
  <1>22. /\ Rode(sim["conc"], y.conc, y.all, TRUE)
         /\ lone => Rode(sim["seq"], y.seq, y.all, daily)
    BY <1>20 DEF Beside
  <1>23. left \in Holdings
    BY <1>3, PartsHeld
  <1> HIDE DEF left
  <1>24. Shapes'
    BY <1>1, <1>17, <1>18, <1>19, <1>21, <1>23 DEF Shapes
  <1>25. ChallengeTypes'
    <2>1. rules' \in RuleSets /\ now' \in 0..MaxSlots /\ dealt' \in 0..MaxTrades
      BY <1>1, <1>2, <1>18 DEF ChallengeTypes
    <2>2. ASSUME NEW n \in Names
          PROVE  /\ sim'[n] \in Sims
                 /\ Undecided(sim'[n]) => sim'[n].acct.held \subseteq open'
      BY <1>17, <1>18, <1>19, <1>21 DEF Names
    <2>3. ASSUME NEW n \in Names
          PROVE  sim'[n].verdict \in Verdicts /\ sim'[n].phase \in {1, 2}
      BY <2>2, SimType
    <2>4. \A n \in Names : /\ sim'[n].verdict \in Verdicts /\ sim'[n].phase \in {1, 2}
                           /\ Undecided(sim'[n]) => sim'[n].acct.held \subseteq open'
      BY <2>2, <2>3
    <2> QED
      BY <2>1, <2>4 DEF ChallengeTypes, Undecided
  <1>26. Books'
    <2>1. Latest' = DayOf(now)
      <3>1. now' # 0 /\ now' - 1 = now
        BY <1>1, <1>18
      <3> QED
        BY <3>1 DEF Latest, DayOf
    <2>2. ASSUME NEW t \in open' PROVE t.at < now' /\ now' - t.at <= SlotsPerDay
      <3>1. now' = now + 1
        BY <1>18
      <3>2. CASE t \in opens
        <4>1. t.at = now
          BY <1>2, <3>2 DEF OneAtMost
        <4> QED
          BY <1>1, <3>1, <4>1
      <3>3. CASE t \in open \ closes
        <4>1. t.at \in Nat /\ t.at < now /\ now - t.at < SlotsPerDay
          BY <1>1, <3>3 DEF Books, Shapes, Holdings, Trades
        <4> QED
          BY <1>1, <3>1, <4>1
      <3> QED
        BY <1>18, <2>2, <3>2, <3>3 DEF left
    <2>4. /\ truth'.all.acct.held = open' /\ truth'.all.acct.day = Latest'
          /\ truth'.port.acct.held \subseteq open' /\ truth'.port.acct.day = Latest'
      BY <1>17, <1>18, <1>19, <2>1
    <2>5. /\ Undecided(sim'["seq"]) => sim'["seq"].acct.held = {}
          /\ Undecided(sim'["conc"]) => sim'["conc"].acct.held \subseteq open'
          /\ Undecided(sim'["port"]) => sim'["port"].acct.held \subseteq open'
                                       /\ InItsPhase(sim'["port"])
      BY <1>17, <1>18, <1>19, <1>21
    <2> QED
      BY <2>2, <2>4, <2>5 DEF Books, Undecided, InItsPhase
  <1>27. Coupled'
    <2>1. ConcFollows(sim'["conc"], truth'.all, {})
      BY <1>17, <1>19
    <2>2. PortFollows(sim'["port"], truth'.port, {}, "carried" \notin seen')
      BY <1>6, <1>17, <1>18, <1>19
    <2>3. "overlap" \notin seen' => SeqFollows(sim'["seq"], truth'.all, "carried" \notin seen')
      BY <1>5, <1>6, <1>17, <1>18, <1>19
    <2> QED
      BY <1>18, <2>1, <2>2, <2>3
         DEF Coupled, ConcFollows, PortFollows, SeqFollows, Running, Undecided, Alongside,
             Shallower, AboveMax, AboveDay, Low, MaxFloor, SameDays, SameBalance
  <1>28. Agreeing'
    <2>1. seen' = {} => Abreast(sim'["seq"], sim'["conc"], open')
      BY <1>7, <1>18, <1>19, <1>20
    <2> QED
      BY <1>18, <2>1 DEF Agreeing, Abreast, GivenUp, Late, Alike, Breach, MaxFloor
  <1>29. ASSUME NEW n \in Names, n # "seq" \/ lone
         PROVE  LET g == fate'[n]
                IN  /\ ~g.maxHit
                    /\ n = "conc" \/ daily => ~g.dayHit
                    /\ sim'[n].phase = 1 /\ sim'[n].verdict = "PASS" =>
                          g.acct.worst <= sim'[n].acct.worst
    <2>1. PICK g : g = IF PassedOne(sim[n]) \/ ~PassedOne(sim'[n]) THEN fate[n]
                       ELSE IF n = "port" THEN y.own ELSE y.all
      OBVIOUS
    <2>2. g = fate'[n]
      BY <1>18, <2>1
    <2>3. PICK every \in BOOLEAN : every = (n = "conc" \/ daily)
      OBVIOUS
    <2>4. PICK w : w = IF n = "port" THEN y.own ELSE y.all
      OBVIOUS
    <2>5. PICK s : s = sim[n]
      OBVIOUS
    <2>6. PICK d : d = sim'[n]
      OBVIOUS
    <2>7. PICK f : f = fate[n]
      OBVIOUS
    <2>8. Kept(d, s) /\ Rode(s, d, w, every)
      <3>1. CASE n = "conc"
        BY <1>19, <1>21, <1>22, <2>3, <2>4, <2>5, <2>6, <3>1
      <3>2. CASE n = "port"
        BY <1>17, <1>19, <2>3, <2>4, <2>5, <2>6, <3>2
      <3>3. CASE n = "seq" /\ lone
        BY <1>19, <1>21, <1>22, <2>3, <2>4, <2>5, <2>6, <3>3
      <3> QED
        BY <1>29, <3>1, <3>2, <3>3 DEF Names
    <2>9. Outlived(s, f, every) /\ (~PassedOne(s) => f = NoTruth)
      <3>1. n # "seq" \/ "overlap" \notin seen
        BY <1>5, <1>8, <1>29
      <3>2. every => n = "conc" \/ "carried" \notin seen
        BY <1>6, <1>8, <2>3
      <3>3. Outlived(s, f, every)
        BY <1>1, <2>5, <2>7, <3>1, <3>2 DEF PassMeansAlive, Outlived
      <3> QED
        BY <1>1, <2>5, <2>7, <3>3 DEF Unpassed
    <2>10. g = IF PassedOne(s) \/ ~PassedOne(d) THEN f ELSE w
      BY <2>1, <2>4, <2>5, <2>6, <2>7
    <2>11. Outlived(d, g, every)
      BY <2>8, <2>9, <2>10, FateIs
    <2> QED
      BY <2>2, <2>3, <2>6, <2>11 DEF Outlived
  <1>30. Unpassed'
    <2>1. ASSUME NEW n \in Names, ~PassedOne(sim'[n]) PROVE fate'[n] = NoTruth
      <3>1. fate'[n] = fate[n]
        BY <1>18, <2>1
      <3>2. Kept(sim'[n], sim[n])
        BY <1>17, <1>19, <1>21 DEF Names
      <3>3. ~PassedOne(sim[n])
        BY <2>1, <3>2 DEF Kept
      <3> QED
        BY <1>1, <3>1, <3>3 DEF Unpassed
    <2> QED
      BY <2>1 DEF Unpassed, PassedOne, NoTruth, Fresh
  <1>31. PassMeansAlive'
    BY <1>5, <1>6, <1>18, <1>25, <1>29 DEF PassMeansAlive
  <1> QED
    BY <1>24, <1>25, <1>26, <1>27, <1>28, <1>30, <1>31 DEF ChallengeInv

LEMMA ChallengeInvariant ==
    ASSUME ChallengeParameters
    PROVE  ChallengeSpec => []ChallengeInv
  <1>1. ChallengeInit => ChallengeInv
    BY StartsTogether
  <1>2. ChallengeInv /\ [ChallengeNext]_challengeVars => ChallengeInv'
    <2> SUFFICES ASSUME ChallengeInv, [ChallengeNext]_challengeVars
                 PROVE  ChallengeInv'
      OBVIOUS
    <2>1. CASE ChallengeNext
      BY <2>1, SlotHolds DEF ChallengeNext
    <2>2. CASE UNCHANGED challengeVars
      <3>1. ChallengeTypes' /\ Shapes' /\ Unpassed' /\ PassMeansAlive'
        BY <2>2 DEF ChallengeInv, challengeVars, ChallengeTypes, Shapes, Unpassed,
                    PassMeansAlive, Undecided, PassedOne
      <3>2. Books'
        BY <2>2 DEF ChallengeInv, challengeVars, Books, Latest, DayOf, Undecided, InItsPhase
      <3>3. Coupled'
        BY <2>2
           DEF ChallengeInv, challengeVars, Coupled, ConcFollows, PortFollows, SeqFollows,
               Running, Undecided, Alongside, Shallower, AboveMax, AboveDay, Low, MaxFloor,
               SameDays, SameBalance
      <3>4. Agreeing'
        BY <2>2 DEF ChallengeInv, challengeVars, Agreeing, Abreast, GivenUp, Late, Alike, Breach, MaxFloor
      <3> QED
        BY <3>1, <3>2, <3>3, <3>4 DEF ChallengeInv
    <2> QED
      BY <2>1, <2>2
  <1> QED
    BY <1>1, <1>2, PTL DEF ChallengeSpec

(* simulate_phase (where trades do not overlap), simulate_phase_concurrent  *)
(* and simulate_portfolio_phase never flatter the result: over any stream  *)
(* of trades, a simulator that passes phase 1 stands for an account that   *)
(* could not have touched the floor of the maximum drawdown before, nor    *)
(* that of a day (with trades carried over the reset only the concurrent   *)
(* one says so), and that never dipped deeper than the simulator reports.  *)
THEOREM PassedAccountsLived ==
    ASSUME ChallengeParameters
    PROVE  ChallengeSpec => []PassMeansAlive
  <1>1. ChallengeInv => PassMeansAlive
    BY DEF ChallengeInv
  <1> QED
    BY <1>1, ChallengeInvariant, PTL

(* simulate_phase and simulate_phase_concurrent agree between trades, in   *)
(* phase, verdict and equity, over any stream in which no trade touches    *)
(* another or is carried over the daily reset, under any rules: unless the *)
(* rules have a calendar limit and the concurrent one has given up on it,  *)
(* which it does when a trade closes too late, the other only when one is  *)
(* entered too late.                                                       *)
THEOREM SimulatorsConcur ==
    ASSUME ChallengeParameters
    PROVE  ChallengeSpec => []SimulatorsAgree
  <1>1. ChallengeInv => SimulatorsAgree
    BY DEF ChallengeInv, Agreeing, Abreast, GivenUp, Alike, AlikeAccounts, SameBalance, SimulatorsAgree
  <1> QED
    BY <1>1, ChallengeInvariant, PTL

=============================================================================
