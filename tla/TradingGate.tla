----------------------------- MODULE TradingGate -----------------------------
(***************************************************************************)
(* What an account's risk guard promises: trading is open, halted for the  *)
(* day, or over.  Nothing but a daily reset opens a halted account, and    *)
(* nothing but starting the account over (a new challenge, a new broker    *)
(* seed) opens a blown one.  `days' and `lives' count those two events.    *)
(***************************************************************************)
EXTENDS Integers

VARIABLES gate, days, lives

vars == <<gate, days, lives>>

Init == gate = "ACTIVE" /\ days = 0 /\ lives = 0

Halt == /\ gate = "ACTIVE"
        /\ gate' = "DAILY_HALT"
        /\ UNCHANGED <<days, lives>>

Blow == /\ gate # "MAX_DD_BREACH"
        /\ gate' = "MAX_DD_BREACH"
        /\ UNCHANGED <<days, lives>>

NewDay == /\ gate' \in {gate, "ACTIVE"}
          /\ gate = "MAX_DD_BREACH" => gate' = gate
          /\ days' = days + 1
          /\ UNCHANGED lives

StartOver == /\ gate' = "ACTIVE"
             /\ days' = 0
             /\ lives' = lives + 1

Next == Halt \/ Blow \/ NewDay \/ StartOver

Spec == Init /\ [][Next]_vars
=============================================================================
