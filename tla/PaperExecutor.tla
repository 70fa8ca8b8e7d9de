---------------------------- MODULE PaperExecutor ----------------------------
(***************************************************************************)
(* One paper account at work.  Each public method of PaperExecutor is one  *)
(* action; the callers (the feed's ticks and candles, the strategies, the  *)
(* monitor's day reset and flatten windows, the chat commands) may come in *)
(* any order.  A call runs to completion before the next one starts: the   *)
(* races between the threads that make these calls are CfdRunner's.        *)
(***************************************************************************)
EXTENDS PaperOps

CONSTANTS
    Signals,        \* signals the strategies may emit
    Prices,         \* bids the feed may deliver
    MaxSignals,     \* bound on the signals delivered
    MaxDays         \* bound on the clock, in days

ASSUME SignalsAssumption ==
    /\ \A s \in Signals : ValidSignal(s)
    /\ Prices \subseteq Nat \ {0}
    /\ MaxSignals \in Nat /\ MaxDays \in Nat

VARIABLES
    exec,           \* the executor
    clock,          \* wall clock, in instants
    signals,        \* signals delivered so far
    ticked          \* history: the instruments whose tick was the last call

vars == <<exec, clock, signals, ticked>>

Init ==
    /\ exec = NewExecutor
    /\ clock = DayLength
    /\ signals = 0
    /\ ticked = {}

Signal(s) ==
    /\ signals < MaxSignals
    /\ exec' = OnSignal(exec, s)
    /\ signals' = signals + 1
    /\ ticked' = {}
    /\ UNCHANGED clock

Tick(inst, price) ==
    /\ exec' = OnTick(exec, inst, price)
    /\ ticked' = {inst}
    /\ UNCHANGED <<clock, signals>>

CandleClose(inst) ==
    /\ ticked' = {}
    /\ UNCHANGED <<clock, signals>>
    /\ exec' = OnCandleClose(exec, inst)

DayReset ==
    /\ exec' = OnDayReset(exec, clock)
    /\ ticked' = {}
    /\ UNCHANGED <<clock, signals>>

Flatten ==
    /\ exec' = FlattenAll(exec, "EOD_FLATTEN")
    /\ ticked' = {}
    /\ UNCHANGED <<clock, signals>>

FlattenOne(inst) ==
    /\ exec' = FlattenInstrument(exec, inst, "MANUAL")
    /\ ticked' = {}
    /\ UNCHANGED <<clock, signals>>

ClockTick ==
    /\ clock < (MaxDays + 1) * DayLength
    /\ clock' = clock + 1
    /\ UNCHANGED <<exec, signals, ticked>>

Next ==
    \/ \E s \in Signals : Signal(s)
    \/ \E inst \in Instruments, price \in Prices : Tick(inst, price)
    \/ \E inst \in Instruments : CandleClose(inst) \/ FlattenOne(inst)
    \/ DayReset \/ Flatten
    \/ ClockTick

Spec == Init /\ [][Next]_vars

(* The feed keeps delivering candles of an instrument that has arms: weak  *)
(* fairness of its CandleClose while it ages an arm, with the condition    *)
(* under which that step is enabled spelled out.                           *)
HasArms(inst) == \E i \in DOMAIN exec.arms : exec.arms[i].sig.key.inst = inst

FairSpec ==
    /\ Spec
    /\ \A inst \in Instruments :
          []<>(~HasArms(inst)) \/ []<><<CandleClose(inst)>>_vars

-----------------------------------------------------------------------------
Arms == {exec.arms[i] : i \in DOMAIN exec.arms}
Positions == {exec.positions[i] : i \in DOMAIN exec.positions}

TypeOK ==
    /\ exec.guard \in Guard
    /\ \A a \in Arms : a.sig \in Signals /\ a.left \in 1..a.sig.expiry
    /\ \A p \in Positions :
          /\ p.plan \in Signals
          /\ p.left \in 1..Whole
          /\ p.lots \in 1..MaxLot
          /\ p.taken \subseteq DOMAIN p.plan.tps
          /\ p.bars \in Nat
    /\ exec.open \subseteq Keys
    /\ exec.price \in [Instruments -> Prices \cup {0}]
    /\ clock \in Nat /\ signals \in 0..MaxSignals

(* At most one open position per (strategy, variant, instrument,           *)
(* direction), and the dedup set the signals are checked against is        *)
(* exactly the keys of the open positions; a key is armed at most once and *)
(* never armed while open.  The types are part of it.                      *)
OnePositionPerKey ==
    /\ TypeOK
    /\ exec.open = {p.plan.key : p \in Positions}
    /\ Len(exec.positions) = Cardinality(exec.open)
    /\ Len(exec.arms) = Cardinality({a.sig.key : a \in Arms})
    /\ \A a \in Arms : a.sig.key \notin exec.open

(* Nothing of a position vanishes: an open one is the whole less the       *)
(* targets taken, and the exits the executor decides by itself (stop,      *)
(* targets, time stop) account for all of it.                              *)
NothingVanishes ==
    /\ \A p \in Positions :
          p.left = Whole - SumFunctionOnSet(Fractions(p.plan), p.taken)
    /\ \A i \in DOMAIN exec.closes :
          exec.closes[i].reason \in {"STOP_LOSS", "TAKE_PROFIT", "TIME_STOP"} =>
              exec.closes[i].unbooked = 0

(* No position is opened while the account is halted or blown, whichever   *)
(* way the entry comes (signal, or an arm that was set before the halt).   *)
NoEntryWhileHalted ==
    [][exec'.opened > exec.opened => exec.guard.status = "ACTIVE"]_vars

(* A position that is open at a price was not due to close at it: after a  *)
(* tick no open position of that instrument is at or beyond its managed    *)
(* stop, nor at or beyond a target it has not taken.                       *)
NothingOverdueAfterTick ==
    \A p \in Positions : p.plan.key.inst \in ticked =>
        LET price == exec.price[p.plan.key.inst]
        IN  /\ Gain(p.plan.dir, p.stop, price) > 0
            /\ \A i \in DOMAIN p.plan.tps \ p.taken :
                  Gain(p.plan.dir, price, p.plan.tps[i].price) > 0

(* Once the strategies stop signalling, every arm is filled or expires.    *)
ArmsEventuallyGone == <>[](exec.arms = <<>>)

-----------------------------------------------------------------------------
(* What the project's own comments say of the code, and the code does not  *)
(* keep.                                                                   *)

(* paper_executor.py:349 "Any remainder that never hit a TP was closed by  *)
(* this final event already": every close books the whole position.        *)
EveryCloseBooksEverything ==
    \A i \in DOMAIN exec.closes : exec.closes[i].unbooked = 0

=============================================================================
