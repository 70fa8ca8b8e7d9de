------------------------------ MODULE Challenge ------------------------------
(***************************************************************************)
(* The prop-firm challenge played over a stream of backtest trades by the  *)
(* three simulators of the research, side by side: simulate_phase, which   *)
(* looks at a trade when it is closed; simulate_phase_concurrent, which    *)
(* adds up the adverse excursions of all open trades; and                  *)
(* simulate_portfolio_phase, which refuses trades beyond its caps.  Beside *)
(* them runs the account itself, any of whose open trades may be at its    *)
(* worst at any moment.                                                    *)
(*                                                                         *)
(* Time goes in slots (bars); in a slot any of the open trades close and   *)
(* then one may open.  All amounts are per cent of the first balance at    *)
(* risk_scale 1.  Trades last a day at most, as the exits flatten them.    *)
(***************************************************************************)
EXTENDS Integers, FiniteSets, FiniteSetsExt, Folds, Functions

CONSTANTS
    Kinds,          \* what trades come to: [ret, mae], ret >= -mae
    Instruments,
    RuleSets,       \* [target, mode, minDays, limit]: target by phase, in per
                    \* cent, 0 in phase 2: there is none; limit 0: none
    DailyDD, MaxDD,
    PerDay, AtOnce, MaxOpenRisk, TradeRisk,     \* the portfolio's caps
    SlotsPerDay,
    MaxSlots, MaxTrades                         \* bounds

ChallengeParameters ==
    /\ \A k \in Kinds : k.mae \in Nat /\ k.ret \in Int /\ k.ret >= -k.mae
    /\ \A r \in RuleSets : r.mode \in {"static", "trailing"} /\ r.limit \in Nat /\ r.minDays \in Nat
    /\ \A r \in RuleSets : r.limit = 0 \/ r.limit >= SlotsPerDay
    /\ DailyDD \in Nat \ {0} /\ MaxDD \in Nat \ {0} /\ SlotsPerDay \in Nat \ {0}
    /\ MaxSlots \in Nat /\ MaxTrades \in Nat

VARIABLES
    rules,      \* ChallengeRules
    now,        \* slot
    open,       \* open trades: [id, ret, mae, inst, at]
    dealt,      \* trades so far
    seen,       \* of the stream so far: "overlap", "touch", "carried"
    sim,        \* the simulators
    truth,      \* the account with all trades, and with the portfolio's
    fate        \* by simulator: what had happened when it passed phase 1

challengeVars == <<rules, now, open, dealt, seen, sim, truth, fate>>

Names == {"seq", "conc", "port"}

DayOf(slot) == slot \div SlotsPerDay

Adverse(trades) == SumFunctionOnSet([t \in trades |-> t.mae], trades)

(* The trades of one moment are handled in the order of their entries.     *)
Newest(trades) == CHOOSE t \in trades : \A u \in trades : u.id <= t.id

InTurn(Handle(_, _), s, trades) ==
    MapThenFoldSet(LAMBDA t, x : Handle(x, t), s, LAMBDA t : t, Newest, trades)

-----------------------------------------------------------------------------
(* One phase's account: start is the slot the calendar limit counts from.  *)
Fresh(from) ==
    [equity |-> 0, peak |-> 0, worst |-> 0, day |-> -1, sod |-> 0, days |-> {},
     held |-> {}, today |-> 0, start |-> -1, from |-> from]

NewSim == [phase |-> 1, verdict |-> "NONE", acct |-> Fresh(0)]

Undecided(s) == s.verdict = "NONE"

Decide(s, verdict) == [s EXCEPT !.verdict = verdict]

MaxFloor(a) == IF rules.mode = "trailing" THEN a.peak - MaxDD ELSE -MaxDD

(* A new firm-local day resets the daily baseline.                         *)
Roll(a, day) ==
    IF a.day = day THEN a ELSE [a EXCEPT !.day = day, !.sod = a.equity, !.today = 0]

(* The worst equity seen, and the floors it must stay above.               *)
Dip(a, low) == [a EXCEPT !.worst = Max({@, -low})]

Breach(a, low) ==
    CASE low <= MaxFloor(a) -> "FAIL_MAX_DD"
      [] low > MaxFloor(a) /\ low <= a.sod - DailyDD -> "FAIL_DAILY_DD"
      [] OTHER -> "NONE"

BookTrade(a, t) ==
    [a EXCEPT !.equity = @ + t.ret, !.peak = Max({@, a.equity + t.ret}), !.held = @ \ {t}]

TargetReached(s, a) == a.equity >= rules.target[s.phase] /\ Cardinality(a.days) >= rules.minDays

TooLate(a, slot) == rules.limit > 0 /\ a.start >= 0 /\ slot - a.start > rules.limit

(* _breach, and then whatever else the event does.                         *)
Checked(s, a, low) == [s EXCEPT !.acct = Dip(a, low), !.verdict = Breach(a, low)]

-----------------------------------------------------------------------------
(* The target: phase 1 is followed by phase 2 on a fresh account.          *)
Settle(s, after, fresh) ==
    IF ~TargetReached(s, after) THEN [s EXCEPT !.acct = after]
    ELSE IF s.phase = 1 /\ rules.target[2] > 0
         THEN [s EXCEPT !.phase = 2, !.acct = fresh]
         ELSE [s EXCEPT !.acct = after, !.verdict = "PASS"]

(* Planted fault: only the realized result is looked at.                   *)
SeqClose_RealizedOnly(s, t) ==
    LET b == [Roll(s.acct, DayOf(t.at)) EXCEPT !.days = @ \cup {DayOf(t.at)}]
        c == Checked(s, b, b.equity + t.ret)
    IN  IF ~Undecided(s) THEN s
        ELSE IF ~Undecided(c) THEN c
        ELSE Settle(c, BookTrade(c.acct, t), Fresh(now))

(* simulate_phase: a trade counts when it closes, on the day it was        *)
(* entered.                                                                *)
SeqClose(s, t) ==
    LET a == [s.acct EXCEPT !.start = IF @ < 0 THEN t.at ELSE @]
        b == [Roll(a, DayOf(t.at)) EXCEPT !.days = @ \cup {DayOf(t.at)}]
        c == Checked(s, b, b.equity - t.mae)
    IN  IF ~Undecided(s) THEN s
        ELSE IF TooLate(a, t.at) THEN Decide(s, "TIMEOUT")
        ELSE IF ~Undecided(c) THEN c
        ELSE Settle(c, BookTrade(c.acct, t), Fresh(now))

(* simulate_phase_concurrent: a trade counts from its opening on, with its *)
(* whole adverse excursion.                                                *)
ConcOpenAt(s, t, slot) ==
    LET a == [Roll(s.acct, DayOf(slot)) EXCEPT !.days = @ \cup {DayOf(t.at)},
                                               !.held = @ \cup {t}]
    IN  IF ~Undecided(s) THEN s
        ELSE IF TooLate(s.acct, slot) THEN Decide(s, "TIMEOUT")
        ELSE Checked(s, a, a.equity - Adverse(a.held))

ConcOpen(s, t) == ConcOpenAt(s, t, now)

ConcOpenAtEntry(s, t) == ConcOpenAt(s, t, t.at)

(* Phase 2 is played over the trades that close later, those that are      *)
(* already open included: their openings are its first events.             *)
Reopened(held) == InTurn(ConcOpenAtEntry, [NewSim EXCEPT !.phase = 2], held)

(* Planted fault: the trade is booked before the floors are looked at.     *)
ConcClose_BooksFirst(s, t) ==
    LET b == BookTrade(Roll(s.acct, DayOf(now)), t)
        c == Checked(s, b, b.equity - Adverse(b.held))
        d == Settle(c, c.acct, Fresh(now))
    IN  IF ~Undecided(s) THEN s
        ELSE IF ~Undecided(c) THEN c
        ELSE IF d.phase > s.phase THEN Reopened(c.acct.held) ELSE d

ConcClose(s, t) ==
    LET a == [s.acct EXCEPT !.start = IF @ < 0 THEN t.at ELSE @]
        b == Roll(a, DayOf(now))
        c == Checked(s, b, b.equity - Adverse(b.held))
        d == Settle(c, BookTrade(c.acct, t), Fresh(now))
    IN  IF ~Undecided(s) THEN s
        ELSE IF TooLate(a, now) THEN Decide(s, "TIMEOUT")
        ELSE IF ~Undecided(c) THEN c
        ELSE IF d.phase > s.phase THEN Reopened(c.acct.held \ {t}) ELSE d

-----------------------------------------------------------------------------
(* simulate_portfolio_phase: over the trades entered since it began.       *)
InPhase(s, t) == t.at >= s.acct.from

Rejected(a, t) ==
    \/ a.today >= PerDay
    \/ Cardinality(a.held) >= AtOnce
    \/ \E h \in a.held : h.inst = t.inst
    \/ (Cardinality(a.held) + 1) * TradeRisk > MaxOpenRisk

PortOpen(s, t) ==
    LET a == [s.acct EXCEPT !.start = IF @ < 0 THEN t.at ELSE @]
        b == [Roll(a, DayOf(now)) EXCEPT !.days = @ \cup {DayOf(now)}]
        c == IF Rejected(b, t) THEN b
             ELSE [b EXCEPT !.held = @ \cup {t}, !.today = @ + 1]
    IN  IF ~Undecided(s) \/ ~InPhase(s, t) THEN s
        ELSE IF TooLate(a, now) THEN Decide(s, "TIMEOUT")
        ELSE Checked(s, c, c.equity - Adverse(c.held))

PortClose(s, t) ==
    LET a == Roll(s.acct, DayOf(now))
        b == IF t \in a.held THEN BookTrade(a, t) ELSE a
        c == Checked(s, b, b.equity - Adverse(b.held))
    IN  IF ~Undecided(s) \/ ~InPhase(s, t) THEN s
        ELSE IF TooLate(s.acct, now) THEN Decide(s, "TIMEOUT")
        ELSE IF ~Undecided(c) THEN c
        ELSE Settle(c, c.acct, Fresh(now + 1))

-----------------------------------------------------------------------------
(* The account: what is open may be at its worst, all of it at once.       *)
NoTruth == [acct |-> Fresh(0), maxHit |-> FALSE, dayHit |-> FALSE]

Felt(w, a) ==
    LET low == a.equity - Adverse(a.held)
    IN  [acct |-> Dip(a, low), maxHit |-> w.maxHit \/ low <= MaxFloor(a),
         dayHit |-> w.dayHit \/ low <= a.sod - DailyDD]

(* The slot begins, a trade closes, and others are opened.                 *)
AtBegin(w) == Felt(w, Roll(w.acct, DayOf(now)))

AfterClose(w, t) == IF t \in w.acct.held THEN Felt(w, BookTrade(w.acct, t)) ELSE w

AfterOpens(w, opens) == Felt(w, [w.acct EXCEPT !.held = @ \cup opens])

-----------------------------------------------------------------------------
ChallengeInit ==
    /\ rules \in RuleSets
    /\ now = 0 /\ open = {} /\ dealt = 0 /\ seen = {}
    /\ sim = [n \in Names |-> NewSim]
    /\ truth = [all |-> NoTruth, port |-> NoTruth]
    /\ fate = [n \in Names |-> NoTruth]

PassedOne(s) == s.phase = 2 \/ s.verdict = "PASS"

(* A trade closes, for the simulators and for the accounts beside them.    *)
Closed(x, t) ==
    [seq |-> SeqClose(x.seq, t), conc |-> ConcClose(x.conc, t), port |-> PortClose(x.port, t),
     all |-> AfterClose(x.all, t), own |-> AfterClose(x.own, t)]

(* One slot: the closes in the order of their entries, and the new trade,  *)
(* if any.  At one time the concurrent simulator puts openings first and   *)
(* the portfolio puts them last.                                           *)
Slot(closes, opens) ==
    LET conc  == IF opens = {} THEN sim["conc"] ELSE ConcOpen(sim["conc"], Newest(opens))
        begun == [seq |-> sim["seq"], conc |-> conc, port |-> sim["port"],
                  all |-> AtBegin(truth.all), own |-> AtBegin(truth.port)]
        after == InTurn(Closed, begun, closes)
        port  == IF opens = {} THEN after.port ELSE PortOpen(after.port, Newest(opens))
    IN  /\ sim' = [seq |-> after.seq, conc |-> after.conc, port |-> port]
        /\ truth' = [all |-> AfterOpens(after.all, opens),
                     port |-> AfterOpens(after.own, opens \cap port.acct.held)]
        /\ fate' = [n \in Names |->
                       IF PassedOne(sim[n]) \/ ~PassedOne(sim'[n]) THEN fate[n]
                       ELSE IF n = "port" THEN after.own ELSE after.all]
        /\ open' = (open \ closes) \cup opens
        /\ seen' = seen
              \cup (IF opens # {} /\ open # closes THEN {"overlap"} ELSE {})
              \cup (IF opens # {} /\ closes # {} THEN {"touch"} ELSE {})
              \cup (IF \E t \in open : DayOf(t.at) < DayOf(now) THEN {"carried"} ELSE {})
        /\ dealt' = dealt + Cardinality(opens)
        /\ now' = now + 1
        /\ UNCHANGED rules

NewTrades ==
    IF dealt = MaxTrades THEN {}
    ELSE {[id |-> dealt + 1, ret |-> k.ret, mae |-> k.mae, inst |-> i, at |-> now] :
            k \in Kinds, i \in Instruments}

(* No trade outlives SlotsPerDay slots.                                    *)
ChallengeNext ==
    /\ now < MaxSlots
    /\ \E closes \in SUBSET open, opens \in {{}} \cup {{t} : t \in NewTrades} :
          /\ \A t \in open \ closes : now - t.at < SlotsPerDay
          /\ Slot(closes, opens)

ChallengeSpec == ChallengeInit /\ [][ChallengeNext]_challengeVars

-----------------------------------------------------------------------------
Verdicts == {"NONE", "PASS", "FAIL_MAX_DD", "FAIL_DAILY_DD", "TIMEOUT"}

ChallengeTypes ==
    /\ rules \in RuleSets /\ now \in 0..MaxSlots /\ dealt \in 0..MaxTrades
    /\ \A n \in Names : /\ sim[n].verdict \in Verdicts /\ sim[n].phase \in {1, 2}
                       /\ Undecided(sim[n]) => sim[n].acct.held \subseteq open

(* "This never flatters the result": when a simulator passes phase 1, the  *)
(* account can not have touched the floor of the maximum drawdown on the   *)
(* way, nor that of a day, nor dipped deeper than the simulator reports.   *)
(* The sequential simulator is only asked about trades that do not overlap *)
(* (monte_carlo), and only the concurrent one knows about the days of      *)
(* trades that are carried over the reset.  The types are part of it.      *)
PassMeansAlive ==
    /\ ChallengeTypes
    /\ \A n \in Names : n # "seq" \/ "overlap" \notin seen =>
          /\ ~fate[n].maxHit
          /\ n = "conc" \/ "carried" \notin seen => ~fate[n].dayHit
          /\ sim[n].phase = 1 /\ sim[n].verdict = "PASS" =>
                fate[n].acct.worst <= sim[n].acct.worst

(* "the equity/target progression matches the sequential sim on            *)
(* non-overlapping input": between trades both stand alike, phase 2        *)
(* included, if no trade touches another or the reset.  Only with a        *)
(* calendar limit may they differ, and then only since the concurrent one  *)
(* has given up: it looks at the time of a close as well, where the        *)
(* sequential one looks at entries alone, so it is never the later.        *)
SimulatorsAgree ==
    open = {} /\ seen = {} =>
        \/ rules.limit > 0 /\ sim["conc"].verdict = "TIMEOUT"
        \/ /\ sim["seq"].phase = sim["conc"].phase
           /\ sim["seq"].verdict = sim["conc"].verdict
           /\ Undecided(sim["seq"]) => sim["seq"].acct.equity = sim["conc"].acct.equity

=============================================================================
