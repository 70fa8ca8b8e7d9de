------------------------------ MODULE NseTraders ------------------------------
(***************************************************************************)
(* The paper traders of the NSE bot (app/paper_trader): one isolated       *)
(* PaperTradingEngine per strategy, two more that trade when strategies    *)
(* agree, and the ConfluenceTracker that finds the agreement, for one      *)
(* instrument and one day.  The feed thread delivers signals and ticks;    *)
(* every trader has a timer thread that closes its positions at the end of *)
(* the day.                                                                *)
(*                                                                         *)
(* Prices are multiples of Scale, so that the average of up to four of     *)
(* them is an integer.  Quantities, brokerage and the excursions kept for  *)
(* reports are left out.                                                   *)
(***************************************************************************)
EXTENDS Integers, Sequences, SequencesExt, FiniteSetsExt, Lists

CONSTANTS
    Strategies,     \* their names, in the order they are registered
    MaySignal,      \* bound: pairs of a strategy and a side it signals
    Prices,         \* last traded prices
    Distances,      \* from a signal's price to its stop
    RewardRatio,    \* a strategy's rr_ratio
    Slippages,      \* what an order may lose against its signal's price
    Window,         \* CONFLUENCE_WINDOW_SECONDS
    LastEntry,      \* LAST_ENTRY
    SquareOff,      \* SQUARE_OFF
    Close,          \* MARKET_CLOSE
    MaxSignals      \* bound on the signals of the day

Scale == 12

(* Traders that trade on agreement, and how many must agree.               *)
Needed == [confluence_2 |-> 2, confluence_3 |-> 3]

TradersParameters ==
    /\ IsInjective(Strategies) /\ ToSet(Strategies) \cap DOMAIN Needed = {}
    /\ \A p \in Prices : p \in Nat \ {0} /\ p % Scale = 0
    /\ Distances \subseteq Nat \ {0} /\ Slippages \subseteq Nat
    /\ RewardRatio \in Nat \ {0} /\ Window \in Nat /\ LastEntry \in Nat
    /\ SquareOff \in Nat /\ Close \in Nat /\ LastEntry < SquareOff /\ SquareOff <= Close
    /\ MaxSignals \in 0..4

VARIABLES
    now,        \* clock, from MARKET_OPEN on
    price,      \* _latest_prices of the instrument; 0 before the first tick
    turn,       \* the next strategy that may signal on the present candle
    buffer,     \* signals waiting for agreement, by direction
    fired,      \* when a trader's agreement was last found, by direction
    positions,  \* every trader's positions, closed ones included
    squaring,   \* a timer's pass: whose, and what it has still to close
    running,    \* started and not stopped
    log         \* every signal given (for the properties)

vars == <<now, price, turn, buffer, fired, positions, squaring, running, log>>

Sides == {"BUY", "SELL"}
Sign(side) == IF side = "BUY" THEN 1 ELSE -1

Traders == ToSet(Strategies) \cup DOMAIN Needed

Never == -Window - 1

NoPass == [trader |-> "none", left |-> {}]

OpenOf(ps) == {i \in DOMAIN ps : ps[i].status = "OPEN"}

-----------------------------------------------------------------------------
(* _can_open_position as setup() configures it: no limit, several positions*)
(* at once, but not twice the same side of one strategy.                   *)
CanOpen(ps, name, side) == ~ \E i \in OpenOf(ps) : ps[i].name = name /\ ps[i].side = side

(* _open_position, at a price worse than the signal's by the slippage.     *)
Opened(sig, slip) ==
    [name |-> sig.name, side |-> sig.side, entry |-> sig.price + Sign(sig.side) * slip,
     stop |-> sig.stop, target |-> sig.target, at |-> now, status |-> "OPEN",
     exit |-> 0, reason |-> "none"]

(* PaperTradingEngine.on_signal.                                           *)
OnSignal(ps, sig, slip) ==
    IF now <= LastEntry /\ CanOpen(ps, sig.name, sig.side)
    THEN Append(ps, Opened(sig, slip))
    ELSE ps

(* _close_position: whatever the position's status is by now.              *)
ClosePosition(pos, exit, reason) ==
    [pos EXCEPT !.status = "CLOSED", !.exit = exit, !.reason = reason]

(* _check_sl_tp: the stop first, each filled at its own price.             *)
CheckExits(pos, p) ==
    IF Sign(pos.side) * (p - pos.stop) <= 0 THEN ClosePosition(pos, pos.stop, "stop")
    ELSE IF Sign(pos.side) * (p - pos.target) >= 0 THEN ClosePosition(pos, pos.target, "target")
    ELSE pos

OnTick(ps, p) ==
    [i \in DOMAIN ps |-> IF i \in OpenOf(ps) THEN CheckExits(ps[i], p) ELSE ps[i]]

-----------------------------------------------------------------------------
(* _clean_expired.                                                         *)
Active(votes) == Among(votes, {v \in ToSet(votes) : now - v.at <= Window})

(* Planted fault: a strategy that signals again counts again.              *)
Voters_Each(votes) == {<<i, votes[i].name>> : i \in DOMAIN votes}

Voters(votes) == {votes[i].name : i \in DOMAIN votes}

Average(values) == FoldSeq(+, 0, values) \div Len(values)

(* _build_confluence: average price and target, the tightest stop.  The    *)
(* name the trade gets lists the first three strategies that agree, all of *)
(* them where there are no more.                                           *)
Agreement(votes, side) ==
    LET of(field) == [i \in DOMAIN votes |-> votes[i][field]]
        stops     == ToSet(of("stop"))
    IN  [name |-> Voters(votes), side |-> side,
         price |-> Average(of("price")), target |-> Average(of("target")),
         stop |-> IF side = "BUY" THEN Max(stops) ELSE Min(stops)]

(* Planted fault: an agreement is announced with every signal.             *)
Fires_Again(c, votes, side) == Cardinality(Voters(votes)) >= Needed[c]

(* Enough strategies agree, and not already fired in this window.          *)
Fires(c, votes, side) ==
    /\ Cardinality(Voters(votes)) >= Needed[c]
    /\ now - fired[c][side] > Window

-----------------------------------------------------------------------------
Init ==
    /\ now = 0 /\ price = 0 /\ turn = 1
    /\ buffer = [side \in Sides |-> <<>>]
    /\ fired = [c \in DOMAIN Needed |-> [side \in Sides |-> Never]]
    /\ positions = [t \in Traders |-> <<>>]
    /\ squaring = NoPass
    /\ running = TRUE
    /\ log = {}

(* A strategy's signal on the candle that just closed, at its close: to    *)
(* the strategy's own trader, then to the tracker, and from there to the   *)
(* traders of the agreement (_on_signal, _on_confluence_2, _3).            *)
Signal(n, side, distance, slip) ==
    LET name  == Strategies[n]
        sig   == [name |-> name, side |-> side, price |-> price,
                  stop |-> price - Sign(side) * distance,
                  target |-> price + RewardRatio * Sign(side) * distance, at |-> now]
        votes == Active(Append(buffer[side], sig))
        firing == {c \in DOMAIN Needed : Fires(c, votes, side)}
    IN  /\ running /\ now <= Close /\ price # 0 /\ n >= turn
        /\ <<name, side>> \in MaySignal
        /\ Cardinality(log) < MaxSignals
        /\ turn' = n + 1
        /\ buffer' = [buffer EXCEPT ![side] = votes]
        /\ fired' = [c \in DOMAIN Needed |->
                        IF c \in firing THEN [fired[c] EXCEPT ![side] = now] ELSE fired[c]]
        /\ positions' = [t \in Traders |->
                            IF t = name THEN OnSignal(positions[t], sig, slip)
                            ELSE IF t \in firing
                                 THEN OnSignal(positions[t], Agreement(votes, side), slip)
                                 ELSE positions[t]]
        /\ log' = log \cup {[name |-> name, side |-> side, at |-> now, nr |-> Cardinality(log)]}
        /\ UNCHANGED <<now, price, squaring, running>>

(* A tick reaches every trader; the next candle's signals come after it.   *)
Tick(p) ==
    /\ running
    /\ price' = p
    /\ turn' = 1
    /\ positions' = [t \in Traders |-> OnTick(positions[t], p)]
    /\ UNCHANGED <<now, buffer, fired, squaring, running, log>>

(* The clock; after the stop it is of no interest.                         *)
ClockTick ==
    /\ running /\ now < Close
    /\ now' = now + 1
    /\ UNCHANGED <<price, turn, buffer, fired, positions, squaring, running, log>>

Pass(t) == [trader |-> t, left |-> OpenOf(positions[t])]

(* Planted fault: the timer waits until the market has closed.             *)
ShouldSquareOff_Closed == now > Close

ShouldSquareOff == now >= SquareOff

(* _check_square_off: from SQUARE_OFF on, a pass over what is open now.    *)
(* The timer is armed again after every pass.  Passes of different traders *)
(* have nothing in common but the price, so one is under way at a time.    *)
TimerFires(t) ==
    /\ running /\ squaring.left = {} /\ ShouldSquareOff
    /\ OpenOf(positions[t]) # {}
    /\ squaring' = Pass(t)
    /\ UNCHANGED <<now, price, turn, buffer, fired, positions, running, log>>

(* One position of the pass, at the last price (an entry was made at one,  *)
(* so there is one), while the feed goes on; a tick may have closed it in  *)
(* between.                                                                *)
CloseNext ==
    LET i == Min(squaring.left)
    IN  /\ squaring.left # {}
        /\ positions' = [positions EXCEPT ![squaring.trader][i] =
                            ClosePosition(@, price, "square_off")]
        /\ squaring' = IF squaring.left = {i} THEN NoPass ELSE [squaring EXCEPT !.left = @ \ {i}]
        /\ UNCHANGED <<now, price, turn, buffer, fired, running, log>>

(* stop(): no more signals, ticks or timers; positions stay as they are.   *)
Stop ==
    /\ running
    /\ running' = FALSE
    /\ UNCHANGED <<now, price, turn, buffer, fired, positions, squaring, log>>

Next ==
    \/ \E n \in DOMAIN Strategies, side \in Sides, d \in Distances, slip \in Slippages :
            Signal(n, side, d, slip)
    \/ \E p \in Prices : Tick(p)
    \/ ClockTick
    \/ \E t \in Traders : TimerFires(t)
    \/ CloseNext
    \/ Stop

Spec == Init /\ [][Next]_vars

(* Time passes, and the timer threads run: some timer of a trader with open*)
(* positions fires, and its pass goes on.                                  *)
Fairness ==
    /\ WF_vars(ClockTick) /\ WF_vars(CloseNext)
    /\ WF_vars(\E t \in Traders : TimerFires(t))

FairSpec == Spec /\ Fairness

-----------------------------------------------------------------------------
TypeOK ==
    /\ now \in 0..Close /\ price \in Prices \cup {0}
    /\ \A side \in Sides : \A i \in DOMAIN buffer[side] : buffer[side][i].side = side
    /\ \A t \in Traders :
        \A i \in DOMAIN positions[t] :
            /\ positions[t][i].side \in Sides
            /\ (positions[t][i].status = "OPEN") <=> (positions[t][i].reason = "none")
    /\ squaring # NoPass => squaring.left \subseteq DOMAIN positions[squaring.trader]

(* A trader of the agreement trades only with the support of as many       *)
(* different strategies as its name says, each of which signalled that     *)
(* direction within the window before ("when 2+ strategies agree").        *)
ConfluenceEarned ==
    \A c \in DOMAIN Needed : \A i \in DOMAIN positions[c] :
        LET pos == positions[c][i]
            supporters == {v.name : v \in {e \in log : e.side = pos.side /\ e.at <= pos.at
                                                      /\ pos.at - e.at <= Window}}
        IN  Cardinality(supporters) >= Needed[c]

(* Nothing is traded twice: two positions of one side that a trader of an  *)
(* agreement opened are more than a window apart, and an isolated trader   *)
(* has at most one of each side open, whatever signals, exits and passes   *)
(* came before.  The types are part of it.                                 *)
TradedOnce ==
    /\ TypeOK
    /\ \A c \in DOMAIN Needed : \A i, j \in DOMAIN positions[c] :
          i < j /\ positions[c][i].side = positions[c][j].side =>
              positions[c][j].at - positions[c][i].at > Window
    /\ \A t \in ToSet(Strategies) : \A i, j \in OpenOf(positions[t]) :
          i # j => positions[t][i].side # positions[t][j].side

Flat == \A t \in Traders : OpenOf(positions[t]) = {}

(* "Auto-close all open positions at 3:20 PM": once the hour has come every*)
(* trader is flat and stays so, unless the bot is stopped first.           *)
FlatAfterSquareOff == (now >= SquareOff) ~> [](Flat \/ ~running)

=============================================================================
