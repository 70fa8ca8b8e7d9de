-------------------------------- MODULE MainPaper --------------------------------
(***************************************************************************)
(* main_paper.py: two variants of one mean reversion strategy on the same  *)
(* candles, which differ in how they leave a trade, and the process around *)
(* them.  Instruments share nothing but the ticks on which all exits are   *)
(* looked at, so a behaviour follows one instrument, chosen at the start;  *)
(* the others are there as ticks.                                          *)
(*                                                                         *)
(* Time is counted in candles of fifteen minutes from 9:15.  A tick is     *)
(* handled by the orchestrator first and by the candle builder after that, *)
(* so a candle that this tick completes is evaluated after the exits.      *)
(* Indicators are inputs.  The feed ends the process after the market has  *)
(* closed (os._exit), so no process sees two days.                         *)
(***************************************************************************)
EXTENDS Integers, FiniteSets, FiniteSetsExt, TLC

CONSTANTS
    Tokens,         \* instruments a behaviour may follow
    Hour,           \* sixty minutes
    MorningEnd,     \* 11:30
    MiddayEnd,      \* 13:30
    AutoSquareOff,      \* 15:20
    DayEnd,          \* 15:30
    MinAtrs,        \* values that the volatility needs
    MinHistory,     \* candles that a signal needs
    Rsis,           \* ranges of the RSI that candles bring
    Volatile,       \* volatilities that candles bring
    Structured,     \* structures that candles bring
    MaxStarts,      \* bound on processes
    MaxRaised       \* bound on the trades that a process counts again

PaperParameters ==
    /\ Tokens \subseteq {"BANKNIFTY", "NIFTY", "TCS", "RELIANCE", "BHARTI", "INFY"}
    /\ Rsis \subseteq {"low", "mid", "high"}
    /\ Volatile \subseteq {"HIGH", "NORMAL", "LOW"}
    /\ Structured \subseteq {"TRENDING", "TRANSITIONING", "RANGING"}
    /\ Hour \in Nat \ {0} /\ MinAtrs \in Nat /\ MinHistory \in Nat
    /\ MaxStarts \in Nat /\ MaxRaised \in Nat
    /\ MorningEnd \in Nat /\ MiddayEnd \in Nat /\ AutoSquareOff \in Nat /\ DayEnd \in Nat
    /\ 0 < MorningEnd /\ MorningEnd < MiddayEnd
    /\ MiddayEnd <= AutoSquareOff /\ AutoSquareOff <= DayEnd
    /\ MorningEnd <= 4 * Hour

Volatilities == {"HIGH", "NORMAL", "LOW"}
Structures == {"TRENDING", "TRANSITIONING", "RANGING"}

(* ALLOWED_REGIMES: in the morning all but ranging markets, at midday few. *)
MiddayRegimes ==
    [BANKNIFTY |-> {<<"HIGH", "TRENDING">>, <<"NORMAL", "TRENDING">>,
                    <<"NORMAL", "TRANSITIONING">>, <<"LOW", "TRENDING">>},
     NIFTY     |-> {<<"NORMAL", "TRANSITIONING">>, <<"LOW", "TRENDING">>},
     TCS       |-> {<<"HIGH", "TRENDING">>},
     RELIANCE  |-> {},
     BHARTI    |-> {},
     INFY      |-> {<<"NORMAL", "TRENDING">>}]

AllowedRegimes(token, session) ==
    CASE session = "MORNING" -> Volatilities \X {"TRENDING", "TRANSITIONING"}
      [] session = "MIDDAY"  -> MiddayRegimes[token]

(* BEST_EXIT_PER_INSTRUMENT.                                               *)
BestExit ==
    [BANKNIFTY |-> "time_1h", NIFTY |-> "rr3", TCS |-> "time_2h",
     RELIANCE |-> "ema13_cross", BHARTI |-> "session_morning", INFY |-> "time_1h"]

VARIABLES
    token,      \* the instrument followed
    time,
    up,         \* the process runs, ticks are subscribed
    starts,     \* processes so far
    store,      \* where the process keeps its trades, "none" while it is down
    stored,     \* what the database and the file hold, per variant
    squaredOff, \* _squared_off_today
    building,   \* time of the candle in progress, or None
    missing,    \* candles the history lacks
    rsi,        \* _prev_rsi
    regime,     \* the RegimeDetector's cache
    open,       \* open_positions, of each variant at most one
    books,      \* closed_trades of this process and the cumulative result
    opened,     \* trades of this process (for the properties)
    recounted,  \* trades counted but not closed, as the store raised (for the properties)
    failed,     \* what failed in this process: "load", "save" (for the properties)
    looked,     \* a tick has looked at every exit since time passed (for the properties)
    view        \* per variant: the previous RSI it saw on this tick (for the properties)

market   == <<token, time>>
process  == <<up, starts, store>>
observed == <<opened, recounted, failed, looked, view>>
paperVars ==
    <<market, process, stored, squaredOff, building, missing, rsi, regime, open, books, observed>>

None == -1
Number == {1, 2}
Unseen == [v \in Number |-> "unseen"]
Nothing == [v \in Number |-> 0]
Stores == {"postgres", "json"}

(* get_session.                                                            *)
Session ==
    IF time < MorningEnd THEN "MORNING" ELSE IF time < MiddayEnd THEN "MIDDAY" ELSE "CLOSING"

(* Planted fault: only the start of the midday session is looked at.       *)
CheckRegime_Open(r) ==
    LET session == IF time < MorningEnd THEN "MORNING" ELSE "MIDDAY"
    IN  <<r.volatility, r.structure>> \in AllowedRegimes(token, session)

(* check_regime.                                                           *)
CheckRegime(r) ==
    /\ Session # "CLOSING"
    /\ <<r.volatility, r.structure>> \in AllowedRegimes(token, Session)

-----------------------------------------------------------------------------
(* The defaults of the empty cache.                                        *)
NoRegime == [volatility |-> "NORMAL", structure |-> "TRANSITIONING", atrs |-> 0]

(* update_indicators; below MinAtrs values the volatility is normal.       *)
UpdateIndicators(r, c, v) ==
    LET n == Min({r.atrs + 1, MinAtrs})
    IN  [volatility |-> IF n < MinAtrs THEN "NORMAL" ELSE c.volatility[v],
         structure |-> c.structure, atrs |-> n]

NoRsi == [previous |-> "none", current |-> "none"]

(* Planted fault: every variant moves the values on.                       *)
Rotate_Always(memory, rotated, c) == [previous |-> memory.current, current |-> c.rsi]

(* The first variant that evaluates a candle makes its RSI the current one.*)
(* The code compares time stamps, which differ from candle to candle.      *)
Rotate(memory, rotated, c) ==
    IF rotated THEN memory ELSE [previous |-> memory.current, current |-> c.rsi]

(* evaluate_mr: the RSI leaves an extreme while the price is far from its  *)
(* average on the same side.                                               *)
EvaluateMr(previous, c) ==
    IF c.far = "below" /\ previous = "low" /\ c.rsi # "low" THEN "LONG"
    ELSE IF c.far = "above" /\ previous = "high" /\ c.rsi # "high" THEN "SHORT"
    ELSE "none"

(* What a candle may say.  A variant's update adds a value to the average  *)
(* the volatility is measured against, so the two may see different ones.  *)
Candles ==
    [rsi : Rsis, far : {"below", "above", "near"},
     volatility : [Number -> Volatile], structure : Structured]

-----------------------------------------------------------------------------
(* open_trade: how long the exit type lets a trade go on; "session_morning"*)
(* is an hour once the morning is over.                                    *)
ExitType(v) == IF v = 1 THEN "time_1h" ELSE BestExit[token]

Lasts(exit) ==
    CASE exit = "time_1h" -> Hour
      [] exit \in {"time_2h", "rr3"} -> 2 * Hour
      [] exit = "ema13_cross" -> 4 * Hour
      [] exit = "session_morning" -> IF time < MorningEnd THEN MorningEnd - time ELSE Hour

(* Which way it goes is left out: nothing below tells the two apart.       *)
NewPosition(v) == [exit |-> ExitType(v), left |-> Lasts(ExitType(v)), held |-> FALSE]

(* Planted fault: a trade that waits for its cross has no time limit.      *)
Leaves_Cross(pos, reached) ==
    \/ pos.exit = "rr3" /\ reached
    \/ pos.exit = "ema13_cross" /\ pos.held /\ reached
    \/ pos.exit # "ema13_cross" /\ pos.left = 0

(* check_exits: target, cross after fifteen minutes, time; "reached" says  *)
(* whether the last price is beyond the target or the average that the     *)
(* second variant waits for.  No variant has a stop.                       *)
Leaves(pos, reached) ==
    \/ pos.exit = "rr3" /\ reached
    \/ pos.exit = "ema13_cross" /\ pos.held /\ reached
    \/ pos.left = 0

(* _check_exits, then the square-off with whatever is still open: the      *)
(* variants whose trade a tick closes.                                     *)
Leavers(reached) ==
    {v \in Number : \E pos \in open[v] :
        Leaves(pos, reached) \/ (time >= AutoSquareOff /\ ~squaredOff)}

(* The square-off comes after all exits.                                   *)
Turn(reached, v) == IF \E pos \in open[v] : Leaves(pos, reached) THEN v ELSE v + 2

(* How this may go.  A trade that cannot be saved is logged and closed;    *)
(* but a database out of reach raises (getconn, rollback): the trade whose *)
(* turn it is has been counted and stays open, and what comes after it on  *)
(* this tick is skipped, the mark of the square-off too.  A file that      *)
(* cannot be read is overwritten, and one that breaks off cannot be read.  *)
Passes ==
    {p \in [reached : BOOLEAN, done : SUBSET Number, raised : Number \cup {None},
            saved : SUBSET Number, lost : BOOLEAN] :
        /\ IF p.raised = None THEN p.done = Leavers(p.reached)
           ELSE /\ store = "postgres" /\ p.raised \in Leavers(p.reached)
                /\ p.done = {v \in Leavers(p.reached) :
                                Turn(p.reached, v) < Turn(p.reached, p.raised)}
                /\ recounted[1] + recounted[2] < MaxRaised
        /\ p.reached => \E v \in Number : open[v] # {}
        /\ p.saved \subseteq p.done \cup {p.raised}
        /\ p.lost => store = "json" /\ p.done # {} /\ stored[store] # Nothing}

Counted(p) == (p.done \cup {p.raised}) \ {None}

(* close_trade: counted first, then saved, then removed.                   *)
CloseTrades(b, counted) ==
    [v \in Number |-> IF v \in counted
                      THEN [closed |-> b[v].closed + 1, cumulative |-> b[v].cumulative + 1]
                      ELSE b[v]]

SaveTrades(kept, p) ==
    [v \in Number |-> (IF p.lost THEN 0 ELSE kept[v]) + (IF v \in p.saved THEN 1 ELSE 0)]

Remaining(p) == [v \in Number |-> IF v \in p.done THEN {} ELSE open[v]]

-----------------------------------------------------------------------------
(* A process that has closed nothing.                                      *)
BooksOf(known) == [v \in Number |-> [closed |-> 0, cumulative |-> known[v]]]

PaperInit ==
    /\ token \in Tokens /\ time = 0
    /\ up = FALSE /\ starts = 0 /\ store = "none"
    /\ stored = [s \in Stores |-> Nothing]
    /\ squaredOff = FALSE /\ building = None /\ missing = MinHistory
    /\ rsi = NoRsi /\ regime = NoRegime
    /\ open = [v \in Number |-> {}]
    /\ books = BooksOf(Nothing)
    /\ opened = Nothing /\ recounted = Nothing /\ failed = {}
    /\ looked = FALSE /\ view = Unseen

(* main: the warm-up fetches the history or fails; the store is the file   *)
(* when there is no database or none answers.  The results of earlier      *)
(* processes are loaded, and a failed load reads like an empty store.      *)
Start ==
    /\ ~up /\ starts < MaxStarts /\ time < DayEnd
    /\ up' = TRUE /\ starts' = starts + 1
    /\ missing' \in {0, MinHistory}
    /\ \E s \in Stores : \E known \in {stored[s], Nothing} :
          /\ store' = s /\ books' = BooksOf(known)
          /\ failed' = IF known = stored[s] THEN {} ELSE {"load"}
    /\ UNCHANGED <<market, stored, squaredOff, building, rsi, regime, open>>
    /\ UNCHANGED <<opened, recounted, looked>> /\ view' = Unseen

(* A crash, a signal's shutdown, or the feed's exit after the close: what  *)
(* is in memory is gone, open positions included.                          *)
Exit ==
    /\ up
    /\ up' = FALSE /\ store' = "none"
    /\ squaredOff' = FALSE /\ building' = None /\ rsi' = NoRsi /\ regime' = NoRegime
    /\ open' = [v \in Number |-> {}] /\ books' = BooksOf(Nothing)
    /\ opened' = Nothing /\ recounted' = Nothing /\ failed' = {}
    /\ looked' = FALSE /\ view' = Unseen
    /\ UNCHANGED <<market, starts, stored, missing>>

Older(pos) == [pos EXCEPT !.left = Max({@ - 1, 0}), !.held = TRUE]

(* A quarter of an hour passes.                                            *)
Advance ==
    /\ time < DayEnd
    /\ time' = time + 1
    /\ open' = [v \in Number |-> {Older(pos) : pos \in open[v]}]
    /\ UNCHANGED <<token, process, stored, squaredOff, building, missing, rsi, regime, books>>
    /\ UNCHANGED <<opened, recounted, failed>>
    /\ looked' = FALSE /\ view' = Unseen

-----------------------------------------------------------------------------
(* _on_candle for one variant; "s" is what the variants before it left.    *)
(* The history holds the candle already.                                   *)
Evaluate(s, v, c) ==
    LET memory == Rotate(s.rsi, s.rotated, c)
        t == [s EXCEPT !.rsi = memory, !.rotated = TRUE, !.view[v] = memory.previous]
        u == [t EXCEPT !.regime = UpdateIndicators(@, c, v)]
        signal == EvaluateMr(memory.previous, c)
    IN  IF ~CheckRegime(s.regime) \/ s.open[v] # {} \/ missing > 1 THEN s
        ELSE IF memory.previous = "none" THEN t
        ELSE IF signal = "none" THEN u
        ELSE [u EXCEPT !.open[v] = {NewPosition(v)}, !.opened[v] = @ + 1]

(* _on_candle: the variants in order.                                      *)
OnCandle(s, c) == Evaluate(Evaluate(s, 1, c), 2, c)

(* Planted fault: the list to square off is made before the exits are      *)
(* carried out.                                                            *)
HandleTick_Twice(p) ==
    LET first == {v \in p.done : Turn(p.reached, v) = v}
        twice == time >= AutoSquareOff /\ ~squaredOff
    IN  /\ books' = CloseTrades(CloseTrades(books, IF twice THEN first ELSE {}), Counted(p))
        /\ stored' = [stored EXCEPT ![store] = SaveTrades(@, p)]
        /\ squaredOff' = (squaredOff \/ (p.raised = None /\ time >= AutoSquareOff))

(* _on_tick: exits and square-off.                                         *)
HandleTick(p) ==
    /\ books' = CloseTrades(books, Counted(p))
    /\ stored' = [stored EXCEPT ![store] = SaveTrades(@, p)]
    /\ squaredOff' = (squaredOff \/ (p.raised = None /\ time >= AutoSquareOff))

Observe(p) ==
    /\ recounted' = [v \in Number |-> recounted[v] + IF v = p.raised THEN 1 ELSE 0]
    /\ failed' = failed \cup (IF p.lost \/ p.saved # Counted(p) THEN {"save"} ELSE {})
    /\ looked' = (p.raised = None)

(* A tick of the volatility index: _on_tick returns before the exits.      *)
VixTick ==
    /\ up
    /\ UNCHANGED <<market, process, stored, squaredOff, building, missing, rsi, regime, open, books>>
    /\ UNCHANGED <<opened, recounted, failed, looked>> /\ view' = Unseen

(* A tick of another instrument that is traded.                            *)
OtherTick(p) ==
    /\ HandleTick(p) /\ Observe(p)
    /\ open' = Remaining(p)
    /\ UNCHANGED <<market, process, building, missing, rsi, regime, opened>>
    /\ view' = Unseen

(* A tick of the instrument in the period of the candle in progress, or    *)
(* the first one.  After a gap of two periods the candle is dropped, and   *)
(* sometimes after one.                                                    *)
OwnTick(p) ==
    /\ building \in {None, time} \/ time - building > 1
    /\ HandleTick(p) /\ Observe(p)
    /\ open' = Remaining(p)
    /\ building' = time
    /\ UNCHANGED <<market, process, missing, rsi, regime, opened>>
    /\ view' = Unseen

(* A tick that completes a candle.  The bus calls the candle builder also  *)
(* when _on_tick has raised.                                               *)
CandleTick(p, c) ==
    /\ building # None /\ time - building \in 1..2
    /\ HandleTick(p) /\ Observe(p)
    /\ building' = time
    /\ missing' = Max({missing - 1, 0})
    /\ LET s == OnCandle([rsi |-> rsi, regime |-> regime, open |-> Remaining(p),
                          opened |-> opened, view |-> Unseen, rotated |-> FALSE], c)
       IN  /\ rsi' = s.rsi /\ regime' = s.regime /\ open' = s.open
           /\ opened' = s.opened /\ view' = s.view
    /\ UNCHANGED <<market, process>>

AnyTick ==
    \/ VixTick
    \/ /\ up
       /\ \E p \in Passes :
             \/ OtherTick(p)
             \/ OwnTick(p)
             \/ \E c \in Candles : CandleTick(p, c)

PaperNext == Start \/ Exit \/ Advance \/ AnyTick

PaperSpec == PaperInit /\ [][PaperNext]_paperVars

-----------------------------------------------------------------------------
PaperTypes ==
    /\ token \in Tokens /\ time \in 0..DayEnd /\ up \in BOOLEAN /\ starts \in 0..MaxStarts
    /\ store \in (IF up THEN Stores ELSE {"none"})
    /\ squaredOff \in BOOLEAN /\ building \in {None} \cup 0..time /\ missing \in 0..MinHistory
    /\ regime \in [volatility : Volatilities, structure : Structures, atrs : 0..MinAtrs]
    /\ \A v \in Number :
          /\ Cardinality(open[v]) <= 1
          /\ \A pos \in open[v] : pos.left \in 0..(4 * Hour)

(* "Auto-close all positions": once a tick at or after 3:20 PM has gone    *)
(* through the square-off nothing is open, also when that tick completes a *)
(* candle and other candles complete after it.  The types are part of it.  *)
FlatOnceSquaredOff == PaperTypes /\ (squaredOff => \A v \in Number : open[v] = {})

(* No tick of an instrument that is traded, of whichever, leaves a position*)
(* whose time is up, unless the store raised on that tick.  (A tick of the *)
(* volatility index looks at nothing and does not count.)                  *)
OverdueLeavesOnTick ==
    looked => \A v \in Number : \A pos \in open[v] : pos.left > 0

(* "This ensures all variants evaluating the same candle see the same      *)
(* prev_rsi": also when only one of them evaluated the candle before.      *)
SameCandleSameView == "unseen" \in {view[1], view[2]} \/ view[1] = view[2]

ResultsCounted ==
    up => \A v \in Number :
        /\ opened[v] + recounted[v] = Cardinality(open[v]) + books[v].closed
        /\ IF "load" \in failed THEN books[v].cumulative = books[v].closed
           ELSE /\ stored[store][v] <= books[v].cumulative
                /\ failed = {} => stored[store][v] = books[v].cumulative

(* A trade opened by a process is open or was counted once, whatever closed*)
(* it, by the square-off if by nothing before it, except that it is counted*)
(* again for every time the store raised while it was being closed.  The   *)
(* cumulative result is what the store holds if nothing failed, counts all *)
(* that the store holds if the earlier results could be loaded, and is no  *)
(* more than this process's otherwise.                                     *)
TradesAccounted == FlatOnceSquaredOff /\ ResultsCounted

(* RegimeDetector: "Updated on each candle close."  Less is asked for: in  *)
(* the morning, with enough history, a previous RSI and no position for    *)
(* which the instrument would be skipped, some variant evaluates it.       *)
RegimeUpdatedEachCandle ==
    [][ (/\ up /\ up' /\ building # None /\ building' = building + 1
         /\ Session = "MORNING" /\ missing = 0 /\ rsi.current # "none"
         /\ \A v \in Number : open[v] = {})
        => view' # Unseen ]_paperVars

=============================================================================
