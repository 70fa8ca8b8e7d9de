--------------------------------- MODULE MCNse ---------------------------------
(***************************************************************************)
(* Both ways in which the NSE is traded on paper in one model: a behaviour *)
(* is a day of the traders of the bot, or of main_paper.py with one of its *)
(* instruments; they share nothing.                                        *)
(*                                                                         *)
(* Traders: three strategies, two prices a stop distance apart, a window   *)
(* that passes before the last entry.  main_paper.py: a day of few candles,*)
(* an hour is one of them, so that every limit falls into the day.         *)
(***************************************************************************)
EXTENDS NseTraders, MainPaper

MCStrategies == <<"orb", "vwap", "ema">>
MCMaySignal ==
    {<<"orb", "BUY">>, <<"orb", "SELL">>, <<"vwap", "BUY">>, <<"ema", "BUY">>}
MCPrices == {24, 36}
MCDistances == {12}
MCSlippages == {1}

MCTokens == {"NIFTY", "RELIANCE", "BHARTI"}
MCRsis == {"low", "mid"}
MCVolatile == {"LOW"}
MCStructured == {"TRENDING", "TRANSITIONING", "RANGING"}

VARIABLE program

ASSUME NseParameters == TradersParameters /\ PaperParameters

(* A bot that was stopped, and a main_paper.py that was never started.     *)
NoBot ==
    /\ now = 0 /\ price = 0 /\ turn = 0
    /\ buffer = [side \in Sides |-> <<>>]
    /\ fired = [c \in DOMAIN Needed |-> [side \in Sides |-> Never]]
    /\ positions = [t \in Traders |-> <<>>] /\ squaring = NoPass
    /\ running = FALSE /\ log = {}

NoPaper == PaperInit /\ token = "NIFTY"

NseInit ==
    \/ program = "bot" /\ Init /\ NoPaper
    \/ program = "paper" /\ PaperInit /\ NoBot

NseNext ==
    \/ program = "bot" /\ Next /\ UNCHANGED <<program, paperVars>>
    \/ program = "paper" /\ PaperNext /\ UNCHANGED <<program, vars>>

(* The bot's timers run and time passes; nothing is asked of main_paper.py.*)
NseSpec == NseInit /\ [][NseNext]_<<program, vars, paperVars>> /\ Fairness
=============================================================================
