------------------------------ MODULE MCStrategies ------------------------------
(***************************************************************************)
(* The strategies of both markets in one model: a behaviour is that of a   *)
(* strategy of the NSE bot, of a template of its research or of an entry of*)
(* the CFD programs; they share nothing.  NSE: short cooldowns and windows,*)
(* so that they pass within a phase.  Research: candles of one slot and of *)
(* two, of which the first three and the first two are in the opening      *)
(* range.  CFD: days of ten candles, the session of the breakouts in their *)
(* midst and Sydney alone at their start.                                  *)
(***************************************************************************)
EXTENDS NseStrategies

MCPrices == 1..4
MCDistances == {-1, 0, 1}

None == "none"

VARIABLES market, cfdKind, time, past, research, live, cfdMissing, starts, rolled, said,
          signals, intact, formed, outside

cfdVars == <<cfdKind, time, past, research, live, cfdMissing, starts, rolled, said,
             signals, intact, formed, outside>>

Cfd == INSTANCE CfdEntries WITH
    kind <- cfdKind, missing <- cfdMissing, Prices <- 1..3, DaySlots <- 10,
    Session <- 3..8, SydneyOnly <- 1..4, Span <- 2, RangeBars <- 2, Cooldown <- 2,
    Lookback <- 2, Reward <- 2, MinGap <- 1, MaxGap <- 1, MaxDays <- 2, MaxStarts <- 2

VARIABLES template, date, slot, due, warm, kept, resetDate, before, opening, given, judged

researchVars ==
    <<template, date, slot, due, warm, kept, resetDate, before, opening, given, judged>>

(* Rising and falling bodies, a hammer and a star of each, a spinning top, *)
(* a doji with long shadows, and one without any.                          *)
MCCandles ==
    {<<1, 3, 1, 3>>, <<2, 2, 0, 0>>, <<2, 3, 0, 3>>, <<3, 3, 0, 2>>, <<0, 3, 0, 1>>,
     <<1, 3, 0, 0>>, <<1, 3, 0, 2>>, <<2, 3, 0, 2>>, <<1, 1, 1, 1>>}

Templates == INSTANCE ResearchTemplates WITH
    seen <- before, formed <- opening, said <- judged,
    Frames <- {"5m", "10m"}, Bars <- [tf \in {"5m", "10m"} |-> IF tf = "5m" THEN 1 ELSE 2],
    Prices <- 1..3, MinSpan <- 1, MaxSpan <- 1, Opening <- 2, MinSqueeze <- 2,
    Shapes <- MCCandles, DaySlots <- 6, MaxDays <- 2

ASSUME OtherParameters == Cfd!Parameters /\ Templates!Parameters

NoTemplate ==
    /\ template = None /\ date = 0 /\ slot = 0 /\ due = {} /\ warm = {} /\ kept = None
    /\ resetDate = 0 /\ before = <<>> /\ opening = {} /\ given = None /\ judged = None

NoCfd ==
    /\ cfdKind = None /\ time = 0 /\ past = None /\ research = None /\ live = None
    /\ cfdMissing = 0 /\ starts = 0 /\ rolled = 0 /\ said = None /\ signals = None
    /\ intact = FALSE /\ formed = <<>> /\ outside = FALSE

NoNse ==
    /\ kind = None /\ phase = 0 /\ day = 0 /\ missing = 0 /\ state = None
    /\ resetDay = 0 /\ seen = None /\ log = <<>>

MarketInit ==
    \/ market = "nse" /\ Init /\ NoCfd /\ NoTemplate
    \/ market = "research" /\ Templates!Init /\ NoNse /\ NoCfd
    \/ market = "cfd" /\ Cfd!Init /\ NoNse /\ NoTemplate

MarketNext ==
    \/ market = "nse" /\ Next /\ UNCHANGED <<market, cfdVars, researchVars>>
    \/ market = "research" /\ Templates!Next /\ UNCHANGED <<market, vars, cfdVars>>
    \/ market = "cfd" /\ Cfd!Next /\ UNCHANGED <<market, vars, researchVars>>

MarketSpec == MarketInit /\ [][MarketNext]_<<market, vars, cfdVars, researchVars>>

-----------------------------------------------------------------------------
(* Whatever the indicators say, a stop is where the trade loses and a      *)
(* target of the strategy's own where it wins, in every strategy that      *)
(* names them.                                                             *)
StopsLose ==
    CASE market = "nse" -> StraddlesEntry
      [] market = "cfd" -> Cfd!StraddlesEntry
      [] OTHER          -> TRUE

(* "Min candles between signals", "max trades per day", "one entry per     *)
(* session": nobody signals more often than it says, whatever is reset.    *)
Rationed ==
    CASE market = "nse" -> SignalsRationed
      [] market = "cfd" -> Cfd!SignalsRationed
      [] OTHER          -> Templates!SignalsRationed

(* The cause of a signal lies in the same day or session and timeframe, a  *)
(* breakout is one of the whole range its stop stands for, and one from a  *)
(* squeeze has the "BB inside Keltner Channels for 5+ consecutive candles" *)
(* before it.                                                              *)
CausedToday ==
    CASE market = "nse" -> OrbBreaksOut /\ CauseOfToday /\ SqueezeBeforeBreakout
      [] market = "cfd" -> Cfd!CauseOfToday
      [] OTHER          -> Templates!CauseOfToday

(* A port that has seen everything enters where the research replay does.  *)
(* It says nothing of a port that missed candles or was started anew (its  *)
(* cooldown goes on over them, the replay's does not), nor of entries of   *)
(* the replay that are outside its slice (intact, outside of CfdEntries).  *)
PortFollows == market = "cfd" => Cfd!PortFollowsResearch

=============================================================================
