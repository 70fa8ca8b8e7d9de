------------------------------- MODULE MCOffline -------------------------------
(***************************************************************************)
(* The offline studies in one model: a behaviour is one of the exit engine *)
(* of the NSE research, of a CFD signal in backtest, exit models and paper *)
(* account, of the challenge simulators, or of the archives they read;     *)
(* they share nothing.                                                     *)
(*                                                                         *)
(* Exit engine: candles of up to two R, among them rises, falls, a doji, a *)
(* spike that reverses, a wide bar that reaches stop and target, and a gap *)
(* each way.  CFD signals: both sides, with one or two targets, breakeven, *)
(* trail with time stop, and an arm.  Challenge: trades that lose, win and *)
(* lose after a worse dip, over three days of two bars.                    *)
(***************************************************************************)
EXTENDS ExitModels, Archives, Challenge

MCShapes ==
    {<<-1, 4, 4>>, <<0, 9, 8>>, <<-4, 1, -4>>, <<-7, 0, -6>>, <<-1, 2, 0>>,
     <<-3, 6, -2>>, <<-5, 5, 1>>, <<-9, -5, -6>>, <<4, 7, 5>>}

Plan(dir, entry, sl, tps, beAt, trailR, bars, mode, expiry) ==
    [dir |-> dir, entry |-> entry, sl |-> sl, tps |-> tps, beAt |-> beAt, beOffset |-> 0,
     trailDist |-> 0, trailR |-> trailR, timeBars |-> bars, mode |-> mode, expiry |-> expiry]

Whole4(price) == <<[price |-> price, frac |-> 4]>>

MCSignals ==
    {Plan("LONG", 20, 18, Whole4(24), 0, 0, 0, "CANDLE_CLOSE", 0),
     Plan("SHORT", 20, 22, <<[price |-> 18, frac |-> 1], [price |-> 16, frac |-> 2]>>,
          0, 0, 0, "CANDLE_CLOSE", 0),
     Plan("LONG", 20, 18, Whole4(24), 1, 0, 0, "CANDLE_CLOSE", 0),
     Plan("LONG", 20, 18, Whole4(60), 0, 1, 3, "CANDLE_CLOSE", 0),
     Plan("LONG", 20, 18, Whole4(24), 0, 0, 0, "INTRABAR", 2)}

MCBars == {<<0, 2, 0, 2>>, <<0, 0, -2, -2>>, <<0, 1, -1, 0>>, <<0, 3, -1, 1>>,
           <<0, 4, -2, -1>>, <<-3, -2, -4, -3>>, <<2, 5, 1, 3>>}

MCKinds == {[ret |-> -2, mae |-> 2], [ret |-> 3, mae |-> 1], [ret |-> -1, mae |-> 3]}

MCRules ==
    {[target |-> <<3, 2>>, mode |-> "static", minDays |-> 2, limit |-> 0],
     [target |-> <<3, 0>>, mode |-> "trailing", minDays |-> 0, limit |-> 4]}

None == "none"

VARIABLES signal, tested, live, filled, atr, mean

Cfd == INSTANCE CfdExits WITH
    Whole <- 4, MinRR <- 2, Signals <- MCSignals, Shapes <- MCBars, Atrs <- {0, 3},
    AtrMult <- 2, Means <- {-1, 1}, TargetR <- 2, MaxHold <- 2, MaxBars <- 4,
    sim <- tested

ASSUME OfflineParameters == Cfd!Parameters /\ ChallengeParameters /\ ArchivesParameters

engineVars == <<lows, range, gapless>>
bothVars == <<model, count, last, done>>
cfdVars == <<signal, tested, live, filled, atr, mean>>

NoEngine == lows = None /\ range = None /\ gapless = None
NoExits == model = None /\ count = 0 /\ last = 0 /\ done = FALSE
NoCfd == signal = None /\ tested = None /\ live = None /\ filled = None /\ atr = 0 /\ mean = 0

(* A challenge that does not begin.                                        *)
NoChallenge == ChallengeInit /\ rules = CHOOSE r \in RuleSets : r.limit = 0

OfflineInit ==
    \/ study = "engine" /\ ExitsInit /\ NoCfd /\ NoChallenge /\ NoArchives
    \/ study = "cfd" /\ Cfd!Init /\ NoEngine /\ NoChallenge /\ NoArchives
    \/ study = "challenge" /\ ChallengeInit /\ NoEngine /\ NoExits /\ NoCfd /\ NoArchives
    \/ ArchivesInit /\ NoEngine /\ NoExits /\ NoCfd /\ NoChallenge

OfflineNext ==
    \/ study = "engine" /\ ExitsNext
       /\ UNCHANGED <<study, cfdVars, challengeVars, archivesVars>>
    \/ study = "cfd" /\ Cfd!Next
       /\ UNCHANGED <<study, engineVars, challengeVars, archivesVars>>
    \/ study = "challenge" /\ ChallengeNext
       /\ UNCHANGED <<study, engineVars, bothVars, cfdVars, archivesVars>>
    \/ ArchivesNext /\ UNCHANGED <<engineVars, bothVars, cfdVars, challengeVars>>

OfflineSpec ==
    OfflineInit /\ [][OfflineNext]_<<study, exitsVars, cfdVars, challengeVars, archivesVars>>

-----------------------------------------------------------------------------
(* What a trade came to lies between its worst and its best moment, and no *)
(* lower than its first stop; of the CFD models it is the adverse          *)
(* excursion they report that bounds the loss.  What breakeven protected is*)
(* not given back, in either set of models.                                *)
ResultsWithinReach ==
    CASE study = "engine" -> WithinExcursion /\ LossBounded /\ BreakevenLocksIn
      [] study = "cfd" -> Cfd!ResultWithinExcursion /\ Cfd!BreakevenLocksIn
      [] OTHER -> TRUE

(* Models of one trade compare as they should: of two exit models the      *)
(* tighter one is out first; of a CFD signal, backtest, exit models and    *)
(* account agree on fills and on the plain plan, and "this never flatters  *)
(* results": the backtest is never better off than the account that saw the*)
(* ticks.                                                                  *)
ModelsComparable ==
    CASE study = "engine" -> TighterLeavesFirst
      [] study = "cfd" -> Cfd!EnginesAgree /\ Cfd!BacktestNeverFlatters
      [] OTHER -> TRUE

=============================================================================
