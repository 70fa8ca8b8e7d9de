------------------------------- MODULE MCResearch -------------------------------
(***************************************************************************)
(* The research engine in one model: a behaviour is one of its feed with   *)
(* the candles built from it, of the arms of an instrument live or in the  *)
(* replay, of its trade recorder, or of the start of an NSE process.       *)
(*                                                                         *)
(* Feed: half candles of five minutes as the unit of time, ticks up to one *)
(* unit late.  Arms: a breakout variant on five minutes and a trend        *)
(* variant on ten, with windows of two candles and of one, two levels; the *)
(* indicators need three candles, and the days before have all of them, all*)
(* but those of ten minutes, or none.                                      *)
(* Recorder: three trades, two of one variant in one minute.  Start: a     *)
(* week after two that may have up to two holidays, at any of four times.  *)
(***************************************************************************)
EXTENDS LiveFeed, BacktestReplay, TradeRecorder, Warmup

MCBegin == {7}
MCFrames == {"5m", "15m"}
MCInterval == [tf \in MCFrames |-> IF tf = "5m" THEN 2 ELSE 6]

MCVariants == {"orb5", "trend10"}
MCStraddlers == {"orb5"}
MCLevels == 1..2
MCTimeframe == [v \in MCVariants |-> IF v = "orb5" THEN "5m" ELSE "10m"]
MCExpiry == [v \in MCVariants |-> IF v = "orb5" THEN 2 ELSE 1]
MCBars == [tf \in {"5m", "10m"} |-> IF tf = "5m" THEN 1 ELSE 2]

MCWarmups == {0, 2, 4}

MCTrades == {"t1", "t2", "t3"}
MCDedupKey == [t \in MCTrades |-> IF t = "t3" THEN "k3" ELSE "k1"]

MCClosed == {S \in SUBSET {d \in 7..20 : d % 7 < 5} : Cardinality(S) <= 2}
MCMoments == {d * 24 * 60 + m : d \in 14..20, m \in {480, 550, 600, 960}}

MCRequests == {5, 15, 30}

VARIABLE study

(* Live the limit on the arms is low enough to be met; the replay has none *)
(* (MaxArmed is more than there can be).                                   *)
Engine == INSTANCE ArmedTriggers WITH MaxArmed <- 3

ASSUME ResearchParameters ==
    /\ LiveParameters /\ Engine!TriggersParameters /\ ReplayParameters
    /\ RecorderParameters /\ WarmupParameters

NoReplay == ReplayInit /\ warm = 4

NoFeed ==
    /\ loop = "exited" /\ current = "none" /\ older = [live |-> 0, blocked |-> 0]
    /\ finished = FALSE /\ silence = 0 /\ retries = 0 /\ market = FALSE
    /\ forming = [tf \in Frames |-> None] /\ history = [tf \in Frames |-> <<>>]
    /\ begun = 0 /\ now = 0 /\ quiet = FALSE /\ troubles = 0

NoRecorder ==
    /\ buffer = <<>> /\ seen = {} /\ running = FALSE /\ db = {}
    /\ pc = [t \in Threads |-> "idle"] /\ batch = [t \in Threads |-> <<>>]
    /\ handed = 0 /\ accepted = {} /\ overlapped = FALSE

NoProcess ==
    /\ holidays = {} /\ clock = 0 /\ slept = FALSE /\ frame = 0 /\ step = "done"
    /\ tries = 0 /\ got = -1

ResearchInit ==
    \/ study = "feed" /\ LiveInit /\ NoReplay /\ NoRecorder /\ NoProcess
    \/ study = "arms" /\ NoFeed /\ NoReplay /\ NoRecorder /\ NoProcess
    \/ study = "replay" /\ NoFeed /\ ReplayInit /\ NoRecorder /\ NoProcess
    \/ study = "recorder" /\ NoFeed /\ NoReplay /\ RecorderInit /\ NoProcess
    \/ study = "start" /\ NoFeed /\ NoReplay /\ NoRecorder /\ WarmupInit

ResearchNext ==
    \/ study = "feed" /\ LiveNext /\ UNCHANGED <<study, replayVars, recorderVars, warmVars>>
    \/ study = "arms" /\ Engine!Next
       /\ UNCHANGED <<study, warm, bar, index, due, ticks, liveVars, recorderVars, warmVars>>
    \/ study = "replay" /\ ReplayNext
       /\ UNCHANGED <<study, liveVars, recorderVars, warmVars>>
    \/ study = "recorder" /\ RecorderNext
       /\ UNCHANGED <<study, liveVars, replayVars, warmVars>>
    \/ study = "start" /\ WarmupNext
       /\ UNCHANGED <<study, liveVars, replayVars, recorderVars>>

allVars == <<study, liveVars, replayVars, recorderVars, warmVars>>

(* The main thread of the feed runs and time passes; the recorder's threads*)
(* as it says itself.                                                      *)
ResearchSpec ==
    /\ ResearchInit /\ [][ResearchNext]_allVars
    /\ WF_liveVars(LoopGoesOn) /\ WF_liveVars(TimePasses)
    /\ Fairness
=============================================================================
