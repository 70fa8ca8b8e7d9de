-------------------------------- MODULE LiveFeed --------------------------------
(***************************************************************************)
(* The feed and the candle builder of a research process together          *)
(* (main_research.py): what the reconnecting feed hears of one instrument  *)
(* becomes its candles, on top of the history that was loaded before the   *)
(* process subscribed.                                                     *)
(*                                                                         *)
(* Other instruments tick on the same connection, so the feed may be alive *)
(* while this one is quiet.  A tick carries the time of its trade, which   *)
(* may be a little before it is heard.                                     *)
(***************************************************************************)
EXTENDS ReconnectingFeed, CandleBuilder

CONSTANTS
    Begin,          \* times a process may begin at
    MaxTime         \* bound on time

LiveParameters ==
    /\ FeedParameters /\ BuilderParameters
    /\ MaxTime \in Nat /\ Begin \subseteq 1..MaxTime

VARIABLES
    begun,          \* when this one did
    now,
    quiet,          \* other instruments ticked since this one did
    troubles        \* connections that broke or failed since then, up to two

timeVars == <<begun, now, quiet, troubles>>
liveVars == <<feedVars, builderVars, timeVars>>

(* What was fetched: nothing, or all the history keeps, up to the last     *)
(* candle that was complete or to the one in progress, as the broker likes.*)
WarmedUp(tf, n, upTo) ==
    LET last == PeriodOf(tf, n) - (IF upTo = "complete" THEN Interval[tf] ELSE 0)
    IN  IF upTo = "nothing" THEN <<>>
        ELSE InjectHistory(<<>>, [i \in 1..MaxHistory |-> last - (MaxHistory - i) * Interval[tf]])

LiveInit ==
    /\ FeedInit
    /\ begun \in Begin /\ now = begun
    /\ forming = [tf \in Frames |-> None]
    /\ \E upTo \in {"nothing", "complete", "forming"} :
          history = [tf \in Frames |-> WarmedUp(tf, begun, upTo)]
    /\ quiet = FALSE /\ troubles = 0

OurTick ==
    /\ now < MaxTime
    /\ Hear
    /\ \E stamp \in {now, now - 1} : OnTick(stamp)
    /\ quiet' = FALSE /\ troubles' = 0
    /\ UNCHANGED <<begun, now>>

(* A connection breaks, or a new one does not deliver.                     *)
Counted ==
    troubles' = IF current' # "live" /\ (loop = "start" \/ current = "live")
                THEN Min({troubles + 1, 2}) ELSE troubles

LoopGoesOn == LoopStep /\ Counted /\ UNCHANGED <<builderVars, begun, now, quiet>>

Happens == Around /\ Counted /\ UNCHANGED <<builderVars, begun, now, quiet>>

(* Time passes; of a connection that delivers, other instruments tick.     *)
TimePasses ==
    /\ now' = Min({now + 1, MaxTime})
    /\ \/ ~Delivering /\ Pass /\ UNCHANGED quiet
       \/ Waiting /\ Hear /\ quiet' = TRUE
    /\ UNCHANGED <<builderVars, begun, troubles>>

LiveNext == OurTick \/ LoopGoesOn \/ Happens \/ TimePasses

LiveSpec == LiveInit /\ [][LiveNext]_liveVars

-----------------------------------------------------------------------------
(* An outage that the next connection ends costs no candle: when one is    *)
(* thrown away as stale, the instrument itself was quiet, or the feed had  *)
(* trouble more than once.  The time after which silence is noticed and the*)
(* age that makes a candle stale are set in two modules.                   *)
Discards(tf) ==
    /\ forming[tf] # None
    /\ forming'[tf].open # forming[tf].open
    /\ history'[tf] = history[tf]

OutagesKeepCandles == [][\A tf \in Frames : Discards(tf) => quiet \/ troubles >= 2]_liveVars

(* What the indicators read is in the order of time, each candle once,     *)
(* whatever ticks come late, for the candles the process saw from their    *)
(* beginning.  (An earlier one, built from its last ticks only, is put     *)
(* behind the broker's, the same candle included.)                         *)
HistoryInOrder ==
    \A tf \in Frames : \A i, j \in DOMAIN history[tf] :
        i < j /\ history[tf][j] > PeriodOf(tf, begun) => history[tf][i] < history[tf][j]

(* A dead feed does not stay: while the market is open and no connection   *)
(* delivers, the loop gets on with the next one.                           *)
DeadFeedNoticed == (loop = "monitor" /\ ~Delivering) ~> (loop # "monitor" \/ Delivering)

=============================================================================
