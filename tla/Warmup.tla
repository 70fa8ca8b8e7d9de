--------------------------------- MODULE Warmup ---------------------------------
(***************************************************************************)
(* What an NSE process does before it subscribes: it sleeps until the next *)
(* trading day begins (utils/market_hours.py), and it asks the broker for  *)
(* the candles the indicators need (warmup/data_manager.py), first through *)
(* the new interface, then through the old one, several times.             *)
(*                                                                         *)
(* Time is counted in minutes from the midnight that begins a Monday; the  *)
(* holidays are part of the state.  The broker has every candle of every   *)
(* trading day, and answers with those it was asked for, with rows that    *)
(* have no values (which are skipped), with none, or with an error.        *)
(***************************************************************************)
EXTENDS Integers, FiniteSets, FiniteSetsExt

CONSTANTS
    Closed,         \* sets of holidays, as days
    Moments,        \* times at which a process may be started
    Requests,       \* minutes of the timeframes asked for
    Needed,         \* candles_needed
    MaxTries        \* max_retries

WarmupParameters ==
    /\ Requests \subseteq 1..60 /\ Needed \in Nat \ {0} /\ MaxTries \in Nat \ {0}

Midnight == 24 * 60
PreMarketWake == 9 * 60
MarketOpen == 9 * 60 + 15
MarketClose == 15 * 60 + 30
MaxLookback(frame) == IF frame <= 5 THEN 30 ELSE 90

VARIABLES
    holidays,
    clock,          \* the time
    slept,          \* the process had to wait
    frame,          \* the timeframe asked for
    step,           \* "sleep", "new", "old" or "done"
    tries,          \* attempts begun
    got             \* candles fetched; -1 is None

warmVars == <<holidays, clock, slept, frame, step, tries, got>>

DayOf(t) == t \div Midnight
TimeOf(t) == t % Midnight

IsTradingDay(day) == day % 7 < 5 /\ day \notin holidays

(* is_within_active_window *)
WithinActiveWindow(t) ==
    IsTradingDay(DayOf(t)) /\ TimeOf(t) \in PreMarketWake..MarketClose

(* Planted fault: the weekend is thought of, holidays are not.             *)
WakesAt_Weekdays(t) ==
    LET today == DayOf(t)
        next == Min({d \in today + 1 .. today + 10 : d % 7 < 5})
    IN  IF IsTradingDay(today) /\ TimeOf(t) < MarketClose
        THEN Max({t, today * Midnight + PreMarketWake})
        ELSE next * Midnight + PreMarketWake

(* seconds_until_market_open, as the time it ends: this morning, now, or   *)
(* the next trading day of the ten that follow.                            *)
WakesAt(t) ==
    LET today == DayOf(t)
        open  == {d \in today + 1 .. today + 10 : IsTradingDay(d)}
    IN  IF IsTradingDay(today) /\ TimeOf(t) < MarketClose
        THEN Max({t, today * Midnight + PreMarketWake})
        ELSE IF open # {} THEN Min(open) * Midnight + PreMarketWake
        ELSE t + 12 * 60

-----------------------------------------------------------------------------
(* _calculate_time_range: to now, or to the close of the last trading day  *)
(* (after ten days without one, of the eleventh).                          *)
EndTime ==
    LET today == DayOf(clock)
        past  == {d \in today - 10 .. today - 1 : IsTradingDay(d)}
    IN  IF IsTradingDay(today) /\ TimeOf(clock) >= MarketOpen THEN clock
        ELSE (IF past # {} THEN Max(past) ELSE today - 11) * Midnight + MarketClose

DaysNeeded ==
    LET perDay == 375 \div frame
    IN  Min({((Needed \div perDay + 1) * 7) \div 5 + 2, MaxLookback(frame)})

(* The candles the broker has from start to end.                           *)
Available ==
    LET start == EndTime - DaysNeeded * Midnight
        perDay == (MarketClose - MarketOpen + frame - 1) \div frame
    IN  Cardinality({c \in (DayOf(start) .. DayOf(EndTime)) \X (0 .. perDay - 1) :
            /\ IsTradingDay(c[1])
            /\ c[1] * Midnight + MarketOpen + c[2] * frame \in start .. EndTime})

-----------------------------------------------------------------------------
WarmupInit ==
    /\ holidays \in Closed /\ clock \in Moments /\ frame \in Requests
    /\ slept = FALSE /\ step = "sleep" /\ tries = 0 /\ got = -1

(* main: sleeps outside the active window, as long as it is told.          *)
Sleep ==
    /\ step = "sleep"
    /\ slept' = ~WithinActiveWindow(clock)
    /\ clock' = IF WithinActiveWindow(clock) THEN clock ELSE WakesAt(clock)
    /\ step' = "new" /\ tries' = 1
    /\ UNCHANGED <<holidays, frame, got>>

(* _fetch_candles_new_api: more than needed are cut from the front; no     *)
(* candle, or none with values, is an error, and an error leads to the old *)
(* interface.                                                              *)
NewApi(skipped) ==
    /\ step = "new"
    /\ IF Available > skipped
       THEN got' = Min({Available - skipped, Needed}) /\ step' = "done"
       ELSE got' = got /\ step' = "old"
    /\ UNCHANGED <<holidays, clock, slept, frame, tries>>

NewApiFails ==
    /\ step = "new"
    /\ step' = "old"
    /\ UNCHANGED <<holidays, clock, slept, frame, tries, got>>

(* _fetch_candles_old_api: none is an answer; a row without values is an   *)
(* error.                                                                  *)
OldApi(empty) ==
    /\ step = "old"
    /\ got' = IF empty THEN 0 ELSE Min({Available, Needed})
    /\ step' = "done"
    /\ UNCHANGED <<holidays, clock, slept, frame, tries>>

(* _fetch_with_retry: another attempt while there are some left.           *)
OldApiFails ==
    /\ step = "old"
    /\ IF tries < MaxTries THEN step' = "new" /\ tries' = tries + 1
       ELSE step' = "done" /\ UNCHANGED tries
    /\ UNCHANGED <<holidays, clock, slept, frame, got>>

WarmupNext ==
    \/ Sleep
    \/ \E skipped \in {0, 1, Available} : NewApi(skipped)
    \/ NewApiFails
    \/ \E empty \in BOOLEAN : OldApi(empty)
    \/ OldApiFails

-----------------------------------------------------------------------------
(* A process that slept wakes up early on a trading day, and what it asks  *)
(* for then is enough for the indicators, over weekends and holidays (the  *)
(* days it asks for are calendar days): it gets all they need, but for the *)
(* rows without values, unless the broker has nothing to say.              *)
ReadyAtOpen ==
    slept => /\ WithinActiveWindow(clock) /\ TimeOf(clock) < MarketOpen
             /\ got <= 0 \/ got >= Needed - 1

=============================================================================
