----------------------------- MODULE CandleArchive -----------------------------
(***************************************************************************)
(* The candle archive of the CFD programs under the cTrader feed, which    *)
(* pushes and repeats nothing: CTraderFeedClient and the candles built     *)
(* from its ticks, and the backfill from the broker's bars that            *)
(* main_cfd_paper.py runs at startup and, beside the ticks, after every    *)
(* reconnect (broker/ctrader_backfill.py), for one symbol and one table.   *)
(*                                                                         *)
(* A tick is known by its time.  The broker has bars of everything.        *)
(***************************************************************************)
EXTENDS Integers, FiniteSetsExt

CONSTANTS
    Interval,       \* of a candle
    Lookback,       \* min_lookback_hours
    MaxSpan,        \* max_days
    Chunk,          \* chunk_days
    Debounce,       \* CFD_BACKFILL_MIN_INTERVAL_S
    Timeout,        \* of a backfill after a reconnect
    MaxTime, MaxStarts, MaxTroubles     \* bounds

ArchiveParameters ==
    /\ \A c \in {Interval, Chunk, Debounce, Timeout, MaxStarts} : c \in Nat \ {0}
    /\ \A c \in {Lookback, MaxSpan, MaxTroubles} : c \in Nat
    /\ Timeout < Debounce /\ Lookback <= MaxSpan

VARIABLES
    now,        \* the host runs since 0
    traded,     \* times of ticks
    archive,    \* rows [open, of], of being the ticks in the candle
    pc,         \* down, startup: the backfill has the loop for itself, live
    linked,     \* spot events arrive
    forming,    \* the builder's candle
    task,       \* a backfill: [now, cur, existing]
    lastRun,    \* _last_backfill_monotonic
    starts, troubles,
    owed,       \* bars that backfills which ran through have vouched for
    cut         \* intervals in which ticks were missed (both for the properties)

archiveVars == <<now, traded, archive, pc, linked, forming, task, lastRun, starts, troubles,
                 owed, cut>>

NoTask == [now |-> -1, cur |-> -1, existing |-> {}]
NoCandle == [open |-> -1, last |-> -1, of |-> {}]

Floor(time) == (time \div Interval) * Interval
Ticks(open) == {t \in traded : Floor(t) = open}
Opens == {c.open : c \in archive}

ArchiveInit ==
    /\ now = 0 /\ traded = {} /\ archive = {}
    /\ pc = "down" /\ linked = FALSE /\ forming = NoCandle /\ task = NoTask /\ lastRun = 0
    /\ starts = 0 /\ troubles = 0 /\ owed = {} /\ cut = {}

-----------------------------------------------------------------------------
(* write_live_candle, write_staging_candle: ON CONFLICT DO NOTHING.        *)
Written(rows, row) == IF \E r \in rows : r.open = row.open THEN rows ELSE rows \cup {row}

(* on_spot at the time it is received, with CandleBuilder and              *)
(* LiveCandleStore behind it.                                              *)
Spot(time) ==
    LET closes == forming # NoCandle /\ Floor(time) > forming.open
        stale  == time - forming.last > 2 * Interval
    IN  /\ forming' = IF forming = NoCandle \/ closes
                      THEN [open |-> Floor(time), last |-> time, of |-> {time}]
                      ELSE [forming EXCEPT !.last = time, !.of = @ \cup {time}]
        /\ archive' = IF closes /\ ~stale
                      THEN Written(archive, [open |-> forming.open, of |-> forming.of])
                      ELSE archive

(* Time goes on, with a tick or without, but no backfill outlives its      *)
(* timeout.  What is not received is not known.                            *)
TimePasses ==
    /\ now < MaxTime
    /\ task # NoTask /\ pc = "live" => now - task.now < Timeout
    /\ now' = now + 1
    /\ \/ /\ traded' = traded \cup {now'}
          /\ \/ pc = "live" /\ linked /\ Spot(now') /\ UNCHANGED cut
             \/ ~(pc = "live" /\ linked) /\ cut' = cut \cup {Floor(now')}
                /\ UNCHANGED <<forming, archive>>
       \/ UNCHANGED <<traded, forming, archive, cut>>
    /\ UNCHANGED <<pc, linked, task, lastRun, starts, troubles, owed>>

-----------------------------------------------------------------------------
(* Planted fault: only what comes after the last row is looked at.         *)
WindowStart_Trailing ==
    IF Opens = {} THEN now - Lookback ELSE now - Min({now - Max(Opens), MaxSpan})

(* backfill_candles: at least the lookback, further back if the last row   *)
(* is older, but not without limit.                                        *)
WindowStart ==
    LET gap == IF Opens = {} THEN Lookback ELSE now - Max(Opens)
    IN  now - Min({Max({gap, Lookback}), MaxSpan})

(* What is missing is determined when it begins.                           *)
NewTask == [now |-> now, cur |-> WindowStart,
            existing |-> {open \in Opens : open \in WindowStart..now}]

(* _backfill_ctrader, debounced; "last" is what the process knows of the   *)
(* last time, on a clock that starts with the host.                        *)
Backfill(last) ==
    IF now - last < Debounce
    THEN task' = NoTask /\ lastRun' = last
    ELSE task' = NewTask /\ lastRun' = now

(* start, _maybe_backfill.                                                 *)
Start ==
    /\ pc = "down" /\ starts < MaxStarts
    /\ starts' = starts + 1
    /\ pc' = "startup" /\ linked' = TRUE
    /\ Backfill(0)
    /\ UNCHANGED <<now, traded, archive, forming, troubles, owed, cut>>

(* consume subscribes once the startup's backfill is through or broken off.*)
Consume ==
    /\ pc = "startup" /\ task = NoTask
    /\ pc' = "live"
    /\ UNCHANGED <<now, traded, archive, linked, forming, task, lastRun, starts, troubles,
                   owed, cut>>

(* Planted fault: the bar that is still forming is written, too.           *)
Bars_Forming(to) ==
    {[open |-> open, of |-> Ticks(open)] :
        open \in {o \in task.cur..to : /\ o % Interval = 0 /\ Ticks(o) # {}
                                       /\ o \notin task.existing}}

(* Of a chunk, the closed bars that were missing.                          *)
Bars(to) ==
    {[open |-> open, of |-> Ticks(open)] :
        open \in {o \in task.cur..to : /\ o % Interval = 0 /\ Ticks(o) # {}
                                       /\ o + Interval <= task.now
                                       /\ o \notin task.existing}}

(* What a backfill stands for: "so recent interior holes get repaired, not *)
(* just a trailing gap".                                                   *)
Recent == {o \in (task.now - Lookback)..(task.now - Interval) : o % Interval = 0 /\ o >= 0}

(* A chunk, if there is one left: candles that the builder has written     *)
(* since it began are not overwritten.                                     *)
Fetch ==
    /\ task # NoTask /\ linked
    /\ IF task.cur < task.now - Interval
       THEN LET to == Min({task.cur + Chunk, task.now})
            IN  /\ archive' = FoldSet(LAMBDA row, rows : Written(rows, row), archive, Bars(to))
                /\ task' = [task EXCEPT !.cur = to,
                                        !.existing = @ \cup {b.open : b \in Bars(to)}]
                /\ UNCHANGED owed
       ELSE /\ task' = NoTask
            /\ owed' = owed \cup {o \in Recent : Ticks(o) # {}}
            /\ UNCHANGED archive
    /\ UNCHANGED <<now, traded, pc, linked, forming, lastRun, starts, troubles, cut>>

(* A request fails (that of a lost connection always does), or the timeout *)
(* cancels the task.                                                       *)
BrokenOff ==
    /\ task # NoTask
    /\ \/ ~linked /\ UNCHANGED troubles
       \/ pc = "live" /\ now - task.now >= Timeout /\ UNCHANGED troubles
       \/ troubles < MaxTroubles /\ troubles' = troubles + 1
    /\ task' = NoTask
    /\ UNCHANGED <<now, traded, archive, pc, linked, forming, lastRun, starts, owed, cut>>

Disconnect ==
    /\ pc = "live" /\ linked /\ troubles < MaxTroubles
    /\ linked' = FALSE /\ troubles' = troubles + 1
    /\ UNCHANGED <<now, traded, archive, pc, forming, task, lastRun, starts, owed, cut>>

(* ReconnectedEvent: the library has subscribed again.                     *)
Reconnect ==
    /\ pc = "live" /\ ~linked /\ task = NoTask
    /\ linked' = TRUE
    /\ Backfill(lastRun)
    /\ UNCHANGED <<now, traded, archive, pc, forming, starts, troubles, owed, cut>>

(* What the builder had of its candle is gone.                             *)
Crash ==
    /\ pc # "down" /\ starts < MaxStarts
    /\ pc' = "down" /\ linked' = FALSE /\ forming' = NoCandle /\ task' = NoTask /\ lastRun' = 0
    /\ cut' = cut \cup ({forming.open} \ {NoCandle.open})
    /\ UNCHANGED <<now, traded, archive, starts, troubles, owed>>

ArchiveNext ==
    \/ TimePasses \/ Start \/ Consume \/ Fetch \/ BrokenOff
    \/ Disconnect \/ Reconnect \/ Crash

-----------------------------------------------------------------------------
(* A backfill that ran through leaves none of the recent bars missing,     *)
(* whatever ran beside it, and whatever was missing where.                 *)
RecentHolesHealed == owed \subseteq Opens

(* "Only closed bars land": a row lacks ticks only of an interval in which *)
(* the process missed some, and no candle is there twice.                  *)
RowsWhole ==
    \A c \in archive :
        /\ c.of = Ticks(c.open) \/ c.open \in cut
        /\ \A d \in archive : c.open = d.open => c = d

=============================================================================
