-------------------------------- MODULE Mt5Feed --------------------------------
(***************************************************************************)
(* The polled feed of the CFD programs (broker/mt5.py) with the candles    *)
(* built from it and the archive they go into, over crashes, broken        *)
(* connections and a weekend: MT5Broker and MT5FeedClient, their backfill  *)
(* (main_mt5.py, main_cfd_paper.py) and LiveCandleStore, for one symbol.   *)
(*                                                                         *)
(* A tick is known by the time of its trade.  The terminal stamps it with  *)
(* its own clock, which is TrueOffset ahead, and that offset the broker    *)
(* object can only guess from the freshest tick.  What the terminal has    *)
(* seen it can be asked for later.                                         *)
(***************************************************************************)
EXTENDS Integers, Sequences, SequencesExt, FiniteSetsExt

CONSTANTS
    Trading,        \* times at which the market is open
    Interval,       \* of a candle
    Window,         \* poll interval and lookback
    Chunk, MaxSpan, \* of a backfill
    TrueOffset, Fallback,
    Rounding,       \* offsets are multiples of it
    Plausible,      \* 14 hours
    MaxTime, MaxStarts, MaxFaults   \* bounds

Mt5Parameters ==
    /\ Trading \subseteq 1..MaxTime
    /\ \A c \in {Interval, Chunk, Rounding, MaxStarts} : c \in Nat \ {0}
    /\ \A c \in {Window, MaxSpan, Plausible, MaxFaults} : c \in Nat
    /\ TrueOffset % Rounding = 0 /\ Fallback % Rounding = 0

VARIABLES
    now,
    traded,     \* times of ticks
    archive,    \* live_candles: [open, of], of being the ticks it was made from, in order
    pc,         \* where the process is: down, backfill, loop, sleep, backoff
    client,     \* ready; broken: calls raise; dead: not initialised, calls return None
    offset, measured,   \* _server_offset_ms, _offset_measured
    backfilled, \* _startup_backfill_done
    wasOpen,    \* _market_was_open
    cursor,     \* _last_msc; 0: none
    job,        \* a catch-up: [cur, end]
    forming,    \* the builder's candle
    covered,    \* time up to which it has asked for ticks (for the properties)
    excused,    \* something has kept the archive from being whole (likewise)
    starts, faults

mt5Vars == <<now, traded, archive, pc, client, offset, measured, backfilled, wasOpen, cursor,
             job, forming, covered, excused, starts, faults>>

NoJob == [cur |-> 0, end |-> 0]
NoCandle == [open |-> -1, last |-> -1, of |-> <<>>]
Open == now \in Trading
MissedBefore(time) == \E t \in traded : covered < t /\ t < time

Mt5Init ==
    /\ now = 1 /\ traded \in SUBSET ({1} \cap Trading) /\ archive = {}
    /\ pc = "down" /\ client = "broken"
    /\ offset = 0 /\ measured = FALSE /\ backfilled = FALSE /\ wasOpen = "unknown"
    /\ cursor = 0 /\ job = NoJob /\ forming = NoCandle
    /\ covered = 1 /\ excused = FALSE
    /\ starts = 0 /\ faults = 0

-----------------------------------------------------------------------------
(* _measure_offset_ms: the freshest tick against the clock, if plausible.  *)
Measured ==
    LET raw == Max(traded) + TrueOffset - now
        rounded == ((raw + Rounding \div 2) \div Rounding) * Rounding
    IN  IF traded # {} /\ rounded \in -Plausible..Plausible THEN {rounded} ELSE {}

(* A wrong offset is an excuse for good: what it dates wrongly stays.      *)
Wrong(o) == o # TrueOffset

(* _detect_server_offset *)
DetectOffset ==
    /\ offset' = IF Measured = {} THEN Fallback ELSE Max(Measured)
    /\ measured' = (Measured # {})

(* refresh_offset *)
RefreshOffset ==
    /\ offset' = IF Measured = {} THEN offset ELSE Max(Measured)
    /\ measured' = (measured \/ Measured # {})

(* CandleBuilder with LiveCandleStore behind it: a tick of a later interval*)
(* closes the candle, which is stored, once, unless it is stale.           *)
Built(b, stamp, tick) ==
    LET period == (stamp \div Interval) * Interval
        closes == b.forming # NoCandle /\ period > b.forming.open
        stale  == stamp - b.forming.last > 2 * Interval
        stored == \E c \in b.archive : c.open = b.forming.open
    IN  [forming |-> IF b.forming = NoCandle \/ closes
                     THEN [open |-> period, last |-> stamp, of |-> <<tick>>]
                     ELSE [b.forming EXCEPT !.last = stamp, !.of = Append(@, tick)],
         archive |-> IF closes /\ ~stale /\ ~stored
                     THEN b.archive \cup {[open |-> b.forming.open, of |-> b.forming.of]}
                     ELSE b.archive]

(* Planted fault: a tick at the cursor is emitted again.                   *)
Fresh_Again(from, to) == {m \in from..to : m - TrueOffset \in traded /\ m >= cursor}

(* Of copy_ticks_range's answer, the ticks that are newer than the cursor. *)
Fresh(from, to) == {m \in from..to : m - TrueOffset \in traded /\ m > cursor}

(* _process_ticks *)
Process(from, to) ==
    LET new   == SetToSortSeq(Fresh(from, to), LAMBDA a, b : a < b)
        built == FoldLeft(LAMBDA b, m : Built(b, m - offset, m - TrueOffset),
                          [forming |-> forming, archive |-> archive], new)
    IN  /\ cursor' = IF new = <<>> THEN cursor ELSE Last(new)
        /\ forming' = built.forming /\ archive' = built.archive

Emitted == <<cursor, forming, archive>>

-----------------------------------------------------------------------------
(* Planted fault: up to the clock, which is not the server's.              *)
CatchUp_Utc(from) ==
    LET start == Max({from, now - MaxSpan})
    IN  /\ job' = IF from > 0 /\ start < now THEN [cur |-> start, end |-> now] ELSE NoJob
        /\ excused' = (excused \/ Wrong(offset') \/ start > from)
        /\ covered' = IF from > 0 /\ start >= now THEN now - 1 ELSE now

(* _catch_up, from a server time on; a gap that is too long is capped.     *)
CatchUp(from) ==
    LET end   == now + offset'
        start == Max({from, end - MaxSpan})
    IN  /\ job' = IF from > 0 /\ start < end THEN [cur |-> start, end |-> end] ELSE NoJob
        /\ excused' = (excused \/ Wrong(offset') \/ start > from)
        /\ covered' = IF from > 0 /\ start >= end THEN now - 1 ELSE now

(* _maybe_backfill: from the candle after the last stored one, once, when  *)
(* the offset is taken to be known.                                        *)
MaybeBackfill ==
    IF backfilled \/ ~measured'
    THEN /\ UNCHANGED <<job, backfilled, covered>>
         /\ excused' = (excused \/ Wrong(offset') \/ ~backfilled)
    ELSE /\ CatchUp(IF archive = {} THEN 0
                    ELSE Max({c.open : c \in archive}) + Interval + offset')
         /\ backfilled' = TRUE

(* start, run: connect; systemd starts the process again until it does.    *)
Start ==
    /\ pc = "down" /\ starts < MaxStarts
    /\ starts' = starts + 1
    /\ client' = "ready" /\ DetectOffset
    /\ pc' = "backfill"
    /\ covered' = now
    /\ UNCHANGED <<now, traded, backfilled, wasOpen, Emitted, job, excused, faults>>

(* The backfill of a process that has started.                             *)
StartupBackfill ==
    /\ pc = "backfill"
    /\ pc' = "loop"
    /\ UNCHANGED <<offset, measured>>
    /\ MaybeBackfill
    /\ UNCHANGED <<now, traded, client, wasOpen, Emitted, starts, faults>>

(* One chunk of a catch-up.                                                *)
Pull ==
    /\ pc = "loop" /\ job # NoJob
    /\ LET to == Min({job.cur + Chunk, job.end})
       IN  /\ Process(job.cur, to)
           /\ job' = IF to < job.end THEN [job EXCEPT !.cur = to] ELSE NoJob
    /\ UNCHANGED <<now, traded, pc, client, offset, measured, backfilled, wasOpen, covered,
                   excused, starts, faults>>

(* ... which fails and ends it.                                            *)
PullFails ==
    /\ pc = "loop" /\ job # NoJob /\ faults < MaxFaults
    /\ faults' = faults + 1
    /\ job' = NoJob /\ excused' = TRUE
    /\ UNCHANGED <<now, traded, pc, client, offset, measured, backfilled, wasOpen, Emitted,
                   covered, starts>>

(* consume: while the market is closed the loop idles, from its first look *)
(* after the close on; what came after the last poll it does not ask for.  *)
Idle ==
    /\ pc = "loop" /\ job = NoJob /\ ~Open
    /\ wasOpen' = "closed" /\ pc' = "sleep"
    /\ excused' = (excused \/ MissedBefore(now))
    /\ UNCHANGED <<now, traded, client, offset, measured, backfilled, Emitted, job, covered,
                   starts, faults>>

(* ... and when it opens, looks at the offset and runs on_resume.          *)
Reopen ==
    /\ pc = "loop" /\ job = NoJob /\ Open /\ wasOpen = "closed"
    /\ wasOpen' = "open"
    /\ RefreshOffset
    /\ MaybeBackfill
    /\ UNCHANGED <<now, traded, pc, client, Emitted, starts, faults>>

(* _poll_all_symbols: the last window, in what is taken for server time;   *)
(* from time to time the offset is measured again.                         *)
Poll ==
    /\ pc = "loop" /\ job = NoJob /\ Open /\ wasOpen # "closed" /\ client = "ready"
    /\ Process(now + offset - Window, now + offset)
    /\ RefreshOffset \/ UNCHANGED <<offset, measured>>
    /\ excused' = (excused \/ Wrong(offset) \/ Wrong(offset') \/ MissedBefore(now - Window))
    /\ covered' = now /\ pc' = "sleep"
    /\ UNCHANGED <<now, traded, client, backfilled, wasOpen, job, starts, faults>>

(* A terminal that was not initialised returns None, which is no error.    *)
PollNothing ==
    /\ pc = "loop" /\ job = NoJob /\ Open /\ wasOpen # "closed" /\ client = "dead"
    /\ pc' = "sleep"
    /\ UNCHANGED <<now, traded, client, offset, measured, backfilled, wasOpen, Emitted, job,
                   covered, excused, starts, faults>>

PollFails ==
    /\ pc = "loop" /\ job = NoJob /\ Open /\ wasOpen # "closed" /\ client # "dead"
    /\ \/ client = "broken" /\ UNCHANGED faults
       \/ client = "ready" /\ faults < MaxFaults /\ faults' = faults + 1
    /\ client' = "broken" /\ pc' = "backoff"
    /\ UNCHANGED <<now, traded, offset, measured, backfilled, wasOpen, Emitted, job, covered,
                   excused, starts>>

(* _reconnect, with the gap since the cursor, of which a process that has  *)
(* not emitted a tick yet has none.                                        *)
Reconnect ==
    /\ pc = "backoff"
    /\ client' = "ready" /\ DetectOffset
    /\ IF cursor = 0 THEN /\ excused' = (excused \/ Wrong(offset'))
                          /\ UNCHANGED <<job, covered>>
                     ELSE CatchUp(cursor)
    /\ pc' = "loop"
    /\ UNCHANGED <<now, traded, backfilled, wasOpen, Emitted, starts, faults>>

ReconnectFails ==
    /\ pc = "backoff" /\ faults < MaxFaults
    /\ faults' = faults + 1
    /\ client' \in {"broken", "dead"} /\ pc' = "loop"
    /\ UNCHANGED <<now, traded, offset, measured, backfilled, wasOpen, Emitted, job, covered,
                   excused, starts>>

(* The process ends, wherever it is; the candle in progress is gone.       *)
Crash ==
    /\ pc # "down" /\ starts < MaxStarts
    /\ pc' = "down" /\ client' = "broken"
    /\ offset' = 0 /\ measured' = FALSE /\ backfilled' = FALSE /\ wasOpen' = "unknown"
    /\ cursor' = 0 /\ job' = NoJob /\ forming' = NoCandle
    /\ UNCHANGED <<now, traded, archive, covered, excused, starts, faults>>

(* A sleep is over when time passes; what passes otherwise holds the next  *)
(* poll up.                                                                *)
TimePasses ==
    /\ now < MaxTime
    /\ now' = now + 1
    /\ traded' \in {traded} \cup (IF now' \in Trading THEN {traded \cup {now'}} ELSE {})
    /\ pc' = IF pc = "sleep" THEN "loop" ELSE pc
    /\ UNCHANGED <<archive, client, offset, measured, backfilled, wasOpen, cursor, job, forming,
                   covered, excused, starts, faults>>

Mt5Next ==
    \/ Start \/ StartupBackfill \/ Pull \/ PullFails
    \/ Idle \/ Reopen \/ Poll \/ PollNothing \/ PollFails
    \/ Reconnect \/ ReconnectFails \/ Crash \/ TimePasses

-----------------------------------------------------------------------------
Ticks(open) == {t \in traded : t \in open..(open + Interval - 1)}
InOrder(times) == SetToSortSeq(times, LAMBDA t, u : t < u)

(* The instrument was quiet for so long that the builder took its candle   *)
(* for a stale one.                                                        *)
LeftQuiet(open) ==
    \E t \in traded : /\ t > Max(Ticks(open)) + 2 * Interval
                      /\ \A u \in traded : u \in (Max(Ticks(open)) + 1)..t => u = t

(* "So the archived candle series stays gapless across consumer downtime", *)
(* "gapless + de-duplicated": crashes, outages and the weekend leave no    *)
(* hole among the archived candles, and each was made from every tick of   *)
(* its interval, once and in order, as long as the offset was right, no    *)
(* poll came later than its window reaches nor after the last ticks before *)
(* a close, no catch-up was broken off or capped, and the backfill was not *)
(* put off.                                                                *)
ArchiveWhole ==
    ~excused =>
        LET first == Min({c.open : c \in archive})
        IN  \A c \in archive : c.open # first =>
                /\ c.of = InOrder(Ticks(c.open))
                /\ \A open \in {c.open - k * Interval : k \in 1..(c.open \div Interval)} :
                      open > first /\ Ticks(open) # {} =>
                          (\E d \in archive : d.open = open) \/ LeftQuiet(open)

(* "Never the weekend fallback, which would misdate replayed candles": an  *)
(* archived candle holds what was traded in its interval.                  *)
RightlyDated ==
    \A c \in archive : \A t \in ToSet(c.of) : t \in c.open..(c.open + Interval - 1)

=============================================================================
