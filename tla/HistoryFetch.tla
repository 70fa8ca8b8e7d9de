------------------------------ MODULE HistoryFetch ------------------------------
(***************************************************************************)
(* The downloads that the backtests live on, run after run, one instrument:*)
(* DukascopyFetcher, a day at a time from hourly files, and                *)
(* HistoricalFetcher, in chunks of days, each with its progress table.     *)
(* ResearchStore logs what it cannot write and goes on.                    *)
(*                                                                         *)
(* A piece of a day is what one request or row of it can lack.             *)
(***************************************************************************)
EXTENDS Integers, FiniteSetsExt

CONSTANTS
    Days,           \* how many there are
    Calendars,      \* which of them may have a market
    Pieces,         \* of a day
    ChunkDays,      \* MAX_DAYS_PER_REQUEST
    MaxRuns, MaxFaults      \* bounds

FetchParameters ==
    /\ \A c \in {Days, Pieces, ChunkDays, MaxRuns, MaxFaults} : c \in Nat
    /\ Calendars \subseteq SUBSET (1..Days)

VARIABLES
    source,     \* of which fetcher
    clock,      \* pieces of the days that have gone by
    trading,    \* days with a market
    stored,     \* pieces in the table of candles
    marked,     \* days in fetch_progress
    run,        \* [from, to, force]: what is left of a run
    pending,    \* days written, not yet marked
    runs, faults,
    owed,       \* pieces of days that a run has passed without an error
    spoiled     \* days that are not whole for a reason (both for the properties)

fetchVars == <<source, clock, trading, stored, marked, run, pending, runs, faults, owed, spoiled>>

NoRun == [from |-> 1, to |-> 0, force |-> FALSE]
All(days) == (days \cap trading) \X (1..Pieces)
Published(days) == {x \in All(days) : (x[1] - 1) * Pieces + x[2] <= clock}
Over(d) == d * Pieces <= clock

FetchInit ==
    /\ source \in {"dukascopy", "groww"}
    /\ clock = 0 /\ trading \in Calendars
    /\ stored = {} /\ marked = {} /\ run = NoRun /\ pending = {}
    /\ runs = 0 /\ faults = 0 /\ owed = {} /\ spoiled = {}

ClockPasses ==
    /\ clock < Days * Pieces
    /\ clock' = clock + 1
    /\ UNCHANGED <<source, trading, stored, marked, run, pending, runs, faults, owed, spoiled>>

(* main: a range is asked for, any; --force only of Dukascopy.             *)
StartRun ==
    /\ run.from > run.to /\ pending = {} /\ runs < MaxRuns
    /\ runs' = runs + 1
    /\ \E from \in 1..Days : \E to \in from..Days : \E force \in BOOLEAN :
          /\ source = "groww" => ~force
          /\ run' = [from |-> from, to |-> to, force |-> force]
    /\ UNCHANGED <<source, clock, trading, stored, marked, pending, faults, owed, spoiled>>

Fault == faults < MaxFaults /\ faults' = faults + 1
Crash ==
    /\ (run.from <= run.to \/ pending # {})
    /\ run' = NoRun /\ pending' = {}
    /\ UNCHANGED <<source, clock, trading, stored, marked, runs, faults, owed, spoiled>>

-----------------------------------------------------------------------------
(* The days up to "last" are done with, without an error.                  *)
Passed(days) == owed' = owed \cup Published(days)
MoveOn(last) == run' = [run EXCEPT !.from = last + 1]

(* The answer for these days is written: all of it, what there is after    *)
(* some of it was lost unnoticed (a damaged file counts as an empty hour, a*)
(* candle without prices is left out), or nothing, because the store       *)
(* refuses, which nobody hears of.                                         *)
Write(days) ==
    \/ /\ stored' = stored \cup Published(days)
       /\ spoiled' = spoiled \cup {d \in days : ~Over(d)}
       /\ UNCHANGED faults
    \/ /\ Fault
       /\ \E x \in Published(days) :
             /\ stored' = stored \cup (Published(days) \ {x})
             /\ spoiled' = spoiled \cup {x[1]} \cup {d \in days : ~Over(d)}
    \/ /\ Fault
       /\ spoiled' = spoiled \cup days
       /\ UNCHANGED stored

(* A day that is marked is skipped.                                        *)
SkipDay ==
    /\ source = "dukascopy" /\ run.from <= run.to /\ pending = {}
    /\ run.from \in marked /\ ~run.force
    /\ Passed({run.from}) /\ MoveOn(run.from)
    /\ UNCHANGED <<source, clock, trading, stored, marked, pending, runs, faults, spoiled>>

FetchDay ==
    /\ source = "dukascopy" /\ run.from <= run.to /\ pending = {}
    /\ run.from \notin marked \/ run.force
    /\ Write({run.from}) /\ pending' = {run.from}
    /\ UNCHANGED <<source, clock, trading, marked, run, runs, owed>>

(* Planted fault: what could be had of the day is written, and it is done. *)
DayIncomplete_Kept ==
    /\ source = "dukascopy" /\ run.from <= run.to /\ pending = {}
    /\ run.from \notin marked \/ run.force
    /\ Fault
    /\ \E x \in SUBSET Published({run.from}) : stored' = stored \cup x
    /\ pending' = {run.from}
    /\ UNCHANGED <<source, clock, trading, marked, run, runs, owed, spoiled>>

(* Hours that could not be had: nothing is written, the day is left for    *)
(* the next run.                                                           *)
DayIncomplete ==
    /\ source = "dukascopy" /\ run.from <= run.to /\ pending = {}
    /\ run.from \notin marked \/ run.force
    /\ Fault
    /\ MoveOn(run.from)
    /\ UNCHANGED <<source, clock, trading, stored, marked, pending, runs, owed, spoiled>>

(* mark_fetched, also of a day without candles.                            *)
MarkDay ==
    /\ source = "dukascopy" /\ pending # {}
    /\ \/ marked' = marked \cup pending /\ UNCHANGED faults
       \/ Fault /\ UNCHANGED marked
    /\ Passed(pending) /\ MoveOn(run.from) /\ pending' = {}
    /\ UNCHANGED <<source, clock, trading, stored, runs, spoiled>>

-----------------------------------------------------------------------------
ChunkEnd == Min({run.from + ChunkDays - 1, run.to})
TheChunk == run.from..ChunkEnd
ChunkKnown == {run.from, ChunkEnd} \subseteq marked

(* A chunk is skipped if its first and its last day are marked; the days   *)
(* between need not be, if they came from runs over other ranges.          *)
SkipChunk ==
    /\ source = "groww" /\ run.from <= run.to /\ pending = {}
    /\ ChunkKnown
    /\ Passed(TheChunk) /\ MoveOn(ChunkEnd)
    /\ spoiled' = spoiled \cup (TheChunk \ marked)
    /\ UNCHANGED <<source, clock, trading, stored, marked, pending, runs, faults>>

(* The answer: its candles are written at once, and its days marked after. *)
FetchChunk ==
    /\ source = "groww" /\ run.from <= run.to /\ pending = {}
    /\ ~ChunkKnown
    /\ Write(TheChunk)
    /\ pending' = {x[1] : x \in Published(TheChunk)}
    /\ IF pending' = {} THEN MoveOn(ChunkEnd) ELSE UNCHANGED run
    /\ UNCHANGED <<source, clock, trading, marked, runs, owed>>

(* mark_fetched for one of the days, in any order.                         *)
MarkChunkDay(d) ==
    /\ source = "groww"
    /\ \/ marked' = marked \cup {d} /\ UNCHANGED faults
       \/ Fault /\ UNCHANGED marked
    /\ Passed({d}) /\ pending' = pending \ {d}
    /\ IF pending' = {} THEN MoveOn(ChunkEnd) ELSE UNCHANGED run
    /\ UNCHANGED <<source, clock, trading, stored, runs, spoiled>>

(* Three attempts have failed: the run goes on with the next chunk.        *)
ChunkFails ==
    /\ source = "groww" /\ run.from <= run.to /\ pending = {}
    /\ ~ChunkKnown
    /\ Fault
    /\ MoveOn(ChunkEnd)
    /\ UNCHANGED <<source, clock, trading, stored, marked, pending, runs, owed, spoiled>>

FetchNext ==
    \/ ClockPasses \/ StartRun \/ Crash
    \/ SkipDay \/ FetchDay \/ DayIncomplete \/ MarkDay
    \/ SkipChunk \/ FetchChunk \/ ChunkFails \/ (\E d \in pending : MarkChunkDay(d))

FetchSpec == FetchInit /\ [][FetchNext]_fetchVars

-----------------------------------------------------------------------------
(* "No silent holes", "resumable": of a day that a run has passed without  *)
(* an error everything there was at that time is stored, over crashes,     *)
(* failures and runs over other ranges, but for days that were fetched     *)
(* before they were over, whose answer was damaged or refused by the store,*)
(* or that lay between two marked ones.                                    *)
NoSilentHoles == \A x \in owed : x[1] \in spoiled \/ x \in stored

=============================================================================
