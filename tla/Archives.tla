-------------------------------- MODULE Archives --------------------------------
(***************************************************************************)
(* What the research and the backtests read, in one model: a behaviour is  *)
(* one of the candle archive under the polled feed, of that under the      *)
(* pushed feed, or of the downloads of history.  The first two share what  *)
(* they are about: time, ticks, the table, the process and its builder.    *)
(***************************************************************************)
EXTENDS Integers

VARIABLES
    study,
    time, traded, archive, process, forming, starts, faults,
    client, offset, measured, backfilled, wasOpen, cursor, job, covered, excused,
    linked, task, lastRun, owed, cut,
    source, clock, trading, stored, marked, run, pending, runs, spoiled

(* A week of two days with a long weekend in between: at the end of it the *)
(* last tick is too old to be taken for the present, early in it it is not.*)
Polled == INSTANCE Mt5Feed WITH
    now <- time, pc <- process,
    Trading <- (1..4) \cup (16..18), Interval <- 2, Window <- 1, Chunk <- 4, MaxSpan <- 15,
    TrueOffset <- 4, Fallback <- 4, Rounding <- 4, Plausible <- 4,
    MaxTime <- 18, MaxStarts <- 2, MaxFaults <- 1

(* An outage, a second one before the debounce is over, and a restart.     *)
Pushed == INSTANCE CandleArchive WITH
    now <- time, pc <- process, troubles <- faults,
    Interval <- 2, Lookback <- 4, MaxSpan <- 6, Chunk <- 3, Debounce <- 3, Timeout <- 1,
    MaxTime <- 8, MaxStarts <- 2, MaxTroubles <- 2

(* Three runs over ranges of three days, with a holiday or without.        *)
Downloads == INSTANCE HistoryFetch WITH
    Days <- 3, Calendars <- {1..3, {1, 3}}, Pieces <- 2, ChunkDays <- 3,
    MaxRuns <- 3, MaxFaults <- 1

ArchivesParameters ==
    Polled!Mt5Parameters /\ Pushed!ArchiveParameters /\ Downloads!FetchParameters

sharedVars == <<time, traded, archive, process, forming, starts>>
polledVars == <<client, offset, measured, backfilled, wasOpen, cursor, job, covered, excused>>
pushedVars == <<linked, task, lastRun, cut>>
downloadVars == <<source, clock, trading, stored, marked, run, pending, runs, spoiled>>
archivesVars == <<sharedVars, polledVars, pushedVars, downloadVars, faults, owed>>

Unused == "unused"

NoProcess ==
    /\ time = 0 /\ traded = {} /\ archive = {} /\ process = Unused /\ forming = Unused
    /\ starts = 0
NoPolled ==
    /\ client = Unused /\ offset = 0 /\ measured = FALSE /\ backfilled = FALSE
    /\ wasOpen = Unused /\ cursor = 0 /\ job = Unused /\ covered = 0 /\ excused = FALSE
NoPushed == linked = FALSE /\ task = Unused /\ lastRun = 0 /\ cut = {}
NoDownloads ==
    /\ source = Unused /\ clock = 0 /\ trading = {} /\ stored = {} /\ marked = {}
    /\ run = Unused /\ pending = {} /\ runs = 0 /\ spoiled = {}

NoArchives ==
    NoProcess /\ NoPolled /\ NoPushed /\ NoDownloads /\ faults = 0 /\ owed = {}

ArchivesInit ==
    \/ study = "polled" /\ Polled!Mt5Init /\ NoPushed /\ NoDownloads /\ owed = {}
    \/ study = "pushed" /\ Pushed!ArchiveInit /\ NoPolled /\ NoDownloads
    \/ study = "downloads" /\ Downloads!FetchInit /\ NoProcess /\ NoPolled /\ NoPushed

ArchivesNext ==
    \/ study = "polled" /\ Polled!Mt5Next /\ UNCHANGED <<study, pushedVars, downloadVars, owed>>
    \/ study = "pushed" /\ Pushed!ArchiveNext /\ UNCHANGED <<study, polledVars, downloadVars>>
    \/ study = "downloads" /\ Downloads!FetchNext
       /\ UNCHANGED <<study, sharedVars, polledVars, pushedVars>>

-----------------------------------------------------------------------------
(* Whatever was missed, restarted, interrupted or asked for twice, what the*)
(* archive is said to hold is there, whole and once: what is fetched again *)
(* after an outage, a crash or a failure leaves no hole.                   *)
GapsHealed ==
    CASE study = "polled"    -> Polled!ArchiveWhole
      [] study = "pushed"    -> Pushed!RecentHolesHealed /\ Pushed!RowsWhole
      [] study = "downloads" -> Downloads!NoSilentHoles
      [] OTHER               -> TRUE

(* "Never the weekend fallback, which would misdate replayed candles".     *)
RightlyDated == study = "polled" => Polled!RightlyDated

=============================================================================
