----------------------------- MODULE TradeRecorder -----------------------------
(***************************************************************************)
(* The batching trade recorder of the research engine                      *)
(* (execution/trade_recorder.py) over its store                            *)
(* (db/research_store.write_trades_batch), as the threads see it: the feed *)
(* thread records trades and flushes when the buffer is full, a timer      *)
(* thread flushes periodically, and the thread that stops the engine       *)
(* flushes one last time.  A flush copies the buffer under the lock,       *)
(* writes without it, and takes the lock again to trim the buffer.         *)
(*                                                                         *)
(* A trade is an opaque value with its deduplication key; the store keeps  *)
(* one row per trade id, so a trade written twice is there once.           *)
(***************************************************************************)
EXTENDS Integers, Sequences

CONSTANTS
    Trades,         \* trades the engine may hand over
    DedupKey,       \* (variant, instrument, minute) of each
    MaxBuffer,      \* max_buffer_size
    MaxHanded       \* bound on the trades handed over

RecorderParameters ==
    /\ MaxBuffer \in Nat \ {0} /\ MaxHanded \in Nat

Threads == {"feed", "timer", "stopper"}

VARIABLES
    buffer,         \* _buffer
    seen,           \* _seen_today
    running,        \* _running, of the orchestrator and of the recorder
    pc,             \* per thread: "idle", or its next step
    batch,          \* per thread: the trade it handles, then its copy of the buffer
    db,             \* the trades table
    handed,         \* trades handed over so far
    accepted,       \* history: trades record_trade took
    overlapped      \* history: two flushes have been under way at once

recorderVars == <<buffer, seen, running, pc, batch, db, handed, accepted, overlapped>>

RecorderInit ==
    /\ buffer = <<>> /\ seen = {} /\ running = TRUE
    /\ pc = [t \in Threads |-> "idle"]
    /\ batch = [t \in Threads |-> <<>>]
    /\ db = {} /\ handed = 0 /\ accepted = {} /\ overlapped = FALSE

Elements(s) == {s[i] : i \in DOMAIN s}

(* A tick or candle handler of the orchestrator, which runs only while the *)
(* engine does, has a trade to record.                                     *)
Handle(trade) ==
    /\ running /\ pc["feed"] = "idle" /\ handed < MaxHanded
    /\ handed' = handed + 1
    /\ batch' = [batch EXCEPT !["feed"] = <<trade>>]
    /\ pc' = [pc EXCEPT !["feed"] = "record"]
    /\ UNCHANGED <<buffer, seen, running, db, accepted, overlapped>>

(* record_trade: dropped when its key was seen today, else buffered; a     *)
(* full buffer makes the feed thread flush, after it has let go the lock.  *)
Record ==
    LET trade == Head(batch["feed"])
        fresh == DedupKey[trade] \notin seen
        size  == Len(buffer) + 1
    IN  /\ pc["feed"] = "record"
        /\ seen' = seen \cup {DedupKey[trade]}
        /\ buffer' = IF fresh THEN Append(buffer, trade) ELSE buffer
        /\ accepted' = IF fresh THEN accepted \cup {trade} ELSE accepted
        /\ pc' = [pc EXCEPT !["feed"] = IF fresh /\ size >= MaxBuffer THEN "copy" ELSE "idle"]
        /\ UNCHANGED <<running, batch, db, handed, overlapped>>

(* _periodic_flush; it is scheduled again when its flush has ended.        *)
TimerFires ==
    /\ running /\ pc["timer"] = "idle"
    /\ pc' = [pc EXCEPT !["timer"] = "copy"]
    /\ UNCHANGED <<buffer, seen, running, batch, db, handed, accepted, overlapped>>

(* stop: the timer is cancelled (a flush of it may be under way), and the  *)
(* stopping thread flushes.                                                *)
Stop ==
    /\ running
    /\ running' = FALSE
    /\ pc' = [pc EXCEPT !["stopper"] = "copy"]
    /\ UNCHANGED <<buffer, seen, batch, db, handed, accepted, overlapped>>

(* reset_daily, by the feed thread on the first tick of a new day.         *)
ResetDaily ==
    /\ running /\ pc["feed"] = "idle"
    /\ seen' = {}
    /\ UNCHANGED <<buffer, running, pc, batch, db, handed, accepted, overlapped>>

Overlaps(t) ==
    \/ overlapped
    \/ buffer # <<>> /\ \E u \in Threads \ {t} : pc[u] \in {"write", "trim"}

(* _flush, in three steps: nothing to do for an empty buffer.              *)
Copy(t) ==
    /\ pc[t] = "copy"
    /\ batch' = [batch EXCEPT ![t] = buffer]
    /\ pc' = [pc EXCEPT ![t] = IF buffer = <<>> THEN "idle" ELSE "write"]
    /\ overlapped' = Overlaps(t)
    /\ UNCHANGED <<buffer, seen, running, db, handed, accepted>>

WriteSucceeds(t) ==
    /\ pc[t] = "write"
    /\ db' = db \cup Elements(batch[t])
    /\ pc' = [pc EXCEPT ![t] = "trim"]
    /\ UNCHANGED <<buffer, seen, running, batch, handed, accepted, overlapped>>

(* Planted fault: the count of the batch is returned after an error too.   *)
WriteFails_Reported(t) ==
    /\ pc[t] = "write"
    /\ pc' = [pc EXCEPT ![t] = "trim"]
    /\ UNCHANGED <<buffer, seen, running, batch, db, handed, accepted, overlapped>>

(* A failed write is rolled back; the trades stay in the buffer.           *)
WriteFails(t) ==
    /\ pc[t] = "write"
    /\ pc' = [pc EXCEPT ![t] = "idle"]
    /\ UNCHANGED <<buffer, seen, running, batch, db, handed, accepted, overlapped>>

(* Planted fault: the buffer is emptied, not trimmed.                      *)
Trim_All(t) ==
    /\ pc[t] = "trim"
    /\ buffer' = <<>>
    /\ pc' = [pc EXCEPT ![t] = "idle"]
    /\ UNCHANGED <<seen, running, batch, db, handed, accepted, overlapped>>

(* As many trades are taken off the front as the batch had.                *)
Trim(t) ==
    /\ pc[t] = "trim"
    /\ buffer' = SubSeq(buffer, Len(batch[t]) + 1, Len(buffer))
    /\ pc' = [pc EXCEPT ![t] = "idle"]
    /\ UNCHANGED <<seen, running, batch, db, handed, accepted, overlapped>>

FlushStep(t) == Copy(t) \/ WriteSucceeds(t) \/ WriteFails(t) \/ Trim(t)

RecorderNext ==
    \/ \E trade \in Trades : Handle(trade)
    \/ Record \/ TimerFires \/ Stop \/ ResetDaily
    \/ \E t \in Threads : FlushStep(t)

RecorderSpec == RecorderInit /\ [][RecorderNext]_recorderVars

(* Threads run, the timer fires, and a store that is asked again and again *)
(* succeeds in the end.                                                    *)
Fairness ==
    /\ WF_recorderVars(Record) /\ WF_recorderVars(TimerFires)
    /\ \A t \in Threads : WF_recorderVars(FlushStep(t)) /\ SF_recorderVars(WriteSucceeds(t))

-----------------------------------------------------------------------------
RecorderTypes ==
    /\ buffer \in Seq(Trades)
    /\ seen \subseteq {DedupKey[trade] : trade \in Trades}
    /\ running \in BOOLEAN
    /\ pc \in [Threads -> {"idle", "record", "copy", "write", "trim"}]
    /\ batch \in [Threads -> Seq(Trades)]
    /\ db \subseteq Trades /\ accepted \subseteq Trades
    /\ handed \in Nat
    /\ \A t \in Threads : pc[t] \in {"write", "trim"} => batch[t] # <<>>

(* A trade that was accepted is in the table or still in the buffer:       *)
(* failed writes, retries, a stop in the middle of a handler and trades    *)
(* recorded while a batch is being written lose nothing, as long as no     *)
(* flush begins while another one is under way.  The types are part of it. *)
NothingLost ==
    /\ RecorderTypes
    /\ ~overlapped => accepted \subseteq db \cup Elements(buffer)

(* A trade accepted while the engine keeps running reaches the table.      *)
EventuallyWritten ==
    \A trade \in Trades : trade \in accepted ~> (trade \in db \/ ~running \/ overlapped)

=============================================================================
