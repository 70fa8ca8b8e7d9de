---------------------------- MODULE ReconnectingFeed ----------------------------
(***************************************************************************)
(* The feed that reconnects (broker/reconnect.py over broker/groww.py): the*)
(* main thread subscribes, starts a thread that consumes, and watches it;  *)
(* when consuming ends, or no tick comes for too long, it starts over, and *)
(* when the market closes it ends the process.                             *)
(*                                                                         *)
(* A consuming thread delivers ticks, is blocked without any, or has ended.*)
(* One that is given up on is not ended, and it signals its end, if that   *)
(* comes, through the event that its successor uses as well.  Time is      *)
(* counted in units longer than the polls and the waits between attempts,  *)
(* so a loop that has something to do does it before time passes.          *)
(***************************************************************************)
EXTENDS Integers

CONSTANTS
    Silence,        \* LIVENESS_TIMEOUT_S, in units
    MaxRetries,     \* max_retries; 0 is without limit
    MaxThreads      \* bound on the consuming threads that are still there

FeedParameters ==
    /\ Silence \in Nat \ {0} /\ MaxRetries \in Nat /\ MaxThreads \in Nat \ {0}

VARIABLES
    loop,           \* where _run_loop is; "exited" and "gaveUp" end it
    current,        \* the thread of the last attempt
    older,          \* threads of earlier attempts: delivering, blocked
    finished,       \* _consume_finished
    silence,        \* time since the last tick, or since the attempt
    retries,        \* _retry_count, up to the limit
    market          \* is_within_active_window

feedVars == <<loop, current, older, finished, silence, retries, market>>

FeedInit ==
    /\ loop = "start" /\ current = "none"
    /\ older = [live |-> 0, blocked |-> 0]
    /\ finished = FALSE /\ silence = 0 /\ retries = 0 /\ market = TRUE

Ended == loop \in {"exited", "gaveUp"}
Delivering == ~Ended /\ (current = "live" \/ older.live > 0)
Remaining == older.live + older.blocked

(* An attempt: _resubscribe drops the client and subscribes with a new one,*)
(* and goes on when that fails; consume may return at once, deliver, or    *)
(* block for want of a subscription.                                       *)
Connect ==
    /\ loop = "start"
    /\ current \in {"live", "blocked"} => Remaining < MaxThreads
    /\ older' = CASE current = "live"    -> [older EXCEPT !.live = @ + 1]
                  [] current = "blocked" -> [older EXCEPT !.blocked = @ + 1]
                  [] OTHER               -> older
    /\ current' \in {"live", "blocked", "ended"}
    /\ finished' = (current' = "ended")
    /\ silence' = 0
    /\ loop' = "monitor"
    /\ UNCHANGED <<retries, market>>

(* _monitor_liveness, first the event ...                                  *)
SeesEnd ==
    /\ loop = "monitor" /\ finished
    /\ retries' = 0
    /\ loop' = "reconnect"
    /\ UNCHANGED <<current, older, finished, silence, market>>

(* ... then the market: os._exit after the grace ...                       *)
SeesClose ==
    /\ loop = "monitor" /\ ~finished /\ ~market
    /\ loop' = "exited"
    /\ UNCHANGED <<current, older, finished, silence, retries, market>>

(* Planted fault: the main thread waits for the consuming one to end.      *)
SeesSilence_Joins ==
    /\ loop = "monitor" /\ finished /\ market /\ silence > Silence
    /\ loop' = "reconnect"
    /\ UNCHANGED <<current, older, finished, silence, retries, market>>

(* ... then the last tick: _force_stop_feed unsubscribes, so a thread that *)
(* was not blocked is now.                                                 *)
SeesSilence ==
    /\ loop = "monitor" /\ ~finished /\ market /\ silence > Silence
    /\ current' = IF current = "live" THEN "blocked" ELSE current
    /\ loop' = "reconnect"
    /\ UNCHANGED <<older, finished, silence, retries, market>>

(* The common end of an attempt.                                           *)
Retry ==
    /\ loop = "reconnect"
    /\ IF ~market THEN loop' = "exited" /\ UNCHANGED retries
       ELSE IF MaxRetries > 0 /\ retries >= MaxRetries
            THEN loop' = "gaveUp" /\ UNCHANGED retries
            ELSE /\ loop' = "start"
                 /\ retries' = IF MaxRetries > 0 THEN retries + 1 ELSE 0
    /\ UNCHANGED <<current, older, finished, silence, market>>

LoopStep == Connect \/ SeesEnd \/ SeesClose \/ SeesSilence \/ Retry

-----------------------------------------------------------------------------
(* What happens around it.  A tick, of any thread, is the one time stamp.  *)
Hear == Delivering /\ silence' = 0 /\ UNCHANGED <<loop, current, older, finished, retries, market>>

Breaks ==
    /\ ~Ended /\ current = "live"
    /\ current' = "blocked"
    /\ UNCHANGED <<loop, older, finished, silence, retries, market>>

(* The other side was silent, and is no longer.                            *)
Recovers ==
    /\ loop = "monitor" /\ current = "blocked"
    /\ current' = "live"
    /\ UNCHANGED <<loop, older, finished, silence, retries, market>>

Ends ==
    /\ ~Ended /\ current \in {"live", "blocked"}
    /\ current' = "ended" /\ finished' = TRUE
    /\ UNCHANGED <<loop, older, silence, retries, market>>

OldEnds(kind) ==
    /\ ~Ended /\ older[kind] > 0
    /\ older' = [older EXCEPT ![kind] = @ - 1]
    /\ finished' = TRUE
    /\ UNCHANGED <<loop, current, silence, retries, market>>

MarketCloses ==
    /\ ~Ended /\ market
    /\ market' = FALSE
    /\ UNCHANGED <<loop, current, older, finished, silence, retries>>

Around == Breaks \/ Recovers \/ Ends \/ (\E kind \in {"live", "blocked"} : OldEnds(kind)) \/ MarketCloses

(* Nothing for the loop to do: time passes, without a tick.                *)
Waiting == loop = "monitor" /\ ~finished /\ market /\ silence <= Silence

Pass ==
    /\ Waiting
    /\ silence' = silence + 1
    /\ UNCHANGED <<loop, current, older, finished, retries, market>>

=============================================================================
