------------------------------- MODULE CfdRunner -------------------------------
(***************************************************************************)
(* The CFD process: the threads of main_cfd_paper and what they do to one  *)
(* paper and one live executor, which the MultiAccountManager calls in     *)
(* this order.  The main thread runs the broker's event loop; ticks,       *)
(* candles and order coroutines are callbacks of it, and so is, at any     *)
(* point of them, the signal handler.  The monitor thread flattens in the  *)
(* flatten windows, the chat bot's thread on a confirmed command.  No lock *)
(* is taken anywhere.                                                      *)
(*                                                                         *)
(* PaperExecutor and CTraderExecutor describe what each call does to an    *)
(* executor.  Here the calls are cut where threads may switch, and only    *)
(* what the threads share is kept: which positions there are, which are    *)
(* closed, which keys are taken, which closes are under way.  A signal     *)
(* opens at most one position per executor, numbered like the signal.      *)
(***************************************************************************)
EXTENDS Integers, Sequences, FiniteSets

CONSTANTS
    Strategies,
    Instrument,     \* the instrument of each strategy
    Windows,        \* per slot of time: is it a flatten window?
    Instruments,    \* what the broker is asked about
    MaxSignals      \* bound on the signals one process takes

Slots == DOMAIN Windows

ASSUME CfdRunnerAssumption ==
    /\ Windows \in Seq(BOOLEAN) /\ Windows # <<>>
    /\ Instrument \in [Strategies -> Instruments]
    /\ MaxSignals \in Nat
    /\ {"all", "none"} \cap Instruments = {}

Threads == {"main", "monitor", "bot"}
Ids == 1..MaxSignals

VARIABLES
    slot,           \* the time
    pc,             \* per thread: its next step
    todo,           \* per thread: paper positions of its pass still to visit
    cur,            \* per thread: the paper position in hand
    scope,          \* per thread: the instruments its pass is about
    blocked,        \* what the candle in hand found of the flatten window
    of,             \* the strategy of each signal taken
    armed,          \* signals the paper executor waits to fill
    held,           \* _positions of the paper executor
    closed,         \* positions of it marked CLOSED
    keys,           \* _open_keys of it
    booked,         \* history: positions whose result it booked
    live,           \* the live executor's positions
    scheduled,      \* close coroutines the loop has not run
    futures,        \* those the signal handler waits for
    stopping,       \* the signal handler runs
    pending,        \* the chat command that may be confirmed
    paused,         \* the pause flag: the chat bot's, mirrored to a file
    flag,           \* the pause flag of _bot_data, which _on_candle reads
    pausedAtBoot,   \* history
    standing        \* history: what the owner wants closed and may confirm

threadVars == <<pc, todo, cur, scope>>
paperVars == <<armed, held, closed, keys, booked>>
liveVars == <<live, scheduled, futures>>
chatVars == <<pending, standing>>
pauseVars == <<paused, flag, pausedAtBoot>>
vars == <<slot, threadVars, blocked, of, paperVars, liveVars, stopping, chatVars, pauseVars>>

Nothing == [all |-> FALSE, inst |-> "none"]

Init ==
    /\ slot = 1
    /\ pc = [t \in Threads |-> "idle"]
    /\ todo = [t \in Threads |-> {}]
    /\ cur = [t \in Threads |-> 0]
    /\ scope = [t \in Threads |-> {}]
    /\ blocked = FALSE /\ of = <<>>
    /\ armed = {} /\ held = {} /\ closed = {} /\ keys = {} /\ booked = {}
    /\ live = [n \in Ids |-> "none"] /\ scheduled = {} /\ futures = {}
    /\ stopping = FALSE
    /\ pending = Nothing /\ standing = "none"
    /\ paused \in BOOLEAN /\ flag = paused /\ pausedAtBoot = paused

Up == pc["main"] # "exited"

Goes(t, from, to) == Up /\ pc[t] = from /\ pc' = [pc EXCEPT ![t] = to]

OpenPaper == held \ closed
OpenLive == {n \in Ids : live[n] \in {"open", "closing"}}

ArmsOf(s) == {n \in armed : of[n] = s}

(* _entries_blocked, and what _tick_schedule asks.                         *)
InWindow == Windows[slot]

-----------------------------------------------------------------------------
(* The main thread.                                                        *)

(* A candle closes: _on_candle asks once whether entries are blocked.      *)
Candle ==
    /\ Goes("main", "idle", "candle")
    /\ blocked' = InWindow
    /\ UNCHANGED <<slot, todo, cur, scope, of, paperVars, liveVars, stopping, chatVars, pauseVars>>

(* A strategy it evaluates gives a signal, which is not suppressed.        *)
TakeSignal(s) ==
    /\ ~blocked /\ ~flag
    /\ Len(of) < MaxSignals
    /\ Goes("main", "candle", "paper")
    /\ of' = Append(of, s)
    /\ UNCHANGED <<slot, todo, cur, scope, blocked, paperVars, liveVars, stopping, chatVars,
                   pauseVars>>

CandleEnds ==
    /\ Goes("main", "candle", "idle")
    /\ blocked' = FALSE
    /\ UNCHANGED <<slot, todo, cur, scope, of, paperVars, liveVars, stopping, chatVars, pauseVars>>

(* on_signal of the paper executor: a fill of a free key, an arm, which    *)
(* replaces one there is, or nothing (a key taken, a guard that says no).  *)
PaperFills ==
    LET n == Len(of)
    IN  /\ Goes("main", "paper", "key")
        /\ of[n] \notin keys /\ ArmsOf(of[n]) = {}
        /\ held' = held \cup {n} /\ cur' = [cur EXCEPT !["main"] = n]
        /\ UNCHANGED <<slot, todo, scope, blocked, of, armed, closed, keys, booked, liveVars,
                       stopping, chatVars, pauseVars>>

PaperArms ==
    LET n == Len(of)
    IN  /\ Goes("main", "paper", "live")
        /\ of[n] \notin keys
        /\ armed' = (armed \ ArmsOf(of[n])) \cup {n}
        /\ UNCHANGED <<slot, todo, cur, scope, blocked, of, held, closed, keys, booked, liveVars,
                       stopping, chatVars, pauseVars>>

PaperDeclines ==
    /\ Goes("main", "paper", "live")
    /\ of[Len(of)] \in keys \/ ArmsOf(of[Len(of)]) = {}
    /\ UNCHANGED <<slot, todo, cur, scope, blocked, of, paperVars, liveVars, stopping, chatVars,
                   pauseVars>>

(* _fill, continued: the key follows the position.                         *)
TakeKey(from, to) ==
    /\ Goes("main", from, to)
    /\ keys' = keys \cup {of[cur["main"]]}
    /\ cur' = [cur EXCEPT !["main"] = 0]
    /\ UNCHANGED <<slot, todo, scope, blocked, of, armed, held, closed, booked, liveVars, stopping,
                   chatVars, pauseVars>>

(* on_signal of the live executor: an order or an arm that may become one, *)
(* or nothing.                                                             *)
LiveTakes ==
    LET n == Len(of)
    IN  /\ Goes("main", "live", "candle")
        /\ \A m \in OpenLive : of[m] # of[n]
        /\ live' = [live EXCEPT ![n] = "asked"]
        /\ UNCHANGED <<slot, todo, cur, scope, blocked, of, paperVars, scheduled, futures, stopping,
                       chatVars, pauseVars>>

LiveDeclines ==
    /\ Goes("main", "live", "candle")
    /\ UNCHANGED <<slot, todo, cur, scope, blocked, of, paperVars, liveVars, stopping, chatVars,
                   pauseVars>>

(* A tick reaches an arm's trigger; neither the window nor /pause is asked.*)
ArmFills(n) ==
    /\ n \in armed /\ of[n] \notin keys
    /\ Goes("main", "idle", "armKey")
    /\ armed' = armed \ {n} /\ held' = held \cup {n}
    /\ cur' = [cur EXCEPT !["main"] = n]
    /\ UNCHANGED <<slot, todo, scope, blocked, of, closed, keys, booked, liveVars, stopping,
                   chatVars, pauseVars>>

(* An arm is aged, or not filled when its trigger is reached.              *)
ArmExpires(n) ==
    /\ pc["main"] = "idle" /\ n \in armed
    /\ armed' = armed \ {n}
    /\ UNCHANGED <<slot, threadVars, blocked, of, held, closed, keys, booked, liveVars, stopping,
                   chatVars, pauseVars>>

(* A tick or a candle closes a paper position.                             *)
ExitHit(n) ==
    /\ n \in OpenPaper
    /\ Goes("main", "idle", "close")
    /\ cur' = [cur EXCEPT !["main"] = n]
    /\ UNCHANGED <<slot, todo, scope, blocked, of, paperVars, liveVars, stopping, chatVars,
                   pauseVars>>

(* The opening fill of the order, or its end: refused, expired, dropped.   *)
Answer(n, filled) ==
    /\ pc["main"] = "idle" /\ live[n] = "asked"
    /\ live' = [live EXCEPT ![n] = IF filled THEN "open" ELSE "none"]
    /\ UNCHANGED <<slot, threadVars, blocked, of, paperVars, scheduled, futures, stopping, chatVars,
                   pauseVars>>

(* The broker closes a live position by the stop it holds.                 *)
BrokerExit(n) ==
    /\ pc["main"] = "idle" /\ n \in OpenLive
    /\ live' = [live EXCEPT ![n] = "none"]
    /\ scheduled' = scheduled \ {n}
    /\ UNCHANGED <<slot, threadVars, blocked, of, paperVars, futures, stopping, chatVars, pauseVars>>

(* Planted fault: a refused close leaves the position guarded.             *)
LoopStep_KeepsGuard(n, ok) ==
    /\ pc["main"] = "idle" /\ n \in scheduled
    /\ scheduled' = scheduled \ {n}
    /\ live' = [live EXCEPT ![n] = IF ok THEN "none" ELSE @]
    /\ UNCHANGED <<slot, threadVars, blocked, of, paperVars, futures, stopping, chatVars, pauseVars>>

(* The loop runs a close: the broker does it, or refuses and the guard     *)
(* against a second close is released.                                     *)
LoopStep(n, ok) ==
    /\ pc["main"] = "idle" /\ n \in scheduled
    /\ scheduled' = scheduled \ {n}
    /\ live' = [live EXCEPT ![n] = IF ok THEN "none" ELSE "open"]
    /\ UNCHANGED <<slot, threadVars, blocked, of, paperVars, futures, stopping, chatVars, pauseVars>>

-----------------------------------------------------------------------------
(* A flatten, of any thread: the manager passes over the paper executor's  *)
(* positions, then over the live one's.                                    *)
Starts(t, from, S) ==
    /\ Goes(t, from, "visit")
    /\ todo' = [todo EXCEPT ![t] = {n \in held : Instrument[of[n]] \in S}]
    /\ scope' = [scope EXCEPT ![t] = S]
    /\ cur' = [cur EXCEPT ![t] = 0]

(* The next paper position: passed over unless is_open.                    *)
Visit(t, n) ==
    /\ n \in todo[t]
    /\ Goes(t, "visit", IF n \in closed THEN "visit" ELSE "close")
    /\ todo' = [todo EXCEPT ![t] = @ \ {n}]
    /\ cur' = [cur EXCEPT ![t] = IF n \in closed THEN 0 ELSE n]
    /\ UNCHANGED <<slot, scope, blocked, of, paperVars, liveVars, stopping, chatVars, pauseVars>>

(* Planted fault: a position marked closed is dropped at once.             *)
MarkClosed_Drops(t) ==
    /\ Goes(t, "close", "book")
    /\ closed' = closed \cup {cur[t]} /\ held' = held \ {cur[t]}
    /\ UNCHANGED <<slot, todo, cur, scope, blocked, of, armed, keys, booked, liveVars, stopping,
                   chatVars, pauseVars>>

(* _close_position: the status, ...                                        *)
MarkClosed(t) ==
    /\ Goes(t, "close", "book")
    /\ closed' = closed \cup {cur[t]}
    /\ UNCHANGED <<slot, todo, cur, scope, blocked, of, armed, held, keys, booked, liveVars,
                   stopping, chatVars, pauseVars>>

(* ... the guard's add_realized_pnl, ...                                   *)
Book(t) ==
    /\ Goes(t, "book", "drop")
    /\ booked' = booked \cup {cur[t]}
    /\ UNCHANGED <<slot, todo, cur, scope, blocked, of, armed, held, closed, keys, liveVars,
                   stopping, chatVars, pauseVars>>

(* ... the key and the position; then the pass goes on.                    *)
Drop(t) ==
    /\ Goes(t, "drop", IF t = "main" /\ ~stopping THEN "idle" ELSE "visit")
    /\ keys' = keys \ {of[cur[t]]} /\ held' = held \ {cur[t]}
    /\ cur' = [cur EXCEPT ![t] = 0]
    /\ UNCHANGED <<slot, todo, scope, blocked, of, armed, closed, booked, liveVars, stopping,
                   chatVars, pauseVars>>

(* _schedule_full_closes: what is open and not being closed.               *)
ToClose(t) == {n \in Ids : live[n] = "open" /\ Instrument[of[n]] \in scope[t]}

Schedule(S) ==
    /\ live' = [n \in Ids |-> IF n \in S THEN "closing" ELSE live[n]]
    /\ scheduled' = scheduled \cup S

(* The live executor's turn ends the pass; the signal handler waits.       *)
PassEnds(t) ==
    /\ todo[t] = {}
    /\ Goes(t, "visit", IF t = "main" THEN "wait" ELSE "idle")
    /\ Schedule(ToClose(t))
    /\ futures' = IF t = "main" THEN ToClose(t) ELSE futures
    /\ scope' = [scope EXCEPT ![t] = {}]
    /\ UNCHANGED <<slot, todo, cur, blocked, of, paperVars, stopping, chatVars, pauseVars>>

PassStep(t) ==
    \/ \E n \in Ids : Visit(t, n)
    \/ MarkClosed(t) \/ Book(t) \/ Drop(t) \/ PassEnds(t)

-----------------------------------------------------------------------------
(* _tick_schedule, every 15 s: in a flatten window, as long as anything is *)
(* open, it is flattened again.                                            *)
MonitorWakes ==
    /\ ~stopping /\ InWindow
    /\ OpenPaper \cup OpenLive # {}
    /\ Starts("monitor", "idle", Instruments)
    /\ UNCHANGED <<slot, blocked, of, paperVars, liveVars, stopping, chatVars, pauseVars>>

(* Time goes on, with or without the process.                              *)
ClockTick ==
    /\ slot + 1 \in Slots
    /\ slot' = slot + 1
    /\ UNCHANGED <<threadVars, blocked, of, paperVars, liveVars, stopping, chatVars, pauseVars>>

-----------------------------------------------------------------------------
(* The chat bot handles one message after the other.                       *)
Chatting == Up /\ ~stopping /\ pc["bot"] = "idle"

(* /closeall, and /close with an instrument.                               *)
AskAll ==
    /\ Chatting
    /\ pending' = [all |-> TRUE, inst |-> "none"]
    /\ standing' = "all"
    /\ UNCHANGED <<slot, threadVars, blocked, of, paperVars, liveVars, stopping, pauseVars>>

(* Planted fault: a /closeall that waits goes on waiting.                  *)
AskOne_KeepsAll(inst) ==
    /\ Chatting
    /\ pending' = [pending EXCEPT !.inst = inst]
    /\ standing' = inst
    /\ UNCHANGED <<slot, threadVars, blocked, of, paperVars, liveVars, stopping, pauseVars>>

AskOne(inst) ==
    /\ Chatting
    /\ pending' = [all |-> FALSE, inst |-> inst]
    /\ standing' = inst
    /\ UNCHANGED <<slot, threadVars, blocked, of, paperVars, liveVars, stopping, pauseVars>>

(* 30 seconds after the last command: a YES would only be told it is late. *)
HalfMinute ==
    /\ Up /\ pending # Nothing
    /\ pending' = Nothing /\ standing' = "none"
    /\ UNCHANGED <<slot, threadVars, blocked, of, paperVars, liveVars, stopping, pauseVars>>

(* handle_confirmation: any text but YES cancels.                          *)
Cancel ==
    /\ Chatting
    /\ pending' = Nothing /\ standing' = "none"
    /\ UNCHANGED <<slot, threadVars, blocked, of, paperVars, liveVars, stopping, pauseVars>>

(* YES in time.  One instrument is only flattened if it has positions.     *)
Confirm ==
    LET S == IF pending.all THEN Instruments ELSE {pending.inst}
    IN  /\ Chatting /\ pending # Nothing
        /\ pending' = IF pending.all THEN [pending EXCEPT !.all = FALSE]
                      ELSE [pending EXCEPT !.inst = "none"]
        /\ standing' = "none"
        /\ \/ /\ pending.all \/ \E n \in OpenPaper \cup OpenLive : Instrument[of[n]] \in S
              /\ Starts("bot", "idle", S)
           \/ /\ ~pending.all /\ \A n \in OpenPaper \cup OpenLive : Instrument[of[n]] \notin S
              /\ UNCHANGED threadVars
        /\ UNCHANGED <<slot, blocked, of, paperVars, liveVars, stopping, pauseVars>>

(* /pause and /resume: bot_data of the chat library's application, a copy  *)
(* of the runner's, and the file.                                          *)
SetPaused(on) ==
    /\ Chatting
    /\ paused' = on
    /\ UNCHANGED <<slot, threadVars, blocked, of, paperVars, liveVars, stopping, chatVars, flag,
                   pausedAtBoot>>

-----------------------------------------------------------------------------
(* SIGTERM or SIGINT, in the middle of whatever the main thread does, which*)
(* it does not come back to: the handler stops the chat bot, which then    *)
(* takes no message, flattens, waits and exits.                            *)
Signalled ==
    /\ ~stopping
    /\ stopping' = TRUE
    /\ pending' = Nothing /\ standing' = "none"
    /\ blocked' = FALSE
    /\ Starts("main", pc["main"], Instruments)
    /\ UNCHANGED <<slot, of, paperVars, liveVars, pauseVars>>

(* What was in memory is gone, at the broker it is still open.             *)
Exits ==
    /\ Up /\ pc["main"] = "wait"
    /\ pc' = [t \in Threads |-> IF t = "main" THEN "exited" ELSE "idle"]
    /\ todo' = [t \in Threads |-> {}] /\ cur' = [t \in Threads |-> 0]
    /\ scope' = [t \in Threads |-> {}]
    /\ armed' = {} /\ held' = {} /\ closed' = {} /\ keys' = {} /\ booked' = {}
    /\ scheduled' = {} /\ futures' = {}
    /\ UNCHANGED <<slot, blocked, of, live, stopping, chatVars, pauseVars>>

Unsent == futures \cap scheduled

FuturesDone == Unsent = {} /\ Exits

(* Planted fault: the wait has no timeout.                                 *)
WaitTimesOut_Never == FALSE /\ Exits

WaitTimesOut == Unsent # {} /\ Exits

(* load_persisted_pause.                                                   *)
BootFlag == paused

(* The service is started again.                                           *)
Boot ==
    /\ ~Up
    /\ pc' = [pc EXCEPT !["main"] = "idle"]
    /\ of' = <<>> /\ live' = [n \in Ids |-> "none"]
    /\ stopping' = FALSE
    /\ flag' = BootFlag /\ pausedAtBoot' = paused
    /\ UNCHANGED <<slot, todo, cur, scope, blocked, paperVars, scheduled, futures, chatVars,
                   paused>>

-----------------------------------------------------------------------------
MainStep ==
    \/ Candle \/ CandleEnds
    \/ \E s \in Strategies : TakeSignal(s)
    \/ PaperFills \/ PaperArms \/ PaperDeclines
    \/ TakeKey("key", "live") \/ TakeKey("armKey", "idle")
    \/ LiveTakes \/ LiveDeclines
    \/ \E n \in Ids : ArmFills(n) \/ ArmExpires(n) \/ ExitHit(n) \/ BrokerExit(n)

Next ==
    \/ MainStep
    \/ \E n \in Ids, ok \in BOOLEAN : LoopStep(n, ok) \/ Answer(n, ok)
    \/ \E t \in Threads : PassStep(t)
    \/ MonitorWakes \/ ClockTick
    \/ AskAll \/ (\E inst \in Instruments : AskOne(inst))
    \/ HalfMinute \/ Cancel \/ Confirm
    \/ \E on \in BOOLEAN : SetPaused(on)
    \/ Signalled \/ FuturesDone \/ WaitTimesOut \/ Boot

Spec == Init /\ [][Next]_vars

(* Each thread goes on with what it is in.                                 *)
MainRuns ==
    \/ CandleEnds \/ PaperArms \/ PaperDeclines \/ LiveDeclines
    \/ TakeKey("key", "live") \/ TakeKey("armKey", "idle")
    \/ PassStep("main") \/ FuturesDone \/ WaitTimesOut

MonitorRuns == MonitorWakes \/ PassStep("monitor")

(* Threads run, time passes, the broker answers and, asked to close again  *)
(* and again, closes.                                                      *)
FairSpec ==
    /\ Spec
    /\ WF_vars(MainRuns) /\ WF_vars(MonitorRuns) /\ WF_vars(PassStep("bot"))
    /\ WF_vars(ClockTick)
    /\ WF_vars(\E n \in Ids, ok \in BOOLEAN : Answer(n, ok))
    /\ SF_vars(\E n \in Ids : LoopStep(n, TRUE))

-----------------------------------------------------------------------------
TypeOK ==
    /\ slot \in Slots
    /\ armed \cup held \cup closed \cup booked \subseteq DOMAIN of
    /\ armed \cap held = {}
    /\ keys \subseteq Strategies
    /\ \A n \in Ids : live[n] # "none" => n \in DOMAIN of
    /\ \A n \in scheduled : live[n] = "closing"
    /\ futures # {} => stopping
    /\ \A t \in Threads : todo[t] \subseteq DOMAIN of
    /\ \A t \in Threads : pc[t] \in {"book", "drop"} => cur[t] \in closed

(* A position leaves the paper executor only after its result was booked,  *)
(* whichever threads close it at once.  The types are part of it.          *)
BookedBeforeGone == TypeOK /\ closed \ held \subseteq booked

Flat == OpenPaper = {} /\ OpenLive = {}

(* In the last window everything is closed and stays so, unless the process*)
(* is gone: whatever was signalled, armed, refused or under way before.    *)
FlatInTheEnd == <>[](Flat \/ ~Up)

(* A shutdown signal ends the process, whatever the loop can still do.     *)
ShutdownTerminates == stopping ~> ~Up

(* The chat means what it says.  The bot closes what was asked for last,   *)
(* within half a minute and with nothing said in between, and never twice; *)
(* and "a process restart does NOT silently resume trading": a process that *)
(* was paused when it started takes no signal before /resume.              *)
ChatCommandsHold ==
    [][/\ pc["bot"] = "idle" /\ pc'["bot"] = "visit" =>
             /\ standing # "none"
             /\ scope'["bot"] = IF standing = "all" THEN Instruments ELSE {standing}
       /\ Len(of') > Len(of) => ~(pausedAtBoot /\ paused)]_vars

=============================================================================
