---------------------------- MODULE CfdRunnerProofs ----------------------------
(***************************************************************************)
(* Proofs about CfdRunner for any strategies, instruments, windows and     *)
(* number of signals: whichever of the threads close a position of the     *)
(* paper executor, and wherever the signal handler takes the main thread   *)
(* away, its result is booked before it is gone; and what the owner says   *)
(* in the chat is what is done.                                            *)
(*                                                                         *)
(* The invariant has a part for the paper executor and the threads in it,  *)
(* with what a thread knows at each of its steps, one for the live         *)
(* executor, and one for the chat bot and the clock.                       *)
(***************************************************************************)
EXTENDS CfdRunner, SequenceTheorems, TLAPS

Steps == {"idle", "candle", "paper", "key", "live", "armKey", "close", "book", "drop", "visit",
          "wait", "exited"}

PaperTypes ==
    /\ of \in Seq(Strategies)
    /\ pc \in [Threads -> Steps]
    /\ todo \in [Threads -> SUBSET DOMAIN of]
    /\ cur \in [Threads -> Nat]
    /\ DOMAIN scope = Threads
    /\ armed \subseteq DOMAIN of /\ held \subseteq DOMAIN of
    /\ closed \subseteq DOMAIN of /\ booked \subseteq DOMAIN of
    /\ keys \subseteq Strategies

(* What a thread knows of the position in its hands.                       *)
InHand(t) ==
    /\ todo[t] \subseteq held \cup booked
    /\ pc[t] \in {"key", "armKey", "close", "book", "drop"} =>
           cur[t] \in DOMAIN of /\ cur[t] \in held \cup booked
    /\ pc[t] \in {"book", "drop"} => cur[t] \in closed
    /\ pc[t] = "drop" => cur[t] \in booked

PaperInv ==
    /\ PaperTypes
    /\ \A t \in Threads : InHand(t)
    /\ armed \cap held = {}
    /\ closed \ held \subseteq booked
    /\ pc["main"] \in {"paper", "key", "live"} => of # <<>>
    /\ pc["main"] = "paper" => Len(of) \notin armed \cup held

GoneInv ==
    ~Up => /\ armed = {} /\ held = {} /\ closed = {} /\ booked = {} /\ keys = {}
           /\ scheduled = {} /\ futures = {}
           /\ \A t \in Threads : todo[t] = {} /\ (t # "main" => pc[t] = "idle")

LiveStates == {"none", "asked", "open", "closing"}

LiveInv ==
    /\ live \in [Ids -> LiveStates] /\ scheduled \subseteq Ids
    /\ \A n \in Ids : live[n] # "none" => n \in DOMAIN of
    /\ \A n \in scheduled : live[n] = "closing"
    /\ futures # {} => stopping
    /\ pc["main"] \in {"visit", "wait"} => stopping
    /\ pc["main"] \in {"paper", "key", "live"} => Len(of) \in Ids /\ live[Len(of)] = "none"

(* What may be confirmed is what was asked for last; the flag of the       *)
(* process is the one it was started with.                                 *)
ChatInv ==
    /\ slot \in Slots
    /\ pending \in [all : BOOLEAN, inst : Instruments \cup {"none"}]
    /\ pending.all => pending.inst = "none"
    /\ standing = IF pending.all THEN "all" ELSE pending.inst
    /\ flag = pausedAtBoot

RunnerInv == PaperInv /\ GoneInv /\ LiveInv /\ ChatInv

LEMMA IdsNat == Ids \subseteq Nat /\ MaxSignals \in Nat
  BY CfdRunnerAssumption DEF Ids

-----------------------------------------------------------------------------
(* The main thread's steps, by what they do to the paper executor.         *)
LEMMA PaperMain ==
    ASSUME PaperInv, GoneInv, LiveInv, MainStep
    PROVE  PaperInv'
  <1> USE IdsNat DEF PaperInv, PaperTypes
  <1>1. CASE Candle \/ CandleEnds \/ PaperDeclines \/ LiveTakes \/ LiveDeclines
    BY <1>1 DEF Candle, CandleEnds, PaperDeclines, LiveTakes, LiveDeclines, Goes, InHand, Threads,
                Steps, paperVars
  <1>2. ASSUME NEW s \in Strategies, TakeSignal(s) PROVE PaperInv'
    <2>1. of' = Append(of, s) /\ Len(of') = Len(of) + 1 /\ of' \in Seq(Strategies)
          /\ DOMAIN of = 1..Len(of) /\ DOMAIN of' = 1..(Len(of) + 1) /\ Len(of) \in Nat
      BY <1>2 DEF TakeSignal
    <2>2. DOMAIN of \subseteq DOMAIN of' /\ Len(of') \notin DOMAIN of
      BY <2>1
    <2>3. of' # <<>>
      BY <2>1, AppendProperties
    <2> QED
      BY <1>2, <2>1, <2>2, <2>3 DEF TakeSignal, Goes, InHand, Threads, Steps, paperVars
  <1>3. CASE PaperFills \/ PaperArms
    <2>1. Len(of) \in DOMAIN of
      BY <1>3 DEF PaperFills, PaperArms, Goes
    <2>2. CASE PaperFills
      <3>1. Len(of) \notin armed
        BY <2>2 DEF PaperFills, Goes
      <3> QED
        BY <2>1, <2>2, <3>1 DEF PaperFills, Goes, InHand, Threads, Steps
    <2>3. CASE PaperArms
      BY <2>1, <2>3 DEF PaperArms, ArmsOf, Goes, InHand, Threads, Steps
    <2> QED
      BY <1>3, <2>2, <2>3
  <1>4. CASE TakeKey("key", "live") \/ TakeKey("armKey", "idle")
    <2>1. of[cur["main"]] \in Strategies
      BY <1>4 DEF TakeKey, Goes, InHand, Threads
    <2> QED
      BY <1>4, <2>1 DEF TakeKey, Goes, InHand, Threads, Steps
  <1>5. ASSUME NEW n \in Ids, ArmFills(n) PROVE PaperInv'
    BY <1>5 DEF ArmFills, Goes, InHand, Threads, Steps
  <1>6. ASSUME NEW n \in Ids, ArmExpires(n) PROVE PaperInv'
    BY <1>6 DEF ArmExpires, InHand, threadVars
  <1>7. ASSUME NEW n \in Ids, ExitHit(n) PROVE PaperInv'
    BY <1>7 DEF ExitHit, OpenPaper, Goes, InHand, Threads, Steps, paperVars
  <1>8. ASSUME NEW n \in Ids, BrokerExit(n) PROVE PaperInv'
    BY <1>8 DEF BrokerExit, InHand, threadVars, paperVars
  <1> QED
    BY <1>1, <1>2, <1>3, <1>4, <1>5, <1>6, <1>7, <1>8 DEF MainStep

(* A pass of any thread: status, booking, removal.                         *)
LEMMA PaperPass ==
    ASSUME PaperInv, NEW t \in Threads, PassStep(t)
    PROVE  PaperInv'
  <1> USE IdsNat DEF PaperInv, PaperTypes
  <1>1. ASSUME NEW n \in Ids, Visit(t, n) PROVE PaperInv'
    BY <1>1 DEF Visit, Goes, InHand, Threads, Steps, paperVars
  <1>2. CASE MarkClosed(t)
    BY <1>2 DEF MarkClosed, Goes, InHand, Threads, Steps
  <1>3. CASE Book(t)
    BY <1>3 DEF Book, Goes, InHand, Threads, Steps
  <1>4. CASE Drop(t)
    BY <1>4 DEF Drop, Goes, InHand, Threads, Steps
  <1>5. CASE PassEnds(t)
    BY <1>5 DEF PassEnds, Goes, InHand, Threads, Steps, paperVars
  <1> QED
    BY <1>1, <1>2, <1>3, <1>4, <1>5 DEF PassStep

(* The start of a pass.                                                    *)
LEMMA PaperStarts ==
    ASSUME PaperInv, NEW t \in Threads, NEW from, NEW S, Starts(t, from, S),
           UNCHANGED <<of, paperVars>>
    PROVE  PaperInv'
  BY DEF PaperInv, PaperTypes, Starts, Goes, InHand, Threads, Steps, paperVars

LEMMA PaperStep == RunnerInv /\ [Next]_vars => PaperInv'
  <1> SUFFICES ASSUME RunnerInv, [Next]_vars PROVE PaperInv'
    OBVIOUS
  <1> USE DEF RunnerInv
  <1>1. CASE MainStep
    BY <1>1, PaperMain
  <1>2. ASSUME NEW t \in Threads, PassStep(t) PROVE PaperInv'
    BY <1>2, PaperPass
  <1>3. ASSUME UNCHANGED <<threadVars, of, paperVars>> PROVE PaperInv'
    BY <1>3 DEF PaperInv, PaperTypes, InHand, threadVars, paperVars
  <1>4. CASE \E n \in Ids, ok \in BOOLEAN : LoopStep(n, ok) \/ Answer(n, ok)
    BY <1>4, <1>3 DEF LoopStep, Answer
  <1>5. CASE ClockTick \/ AskAll \/ (\E inst \in Instruments : AskOne(inst)) \/ HalfMinute
             \/ Cancel \/ (\E on \in BOOLEAN : SetPaused(on))
    BY <1>5, <1>3 DEF ClockTick, AskAll, AskOne, HalfMinute, Cancel, SetPaused
  <1>6. CASE MonitorWakes \/ Signalled
    BY <1>6, PaperStarts DEF MonitorWakes, Signalled, Threads
  <1>7. CASE Confirm
    <2>1. UNCHANGED <<of, paperVars>>
      BY <1>7 DEF Confirm
    <2>2. (\E S : Starts("bot", "idle", S)) \/ UNCHANGED threadVars
      BY <1>7 DEF Confirm
    <2> QED
      BY <2>1, <2>2, <1>3, PaperStarts DEF Threads
  <1>8. CASE FuturesDone \/ WaitTimesOut
    BY <1>8 DEF FuturesDone, WaitTimesOut, Exits, PaperInv, PaperTypes, InHand, Threads, Steps
  <1>9. CASE Boot
    BY <1>9 DEF Boot, GoneInv, PaperInv, PaperTypes, InHand, Threads, Steps, paperVars
  <1>10. CASE UNCHANGED vars
    BY <1>10, <1>3 DEF vars
  <1> QED
    BY <1>1, <1>2, <1>4, <1>5, <1>6, <1>7, <1>8, <1>9, <1>10 DEF Next

-----------------------------------------------------------------------------
(* The live executor: no step of the main thread while it is in on_signal  *)
(* gives the new signal a position before its own turn.                    *)
LEMMA LiveMain ==
    ASSUME PaperInv, LiveInv, MainStep
    PROVE  LiveInv'
  <1> USE IdsNat DEF PaperInv, PaperTypes, LiveInv, LiveStates
  <1>1. CASE Candle \/ CandleEnds \/ PaperFills \/ PaperArms \/ PaperDeclines \/ LiveDeclines
    BY <1>1 DEF Candle, CandleEnds, PaperFills, PaperArms, PaperDeclines, LiveDeclines, Goes,
                Threads, liveVars
  <1>2. ASSUME NEW s \in Strategies, TakeSignal(s) PROVE LiveInv'
    <2>1. of' = Append(of, s) /\ Len(of') = Len(of) + 1 /\ Len(of) \in Nat
          /\ DOMAIN of = 1..Len(of) /\ DOMAIN of' = 1..(Len(of) + 1)
      BY <1>2, AppendProperties DEF TakeSignal
    <2>2. Len(of') \in Ids /\ Len(of') \notin DOMAIN of
      BY <1>2, <2>1 DEF TakeSignal, Ids
    <2>3. live'[Len(of')] = "none"
      BY <1>2, <2>2 DEF TakeSignal, liveVars
    <2> QED
      BY <1>2, <2>1, <2>2, <2>3 DEF TakeSignal, Goes, Threads, liveVars
  <1>3. CASE TakeKey("key", "live") \/ TakeKey("armKey", "idle")
    BY <1>3 DEF TakeKey, Goes, Threads, liveVars
  <1>4. CASE LiveTakes
    <2>1. Len(of) \in DOMAIN of
      BY <1>4 DEF LiveTakes, Goes
    <2> QED
      BY <1>4, <2>1 DEF LiveTakes, Goes, Threads
  <1>5. ASSUME NEW n \in Ids, ArmFills(n) \/ ArmExpires(n) \/ ExitHit(n) PROVE LiveInv'
    BY <1>5 DEF ArmFills, ArmExpires, ExitHit, Goes, Threads, liveVars, threadVars
  <1>6. ASSUME NEW n \in Ids, BrokerExit(n) PROVE LiveInv'
    BY <1>6 DEF BrokerExit, threadVars
  <1> QED
    BY <1>1, <1>2, <1>3, <1>4, <1>5, <1>6 DEF MainStep

LEMMA LivePass ==
    ASSUME PaperInv, LiveInv, NEW t \in Threads, PassStep(t)
    PROVE  LiveInv'
  <1> USE IdsNat DEF PaperInv, PaperTypes, LiveInv, LiveStates
  <1>1. ASSUME NEW n \in Ids, Visit(t, n) PROVE LiveInv'
    BY <1>1 DEF Visit, Goes, Threads, liveVars
  <1>2. CASE MarkClosed(t) \/ Book(t) \/ Drop(t)
    <2>1. CASE MarkClosed(t)
      BY <2>1 DEF MarkClosed, Goes, Threads, liveVars
    <2>2. CASE Book(t)
      BY <2>2 DEF Book, Goes, Threads, liveVars
    <2>3. CASE Drop(t)
      BY <2>3 DEF Drop, Goes, Threads, liveVars
    <2> QED
      BY <1>2, <2>1, <2>2, <2>3
  <1>3. CASE PassEnds(t)
    <2>1. ToClose(t) \subseteq {n \in Ids : live[n] = "open"}
      BY DEF ToClose
    <2>2. /\ of' = of /\ stopping' = stopping
          /\ live' = [n \in Ids |-> IF n \in ToClose(t) THEN "closing" ELSE live[n]]
          /\ scheduled' = scheduled \cup ToClose(t)
          /\ futures' = IF t = "main" THEN ToClose(t) ELSE futures
          /\ pc[t] = "visit" /\ pc' = [pc EXCEPT ![t] = IF t = "main" THEN "wait" ELSE "idle"]
      BY <1>3 DEF PassEnds, Schedule, Goes
    <2> QED
      BY <2>1, <2>2 DEF Threads
  <1> QED
    BY <1>1, <1>2, <1>3 DEF PassStep

LEMMA LiveStep == RunnerInv /\ [Next]_vars => LiveInv'
  <1> SUFFICES ASSUME RunnerInv, [Next]_vars PROVE LiveInv'
    OBVIOUS
  <1> USE DEF RunnerInv
  <1>1. CASE MainStep
    BY <1>1, LiveMain
  <1>2. ASSUME NEW t \in Threads, PassStep(t) PROVE LiveInv'
    BY <1>2, LivePass
  <1>3. ASSUME NEW n \in Ids, NEW ok \in BOOLEAN, LoopStep(n, ok) PROVE LiveInv'
    BY <1>3 DEF LoopStep, LiveInv, LiveStates, threadVars
  <1>4. ASSUME NEW n \in Ids, NEW ok \in BOOLEAN, Answer(n, ok) PROVE LiveInv'
    BY <1>4 DEF Answer, LiveInv, LiveStates, threadVars
  <1>5. ASSUME UNCHANGED <<threadVars, of, liveVars, stopping>> PROVE LiveInv'
    BY <1>5 DEF LiveInv, threadVars, liveVars
  <1>6. CASE ClockTick \/ AskAll \/ (\E inst \in Instruments : AskOne(inst)) \/ HalfMinute
             \/ Cancel \/ (\E on \in BOOLEAN : SetPaused(on))
    BY <1>6, <1>5 DEF ClockTick, AskAll, AskOne, HalfMinute, Cancel, SetPaused
  <1>7. ASSUME NEW t \in {"monitor", "bot"}, NEW S, Starts(t, "idle", S),
               UNCHANGED <<of, liveVars, stopping>>
        PROVE  LiveInv'
    BY <1>7 DEF Starts, Goes, LiveInv, PaperInv, PaperTypes, Threads, liveVars
  <1>8. CASE MonitorWakes
    BY <1>8, <1>7 DEF MonitorWakes
  <1>9. CASE Confirm
    BY <1>9, <1>5, <1>7 DEF Confirm
  <1>10. CASE Signalled
    BY <1>10 DEF Signalled, Starts, Goes, LiveInv, PaperInv, PaperTypes, Threads, liveVars
  <1>11. CASE FuturesDone \/ WaitTimesOut
    BY <1>11 DEF FuturesDone, WaitTimesOut, Exits, LiveInv, Threads
  <1>12. CASE Boot
    BY <1>12 DEF Boot, GoneInv, LiveInv, LiveStates, PaperInv, PaperTypes, Threads
  <1>13. CASE UNCHANGED vars
    BY <1>13, <1>5 DEF vars
  <1> QED
    BY <1>1, <1>2, <1>3, <1>4, <1>6, <1>8, <1>9, <1>10, <1>11, <1>12, <1>13 DEF Next

-----------------------------------------------------------------------------
(* Once the process is gone, so is what it had in memory, until it boots.  *)
LEMMA GoneStep == RunnerInv /\ [Next]_vars => GoneInv'
  <1> SUFFICES ASSUME RunnerInv, [Next]_vars, ~Up' PROVE GoneInv'
    BY DEF GoneInv
  <1> USE DEF RunnerInv, PaperInv, PaperTypes, Threads
  <1>1. CASE ~Up
    <2>1. CASE ClockTick \/ UNCHANGED vars
      BY <1>1, <2>1 DEF ClockTick, vars, threadVars, paperVars, liveVars, GoneInv
    <2>2. ~MainStep
      BY <1>1 DEF MainStep, Candle, CandleEnds, TakeSignal, PaperFills, PaperArms, PaperDeclines,
                  TakeKey, LiveTakes, LiveDeclines, ArmFills, ArmExpires, ExitHit, BrokerExit,
                  Goes, Up
    <2>3. ASSUME NEW t \in Threads PROVE ~PassStep(t)
      BY <1>1 DEF PassStep, Visit, MarkClosed, Book, Drop, PassEnds, Goes
    <2>4. \A n \in Ids, ok \in BOOLEAN : ~LoopStep(n, ok) /\ ~Answer(n, ok)
      BY <1>1 DEF LoopStep, Answer, Up
    <2>5. ~MonitorWakes /\ ~AskAll /\ ~HalfMinute /\ ~Cancel /\ ~Confirm /\ ~Signalled
          /\ ~FuturesDone /\ ~WaitTimesOut
      BY <1>1 DEF MonitorWakes, AskAll, HalfMinute, Cancel, Confirm, Signalled, FuturesDone,
                  WaitTimesOut, Exits, Starts, Goes, Chatting
    <2>6. (\A inst \in Instruments : ~AskOne(inst)) /\ (\A on \in BOOLEAN : ~SetPaused(on))
      BY <1>1 DEF AskOne, SetPaused, Chatting
    <2>7. ~Boot
      BY DEF Boot, Up
    <2> QED
      BY <2>1, <2>2, <2>3, <2>4, <2>5, <2>6, <2>7 DEF Next
  <1>2. CASE FuturesDone \/ WaitTimesOut
    BY <1>2 DEF FuturesDone, WaitTimesOut, Exits, GoneInv
  <1>3. CASE Up /\ ~FuturesDone /\ ~WaitTimesOut
    <2>1. pc'["main"] # "exited"
      <3>1. CASE MainStep
        BY <1>3, <3>1 DEF MainStep, Candle, CandleEnds, TakeSignal, PaperFills, PaperArms,
                PaperDeclines, TakeKey, LiveTakes, LiveDeclines, ArmFills, ArmExpires, ExitHit,
                BrokerExit, Goes, Up, threadVars
      <3>2. ASSUME NEW t \in Threads, PassStep(t) PROVE pc'["main"] # "exited"
        BY <1>3, <3>2 DEF PassStep, Visit, MarkClosed, Book, Drop, PassEnds, Goes, Up
      <3>3. ASSUME UNCHANGED threadVars PROVE pc'["main"] # "exited"
        BY <1>3, <3>3 DEF threadVars, Up
      <3>4. ASSUME NEW t \in Threads, NEW from, NEW S, Starts(t, from, S)
            PROVE  pc'["main"] # "exited"
        BY <1>3, <3>4 DEF Starts, Goes, Up
      <3>5. CASE \E n \in Ids, ok \in BOOLEAN : LoopStep(n, ok) \/ Answer(n, ok)
        BY <3>3, <3>5 DEF LoopStep, Answer
      <3>6. CASE ClockTick \/ AskAll \/ (\E inst \in Instruments : AskOne(inst)) \/ HalfMinute
                 \/ Cancel \/ (\E on \in BOOLEAN : SetPaused(on)) \/ UNCHANGED vars
        BY <3>3, <3>6 DEF ClockTick, AskAll, AskOne, HalfMinute, Cancel, SetPaused, vars
      <3>7. CASE MonitorWakes \/ Confirm \/ Signalled
        BY <3>3, <3>4, <3>7 DEF MonitorWakes, Confirm, Signalled
      <3>8. ~Boot
        BY <1>3 DEF Boot
      <3> QED
        BY <1>3, <3>1, <3>2, <3>5, <3>6, <3>7, <3>8 DEF Next
    <2> QED
      BY <2>1 DEF Up
  <1> QED
    BY <1>1, <1>2, <1>3

-----------------------------------------------------------------------------
(* The chat bot and the clock.                                             *)
LEMMA ChatStep == RunnerInv /\ [Next]_vars => ChatInv'
  <1> SUFFICES ASSUME RunnerInv, [Next]_vars PROVE ChatInv'
    OBVIOUS
  <1> USE DEF RunnerInv, ChatInv
  <1>1. ASSUME UNCHANGED <<slot, chatVars, pauseVars>> PROVE ChatInv'
    BY <1>1 DEF chatVars, pauseVars
  <1>2. CASE MainStep
    BY <1>1, <1>2 DEF MainStep, Candle, CandleEnds, TakeSignal, PaperFills, PaperArms,
            PaperDeclines, TakeKey, LiveTakes, LiveDeclines, ArmFills, ArmExpires, ExitHit,
            BrokerExit
  <1>3. ASSUME NEW t \in Threads, PassStep(t) PROVE ChatInv'
    BY <1>1, <1>3 DEF PassStep, Visit, MarkClosed, Book, Drop, PassEnds
  <1>4. CASE (\E n \in Ids, ok \in BOOLEAN : LoopStep(n, ok) \/ Answer(n, ok)) \/ MonitorWakes
             \/ FuturesDone \/ WaitTimesOut
    BY <1>1, <1>4 DEF LoopStep, Answer, MonitorWakes, FuturesDone, WaitTimesOut, Exits
  <1>5. CASE Cancel \/ HalfMinute \/ Signalled
    <2>1. /\ pending' = [all |-> FALSE, inst |-> "none"] /\ standing' = "none"
          /\ UNCHANGED <<slot, flag, pausedAtBoot>>
      BY <1>5 DEF Cancel, HalfMinute, Signalled, pauseVars, Nothing
    <2> QED
      BY <2>1
  <1>6. CASE ClockTick
    BY <1>6 DEF ClockTick, chatVars, pauseVars
  <1>7. CASE AskAll
    <2>1. /\ pending' = [all |-> TRUE, inst |-> "none"] /\ standing' = "all"
          /\ UNCHANGED <<slot, flag, pausedAtBoot>>
      BY <1>7 DEF AskAll, pauseVars
    <2> QED
      BY <2>1
  <1>8. ASSUME NEW inst \in Instruments, AskOne(inst) PROVE ChatInv'
    <2>1. /\ pending' = [all |-> FALSE, inst |-> inst] /\ standing' = inst
          /\ UNCHANGED <<slot, flag, pausedAtBoot>>
      BY <1>8 DEF AskOne, pauseVars
    <2> QED
      BY <2>1
  <1>9. CASE Confirm
    BY <1>9 DEF Confirm, pauseVars
  <1>10. CASE Boot \/ (\E on \in BOOLEAN : SetPaused(on))
    BY <1>10 DEF Boot, BootFlag, SetPaused, chatVars
  <1>11. CASE UNCHANGED vars
    BY <1>1, <1>11 DEF vars
  <1> QED
    BY <1>2, <1>3, <1>4, <1>5, <1>6, <1>7, <1>8, <1>9, <1>10, <1>11 DEF Next

-----------------------------------------------------------------------------
LEMMA RunnerStarts == Init => RunnerInv
  <1> SUFFICES ASSUME Init PROVE RunnerInv
    OBVIOUS
  <1>1. slot \in Slots
    BY CfdRunnerAssumption DEF Init, Slots
  <1>2. PaperInv
    BY DEF Init, PaperInv, PaperTypes, InHand, Threads, Steps
  <1> QED
    BY <1>1, <1>2 DEF Init, RunnerInv, GoneInv, LiveInv, LiveStates, ChatInv, Nothing, Up, Threads

LEMMA RunnerSays == RunnerInv => BookedBeforeGone
  BY DEF RunnerInv, PaperInv, PaperTypes, InHand, LiveInv, ChatInv, BookedBeforeGone, TypeOK,
         Threads, Ids

LEMMA RunnerSafe == Spec => []RunnerInv
  <1>1. RunnerInv /\ [Next]_vars => RunnerInv'
    BY PaperStep, LiveStep, GoneStep, ChatStep DEF RunnerInv
  <1> QED
    BY <1>1, RunnerStarts, PTL DEF Spec

(* A position leaves the paper executor only after its result was booked,  *)
(* whichever of main_cfd_paper's threads close it at once and wherever the *)
(* signal handler takes the main thread away.                              *)
THEOREM ClosesAreBooked == Spec => []BookedBeforeGone
  BY RunnerSafe, RunnerSays, PTL

-----------------------------------------------------------------------------
(* The chat bot's thread begins a pass only on a confirmation, ...         *)
LEMMA BotStarts ==
    ASSUME RunnerInv, [Next]_vars, pc["bot"] = "idle", pc'["bot"] = "visit"
    PROVE  Confirm /\ Starts("bot", "idle", IF pending.all THEN Instruments ELSE {pending.inst})
  <1> USE DEF RunnerInv, PaperInv, PaperTypes, Threads
  <1>1. ~MainStep
    BY DEF MainStep, Candle, CandleEnds, TakeSignal, PaperFills, PaperArms, PaperDeclines, TakeKey,
           LiveTakes, LiveDeclines, ArmFills, ArmExpires, ExitHit, BrokerExit, Goes, threadVars
  <1>2. \A t \in Threads : ~PassStep(t)
    BY DEF PassStep, Visit, MarkClosed, Book, Drop, PassEnds, Goes
  <1>3. pc' # pc
    OBVIOUS
  <1>4. ~(\E n \in Ids, ok \in BOOLEAN : LoopStep(n, ok) \/ Answer(n, ok))
    BY <1>3 DEF LoopStep, Answer, threadVars
  <1>5. ~ClockTick /\ ~AskAll /\ ~(\E inst \in Instruments : AskOne(inst)) /\ ~HalfMinute
        /\ ~Cancel /\ ~(\E on \in BOOLEAN : SetPaused(on)) /\ ~UNCHANGED vars
    BY <1>3 DEF ClockTick, AskAll, AskOne, HalfMinute, Cancel, SetPaused, vars, threadVars
  <1>6. ~MonitorWakes /\ ~Signalled /\ ~FuturesDone /\ ~WaitTimesOut /\ ~Boot
    BY DEF MonitorWakes, Signalled, FuturesDone, WaitTimesOut, Exits, Boot, Starts, Goes
  <1>7. Confirm
    BY <1>1, <1>2, <1>4, <1>5, <1>6 DEF Next
  <1> QED
    BY <1>3, <1>7 DEF Confirm, threadVars

(* ... and a signal is only taken while the flag of the process is down.   *)
LEMMA SignalsTaken ==
    ASSUME RunnerInv, [Next]_vars, Len(of') > Len(of)
    PROVE  ~flag
  <1>1. of' # of
    BY DEF RunnerInv, PaperInv, PaperTypes
  <1>2. ~Boot
    BY DEF Boot, RunnerInv, PaperInv, PaperTypes
  <1>3. ASSUME MainStep PROVE ~flag
    BY <1>1, <1>3 DEF MainStep, Candle, CandleEnds, TakeSignal, PaperFills, PaperArms,
            PaperDeclines, TakeKey, LiveTakes, LiveDeclines, ArmFills, ArmExpires, ExitHit,
            BrokerExit
  <1>4. \A t \in Threads : ~PassStep(t)
    BY <1>1 DEF PassStep, Visit, MarkClosed, Book, Drop, PassEnds
  <1>5. ~(\E n \in Ids, ok \in BOOLEAN : LoopStep(n, ok) \/ Answer(n, ok))
    BY <1>1 DEF LoopStep, Answer
  <1>6. ~ClockTick /\ ~AskAll /\ ~(\E inst \in Instruments : AskOne(inst)) /\ ~HalfMinute
        /\ ~Cancel /\ ~(\E on \in BOOLEAN : SetPaused(on)) /\ ~UNCHANGED vars
    BY <1>1 DEF ClockTick, AskAll, AskOne, HalfMinute, Cancel, SetPaused, vars
  <1>7. ~MonitorWakes /\ ~Confirm /\ ~Signalled /\ ~FuturesDone /\ ~WaitTimesOut
    BY <1>1 DEF MonitorWakes, Confirm, Signalled, FuturesDone, WaitTimesOut, Exits
  <1> QED
    BY <1>2, <1>3, <1>4, <1>5, <1>6, <1>7 DEF Next

(* The chat means what it says: a confirmation closes what was asked for   *)
(* last and is used up, and a process that was paused when it started      *)
(* takes no signal before /resume.                                         *)
THEOREM ChatMeansIt == Spec => ChatCommandsHold
  <1> DEFINE Act ==
        /\ pc["bot"] = "idle" /\ pc'["bot"] = "visit" =>
              /\ standing # "none"
              /\ scope'["bot"] = IF standing = "all" THEN Instruments ELSE {standing}
        /\ Len(of') > Len(of) => ~(pausedAtBoot /\ paused)
  <1>1. ASSUME RunnerInv, [Next]_vars PROVE [Act]_vars
    <2>1. ASSUME pc["bot"] = "idle", pc'["bot"] = "visit"
          PROVE  /\ standing # "none"
                 /\ scope'["bot"] = IF standing = "all" THEN Instruments ELSE {standing}
      <3>1. /\ pending # Nothing
            /\ scope'["bot"] = IF pending.all THEN Instruments ELSE {pending.inst}
        BY <1>1, <2>1, BotStarts DEF Confirm, Starts, RunnerInv, PaperInv, PaperTypes, Threads
      <3> QED
        <4>1. /\ pending \in [all : BOOLEAN, inst : Instruments \cup {"none"}]
              /\ pending.all => pending.inst = "none"
              /\ standing = IF pending.all THEN "all" ELSE pending.inst
          BY <1>1 DEF RunnerInv, ChatInv
        <4>2. pending.inst # "none" \/ pending.all
          BY <3>1, <4>1 DEF Nothing
        <4>3. "all" \notin Instruments /\ "none" \notin Instruments
          BY CfdRunnerAssumption
        <4> QED
          BY <3>1, <4>1, <4>2, <4>3
    <2>2. Len(of') > Len(of) => ~(pausedAtBoot /\ paused)
      BY <1>1, SignalsTaken DEF RunnerInv, ChatInv
    <2> QED
      BY <2>1, <2>2
  <1> QED
    BY <1>1, RunnerSafe, PTL DEF Spec, ChatCommandsHold
=============================================================================
