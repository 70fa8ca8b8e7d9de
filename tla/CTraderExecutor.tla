--------------------------- MODULE CTraderExecutor ---------------------------
(***************************************************************************)
(* The live executor of one account (cfd_execution/ctrader_executor.py)    *)
(* and the broker account it trades on.                                    *)
(*                                                                         *)
(* The executor's methods run one at a time on the broker's event loop and *)
(* only schedule requests; the broker answers later, and reports what it   *)
(* filled in execution events.  A position is numbered by its order, which *)
(* stands for the broker's position id.  Requests and messages of one      *)
(* position keep their order; those of different positions do not.         *)
(*                                                                         *)
(* The broker is external and seen only through the calls the executor     *)
(* makes: an order or a close is accepted, or refused, or carried out with *)
(* its answer lost (the caller's exception handler cannot tell these two   *)
(* apart); a stop or target it holds may be hit at any time.  Volumes are  *)
(* counted in the units of a full position.                                *)
(***************************************************************************)
EXTENDS RiskGuardOps, Sizing, SequencesExt

CONSTANTS
    Signals,        \* signals the strategies may emit
    Prices,         \* bids the feed may deliver
    Times,          \* instants at which the monitor may run the day reset
    RealBalance,    \* the broker account's balance at start()
    MinVolume,      \* the smallest volume the broker closes
    Answers,        \* what may become of a request: "ok", "refused", "lost"
    Accounting,     \* what fetching the real costs may give: "real", "none"
    MaxOrders       \* bound on the orders sent

ASSUME LiveAssumption ==
    /\ \A s \in Signals : ValidSignal(s)
    /\ IsFiniteSet(Keys)
    /\ Prices \subseteq Nat \ {0} /\ Times \subseteq Nat
    /\ RealBalance \in Nat /\ MinVolume \in Nat \ {0} /\ MaxOrders \in Nat
    /\ Answers \subseteq {"ok", "refused", "lost"}
    /\ Accounting \subseteq {"real", "none"}

Orders == 1..MaxOrders

VARIABLES
    guard,          \* _risk
    price,          \* _last_price (0: none yet)
    arms,           \* _arms: the signal and the candles left (left = 0: none)
    submitted,      \* number of orders submitted
    entry,          \* the coroutine _place_entry of each order
    pos,            \* _positions and the side dictionaries
    openKey,        \* _open_keys (0: no entry)
    closing,        \* _closing_full
    lastReal,       \* _last_real_balance
    requests,       \* per order, what the executor has scheduled for the broker
    messages,       \* per order, what the broker has sent back
    book,           \* the broker's own record of each position
    cash            \* the broker's balance of the account

execVars == <<guard, price, arms, submitted, entry, pos, openKey, closing, lastReal>>
vars == <<execVars, requests, messages, book, cash>>

NoPosition == [status |-> "NONE"]
NoEntry == [stage |-> "none"]
NotHeld == [left |-> 0, stop |-> 0, tp |-> 0]

Known(i) == pos[i].status \in {"PENDING", "OPEN"}      \* i in _positions
Open == {i \in Orders : pos[i].status = "OPEN"}

(* start() seeds the guard with the broker's balance.                      *)
Init ==
    /\ guard = SeedBalance(NewGuard(SizingBalance), RealBalance)
    /\ lastReal = RealBalance
    /\ price = [inst \in Instruments |-> 0]
    /\ arms = [k \in Keys |-> [left |-> 0]]
    /\ submitted = 0
    /\ entry = [i \in Orders |-> NoEntry]
    /\ pos = [i \in Orders |-> NoPosition]
    /\ openKey = [k \in Keys |-> 0]
    /\ closing = {}
    /\ requests = [i \in Orders |-> <<>>]
    /\ messages = [i \in Orders |-> <<>>]
    /\ book = [i \in Orders |-> NotHeld]
    /\ cash = RealBalance

-----------------------------------------------------------------------------
(* Entries.                                                                *)

(* Whether the plan's exits need the executor, or the broker holds them.   *)
ClientManaged(s) ==
    \/ Len(s.tps) > 1 \/ s.tps[1].frac < Whole
    \/ s.beAt > 0 \/ s.trailDist > 0 \/ s.trailR > 0 \/ s.timeBars > 0

(* What a new signal makes of the arm of its key.                          *)
NewArm(s) == [sig |-> s, left |-> s.expiry]

(* _submit_entry: a signal that passes sizing and the per-trade check is   *)
(* submitted; nothing is reserved for the orders in flight.                *)
Submittable(g, s) ==
    LET lots == LotSize(RiskDistance(s))
    IN  lots > 0 /\ RiskAllowed(g, StopRisk(s, s.entry, lots))

(* Each signal of the sequence becomes the next order.                     *)
NextOrders(sigs) == (submitted + 1)..(submitted + Len(sigs))

Submit(sigs) ==
    /\ submitted + Len(sigs) <= MaxOrders
    /\ submitted' = submitted + Len(sigs)
    /\ entry' = [i \in Orders |->
                    IF i \in NextOrders(sigs)
                    THEN LET s == sigs[i - submitted]
                         IN  [stage |-> "sent", sig |-> s, lots |-> LotSize(RiskDistance(s))]
                    ELSE entry[i]]

PlaceRequest == [op |-> "place"]

(* on_signal: ignored when the key has a position; refreshes its arm; else *)
(* dropped, submitted or armed.                                            *)
Signal(s) ==
    LET fresh  == arms[s.key].left = 0
        go     == fresh /\ CanTrade(guard)
        orders == IF go /\ s.mode = "CANDLE_CLOSE" /\ Submittable(guard, s) THEN <<s>> ELSE <<>>
    IN  /\ openKey[s.key] = 0
        /\ guard' = IF fresh THEN CheckBreach(guard) ELSE guard
        /\ arms' = IF ~fresh \/ (go /\ s.mode = "INTRABAR")
                   THEN [arms EXCEPT ![s.key] = NewArm(s)] ELSE arms
        /\ Submit(orders)
        /\ requests' = [i \in Orders |->
                           IF i \in NextOrders(orders) THEN <<PlaceRequest>> ELSE requests[i]]
        /\ UNCHANGED <<price, pos, openKey, closing, lastReal, messages, book, cash>>

-----------------------------------------------------------------------------
(* Management.                                                             *)

(* _fraction_volume: the target's share, bounded by what is left; below    *)
(* the broker's minimum nothing is sent, unless it is all that is left.    *)
FractionVolume(p, frac) ==
    LET want == Min({frac, p.left})
    IN  IF want >= MinVolume THEN want
        ELSE IF p.left >= MinVolume /\ frac >= p.left THEN p.left
        ELSE 0

(* One position on a tick: excursion, dynamic stop, targets reached.       *)
Moved(p, bid) == ApplyDynamicStop(UpdateExcursion(p, bid))

Reached(p, bid) ==
    IF ClientManaged(p.plan) THEN Hits(p, bid, bid) ELSE {}

Managed(p, bid) == [Moved(p, bid) EXCEPT !.taken = @ \cup Reached(p, bid)]

CloseRequest(volume, full) == [op |-> "close", volume |-> volume, full |-> full]

TargetRequests(p, bid) ==
    FoldLeft(LAMBDA asked, volume : IF volume = 0 THEN asked
                                    ELSE Append(asked, CloseRequest(volume, FALSE)),
             <<>>,
             [j \in DOMAIN p.plan.tps |->
                 IF j \in Reached(p, bid) THEN FractionVolume(p, p.plan.tps[j].frac) ELSE 0])

TickRequests(p, bid) ==
    LET stop == Moved(p, bid).stop
    IN  (IF stop # p.stop THEN <<[op |-> "amend", stop |-> stop]>> ELSE <<>>)
        \o TargetRequests(p, bid)

Floating(positions, prices) ==
    SumFunction([i \in {j \in Orders : positions[j].status = "OPEN"} |->
                    LET p   == positions[i]
                        bid == prices[p.plan.key.inst]
                    IN  IF bid = 0 THEN 0 ELSE GainOf(p, bid) * p.left * p.lots])

(* on_tick: the arms the bid reaches are taken off the list and submitted, *)
(* in whatever order they are listed (unless the key has a position or the *)
(* guard says no), the open positions of the instrument are managed, the   *)
(* account marked to market.                                               *)
Tick(inst, bid) ==
    LET hit == {k \in Keys : /\ k.inst = inst /\ arms[k].left > 0
                             /\ Gain(k.dir, arms[k].sig.entry, bid) >= 0}
        asked == {k \in hit : openKey[k] = 0}
        g == IF asked = {} THEN guard ELSE CheckBreach(guard)
        sigs == {arms[k].sig : k \in {k \in asked : Submittable(guard, arms[k].sig)}}
        mine == {i \in Open : pos[i].plan.key.inst = inst}
        held == [i \in Orders |-> IF i \in mine THEN Managed(pos[i], bid) ELSE pos[i]]
        prices == [price EXCEPT ![inst] = bid]
    IN  /\ price' = prices
        /\ arms' = [k \in Keys |-> IF k \in hit THEN [left |-> 0] ELSE arms[k]]
        /\ \E orders \in SetToSeqs(sigs) :
              /\ Submit(orders)
              /\ requests' = [i \in Orders |->
                                 IF i \in NextOrders(orders) THEN <<PlaceRequest>>
                                 ELSE IF i \in mine THEN requests[i] \o TickRequests(pos[i], bid)
                                 ELSE requests[i]]
        /\ pos' = held
        /\ guard' = MarkToMarket(g, Floating(held, prices))
        /\ UNCHANGED <<openKey, closing, lastReal, messages, book, cash>>

(* The positions a full close may be scheduled for, and its request: the   *)
(* volume is what the executor still counts as open, closes in flight      *)
(* included.                                                               *)
Closable == {i \in Open \ closing : pos[i].left > 0}

ScheduleFullCloses(S) ==
    /\ closing' = closing \cup S
    /\ requests' = [i \in Orders |->
                       IF i \in S THEN Append(requests[i], CloseRequest(pos[i].left, TRUE))
                       ELSE requests[i]]

(* on_candle_close: arms of the instrument lose a candle, open positions   *)
(* gain one (counted up to the time stop), and those whose time is up are  *)
(* closed unless a full close is already under way.                        *)
CandleClose(inst) ==
    LET older == [i \in Orders |->
                     IF i \in Open /\ pos[i].plan.key.inst = inst
                     THEN [pos[i] EXCEPT !.bars = Min({@ + 1, pos[i].plan.timeBars})]
                     ELSE pos[i]]
        due == {i \in Closable : pos[i].plan.key.inst = inst /\ TimeStopReached(older[i])}
    IN  /\ arms' = [k \in Keys |->
                       IF k.inst # inst \/ arms[k].left = 0 THEN arms[k]
                       ELSE IF arms[k].left = 1 THEN [left |-> 0]
                       ELSE [arms[k] EXCEPT !.left = @ - 1]]
        /\ pos' = older
        /\ ScheduleFullCloses(due)
        /\ UNCHANGED <<guard, price, submitted, entry, openKey, lastReal, messages, book, cash>>

(* flatten_all, flatten_instrument, and on shutdown flatten_all_blocking.  *)
Flatten(insts) ==
    /\ ScheduleFullCloses({i \in Closable : pos[i].plan.key.inst \in insts})
    /\ UNCHANGED <<guard, price, arms, submitted, entry, pos, openKey, lastReal, messages, book, cash>>

DayReset(now) ==
    /\ guard' = CheckDailyReset(guard, now)
    /\ UNCHANGED <<price, arms, submitted, entry, pos, openKey, closing, lastReal,
                   requests, messages, book, cash>>

-----------------------------------------------------------------------------
(* The broker.                                                             *)

Reply(op, ok) == [op |-> op, ok |-> ok]

Fill(opening, volume, at, balance) ==
    [op |-> "fill", opening |-> opening, volume |-> volume, price |-> at, balance |-> balance]

(* A close at this price brings in the move on what it closes; the charges *)
(* of the round trip are debited with the last one.                        *)
Proceeds(i, volume, at) ==
    LET e == entry[i]
    IN  e.lots * (Gain(e.sig.dir, e.sig.entry, at) * volume
                  - (IF volume = book[i].left THEN LotCost ELSE 0))

ClosedBook(i, volume) ==
    IF volume = book[i].left THEN NotHeld ELSE [book[i] EXCEPT !.left = @ - volume]

(* A market order opens the position with its stop, and its target if the  *)
(* plan is simple.                                                         *)
BrokerPlaces(i, answer) ==
    LET s == entry[i].sig
    IN  /\ requests[i] # <<>> /\ Head(requests[i]).op = "place"
        /\ requests' = [requests EXCEPT ![i] = Tail(@)]
        /\ book' = IF answer = "refused" THEN book
                   ELSE [book EXCEPT ![i] =
                            [left |-> Whole, stop |-> s.sl,
                             tp |-> IF ClientManaged(s) THEN 0 ELSE s.tps[Len(s.tps)].price]]
        /\ messages' = [messages EXCEPT ![i] =
                           <<Reply("place", answer = "ok")>>
                           \o (IF answer = "refused" THEN <<>>
                               ELSE <<Fill(TRUE, Whole, s.entry, 0)>>)]
        /\ UNCHANGED <<execVars, cash>>

BrokerAmends(i, answer) ==
    /\ requests[i] # <<>> /\ Head(requests[i]).op = "amend"
    /\ requests' = [requests EXCEPT ![i] = Tail(@)]
    /\ book' = IF answer = "refused" \/ book[i].left = 0 THEN book
               ELSE [book EXCEPT ![i].stop = Head(requests[i]).stop]
    /\ UNCHANGED <<execVars, messages, cash>>

(* A close is filled at the market, if so much is still open.              *)
BrokerCloses(i, answer) ==
    /\ requests[i] # <<>> /\ Head(requests[i]).op = "close"
    /\ LET r  == Head(requests[i])
           at == IF price[entry[i].sig.key.inst] = 0 THEN entry[i].sig.entry
                 ELSE price[entry[i].sig.key.inst]
           done == answer # "refused" /\ book[i].left >= r.volume
           paid == cash + Proceeds(i, r.volume, at)
       IN  /\ requests' = [requests EXCEPT ![i] = Tail(@)]
           /\ cash' = IF done THEN paid ELSE cash
           /\ book' = IF done THEN [book EXCEPT ![i] = ClosedBook(i, r.volume)] ELSE book
           /\ messages' = [messages EXCEPT ![i] =
                  @ \o (IF r.full THEN <<Reply("close", done /\ answer = "ok")>> ELSE <<>>)
                    \o (IF done THEN <<Fill(FALSE, r.volume, at, paid)>> ELSE <<>>)]
    /\ UNCHANGED execVars

Broker(i, answer) == BrokerPlaces(i, answer) \/ BrokerAmends(i, answer) \/ BrokerCloses(i, answer)

(* The stop or the target the broker holds is hit.                         *)
ServerExit(i) ==
    /\ book[i].left > 0
    /\ \E at \in {book[i].stop, book[i].tp} \ {0} :
          LET paid == cash + Proceeds(i, book[i].left, at)
          IN  /\ cash' = paid
              /\ messages' = [messages EXCEPT ![i] = Append(@, Fill(FALSE, book[i].left, at, paid))]
    /\ book' = [book EXCEPT ![i] = NotHeld]
    /\ UNCHANGED <<execVars, requests>>

-----------------------------------------------------------------------------
(* What comes back.                                                        *)

(* Planted fault: a failed full close keeps its guard.                     *)
OnReply_KeepsGuard(i, m) ==
    /\ entry' = IF m.op = "place"
                THEN [entry EXCEPT ![i].stage = IF m.ok THEN "answered" ELSE "failed"] ELSE entry
    /\ UNCHANGED <<pos, closing>>

(* An answer wakes the coroutine that waits for it; _place_entry goes on   *)
(* later (PlaceReturns), a failed full close gives up its guard.           *)
OnReply(i, m) ==
    /\ entry' = IF m.op = "place"
                THEN [entry EXCEPT ![i].stage = IF m.ok THEN "answered" ELSE "failed"] ELSE entry
    /\ closing' = IF m.op = "close" /\ ~m.ok THEN closing \ {i} ELSE closing
    /\ UNCHANGED pos

(* Planted fault: any close fill is taken for a full close.                *)
OnFill_ClosesAll(i, m) ==
    /\ pos' = IF ~Known(i) THEN pos
              ELSE IF pos[i].status = "PENDING" /\ m.opening
              THEN [pos EXCEPT ![i].status = "OPEN", ![i].entry = m.price]
              ELSE [pos EXCEPT ![i].left = 0, ![i].final = TRUE, ![i].balance = m.balance]
    /\ UNCHANGED <<entry, closing>>

(* _handle_execution: events of unknown positions are dropped, the opening *)
(* fill opens a pending position, and any other fill closes what it says,  *)
(* at most what is left; the last one leads to the final accounting.       *)
OnFill(i, m) ==
    LET p == pos[i]
        volume == Min({m.volume, p.left})
    IN  /\ pos' = IF ~Known(i) THEN pos
                  ELSE IF p.status = "PENDING" /\ m.opening
                  THEN [pos EXCEPT ![i].status = "OPEN", ![i].entry = m.price]
                  ELSE IF volume = 0 THEN pos
                  ELSE [pos EXCEPT ![i].left = @ - volume,
                                   ![i].booked = @ + GainOf(p, m.price) * volume,
                                   ![i].final = p.left = volume,
                                   ![i].balance = m.balance]
        /\ UNCHANGED <<entry, closing>>

Receive(i) ==
    /\ messages[i] # <<>>
    /\ messages' = [messages EXCEPT ![i] = Tail(@)]
    /\ IF Head(messages[i]).op = "fill" THEN OnFill(i, Head(messages[i]))
                                        ELSE OnReply(i, Head(messages[i]))
    /\ UNCHANGED <<guard, price, arms, submitted, openKey, lastReal, requests, book, cash>>

(* The position of an order that was accepted and is not filled yet.       *)
Pending(s, lots) ==
    [plan |-> s, entry |-> s.entry, lots |-> lots, left |-> Whole, booked |-> 0,
     taken |-> {}, best |-> s.entry, stop |-> s.sl, bars |-> 0,
     status |-> "PENDING", final |-> FALSE, balance |-> 0]

(* The rest of _place_entry: only now is the position known.               *)
PlaceReturns(i) ==
    /\ entry[i].stage = "answered"
    /\ entry' = [entry EXCEPT ![i].stage = "done"]
    /\ pos' = [pos EXCEPT ![i] = Pending(entry[i].sig, entry[i].lots)]
    /\ openKey' = [openKey EXCEPT ![entry[i].sig.key] = i]
    /\ UNCHANGED <<guard, price, arms, submitted, closing, lastReal,
                   requests, messages, book, cash>>

(* Planted fault: the key of the closed position stays taken.              *)
Finalize_KeepsKey(i, how) ==
    LET p == pos[i]
        net == IF how = "real" THEN p.balance - lastReal ELSE (p.booked - LotCost) * p.lots
    IN  /\ Known(i) /\ p.final
        /\ guard' = RealizePnl(guard, net)
        /\ lastReal' = IF how = "real" THEN p.balance ELSE lastReal
        /\ pos' = [pos EXCEPT ![i] = [status |-> "CLOSED"]]
        /\ closing' = closing \ {i}
        /\ UNCHANGED <<price, arms, submitted, entry, openKey, requests, messages, book, cash>>

(* _finalize: the broker's balance, if it could be read, is compared with  *)
(* the one remembered; otherwise the result is computed from the legs.     *)
Finalize(i, how) ==
    LET p == pos[i]
        net == IF how = "real" THEN p.balance - lastReal ELSE (p.booked - LotCost) * p.lots
    IN  /\ Known(i) /\ p.final
        /\ guard' = RealizePnl(guard, net)
        /\ lastReal' = IF how = "real" THEN p.balance ELSE lastReal
        /\ pos' = [pos EXCEPT ![i] = [status |-> "CLOSED"]]
        /\ closing' = closing \ {i}
        /\ openKey' = [openKey EXCEPT ![p.plan.key] = 0]
        /\ UNCHANGED <<price, arms, submitted, entry, requests, messages, book, cash>>

-----------------------------------------------------------------------------
Next ==
    \/ \E s \in Signals : Signal(s)
    \/ \E inst \in Instruments, bid \in Prices : Tick(inst, bid)
    \/ \E inst \in Instruments : CandleClose(inst) \/ Flatten({inst})
    \/ Flatten(Instruments)
    \/ \E now \in Times : DayReset(now)
    \/ \E i \in Orders :
          \/ \E answer \in Answers : Broker(i, answer)
          \/ ServerExit(i)
          \/ Receive(i)
          \/ PlaceReturns(i)
          \/ \E how \in Accounting : Finalize(i, how)

Spec == Init /\ [][Next]_vars

(* The loop keeps running, the broker keeps answering and, asked again and *)
(* again, accepts; the monitor keeps re-issuing the flatten (its window    *)
(* stays open until nothing is).                                           *)
FairSpec ==
    /\ Spec
    /\ WF_vars(Flatten(Instruments))
    /\ \A i \in Orders :
          /\ WF_vars(Receive(i)) /\ WF_vars(PlaceReturns(i))
          /\ WF_vars(\E how \in Accounting : Finalize(i, how))
          /\ WF_vars(\E answer \in Answers : Broker(i, answer))
          /\ SF_vars(BrokerCloses(i, "ok"))

-----------------------------------------------------------------------------
(* The fills among some messages that close something, and how much.       *)
Closings(msgs) == {n \in DOMAIN msgs : msgs[n].op = "fill" /\ ~msgs[n].opening}

InTransit(msgs) == SumFunction([n \in Closings(msgs) |-> msgs[n].volume])

TypeOK ==
    /\ guard \in Guard /\ lastReal \in Int /\ cash \in Int
    /\ price \in [Instruments -> Prices \cup {0}]
    /\ \A k \in Keys : arms[k].left > 0 =>
          arms[k].sig \in Signals /\ arms[k].sig.key = k /\ arms[k].left <= arms[k].sig.expiry
    /\ submitted \in 0..MaxOrders
    /\ \A i \in Orders :
          /\ (entry[i].stage = "none") = (i > submitted)
          /\ entry[i].stage = "done" => pos[i].status # "NONE"
          /\ pos[i].status \in {"NONE", "PENDING", "OPEN", "CLOSED"}
          /\ Known(i) => pos[i].left \in 0..Whole /\ (pos[i].final <=> pos[i].left = 0)
          /\ book[i].left \in 0..Whole
          /\ \A n \in DOMAIN requests[i] : requests[i][n].op = "close" => requests[i][n].volume > 0
    /\ openKey \in [Keys -> 0..MaxOrders]
    /\ closing \subseteq Orders

(* Nothing stays blocked.  A key is only ever blocked by a position the    *)
(* executor still holds, and by one of its own, whatever the order in      *)
(* which duplicate positions of a key come and go.  A position is guarded  *)
(* against a second full close only while the first is under way: its      *)
(* request, its answer or its fill is still to come, or the fill is in and *)
(* the accounting is not.  (The code's comment tells of the positions that *)
(* a failed close once left blocked for good.)                             *)
NothingStuck ==
    /\ \A k \in Keys : openKey[k] # 0 => Known(openKey[k]) /\ pos[openKey[k]].plan.key = k
    /\ \A i \in closing :
          \/ \E n \in DOMAIN requests[i] : requests[i][n].op = "close" /\ requests[i][n].full
          \/ \E n \in DOMAIN messages[i] : messages[i][n].op = "close"
          \/ Closings(messages[i]) # {}
          \/ Known(i) /\ pos[i].final

(* The part of an open position the executor believes open is what the     *)
(* broker holds plus what it has reported closed in fills not yet handled, *)
(* whatever became of the requests in between.  The types are part of it.  *)
RemainderTracksBroker ==
    /\ TypeOK
    /\ \A i \in Open : pos[i].left = book[i].left + InTransit(messages[i])

(* A position that is open when the flatten window opens, and stays open,  *)
(* is closed: a refused or failed close is asked for again.                *)
OpenEventuallyFlat == \A i \in Orders : i \in Open ~> i \notin Open

=============================================================================
