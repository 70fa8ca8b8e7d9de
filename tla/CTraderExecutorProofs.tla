------------------------ MODULE CTraderExecutorProofs ------------------------
(***************************************************************************)
(* Proofs about the live executor and its broker: what the executor counts *)
(* as open is what the broker holds and what is on its way, and nothing    *)
(* stays blocked, for any number of orders, any signals, prices and        *)
(* answers.                                                                *)
(***************************************************************************)
EXTENDS CTraderExecutor, FoldLemmas

Entry ==
    {NoEntry} \cup [stage : {"sent", "answered", "failed", "done"}, sig : Signals, lots : Int]

HeldFields ==
    [plan : Signals, entry : Int, lots : Int, left : 0..Whole, booked : Int,
     taken : SUBSET Nat, best : Int, stop : Int, bars : Int,
     status : {"PENDING", "OPEN"}, final : BOOLEAN, balance : Int]

Held == {p \in HeldFields : p.final <=> p.left = 0}

Gone == [status |-> "CLOSED"]

Request ==
    {PlaceRequest} \cup [op : {"amend"}, stop : Int]
    \cup [op : {"close"}, volume : Nat \ {0}, full : BOOLEAN]

Answer == [op : {"place", "close"}, ok : BOOLEAN]

FillMessage ==
    [op : {"fill"}, opening : BOOLEAN, volume : Nat \ {0}, price : Int, balance : Int]

Message == Answer \cup FillMessage

BookEntry == [left : 0..Whole, stop : Int, tp : Int]

NoArm == [left |-> 0]

Armed == {a \in [sig : Signals, left : Nat] : a.left <= a.sig.expiry}

(* How an order's entry, the position made of it, what was asked of the    *)
(* broker and what it sent back, and the broker's own record fit together. *)
Asks(entered, req, msgs, held) ==
    \A n \in DOMAIN req :
        /\ req[n].op = "place" =>
              req = <<PlaceRequest>> /\ entered.stage = "sent" /\ msgs = <<>> /\ held.left = 0
        /\ req[n].op = "close" /\ req[n].full => req[n].volume >= held.left

Answered(entered, msgs, held) ==
    \A n \in DOMAIN msgs :
        /\ msgs[n].op = "place" => n = 1 /\ entered.stage = "sent"
        /\ msgs[n].op = "close" /\ msgs[n].ok => held.left = 0

Opening(m) == m.op = "fill" /\ m.opening

(* An opening fill on its way is the first of its fills, and finds a       *)
(* position nobody has taken from, if it finds one.                        *)
Opens(p, msgs, held) ==
    \A n \in DOMAIN msgs : Opening(msgs[n]) =>
        /\ \A m \in 1..(n - 1) : msgs[m].op = "place"
        /\ p.status = "NONE" \/ (p.status = "PENDING" /\ p.left = Whole)
        /\ held.left + InTransit(msgs) = Whole

Balanced(p, msgs, held) == p.status = "OPEN" => p.left = held.left + InTransit(msgs)

FullRequested(req) == \E n \in DOMAIN req : req[n].op = "close" /\ req[n].full
CloseAnswered(msgs) == \E n \in DOMAIN msgs : msgs[n].op = "close"

Guarded(p, req, msgs, held) ==
    p.status = "OPEN" /\ (FullRequested(req) \/ CloseAnswered(msgs) \/ held.left = 0)

Coherent(entered, p, req, msgs, held, guarded) ==
    /\ entered.stage = "none" => req = <<>> /\ msgs = <<>> /\ held.left = 0
    /\ (p.status = "NONE") <=> (entered.stage # "done")
    /\ Asks(entered, req, msgs, held)
    /\ Answered(entered, msgs, held)
    /\ Opens(p, msgs, held)
    /\ Balanced(p, msgs, held)
    /\ guarded => Guarded(p, req, msgs, held)

Ordered(i) ==
    /\ (entry[i].stage = "none") <=> (i > submitted)
    /\ Coherent(entry[i], pos[i], requests[i], messages[i], book[i], i \in closing)

KeysHeld == \A k \in Keys : openKey[k] # 0 => Known(openKey[k]) /\ pos[openKey[k]].plan.key = k

Accounts == guard \in Guard /\ lastReal \in Int /\ cash \in Int

Market ==
    /\ price \in [Instruments -> Prices \cup {0}]
    /\ arms \in [Keys -> {NoArm} \cup Armed]
    /\ \A k \in Keys : arms[k].left > 0 => arms[k].sig.key = k
    /\ submitted \in 0..MaxOrders
    /\ openKey \in [Keys -> 0..MaxOrders]
    /\ closing \subseteq Orders

PerOrder ==
    /\ entry \in [Orders -> Entry]
    /\ pos \in [Orders -> {NoPosition, Gone} \cup Held]
    /\ requests \in [Orders -> Seq(Request)]
    /\ messages \in [Orders -> Seq(Message)]
    /\ book \in [Orders -> BookEntry]

LiveInv ==
    /\ Accounts /\ Market /\ PerOrder
    /\ \A i \in Orders : Ordered(i)
    /\ KeysHeld

-----------------------------------------------------------------------------
(* The guard.                                                              *)
LEMMA GuardChecked ==
    ASSUME NEW g \in Guard
    PROVE  CheckBreach(g) \in Guard
  <1> DEFINE status == StatusAfterCheck(g)
             halts == HaltsAfterCheck(g)
  <1>1. status \in Status /\ halts \in Nat
    BY DEF StatusAfterCheck, HaltsAfterCheck, Guard, Status
  <1>2. CheckBreach(g) = [g EXCEPT !.status = status, !.halts = halts]
    BY DEF CheckBreach
  <1> HIDE DEF status, halts
  <1> QED
    BY <1>1, <1>2 DEF Guard

LEMMA GuardBooked ==
    ASSUME NEW g \in Guard, NEW n \in Int
    PROVE  RealizePnl(g, n) \in Guard /\ MarkToMarket(g, n) \in Guard
  <1>1. [g EXCEPT !.balance = @ + n] \in Guard /\ [g EXCEPT !.unrealized = n] \in Guard
    BY DEF Guard
  <1> QED
    BY <1>1, GuardChecked DEF RealizePnl, MarkToMarket

LEMMA GuardReset ==
    ASSUME NEW g \in Guard, NEW n \in Int
    PROVE  CheckDailyReset(g, n) \in Guard
  <1> DEFINE sod == IF g.unrealized > 0 THEN Equity(g) ELSE g.balance
             status == IF g.status = "DAILY_HALT" THEN "ACTIVE" ELSE g.status
  <1>1. sod \in Int /\ status \in Status
    BY DEF Guard, Equity, Status
  <1>2. DailyReset(g, n) = [g EXCEPT !.sod = sod, !.resetAt = n, !.status = status]
    BY DEF DailyReset
  <1> HIDE DEF sod, status
  <1>3. DailyReset(g, n) \in Guard
    BY <1>1, <1>2 DEF Guard
  <1> QED
    BY <1>3 DEF CheckDailyReset

-----------------------------------------------------------------------------
(* What is in transit, message by message.                                 *)
Volumes(msgs) == [n \in Closings(msgs) |-> msgs[n].volume]

LEMMA TransitType ==
    ASSUME NEW msgs \in Seq(Message)
    PROVE  /\ IsFiniteSet(Closings(msgs)) /\ Closings(msgs) \subseteq 1..Len(msgs)
           /\ Volumes(msgs) \in [Closings(msgs) -> Int]
           /\ InTransit(msgs) = SumFunctionOnSet(Volumes(msgs), Closings(msgs))
           /\ InTransit(msgs) \in Nat
           /\ Closings(msgs) = {} => InTransit(msgs) = 0
  <1> DEFINE D == Closings(msgs)
             f == Volumes(msgs)
  <1>1. Len(msgs) \in Nat /\ DOMAIN msgs = 1..Len(msgs) /\ \A n \in DOMAIN msgs : msgs[n] \in Message
    OBVIOUS
  <1>2. D \subseteq 1..Len(msgs) /\ IsFiniteSet(D)
    <2>1. D \subseteq 1..Len(msgs)
      BY <1>1 DEF Closings
    <2>2. IsFiniteSet(1..Len(msgs))
      BY <1>1, FirstNumbers
    <2> HIDE DEF D
    <2> QED
      BY <2>1, <2>2, FS_Subset
  <1>3. \A n \in D : msgs[n].volume \in Nat
    <2> SUFFICES ASSUME NEW n \in D PROVE msgs[n].volume \in Nat
      OBVIOUS
    <2>1. msgs[n] \in Message /\ msgs[n].op = "fill"
      BY <1>1 DEF Closings
    <2>2. msgs[n] \in FillMessage
      BY <2>1 DEF Message, Answer
    <2> QED
      BY <2>2 DEF FillMessage
  <1>4. f \in [D -> Int] /\ DOMAIN f = D /\ \A n \in D : f[n] >= 0
    BY <1>3 DEF Volumes
  <1>5. InTransit(msgs) = SumFunctionOnSet(f, D)
    BY <1>4 DEF InTransit, SumFunction, Volumes
  <1> HIDE DEF D, f
  <1>6. SumFunctionOnSet(f, D) \in Int /\ SumFunctionOnSet(f, D) >= 0
    BY <1>2, <1>4, SumType, SumNonnegative
  <1>7. D = {} => SumFunctionOnSet(f, D) = 0
    BY <1>4, SumEmpty
  <1>8. SumFunctionOnSet(f, D) \in Nat
    BY <1>6
  <1> QED
    BY <1>2, <1>4, <1>5, <1>7, <1>8 DEF D, f

Counts(m) == m.op = "fill" /\ ~m.opening

VolumeOf(m) == IF Counts(m) THEN m.volume ELSE 0

LEMMA VolumeType == ASSUME NEW m \in Message PROVE VolumeOf(m) \in Nat
  <1>1. Counts(m) => m \in FillMessage
    BY DEF Counts, Message, Answer
  <1> QED
    BY <1>1 DEF VolumeOf, FillMessage

(* Some of a sequence's numbers, moved by a distance.                      *)
LEMMA TransitMoved ==
    ASSUME NEW a \in Seq(Message), NEW b \in Seq(Message), NEW d \in Nat,
           NEW D \in SUBSET Closings(a),
           \A n \in D : n + d \in Closings(b) /\ b[n + d] = a[n]
    PROVE  SumFunctionOnSet(Volumes(b), {n + d : n \in D}) = SumFunctionOnSet(Volumes(a), D)
  <1> DEFINE f == Volumes(a)
             g == Volumes(b)
             name == [n \in D |-> n + d]
             names == {n + d : n \in D}
  <1>1. /\ f \in [Closings(a) -> Int] /\ IsFiniteSet(Closings(a))
        /\ g \in [Closings(b) -> Int] /\ Closings(a) \subseteq Nat
    <2>1. \A n \in 1..Len(a) : n \in Nat
      OBVIOUS
    <2> QED
      BY <2>1, TransitType
  <1>2. \A n \in D : g[name[n]] = f[n]
    BY DEF Volumes
  <1>3. \A n \in D : name[n] \in Closings(b)
    OBVIOUS
  <1>4. \A m, n \in D : name[m] = name[n] => m = n
    <2>1. \A n \in D : n \in Nat
      BY <1>1
    <2> QED
      BY <2>1
  <1>5. names = {name[n] : n \in D}
    OBVIOUS
  <1>6. IsFiniteSet(D) /\ D \in SUBSET Closings(a)
    BY <1>1, FS_Subset
  <1>7. names \in SUBSET Closings(b)
    BY <1>3, <1>5
  <1> HIDE DEF f, g, name, names
  <1>8. Renames(name, D, names, f, g)
    BY <1>2, <1>4, <1>5 DEF Renames
  <1>9. SumFunctionOnSet(g, names) = SumFunctionOnSet(f, D)
    <2>1. Relabelled(f, Closings(a), D, g, Closings(b), names, name)
      BY <1>1, <1>6, <1>7, <1>8 DEF Relabelled
    <2> QED
      BY <1>6, <2>1, SumOfSome
  <1> QED
    BY <1>9 DEF f, g, names

LEMMA TransitGrows ==
    ASSUME NEW msgs \in Seq(Message), NEW m \in Message
    PROVE  InTransit(Append(msgs, m)) = InTransit(msgs) + VolumeOf(m)
  <1> DEFINE b == Append(msgs, m)
             D == Closings(msgs)
             last == Len(msgs) + 1
             f == Volumes(msgs)
             g == Volumes(b)
  <1>1. /\ b \in Seq(Message) /\ Len(msgs) \in Nat /\ DOMAIN msgs = 1..Len(msgs)
        /\ DOMAIN b = 1..last /\ b[last] = m /\ \A n \in DOMAIN msgs : b[n] = msgs[n]
    OBVIOUS
  <1>2. Closings(b) = IF Counts(m) THEN D \cup {last} ELSE D
    <2> HIDE DEF b
    <2>1. DOMAIN b = DOMAIN msgs \cup {last}
      BY <1>1
    <2> QED
      BY <1>1, <2>1 DEF Closings, Counts
  <1>3. /\ f \in [D -> Int] /\ IsFiniteSet(D) /\ g \in [Closings(b) -> Int]
        /\ InTransit(msgs) = SumFunctionOnSet(f, D) /\ InTransit(msgs) \in Nat
        /\ InTransit(b) = SumFunctionOnSet(g, Closings(b))
        /\ last \notin D
    <2> HIDE DEF b, f, g, D
    <2>1. last \notin 1..Len(msgs)
      BY <1>1
    <2> QED
      BY <1>1, <2>1, TransitType DEF f, g, D
  <1>4. D \subseteq Closings(b)
    BY <1>2
  <1>5. SumFunctionOnSet(g, D) = SumFunctionOnSet(f, D)
    <2>1. \A n \in D : n \in Nat /\ n + 0 = n
      BY <1>1 DEF Closings
    <2>2. \A n \in D : n + 0 \in Closings(b) /\ b[n + 0] = msgs[n]
      BY <1>1, <1>4, <2>1 DEF Closings
    <2>3. {n + 0 : n \in D} = D
      BY <2>1
    <2>4. SumFunctionOnSet(g, {n + 0 : n \in D}) = SumFunctionOnSet(f, D)
      <3> HIDE DEF b
      <3> QED
        BY <1>1, <2>2, TransitMoved
    <2> QED
      BY <2>3, <2>4, Zenon
  <1>6. CASE ~Counts(m)
    <2>1. Closings(b) = D
      BY <1>2, <1>6
    <2>2. InTransit(b) = SumFunctionOnSet(g, D)
      BY <1>3, <2>1, Zenon
    <2> HIDE DEF f, g, D, b
    <2> QED
      BY <1>3, <1>5, <1>6, <2>2 DEF VolumeOf, b
  <1>7. CASE Counts(m)
    <2>1. Closings(b) = D \cup {last}
      BY <1>2, <1>7
    <2>2. g[last] = m.volume
      BY <1>1, <2>1 DEF Volumes
    <2> DEFINE C == Closings(b)
    <2>3. g \in [C -> Int] /\ D \in SUBSET C /\ last \in C
      BY <1>3, <2>1
    <2> HIDE DEF f, g, D, b, last, C
    <2>4. SumFunctionOnSet(g, D \cup {last}) = g[last] + SumFunctionOnSet(g, D)
      BY <1>3, <2>3, SumAdds
    <2>5. InTransit(b) = SumFunctionOnSet(g, D \cup {last})
      BY <1>3, <2>1, Zenon
    <2>6. VolumeOf(m) = m.volume /\ VolumeOf(m) \in Nat
      BY <1>7, VolumeType DEF VolumeOf
    <2> QED
      BY <1>3, <1>5, <2>2, <2>4, <2>5, <2>6 DEF b
  <1> QED
    BY <1>6, <1>7

LEMMA TransitShrinks ==
    ASSUME NEW msgs \in Seq(Message), msgs # <<>>
    PROVE  InTransit(msgs) = VolumeOf(Head(msgs)) + InTransit(Tail(msgs))
  <1> DEFINE a == Tail(msgs)
             m == Head(msgs)
             D == Closings(a)
             moved == {n + 1 : n \in D}
             f == Volumes(a)
             g == Volumes(msgs)
  <1>1. /\ a \in Seq(Message) /\ Len(msgs) \in Nat /\ Len(msgs) >= 1 /\ DOMAIN msgs = 1..Len(msgs)
        /\ Len(a) = Len(msgs) - 1 /\ DOMAIN a = 1..Len(a) /\ msgs[1] = m /\ m \in Message
        /\ \A n \in DOMAIN a : a[n] = msgs[n + 1]
    OBVIOUS
  <1>2. Closings(msgs) = IF Counts(m) THEN moved \cup {1} ELSE moved
    <2> HIDE DEF a, m
    <2>1. \A n \in DOMAIN msgs : n = 1 \/ n - 1 \in DOMAIN a
      BY <1>1
    <2>2. \A n \in DOMAIN a : n + 1 \in DOMAIN msgs /\ n + 1 # 1 /\ n \in Nat
      BY <1>1
    <2>3. ASSUME NEW n \in DOMAIN msgs, n # 1
          PROVE  n \in Closings(msgs) <=> n \in moved
      <3>1. n - 1 \in DOMAIN a /\ (n - 1) + 1 = n /\ a[n - 1] = msgs[n]
        BY <1>1, <2>1, <2>3
      <3>2. n \in Closings(msgs) <=> n - 1 \in D
        BY <3>1 DEF Closings
      <3>3. \A k \in D : k + 1 = n => k = n - 1
        BY <1>1, <2>2 DEF Closings
      <3>4. n - 1 \in D => n \in moved
        BY <3>1
      <3>5. n \in moved => n - 1 \in D
        BY <3>3
      <3> QED
        BY <3>2, <3>4, <3>5
    <2>4. 1 \in Closings(msgs) <=> Counts(m)
      BY <1>1 DEF Closings, Counts
    <2>5. 1 \notin moved /\ moved \subseteq DOMAIN msgs
      BY <2>2 DEF Closings
    <2>6. Closings(msgs) \subseteq DOMAIN msgs /\ 1 \in DOMAIN msgs
      BY <1>1 DEF Closings
    <2> DEFINE C == Closings(msgs)
    <2> HIDE DEF moved, D, C
    <2>7. \A n : n \in C <=> n \in moved \/ (n = 1 /\ Counts(m))
      BY <2>3, <2>4, <2>5, <2>6 DEF C
    <2>8. CASE Counts(m)
      <3>1. C = moved \cup {1}
        BY <2>7, <2>8
      <3> QED
        BY <2>8, <3>1, Zenon DEF C
    <2>9. CASE ~Counts(m)
      <3>1. C = moved
        BY <2>7, <2>9
      <3> QED
        BY <2>9, <3>1, Zenon DEF C
    <2> QED
      BY <2>8, <2>9
  <1>3. /\ f \in [D -> Int] /\ IsFiniteSet(D) /\ g \in [Closings(msgs) -> Int]
        /\ InTransit(a) = SumFunctionOnSet(f, D) /\ InTransit(a) \in Nat
        /\ InTransit(msgs) = SumFunctionOnSet(g, Closings(msgs))
        /\ IsFiniteSet(Closings(msgs))
    <2> HIDE DEF a, f, g, D
    <2> QED
      BY <1>1, TransitType DEF f, g, D
  <1>4. SumFunctionOnSet(g, moved) = SumFunctionOnSet(f, D)
    <2>1. \A n \in D : n + 1 \in Closings(msgs) /\ msgs[n + 1] = a[n]
      <3>1. \A n \in D : n + 1 \in moved
        OBVIOUS
      <3>2. D \subseteq DOMAIN a
        BY DEF Closings
      <3>3. \A n \in D : msgs[n + 1] = a[n]
        BY <1>1, <3>2
      <3> HIDE DEF moved, a, D
      <3> QED
        BY <1>2, <3>1, <3>3
    <2>2. D \in SUBSET Closings(a)
      OBVIOUS
    <2> HIDE DEF a, D
    <2>3. SumFunctionOnSet(Volumes(msgs), {n + 1 : n \in D}) = SumFunctionOnSet(Volumes(a), D)
      BY <1>1, <2>1, <2>2, TransitMoved
    <2> QED
      BY <2>3
  <1>5. CASE ~Counts(m)
    <2>1. Closings(msgs) = moved
      BY <1>2, <1>5
    <2>2. InTransit(msgs) = SumFunctionOnSet(g, moved)
      BY <1>3, <2>1, Zenon
    <2> HIDE DEF f, g, D, a, moved, m
    <2> QED
      BY <1>3, <1>4, <1>5, <2>2 DEF VolumeOf, a, m
  <1>6. CASE Counts(m)
    <2>1. Closings(msgs) = moved \cup {1} /\ 1 \in Closings(msgs)
      BY <1>2, <1>6
    <2>2. g[1] = m.volume
      BY <1>1, <2>1 DEF Volumes
    <2>3. Closings(msgs) \ {1} = moved
      <3>1. 1 \notin moved
        BY <1>1 DEF Closings
      <3> QED
        BY <2>1, <3>1
    <2> DEFINE C == Closings(msgs)
    <2>4. g \in [C -> Int] /\ C \in SUBSET C /\ IsFiniteSet(C) /\ 1 \in C
      BY <1>3, <2>1
    <2> HIDE DEF f, g, D, a, moved, m, C
    <2>5. SumFunctionOnSet(g, C) = g[1] + SumFunctionOnSet(g, C \ {1})
      BY <2>4, SumTakes
    <2>6. SumFunctionOnSet(g, C \ {1}) = SumFunctionOnSet(g, moved)
      BY <2>3, Zenon DEF C
    <2>7. VolumeOf(m) = m.volume /\ VolumeOf(m) \in Nat
      BY <1>1, <1>6, VolumeType DEF VolumeOf
    <2> QED
      BY <1>3, <1>4, <2>2, <2>5, <2>6, <2>7 DEF C, a, m
  <1> QED
    BY <1>5, <1>6

-----------------------------------------------------------------------------
(* Signals and positions.                                                  *)
LEMMA SignalFacts ==
    ASSUME NEW s \in Signals
    PROVE  /\ s \in SignalFields /\ s.key \in Keys /\ s.key.inst \in Instruments
           /\ s.dir \in Directions /\ s.entry \in Int /\ s.sl \in Int
           /\ Len(s.tps) \in Nat \ {0} /\ DOMAIN s.tps = 1..Len(s.tps)
           /\ \A j \in DOMAIN s.tps : s.tps[j].price \in Int /\ s.tps[j].frac \in Nat \ {0}
  <1>1. s \in SignalFields /\ ValidPlan(s)
    BY LiveAssumption DEF ValidSignal
  <1>2. /\ s.tps \in Seq([price : Int, frac : Int]) /\ s.key \in Keys /\ s.dir \in Directions
        /\ s.entry \in Int /\ s.sl \in Int
    BY <1>1 DEF SignalFields
  <1>3. DOMAIN s.tps = 1..Len(s.tps) /\ Len(s.tps) \in Nat
    BY <1>2
  <1>4. Len(s.tps) # 0
    BY <1>1, <1>2 DEF ValidPlan
  <1>5. \A j \in DOMAIN s.tps : s.tps[j].price \in Int
    <2>1. ASSUME NEW T, NEW t \in Seq(T) PROVE \A j \in DOMAIN t : t[j] \in T
      OBVIOUS
    <2>2. \A j \in DOMAIN s.tps : s.tps[j] \in [price : Int, frac : Int]
      BY <1>2, <2>1
    <2> QED
      BY <2>2
  <1>6. \A j \in DOMAIN s.tps : s.tps[j].frac \in Nat \ {0}
    <2>1. \A j \in DOMAIN s.tps : s.tps[j].frac \in 1..Whole
      BY <1>1 DEF ValidPlan
    <2> QED
      BY <2>1, ExitAssumption
  <1>7. s.key.inst \in Instruments
    BY <1>2, AccountAssumption
  <1> QED
    BY <1>1, <1>2, <1>3, <1>4, <1>5, <1>6, <1>7

LEMMA LotsFit ==
    ASSUME NEW s \in Signals
    PROVE  LotSize(RiskDistance(s)) \in Int
  <1> DEFINE dist == RiskDistance(s)
             d == 100 * dist * Whole
             b == SizingBalance * RiskPct
  <1>1. dist \in Nat
    BY SignalFacts DEF RiskDistance, Abs
  <1> HIDE DEF dist
  <1>2. CASE dist = 0
    BY <1>2 DEF LotSize, dist
  <1>3. CASE dist # 0
    <2>1. d \in Nat \ {0} /\ b \in Nat
      BY <1>1, <1>3, AccountAssumption, ExitAssumption
    <2> HIDE DEF d, b
    <2>2. b \div d \in Int
      BY <2>1
    <2>3. Min({MaxLot, b \div d}) \in Int
      BY <2>2, MinOfTwo, AccountAssumption
    <2> QED
      BY <1>3, <2>3 DEF LotSize, d, b, dist
  <1> QED
    BY <1>2, <1>3

LEMMA TightestIsOne ==
    ASSUME NEW dir \in Directions, NEW stops \in SUBSET Int, IsFiniteSet(stops), stops # {}
    PROVE  Tightest(dir, stops) \in stops
  <1> DEFINE f == [x \in stops |-> x * Sign(dir)]
  <1>1. f \in [stops -> Int]
    BY DEF Directions, Sign
  <1>2. \E x \in stops : \A y \in stops : f[x] >= f[y]
    <2> HIDE DEF f
    <2> QED
      BY <1>1, HasGreatest
  <1>3. \E x \in stops : \A y \in stops : Gain(dir, x, y) <= 0
    BY <1>2 DEF Gain, Directions, Sign
  <1> QED
    BY <1>3 DEF Tightest

(* What the policy does moves the stop and the best price, nothing else.   *)
SamePosition(p, q) ==
    /\ q.plan = p.plan /\ q.left = p.left /\ q.status = p.status

LEMMA StopMoves ==
    ASSUME NEW p \in Held, NEW bid \in Int
    PROVE  Moved(p, bid) \in Held /\ SamePosition(p, Moved(p, bid))
  <1> DEFINE best == IF Gain(p.plan.dir, p.best, bid) > 0 THEN bid ELSE p.best
             m == UpdateExcursion(p, bid)
             s == m.plan
             a == m.entry + Sign(s.dir) * s.beOffset * RiskDistance(s)
             b == m.best - Sign(s.dir) * TrailDistance(s)
             stops == {m.stop} \cup PolicyStops(m)
             stop == Tightest(s.dir, stops)
  <1>1. m \in Held /\ SamePosition(p, m)
    <2>1. best \in Int
      BY DEF Held, HeldFields
    <2>2. m = [p EXCEPT !.best = best]
      BY DEF UpdateExcursion
    <2> HIDE DEF best, m
    <2> QED
      BY <2>1, <2>2 DEF Held, HeldFields, SamePosition
  <1> HIDE DEF m
  <1>2. s \in Signals /\ s \in SignalFields /\ s.dir \in Directions /\ m.stop \in Int
    <2>1. s \in Signals /\ m.stop \in Int
      BY <1>1 DEF Held, HeldFields
    <2> QED
      BY <2>1, SignalFacts
  <1>3. a \in Int /\ b \in Int
    <2>0. m.entry \in Int /\ m.best \in Int
      BY <1>1 DEF Held, HeldFields
    <2> HIDE DEF s
    <2>1. /\ Sign(s.dir) \in Int
          /\ s.beOffset \in Int /\ s.trailDist \in Int /\ s.trailR \in Int
          /\ s.entry \in Int /\ s.sl \in Int
      BY <1>2 DEF SignalFields, Sign
    <2>2. RiskDistance(s) \in Int
      BY <2>1 DEF RiskDistance, Abs
    <2>3. TrailDistance(s) \in Int
      BY <2>1, <2>2 DEF TrailDistance
    <2> QED
      BY <2>0, <2>1, <2>2, <2>3
  <1>4. stops \subseteq {m.stop, a, b}
    BY DEF PolicyStops
  <1> HIDE DEF a, b, stops
  <1>5. stops \in SUBSET Int /\ IsFiniteSet(stops) /\ stops # {}
    <2>1. IsFiniteSet({m.stop, a, b})
      BY ThreeAreFinite
    <2>2. IsFiniteSet(stops)
      BY <1>4, <2>1, FS_Subset
    <2>3. stops # {}
      BY DEF stops
    <2> QED
      BY <1>2, <1>3, <1>4, <2>2, <2>3
  <1>6. stop \in Int
    BY <1>2, <1>5, TightestIsOne
  <1>7. ApplyDynamicStop(m) = [m EXCEPT !.stop = stop]
    BY DEF ApplyDynamicStop, stops
  <1> HIDE DEF stop, s
  <1>8. [m EXCEPT !.stop = stop] \in Held /\ SamePosition(p, [m EXCEPT !.stop = stop])
    BY <1>1, <1>6 DEF Held, HeldFields, SamePosition
  <1> QED
    BY <1>7, <1>8 DEF m, Moved

LEMMA ManagedType ==
    ASSUME NEW p \in Held, NEW bid \in Int
    PROVE  Managed(p, bid) \in Held /\ SamePosition(p, Managed(p, bid))
  <1> DEFINE m == Moved(p, bid)
             taken == m.taken \cup Reached(p, bid)
  <1>1. m \in Held /\ SamePosition(p, m)
    BY StopMoves
  <1>2. taken \in SUBSET Nat
    <2>1. p.plan \in Signals /\ m.taken \in SUBSET Nat
      BY <1>1 DEF Held, HeldFields
    <2>2. DOMAIN p.plan.tps \subseteq Nat
      BY <2>1, SignalFacts
    <2>3. Reached(p, bid) \subseteq DOMAIN p.plan.tps
      BY DEF Reached, Hits
    <2> QED
      BY <2>1, <2>2, <2>3
  <1>3. Managed(p, bid) = [m EXCEPT !.taken = taken]
    BY DEF Managed
  <1> HIDE DEF m, taken
  <1> QED
    BY <1>1, <1>2, <1>3 DEF Held, HeldFields, SamePosition

(* What a tick asks for: never a full close.                               *)
PartialClose == [op : {"close"}, volume : Nat \ {0}, full : {FALSE}]

TickRequest == [op : {"amend"}, stop : Int] \cup PartialClose

LEMMA TargetsAsk ==
    ASSUME NEW p \in Held, NEW bid \in Int
    PROVE  TargetRequests(p, bid) \in Seq(PartialClose)
  <1> DEFINE n == Len(p.plan.tps)
             D == 1..n
             V == [j \in DOMAIN p.plan.tps |->
                      IF j \in Reached(p, bid) THEN FractionVolume(p, p.plan.tps[j].frac) ELSE 0]
             Asked == Seq(PartialClose)
             op(asked, volume) == IF volume = 0 THEN asked
                                  ELSE Append(asked, CloseRequest(volume, FALSE))
             step == [j \in D |-> [asked \in Asked |-> op(asked, V[j])]]
             Folds(f) == f = [s \in SUBSET D |-> IF s = {} THEN <<>>
                                                 ELSE op(f[s \ {Max(s)}], V[Max(s)])]
             g == CHOOSE f : Folds(f)
  <1>1. n \in Nat /\ DOMAIN p.plan.tps = D /\ DOMAIN V = D /\ p.plan \in Signals
    <2>1. p.plan \in Signals
      BY DEF Held, HeldFields
    <2> QED
      BY <2>1, SignalFacts
  <1>2. \A j \in D : V[j] \in Nat
    <2> SUFFICES ASSUME NEW j \in D PROVE V[j] \in Nat
      OBVIOUS
    <2>1. p.plan.tps[j].frac \in Nat /\ p.left \in Nat
      BY <1>1, SignalFacts, ExitAssumption DEF Held, HeldFields
    <2>2. Min({p.plan.tps[j].frac, p.left}) \in Nat
      BY <2>1, MinOfTwo
    <2>3. FractionVolume(p, p.plan.tps[j].frac) \in Nat
      BY <2>1, <2>2 DEF FractionVolume
    <2> QED
      BY <1>1, <2>3
  <1>3. TargetRequests(p, bid) = (CHOOSE f : Folds(f))[D]
    <2>1. TargetRequests(p, bid) =
             (CHOOSE f : f = [s \in SUBSET DOMAIN V |-> IF s = {} THEN <<>>
                                 ELSE op(f[s \ {Max(s)}], V[Max(s)])])[DOMAIN V]
      BY DEF TargetRequests, FoldLeft, MapThenFoldSet
    <2> QED
      BY <1>1, <2>1, Zenon
  <1>4. ASSUME NEW asked \in Asked, NEW volume \in Nat PROVE op(asked, volume) \in Asked
    <2> DEFINE r == CloseRequest(volume, FALSE)
    <2>1. volume # 0 => r \in PartialClose
      BY DEF CloseRequest, PartialClose
    <2> HIDE DEF r
    <2>2. volume # 0 => Append(asked, r) \in Asked
      BY <2>1
    <2> QED
      BY <2>2 DEF r
  <1> HIDE DEF V, op, n
  <1>5. <<>> \in Asked
    OBVIOUS
  <1>6. PICK f : Recursive(f, D, Asked, <<>>, LastOf(n), step)
    <2>1. step \in [D -> [Asked -> Asked]]
      BY <1>2, <1>4
    <2> HIDE DEF step, Asked
    <2> QED
      BY <1>1, <1>5, <2>1, PrefixRecursion
  <1>7. Folds(f)
    <2>1. /\ f \in [SUBSET D -> Asked] /\ f[{}] = <<>>
          /\ \A s \in SUBSET D : s # {} => f[s] = step[LastOf(n)[s]][f[s \ {LastOf(n)[s]}]]
      BY <1>6 DEF Recursive
    <2>2. ASSUME NEW s \in SUBSET D, s # {} PROVE f[s] = op(f[s \ {Max(s)}], V[Max(s)])
      <3>1. Max(s) \in D /\ LastOf(n)[s] = Max(s)
        BY <1>1, <2>2, MaxIsLast DEF LastOf
      <3>2. f[s \ {Max(s)}] \in Asked
        BY <2>1
      <3> QED
        BY <2>1, <2>2, <3>1, <3>2
    <2> QED
      BY <2>1, <2>2
  <1>8. Folds(g)
    BY <1>7
  <1> HIDE DEF g
  <1> DEFINE S == {k \in 0..n : g[1..k] \in Asked}
  <1>9. 0 \in S
    <2>1. (1..0) = {} /\ {} \in SUBSET D
      OBVIOUS
    <2>2. g[1..0] = <<>>
      BY <1>8, <2>1
    <2>3. g[1..0] \in Asked
      BY <1>5, <2>2, Zenon
    <2>4. 0 \in 0..n
      BY <1>1
    <2> HIDE DEF Asked
    <2> QED
      BY <2>3, <2>4
  <1>10. ASSUME NEW k \in 1..n, k - 1 \in S PROVE k \in S
    <2>1. g[1..k] = op(g[1..(k - 1)], V[k])
      <3> HIDE DEF Asked, S, step
      <3>1. /\ (1..k) \in SUBSET D /\ (1..k) # {}
            /\ Max(1..k) = k /\ (1..k) \ {Max(1..k)} = 1..(k - 1)
        BY <1>1, PrefixParts
      <3>2. g[1..k] = op(g[(1..k) \ {Max(1..k)}], V[Max(1..k)])
        <4> HIDE DEF D
        <4> QED
          BY <1>8, <3>1
      <3> QED
        BY <3>1, <3>2, Zenon
    <2>2. g[1..(k - 1)] \in Asked /\ k \in 0..n /\ V[k] \in Nat
      BY <1>1, <1>2, <1>10
    <2> HIDE DEF Asked, Folds
    <2>3. g[1..k] \in Asked
      BY <1>4, <2>1, <2>2
    <2> QED
      BY <2>2, <2>3
  <1>11. 0..n \subseteq S
    <2> HIDE DEF S
    <2> QED
      BY <1>1, <1>9, <1>10, StepByStep
  <1>12. g[D] \in Asked
    BY <1>1, <1>11
  <1> QED
    BY <1>3, <1>12 DEF g

LEMMA TickAsks ==
    ASSUME NEW p \in Held, NEW bid \in Int
    PROVE  TickRequests(p, bid) \in Seq(TickRequest)
  <1> DEFINE stop == Moved(p, bid).stop
             first == IF stop # p.stop THEN <<[op |-> "amend", stop |-> stop]>> ELSE <<>>
  <1>1. stop \in Int
    BY StopMoves DEF Held, HeldFields
  <1>2. first \in Seq(TickRequest)
    <2> HIDE DEF stop
    <2>1. [op |-> "amend", stop |-> stop] \in TickRequest
      BY <1>1 DEF TickRequest
    <2> HIDE DEF TickRequest
    <2> QED
      BY <2>1
  <1>3. TargetRequests(p, bid) \in Seq(TickRequest)
    <2>1. PartialClose \subseteq TickRequest
      BY DEF TickRequest
    <2>2. ASSUME NEW T, NEW U, T \subseteq U, NEW t \in Seq(T) PROVE t \in Seq(U)
      BY <2>2
    <2> HIDE DEF first
    <2> QED
      BY <2>1, <2>2, TargetsAsk
  <1>4. TickRequests(p, bid) = first \o TargetRequests(p, bid)
    BY DEF TickRequests
  <1> HIDE DEF first
  <1> QED
    BY <1>2, <1>3, <1>4

LEMMA PendingHeld ==
    ASSUME NEW s \in Signals, NEW lots \in Int
    PROVE  LET p == Pending(s, lots)
           IN  p \in Held /\ p.plan = s /\ p.status = "PENDING" /\ p.left = Whole
  <1>1. s.entry \in Int /\ s.sl \in Int /\ Whole \in 0..Whole /\ Whole # 0
    BY SignalFacts, ExitAssumption
  <1> QED
    BY <1>1 DEF Pending, Held, HeldFields

-----------------------------------------------------------------------------
(* Sequences.                                                              *)
LEMMA TailIndex ==
    ASSUME NEW T, NEW s \in Seq(T), s # <<>>
    PROVE  /\ Tail(s) \in Seq(T) /\ Head(s) = s[1] /\ 1 \in DOMAIN s /\ s[1] \in T
           /\ \A n \in DOMAIN Tail(s) : n \in Nat \ {0} /\ n + 1 \in DOMAIN s /\ Tail(s)[n] = s[n + 1]
           /\ \A n \in DOMAIN s : n = 1 \/ (n - 1 \in DOMAIN Tail(s) /\ Tail(s)[n - 1] = s[n])
  OBVIOUS

LEMMA AppendIndex ==
    ASSUME NEW T, NEW s \in Seq(T), NEW x \in T
    PROVE  /\ Append(s, x) \in Seq(T) /\ Len(s) \in Nat /\ DOMAIN s = 1..Len(s)
           /\ DOMAIN Append(s, x) = DOMAIN s \cup {Len(s) + 1}
           /\ Append(s, x)[Len(s) + 1] = x
           /\ \A n \in DOMAIN s : Append(s, x)[n] = s[n]
  OBVIOUS

(* The elements of a sequence are those of its parts, the first part's     *)
(* where they were.                                                        *)
MadeOf(c, a, b) ==
    /\ \A n \in DOMAIN a : n \in DOMAIN c /\ c[n] = a[n]
    /\ \A n \in DOMAIN b : \E m \in DOMAIN c : c[m] = b[n]
    /\ \A n \in DOMAIN c : \/ n \in DOMAIN a /\ c[n] = a[n]
                          \/ \E m \in DOMAIN b : c[n] = b[m]

LEMMA JoinIndex ==
    ASSUME NEW T, NEW a \in Seq(T), NEW b \in Seq(T)
    PROVE  (a \o b) \in Seq(T) /\ MadeOf(a \o b, a, b)
  <1>1. /\ a \o b \in Seq(T) /\ Len(a) \in Nat /\ Len(b) \in Nat
        /\ DOMAIN a = 1..Len(a) /\ DOMAIN b = 1..Len(b)
        /\ DOMAIN (a \o b) = 1..(Len(a) + Len(b))
        /\ \A n \in 1..(Len(a) + Len(b)) :
              (a \o b)[n] = IF n <= Len(a) THEN a[n] ELSE b[n - Len(a)]
    OBVIOUS
  <1> DEFINE c == a \o b
  <1> HIDE DEF c
  <1>2. \A n \in DOMAIN a : n \in DOMAIN c /\ c[n] = a[n]
    BY <1>1 DEF c
  <1>3. ASSUME NEW n \in DOMAIN b PROVE Len(a) + n \in DOMAIN c /\ c[Len(a) + n] = b[n]
    <2>1. n \in Nat \ {0} /\ n <= Len(b) /\ Len(a) + n \in 1..(Len(a) + Len(b))
          /\ ~(Len(a) + n <= Len(a)) /\ (Len(a) + n) - Len(a) = n
      BY <1>1
    <2> QED
      BY <1>1, <2>1 DEF c
  <1>4. ASSUME NEW n \in DOMAIN c
        PROVE  \/ n \in DOMAIN a /\ c[n] = a[n]
               \/ n - Len(a) \in DOMAIN b /\ c[n] = b[n - Len(a)]
    <2>1. n \in 1..(Len(a) + Len(b))
      BY <1>1 DEF c
    <2>2. n <= Len(a) => n \in DOMAIN a
      BY <1>1, <2>1
    <2>3. ~(n <= Len(a)) => n - Len(a) \in DOMAIN b
      BY <1>1, <2>1
    <2>4. c[n] = IF n <= Len(a) THEN a[n] ELSE b[n - Len(a)]
      BY <1>1, <2>1 DEF c
    <2> QED
      BY <2>2, <2>3, <2>4
  <1>5. \A n \in DOMAIN b : \E m \in DOMAIN c : c[m] = b[n]
    BY <1>3
  <1>6. \A n \in DOMAIN c : (n \in DOMAIN a /\ c[n] = a[n]) \/ (\E m \in DOMAIN b : c[n] = b[m])
    BY <1>4
  <1>7. c \in Seq(T)
    BY <1>1 DEF c
  <1> QED
    BY <1>2, <1>5, <1>6, <1>7 DEF c, MadeOf

-----------------------------------------------------------------------------
(* What happens to one order.  The executor asks for something more.       *)
LEMMA AsksMore ==
    ASSUME NEW e, NEW p, p.status = "OPEN", NEW q, SamePosition(p, q),
           NEW req \in Seq(Request), NEW msgs, NEW held, NEW guarded,
           Coherent(e, p, req, msgs, held, guarded),
           NEW more \in Seq(Request),
           \A n \in DOMAIN more :
               /\ more[n].op # "place"
               /\ more[n].op = "close" /\ more[n].full => more[n].volume >= held.left,
           NEW after, after => guarded \/ FullRequested(more)
    PROVE  Coherent(e, q, req \o more, msgs, held, after)
  <1> DEFINE all == req \o more
  <1>1. /\ \A n \in DOMAIN req : n \in DOMAIN all /\ all[n] = req[n]
        /\ \A n \in DOMAIN more : \E m \in DOMAIN all : all[m] = more[n]
        /\ \A n \in DOMAIN all : \/ n \in DOMAIN req /\ all[n] = req[n]
                                 \/ \E m \in DOMAIN more : all[n] = more[m]
    BY JoinIndex DEF MadeOf
  <1> HIDE DEF all
  <1>2. q.status = "OPEN" /\ q.left = p.left /\ e.stage = "done"
    BY DEF SamePosition, Coherent
  <1>3. \A n \in DOMAIN all : all[n].op # "place"
    <2>1. \A n \in DOMAIN req : req[n].op # "place"
      BY <1>2 DEF Coherent, Asks
    <2> QED
      BY <1>1, <2>1
  <1>4. Asks(e, all, msgs, held)
    <2>1. ASSUME NEW n \in DOMAIN all, all[n].op = "close", all[n].full
          PROVE  all[n].volume >= held.left
      <3>1. CASE n \in DOMAIN req /\ all[n] = req[n]
        BY <2>1, <3>1 DEF Coherent, Asks
      <3>2. CASE \E m \in DOMAIN more : all[n] = more[m]
        BY <2>1, <3>2
      <3> QED
        BY <1>1, <3>1, <3>2
    <2> QED
      BY <1>3, <2>1 DEF Asks
  <1>5. after => Guarded(q, all, msgs, held)
    <2>1. FullRequested(more) \/ FullRequested(req) => FullRequested(all)
      BY <1>1 DEF FullRequested
    <2> QED
      BY <1>2, <2>1 DEF Coherent, Guarded
  <1>6. Coherent(e, q, all, msgs, held, after)
    BY <1>2, <1>4, <1>5 DEF Coherent, Opens, Balanced, Answered
  <1> QED
    BY <1>6 DEF all

LEMMA Submitted ==
    ASSUME NEW e, e.stage = "none", NEW p, NEW req, NEW msgs, NEW held, NEW guarded,
           Coherent(e, p, req, msgs, held, guarded), NEW f, f.stage = "sent"
    PROVE  Coherent(f, p, <<PlaceRequest>>, msgs, held, guarded)
  <1>1. p.status = "NONE" /\ msgs = <<>> /\ held.left = 0
    BY DEF Coherent
  <1>2. ~guarded
    BY <1>1 DEF Coherent, Guarded
  <1>3. Asks(f, <<PlaceRequest>>, msgs, held)
    BY <1>1 DEF Asks, PlaceRequest
  <1> QED
    BY <1>1, <1>2, <1>3 DEF Coherent, Answered, Opens, Balanced

(* A new order is nobody's: the broker places it, or refuses.              *)
LEMMA Placed ==
    ASSUME NEW e, NEW p, NEW req \in Seq(Request), NEW msgs, NEW held, NEW guarded,
           Coherent(e, p, req, msgs, held, guarded),
           req # <<>>, Head(req).op = "place",
           NEW ok \in BOOLEAN, NEW at \in Int, NEW h, h.left = Whole
    PROVE  LET reply == Reply("place", ok)
               fill  == Fill(TRUE, Whole, at, 0)
           IN  /\ Coherent(e, p, Tail(req), <<reply>>, held, guarded)
               /\ Coherent(e, p, Tail(req), <<reply>> \o <<fill>>, h, guarded)
               /\ <<reply>> \in Seq(Message) /\ (<<reply>> \o <<fill>>) \in Seq(Message)
  <1> DEFINE reply == Reply("place", ok)
             fill == Fill(TRUE, Whole, at, 0)
             one == <<reply>>
             two == <<reply>> \o <<fill>>
  <1>1. /\ req = <<PlaceRequest>> /\ e.stage = "sent" /\ msgs = <<>> /\ held.left = 0
        /\ p.status = "NONE" /\ ~guarded
    <2>1. 1 \in DOMAIN req /\ req[1].op = "place"
      BY TailIndex
    <2> QED
      BY <2>1 DEF Coherent, Asks, Guarded
  <1>2. Tail(req) = <<>>
    BY <1>1
  <1>3. Whole \in Nat \ {0}
    BY ExitAssumption
  <1>4. reply \in Message /\ fill \in Message
    BY <1>3 DEF Reply, Fill, Message, Answer, FillMessage
  <1>5. /\ reply.op = "place" /\ ~Opening(reply) /\ ~Counts(reply)
        /\ fill.op = "fill" /\ Opening(fill) /\ ~Counts(fill)
    BY DEF Reply, Fill, Opening, Counts
  <1> HIDE DEF reply, fill
  <1>6. /\ one \in Seq(Message) /\ DOMAIN one = {1} /\ one[1] = reply
        /\ two \in Seq(Message) /\ DOMAIN two = {1, 2} /\ two[1] = reply /\ two[2] = fill
    BY <1>4
  <1> HIDE DEF one, two
  <1>7. Closings(one) = {} /\ Closings(two) = {}
    BY <1>5, <1>6 DEF Closings, Counts
  <1>8. InTransit(one) = 0 /\ InTransit(two) = 0
    BY <1>6, <1>7, TransitType
  <1>9. Answered(e, one, held) /\ Answered(e, two, h)
    BY <1>1, <1>5, <1>6 DEF Answered
  <1>10. Opens(p, one, held) /\ Opens(p, two, h)
    <2>1. \A n \in DOMAIN one : ~Opening(one[n])
      BY <1>5, <1>6
    <2>2. \A n \in DOMAIN two : Opening(two[n]) => n = 2
      BY <1>5, <1>6
    <2>3. \A m \in 1..(2 - 1) : two[m].op = "place"
      BY <1>5, <1>6
    <2>4. h.left + InTransit(two) = Whole
      BY <1>3, <1>8
    <2> QED
      BY <1>1, <2>1, <2>2, <2>3, <2>4 DEF Opens
  <1>11. \A x, y : Asks(e, <<>>, x, y)
    BY DEF Asks
  <1>12. Coherent(e, p, <<>>, one, held, guarded) /\ Coherent(e, p, <<>>, two, h, guarded)
    BY <1>1, <1>9, <1>10, <1>11 DEF Coherent, Balanced
  <1> QED
    BY <1>2, <1>6, <1>12 DEF one, two, reply, fill

(* The broker deals with a request, or acts by itself: it holds less, and  *)
(* tells of it.                                                            *)
LEMMA Reported ==
    ASSUME NEW e, NEW p, NEW req \in Seq(Request), NEW msgs \in Seq(Message), NEW held, NEW guarded,
           Coherent(e, p, req, msgs, held, guarded), e.stage # "none", held.left \in Nat,
           NEW rest, NEW more \in Seq(Message), NEW h, h.left \in Nat, h.left <= held.left,
           \A n \in DOMAIN rest :
               rest[n].op # "place" /\ \E m \in DOMAIN req : rest[n] = req[m],
           FullRequested(req) => FullRequested(rest) \/ CloseAnswered(more),
           \A n \in DOMAIN more :
               /\ more[n].op # "place" /\ ~Opening(more[n])
               /\ more[n].op = "close" /\ more[n].ok => h.left = 0,
           h.left + InTransit(msgs \o more) = held.left + InTransit(msgs)
    PROVE  Coherent(e, p, rest, msgs \o more, h, guarded)
  <1> DEFINE all == msgs \o more
  <1>1. /\ \A n \in DOMAIN msgs : n \in DOMAIN all /\ all[n] = msgs[n]
        /\ \A n \in DOMAIN more : \E m \in DOMAIN all : all[m] = more[n]
        /\ \A n \in DOMAIN all : \/ n \in DOMAIN msgs /\ all[n] = msgs[n]
                                 \/ \E m \in DOMAIN more : all[n] = more[m]
    BY JoinIndex DEF MadeOf
  <1>2. h.left + InTransit(all) = held.left + InTransit(msgs)
    OBVIOUS
  <1>3. Len(msgs) \in Nat /\ DOMAIN msgs = 1..Len(msgs)
    OBVIOUS
  <1> HIDE DEF all
  <1>4. Asks(e, rest, all, h)
    <2>1. ASSUME NEW n \in DOMAIN rest, rest[n].op = "close", rest[n].full
          PROVE  rest[n].volume >= h.left
      <3>1. PICK m \in DOMAIN req : rest[n] = req[m]
        BY <2>1
      <3>2. req[m].volume >= held.left
        BY <2>1, <3>1 DEF Coherent, Asks
      <3>3. req[m] \in Request
        OBVIOUS
      <3>4. req[m].volume \in Nat
        BY <2>1, <3>1, <3>3 DEF Request, PlaceRequest
      <3> QED
        BY <3>1, <3>2, <3>4
    <2> QED
      BY <2>1 DEF Asks
  <1>5. Answered(e, all, h)
    <2>1. ASSUME NEW n \in DOMAIN all, n \in DOMAIN msgs, all[n] = msgs[n]
          PROVE  /\ all[n].op = "place" => n = 1 /\ e.stage = "sent"
                 /\ all[n].op = "close" /\ all[n].ok => h.left = 0
      <3>1. held.left = 0 => h.left = 0
        OBVIOUS
      <3> QED
        BY <2>1, <3>1 DEF Coherent, Answered
    <2>2. ASSUME NEW n \in DOMAIN all, NEW m \in DOMAIN more, all[n] = more[m]
          PROVE  /\ all[n].op = "place" => n = 1 /\ e.stage = "sent"
                 /\ all[n].op = "close" /\ all[n].ok => h.left = 0
      BY <2>2
    <2> QED
      BY <1>1, <2>1, <2>2 DEF Answered
  <1>6. Opens(p, all, h)
    <2> SUFFICES ASSUME NEW n \in DOMAIN all, Opening(all[n])
                 PROVE  /\ \A m \in 1..(n - 1) : all[m].op = "place"
                        /\ p.status = "NONE" \/ (p.status = "PENDING" /\ p.left = Whole)
                        /\ h.left + InTransit(all) = Whole
      BY DEF Opens
    <2>1. n \in DOMAIN msgs /\ all[n] = msgs[n]
      BY <1>1
    <2>2. /\ \A m \in 1..(n - 1) : msgs[m].op = "place"
          /\ p.status = "NONE" \/ (p.status = "PENDING" /\ p.left = Whole)
          /\ held.left + InTransit(msgs) = Whole
      BY <2>1 DEF Coherent, Opens
    <2>3. \A m \in 1..(n - 1) : m \in DOMAIN msgs
      BY <1>3, <2>1
    <2> QED
      BY <1>1, <1>2, <2>2, <2>3
  <1>7. Balanced(p, all, h)
    BY <1>2 DEF Coherent, Balanced
  <1>8. guarded => Guarded(p, rest, all, h)
    <2>1. CloseAnswered(msgs) => CloseAnswered(all)
      BY <1>1 DEF CloseAnswered
    <2>2. CloseAnswered(more) => CloseAnswered(all)
      BY <1>1 DEF CloseAnswered
    <2>3. held.left = 0 => h.left = 0
      OBVIOUS
    <2> QED
      BY <2>1, <2>2, <2>3 DEF Coherent, Guarded
  <1> QED
    BY <1>4, <1>5, <1>6, <1>7, <1>8 DEF Coherent, all

(* What remains of the requests when the broker takes the first.           *)
LEMMA Taken ==
    ASSUME NEW e, NEW p, NEW req \in Seq(Request), NEW msgs, NEW held, NEW guarded,
           Coherent(e, p, req, msgs, held, guarded),
           req # <<>>, Head(req).op # "place"
    PROVE  /\ e.stage # "none"
           /\ Tail(req) \in Seq(Request) /\ Head(req) \in Request
           /\ \A n \in DOMAIN Tail(req) :
                 Tail(req)[n].op # "place" /\ \E m \in DOMAIN req : Tail(req)[n] = req[m]
           /\ FullRequested(req) => \/ FullRequested(Tail(req))
                                    \/ Head(req).op = "close" /\ Head(req).full
           /\ Head(req).op = "close" /\ Head(req).full => Head(req).volume >= held.left
  <1> DEFINE rest == Tail(req)
             r == Head(req)
  <1>1. /\ rest \in Seq(Request) /\ r = req[1] /\ 1 \in DOMAIN req /\ r \in Request
        /\ \A n \in DOMAIN rest : n + 1 \in DOMAIN req /\ rest[n] = req[n + 1]
        /\ \A n \in DOMAIN req : n = 1 \/ (n - 1 \in DOMAIN rest /\ rest[n - 1] = req[n])
    BY TailIndex
  <1>2. e.stage # "none"
    BY DEF Coherent
  <1>3. req # <<PlaceRequest>>
    BY DEF PlaceRequest
  <1>4. \A n \in DOMAIN req : req[n].op # "place"
    BY <1>3 DEF Coherent, Asks
  <1> HIDE DEF rest, r
  <1>5. FullRequested(req) => FullRequested(rest) \/ (r.op = "close" /\ r.full)
    BY <1>1 DEF FullRequested
  <1>6. r.op = "close" /\ r.full => r.volume >= held.left
    BY <1>1 DEF Coherent, Asks
  <1>7. \A n \in DOMAIN rest : rest[n].op # "place" /\ \E m \in DOMAIN req : rest[n] = req[m]
    BY <1>1, <1>4
  <1> QED
    BY <1>1, <1>2, <1>5, <1>6, <1>7 DEF rest, r

LEMMA Joining ==
    ASSUME NEW T, NEW s \in Seq(T)
    PROVE  /\ s \o <<>> = s
           /\ \A x \in T : s \o <<x>> = Append(s, x) /\ <<x>> \in Seq(T)
  <1>1. s \o <<>> = s
    OBVIOUS
  <1>2. ASSUME NEW x \in T PROVE s \o <<x>> = Append(s, x) /\ <<x>> \in Seq(T)
    OBVIOUS
  <1> QED
    BY <1>1, <1>2

LEMMA JoinedTwice ==
    ASSUME NEW T, NEW s \in Seq(T), NEW a \in Seq(T), NEW b \in Seq(T)
    PROVE  (s \o a) \o b = s \o (a \o b)
  OBVIOUS

(* A close was refused, or carried out whether or not its answer comes.    *)
Told(r, ok) == IF r.full THEN <<Reply("close", ok)>> ELSE <<>>

FilledBy(done, r, at, paid) ==
    IF done THEN <<Fill(FALSE, r.volume, at, paid)>> ELSE <<>>

Rest(done, r, left) == IF done THEN left - r.volume ELSE left

LEMMA CloseReported ==
    ASSUME NEW e, NEW p, NEW req \in Seq(Request), NEW msgs \in Seq(Message),
           NEW held \in BookEntry, NEW guarded,
           Coherent(e, p, req, msgs, held, guarded),
           req # <<>>, Head(req).op = "close",
           NEW done \in BOOLEAN, NEW ok \in BOOLEAN, ok => done,
           done => held.left >= Head(req).volume,
           NEW at \in Int, NEW paid \in Int,
           NEW h, h.left = Rest(done, Head(req), held.left)
    PROVE  LET told   == Told(Head(req), ok)
               filled == FilledBy(done, Head(req), at, paid)
           IN  /\ Coherent(e, p, Tail(req), msgs \o told \o filled, h, guarded)
               /\ (msgs \o told \o filled) \in Seq(Message)
  <1> DEFINE r == Head(req)
             x == Reply("close", ok)
             y == Fill(FALSE, r.volume, at, paid)
             reply == IF r.full THEN <<x>> ELSE <<>>
             fill == IF done THEN <<y>> ELSE <<>>
             more == reply \o fill
             rest == Tail(req)
  <1>1. /\ e.stage # "none" /\ r \in Request /\ r.op = "close"
        /\ \A n \in DOMAIN rest : rest[n].op # "place" /\ \E m \in DOMAIN req : rest[n] = req[m]
        /\ FullRequested(req) => FullRequested(rest) \/ r.full
        /\ r.full => r.volume >= held.left
    BY Taken
  <1> HIDE DEF r, rest
  <1>2. r.volume \in Nat \ {0} /\ r.full \in BOOLEAN
    BY <1>1 DEF Request, PlaceRequest, r
  <1>3. x \in Message /\ y \in Message
    BY <1>2 DEF Reply, Fill, Message, Answer, FillMessage
  <1>4. /\ x.op = "close" /\ x.ok = ok /\ ~Opening(x) /\ VolumeOf(x) = 0
        /\ y.op = "fill" /\ ~Opening(y) /\ VolumeOf(y) = r.volume
    BY DEF Reply, Fill, Opening, VolumeOf, Counts
  <1> HIDE DEF x, y
  <1>5. reply \in Seq(Message) /\ fill \in Seq(Message)
    BY <1>3
  <1>6. held.left \in Nat /\ h.left \in Nat /\ h.left <= held.left
    BY <1>2, ExitAssumption DEF BookEntry, r, Rest
  <1>7. InTransit(msgs \o reply) = InTransit(msgs)
    <2>1. CASE r.full
      <3>1. msgs \o reply = Append(msgs, x)
        BY <1>3, <2>1, Joining
      <3>2. InTransit(Append(msgs, x)) = InTransit(msgs) + 0 /\ InTransit(msgs) \in Nat
        BY <1>3, <1>4, TransitGrows, TransitType
      <3>3. InTransit(msgs \o reply) = InTransit(Append(msgs, x))
        BY <3>1, Zenon
      <3> HIDE DEF reply
      <3> QED
        BY <3>2, <3>3
    <2>2. CASE ~r.full
      <3>1. msgs \o reply = msgs
        BY <2>2, Joining
      <3> QED
        BY <3>1
    <2> QED
      BY <2>1, <2>2
  <1> HIDE DEF reply
  <1>8. msgs \o reply \in Seq(Message)
    BY <1>5, JoinIndex
  <1>9. h.left + InTransit((msgs \o reply) \o fill) = held.left + InTransit(msgs)
    <2> DEFINE so == msgs \o reply
    <2>0. so \in Seq(Message) /\ InTransit(so) = InTransit(msgs) /\ InTransit(so) \in Nat
      BY <1>7, <1>8, TransitType
    <2> HIDE DEF so
    <2>1. CASE done
      <3>1. so \o fill = Append(so, y)
        BY <1>3, <2>0, <2>1, Joining
      <3>2. InTransit(Append(so, y)) = InTransit(so) + r.volume
        BY <1>3, <1>4, <2>0, TransitGrows
      <3>3. h.left = held.left - r.volume
        BY <2>1 DEF r, Rest
      <3>4. InTransit((msgs \o reply) \o fill) = InTransit(Append(so, y))
        BY <3>1, Zenon DEF so
      <3> HIDE DEF fill
      <3> QED
        BY <1>2, <1>6, <2>0, <3>2, <3>3, <3>4
    <2>2. CASE ~done
      <3>1. so \o fill = so
        BY <2>0, <2>2, Joining
      <3>2. h.left = held.left
        BY <2>2 DEF Rest
      <3>3. InTransit((msgs \o reply) \o fill) = InTransit(so)
        BY <3>1, Zenon DEF so
      <3> HIDE DEF fill
      <3> QED
        BY <2>0, <3>2, <3>3
    <2> QED
      BY <2>1, <2>2
  <1>10. /\ more \in Seq(Message)
         /\ \A n \in DOMAIN more : (r.full /\ more[n] = x) \/ more[n] = y
         /\ r.full => CloseAnswered(more)
    <2>1. \A n \in DOMAIN reply : r.full /\ reply[n] = x
      BY DEF reply
    <2>2. \A n \in DOMAIN fill : fill[n] = y
      OBVIOUS
    <2>3. r.full => 1 \in DOMAIN reply /\ reply[1] = x
      BY DEF reply
    <2> HIDE DEF fill
    <2>4. /\ more \in Seq(Message)
          /\ MadeOf(more, reply, fill)
      BY <1>5, JoinIndex
    <2> HIDE DEF more
    <2> QED
      BY <1>4, <2>1, <2>2, <2>3, <2>4 DEF CloseAnswered, MadeOf
  <1> HIDE DEF fill
  <1>11. (msgs \o reply) \o fill = msgs \o more
    BY <1>5, JoinedTwice
  <1> HIDE DEF more
  <1>12. r.full /\ ok => h.left = 0
    BY <1>1, <1>2, <1>6 DEF r, Rest
  <1>13. \A n \in DOMAIN more :
            /\ more[n].op # "place" /\ ~Opening(more[n])
            /\ more[n].op = "close" /\ more[n].ok => h.left = 0
    BY <1>4, <1>10, <1>12
  <1>14. FullRequested(req) => FullRequested(rest) \/ CloseAnswered(more)
    BY <1>1, <1>10
  <1>15. h.left + InTransit(msgs \o more) = held.left + InTransit(msgs)
    BY <1>9, <1>11
  <1>16. Coherent(e, p, rest, msgs \o more, h, guarded)
    BY <1>1, <1>6, <1>10, <1>13, <1>14, <1>15, Reported
  <1>17. msgs \o more \in Seq(Message)
    BY <1>10, JoinIndex
  <1>18. Told(Head(req), ok) = reply /\ FilledBy(done, Head(req), at, paid) = fill
    BY DEF reply, fill, x, y, r, Told, FilledBy
  <1> QED
    BY <1>11, <1>16, <1>17, <1>18 DEF rest

LEMMA Amended ==
    ASSUME NEW e, NEW p, NEW req \in Seq(Request), NEW msgs \in Seq(Message),
           NEW held \in BookEntry, NEW guarded,
           Coherent(e, p, req, msgs, held, guarded),
           req # <<>>, Head(req).op = "amend", NEW h, h.left = held.left
    PROVE  Coherent(e, p, Tail(req), msgs, h, guarded)
  <1>1. /\ e.stage # "none"
        /\ \A n \in DOMAIN Tail(req) :
              Tail(req)[n].op # "place" /\ \E m \in DOMAIN req : Tail(req)[n] = req[m]
        /\ FullRequested(req) => FullRequested(Tail(req))
    BY Taken
  <1>2. msgs \o <<>> = msgs
    BY Joining
  <1>3. held.left \in Nat /\ InTransit(msgs) \in Nat /\ <<>> \in Seq(Message)
    BY TransitType, ExitAssumption DEF BookEntry
  <1>4. InTransit(msgs \o <<>>) = InTransit(msgs)
    BY <1>2
  <1>5. Coherent(e, p, Tail(req), msgs \o <<>>, h, guarded)
    <2>1. \A n \in DOMAIN <<>> : FALSE
      OBVIOUS
    <2>2. h.left <= held.left /\ h.left \in Nat
          /\ h.left + InTransit(msgs \o <<>>) = held.left + InTransit(msgs)
      BY <1>3, <1>4
    <2> QED
      BY <1>1, <1>3, <2>1, <2>2, Reported
  <1> QED
    BY <1>2, <1>5

LEMMA ServerExited ==
    ASSUME NEW e, NEW p, NEW req \in Seq(Request), NEW msgs \in Seq(Message),
           NEW held \in BookEntry, NEW guarded,
           Coherent(e, p, req, msgs, held, guarded), held.left > 0,
           NEW at \in Int, NEW paid \in Int
    PROVE  LET fill == Fill(FALSE, held.left, at, paid)
           IN  /\ Coherent(e, p, req, Append(msgs, fill), NotHeld, guarded)
               /\ Append(msgs, fill) \in Seq(Message)
  <1> DEFINE fill == Fill(FALSE, held.left, at, paid)
             more == <<fill>>
  <1>1. held.left \in Nat \ {0} /\ NotHeld.left = 0 /\ InTransit(msgs) \in Nat
    BY TransitType, ExitAssumption DEF BookEntry, NotHeld
  <1>2. fill \in Message
    BY <1>1 DEF Fill, Message, FillMessage
  <1>3. fill.op = "fill" /\ ~Opening(fill) /\ VolumeOf(fill) = held.left
    BY DEF Fill, Opening, VolumeOf, Counts
  <1> HIDE DEF fill
  <1>4. more \in Seq(Message) /\ \A n \in DOMAIN more : more[n] = fill
    BY <1>2
  <1>5. msgs \o more = Append(msgs, fill) /\ Append(msgs, fill) \in Seq(Message)
    BY <1>2, Joining
  <1>6. InTransit(msgs \o more) = InTransit(msgs) + held.left
    <2>1. InTransit(Append(msgs, fill)) = InTransit(msgs) + held.left
      BY <1>2, <1>3, TransitGrows
    <2> QED
      BY <1>5, <2>1, Zenon
  <1> HIDE DEF more
  <1>7. NotHeld.left + InTransit(msgs \o more) = held.left + InTransit(msgs)
    BY <1>1, <1>6
  <1>8. e.stage # "none" /\ \A n \in DOMAIN req : req[n].op # "place"
    BY <1>1 DEF Coherent, Asks
  <1>9. \A n \in DOMAIN more :
           /\ more[n].op # "place" /\ ~Opening(more[n])
           /\ more[n].op = "close" /\ more[n].ok => NotHeld.left = 0
    BY <1>1, <1>3, <1>4
  <1>10. NotHeld.left \in Nat /\ NotHeld.left <= held.left /\ held.left \in Nat
    BY <1>1
  <1>11. /\ \A n \in DOMAIN req : req[n].op # "place" /\ \E m \in DOMAIN req : req[n] = req[m]
         /\ FullRequested(req) => FullRequested(req) \/ CloseAnswered(more)
    BY <1>8
  <1>12. Coherent(e, p, req, msgs \o more, NotHeld, guarded)
    BY <1>4, <1>7, <1>8, <1>9, <1>10, <1>11, Reported
  <1> QED
    BY <1>5, <1>12 DEF fill

(* A message is handled.  What was said of the messages behind the first   *)
(* still holds, and once a fill or the answer to a close is in no opening  *)
(* fill can come.                                                          *)
FirstOf(e, p, req, msgs, held, m, rest) ==
    /\ e.stage # "none" /\ \A n \in DOMAIN req : req[n].op # "place"
    /\ rest \in Seq(Message) /\ m \in Message
    /\ InTransit(msgs) = VolumeOf(m) + InTransit(rest)
    /\ Answered(e, rest, held)
    /\ \A n \in DOMAIN rest :
          /\ rest[n].op # "place"
          /\ Opening(rest[n]) => /\ m.op = "place"
                                 /\ \A k \in 1..(n - 1) : rest[k].op = "place"
                                 /\ held.left + InTransit(msgs) = Whole
    /\ CloseAnswered(msgs) => m.op = "close" \/ CloseAnswered(rest)
    /\ m.op = "place" => e.stage = "sent"
    /\ m.op = "close" /\ m.ok => held.left = 0
    /\ Opening(m) => /\ p.status = "NONE" \/ (p.status = "PENDING" /\ p.left = Whole)
                     /\ held.left + InTransit(msgs) = Whole

LEMMA Handled ==
    ASSUME NEW e, NEW p, NEW req \in Seq(Request), NEW msgs \in Seq(Message),
           NEW held, NEW guarded,
           Coherent(e, p, req, msgs, held, guarded), msgs # <<>>
    PROVE  FirstOf(e, p, req, msgs, held, Head(msgs), Tail(msgs))
  <1> DEFINE t == Tail(msgs)
             m == Head(msgs)
  <1>1. /\ t \in Seq(Message) /\ m = msgs[1] /\ 1 \in DOMAIN msgs /\ m \in Message
        /\ \A n \in DOMAIN t : n \in Nat \ {0} /\ n + 1 \in DOMAIN msgs /\ t[n] = msgs[n + 1]
        /\ \A n \in DOMAIN msgs : n = 1 \/ (n - 1 \in DOMAIN t /\ t[n - 1] = msgs[n])
    BY TailIndex
  <1>2. InTransit(msgs) = VolumeOf(m) + InTransit(t)
    BY TransitShrinks
  <1>3. e.stage # "none" /\ \A n \in DOMAIN req : req[n].op # "place"
    BY DEF Coherent, Asks
  <1>4. Len(t) \in Nat /\ DOMAIN t = 1..Len(t)
    BY <1>1
  <1> HIDE DEF t, m
  <1>5. \A n \in DOMAIN t : t[n].op # "place" /\ (t[n].op = "close" /\ t[n].ok => held.left = 0)
    <2> SUFFICES ASSUME NEW n \in DOMAIN t
                 PROVE  t[n].op # "place" /\ (t[n].op = "close" /\ t[n].ok => held.left = 0)
      OBVIOUS
    <2>1. n + 1 \in DOMAIN msgs /\ t[n] = msgs[n + 1] /\ n + 1 # 1
      BY <1>1
    <2> QED
      BY <2>1 DEF Coherent, Answered
  <1>6. ASSUME NEW n \in DOMAIN t, Opening(t[n])
        PROVE  /\ m.op = "place" /\ \A k \in 1..(n - 1) : t[k].op = "place"
               /\ held.left + InTransit(msgs) = Whole
    <2>1. n + 1 \in DOMAIN msgs /\ t[n] = msgs[n + 1] /\ n \in Nat \ {0}
      BY <1>1
    <2>2. /\ \A k \in 1..((n + 1) - 1) : msgs[k].op = "place"
          /\ held.left + InTransit(msgs) = Whole
      BY <1>6, <2>1 DEF Coherent, Opens
    <2>3. 1 \in 1..((n + 1) - 1)
      BY <2>1
    <2>4. ASSUME NEW k \in 1..(n - 1) PROVE t[k].op = "place"
      <3>1. k \in DOMAIN t /\ k + 1 \in 1..((n + 1) - 1)
        BY <1>4, <2>1
      <3> QED
        BY <1>1, <2>2, <3>1
    <2> QED
      BY <1>1, <2>2, <2>3, <2>4
  <1>7. CloseAnswered(msgs) => m.op = "close" \/ CloseAnswered(t)
    BY <1>1 DEF CloseAnswered
  <1>8. /\ m.op = "place" => e.stage = "sent"
        /\ m.op = "close" /\ m.ok => held.left = 0
        /\ Opening(m) => /\ p.status = "NONE" \/ (p.status = "PENDING" /\ p.left = Whole)
                         /\ held.left + InTransit(msgs) = Whole
    BY <1>1 DEF Coherent, Answered, Opens
  <1>9. Answered(e, t, held)
    BY <1>5 DEF Answered
  <1> QED
    BY <1>1, <1>2, <1>3, <1>5, <1>6, <1>7, <1>8, <1>9 DEF t, m, FirstOf

LEMMA PlaceReplied ==
    ASSUME NEW e, NEW p, NEW req \in Seq(Request), NEW msgs \in Seq(Message),
           NEW held, NEW guarded,
           Coherent(e, p, req, msgs, held, guarded), msgs # <<>>, Head(msgs).op = "place",
           NEW f, f.stage \in {"answered", "failed"}
    PROVE  Coherent(f, p, req, Tail(msgs), held, guarded)
  <1> DEFINE t == Tail(msgs)
             m == Head(msgs)
  <1>0. FirstOf(e, p, req, msgs, held, m, t) /\ m.op = "place"
    BY Handled
  <1> HIDE DEF t, m
  <1>1. /\ e.stage = "sent" /\ \A n \in DOMAIN req : req[n].op # "place"
        /\ t \in Seq(Message) /\ m \in Message /\ m.op = "place"
        /\ InTransit(msgs) = VolumeOf(m) + InTransit(t)
        /\ Answered(e, t, held)
        /\ \A n \in DOMAIN t :
                 /\ t[n].op # "place"
                 /\ Opening(t[n]) => /\ \A k \in 1..(n - 1) : t[k].op = "place"
                                     /\ held.left + InTransit(msgs) = Whole
    BY <1>0 DEF FirstOf
  <1>2. p.status = "NONE" /\ ~guarded
    BY <1>1 DEF Coherent, Guarded
  <1>3. InTransit(msgs) = InTransit(t)
    <2>1. VolumeOf(m) = 0
      BY <1>1 DEF VolumeOf, Counts
    <2> QED
      BY <1>1, <2>1, TransitType
  <1>4. Asks(f, req, t, held) /\ Answered(f, t, held)
    BY <1>1 DEF Coherent, Asks, Answered
  <1>5. Opens(p, t, held)
    BY <1>1, <1>2, <1>3 DEF Opens
  <1>6. Coherent(f, p, req, t, held, guarded)
    BY <1>2, <1>4, <1>5 DEF Coherent, Balanced
  <1> QED
    BY <1>6 DEF t

LEMMA CloseReplied ==
    ASSUME NEW e, NEW p, NEW req \in Seq(Request), NEW msgs \in Seq(Message),
           NEW held, NEW guarded,
           Coherent(e, p, req, msgs, held, guarded), msgs # <<>>, Head(msgs).op = "close",
           NEW after, after => guarded /\ Head(msgs).ok
    PROVE  Coherent(e, p, req, Tail(msgs), held, after)
  <1> DEFINE t == Tail(msgs)
             m == Head(msgs)
  <1>0. FirstOf(e, p, req, msgs, held, m, t) /\ m.op = "close" /\ (after => guarded /\ m.ok)
    BY Handled
  <1> HIDE DEF t, m
  <1>1. /\ e.stage # "none" /\ \A n \in DOMAIN req : req[n].op # "place"
        /\ t \in Seq(Message) /\ m \in Message /\ m.op = "close"
        /\ InTransit(msgs) = VolumeOf(m) + InTransit(t)
        /\ Answered(e, t, held)
        /\ \A n \in DOMAIN t : ~Opening(t[n])
        /\ m.ok => held.left = 0
    BY <1>0 DEF FirstOf
  <1>2. InTransit(msgs) = InTransit(t)
    <2>1. VolumeOf(m) = 0
      BY <1>1 DEF VolumeOf, Counts
    <2> QED
      BY <1>1, <2>1, TransitType
  <1>3. Asks(e, req, t, held)
    BY <1>1 DEF Coherent, Asks
  <1>4. Opens(p, t, held) /\ Balanced(p, t, held)
    BY <1>1, <1>2 DEF Opens, Balanced, Coherent
  <1>5. after => Guarded(p, req, t, held)
    BY <1>0, <1>1 DEF Coherent, Guarded
  <1>6. Coherent(e, p, req, t, held, after)
    BY <1>1, <1>3, <1>4, <1>5 DEF Coherent
  <1> QED
    BY <1>6 DEF t

(* What a fill does to the position it is for.                             *)
AfterFill(p, m) ==
    LET volume == Min({m.volume, p.left})
    IN  IF p.status \notin {"PENDING", "OPEN"} THEN p
        ELSE IF p.status = "PENDING" /\ m.opening
        THEN [p EXCEPT !.status = "OPEN", !.entry = m.price]
        ELSE IF volume = 0 THEN p
        ELSE [p EXCEPT !.left = @ - volume,
                       !.booked = @ + GainOf(p, m.price) * volume,
                       !.final = p.left = volume,
                       !.balance = m.balance]

LEMMA GainType == ASSUME NEW p \in Held, NEW x \in Int PROVE GainOf(p, x) \in Int
  <1>1. p.plan \in Signals /\ p.entry \in Int
    BY DEF Held, HeldFields
  <1> QED
    BY <1>1, SignalFacts DEF GainOf, Gain, Sign

LEMMA FilledType ==
    ASSUME NEW p \in {NoPosition, Gone} \cup Held, NEW m \in FillMessage
    PROVE  LET q == AfterFill(p, m)
           IN  /\ q \in {NoPosition, Gone} \cup Held
               /\ q.status \in {"PENDING", "OPEN"} <=> p.status \in {"PENDING", "OPEN"}
               /\ p.status \in {"PENDING", "OPEN"} => q.plan = p.plan
  <1>1. CASE p.status \notin {"PENDING", "OPEN"}
    BY <1>1 DEF AfterFill
  <1>2. CASE p.status \in {"PENDING", "OPEN"}
    <2>1. p \in Held
      BY <1>2 DEF NoPosition, Gone
    <2>2. /\ p.left \in 0..Whole /\ p.left \in Nat /\ p.booked \in Int
          /\ m.volume \in Nat \ {0} /\ m.price \in Int /\ m.balance \in Int
      BY <2>1, ExitAssumption DEF Held, HeldFields, FillMessage
    <2> DEFINE v == Min({m.volume, p.left})
               booked == p.booked + GainOf(p, m.price) * v
    <2>3. v \in Nat /\ v <= p.left
      BY <2>2, MinOfTwo
    <2>4. booked \in Int
      BY <2>1, <2>2, <2>3, GainType
    <2>5. CASE p.status = "PENDING" /\ m.opening
      <3>1. AfterFill(p, m) = [p EXCEPT !.status = "OPEN", !.entry = m.price]
        BY <2>5 DEF AfterFill
      <3> QED
        BY <1>2, <2>1, <2>2, <3>1 DEF Held, HeldFields
    <2>6. CASE ~(p.status = "PENDING" /\ m.opening) /\ v = 0
      BY <1>2, <2>6 DEF AfterFill
    <2>7. CASE ~(p.status = "PENDING" /\ m.opening) /\ v # 0
      <3>1. AfterFill(p, m) = [p EXCEPT !.left = p.left - v, !.booked = booked,
                                        !.final = p.left = v, !.balance = m.balance]
        BY <1>2, <2>7 DEF AfterFill
      <3> HIDE DEF v, booked
      <3>2. p.left - v \in 0..Whole /\ (p.left = v <=> p.left - v = 0)
        BY <2>2, <2>3, ExitAssumption
      <3> DEFINE q == [p EXCEPT !.left = p.left - v, !.booked = booked,
                                !.final = p.left = v, !.balance = m.balance]
      <3>3. p \in HeldFields
        BY <2>1 DEF Held
      <3>4. /\ q \in HeldFields /\ q.status = p.status /\ q.plan = p.plan
            /\ q.final = (p.left = v) /\ q.left = p.left - v
        BY <2>2, <2>4, <3>2, <3>3 DEF HeldFields
      <3> HIDE DEF q
      <3>5. q \in Held
        BY <3>2, <3>4 DEF Held
      <3> QED
        BY <1>2, <3>1, <3>4, <3>5 DEF q
    <2> QED
      BY <2>5, <2>6, <2>7
  <1> QED
    BY <1>1, <1>2

LEMMA Filled ==
    ASSUME NEW e, NEW p \in {NoPosition, Gone} \cup Held,
           NEW req \in Seq(Request), NEW msgs \in Seq(Message),
           NEW held \in BookEntry, NEW guarded,
           Coherent(e, p, req, msgs, held, guarded), msgs # <<>>, Head(msgs).op = "fill"
    PROVE  Coherent(e, AfterFill(p, Head(msgs)), req, Tail(msgs), held, guarded)
  <1> DEFINE t == Tail(msgs)
             m == Head(msgs)
             q == AfterFill(p, m)
  <1>0. FirstOf(e, p, req, msgs, held, m, t) /\ m.op = "fill"
    BY Handled
  <1> HIDE DEF t, m
  <1>1. /\ e.stage # "none" /\ \A n \in DOMAIN req : req[n].op # "place"
        /\ t \in Seq(Message) /\ m \in FillMessage
        /\ InTransit(msgs) = VolumeOf(m) + InTransit(t)
        /\ Answered(e, t, held)
        /\ \A n \in DOMAIN t : ~Opening(t[n])
        /\ CloseAnswered(msgs) => CloseAnswered(t)
    BY <1>0 DEF FirstOf, Message, Answer
  <1>2. /\ held.left \in Nat /\ InTransit(msgs) \in Nat /\ InTransit(t) \in Nat
        /\ m.volume \in Nat \ {0} /\ m.opening \in BOOLEAN
    BY <1>1, TransitType, ExitAssumption DEF BookEntry, FillMessage
  <1>3. Asks(e, req, t, held) /\ Opens(q, t, held)
    BY <1>1 DEF Coherent, Asks, Opens
  <1>4. CASE p.status \notin {"PENDING", "OPEN"}
    <2>1. q = p
      BY <1>4 DEF AfterFill
    <2>2. ~guarded
      BY <1>4 DEF Coherent, Guarded
    <2>3. Coherent(e, p, req, t, held, guarded)
      BY <1>1, <1>3, <1>4, <2>1, <2>2 DEF Coherent, Balanced
    <2> QED
      BY <2>1, <2>3 DEF t, m
  <1>5. CASE p.status = "PENDING" /\ m.opening
    <2>1. q = [p EXCEPT !.status = "OPEN", !.entry = m.price] /\ p \in HeldFields
      BY <1>5 DEF AfterFill, NoPosition, Gone, Held
    <2>2. q.status = "OPEN" /\ q.left = p.left
      BY <2>1 DEF HeldFields
    <2>3. Opening(m) /\ VolumeOf(m) = 0
      BY <1>0, <1>5 DEF Opening, VolumeOf, Counts
    <2>4. p.left = Whole /\ held.left + InTransit(msgs) = Whole
      BY <1>0, <1>5, <2>3 DEF FirstOf
    <2>5. Balanced(q, t, held)
      BY <1>1, <1>2, <2>2, <2>3, <2>4 DEF Balanced
    <2>6. ~guarded /\ e.stage = "done"
      BY <1>5 DEF Coherent, Guarded
    <2> HIDE DEF q
    <2>7. Coherent(e, q, req, t, held, guarded)
      BY <1>1, <1>3, <2>2, <2>5, <2>6 DEF Coherent
    <2> QED
      BY <2>7 DEF q, t, m
  <1>6. CASE p.status \in {"PENDING", "OPEN"} /\ ~(p.status = "PENDING" /\ m.opening)
    <2> DEFINE v == Min({m.volume, p.left})
    <2>1. p \in HeldFields /\ p.left \in Nat
      BY <1>6, ExitAssumption DEF NoPosition, Gone, Held, HeldFields
    <2>2. /\ v \in Nat /\ (m.volume <= p.left => v = m.volume)
          /\ (v = 0 => p.left = 0)
      BY <1>2, <2>1, MinOfTwo
    <2>3. q.status = p.status /\ q.left = p.left - v
      <3>1. CASE v = 0
        BY <1>6, <2>1, <3>1 DEF AfterFill
      <3>2. CASE v # 0
        <4>1. q = [p EXCEPT !.left = p.left - v, !.booked = p.booked + GainOf(p, m.price) * v,
                            !.final = p.left = v, !.balance = m.balance]
          BY <1>6, <3>2 DEF AfterFill
        <4> QED
          BY <2>1, <4>1 DEF HeldFields
      <3> QED
        BY <3>1, <3>2
    <2> HIDE DEF v, q
    <2>4. Balanced(q, t, held)
      <3> SUFFICES ASSUME p.status = "OPEN" PROVE q.left = held.left + InTransit(t)
        BY <2>3 DEF Balanced
      <3>1. ~Opening(m)
        BY <1>0 DEF FirstOf
      <3>2. VolumeOf(m) = m.volume
        BY <1>0, <3>1 DEF VolumeOf, Counts, Opening
      <3>3. p.left = held.left + InTransit(msgs)
        BY DEF Coherent, Balanced
      <3>4. v = m.volume
        BY <1>1, <1>2, <2>2, <3>2, <3>3
      <3> QED
        BY <1>1, <1>2, <2>1, <2>3, <3>2, <3>3, <3>4
    <2>5. guarded => Guarded(q, req, t, held)
      BY <1>1, <2>3 DEF Coherent, Guarded
    <2>6. Coherent(e, q, req, t, held, guarded)
      BY <1>1, <1>3, <1>6, <2>3, <2>4, <2>5 DEF Coherent
    <2> QED
      BY <2>6 DEF q, t, m
  <1> QED
    BY <1>4, <1>5, <1>6

LEMMA Returned ==
    ASSUME NEW e, e.stage = "answered", NEW p, NEW req, NEW msgs, NEW held, NEW guarded,
           Coherent(e, p, req, msgs, held, guarded),
           NEW f, f.stage = "done", NEW q, q.status = "PENDING", q.left = Whole
    PROVE  Coherent(f, q, req, msgs, held, guarded)
  <1>1. ~guarded
    BY DEF Coherent, Guarded
  <1>2. Asks(f, req, msgs, held) /\ Answered(f, msgs, held) /\ Opens(q, msgs, held)
    BY DEF Coherent, Asks, Answered, Opens
  <1> QED
    BY <1>1, <1>2 DEF Coherent, Balanced

LEMMA Finalized ==
    ASSUME NEW e, NEW p \in Held, p.final, NEW req, NEW msgs, NEW held, NEW guarded,
           Coherent(e, p, req, msgs, held, guarded)
    PROVE  Coherent(e, Gone, req, msgs, held, FALSE)
  <1>1. p.status \in {"PENDING", "OPEN"} /\ p.left = 0 /\ Whole # 0
    BY ExitAssumption DEF Held, HeldFields
  <1>2. \A n \in DOMAIN msgs : ~Opening(msgs[n])
    BY <1>1 DEF Coherent, Opens
  <1>3. Opens(Gone, msgs, held)
    BY <1>2 DEF Opens
  <1> QED
    BY <1>1, <1>3 DEF Coherent, Balanced, Gone

-----------------------------------------------------------------------------
(* The steps.  What changes nothing about an order keeps it in order.      *)
LEMMA OneOrder ==
    ASSUME \A j \in Orders : Ordered(j), NEW i \in Orders, submitted' = submitted,
           \A j \in Orders \ {i} :
               /\ entry'[j] = entry[j] /\ pos'[j] = pos[j] /\ requests'[j] = requests[j]
               /\ messages'[j] = messages[j] /\ book'[j] = book[j]
               /\ j \in closing' <=> j \in closing,
           entry'[i].stage = "none" <=> entry[i].stage = "none",
           Coherent(entry'[i], pos'[i], requests'[i], messages'[i], book'[i], i \in closing')
    PROVE  \A j \in Orders : Ordered(j)'
  <1> SUFFICES ASSUME NEW j \in Orders PROVE Ordered(j)'
    OBVIOUS
  <1>1. CASE j = i
    <2>1. (entry[i].stage = "none") <=> (i > submitted)
      BY DEF Ordered
    <2> QED
      BY <1>1, <2>1 DEF Ordered
  <1>2. CASE j # i
    <2>1. Ordered(j) /\ (j \in closing' <=> j \in closing)
      BY <1>2
    <2>2. /\ (entry[j].stage = "none") <=> (j > submitted)
          /\ Coherent(entry[j], pos[j], requests[j], messages[j], book[j], j \in closing)
      BY <2>1 DEF Ordered
    <2>3. Coherent(entry[j], pos[j], requests[j], messages[j], book[j], j \in closing')
      <3>1. CASE j \in closing
        BY <2>1, <2>2, <3>1 DEF Coherent
      <3>2. CASE j \notin closing
        BY <2>1, <2>2, <3>2 DEF Coherent
      <3> QED
        BY <3>1, <3>2
    <2> QED
      BY <1>2, <2>2, <2>3 DEF Ordered
  <1> QED
    BY <1>1, <1>2

LEMMA KeysStay ==
    ASSUME KeysHeld, openKey \in [Keys -> 0..MaxOrders], openKey' = openKey,
           \A i \in Orders : Known(i) => Known(i)' /\ pos'[i].plan.key = pos[i].plan.key
    PROVE  KeysHeld'
  <1> SUFFICES ASSUME NEW k \in Keys, openKey[k] # 0
               PROVE  Known(openKey[k])' /\ pos'[openKey[k]].plan.key = k
    BY DEF KeysHeld, Known
  <1>1. openKey[k] \in Orders /\ Known(openKey[k]) /\ pos[openKey[k]].plan.key = k
    BY LiveAssumption DEF Orders, KeysHeld
  <1> QED
    BY <1>1 DEF Known

LEMMA SameCoherent ==
    ASSUME NEW e, NEW p, NEW q, SamePosition(p, q), NEW req, NEW msgs, NEW held, NEW guarded,
           Coherent(e, p, req, msgs, held, guarded)
    PROVE  Coherent(e, q, req, msgs, held, guarded)
  BY DEF Coherent, SamePosition, Opens, Balanced, Guarded

LEMMA FloatingType ==
    ASSUME NEW positions \in [Orders -> {NoPosition, Gone} \cup Held],
           NEW prices \in [Instruments -> Prices \cup {0}]
    PROVE  Floating(positions, prices) \in Int
  <1> DEFINE D == {j \in Orders : positions[j].status = "OPEN"}
             f == [i \in D |-> LET p   == positions[i]
                                   bid == prices[p.plan.key.inst]
                               IN  IF bid = 0 THEN 0 ELSE GainOf(p, bid) * p.left * p.lots]
  <1>1. ASSUME NEW i \in D PROVE f[i] \in Int
    <2> DEFINE p == positions[i]
               bid == prices[p.plan.key.inst]
    <2>1. p \in Held
      BY DEF NoPosition, Gone
    <2> HIDE DEF p
    <2>2. p.plan \in Signals /\ p.left \in Int /\ p.lots \in Int
      BY <2>1, ExitAssumption DEF Held, HeldFields
    <2>3. bid \in Int
      <3>1. p.plan.key.inst \in Instruments
        BY <2>2, SignalFacts
      <3>2. \A v \in Prices \cup {0} : v \in Int
        BY LiveAssumption
      <3> QED
        BY <3>1, <3>2
    <2> HIDE DEF bid
    <2>4. GainOf(p, bid) \in Int
      BY <2>1, <2>3, GainType
    <2>5. GainOf(p, bid) * p.left * p.lots \in Int
      BY <2>2, <2>4
    <2>6. f[i] = IF bid = 0 THEN 0 ELSE GainOf(p, bid) * p.left * p.lots
      BY DEF p, bid
    <2> HIDE DEF f
    <2> QED
      BY <2>5, <2>6
  <1>2. IsFiniteSet(D)
    <2>1. IsFiniteSet(Orders)
      BY FirstNumbers, LiveAssumption DEF Orders
    <2> QED
      BY <2>1, FS_Subset
  <1>3. f \in [D -> Int] /\ DOMAIN f = D
    BY <1>1
  <1>4. Floating(positions, prices) = SumFunctionOnSet(f, DOMAIN f)
    BY DEF Floating, SumFunction
  <1> HIDE DEF f, D
  <1>5. SumFunctionOnSet(f, D) \in Int
    BY <1>2, <1>3, SumType
  <1> QED
    BY <1>3, <1>4, <1>5

LEMMA Started == Init => LiveInv
  <1> SUFFICES ASSUME Init PROVE LiveInv
    OBVIOUS
  <1>1. Accounts
    <2>1. NewGuard(SizingBalance).initial \in Int /\ NewGuard(RealBalance) \in Guard
      BY AccountAssumption, LiveAssumption, LimitsAssumption DEF NewGuard, Guard, Status
    <2>2. SeedBalance(NewGuard(SizingBalance), RealBalance) \in Guard
      BY <2>1 DEF SeedBalance, Guard
    <2> QED
      BY <2>2, LiveAssumption DEF Init, Accounts
  <1>2. Market
    BY LiveAssumption DEF Init, Market, NoArm
  <1>3. PerOrder
    BY ExitAssumption DEF Init, PerOrder, Entry, NoEntry, BookEntry, NotHeld
  <1>4. \A i \in Orders : Ordered(i)
    <2> SUFFICES ASSUME NEW i \in Orders PROVE Ordered(i)
      OBVIOUS
    <2>1. /\ entry[i].stage = "none" /\ pos[i].status = "NONE" /\ requests[i] = <<>>
          /\ messages[i] = <<>> /\ book[i].left = 0 /\ i \notin closing /\ submitted = 0
      BY DEF Init, NoEntry, NoPosition, NotHeld
    <2>2. i > 0
      BY LiveAssumption DEF Orders
    <2> QED
      BY <2>1, <2>2 DEF Ordered, Coherent, Asks, Answered, Opens, Balanced
  <1>5. KeysHeld
    BY DEF Init, KeysHeld
  <1> QED
    BY <1>1, <1>2, <1>3, <1>4, <1>5 DEF LiveInv

(* What submitting does to the orders.                                     *)
Accepted(orders) ==
    /\ submitted' \in 0..MaxOrders
    /\ entry' \in [Orders -> Entry]
    /\ \A i \in Orders :
          IF i \in NextOrders(orders)
          THEN entry[i].stage = "none" /\ entry'[i].stage = "sent" /\ ~(i > submitted')
          ELSE entry'[i] = entry[i] /\ (i > submitted' <=> i > submitted)

LEMMA SubmitAccepts ==
    ASSUME LiveInv, NEW orders \in Seq(Signals), Submit(orders)
    PROVE  Accepted(orders)
  <1> DEFINE n == Len(orders)
  <1>1. n \in Nat /\ \A k \in 1..n : orders[k] \in Signals
    OBVIOUS
  <1>2. submitted \in Nat /\ submitted + n <= MaxOrders /\ submitted' = submitted + n
    BY LiveAssumption DEF LiveInv, Market, Submit
  <1>3. NextOrders(orders) = (submitted + 1)..(submitted + n)
    BY DEF NextOrders
  <1> HIDE DEF n
  <1>4. \A i \in Orders : i \in Nat /\ i <= MaxOrders
    BY LiveAssumption DEF Orders
  <1>5. ASSUME NEW i \in Orders, i \in NextOrders(orders)
        PROVE  /\ entry[i].stage = "none" /\ ~(i > submitted')
               /\ entry'[i].stage = "sent" /\ entry'[i] \in Entry
    <2>1. i > submitted /\ i <= submitted + n
      BY <1>2, <1>3, <1>4, <1>5
    <2>2. i - submitted \in 1..n
      BY <1>1, <1>2, <1>4, <2>1
    <2> DEFINE s == orders[i - submitted]
    <2>3. entry'[i] = [stage |-> "sent", sig |-> s, lots |-> LotSize(RiskDistance(s))]
      BY <1>5 DEF Submit
    <2>4. s \in Signals
      BY <1>1, <2>2
    <2> HIDE DEF s
    <2>5. LotSize(RiskDistance(s)) \in Int
      BY <2>4, LotsFit
    <2>6. entry[i].stage = "none"
      BY <2>1 DEF LiveInv, Ordered
    <2> QED
      BY <1>1, <1>2, <1>4, <2>1, <2>3, <2>4, <2>5, <2>6 DEF Entry
  <1>6. ASSUME NEW i \in Orders, i \notin NextOrders(orders)
        PROVE  entry'[i] = entry[i] /\ (i > submitted' <=> i > submitted)
    <2>1. entry'[i] = entry[i]
      BY <1>6 DEF Submit
    <2>2. i > submitted' <=> i > submitted
      BY <1>1, <1>2, <1>3, <1>4, <1>6
    <2> QED
      BY <2>1, <2>2
  <1>7. entry' \in [Orders -> Entry]
    <2>1. \A i \in Orders : entry'[i] \in Entry
      BY <1>5, <1>6 DEF LiveInv, PerOrder
    <2>2. entry' = [i \in Orders |-> entry'[i]]
      BY DEF Submit
    <2> QED
      BY <2>1, <2>2
  <1>8. submitted' \in 0..MaxOrders
    BY <1>1, <1>2, LiveAssumption
  <1> QED
    BY <1>5, <1>6, <1>7, <1>8 DEF Accepted

LEMMA SignalStep ==
    ASSUME LiveInv, NEW s \in Signals, Signal(s)
    PROVE  LiveInv'
  <1> DEFINE fresh == arms[s.key].left = 0
             go == fresh /\ CanTrade(guard)
             orders == IF go /\ s.mode = "CANDLE_CLOSE" /\ Submittable(guard, s) THEN <<s>> ELSE <<>>
  <1>1. /\ guard' = IF fresh THEN CheckBreach(guard) ELSE guard
        /\ arms' = IF ~fresh \/ (go /\ s.mode = "INTRABAR")
                   THEN [arms EXCEPT ![s.key] = NewArm(s)] ELSE arms
        /\ Submit(orders)
        /\ requests' = [i \in Orders |->
                           IF i \in NextOrders(orders) THEN <<PlaceRequest>> ELSE requests[i]]
        /\ UNCHANGED <<price, pos, openKey, closing, lastReal, messages, book, cash>>
    BY DEF Signal
  <1>2. Accepted(orders)
    <2>1. orders \in Seq(Signals)
      OBVIOUS
    <2> HIDE DEF orders
    <2> QED
      BY <1>1, <2>1, SubmitAccepts
  <1> HIDE DEF orders, go
  <1>3. Accounts'
    BY <1>1, GuardChecked DEF LiveInv, Accounts
  <1>4. arms' \in [Keys -> {NoArm} \cup Armed] /\ \A k \in Keys : arms'[k].left > 0 => arms'[k].sig.key = k
    <2>1. s.key \in Keys /\ s.expiry \in Nat
      <3>1. s.expiry >= 1 /\ s.expiry \in Int
        BY LiveAssumption DEF ValidSignal, SignalFields
      <3> QED
        BY <3>1, SignalFacts
    <2>2. NewArm(s) \in Armed /\ NewArm(s).sig = s
      BY <2>1 DEF NewArm, Armed
    <2>3. /\ arms \in [Keys -> {NoArm} \cup Armed]
          /\ \A k \in Keys : arms[k].left > 0 => arms[k].sig.key = k
      BY DEF LiveInv, Market
    <2>4. CASE arms' = arms
      BY <2>3, <2>4
    <2>5. CASE arms' = [arms EXCEPT ![s.key] = NewArm(s)]
      BY <2>1, <2>2, <2>3, <2>5
    <2> QED
      BY <1>1, <2>4, <2>5
  <1>5. Market'
    BY <1>1, <1>2, <1>4 DEF LiveInv, Market, Accepted
  <1>6. PerOrder'
    <2>1. <<PlaceRequest>> \in Seq(Request)
      BY DEF Request
    <2>2. requests' \in [Orders -> Seq(Request)]
      BY <1>1, <2>1 DEF LiveInv, PerOrder
    <2> QED
      BY <1>1, <1>2, <2>2 DEF LiveInv, PerOrder, Accepted
  <1>7. ASSUME NEW i \in Orders PROVE Ordered(i)'
    <2>1. /\ (entry[i].stage = "none") <=> (i > submitted)
          /\ Coherent(entry[i], pos[i], requests[i], messages[i], book[i], i \in closing)
      BY DEF LiveInv, Ordered
    <2>2. CASE i \in NextOrders(orders)
      <3>1. requests'[i] = <<PlaceRequest>>
        BY <1>1, <2>2
      <3>2. entry[i].stage = "none" /\ entry'[i].stage = "sent" /\ ~(i > submitted')
        BY <1>2, <2>2 DEF Accepted
      <3>3. requests[i] \in Seq(Request)
        BY DEF LiveInv, PerOrder
      <3>4. Coherent(entry'[i], pos[i], <<PlaceRequest>>, messages[i], book[i], i \in closing)
        BY <2>1, <3>2, Submitted
      <3> QED
        BY <1>1, <3>1, <3>2, <3>4 DEF Ordered
    <2>3. CASE i \notin NextOrders(orders)
      <3>1. requests'[i] = requests[i]
        BY <1>1, <2>3
      <3>2. entry'[i] = entry[i] /\ (i > submitted' <=> i > submitted)
        BY <1>2, <2>3 DEF Accepted
      <3> QED
        BY <1>1, <2>1, <3>1, <3>2 DEF Ordered
    <2> QED
      BY <2>2, <2>3
  <1>8. KeysHeld'
    BY <1>1 DEF LiveInv, KeysHeld, Known
  <1> QED
    BY <1>3, <1>5, <1>6, <1>7, <1>8 DEF LiveInv

(* Full closes are scheduled for some positions that have a rest, while    *)
(* the others may only count a candle.                                     *)
LEMMA ScheduleStep ==
    ASSUME LiveInv, NEW S \in SUBSET Closable, ScheduleFullCloses(S),
           pos' \in [Orders -> {NoPosition, Gone} \cup Held],
           \A i \in Orders : pos'[i] = pos[i] \/ (i \in Open /\ SamePosition(pos[i], pos'[i])),
           UNCHANGED <<submitted, entry, messages, book, openKey>>
    PROVE  /\ PerOrder' /\ KeysHeld' /\ closing' \subseteq Orders
           /\ \A i \in Orders : Ordered(i)'
  <1>1. /\ closing' = closing \cup S /\ S \subseteq Open
        /\ requests' = [i \in Orders |->
                           IF i \in S THEN Append(requests[i], CloseRequest(pos[i].left, TRUE))
                           ELSE requests[i]]
    BY DEF ScheduleFullCloses, Closable
  <1>2. ASSUME NEW i \in Orders
        PROVE  /\ requests'[i] \in Seq(Request)
               /\ Ordered(i)'
    <2>1. /\ (entry[i].stage = "none") <=> (i > submitted)
          /\ Coherent(entry[i], pos[i], requests[i], messages[i], book[i], i \in closing)
          /\ requests[i] \in Seq(Request) /\ messages[i] \in Seq(Message) /\ book[i] \in BookEntry
          /\ pos[i] \in {NoPosition, Gone} \cup Held
      BY DEF LiveInv, Ordered, PerOrder
    <2>2. CASE i \in S
      <3> DEFINE r == CloseRequest(pos[i].left, TRUE)
                 more == <<r>>
      <3>1. pos[i].status = "OPEN" /\ pos[i].left > 0 /\ SamePosition(pos[i], pos'[i])
        BY <1>1, <2>2 DEF Closable, Open, SamePosition
      <3>2. pos[i].left \in Nat \ {0} /\ book[i].left \in Nat
        BY <2>1, <3>1, ExitAssumption DEF NoPosition, Gone, Held, HeldFields, BookEntry
      <3>3. r \in Request /\ r.op = "close" /\ r.full /\ r.volume = pos[i].left
        BY <3>2 DEF CloseRequest, Request
      <3>4. r.volume >= book[i].left
        <4>1. pos[i].left = book[i].left + InTransit(messages[i]) /\ InTransit(messages[i]) \in Nat
          BY <2>1, <3>1, TransitType DEF Coherent, Balanced
        <4> HIDE DEF r
        <4> QED
          BY <3>2, <3>3, <4>1
      <3> HIDE DEF r
      <3>5. more \in Seq(Request) /\ DOMAIN more = {1} /\ more[1] = r
        BY <3>3
      <3>6. requests[i] \o more = Append(requests[i], r) /\ Append(requests[i], r) \in Seq(Request)
        BY <2>1, <3>3, Joining
      <3> HIDE DEF more
      <3>7. \A n \in DOMAIN more :
                /\ more[n].op # "place"
                /\ more[n].op = "close" /\ more[n].full => more[n].volume >= book[i].left
        BY <3>3, <3>4, <3>5
      <3>8. i \in closing' => i \in closing \/ FullRequested(more)
        BY <3>3, <3>5 DEF FullRequested
      <3>9. Coherent(entry[i], pos'[i], requests[i] \o more, messages[i], book[i], i \in closing')
        BY <2>1, <3>1, <3>5, <3>7, <3>8, AsksMore
      <3>10. requests'[i] = requests[i] \o more
        BY <1>1, <2>2, <3>6 DEF r
      <3>11. Coherent(entry[i], pos'[i], requests'[i], messages[i], book[i], i \in closing')
        BY <3>9, <3>10, Zenon
      <3> QED
        BY <2>1, <3>6, <3>10, <3>11 DEF Ordered
    <2>3. CASE i \notin S
      <3>1. requests'[i] = requests[i] /\ (i \in closing' <=> i \in closing)
        BY <1>1, <2>3
      <3>2. Coherent(entry[i], pos'[i], requests[i], messages[i], book[i], i \in closing)
        BY <2>1, SameCoherent
      <3>3. Coherent(entry[i], pos'[i], requests[i], messages[i], book[i], i \in closing')
        <4>1. CASE i \in closing
          BY <3>1, <3>2, <4>1 DEF Coherent
        <4>2. CASE i \notin closing
          BY <3>1, <3>2, <4>2 DEF Coherent
        <4> QED
          BY <4>1, <4>2
      <3> QED
        BY <2>1, <3>1, <3>3 DEF Ordered
    <2> QED
      BY <2>2, <2>3
  <1>3. PerOrder'
    BY <1>1, <1>2 DEF LiveInv, PerOrder
  <1>4. closing' \subseteq Orders
    BY <1>1 DEF LiveInv, Market, Open
  <1>5. KeysHeld'
    <2>1. \A i \in Orders : Known(i) => Known(i)' /\ pos'[i].plan.key = pos[i].plan.key
      BY DEF Known, SamePosition
    <2> QED
      BY <2>1, KeysStay DEF LiveInv, Market
  <1> QED
    BY <1>2, <1>3, <1>4, <1>5

LEMMA CandleStep ==
    ASSUME LiveInv, NEW inst \in Instruments, CandleClose(inst)
    PROVE  LiveInv'
  <1> DEFINE older == [i \in Orders |->
                          IF i \in Open /\ pos[i].plan.key.inst = inst
                          THEN [pos[i] EXCEPT !.bars = Min({@ + 1, pos[i].plan.timeBars})]
                          ELSE pos[i]]
             due == {i \in Closable : pos[i].plan.key.inst = inst /\ TimeStopReached(older[i])}
  <1>1. /\ arms' = [k \in Keys |->
                       IF k.inst # inst \/ arms[k].left = 0 THEN arms[k]
                       ELSE IF arms[k].left = 1 THEN [left |-> 0]
                       ELSE [arms[k] EXCEPT !.left = @ - 1]]
        /\ pos' = older
        /\ ScheduleFullCloses(due)
        /\ UNCHANGED <<guard, price, submitted, entry, openKey, lastReal, messages, book, cash>>
    BY DEF CandleClose
  <1>2. ASSUME NEW i \in Orders
        PROVE  /\ older[i] \in {NoPosition, Gone} \cup Held
               /\ older[i] = pos[i] \/ (i \in Open /\ SamePosition(pos[i], older[i]))
    <2>1. pos[i] \in {NoPosition, Gone} \cup Held
      BY DEF LiveInv, PerOrder
    <2>2. CASE i \in Open /\ pos[i].plan.key.inst = inst
      <3> DEFINE p == pos[i]
                 bars == Min({p.bars + 1, p.plan.timeBars})
      <3>1. p \in Held
        BY <2>1, <2>2 DEF Open, NoPosition, Gone
      <3>2. older[i] = [p EXCEPT !.bars = bars]
        BY <2>2
      <3> HIDE DEF p, older
      <3>3. bars \in Int
        <4>1. p.bars + 1 \in Int /\ p.plan \in Signals
          BY <3>1 DEF Held, HeldFields
        <4>2. p.plan.timeBars \in Int
          BY <4>1, SignalFacts DEF SignalFields
        <4> QED
          BY <4>1, <4>2, MinOfTwo
      <3> HIDE DEF bars
      <3>4. older[i] \in Held /\ SamePosition(p, older[i])
        BY <3>1, <3>2, <3>3 DEF Held, HeldFields, SamePosition
      <3> QED
        BY <2>2, <3>4 DEF p
    <2>3. CASE ~(i \in Open /\ pos[i].plan.key.inst = inst)
      BY <2>1, <2>3
    <2> QED
      BY <2>2, <2>3
  <1>3. /\ due \in SUBSET Closable
        /\ pos' \in [Orders -> {NoPosition, Gone} \cup Held]
        /\ \A i \in Orders : pos'[i] = pos[i] \/ (i \in Open /\ SamePosition(pos[i], pos'[i]))
    BY <1>1, <1>2
  <1> HIDE DEF older, due
  <1>4. PerOrder' /\ KeysHeld' /\ closing' \subseteq Orders /\ \A i \in Orders : Ordered(i)'
    BY <1>1, <1>3, ScheduleStep
  <1>5. arms' \in [Keys -> {NoArm} \cup Armed] /\ \A k \in Keys : arms'[k].left > 0 => arms'[k].sig.key = k
    <2> SUFFICES ASSUME NEW k \in Keys
                 PROVE  /\ arms'[k] \in {NoArm} \cup Armed
                        /\ arms'[k].left > 0 => arms'[k].sig.key = k
      BY <1>1
    <2>1. arms[k] \in {NoArm} \cup Armed /\ (arms[k].left > 0 => arms[k].sig.key = k)
      BY DEF LiveInv, Market
    <2>2. CASE k.inst # inst \/ arms[k].left = 0
      BY <1>1, <2>1, <2>2
    <2>3. CASE ~(k.inst # inst \/ arms[k].left = 0) /\ arms[k].left = 1
      BY <1>1, <2>3 DEF NoArm
    <2>4. CASE ~(k.inst # inst \/ arms[k].left = 0) /\ arms[k].left # 1
      <3>1. arms'[k] = [arms[k] EXCEPT !.left = @ - 1]
        BY <1>1, <2>4
      <3>2. arms[k] \in Armed
        BY <2>1, <2>4 DEF NoArm
      <3>3. arms[k].sig.expiry \in Int
        BY <3>2, SignalFacts DEF Armed, SignalFields
      <3>4. arms'[k] \in Armed /\ arms'[k].sig = arms[k].sig
        BY <2>4, <3>1, <3>2, <3>3 DEF Armed
      <3> QED
        BY <2>1, <2>4, <3>2, <3>4 DEF Armed
    <2> QED
      BY <2>2, <2>3, <2>4
  <1>6. Accounts' /\ Market'
    BY <1>1, <1>4, <1>5 DEF LiveInv, Accounts, Market
  <1> QED
    BY <1>4, <1>6 DEF LiveInv

LEMMA FlattenStep ==
    ASSUME LiveInv, NEW insts, Flatten(insts)
    PROVE  LiveInv'
  <1> DEFINE S == {i \in Closable : pos[i].plan.key.inst \in insts}
  <1>1. /\ ScheduleFullCloses(S) /\ S \in SUBSET Closable
        /\ UNCHANGED <<guard, price, arms, submitted, entry, pos, openKey, lastReal, messages, book, cash>>
    BY DEF Flatten
  <1> HIDE DEF S
  <1>2. pos' \in [Orders -> {NoPosition, Gone} \cup Held] /\ \A i \in Orders : pos'[i] = pos[i]
    BY <1>1 DEF LiveInv, PerOrder
  <1>3. PerOrder' /\ KeysHeld' /\ closing' \subseteq Orders /\ \A i \in Orders : Ordered(i)'
    BY <1>1, <1>2, ScheduleStep
  <1>4. Accounts' /\ Market'
    BY <1>1, <1>3 DEF LiveInv, Accounts, Market
  <1> QED
    BY <1>3, <1>4 DEF LiveInv

LEMMA ResetStep ==
    ASSUME LiveInv, NEW now \in Times, DayReset(now)
    PROVE  LiveInv'
  <1>1. guard' \in Guard
    <2>1. now \in Int /\ guard \in Guard
      BY LiveAssumption DEF LiveInv, Accounts
    <2> QED
      BY <2>1, GuardReset DEF DayReset
  <1>2. UNCHANGED <<price, arms, submitted, entry, pos, openKey, closing, lastReal,
                    requests, messages, book, cash>>
    BY DEF DayReset
  <1>3. Accounts' /\ Market' /\ PerOrder' /\ KeysHeld'
    BY <1>1, <1>2 DEF LiveInv, Accounts, Market, PerOrder, KeysHeld, Known
  <1>4. \A i \in Orders : Ordered(i)'
    BY <1>2 DEF LiveInv, Ordered
  <1> QED
    BY <1>3, <1>4 DEF LiveInv

(* The signals of a tick, in some order.                                   *)
LEMMA ListedSignals ==
    ASSUME NEW K \in SUBSET Keys, NEW sigOf, \A k \in K : sigOf[k] \in Signals,
           NEW orders \in SetToSeqs({sigOf[k] : k \in K})
    PROVE  orders \in Seq(Signals)
  <1> DEFINE S == {sigOf[k] : k \in K}
  <1>1. IsFiniteSet(S)
    <2>1. IsFiniteSet(K)
      BY LiveAssumption, FS_Subset
    <2> QED
      BY <2>1, NamesFinite
  <1>2. S \subseteq Signals
    OBVIOUS
  <1> HIDE DEF S
  <1>3. orders \in [1..Cardinality(S) -> S] /\ Cardinality(S) \in Nat
    <2>1. orders \in SetToSeqs(S)
      BY DEF S
    <2>2. orders \in [1..Cardinality(S) -> S]
      BY <2>1 DEF SetToSeqs
    <2> QED
      BY <1>1, <2>2, FS_CardinalityType
  <1> DEFINE n == Cardinality(S)
  <1>4. orders \in [1..n -> Signals] /\ n \in Nat
    BY <1>2, <1>3
  <1> HIDE DEF n
  <1> QED
    BY <1>4

LEMMA TickStep ==
    ASSUME LiveInv, NEW inst \in Instruments, NEW bid \in Prices, Tick(inst, bid)
    PROVE  LiveInv'
  <1> DEFINE hit == {k \in Keys : /\ k.inst = inst /\ arms[k].left > 0
                                  /\ Gain(k.dir, arms[k].sig.entry, bid) >= 0}
             asked == {k \in hit : openKey[k] = 0}
             g == IF asked = {} THEN guard ELSE CheckBreach(guard)
             chosen == {k \in asked : Submittable(guard, arms[k].sig)}
             sigs == {arms[k].sig : k \in chosen}
             mine == {i \in Open : pos[i].plan.key.inst = inst}
             held == [i \in Orders |-> IF i \in mine THEN Managed(pos[i], bid) ELSE pos[i]]
             prices == [price EXCEPT ![inst] = bid]
  <1>1. /\ price' = prices
        /\ arms' = [k \in Keys |-> IF k \in hit THEN [left |-> 0] ELSE arms[k]]
        /\ pos' = held
        /\ guard' = MarkToMarket(g, Floating(held, prices))
        /\ UNCHANGED <<openKey, closing, lastReal, messages, book, cash>>
    BY DEF Tick
  <1>2. PICK orders \in SetToSeqs(sigs) :
              /\ Submit(orders)
              /\ requests' = [i \in Orders |->
                                 IF i \in NextOrders(orders) THEN <<PlaceRequest>>
                                 ELSE IF i \in mine THEN requests[i] \o TickRequests(pos[i], bid)
                                 ELSE requests[i]]
    BY DEF Tick
  <1>3. /\ arms \in [Keys -> {NoArm} \cup Armed] /\ chosen \in SUBSET Keys
        /\ \A k \in chosen : arms[k].left > 0
    BY DEF LiveInv, Market
  <1> HIDE DEF hit, asked, chosen
  <1>4. Accepted(orders)
    <2> DEFINE sigOf == [k \in Keys |-> arms[k].sig]
    <2>1. \A k \in chosen : sigOf[k] \in Signals /\ sigOf[k] = arms[k].sig
      BY <1>3 DEF NoArm, Armed
    <2>2. sigs = {sigOf[k] : k \in chosen}
      BY <2>1
    <2> HIDE DEF sigOf
    <2>3. orders \in SetToSeqs({sigOf[k] : k \in chosen})
      BY <1>2, <2>2, Zenon
    <2>4. orders \in Seq(Signals)
      BY <1>3, <2>1, <2>3, ListedSignals
    <2> QED
      BY <1>2, <2>4, SubmitAccepts
  <1> HIDE DEF sigs
  <1>5. bid \in Int /\ prices \in [Instruments -> Prices \cup {0}]
    BY LiveAssumption DEF LiveInv, Market
  <1>6. ASSUME NEW i \in Orders
        PROVE  /\ held[i] \in {NoPosition, Gone} \cup Held
               /\ held[i] = pos[i] \/ SamePosition(pos[i], held[i])
               /\ i \in mine => /\ pos[i] \in Held /\ pos[i].status = "OPEN"
                                /\ SamePosition(pos[i], held[i])
    <2>1. pos[i] \in {NoPosition, Gone} \cup Held
      BY DEF LiveInv, PerOrder
    <2>2. CASE i \in mine
      <3>1. pos[i] \in Held /\ pos[i].status = "OPEN"
        BY <2>1, <2>2 DEF Open, NoPosition, Gone
      <3>2. held[i] = Managed(pos[i], bid)
        BY <2>2
      <3> QED
        BY <1>5, <3>1, <3>2, ManagedType
    <2>3. CASE i \notin mine
      BY <2>1, <2>3
    <2> QED
      BY <2>2, <2>3
  <1>7. held \in [Orders -> {NoPosition, Gone} \cup Held]
    BY <1>6
  <1> HIDE DEF held, prices
  <1>8. guard' \in Guard
    <2>1. g \in Guard
      BY GuardChecked DEF LiveInv, Accounts
    <2>2. Floating(held, prices) \in Int
      BY <1>5, <1>7, FloatingType
    <2> HIDE DEF g
    <2> QED
      BY <1>1, <2>1, <2>2, GuardBooked
  <1> HIDE DEF g
  <1>9. arms' \in [Keys -> {NoArm} \cup Armed] /\ \A k \in Keys : arms'[k].left > 0 => arms'[k].sig.key = k
    BY <1>1 DEF LiveInv, Market, NoArm
  <1>10. Accounts' /\ Market'
    BY <1>1, <1>4, <1>5, <1>8, <1>9 DEF LiveInv, Accounts, Market, Accepted
  <1> DEFINE more(i) == TickRequests(pos[i], bid)
  <1>11. ASSUME NEW i \in mine, i \in Orders
         PROVE  /\ more(i) \in Seq(Request)
                /\ \A n \in DOMAIN more(i) : more(i)[n].op # "place" /\ ~(more(i)[n].op = "close" /\ more(i)[n].full)
    <2> DEFINE m == more(i)
    <2>1. m \in Seq(TickRequest)
      BY <1>5, <1>6, <1>11, TickAsks
    <2> HIDE DEF m
    <2>2. TickRequest \subseteq Request
      BY DEF TickRequest, PartialClose, Request
    <2>3. ASSUME NEW T, NEW U, T \subseteq U, NEW t \in Seq(T)
          PROVE  t \in Seq(U) /\ \A n \in DOMAIN t : t[n] \in T
      BY <2>3
    <2>4. m \in Seq(Request) /\ \A n \in DOMAIN m : m[n] \in TickRequest
      BY <2>1, <2>2, <2>3
    <2>5. \A r \in TickRequest : r.op # "place" /\ ~(r.op = "close" /\ r.full)
      BY DEF TickRequest, PartialClose
    <2> QED
      BY <2>4, <2>5 DEF m
  <1> HIDE DEF more
  <1>12. ASSUME NEW i \in Orders
         PROVE  requests'[i] \in Seq(Request) /\ Ordered(i)'
    <2>1. /\ (entry[i].stage = "none") <=> (i > submitted)
          /\ Coherent(entry[i], pos[i], requests[i], messages[i], book[i], i \in closing)
          /\ requests[i] \in Seq(Request)
      BY DEF LiveInv, Ordered, PerOrder
    <2>2. pos'[i] = pos[i] \/ SamePosition(pos[i], pos'[i])
      BY <1>1, <1>6
    <2>3. CASE i \in NextOrders(orders)
      <3>1. requests'[i] = <<PlaceRequest>>
        BY <1>2, <2>3
      <3>2. entry[i].stage = "none" /\ entry'[i].stage = "sent" /\ ~(i > submitted')
        BY <1>4, <2>3 DEF Accepted
      <3>3. Coherent(entry[i], pos'[i], requests[i], messages[i], book[i], i \in closing)
        BY <2>1, <2>2, SameCoherent
      <3>4. Coherent(entry'[i], pos'[i], <<PlaceRequest>>, messages[i], book[i], i \in closing)
        BY <2>1, <3>2, <3>3, Submitted
      <3>5. <<PlaceRequest>> \in Seq(Request)
        BY DEF Request
      <3> QED
        BY <1>1, <3>1, <3>2, <3>4, <3>5 DEF Ordered
    <2>4. CASE i \notin NextOrders(orders) /\ i \in mine
      <3>1. requests'[i] = requests[i] \o more(i)
        BY <1>2, <2>4 DEF more
      <3>2. entry'[i] = entry[i] /\ (i > submitted' <=> i > submitted)
        BY <1>4, <2>4 DEF Accepted
      <3>3. pos[i].status = "OPEN" /\ SamePosition(pos[i], pos'[i])
        BY <1>1, <1>6, <2>4
      <3>4. /\ more(i) \in Seq(Request)
            /\ \A n \in DOMAIN more(i) :
                  /\ more(i)[n].op # "place"
                  /\ more(i)[n].op = "close" /\ more(i)[n].full => more(i)[n].volume >= book[i].left
        BY <1>11, <2>4
      <3>5. i \in closing => i \in closing \/ FullRequested(more(i))
        OBVIOUS
      <3>6. Coherent(entry[i], pos'[i], requests[i] \o more(i), messages[i], book[i], i \in closing)
        BY <2>1, <3>3, <3>4, <3>5, AsksMore
      <3>7. requests[i] \o more(i) \in Seq(Request)
        BY <2>1, <3>4, JoinIndex
      <3>8. Coherent(entry[i], pos'[i], requests'[i], messages[i], book[i], i \in closing)
        BY <3>1, <3>6, Zenon
      <3> QED
        BY <1>1, <2>1, <3>1, <3>2, <3>7, <3>8 DEF Ordered
    <2>5. CASE i \notin NextOrders(orders) /\ i \notin mine
      <3>1. requests'[i] = requests[i]
        BY <1>2, <2>5
      <3>2. entry'[i] = entry[i] /\ (i > submitted' <=> i > submitted)
        BY <1>4, <2>5 DEF Accepted
      <3>3. Coherent(entry[i], pos'[i], requests[i], messages[i], book[i], i \in closing)
        BY <2>1, <2>2, SameCoherent
      <3> QED
        BY <1>1, <2>1, <3>1, <3>2, <3>3 DEF Ordered
    <2> QED
      BY <2>3, <2>4, <2>5
  <1>13. requests' \in [Orders -> Seq(Request)]
    <2>1. requests' = [i \in Orders |-> requests'[i]]
      BY <1>2
    <2> QED
      BY <1>12, <2>1
  <1>14. PerOrder'
    BY <1>1, <1>4, <1>7, <1>13 DEF LiveInv, PerOrder, Accepted
  <1>15. KeysHeld'
    <2>1. \A i \in Orders : Known(i) => Known(i)' /\ pos'[i].plan.key = pos[i].plan.key
      BY <1>1, <1>6 DEF Known, SamePosition
    <2> QED
      BY <1>1, <2>1, KeysStay DEF LiveInv, Market
  <1> QED
    BY <1>10, <1>12, <1>14, <1>15 DEF LiveInv

-----------------------------------------------------------------------------
(* The broker's steps and what comes back of them.                         *)
LEMMA OrderTypes ==
    ASSUME LiveInv, NEW i \in Orders
    PROVE  /\ Coherent(entry[i], pos[i], requests[i], messages[i], book[i], i \in closing)
           /\ requests[i] \in Seq(Request) /\ messages[i] \in Seq(Message)
           /\ book[i] \in BookEntry /\ book[i].left \in Nat
           /\ book[i].stop \in Int /\ book[i].tp \in Int
           /\ pos[i] \in {NoPosition, Gone} \cup Held
           /\ entry[i].stage # "none" => /\ entry[i].sig \in Signals /\ entry[i].lots \in Int
                                         /\ entry[i] \in [stage : {"sent", "answered", "failed", "done"},
                                                          sig : Signals, lots : Int]
  <1>1. entry[i] \in Entry /\ book[i] \in BookEntry
    BY DEF LiveInv, PerOrder
  <1> QED
    BY <1>1, ExitAssumption DEF LiveInv, Ordered, PerOrder, Entry, NoEntry, BookEntry

(* A step of one order that leaves the executor's own state alone.         *)
LEMMA BrokerSide ==
    ASSUME LiveInv, NEW i \in Orders, UNCHANGED execVars, cash' \in Int,
           NEW req \in Seq(Request), NEW msgs \in Seq(Message), NEW h \in BookEntry,
           requests' = [requests EXCEPT ![i] = req],
           messages' = [messages EXCEPT ![i] = msgs],
           book' = [book EXCEPT ![i] = h],
           Coherent(entry[i], pos[i], req, msgs, h, i \in closing)
    PROVE  LiveInv'
  <1>1. UNCHANGED <<guard, price, arms, submitted, entry, pos, openKey, closing, lastReal>>
    BY DEF execVars
  <1>2. /\ requests \in [Orders -> Seq(Request)] /\ messages \in [Orders -> Seq(Message)]
        /\ book \in [Orders -> BookEntry]
    BY DEF LiveInv, PerOrder
  <1>3. /\ requests' \in [Orders -> Seq(Request)] /\ messages' \in [Orders -> Seq(Message)]
        /\ book' \in [Orders -> BookEntry]
        /\ requests'[i] = req /\ messages'[i] = msgs /\ book'[i] = h
        /\ \A j \in Orders \ {i} : /\ requests'[j] = requests[j] /\ messages'[j] = messages[j]
                                   /\ book'[j] = book[j]
    BY <1>2
  <1>4. \A j \in Orders : Ordered(j)'
    <2>1. Coherent(entry'[i], pos'[i], requests'[i], messages'[i], book'[i], i \in closing')
      BY <1>1, <1>3
    <2>2. \A j \in Orders \ {i} :
               /\ entry'[j] = entry[j] /\ pos'[j] = pos[j] /\ requests'[j] = requests[j]
               /\ messages'[j] = messages[j] /\ book'[j] = book[j]
               /\ j \in closing' <=> j \in closing
      BY <1>1, <1>3
    <2>3. /\ \A j \in Orders : Ordered(j)
          /\ submitted' = submitted
          /\ entry'[i].stage = "none" <=> entry[i].stage = "none"
      BY <1>1 DEF LiveInv
    <2> QED
      BY <2>1, <2>2, <2>3, OneOrder
  <1>5. Accounts' /\ Market' /\ PerOrder' /\ KeysHeld'
    BY <1>1, <1>3 DEF LiveInv, Accounts, Market, PerOrder, KeysHeld, Known
  <1> QED
    BY <1>4, <1>5 DEF LiveInv

LEMMA PlaceStep ==
    ASSUME LiveInv, NEW i \in Orders, NEW answer \in Answers, BrokerPlaces(i, answer)
    PROVE  LiveInv'
  <1> DEFINE s == entry[i].sig
             ok == answer = "ok"
             reply == Reply("place", ok)
             fill == Fill(TRUE, Whole, s.entry, 0)
             h == [left |-> Whole, stop |-> s.sl,
                   tp |-> IF ClientManaged(s) THEN 0 ELSE s.tps[Len(s.tps)].price]
             req == Tail(requests[i])
  <1>1. /\ requests[i] # <<>> /\ Head(requests[i]).op = "place"
        /\ requests' = [requests EXCEPT ![i] = req]
        /\ book' = IF answer = "refused" THEN book ELSE [book EXCEPT ![i] = h]
        /\ messages' = [messages EXCEPT ![i] =
                           <<reply>> \o (IF answer = "refused" THEN <<>> ELSE <<fill>>)]
        /\ UNCHANGED execVars /\ cash' = cash
    BY DEF BrokerPlaces
  <1>2. /\ Coherent(entry[i], pos[i], requests[i], messages[i], book[i], i \in closing)
        /\ requests[i] \in Seq(Request) /\ book[i] \in BookEntry
    BY OrderTypes
  <1>3. s \in Signals
    <2>1. entry[i].stage # "none"
      BY <1>1, <1>2 DEF Coherent
    <2> QED
      BY <2>1, OrderTypes
  <1>4. s.entry \in Int /\ h \in BookEntry /\ h.left = Whole
    <2>1. /\ s.entry \in Int /\ s.sl \in Int /\ Len(s.tps) \in DOMAIN s.tps
          /\ \A j \in DOMAIN s.tps : s.tps[j].price \in Int
      BY <1>3, SignalFacts
    <2>2. s.tps[Len(s.tps)].price \in Int /\ Whole \in 0..Whole
      BY <2>1, ExitAssumption
    <2> HIDE DEF s
    <2> QED
      BY <2>1, <2>2 DEF BookEntry
  <1>5. req \in Seq(Request)
    BY <1>1, <1>2, TailIndex
  <1> HIDE DEF s, h, req
  <1>6. /\ Coherent(entry[i], pos[i], req, <<reply>>, book[i], i \in closing)
        /\ Coherent(entry[i], pos[i], req, <<reply>> \o <<fill>>, h, i \in closing)
        /\ <<reply>> \in Seq(Message) /\ (<<reply>> \o <<fill>>) \in Seq(Message)
    <2>1. ok \in BOOLEAN
      OBVIOUS
    <2> HIDE DEF ok
    <2> QED
      BY <1>1, <1>2, <1>4, <2>1, Placed DEF req
  <1>7. cash' \in Int
    BY <1>1 DEF LiveInv, Accounts
  <1> HIDE DEF reply, fill
  <1>8. CASE answer = "refused"
    <2>1. <<reply>> \o <<>> = <<reply>>
      OBVIOUS
    <2>2. messages' = [messages EXCEPT ![i] = <<reply>>]
      BY <1>1, <1>8, <2>1
    <2>3. book' = [book EXCEPT ![i] = book[i]]
      BY <1>1, <1>8 DEF LiveInv, PerOrder
    <2> QED
      BY <1>1, <1>2, <1>5, <1>6, <1>7, <2>2, <2>3, BrokerSide
  <1>9. CASE answer # "refused"
    <2>1. messages' = [messages EXCEPT ![i] = <<reply>> \o <<fill>>]
      BY <1>1, <1>9
    <2>2. book' = [book EXCEPT ![i] = h]
      BY <1>1, <1>9
    <2> QED
      BY <1>1, <1>4, <1>5, <1>6, <1>7, <2>1, <2>2, BrokerSide
  <1> QED
    BY <1>8, <1>9

LEMMA AmendStep ==
    ASSUME LiveInv, NEW i \in Orders, NEW answer \in Answers, BrokerAmends(i, answer)
    PROVE  LiveInv'
  <1> DEFINE req == Tail(requests[i])
             r == Head(requests[i])
             h == IF answer = "refused" \/ book[i].left = 0 THEN book[i]
                  ELSE [book[i] EXCEPT !.stop = r.stop]
  <1>1. /\ requests[i] # <<>> /\ r.op = "amend"
        /\ requests' = [requests EXCEPT ![i] = req]
        /\ book' = IF answer = "refused" \/ book[i].left = 0 THEN book
                   ELSE [book EXCEPT ![i].stop = r.stop]
        /\ UNCHANGED execVars /\ messages' = messages /\ cash' = cash
    BY DEF BrokerAmends
  <1>2. /\ Coherent(entry[i], pos[i], requests[i], messages[i], book[i], i \in closing)
        /\ requests[i] \in Seq(Request) /\ messages[i] \in Seq(Message) /\ book[i] \in BookEntry
    BY OrderTypes
  <1>3. req \in Seq(Request) /\ r \in Request
    BY <1>1, <1>2, TailIndex
  <1>4. h \in BookEntry /\ h.left = book[i].left
    <2> HIDE DEF r
    <2>1. r.stop \in Int
      BY <1>1, <1>3 DEF Request, PlaceRequest
    <2> QED
      BY <1>2, <2>1 DEF BookEntry
  <1>5. book' = [book EXCEPT ![i] = h] /\ messages' = [messages EXCEPT ![i] = messages[i]]
    BY <1>1 DEF LiveInv, PerOrder
  <1>6. Coherent(entry[i], pos[i], req, messages[i], h, i \in closing)
    <2> HIDE DEF h
    <2> QED
      BY <1>1, <1>2, <1>4, Amended
  <1>7. cash' \in Int
    BY <1>1 DEF LiveInv, Accounts
  <1> HIDE DEF req, h, r
  <1> QED
    BY <1>1, <1>2, <1>3, <1>4, <1>5, <1>6, <1>7, BrokerSide

LEMMA ProceedsType ==
    ASSUME LiveInv, NEW i \in Orders, entry[i].stage # "none", NEW v \in Int, NEW at \in Int
    PROVE  Proceeds(i, v, at) \in Int
  <1> DEFINE e == entry[i]
             b == book[i].left
             cost == IF v = b THEN LotCost ELSE 0
             gain == Gain(e.sig.dir, e.sig.entry, at)
  <1>1. e.sig \in Signals /\ e.lots \in Int
    BY OrderTypes
  <1>2. gain \in Int /\ cost \in Int
    <2>1. e.sig.entry \in Int
      BY <1>1, SignalFacts
    <2> HIDE DEF e
    <2>2. Sign(e.sig.dir) \in Int
      BY DEF Sign
    <2> QED
      BY <2>1, <2>2, AccountAssumption DEF Gain
  <1>3. Proceeds(i, v, at) = e.lots * (gain * v - cost)
    BY DEF Proceeds
  <1> HIDE DEF e, gain, cost
  <1>4. gain * v - cost \in Int
    BY <1>2
  <1> QED
    BY <1>1, <1>3, <1>4

LEMMA CloseStep ==
    ASSUME LiveInv, NEW i \in Orders, NEW answer \in Answers, BrokerCloses(i, answer)
    PROVE  LiveInv'
  <1> DEFINE r == Head(requests[i])
             sig == entry[i].sig
             at == IF price[sig.key.inst] = 0 THEN sig.entry ELSE price[sig.key.inst]
             done == answer # "refused" /\ book[i].left >= r.volume
             ok == done /\ answer = "ok"
             paid == cash + Proceeds(i, r.volume, at)
             h == IF done THEN ClosedBook(i, r.volume) ELSE book[i]
             req == Tail(requests[i])
             msgs == messages[i] \o Told(r, ok) \o FilledBy(done, r, at, paid)
  <1>1. /\ requests[i] # <<>> /\ r.op = "close"
        /\ requests' = [requests EXCEPT ![i] = req]
        /\ cash' = IF done THEN paid ELSE cash
        /\ book' = IF done THEN [book EXCEPT ![i] = ClosedBook(i, r.volume)] ELSE book
        /\ messages' = [messages EXCEPT ![i] = msgs]
        /\ UNCHANGED execVars
    BY DEF BrokerCloses, Told, FilledBy
  <1>2. /\ Coherent(entry[i], pos[i], requests[i], messages[i], book[i], i \in closing)
        /\ requests[i] \in Seq(Request) /\ messages[i] \in Seq(Message)
        /\ book[i] \in BookEntry /\ book[i].left \in Nat
    BY OrderTypes
  <1>3. entry[i].stage # "none" /\ r \in Request /\ req \in Seq(Request)
    BY <1>1, <1>2, Taken
  <1> HIDE DEF req
  <1>4. r.volume \in Nat \ {0} /\ r.full \in BOOLEAN
    <2>1. r.op = "close" /\ r \in Request
      BY <1>1, <1>3
    <2> HIDE DEF r
    <2> QED
      BY <2>1 DEF Request, PlaceRequest
  <1>5. at \in Int
    <2>1. sig \in Signals
      BY <1>3, OrderTypes
    <2> HIDE DEF sig
    <2>2. sig.entry \in Int /\ sig.key.inst \in Instruments
      BY <2>1, SignalFacts
    <2>3. price[sig.key.inst] \in Prices \cup {0}
      BY <2>2 DEF LiveInv, Market
    <2>4. \A v \in Prices \cup {0} : v \in Int
      BY LiveAssumption
    <2> QED
      BY <2>2, <2>3, <2>4
  <1> HIDE DEF at
  <1>6. paid \in Int /\ cash \in Int
    <2>1. Proceeds(i, r.volume, at) \in Int
      BY <1>3, <1>4, <1>5, ProceedsType
    <2>2. cash \in Int
      BY DEF LiveInv, Accounts
    <2> QED
      BY <2>1, <2>2
  <1> HIDE DEF paid
  <1>7. h \in BookEntry /\ h.left = Rest(done, r, book[i].left)
    <2> HIDE DEF r
    <2> USE DEF Rest
    <2>1. NotHeld \in BookEntry /\ NotHeld.left = 0
      BY ExitAssumption DEF NotHeld, BookEntry
    <2>2. CASE done /\ r.volume = book[i].left
      <3>1. h = NotHeld
        BY <2>2 DEF ClosedBook
      <3> QED
        BY <1>2, <2>1, <2>2, <3>1
    <2>3. CASE done /\ r.volume # book[i].left
      <3>1. h = [book[i] EXCEPT !.left = book[i].left - r.volume]
        BY <2>3 DEF ClosedBook
      <3>2. book[i].left - r.volume \in 0..Whole
        BY <1>2, <1>4, <2>3, ExitAssumption DEF BookEntry
      <3> QED
        BY <1>2, <2>3, <3>1, <3>2 DEF BookEntry
    <2>4. CASE ~done
      BY <1>2, <2>4
    <2> QED
      BY <2>2, <2>3, <2>4
  <1>8. book' = [book EXCEPT ![i] = h] /\ cash' \in Int
    BY <1>1, <1>6 DEF LiveInv, PerOrder
  <1> HIDE DEF h
  <1>9. Coherent(entry[i], pos[i], req, msgs, h, i \in closing) /\ msgs \in Seq(Message)
    <2>1. ok \in BOOLEAN /\ done \in BOOLEAN /\ (ok => done) /\ (done => book[i].left >= r.volume)
      OBVIOUS
    <2> HIDE DEF ok, done
    <2> QED
      BY <1>1, <1>2, <1>5, <1>6, <1>7, <2>1, CloseReported DEF req
  <1> HIDE DEF msgs, r, done
  <1> QED
    BY <1>1, <1>3, <1>7, <1>8, <1>9, BrokerSide

LEMMA ExitStep ==
    ASSUME LiveInv, NEW i \in Orders, ServerExit(i)
    PROVE  LiveInv'
  <1> DEFINE b == book[i]
             paid(at) == cash + Proceeds(i, b.left, at)
  <1>1. PICK at \in {b.stop, b.tp} \ {0} :
           /\ cash' = paid(at)
           /\ messages' = [messages EXCEPT ![i] = Append(messages[i], Fill(FALSE, b.left, at, paid(at)))]
    BY DEF ServerExit, LiveInv, PerOrder
  <1>2. b.left > 0 /\ book' = [book EXCEPT ![i] = NotHeld] /\ UNCHANGED execVars /\ requests' = requests
    BY DEF ServerExit
  <1>3. /\ Coherent(entry[i], pos[i], requests[i], messages[i], b, i \in closing)
        /\ requests[i] \in Seq(Request) /\ messages[i] \in Seq(Message)
        /\ b \in BookEntry /\ b.left \in Nat /\ b.stop \in Int /\ b.tp \in Int
    BY OrderTypes
  <1>4. entry[i].stage # "none"
    BY <1>2, <1>3 DEF Coherent
  <1> HIDE DEF b
  <1>5. at \in Int
    BY <1>1, <1>3
  <1>6. paid(at) \in Int
    <2>1. Proceeds(i, b.left, at) \in Int
      BY <1>3, <1>4, <1>5, ProceedsType
    <2>2. cash \in Int
      BY DEF LiveInv, Accounts
    <2> QED
      BY <2>1, <2>2
  <1> DEFINE msgs == Append(messages[i], Fill(FALSE, b.left, at, paid(at)))
  <1>7. Coherent(entry[i], pos[i], requests[i], msgs, NotHeld, i \in closing) /\ msgs \in Seq(Message)
    <2> HIDE DEF paid
    <2> QED
      BY <1>2, <1>3, <1>5, <1>6, ServerExited
  <1>8. NotHeld \in BookEntry
    BY ExitAssumption DEF NotHeld, BookEntry
  <1>9. requests' = [requests EXCEPT ![i] = requests[i]]
    BY <1>2 DEF LiveInv, PerOrder
  <1>10. messages' = [messages EXCEPT ![i] = msgs] /\ cash' \in Int
    BY <1>1, <1>6
  <1> HIDE DEF msgs
  <1> QED
    BY <1>2, <1>3, <1>7, <1>8, <1>9, <1>10, BrokerSide

LEMMA FillStep ==
    ASSUME LiveInv, NEW i \in Orders, Receive(i), Head(messages[i]).op = "fill"
    PROVE  LiveInv'
  <1> DEFINE m == Head(messages[i])
             q == AfterFill(pos[i], m)
             t == Tail(messages[i])
  <1>1. /\ messages[i] # <<>> /\ messages' = [messages EXCEPT ![i] = t] /\ OnFill(i, m)
        /\ UNCHANGED <<entry, closing>>
        /\ UNCHANGED <<guard, price, arms, submitted, openKey, lastReal, requests, book, cash>>
    BY DEF Receive, OnFill
  <1>2. /\ Coherent(entry[i], pos[i], requests[i], messages[i], book[i], i \in closing)
        /\ requests[i] \in Seq(Request) /\ messages[i] \in Seq(Message) /\ book[i] \in BookEntry
        /\ pos[i] \in {NoPosition, Gone} \cup Held
        /\ pos \in [Orders -> {NoPosition, Gone} \cup Held]
    BY OrderTypes DEF LiveInv, PerOrder
  <1>3. t \in Seq(Message) /\ m \in Message
    BY <1>1, <1>2, TailIndex
  <1>4. Coherent(entry[i], q, requests[i], t, book[i], i \in closing)
    <2> HIDE DEF m, t
    <2>1. Head(messages[i]).op = "fill"
      OBVIOUS
    <2>2. Coherent(entry[i], AfterFill(pos[i], Head(messages[i])), requests[i], Tail(messages[i]), book[i], i \in closing)
      BY <1>1, <1>2, <2>1, Filled
    <2> QED
      BY <2>2 DEF m, t
  <1>5. m \in FillMessage
    BY <1>3 DEF Message, Answer
  <1> HIDE DEF m, t
  <1>6. /\ q \in {NoPosition, Gone} \cup Held
        /\ q.status \in {"PENDING", "OPEN"} <=> pos[i].status \in {"PENDING", "OPEN"}
        /\ pos[i].status \in {"PENDING", "OPEN"} => q.plan = pos[i].plan
    BY <1>2, <1>5, FilledType
  <1>7. pos' = [pos EXCEPT ![i] = q]
    <2> DEFINE p == pos[i]
               v == Min({m.volume, p.left})
    <2>1. CASE ~Known(i)
      <3>1. pos' = pos /\ q = p
        BY <1>1, <2>1 DEF OnFill, Known, AfterFill
      <3> QED
        BY <1>2, <3>1
    <2>2. CASE Known(i) /\ p.status = "PENDING" /\ m.opening
      <3>1. /\ pos' = [pos EXCEPT ![i].status = "OPEN", ![i].entry = m.price]
            /\ q = [p EXCEPT !.status = "OPEN", !.entry = m.price]
        BY <1>1, <2>2 DEF OnFill, Known, AfterFill
      <3> QED
        BY <1>2, <3>1
    <2>3. CASE Known(i) /\ ~(p.status = "PENDING" /\ m.opening) /\ v = 0
      <3>1. pos' = pos /\ q = p
        BY <1>1, <2>3 DEF OnFill, Known, AfterFill
      <3> QED
        BY <1>2, <3>1
    <2>4. CASE Known(i) /\ ~(p.status = "PENDING" /\ m.opening) /\ v # 0
      <3>1. /\ pos' = [pos EXCEPT ![i].left = @ - v,
                                  ![i].booked = @ + GainOf(p, m.price) * v,
                                  ![i].final = p.left = v,
                                  ![i].balance = m.balance]
            /\ q = [p EXCEPT !.left = @ - v, !.booked = @ + GainOf(p, m.price) * v,
                             !.final = p.left = v, !.balance = m.balance]
        BY <1>1, <2>4 DEF OnFill, Known, AfterFill
      <3> HIDE DEF v
      <3> QED
        BY <1>2, <3>1
    <2> QED
      BY <2>1, <2>2, <2>3, <2>4
  <1> HIDE DEF q
  <1>8. /\ pos' \in [Orders -> {NoPosition, Gone} \cup Held]
        /\ pos'[i] = q /\ messages'[i] = t
        /\ \A j \in Orders \ {i} : pos'[j] = pos[j] /\ messages'[j] = messages[j]
        /\ messages' \in [Orders -> Seq(Message)]
    BY <1>1, <1>2, <1>3, <1>6, <1>7 DEF LiveInv, PerOrder
  <1>9. \A j \in Orders : Ordered(j)'
    <2>1. Coherent(entry'[i], pos'[i], requests'[i], messages'[i], book'[i], i \in closing')
      BY <1>1, <1>4, <1>8
    <2>2. \A j \in Orders \ {i} :
               /\ entry'[j] = entry[j] /\ pos'[j] = pos[j] /\ requests'[j] = requests[j]
               /\ messages'[j] = messages[j] /\ book'[j] = book[j]
               /\ j \in closing' <=> j \in closing
      BY <1>1, <1>8
    <2>3. /\ \A j \in Orders : Ordered(j)
          /\ submitted' = submitted
          /\ entry'[i].stage = "none" <=> entry[i].stage = "none"
      BY <1>1 DEF LiveInv
    <2> QED
      BY <2>1, <2>2, <2>3, OneOrder
  <1>10. KeysHeld'
    <2>1. \A j \in Orders : Known(j) => Known(j)' /\ pos'[j].plan.key = pos[j].plan.key
      BY <1>6, <1>8 DEF Known
    <2> QED
      BY <1>1, <2>1, KeysStay DEF LiveInv, Market
  <1>11. Accounts' /\ Market' /\ PerOrder'
    BY <1>1, <1>8 DEF LiveInv, Accounts, Market, PerOrder
  <1> QED
    BY <1>9, <1>10, <1>11 DEF LiveInv

LEMMA ReplyStep ==
    ASSUME LiveInv, NEW i \in Orders, Receive(i), Head(messages[i]).op # "fill"
    PROVE  LiveInv'
  <1> DEFINE m == Head(messages[i])
             t == Tail(messages[i])
  <1>1. /\ messages[i] # <<>> /\ messages' = [messages EXCEPT ![i] = t]
        /\ entry' = IF m.op = "place"
                    THEN [entry EXCEPT ![i].stage = IF m.ok THEN "answered" ELSE "failed"] ELSE entry
        /\ closing' = IF m.op = "close" /\ ~m.ok THEN closing \ {i} ELSE closing
        /\ UNCHANGED pos
        /\ UNCHANGED <<guard, price, arms, submitted, openKey, lastReal, requests, book, cash>>
    BY DEF Receive, OnReply
  <1>2. /\ Coherent(entry[i], pos[i], requests[i], messages[i], book[i], i \in closing)
        /\ requests[i] \in Seq(Request) /\ messages[i] \in Seq(Message)
        /\ entry \in [Orders -> Entry]
        /\ entry[i].stage # "none" =>
              entry[i] \in [stage : {"sent", "answered", "failed", "done"}, sig : Signals, lots : Int]
    BY OrderTypes DEF LiveInv, PerOrder
  <1>3. t \in Seq(Message) /\ m \in Message
    BY <1>1, <1>2, TailIndex
  <1>4. entry[i].stage # "none"
    BY <1>1, <1>2 DEF Coherent
  <1>5. m.op \in {"place", "close"} /\ m.ok \in BOOLEAN
    <2> HIDE DEF m
    <2>1. m.op # "fill"
      BY DEF m
    <2> QED
      BY <1>3, <2>1 DEF Message, Answer, FillMessage
  <1>6. m.op = "place" =>
           /\ entry' \in [Orders -> Entry] /\ closing' = closing
           /\ entry'[i].stage \in {"answered", "failed"}
           /\ \A j \in Orders \ {i} : entry'[j] = entry[j]
           /\ Coherent(entry'[i], pos[i], requests[i], t, book[i], i \in closing)
    <2> SUFFICES ASSUME m.op = "place"
                 PROVE  /\ entry' \in [Orders -> Entry] /\ closing' = closing
                        /\ entry'[i].stage \in {"answered", "failed"}
                        /\ \A j \in Orders \ {i} : entry'[j] = entry[j]
                        /\ Coherent(entry'[i], pos[i], requests[i], t, book[i], i \in closing)
      OBVIOUS
    <2> DEFINE stage == IF m.ok THEN "answered" ELSE "failed"
               f == [entry[i] EXCEPT !.stage = stage]
    <2>1. entry' = [entry EXCEPT ![i] = f] /\ closing' = closing
      BY <1>1, <1>2
    <2>2. f \in Entry /\ f.stage \in {"answered", "failed"}
      BY <1>2, <1>4 DEF Entry
    <2> HIDE DEF f
    <2>3. /\ entry' \in [Orders -> Entry] /\ entry'[i] = f
          /\ \A j \in Orders \ {i} : entry'[j] = entry[j]
      BY <1>2, <2>1, <2>2
    <2>4. Coherent(f, pos[i], requests[i], Tail(messages[i]), book[i], i \in closing)
      BY <1>1, <1>2, <2>2, PlaceReplied
    <2> QED
      BY <2>1, <2>2, <2>3, <2>4
  <1>7. m.op = "close" =>
           /\ entry' = entry /\ closing' \subseteq closing
           /\ \A j \in Orders \ {i} : j \in closing' <=> j \in closing
           /\ Coherent(entry[i], pos[i], requests[i], t, book[i], i \in closing')
    <2> SUFFICES ASSUME m.op = "close"
                 PROVE  /\ entry' = entry /\ closing' \subseteq closing
                        /\ \A j \in Orders \ {i} : j \in closing' <=> j \in closing
                        /\ Coherent(entry[i], pos[i], requests[i], t, book[i], i \in closing')
      OBVIOUS
    <2>1. /\ entry' = entry /\ closing' \subseteq closing
          /\ \A j \in Orders \ {i} : j \in closing' <=> j \in closing
      BY <1>1
    <2>2. i \in closing' => i \in closing /\ m.ok
      BY <1>1
    <2>3. Coherent(entry[i], pos[i], requests[i], Tail(messages[i]), book[i], i \in closing')
      BY <1>1, <1>2, <2>2, CloseReplied
    <2> QED
      BY <2>1, <2>3
  <1> HIDE DEF m, t
  <1>8. /\ messages' \in [Orders -> Seq(Message)] /\ messages'[i] = t
        /\ \A j \in Orders \ {i} : messages'[j] = messages[j]
    BY <1>1, <1>3 DEF LiveInv, PerOrder
  <1>9. entry' \in [Orders -> Entry] /\ closing' \subseteq closing
    BY <1>2, <1>5, <1>6, <1>7
  <1>10. \A j \in Orders : Ordered(j)'
    <2>1. Coherent(entry'[i], pos'[i], requests'[i], messages'[i], book'[i], i \in closing')
      BY <1>1, <1>5, <1>6, <1>7, <1>8
    <2>2. \A j \in Orders \ {i} :
               /\ entry'[j] = entry[j] /\ pos'[j] = pos[j] /\ requests'[j] = requests[j]
               /\ messages'[j] = messages[j] /\ book'[j] = book[j]
               /\ j \in closing' <=> j \in closing
      BY <1>1, <1>5, <1>6, <1>7, <1>8
    <2>3. /\ \A j \in Orders : Ordered(j)
          /\ submitted' = submitted
          /\ entry'[i].stage = "none" <=> entry[i].stage = "none"
      BY <1>1, <1>4, <1>5, <1>6, <1>7 DEF LiveInv
    <2> QED
      BY <2>1, <2>2, <2>3, OneOrder
  <1>11. Accounts' /\ Market' /\ PerOrder' /\ KeysHeld'
    BY <1>1, <1>8, <1>9 DEF LiveInv, Accounts, Market, PerOrder, KeysHeld, Known
  <1> QED
    BY <1>10, <1>11 DEF LiveInv

LEMMA ReturnStep ==
    ASSUME LiveInv, NEW i \in Orders, PlaceReturns(i)
    PROVE  LiveInv'
  <1> DEFINE s == entry[i].sig
             q == Pending(s, entry[i].lots)
             f == [entry[i] EXCEPT !.stage = "done"]
  <1>1. /\ entry[i].stage = "answered"
        /\ entry' = [entry EXCEPT ![i].stage = "done"]
        /\ pos' = [pos EXCEPT ![i] = q]
        /\ openKey' = [openKey EXCEPT ![s.key] = i]
        /\ UNCHANGED <<guard, price, arms, submitted, closing, lastReal,
                       requests, messages, book, cash>>
    BY DEF PlaceReturns
  <1>2. /\ Coherent(entry[i], pos[i], requests[i], messages[i], book[i], i \in closing)
        /\ s \in Signals
        /\ entry[i] \in [stage : {"sent", "answered", "failed", "done"}, sig : Signals, lots : Int]
        /\ entry \in [Orders -> Entry] /\ pos \in [Orders -> {NoPosition, Gone} \cup Held]
    BY <1>1, OrderTypes DEF LiveInv, PerOrder
  <1>3. q \in Held /\ q.plan = s /\ q.status = "PENDING" /\ q.left = Whole
    BY <1>2, PendingHeld
  <1>4. f \in Entry /\ f.stage = "done" /\ entry' = [entry EXCEPT ![i] = f]
    BY <1>1, <1>2 DEF Entry
  <1> HIDE DEF s, q, f
  <1>5. /\ entry' \in [Orders -> Entry] /\ pos' \in [Orders -> {NoPosition, Gone} \cup Held]
        /\ entry'[i] = f /\ pos'[i] = q
        /\ \A j \in Orders \ {i} : entry'[j] = entry[j] /\ pos'[j] = pos[j]
    BY <1>1, <1>2, <1>3, <1>4
  <1>6. Coherent(f, q, requests[i], messages[i], book[i], i \in closing)
    BY <1>1, <1>2, <1>3, <1>4, Returned
  <1>7. \A j \in Orders : Ordered(j)'
    <2>1. Coherent(entry'[i], pos'[i], requests'[i], messages'[i], book'[i], i \in closing')
      BY <1>1, <1>5, <1>6
    <2>2. \A j \in Orders \ {i} :
               /\ entry'[j] = entry[j] /\ pos'[j] = pos[j] /\ requests'[j] = requests[j]
               /\ messages'[j] = messages[j] /\ book'[j] = book[j]
               /\ j \in closing' <=> j \in closing
      BY <1>1, <1>5
    <2>3. /\ \A j \in Orders : Ordered(j)
          /\ submitted' = submitted
          /\ entry'[i].stage = "none" <=> entry[i].stage = "none"
      BY <1>1, <1>4, <1>5 DEF LiveInv
    <2> QED
      BY <2>1, <2>2, <2>3, OneOrder
  <1>8. s.key \in Keys /\ i \in 0..MaxOrders
    BY <1>2, SignalFacts, LiveAssumption DEF Orders
  <1>9. openKey' \in [Keys -> 0..MaxOrders]
    BY <1>1, <1>8 DEF LiveInv, Market
  <1>10. KeysHeld'
    <2> SUFFICES ASSUME NEW k \in Keys, openKey'[k] # 0
                 PROVE  /\ pos'[openKey'[k]].status \in {"PENDING", "OPEN"}
                        /\ pos'[openKey'[k]].plan.key = k
      BY DEF KeysHeld, Known
    <2>1. CASE k = s.key
      <3>1. openKey'[k] = i
        BY <1>1, <1>8, <2>1 DEF LiveInv, Market
      <3> QED
        BY <1>3, <1>5, <2>1, <3>1 DEF Known
    <2>2. CASE k # s.key
      <3>1. openKey'[k] = openKey[k] /\ openKey[k] \in Orders
        BY <1>1, <1>8, <1>9, <2>2, LiveAssumption DEF LiveInv, Market, Orders
      <3>2. Known(openKey[k]) /\ pos[openKey[k]].plan.key = k
        BY <3>1 DEF LiveInv, KeysHeld, Orders
      <3>3. openKey[k] # i
        BY <1>1, <1>2, <3>2 DEF Coherent, Known
      <3> QED
        BY <1>5, <3>1, <3>2, <3>3 DEF Known
    <2> QED
      BY <2>1, <2>2
  <1>11. Accounts' /\ Market' /\ PerOrder'
    BY <1>1, <1>5, <1>9 DEF LiveInv, Accounts, Market, PerOrder
  <1> QED
    BY <1>7, <1>10, <1>11 DEF LiveInv

LEMMA FinalStep ==
    ASSUME LiveInv, NEW i \in Orders, NEW how \in Accounting, Finalize(i, how)
    PROVE  LiveInv'
  <1> DEFINE p == pos[i]
             net == IF how = "real" THEN p.balance - lastReal ELSE (p.booked - LotCost) * p.lots
  <1>1. /\ Known(i) /\ p.final
        /\ guard' = RealizePnl(guard, net)
        /\ lastReal' = IF how = "real" THEN p.balance ELSE lastReal
        /\ pos' = [pos EXCEPT ![i] = Gone]
        /\ closing' = closing \ {i}
        /\ openKey' = [openKey EXCEPT ![p.plan.key] = 0]
        /\ UNCHANGED <<price, arms, submitted, entry, requests, messages, book, cash>>
    BY DEF Finalize, Gone
  <1>2. /\ Coherent(entry[i], p, requests[i], messages[i], book[i], i \in closing)
        /\ p \in Held /\ pos \in [Orders -> {NoPosition, Gone} \cup Held]
    BY <1>1, OrderTypes DEF LiveInv, PerOrder, Known, NoPosition, Gone
  <1> HIDE DEF p
  <1>3. p.balance \in Int /\ p.booked \in Int /\ p.lots \in Int /\ p.plan \in Signals
    BY <1>2 DEF Held, HeldFields
  <1>4. Accounts'
    <2>1. guard \in Guard /\ lastReal \in Int /\ cash \in Int
      BY DEF LiveInv, Accounts
    <2>2. net \in Int
      BY <1>3, <2>1, AccountAssumption
    <2> HIDE DEF net
    <2>3. guard' \in Guard
      BY <1>1, <2>1, <2>2, GuardBooked
    <2> QED
      BY <1>1, <1>3, <2>1, <2>3 DEF Accounts
  <1>5. /\ pos' \in [Orders -> {NoPosition, Gone} \cup Held] /\ pos'[i] = Gone
        /\ \A j \in Orders \ {i} : pos'[j] = pos[j] /\ (j \in closing' <=> j \in closing)
        /\ i \notin closing'
    BY <1>1, <1>2
  <1>6. Coherent(entry[i], Gone, requests[i], messages[i], book[i], FALSE)
    BY <1>1, <1>2, Finalized
  <1>7. \A j \in Orders : Ordered(j)'
    <2>1. Coherent(entry'[i], pos'[i], requests'[i], messages'[i], book'[i], i \in closing')
      BY <1>1, <1>5, <1>6 DEF Coherent
    <2>2. \A j \in Orders \ {i} :
               /\ entry'[j] = entry[j] /\ pos'[j] = pos[j] /\ requests'[j] = requests[j]
               /\ messages'[j] = messages[j] /\ book'[j] = book[j]
               /\ j \in closing' <=> j \in closing
      BY <1>1, <1>5
    <2>3. /\ \A j \in Orders : Ordered(j)
          /\ submitted' = submitted
          /\ entry'[i].stage = "none" <=> entry[i].stage = "none"
      BY <1>1 DEF LiveInv
    <2> QED
      BY <2>1, <2>2, <2>3, OneOrder
  <1>8. p.plan.key \in Keys /\ openKey \in [Keys -> 0..MaxOrders] /\ 0 \in 0..MaxOrders
    BY <1>3, SignalFacts, LiveAssumption DEF LiveInv, Market
  <1>9. openKey' \in [Keys -> 0..MaxOrders]
    BY <1>1, <1>8
  <1>10. KeysHeld'
    <2> SUFFICES ASSUME NEW k \in Keys, openKey'[k] # 0
                 PROVE  /\ pos'[openKey'[k]].status \in {"PENDING", "OPEN"}
                        /\ pos'[openKey'[k]].plan.key = k
      BY DEF KeysHeld, Known
    <2>1. k # p.plan.key /\ openKey'[k] = openKey[k]
      BY <1>1, <1>8
    <2>2. openKey[k] \in Orders
      BY <1>8, <2>1, LiveAssumption DEF Orders
    <2>3. Known(openKey[k]) /\ pos[openKey[k]].plan.key = k
      BY <2>1 DEF LiveInv, KeysHeld
    <2>4. openKey[k] # i
      BY <2>1, <2>3 DEF p
    <2> QED
      BY <1>5, <2>1, <2>2, <2>3, <2>4 DEF Known
  <1>11. Market' /\ PerOrder'
    BY <1>1, <1>5, <1>9 DEF LiveInv, Market, PerOrder
  <1> QED
    BY <1>4, <1>7, <1>10, <1>11 DEF LiveInv

-----------------------------------------------------------------------------
(* The invariant, and what it says.                                        *)
LEMMA NextKeeps == LiveInv /\ [Next]_vars => LiveInv'
  <1> SUFFICES ASSUME LiveInv, [Next]_vars PROVE LiveInv'
    OBVIOUS
  <1>1. ASSUME NEW s \in Signals, Signal(s) PROVE LiveInv'
    BY <1>1, SignalStep
  <1>2. ASSUME NEW inst \in Instruments, NEW bid \in Prices, Tick(inst, bid) PROVE LiveInv'
    BY <1>2, TickStep
  <1>3. ASSUME NEW inst \in Instruments, CandleClose(inst) PROVE LiveInv'
    BY <1>3, CandleStep
  <1>4. ASSUME NEW insts, Flatten(insts) PROVE LiveInv'
    BY <1>4, FlattenStep
  <1>5. ASSUME NEW now \in Times, DayReset(now) PROVE LiveInv'
    BY <1>5, ResetStep
  <1>6. ASSUME NEW i \in Orders, NEW answer \in Answers, Broker(i, answer) PROVE LiveInv'
    BY <1>6, PlaceStep, AmendStep, CloseStep DEF Broker
  <1>7. ASSUME NEW i \in Orders, ServerExit(i) PROVE LiveInv'
    BY <1>7, ExitStep
  <1>8. ASSUME NEW i \in Orders, Receive(i) PROVE LiveInv'
    BY <1>8, FillStep, ReplyStep
  <1>9. ASSUME NEW i \in Orders, PlaceReturns(i) PROVE LiveInv'
    BY <1>9, ReturnStep
  <1>10. ASSUME NEW i \in Orders, NEW how \in Accounting, Finalize(i, how) PROVE LiveInv'
    BY <1>10, FinalStep
  <1>11. CASE UNCHANGED vars
    <2>1. UNCHANGED <<guard, price, arms, submitted, entry, pos, openKey, closing, lastReal,
                      requests, messages, book, cash>>
      BY <1>11 DEF vars, execVars
    <2>2. Accounts' /\ Market' /\ PerOrder' /\ KeysHeld'
      BY <2>1 DEF LiveInv, Accounts, Market, PerOrder, KeysHeld, Known
    <2>3. \A i \in Orders : Ordered(i)'
      BY <2>1 DEF LiveInv, Ordered
    <2> QED
      BY <2>2, <2>3 DEF LiveInv
  <1> QED
    BY <1>1, <1>2, <1>3, <1>4, <1>5, <1>6, <1>7, <1>8, <1>9, <1>10, <1>11 DEF Next

(* The inductive invariant holds throughout: the types, the coherence of   *)
(* each order with its requests, messages and the broker's record, and the *)
(* positions behind the open keys.                                         *)
THEOREM LiveCoherent == Spec => []LiveInv
  <1> QED
    BY Started, NextKeeps, PTL DEF Spec

(* Nothing the executor holds stays blocked: a key is blocked only by a    *)
(* position of its own that is still held (_open_keys), and a position     *)
(* guarded against a second full close (_closing_full) has its first one   *)
(* requested, answered, filled or ready to be accounted for.               *)
THEOREM NothingStaysStuck == Spec => []NothingStuck
  <1>1. LiveInv => NothingStuck
    <2> SUFFICES ASSUME LiveInv PROVE NothingStuck
      OBVIOUS
    <2>1. \A k \in Keys : openKey[k] # 0 => Known(openKey[k]) /\ pos[openKey[k]].plan.key = k
      BY DEF LiveInv, KeysHeld
    <2>2. ASSUME NEW i \in closing
          PROVE  \/ \E n \in DOMAIN requests[i] : requests[i][n].op = "close" /\ requests[i][n].full
                 \/ \E n \in DOMAIN messages[i] : messages[i][n].op = "close"
                 \/ Closings(messages[i]) # {}
                 \/ Known(i) /\ pos[i].final
      <3>1. i \in Orders
        BY DEF LiveInv, Market
      <3>2. /\ Coherent(entry[i], pos[i], requests[i], messages[i], book[i], i \in closing)
            /\ messages[i] \in Seq(Message) /\ pos[i] \in {NoPosition, Gone} \cup Held
        BY <3>1, OrderTypes
      <3>3. Guarded(pos[i], requests[i], messages[i], book[i])
        BY <3>2 DEF Coherent
      <3>4. CASE FullRequested(requests[i]) \/ CloseAnswered(messages[i])
        BY <3>4 DEF FullRequested, CloseAnswered
      <3>5. CASE pos[i].status = "OPEN" /\ book[i].left = 0
        <4>1. pos[i] \in Held /\ Known(i)
          BY <3>2, <3>5 DEF NoPosition, Gone, Known
        <4>2. pos[i].left = 0 + InTransit(messages[i]) /\ InTransit(messages[i]) \in Nat
          BY <3>2, <3>5, TransitType DEF Coherent, Balanced
        <4>3. Closings(messages[i]) = {} => pos[i].left = 0
          BY <3>2, <4>2, TransitType
        <4> QED
          BY <4>1, <4>3 DEF Held
      <3> QED
        BY <3>3, <3>4, <3>5 DEF Guarded
    <2> QED
      BY <2>1, <2>2 DEF NothingStuck
  <1> QED
    BY <1>1, LiveCoherent, PTL

(* What the executor counts as open of a position is what the broker holds *)
(* of it plus what it reported closed in fills that _handle_execution has  *)
(* not seen yet, and every variable has its type.                          *)
THEOREM RemainderKept == Spec => []RemainderTracksBroker
  <1>1. LiveInv => RemainderTracksBroker
    <2> SUFFICES ASSUME LiveInv PROVE RemainderTracksBroker
      OBVIOUS
    <2>1. \A i \in Open : pos[i].left = book[i].left + InTransit(messages[i])
      <3> SUFFICES ASSUME NEW i \in Open PROVE pos[i].left = book[i].left + InTransit(messages[i])
        OBVIOUS
      <3>1. i \in Orders /\ pos[i].status = "OPEN"
        BY DEF Open
      <3> QED
        BY <3>1, OrderTypes DEF Coherent, Balanced
    <2>2. ASSUME NEW k \in Keys, arms[k].left > 0
          PROVE  arms[k].sig \in Signals /\ arms[k].sig.key = k /\ arms[k].left <= arms[k].sig.expiry
      <3>1. arms[k] \in {NoArm} \cup Armed /\ arms[k].sig.key = k
        BY <2>2 DEF LiveInv, Market
      <3> QED
        BY <2>2, <3>1 DEF NoArm, Armed
    <2>3. ASSUME NEW i \in Orders
          PROVE  /\ (entry[i].stage = "none") = (i > submitted)
                 /\ entry[i].stage = "done" => pos[i].status # "NONE"
                 /\ pos[i].status \in {"NONE", "PENDING", "OPEN", "CLOSED"}
                 /\ Known(i) => pos[i].left \in 0..Whole /\ (pos[i].final <=> pos[i].left = 0)
                 /\ book[i].left \in 0..Whole
                 /\ \A n \in DOMAIN requests[i] :
                       requests[i][n].op = "close" => requests[i][n].volume > 0
      <3>1. /\ Coherent(entry[i], pos[i], requests[i], messages[i], book[i], i \in closing)
            /\ requests[i] \in Seq(Request) /\ book[i] \in BookEntry
            /\ pos[i] \in {NoPosition, Gone} \cup Held
        BY OrderTypes
      <3>2. (entry[i].stage = "none") = (i > submitted)
        <4>1. (entry[i].stage = "none") <=> (i > submitted)
          BY DEF LiveInv, Ordered
        <4> QED
          BY <4>1
      <3>3. pos[i].status \in {"NONE", "PENDING", "OPEN", "CLOSED"}
        BY <3>1 DEF NoPosition, Gone, Held, HeldFields
      <3>4. Known(i) => pos[i].left \in 0..Whole /\ (pos[i].final <=> pos[i].left = 0)
        BY <3>1 DEF Known, NoPosition, Gone, Held, HeldFields
      <3>5. ASSUME NEW n \in DOMAIN requests[i], requests[i][n].op = "close"
            PROVE  requests[i][n].volume > 0
        <4>1. requests[i][n] \in Request
          BY <3>1
        <4> QED
          BY <3>5, <4>1 DEF Request, PlaceRequest
      <3> QED
        BY <3>1, <3>2, <3>3, <3>4, <3>5 DEF Coherent, BookEntry
    <2>4. TypeOK
      BY <2>2, <2>3 DEF TypeOK, LiveInv, Accounts, Market
    <2> QED
      BY <2>1, <2>4 DEF RemainderTracksBroker
  <1> QED
    BY <1>1, LiveCoherent, PTL

=============================================================================
