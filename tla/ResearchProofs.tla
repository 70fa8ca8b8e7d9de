---------------------------- MODULE ResearchProofs ----------------------------
(***************************************************************************)
(* Proofs about the research engine: its feed, its arms, what it records,  *)
(* and the history it is fed with, for any constants.                      *)
(*                                                                         *)
(* The feed: what the indicators read is in the order of time              *)
(* (HistoryInOrder).  The order is kept by what is still forming: a candle *)
(* goes behind the completed ones when it closes, so it has to be later    *)
(* than all of them, unless they are from before the process began.        *)
(*                                                                         *)
(* The arms: what is armed is watched, within its window only, live and in *)
(* the replay (ArmedIsWatched, WindowsKept).  Whatever is in the list is   *)
(* alive: armed at a candle that came, within its window, of a variant     *)
(* that has not triggered; ticks and cleanups only filter the list.        *)
(*                                                                         *)
(* Trades: whatever the three threads do, no accepted trade is lost while  *)
(* flushes do not overlap (NothingLost).  What is accepted lies in the     *)
(* table or the buffer.  A flush takes things off the buffer that it has   *)
(* written before, so the invariant also says what a flush under way       *)
(* knows: its batch is still what the buffer begins with, it is the only   *)
(* one, and once it is to be trimmed it is written.                        *)
(*                                                                         *)
(* History: a day that a run has passed without an error is stored, as far *)
(* as it had been published, or there is a reason for what is missing      *)
(* (NoSilentHoles).  That is not inductive by itself, since a day that is  *)
(* skipped is taken for whole because it is marked.  What makes it so is   *)
(* that every day that is marked, or about to be, is whole or spoiled.     *)
(***************************************************************************)
EXTENDS LiveFeed, BacktestReplay, TradeRecorder, HistoryFetch, FoldLemmas

Before(tf) == PeriodOf(tf, begun)

InOrder(h, p) == \A i, j \in DOMAIN h : i < j /\ h[j] > p => h[i] < h[j]

(* No completed candle is as late as the one that is forming.              *)
FormingIsLatest(tf) ==
    \A i \in DOMAIN history[tf] :
        \/ history[tf][i] <= Before(tf)
        \/ forming[tf] # None /\ history[tf][i] < forming[tf].open

LiveInv ==
    /\ begun \in Begin /\ now \in Nat /\ now >= begun
    /\ forming \in [Frames -> [open : Int, last : Int]]
    /\ history \in [Frames -> Seq(Int)]
    /\ \A tf \in Frames : InOrder(history[tf], Before(tf)) /\ FormingIsLatest(tf)

LEMMA PeriodType ==
    ASSUME BuilderParameters, NEW tf \in Frames, NEW stamp \in Int
    PROVE  PeriodOf(tf, stamp) \in Int
  <1> DEFINE i == Interval[tf]
             q == stamp \div i
  <1>1. i \in Nat \ {0}
    BY DEF BuilderParameters
  <1>2. q \in Int
    BY <1>1
  <1>3. q * i \in Int
    BY <1>1, <1>2
  <1> QED
    BY <1>3 DEF PeriodOf

(* What is kept of a history is its end.                                   *)
LEMMA KeepsTheEnd ==
    ASSUME BuilderParameters, NEW C, NEW h \in Seq(C)
    PROVE  /\ Keep(h) \in Seq(C)
           /\ \E d \in Nat : /\ Len(Keep(h)) = Len(h) - d
                             /\ \A i \in 1..Len(Keep(h)) : Keep(h)[i] = h[i + d]
  <1> DEFINE n == Len(h) - MaxHistory + 1
             m == Max({1, n})
  <1>1. Len(h) \in Nat /\ MaxHistory \in Nat \ {0}
    BY DEF BuilderParameters
  <1>2. m = IF 1 >= n THEN 1 ELSE n
    BY <1>1, MaxOfTwo
  <1>3. m \in Int /\ m >= 1 /\ m <= Len(h) + 1
    BY <1>1, <1>2
  <1> HIDE DEF m
  <1>4. SubSeq(h, m, Len(h)) = [i \in 1..(Len(h) - m + 1) |-> h[i + m - 1]]
    BY <1>1, <1>3
  <1>5. /\ SubSeq(h, m, Len(h)) \in Seq(C) /\ Len(SubSeq(h, m, Len(h))) = Len(h) - (m - 1)
        /\ \A i \in 1..(Len(h) - (m - 1)) : SubSeq(h, m, Len(h))[i] = h[i + (m - 1)]
    BY <1>1, <1>3
  <1>6. Keep(h) = SubSeq(h, m, Len(h))
    BY DEF Keep, m
  <1>7. m - 1 \in Nat
    BY <1>3
  <1> QED
    BY <1>5, <1>6, <1>7

LEMMA KeepsOrder ==
    ASSUME BuilderParameters, NEW h \in Seq(Int), NEW p \in Int, InOrder(h, p)
    PROVE  InOrder(Keep(h), p)
  <1>1. PICK d \in Nat : /\ Len(Keep(h)) = Len(h) - d
                         /\ \A i \in 1..Len(Keep(h)) : Keep(h)[i] = h[i + d]
    BY KeepsTheEnd
  <1>2. Keep(h) \in Seq(Int)
    BY KeepsTheEnd
  <1>3. \A i \in 1..Len(Keep(h)) : i + d \in 1..Len(h)
    BY <1>1, <1>2
  <1> DEFINE k == Keep(h)
  <1>d. DOMAIN k = 1..Len(k)
    BY <1>2
  <1> SUFFICES ASSUME NEW i \in 1..Len(k), NEW j \in 1..Len(k), i < j, k[j] > p
               PROVE  k[i] < k[j]
    BY <1>d DEF InOrder
  <1>4. k[i] = h[i + d] /\ k[j] = h[j + d] /\ i + d < j + d
    BY <1>1, <1>2
  <1>5. i + d \in DOMAIN h /\ j + d \in DOMAIN h
    BY <1>3
  <1> HIDE DEF k
  <1> QED
    BY <1>4, <1>5 DEF InOrder

(* What is new of some candles is some of them.                            *)
LEMMA NewCandles ==
    ASSUME NEW h, NEW C, NEW candles \in Seq(C)
    PROVE  NotIn(h, candles) \in Seq(C)
  <1> DEFINE n == Len(candles)
             D == 1..n
             op(new, c) == IF c \in ToSet(h) THEN new ELSE Append(new, c)
             step == [k \in D |-> [new \in Seq(C) |-> op(new, candles[k])]]
             Folds(f) == f = [s \in SUBSET D |-> IF s = {} THEN <<>>
                                                 ELSE op(f[s \ {Max(s)}], candles[Max(s)])]
             g == CHOOSE f : Folds(f)
  <1>1. n \in Nat /\ DOMAIN candles = D /\ \A k \in D : candles[k] \in C
    OBVIOUS
  <1>2. NotIn(h, candles) = (CHOOSE f : Folds(f))[D]
    <2>1. NotIn(h, candles) =
             (CHOOSE f : f = [s \in SUBSET DOMAIN candles |-> IF s = {} THEN <<>>
                                 ELSE op(f[s \ {Max(s)}], candles[Max(s)])])[DOMAIN candles]
      BY DEF NotIn, FoldLeft, MapThenFoldSet
    <2> QED
      BY <1>1, <2>1, Zenon
  <1>3. PICK f : Recursive(f, D, Seq(C), <<>>, LastOf(n), step)
    <2>1. <<>> \in Seq(C)
      OBVIOUS
    <2>2. step \in [D -> [Seq(C) -> Seq(C)]]
      BY <1>1
    <2> HIDE DEF step
    <2> QED
      BY <1>1, <2>1, <2>2, PrefixRecursion
  <1>4. Folds(f)
    <2>1. /\ f \in [SUBSET D -> Seq(C)] /\ f[{}] = <<>>
          /\ \A s \in SUBSET D : s # {} => f[s] = step[LastOf(n)[s]][f[s \ {LastOf(n)[s]}]]
      BY <1>3 DEF Recursive
    <2>2. ASSUME NEW s \in SUBSET D, s # {} PROVE f[s] = op(f[s \ {Max(s)}], candles[Max(s)])
      <3>1. Max(s) \in D /\ LastOf(n)[s] = Max(s)
        BY <1>1, <2>2, MaxIsLast DEF LastOf
      <3>2. f[s \ {Max(s)}] \in Seq(C)
        BY <2>1
      <3> QED
        BY <2>1, <2>2, <3>1, <3>2
    <2> QED
      BY <2>1, <2>2
  <1>5. Folds(g)
    BY <1>4
  <1> HIDE DEF g
  <1> DEFINE S == {k \in 0..n : g[1..k] \in Seq(C)}
  <1>6. 0 \in S
    <2>1. (1..0) = {} /\ {} \in SUBSET D
      OBVIOUS
    <2> QED
      BY <1>5, <2>1
  <1>7. ASSUME NEW k \in 1..n, k - 1 \in S PROVE k \in S
    <2>1. g[1..k] = op(g[1..(k - 1)], candles[k])
      <3>1. 1..k \in SUBSET D /\ 1..k # {} /\ Max(1..k) = k /\ (1..k) \ {Max(1..k)} = 1..(k - 1)
        BY <1>1, PrefixParts
      <3>2. g[1..k] = op(g[(1..k) \ {Max(1..k)}], candles[Max(1..k)])
        BY <1>5, <3>1
      <3> HIDE DEF op, D
      <3> QED
        BY <3>1, <3>2
    <2>2. candles[k] \in C /\ g[1..(k - 1)] \in Seq(C) /\ k \in 0..n
      BY <1>1, <1>7
    <2> HIDE DEF n, D
    <2>3. g[1..k] \in Seq(C)
      BY <2>1, <2>2
    <2> QED
      BY <2>2, <2>3
  <1>8. 0..n \subseteq S
    <2> HIDE DEF S
    <2> QED
      BY <1>1, <1>6, <1>7, StepByStep
  <1>9. g[D] \in Seq(C)
    BY <1>1, <1>8
  <1> QED
    BY <1>2, <1>9 DEF g

(* What was fetched is from before the process began.                      *)
LEMMA WarmedUpBefore ==
    ASSUME BuilderParameters, NEW tf \in Frames, NEW n \in Int, NEW upTo
    PROVE  WarmedUp(tf, n, upTo) \in Seq({c \in Int : c <= PeriodOf(tf, n)})
  <1> DEFINE C == {c \in Int : c <= PeriodOf(tf, n)}
             i == Interval[tf]
             last == PeriodOf(tf, n) - (IF upTo = "complete" THEN i ELSE 0)
             candles == [k \in 1..MaxHistory |-> last - (MaxHistory - k) * i]
  <1>1. i \in Nat \ {0} /\ MaxHistory \in Nat \ {0} /\ PeriodOf(tf, n) \in Int
    BY PeriodType DEF BuilderParameters
  <1>2. last \in Int /\ last <= PeriodOf(tf, n)
    BY <1>1
  <1>3. ASSUME NEW k \in 1..MaxHistory PROVE candles[k] \in C
    <2> DEFINE a == MaxHistory - k
    <2>1. a \in Nat
      BY <1>1
    <2> HIDE DEF a, last, i
    <2>2. a * i \in Nat
      BY <1>1, <2>1
    <2>3. last - a * i \in C
      BY <1>1, <1>2, <2>2
    <2>4. candles[k] = last - a * i
      BY DEF a
    <2> QED
      BY <2>3, <2>4
  <1>4. candles \in Seq(C)
    BY <1>1, <1>3
  <1> HIDE DEF C, candles
  <1>5. InjectHistory(<<>>, candles) \in Seq(C)
    <2>1. NotIn(<<>>, candles) \in Seq(C)
      BY <1>4, NewCandles
    <2>2. <<>> \o NotIn(<<>>, candles) \in Seq(C)
      BY <2>1
    <2> QED
      BY <2>2, KeepsTheEnd DEF InjectHistory
  <1>6. WarmedUp(tf, n, upTo) = IF upTo = "nothing" THEN <<>> ELSE InjectHistory(<<>>, candles)
    BY DEF WarmedUp, candles
  <1>7. WarmedUp(tf, n, upTo) \in Seq(C)
    BY <1>5, <1>6
  <1> QED
    BY <1>7 DEF C

LEMMA LiveBegins == ASSUME LiveParameters, LiveInit PROVE LiveInv
  <1>1. BuilderParameters /\ begun \in Begin /\ begun \in Nat /\ now = begun
    BY DEF LiveParameters, LiveInit
  <1>2. PICK upTo : history = [tf \in Frames |-> WarmedUp(tf, begun, upTo)]
    BY DEF LiveInit
  <1>3. ASSUME NEW tf \in Frames
        PROVE  /\ history[tf] \in Seq(Int)
               /\ \A i \in DOMAIN history[tf] : history[tf][i] <= Before(tf)
               /\ Before(tf) \in Int
    <2>1. history[tf] \in Seq({c \in Int : c <= Before(tf)})
      BY <1>1, <1>2, WarmedUpBefore DEF Before
    <2>2. Before(tf) \in Int
      BY <1>1, PeriodType DEF Before
    <2> HIDE DEF Before
    <2> QED
      BY <2>1, <2>2
  <1>4. forming = [tf \in Frames |-> None] /\ None \in [open : Int, last : Int]
    BY DEF LiveInit, None
  <1>5. history \in [Frames -> Seq(Int)]
    BY <1>2, <1>3
  <1>6. ASSUME NEW tf \in Frames PROVE InOrder(history[tf], Before(tf)) /\ FormingIsLatest(tf)
    BY <1>3 DEF InOrder, FormingIsLatest
  <1> QED
    BY <1>1, <1>4, <1>5, <1>6 DEF LiveInv

(* A tick closes what is forming when it is of a later candle.             *)
LEMMA TickKeepsOrder ==
    ASSUME LiveParameters, LiveInv, begun' = begun, NEW stamp \in Nat, OnTick(stamp)
    PROVE  /\ forming' \in [Frames -> [open : Int, last : Int]]
           /\ history' \in [Frames -> Seq(Int)]
           /\ \A tf \in Frames : InOrder(history[tf], Before(tf))' /\ FormingIsLatest(tf)'
  <1> SUFFICES ASSUME NEW tf \in Frames
               PROVE  /\ forming'[tf] \in [open : Int, last : Int]
                      /\ history'[tf] \in Seq(Int)
                      /\ InOrder(history[tf], Before(tf))' /\ FormingIsLatest(tf)'
    BY DEF OnTick
  <1> DEFINE p == Before(tf)
             q == PeriodOf(tf, stamp)
             h == history[tf]
             o == forming[tf].open
             longer == Append(h, o)
  <1>0. BuilderParameters /\ begun \in Int
    BY DEF LiveParameters, LiveInv
  <1>1. p \in Int /\ q \in Int /\ p' = p
    BY <1>0, PeriodType DEF Before
  <1>2. h \in Seq(Int) /\ o \in Int /\ forming[tf] \in [open : Int, last : Int]
    BY DEF LiveInv
  <1>3. InOrder(h, p) /\ FormingIsLatest(tf)
    BY DEF LiveInv
  <1>4. forming'[tf] = IF forming[tf] = None \/ Closes(tf, stamp)
                       THEN [open |-> q, last |-> stamp]
                       ELSE [forming[tf] EXCEPT !.last = stamp]
    BY DEF OnTick
  <1>5. forming'[tf] # None /\ forming'[tf] \in [open : Int, last : Int]
    BY <1>1, <1>2, <1>4 DEF None
  <1>6. Closes(tf, stamp) => forming[tf] # None /\ o < q
    BY DEF Closes
  <1>7. forming'[tf].open = IF forming[tf] = None \/ Closes(tf, stamp) THEN q ELSE o
    BY <1>2, <1>4
  <1>8. history'[tf] = IF Closes(tf, stamp) /\ ~Stale(tf, stamp) THEN Keep(longer) ELSE h
    BY DEF OnTick
  <1> HIDE DEF p, q, h, o, longer
  <1>9. CASE Closes(tf, stamp) /\ ~Stale(tf, stamp)
    <2>1. /\ longer \in Seq(Int) /\ Len(longer) = Len(h) + 1 /\ longer[Len(longer)] = o
          /\ \A i \in 1..Len(h) : longer[i] = h[i]
      BY <1>2 DEF longer
    <2>2. \A i \in 1..Len(h) : h[i] <= p \/ h[i] < o
      BY <1>2, <1>3, <1>6 DEF FormingIsLatest, p, h, o
    <2>3. DOMAIN longer = 1..(Len(h) + 1) /\ DOMAIN h = 1..Len(h) /\ Len(h) \in Nat
      BY <1>2, <2>1
    <2>4. InOrder(longer, p)
      <3> SUFFICES ASSUME NEW i \in 1..(Len(h) + 1), NEW j \in 1..(Len(h) + 1),
                          i < j, longer[j] > p
                   PROVE  longer[i] < longer[j]
        BY <2>3 DEF InOrder
      <3>1. i \in 1..Len(h) /\ longer[i] = h[i] /\ h[i] \in Int
        BY <1>2, <2>1, <2>3
      <3>2. CASE j = Len(h) + 1
        BY <1>1, <1>2, <2>1, <2>2, <3>1, <3>2
      <3>3. CASE j # Len(h) + 1
        <4>1. j \in DOMAIN h /\ longer[j] = h[j]
          BY <2>1, <2>3, <3>3
        <4> QED
          BY <1>3, <2>3, <3>1, <4>1 DEF InOrder
      <3> QED
        BY <3>2, <3>3
    <2>5. history'[tf] = Keep(longer)
      BY <1>8, <1>9
    <2>6. history'[tf] \in Seq(Int) /\ InOrder(history[tf], Before(tf))'
      <3>1. Keep(longer) \in Seq(Int) /\ InOrder(Keep(longer), p)
        BY <1>0, <1>1, <2>1, <2>4, KeepsOrder, KeepsTheEnd
      <3> QED
        BY <1>1, <2>5, <3>1 DEF p, InOrder
    <2>7. FormingIsLatest(tf)'
      <3>1. PICK d \in Nat : /\ Len(Keep(longer)) = Len(longer) - d
                             /\ \A i \in 1..Len(Keep(longer)) : Keep(longer)[i] = longer[i + d]
        BY <1>0, <2>1, KeepsTheEnd
      <3>2. \A i \in 1..(Len(h) + 1) : longer[i] \in Int /\ (longer[i] <= p \/ longer[i] < q)
        <4>1. longer[Len(h) + 1] = o /\ o < q /\ o \in Int
          BY <1>1, <1>2, <1>6, <1>9, <2>1
        <4>2. ASSUME NEW i \in 1..Len(h)
              PROVE  longer[i] \in Int /\ (longer[i] <= p \/ longer[i] < q)
          <5>1. longer[i] = h[i] /\ h[i] \in Int /\ (h[i] <= p \/ h[i] < o)
            BY <1>2, <2>1, <2>2
          <5> QED
            BY <1>1, <4>1, <5>1
        <4>3. \A i \in 1..(Len(h) + 1) : i \in 1..Len(h) \/ i = Len(h) + 1
          BY <2>3
        <4> QED
          BY <4>1, <4>2, <4>3
      <3>3. DOMAIN history'[tf] = 1..Len(Keep(longer))
        BY <2>5, <2>6
      <3>4. \A i \in 1..Len(Keep(longer)) : i + d \in 1..(Len(h) + 1)
        BY <2>1, <2>3, <3>1
      <3>5. \A i \in DOMAIN history'[tf] : history'[tf][i] <= p \/ history'[tf][i] < q
        BY <2>5, <3>1, <3>2, <3>3, <3>4
      <3> QED
        BY <1>1, <1>5, <1>7, <1>9, <3>5 DEF FormingIsLatest, p
    <2> QED
      BY <1>5, <2>6, <2>7
  <1>10. CASE ~(Closes(tf, stamp) /\ ~Stale(tf, stamp))
    <2>1. history'[tf] = h
      BY <1>8, <1>10
    <2>2. InOrder(history[tf], Before(tf))'
      BY <1>1, <1>3, <2>1 DEF p, InOrder
    <2>3. \A i \in DOMAIN h : h[i] \in Int /\ (h[i] <= p \/ (forming[tf] # None /\ h[i] < o))
      BY <1>2, <1>3 DEF FormingIsLatest, p, h, o
    <2>4. \A i \in DOMAIN h : h[i] <= p \/ h[i] < forming'[tf].open
      BY <1>1, <1>2, <1>6, <1>7, <2>3
    <2>5. FormingIsLatest(tf)'
      BY <1>1, <1>5, <2>1, <2>4 DEF FormingIsLatest, p
    <2> QED
      BY <1>2, <1>5, <2>1, <2>2, <2>5
  <1> QED
    BY <1>9, <1>10

LEMMA LiveStep == ASSUME LiveParameters, LiveInv, [LiveNext]_liveVars PROVE LiveInv'
  <1>0. MaxTime \in Nat /\ begun \in 1..MaxTime /\ begun \in Begin /\ now \in Nat /\ now >= begun
    BY DEF LiveInv, LiveParameters
  <1>1. CASE OurTick
    <2>1. PICK stamp \in {now, now - 1} : OnTick(stamp)
      BY <1>1 DEF OurTick
    <2>2. stamp \in Nat
      BY <1>0
    <2>3. begun' = begun /\ now' = now
      BY <1>1 DEF OurTick
    <2> QED
      BY <1>0, <2>1, <2>2, <2>3, TickKeepsOrder DEF LiveInv
  <1>2. ASSUME UNCHANGED <<forming, history, begun>>, now' \in Nat, now' >= begun PROVE LiveInv'
    BY <1>2 DEF LiveInv, InOrder, FormingIsLatest, Before
  <1>3. CASE LoopGoesOn
    BY <1>0, <1>2, <1>3 DEF LoopGoesOn, builderVars
  <1>4. CASE Happens
    BY <1>0, <1>2, <1>4 DEF Happens, builderVars
  <1>5. CASE TimePasses
    <2>1. now' = Min({now + 1, MaxTime}) /\ UNCHANGED <<forming, history, begun>>
      BY <1>5 DEF TimePasses, builderVars
    <2>2. now' \in Nat /\ now' >= begun
      BY <1>0, <2>1, MinOfTwo
    <2> QED
      BY <1>2, <2>1, <2>2
  <1>6. CASE UNCHANGED liveVars
    BY <1>0, <1>2, <1>6 DEF liveVars, builderVars, timeVars
  <1> QED
    BY <1>1, <1>3, <1>4, <1>5, <1>6 DEF LiveNext

(* Whatever ticks come late and whatever outages there are, the history of *)
(* every timeframe is in order from where the process began                *)
(* (candle_builder.py, what the indicators of the strategies are made of). *)
THEOREM CandlesInOrder ==
    ASSUME LiveParameters
    PROVE  LiveSpec => []HistoryInOrder
  <1>1. LiveInit => LiveInv
    BY LiveBegins
  <1>2. LiveInv /\ [LiveNext]_liveVars => LiveInv'
    BY LiveStep
  <1>3. LiveInv => HistoryInOrder
    BY DEF LiveInv, InOrder, HistoryInOrder, Before
  <1> QED
    BY <1>1, <1>2, <1>3, PTL DEF LiveSpec

-----------------------------------------------------------------------------
ArmRecord == [variant : Variants, dir : Directions, level : Levels, at : Nat]

(* Arms within their windows, of variants that have not triggered, when    *)
(* the candles were counted as in c.                                       *)
Alive(c, fired) ==
    {a \in ArmRecord : /\ a.at \in 1..c[Timeframe[a.variant]]
                       /\ c[Timeframe[a.variant]] - a.at < Expiry[a.variant]
                       /\ a.variant \notin fired}

CountersCount == counter \in [Timeframes -> Nat] /\ triggered \in SUBSET Variants

ArmsAlive == armed \in Seq(Alive(counter, triggered)) /\ Len(armed) <= MaxArmed

(* A group has arms of its level, none from a candle that is still to come.*)
GroupsSorted ==
    /\ groups \in [GroupKeys -> SUBSET ArmRecord]
    /\ \A g \in GroupKeys : \A a \in groups[g] :
          KeyOf(a) = g /\ a.at \in 1..counter[Timeframe[a.variant]]

ArmsGrouped == \A i \in DOMAIN armed : armed[i] \in groups[KeyOf(armed[i])]

ArmsInv == CountersCount /\ ArmsAlive /\ GroupsSorted /\ ArmsGrouped

LEMMA KeysOfArms == ASSUME NEW a \in ArmRecord PROVE KeyOf(a) \in GroupKeys
  BY DEF ArmRecord, KeyOf, GroupKeys

(* What the templates ask for: arms of variants of the timeframe.          *)
Asked(tf) == [variant : {v \in Variants : Timeframe[v] = tf}, dir : Directions, level : Levels, at : {0}]

LEMMA SetupsAreArms ==
    ASSUME TriggersParameters, NEW tf, NEW v \in Variants, Timeframe[v] = tf, NEW s \in Setups(v)
    PROVE  IsFiniteSet(s) /\ s \subseteq Asked(tf)
  <1>1. CASE v \in Straddlers
    <2>1. PICK p \in Levels \X Levels : s = {Arm(v, "LONG", p[2], 0), Arm(v, "SHORT", p[1], 0)}
      BY <1>1 DEF Setups
    <2>2. Arm(v, "LONG", p[2], 0) \in Asked(tf) /\ Arm(v, "SHORT", p[1], 0) \in Asked(tf)
      BY DEF Arm, Asked, Directions
    <2>3. IsFiniteSet({Arm(v, "LONG", p[2], 0)})
      BY FS_Singleton
    <2>4. IsFiniteSet({Arm(v, "LONG", p[2], 0)} \cup {Arm(v, "SHORT", p[1], 0)})
      BY <2>3, FS_AddElement
    <2>5. s = {Arm(v, "LONG", p[2], 0)} \cup {Arm(v, "SHORT", p[1], 0)}
      BY <2>1
    <2> QED
      BY <2>1, <2>2, <2>4, <2>5
  <1>2. CASE v \notin Straddlers
    <2>1. PICK g \in GroupKeys : s = {Arm(v, g.dir, g.level, 0)}
      BY <1>2 DEF Setups
    <2>2. Arm(v, g.dir, g.level, 0) \in Asked(tf)
      BY DEF Arm, Asked, GroupKeys
    <2> QED
      BY <2>1, <2>2, FS_Singleton
  <1> QED
    BY <1>1, <1>2

LEMMA ProducedIsAsked ==
    ASSUME TriggersParameters, NEW tf \in Timeframes, NEW new \in Produced(tf)
    PROVE  new \in Seq(Asked(tf))
  <1> DEFINE mine == {v \in Variants : Timeframe[v] = tf}
             asked(S) == {f \in [S -> UNION {Setups(v) : v \in S}] : \A v \in S : f[v] \in Setups(v)}
             every(f) == UNION {f[v] : v \in DOMAIN f}
             side(f, d) == SetToSeq({a \in UNION {f[v] : v \in DOMAIN f} : a.dir = d})
  <1>1. PICK S \in SUBSET mine : \E f \in asked(S) : new = side(f, "LONG") \o side(f, "SHORT")
    <2>1. new \in {side(f, "LONG") \o side(f, "SHORT") :
                     f \in UNION {asked(S) : S \in SUBSET mine}}
      BY DEF Produced
    <2> HIDE DEF mine, asked, side
    <2> QED
      BY <2>1
  <1> PICK f \in asked(S) : new = side(f, "LONG") \o side(f, "SHORT")
    BY <1>1
  <1>2. DOMAIN f = S /\ \A v \in S : v \in Variants /\ Timeframe[v] = tf /\ f[v] \in Setups(v)
    BY <1>1
  <1>3. \A v \in S : IsFiniteSet(f[v]) /\ f[v] \subseteq Asked(tf)
    BY <1>2, SetupsAreArms
  <1>4. IsFiniteSet(every(f)) /\ every(f) \subseteq Asked(tf)
    <2>1. IsFiniteSet(S)
      BY <1>2, FS_Subset DEF TriggersParameters
    <2>2. IsFiniteSet({f[v] : v \in S})
      BY <2>1, NamesFinite
    <2>3. \A s \in {f[v] : v \in S} : IsFiniteSet(s)
      BY <1>3
    <2>4. IsFiniteSet(UNION {f[v] : v \in S})
      BY <2>2, <2>3, FS_UNION
    <2> QED
      BY <1>2, <1>3, <2>4
  <1>5. ASSUME NEW d PROVE side(f, d) \in Seq(Asked(tf))
    <2> DEFINE part == {a \in every(f) : a.dir = d}
    <2>1. IsFiniteSet(part) /\ part \subseteq Asked(tf)
      BY <1>4, FS_Subset
    <2> HIDE DEF part
    <2>2. SetToSeq(part) \in Seq(part)
      BY <2>1, SetListed
    <2>3. SetToSeq(part) \in Seq(Asked(tf))
      BY <2>1, <2>2
    <2> QED
      BY <2>3 DEF part
  <1> DEFINE longs == side(f, "LONG")
             shorts == side(f, "SHORT")
  <1>6. longs \in Seq(Asked(tf)) /\ shorts \in Seq(Asked(tf))
    BY <1>5
  <1>7. new = longs \o shorts
    OBVIOUS
  <1> HIDE DEF longs, shorts, side
  <1>8. longs \o shorts \in Seq(Asked(tf))
    BY <1>6
  <1> QED
    BY <1>7, <1>8

(* A new list of living arms, sorted into new groups.                      *)
LEMMA Regrouped ==
    ASSUME NEW c, NEW fired, NEW list \in Seq(Alive(c, fired))
    PROVE  /\ Rebuild(list) \in [GroupKeys -> SUBSET ArmRecord]
           /\ \A g \in GroupKeys : \A a \in Rebuild(list)[g] :
                 KeyOf(a) = g /\ a.at \in 1..c[Timeframe[a.variant]]
           /\ \A i \in DOMAIN list : list[i] \in Rebuild(list)[KeyOf(list[i])]
  <1>1. ToSet(list) = {list[i] : i \in DOMAIN list} /\ \A i \in DOMAIN list : list[i] \in Alive(c, fired)
    BY DEF ToSet
  <1>2. \A a \in ToSet(list) : a \in Alive(c, fired)
    BY <1>1
  <1>3. \A a \in Alive(c, fired) : a \in ArmRecord /\ a.at \in 1..c[Timeframe[a.variant]]
    BY DEF Alive
  <1>4. \A i \in DOMAIN list : KeyOf(list[i]) \in GroupKeys
    BY <1>1, <1>3, KeysOfArms
  <1> QED
    BY <1>1, <1>2, <1>3, <1>4 DEF Rebuild

LEMMA TickKeeps ==
    ASSUME TriggersParameters, ArmsInv, NEW price, Tick(price)
    PROVE  ArmsInv'
  <1> DEFINE crossed == Crossed(price)
             fired == {a.variant : a \in UNION {groups[g] : g \in crossed}}
             C == Alive(counter, triggered)
             wanted == {a \in ToSet(armed) : a.variant \notin fired}
  <1>1. /\ groups' = [g \in GroupKeys |-> IF g \in crossed THEN {} ELSE groups[g]]
        /\ armed' = Among(armed, wanted)
        /\ triggered' = triggered \cup fired /\ counter' = counter
    BY DEF Tick, DisarmTriggered
  <1>2. crossed \subseteq GroupKeys /\ fired \subseteq Variants
    BY DEF Crossed, ArmsInv, GroupsSorted, ArmRecord
  <1>3. armed' \in Seq(C \cap wanted) /\ Len(armed') <= MaxArmed
    <2>1. armed \in Seq(C)
      BY DEF ArmsInv, ArmsAlive
    <2> HIDE DEF C, wanted
    <2>2. Among(armed, wanted) \in Seq(C \cap wanted) /\ Len(Among(armed, wanted)) <= Len(armed)
      BY <2>1, AmongKept
    <2>3. Len(Among(armed, wanted)) \in Nat /\ Len(armed) \in Nat /\ MaxArmed \in Nat
      BY <2>1, <2>2 DEF TriggersParameters
    <2> QED
      BY <1>1, <2>2, <2>3 DEF ArmsInv, ArmsAlive
  <1>4. C \cap wanted \subseteq Alive(counter', triggered')
    BY <1>1 DEF Alive
  <1> HIDE DEF C, wanted, fired
  <1>5. ArmsAlive'
    BY <1>3, <1>4 DEF ArmsAlive
  <1>6. GroupsSorted'
    BY <1>1, <1>2 DEF ArmsInv, GroupsSorted
  <1>7. ArmsGrouped'
    <2> SUFFICES ASSUME NEW i \in DOMAIN armed' PROVE armed'[i] \in groups'[KeyOf(armed'[i])]
      BY DEF ArmsGrouped
    <2> DEFINE a == armed'[i]
    <2>1. a \in C /\ a \in wanted
      BY <1>3
    <2>2. a \in ToSet(armed) /\ a.variant \notin fired /\ KeyOf(a) \in GroupKeys
      BY <2>1, KeysOfArms DEF wanted, C, Alive
    <2>3. a \in groups[KeyOf(a)]
      BY <2>2 DEF ArmsInv, ArmsGrouped, ToSet
    <2>4. KeyOf(a) \notin crossed
      BY <2>2, <2>3 DEF fired
    <2> QED
      BY <1>1, <2>2, <2>3, <2>4
  <1>8. CountersCount'
    BY <1>1, <1>2 DEF ArmsInv, CountersCount
  <1> QED
    BY <1>5, <1>6, <1>7, <1>8 DEF ArmsInv

LEMMA CandleKeeps ==
    ASSUME TriggersParameters, ArmsInv, NEW tf \in Timeframes, NEW new \in Produced(tf), Candle(tf, new)
    PROVE  ArmsInv' /\ counter' = [counter EXCEPT ![tf] = @ + 1]
  <1> DEFINE count == counter[tf] + 1
             stamped == [i \in DOMAIN new |-> [new[i] EXCEPT !.at = count]]
             C == Alive(counter, triggered)
             within == {a \in ToSet(armed) : Timeframe[a.variant] = tf => count - a.at < Expiry[a.variant]}
             kept == Among(armed, within)
             wanted == {a \in ToSet(stamped) : a.variant \notin triggered}
             list == FillUp(kept, stamped, wanted, MaxArmed)
             Stamped == {a \in ArmRecord : Timeframe[a.variant] = tf /\ a.at = count}
  <1>1. /\ counter' = [counter EXCEPT ![tf] = count] /\ armed' = list
        /\ groups' = Rebuild(list) /\ triggered' = triggered
    BY DEF Candle, AddArms, CleanupExpired
  <1>2. counter[tf] \in Nat /\ count \in Nat /\ counter'[tf] = count /\ counter' \in [Timeframes -> Nat]
    BY <1>1 DEF ArmsInv, CountersCount
  <1>3. stamped \in Seq(Stamped)
    <2>1. new \in Seq(Asked(tf))
      BY ProducedIsAsked
    <2>2. \A i \in DOMAIN new : new[i] \in Asked(tf)
      BY <2>1
    <2>3. ASSUME NEW x \in Asked(tf) PROVE [x EXCEPT !.at = count] \in Stamped
      BY <1>2 DEF Asked, ArmRecord
    <2>4. \A i \in DOMAIN new : stamped[i] \in Stamped
      BY <2>2, <2>3
    <2>5. Len(new) \in Nat /\ DOMAIN new = 1..Len(new)
      BY <2>1
    <2>6. stamped \in [1..Len(new) -> Stamped]
      BY <2>4, <2>5
    <2> HIDE DEF stamped, Stamped
    <2> QED
      BY <2>5, <2>6
  <1>4. kept \in Seq(C \cap within) /\ Len(kept) <= MaxArmed
    <2>1. armed \in Seq(C)
      BY DEF ArmsInv, ArmsAlive
    <2> HIDE DEF C, within
    <2>2. kept \in Seq(C \cap within) /\ Len(kept) <= Len(armed)
      BY <2>1, AmongKept
    <2>3. Len(kept) \in Nat /\ Len(armed) \in Nat /\ MaxArmed \in Nat
      BY <2>1, <2>2 DEF TriggersParameters
    <2> QED
      BY <2>2, <2>3 DEF ArmsInv, ArmsAlive
  <1>5. list \in Seq((C \cap within) \cup (Stamped \cap wanted)) /\ Len(list) <= MaxArmed
    <2> HIDE DEF C, within, Stamped, wanted, stamped, kept
    <2>1. MaxArmed \in Nat
      BY DEF TriggersParameters
    <2> QED
      BY <1>3, <1>4, <2>1, FillUpKept
  <1>6. (C \cap within) \cup (Stamped \cap wanted) \subseteq Alive(counter', triggered')
    <2>1. ASSUME NEW a \in C \cap within PROVE a \in Alive(counter', triggered')
      <3>1. a \in ArmRecord /\ a.variant \in Variants /\ Timeframe[a.variant] \in Timeframes
        BY DEF C, Alive, ArmRecord, Timeframes
      <3>2. /\ a.at \in 1..counter[Timeframe[a.variant]] /\ a.variant \notin triggered
            /\ counter[Timeframe[a.variant]] - a.at < Expiry[a.variant]
        BY DEF C, Alive
      <3>3. CASE Timeframe[a.variant] = tf
        BY <1>1, <1>2, <3>1, <3>2, <3>3 DEF Alive
      <3>4. CASE Timeframe[a.variant] # tf
        BY <1>1, <1>2, <3>1, <3>2, <3>4 DEF Alive, ArmsInv, CountersCount
      <3> QED
        BY <3>3, <3>4
    <2>2. ASSUME NEW a \in Stamped \cap wanted PROVE a \in Alive(counter', triggered')
      <3>1. a \in ArmRecord /\ a.variant \in Variants /\ Timeframe[a.variant] = tf /\ a.at = count
        BY DEF ArmRecord
      <3>2. Expiry[a.variant] \in Nat \ {0}
        BY <3>1 DEF TriggersParameters
      <3>3. a.at \in 1..counter'[tf] /\ counter'[tf] - a.at < Expiry[a.variant]
        BY <1>2, <3>1, <3>2
      <3> QED
        BY <1>1, <3>1, <3>3 DEF Alive
    <2> QED
      BY <2>1, <2>2
  <1> HIDE DEF C, within, Stamped, wanted, list, count
  <1>7. list \in Seq(Alive(counter', triggered'))
    BY <1>5, <1>6
  <1>8. ArmsAlive'
    BY <1>1, <1>5, <1>7 DEF ArmsAlive
  <1>9. GroupsSorted' /\ ArmsGrouped'
    <2>1. /\ Rebuild(list) \in [GroupKeys -> SUBSET ArmRecord]
          /\ \A g \in GroupKeys : \A a \in Rebuild(list)[g] :
                KeyOf(a) = g /\ a.at \in 1..counter'[Timeframe[a.variant]]
          /\ \A i \in DOMAIN list : list[i] \in Rebuild(list)[KeyOf(list[i])]
      BY <1>7, Regrouped
    <2>2. groups' = Rebuild(list) /\ armed' = list
      BY <1>1
    <2> QED
      BY <2>1, <2>2 DEF GroupsSorted, ArmsGrouped
  <1>10. CountersCount'
    BY <1>1, <1>2 DEF ArmsInv, CountersCount
  <1> QED
    BY <1>1, <1>8, <1>9, <1>10 DEF ArmsInv, count

LEMMA FreshArms ==
    ASSUME TriggersParameters, NEW c, c = [tf \in Timeframes |-> 0]
    PROVE  /\ c \in [Timeframes -> Nat] /\ <<>> \in Seq(Alive(c, {})) /\ Len(<<>>) <= MaxArmed
           /\ NoGroups \in [GroupKeys -> SUBSET ArmRecord]
           /\ \A g \in GroupKeys : NoGroups[g] = {}
  BY DEF NoGroups, TriggersParameters

LEMMA ArmsBegin == ASSUME TriggersParameters, Init PROVE ArmsInv
  BY FreshArms DEF Init, ArmsInv, CountersCount, ArmsAlive, GroupsSorted, ArmsGrouped

LEMMA NewDayKeeps == ASSUME TriggersParameters, NewDay PROVE ArmsInv'
  BY FreshArms DEF NewDay, ArmsInv, CountersCount, ArmsAlive, GroupsSorted, ArmsGrouped

LEMMA ArmsStep == ASSUME TriggersParameters, ArmsInv, [Next]_vars PROVE ArmsInv'
  <1>1. CASE \E price \in Levels : Tick(price)
    BY <1>1, TickKeeps
  <1>2. CASE \E tf \in Timeframes : \E new \in Produced(tf) : Candle(tf, new)
    BY <1>2, CandleKeeps
  <1>3. CASE NewDay
    BY <1>3, NewDayKeeps
  <1>4. CASE UNCHANGED vars
    BY <1>4 DEF vars, ArmsInv, CountersCount, ArmsAlive, GroupsSorted, ArmsGrouped
  <1> QED
    BY <1>1, <1>2, <1>3, <1>4 DEF Next

LEMMA ArmsMean == ASSUME TriggersParameters, ArmsInv PROVE ArmedIsWatched /\ WindowsRespected
  <1>1. armed \in Seq(Alive(counter, triggered))
    BY DEF ArmsInv, ArmsAlive
  <1>2. ASSUME NEW i \in DOMAIN armed
        PROVE  /\ armed[i] \in ArmRecord /\ armed[i].at \in 1..counter[Timeframe[armed[i].variant]]
               /\ counter[Timeframe[armed[i].variant]] - armed[i].at < Expiry[armed[i].variant]
               /\ armed[i].variant \in Variants /\ armed[i].variant \notin triggered
               /\ KeyOf(armed[i]) \in GroupKeys
    <2>1. armed[i] \in Alive(counter, triggered)
      BY <1>1
    <2>2. armed[i] \in ArmRecord
      BY <2>1 DEF Alive
    <2> QED
      BY <2>1, <2>2, KeysOfArms DEF Alive, ArmRecord
  <1>3. TypeOK
    BY <1>2 DEF TypeOK, ArmsInv, ArmsAlive, GroupsSorted, CountersCount
  <1>4. ArmedIsWatched
    BY <1>2, <1>3 DEF ArmedIsWatched, ArmsInv, ArmsGrouped
  <1>5. WindowsRespected
    BY <1>2 DEF WindowsRespected
  <1> QED
    BY <1>4, <1>5

-----------------------------------------------------------------------------
(* The replay: how many candles of each timeframe the bars so far allow,   *)
(* and how many bars the index lags behind.                                *)
Lagging == index \in Nat /\ bar <= index + Skipped(Base)

WithinBars(tf) == (counter[tf] + Skipped(tf)) * Bars[tf] <= bar

ReplayInv ==
    /\ ArmsInv
    /\ warm \in Nat /\ bar \in Nat /\ due \in SUBSET (Timeframes \ {Base})
    /\ Lagging /\ counter[Base] <= bar
    /\ \A tf \in Timeframes \ {Base} : counter[tf] > 0 => WithinBars(tf)
    /\ \A tf \in due : Complete(tf, bar) => (counter[tf] + 1 + Skipped(tf)) * Bars[tf] <= bar
    /\ ticks \in Seq([bar : Nat, price : Levels])
    /\ \A i \in DOMAIN ticks : ticks[i].bar = index + 1

LEMMA NextMultiple ==
    ASSUME NEW b \in Nat \ {0}, NEW c \in Nat, NEW n \in Nat, c * b < n, n % b = 0
    PROVE  (c + 1) * b <= n
  <1> DEFINE q == n \div b
  <1>1. q \in Nat /\ n = q * b
    OBVIOUS
  <1> HIDE DEF q
  <1>2. c < q
    <2> SUFFICES ASSUME q <= c PROVE FALSE
      BY <1>1
    <2> DEFINE d == c - q
    <2>1. d \in Nat /\ c = q + d
      BY <1>1
    <2> HIDE DEF d
    <2>2. c * b = q * b + d * b /\ d * b \in Nat
      BY <1>1, <2>1
    <2> QED
      BY <1>1, <2>2
  <1> DEFINE d == q - (c + 1)
  <1>3. d \in Nat /\ q = (c + 1) + d
    BY <1>1, <1>2
  <1> HIDE DEF d
  <1>4. q * b = (c + 1) * b + d * b /\ d * b \in Nat /\ (c + 1) * b \in Nat
    BY <1>3
  <1> QED
    BY <1>1, <1>4

(* The made-up ticks of the next candle.                                   *)
LEMMA TicksOfNext ==
    ASSUME NEW n \in Nat, NEW t \in SyntheticTicks(n)
    PROVE  t \in Seq([bar : Nat, price : Levels]) /\ \A i \in DOMAIN t : t[i].bar = n + 1
  <1>1. CASE n < MaxBars
    <2>1. PICK o \in Levels, l \in Levels, h \in Levels, c \in Levels : t = TicksOf(n + 1, o, h, l, c)
      BY <1>1 DEF SyntheticTicks, MadeOf
    <2> DEFINE prices == IF c >= o THEN <<o, h, l, c>> ELSE <<o, l, h, c>>
    <2>2. t = [i \in 1..4 |-> [bar |-> n + 1, price |-> prices[i]]]
      BY <2>1 DEF TicksOf
    <2>3. \A i \in 1..4 : prices[i] \in Levels
      OBVIOUS
    <2> HIDE DEF prices
    <2> QED
      BY <2>2, <2>3
  <1>2. CASE ~(n < MaxBars)
    BY <1>2 DEF SyntheticTicks
  <1> QED
    BY <1>1, <1>2

LEMMA SkippedSome ==
    ASSUME ReplayParameters, warm \in Nat, NEW tf \in Timeframes
    PROVE  /\ Skipped(tf) \in Nat /\ Bars[tf] \in Nat \ {0}
           /\ warm \div Bars[tf] \in Nat /\ MinCandles \in Nat \ {0}
           /\ Skipped(tf) = IF warm \div Bars[tf] < MinCandles - 1
                            THEN MinCandles - 1 - (warm \div Bars[tf]) ELSE 0
  <1>1. Bars[tf] \in Nat \ {0} /\ MinCandles \in Nat \ {0}
    BY DEF ReplayParameters
  <1>2. warm \div Bars[tf] \in Nat
    BY <1>1
  <1> QED
    BY <1>1, <1>2 DEF Skipped

(* The next longer candle: it ends with a bar, and there are enough of its *)
(* kind before.                                                            *)
LEMMA CountReached ==
    ASSUME NEW bars \in Nat, NEW b \in Nat \ {0}, NEW c \in Nat, NEW w \in Nat,
           NEW m \in Nat \ {0}, NEW k \in Nat,
           k = IF w < m - 1 THEN m - 1 - w ELSE 0,
           (bars + 1) % b = 0, w + ((bars + 1) \div b) >= m,
           c > 0 => (c + k) * b <= bars
    PROVE  (c + 1 + k) * b <= bars + 1
  <1> DEFINE n == bars + 1
             q == n \div b
  <1>1. q \in Nat /\ n \in Nat /\ n = q * b /\ n > 0 /\ n % b = 0
    OBVIOUS
  <1>2. w + q >= m
    OBVIOUS
  <1>3. CASE c > 0
    <2> DEFINE e == c + k
    <2>1. e \in Nat /\ e * b <= bars /\ e * b \in Nat
      BY <1>3
    <2>2. e * b < n
      BY <2>1
    <2>3. c + 1 + k = e + 1
      OBVIOUS
    <2> HIDE DEF e, n
    <2>4. (e + 1) * b <= n
      BY <1>1, <2>1, <2>2, NextMultiple
    <2> QED
      BY <2>3, <2>4 DEF n
  <1>4. CASE c = 0
    <2> HIDE DEF q, n
    <2>1. q # 0
      BY <1>1
    <2>2. k + 1 <= q
      BY <1>1, <1>2, <2>1
    <2> DEFINE d == q - (k + 1)
               e == k + 1
    <2>3. d \in Nat /\ q = e + d /\ e \in Nat /\ c + 1 + k = e
      BY <1>1, <1>4, <2>2
    <2> HIDE DEF d, e
    <2>4. q * b = e * b + d * b /\ d * b \in Nat /\ e * b \in Nat
      BY <2>3
    <2>5. e * b <= n
      BY <1>1, <2>4
    <2> QED
      BY <2>3, <2>5 DEF n
  <1> QED
    BY <1>3, <1>4

(* A longer candle that ends with the next bar and has indicators can be   *)
(* counted.                                                                *)
LEMMA NextIsDue ==
    ASSUME ReplayParameters, ReplayInv, NEW tf \in Ending(bar + 1), Complete(tf, bar + 1)
    PROVE  (counter[tf] + 1 + Skipped(tf)) * Bars[tf] <= bar + 1
  <1>1. tf \in Timeframes /\ tf # Base /\ (bar + 1) % Bars[tf] = 0 /\ bar \in Nat
    BY DEF Ending, ReplayInv
  <1>2. counter[tf] \in Nat /\ warm \in Nat
    BY <1>1 DEF ReplayInv, ArmsInv, CountersCount
  <1>3. counter[tf] > 0 => (counter[tf] + Skipped(tf)) * Bars[tf] <= bar
    BY <1>1 DEF ReplayInv, WithinBars
  <1>4. /\ Skipped(tf) \in Nat /\ Bars[tf] \in Nat \ {0}
        /\ warm \div Bars[tf] \in Nat /\ MinCandles \in Nat \ {0}
        /\ Skipped(tf) = IF warm \div Bars[tf] < MinCandles - 1
                         THEN MinCandles - 1 - (warm \div Bars[tf]) ELSE 0
    BY <1>1, <1>2, SkippedSome
  <1>5. (warm \div Bars[tf]) + ((bar + 1) \div Bars[tf]) >= MinCandles
    BY DEF Complete
  <1> QED
    BY <1>1, <1>2, <1>3, <1>4, <1>5, CountReached

LEMMA ReplayBegins == ASSUME ReplayParameters, ReplayInit PROVE ReplayInv
  <1>1. TriggersParameters /\ Init /\ bar = 0 /\ index = 0 /\ due = {} /\ ticks = <<>> /\ warm \in Nat
    BY DEF ReplayParameters, ReplayInit
  <1>2. ArmsInv
    BY <1>1, ArmsBegin
  <1>3. \A tf \in Timeframes : counter[tf] = 0
    BY <1>1 DEF Init
  <1>4. Base \in Timeframes /\ Skipped(Base) \in Nat
    BY <1>1, SkippedSome DEF ReplayParameters
  <1> QED
    BY <1>1, <1>2, <1>3, <1>4 DEF ReplayInv, Lagging

(* What a stored candle of the day does to the counts of the longer ones,  *)
(* with indicators or without.                                             *)
LEMMA BarCounts ==
    ASSUME ReplayParameters, ReplayInv, bar' = bar + 1, warm' = warm, due' = Ending(bar + 1),
           counter' = [counter EXCEPT ![Base] = @ + 1]
    PROVE  /\ bar' \in Nat /\ due' \in SUBSET (Timeframes \ {Base}) /\ counter'[Base] <= bar'
           /\ \A tf \in Timeframes \ {Base} : counter'[tf] > 0 => WithinBars(tf)'
           /\ \A tf \in due' : Complete(tf, bar)' => (counter'[tf] + 1 + Skipped(tf)') * Bars[tf] <= bar'
  <1>1. /\ bar \in Nat /\ counter \in [Timeframes -> Nat] /\ Base \in Timeframes
        /\ counter[Base] <= bar /\ warm \in Nat
    BY DEF ReplayInv, ArmsInv, CountersCount, ReplayParameters
  <1>2. \A tf \in Timeframes \ {Base} : counter'[tf] = counter[tf]
    BY <1>1
  <1>3. \A tf : Skipped(tf)' = Skipped(tf)
    BY DEF Skipped
  <1>4. ASSUME NEW tf \in Timeframes \ {Base}, counter'[tf] > 0 PROVE WithinBars(tf)'
    <2>1. WithinBars(tf) /\ counter'[tf] = counter[tf] /\ Skipped(tf)' = Skipped(tf)
      BY <1>2, <1>3, <1>4 DEF ReplayInv
    <2>2. Skipped(tf) \in Nat /\ Bars[tf] \in Nat /\ counter[tf] \in Nat
      BY <1>1, SkippedSome
    <2>3. (counter[tf] + Skipped(tf)) * Bars[tf] \in Nat
      BY <2>2
    <2> QED
      BY <1>1, <2>1, <2>3 DEF WithinBars
  <1>5. ASSUME NEW tf \in due', Complete(tf, bar)'
        PROVE  (counter'[tf] + 1 + Skipped(tf)') * Bars[tf] <= bar'
    <2>1. Complete(tf, bar + 1)
      BY <1>5 DEF Complete
    <2>2. tf \in Ending(bar + 1) /\ tf \in Timeframes \ {Base}
      BY DEF Ending
    <2>3. (counter[tf] + 1 + Skipped(tf)) * Bars[tf] <= bar + 1
      BY <2>1, <2>2, NextIsDue
    <2> QED
      BY <1>2, <1>3, <2>2, <2>3
  <1>6. bar' \in Nat /\ counter'[Base] <= bar'
    BY <1>1
  <1> QED
    BY <1>4, <1>5, <1>6 DEF Ending

LEMMA BaseCandleKeeps ==
    ASSUME ReplayParameters, ReplayInv, NEW new \in Produced(Base), BaseCandle(new)
    PROVE  ReplayInv'
  <1>1. /\ bar' = bar + 1 /\ index' = index + 1 /\ Candle(Base, new) /\ warm' = warm
        /\ ticks' \in SyntheticTicks(index + 1) /\ due' = Ending(bar + 1)
    BY DEF BaseCandle
  <1>2. TriggersParameters /\ Base \in Timeframes
    BY DEF ReplayParameters
  <1>3. ArmsInv' /\ counter' = [counter EXCEPT ![Base] = @ + 1]
    BY <1>1, <1>2, CandleKeeps DEF ReplayInv
  <1>4. Lagging'
    <2>1. warm \in Nat /\ Skipped(Base)' = Skipped(Base)
      BY <1>1 DEF ReplayInv, Skipped
    <2>2. Skipped(Base) \in Nat
      BY <1>2, <2>1, SkippedSome
    <2> QED
      BY <1>1, <2>1, <2>2 DEF ReplayInv, Lagging
  <1>5. ticks' \in Seq([bar : Nat, price : Levels]) /\ \A i \in DOMAIN ticks' : ticks'[i].bar = index' + 1
    <2>1. index + 1 \in Nat
      BY DEF ReplayInv, Lagging
    <2> QED
      BY <1>1, <2>1, TicksOfNext
  <1>6. warm' \in Nat
    BY <1>1 DEF ReplayInv
  <1> QED
    BY <1>1, <1>3, <1>4, <1>5, <1>6, BarCounts DEF ReplayInv

(* Nothing is watched longer for want of indicators.                       *)
LEMMA CleanedUp ==
    ASSUME TriggersParameters, ArmsInv, NEW tf \in Timeframes,
           counter' = [counter EXCEPT ![tf] = @ + 1],
           armed' = CleanupExpired(armed, tf, counter[tf] + 1),
           UNCHANGED <<triggered, groups>>
    PROVE  ArmsInv'
  <1> DEFINE count == counter[tf] + 1
             C == Alive(counter, triggered)
             within == {a \in ToSet(armed) : Timeframe[a.variant] = tf => count - a.at < Expiry[a.variant]}
  <1>0. armed' = Among(armed, within)
    <2>1. armed' = CleanupExpired(armed, tf, count)
      OBVIOUS
    <2> HIDE DEF count
    <2> QED
      BY <2>1 DEF CleanupExpired
  <1>1. /\ armed' = Among(armed, within) /\ counter[tf] \in Nat
        /\ counter' \in [Timeframes -> Nat] /\ counter'[tf] = counter[tf] + 1
        /\ \A other \in Timeframes \ {tf} : counter'[other] = counter[other]
    <2>1. counter \in [Timeframes -> Nat]
      BY DEF ArmsInv, CountersCount
    <2>2. armed' = Among(armed, within)
      BY <1>0
    <2> HIDE DEF within
    <2> QED
      BY <2>1, <2>2
  <1>2. armed' \in Seq(C \cap within) /\ Len(armed') <= MaxArmed
    <2>1. armed \in Seq(C)
      BY DEF ArmsInv, ArmsAlive
    <2> HIDE DEF C, within
    <2>2. Among(armed, within) \in Seq(C \cap within) /\ Len(Among(armed, within)) <= Len(armed)
      BY <2>1, AmongKept
    <2>3. Len(Among(armed, within)) \in Nat /\ Len(armed) \in Nat /\ MaxArmed \in Nat
      BY <2>1, <2>2 DEF TriggersParameters
    <2> QED
      BY <1>1, <2>2, <2>3 DEF ArmsInv, ArmsAlive
  <1>3. ASSUME NEW a \in C \cap within PROVE a \in Alive(counter', triggered')
    <2>1. a \in ArmRecord /\ a.variant \in Variants /\ Timeframe[a.variant] \in Timeframes
      BY DEF Alive, ArmRecord, Timeframes
    <2>2. /\ a.at \in 1..counter[Timeframe[a.variant]] /\ a.variant \notin triggered
          /\ counter[Timeframe[a.variant]] - a.at < Expiry[a.variant]
      BY DEF Alive
    <2>3. CASE Timeframe[a.variant] = tf
      BY <1>1, <2>1, <2>2, <2>3 DEF Alive
    <2>4. CASE Timeframe[a.variant] # tf
      BY <1>1, <2>1, <2>2, <2>4 DEF Alive
    <2> QED
      BY <2>3, <2>4
  <1>4. ASSUME NEW i \in DOMAIN armed' PROVE armed'[i] \in groups'[KeyOf(armed'[i])]
    <2>1. armed'[i] \in within
      <3> HIDE DEF C, within
      <3> QED
        BY <1>2
    <2>2. armed'[i] \in ToSet(armed)
      BY <2>1
    <2> QED
      BY <2>2 DEF ArmsInv, ArmsGrouped, ToSet
  <1> HIDE DEF C, within
  <1>7. armed' \in Seq(Alive(counter', triggered'))
    <2> DEFINE S == C \cap within
               D == Alive(counter', triggered')
    <2>1. S \subseteq D /\ armed' \in Seq(S)
      BY <1>2, <1>3
    <2> HIDE DEF S, D
    <2>2. armed' \in Seq(D)
      BY <2>1
    <2> QED
      BY <2>2 DEF D
  <1>5. ArmsAlive'
    BY <1>2, <1>7 DEF ArmsAlive
  <1>6. GroupsSorted'
    <2> SUFFICES ASSUME NEW g \in GroupKeys, NEW a \in groups[g]
                 PROVE  KeyOf(a) = g /\ a.at \in 1..counter'[Timeframe[a.variant]]
      BY DEF ArmsInv, GroupsSorted
    <2>1. /\ a \in ArmRecord /\ Timeframe[a.variant] \in Timeframes /\ KeyOf(a) = g
          /\ a.at \in 1..counter[Timeframe[a.variant]]
      BY DEF ArmsInv, GroupsSorted, ArmRecord, Timeframes
    <2>2. counter[Timeframe[a.variant]] <= counter'[Timeframe[a.variant]] /\ counter \in [Timeframes -> Nat]
      BY <1>1, <2>1 DEF ArmsInv, CountersCount
    <2> QED
      BY <1>1, <2>1, <2>2
  <1> QED
    BY <1>1, <1>4, <1>5, <1>6 DEF ArmsInv, CountersCount, ArmsGrouped

LEMMA EarlyCandleKeeps == ASSUME ReplayParameters, ReplayInv, EarlyCandle PROVE ReplayInv'
  <1>1. /\ bar' = bar + 1 /\ ~Complete(Base, bar + 1) /\ ticks = <<>>
        /\ counter' = [counter EXCEPT ![Base] = @ + 1]
        /\ armed' = CleanupExpired(armed, Base, counter[Base] + 1)
        /\ due' = Ending(bar + 1) /\ UNCHANGED <<triggered, groups>>
        /\ warm' = warm /\ index' = index /\ ticks' = ticks
    BY DEF EarlyCandle
  <1>2. TriggersParameters /\ Base \in Timeframes /\ Bars[Base] = 1
    BY DEF ReplayParameters
  <1>3. ArmsInv'
    BY <1>1, <1>2, CleanedUp DEF ReplayInv
  <1>4. Lagging'
    <2>1. warm \in Nat /\ bar \in Nat /\ index \in Nat /\ Skipped(Base)' = Skipped(Base)
      BY <1>1 DEF ReplayInv, Lagging, Skipped
    <2>2. MinCandles \in Nat \ {0} /\ Skipped(Base) = IF warm < MinCandles - 1 THEN MinCandles - 1 - warm ELSE 0
      <3>1. warm \div 1 = warm
        BY <2>1
      <3> QED
        BY <1>2, <2>1, <3>1, SkippedSome
    <2>3. warm + (bar + 1) < MinCandles
      BY <1>1, <1>2, <2>1, <2>2 DEF Complete
    <2>4. bar + 1 <= Skipped(Base)
      BY <2>1, <2>2, <2>3
    <2> QED
      BY <1>1, <2>1, <2>2, <2>4 DEF Lagging
  <1>5. warm' \in Nat /\ ticks' = <<>>
    BY <1>1 DEF ReplayInv
  <1> QED
    BY <1>1, <1>3, <1>4, <1>5, BarCounts DEF ReplayInv

LEMMA SyntheticTickKeeps ==
    ASSUME ReplayParameters, ReplayInv, SyntheticTick
    PROVE  ReplayInv'
  <1>1. /\ ticks # <<>> /\ ticks' = Tail(ticks) /\ UNCHANGED <<warm, bar, index, due>>
        /\ Tick(Head(ticks).price) \/ UNCHANGED vars
    BY DEF SyntheticTick
  <1>2. ArmsInv' /\ counter' = counter
    <2>1. CASE Tick(Head(ticks).price)
      BY <2>1, TickKeeps DEF Tick, ReplayInv, ReplayParameters
    <2>2. CASE UNCHANGED vars
      BY <2>2 DEF vars, ReplayInv, ArmsInv, CountersCount, ArmsAlive, GroupsSorted, ArmsGrouped
    <2> QED
      BY <1>1, <2>1, <2>2
  <1>3. ticks' \in Seq([bar : Nat, price : Levels])
    BY <1>1 DEF ReplayInv
  <1>4. ASSUME NEW i \in DOMAIN ticks' PROVE ticks'[i].bar = index + 1
    <2>1. ticks'[i] = ticks[i + 1] /\ i + 1 \in DOMAIN ticks
      BY <1>1 DEF ReplayInv
    <2> QED
      BY <2>1 DEF ReplayInv
  <1> QED
    BY <1>1, <1>2, <1>3, <1>4 DEF ReplayInv, Lagging, WithinBars, Skipped, Complete

LEMMA LongerCandleKeeps ==
    ASSUME ReplayParameters, ReplayInv, NEW tf \in due, NEW new \in Produced(tf), LongerCandle(tf, new)
    PROVE  ReplayInv'
  <1>1. /\ due' = due \ {tf} /\ Candle(tf, new) /\ UNCHANGED <<warm, bar, index, ticks>>
        /\ Complete(tf, bar) /\ tf \in Timeframes \ {Base}
    BY DEF LongerCandle, ReplayInv
  <1>2. TriggersParameters
    BY DEF ReplayParameters
  <1>3. ArmsInv' /\ counter' = [counter EXCEPT ![tf] = @ + 1]
    BY <1>1, <1>2, CandleKeeps DEF ReplayInv
  <1>4. counter \in [Timeframes -> Nat] /\ Base \in Timeframes
    BY DEF ReplayInv, ArmsInv, CountersCount, ReplayParameters
  <1>5. \A other : Skipped(other)' = Skipped(other) /\ (Complete(other, bar)' <=> Complete(other, bar))
    BY <1>1 DEF Skipped, Complete
  <1>6. counter'[tf] = counter[tf] + 1 /\ \A other \in Timeframes \ {tf} : counter'[other] = counter[other]
    BY <1>1, <1>3, <1>4
  <1>7. ASSUME NEW other \in Timeframes \ {Base}, counter'[other] > 0 PROVE WithinBars(other)'
    <2>1. CASE other = tf
      <3>1. (counter[tf] + 1 + Skipped(tf)) * Bars[tf] <= bar
        BY <1>1 DEF ReplayInv
      <3> QED
        BY <1>1, <1>5, <1>6, <2>1, <3>1 DEF WithinBars
    <2>2. CASE other # tf
      <3>1. WithinBars(other)
        BY <1>6, <1>7, <2>2 DEF ReplayInv
      <3> QED
        BY <1>1, <1>5, <1>6, <2>2, <3>1 DEF WithinBars
    <2> QED
      BY <2>1, <2>2
  <1>8. ASSUME NEW other \in due', Complete(other, bar)'
        PROVE  (counter'[other] + 1 + Skipped(other)') * Bars[other] <= bar'
    <2>1. other \in due /\ other # tf /\ Complete(other, bar) /\ other \in Timeframes
      BY <1>1, <1>5, <1>8 DEF ReplayInv
    <2>2. (counter[other] + 1 + Skipped(other)) * Bars[other] <= bar
      BY <2>1 DEF ReplayInv
    <2> QED
      BY <1>1, <1>5, <1>6, <2>1, <2>2
  <1>9. Lagging'
    BY <1>1, <1>5 DEF ReplayInv, Lagging
  <1> QED
    BY <1>1, <1>3, <1>4, <1>6, <1>7, <1>8, <1>9 DEF ReplayInv

LEMMA PassOverKeeps ==
    ASSUME ReplayParameters, ReplayInv, NEW tf \in due, PassOver(tf)
    PROVE  ReplayInv'
  <1>1. due' = due \ {tf} /\ UNCHANGED vars /\ UNCHANGED <<warm, bar, index, ticks>>
    BY DEF PassOver
  <1>2. ArmsInv' /\ counter' = counter
    BY <1>1 DEF vars, ReplayInv, ArmsInv, CountersCount, ArmsAlive, GroupsSorted, ArmsGrouped
  <1> QED
    BY <1>1, <1>2 DEF ReplayInv, Lagging, WithinBars, Skipped, Complete

LEMMA NextDayKeeps == ASSUME ReplayParameters, ReplayInv, NextDay PROVE ReplayInv'
  <1>1. TriggersParameters /\ NewDay /\ bar' = 0 /\ index' = 0 /\ due' = {} /\ ticks' = <<>> /\ warm' \in Nat
    BY DEF ReplayParameters, NextDay
  <1>2. ArmsInv'
    BY <1>1, NewDayKeeps
  <1>3. \A tf \in Timeframes : counter'[tf] = 0
    BY <1>1 DEF NewDay
  <1>4. Base \in Timeframes /\ Skipped(Base)' \in Nat
    <2>1. Base \in Timeframes /\ Bars[Base] \in Nat \ {0} /\ MinCandles \in Nat \ {0}
      BY DEF ReplayParameters
    <2>2. warm' \div Bars[Base] \in Nat
      BY <1>1, <2>1
    <2> QED
      BY <2>1, <2>2 DEF Skipped
  <1> QED
    BY <1>1, <1>2, <1>3, <1>4 DEF ReplayInv, Lagging

LEMMA ReplaySteps == ASSUME ReplayParameters, ReplayInv, [ReplayNext]_replayVars PROVE ReplayInv'
  <1>1. CASE \E new \in Produced(Base) : BaseCandle(new)
    BY <1>1, BaseCandleKeeps
  <1>2. CASE SyntheticTick
    BY <1>2, SyntheticTickKeeps
  <1>3. CASE \E tf \in due : \E new \in Produced(tf) : LongerCandle(tf, new)
    BY <1>3, LongerCandleKeeps
  <1>4. CASE NextDay
    BY <1>4, NextDayKeeps
  <1>5. CASE EarlyCandle
    BY <1>5, EarlyCandleKeeps
  <1>6. CASE \E tf \in due : PassOver(tf)
    BY <1>6, PassOverKeeps
  <1>7. CASE UNCHANGED replayVars
    <2>1. UNCHANGED vars /\ UNCHANGED <<warm, bar, index, due, ticks>>
      BY <1>7 DEF replayVars
    <2>2. ArmsInv' /\ counter' = counter
      BY <2>1 DEF vars, ReplayInv, ArmsInv, CountersCount, ArmsAlive, GroupsSorted, ArmsGrouped
    <2> QED
      BY <2>1, <2>2 DEF ReplayInv, Lagging, WithinBars, Skipped, Complete
  <1> QED
    BY <1>1, <1>2, <1>3, <1>4, <1>5, <1>6, <1>7 DEF ReplayNext

LEMMA ReplayMeans == ASSUME ReplayParameters, ReplayInv PROVE TicksLookBack
  <1> SUFFICES ASSUME NEW g \in GroupKeys, NEW a \in groups[g], NEW i \in DOMAIN ticks
               PROVE  ArmedIn(a) < ticks[i].bar + Skipped(Base)
    BY DEF TicksLookBack
  <1> DEFINE tf == Timeframe[a.variant]
             c == counter[tf]
             b == Bars[tf]
             k == Skipped(tf)
  <1>1. a \in ArmRecord /\ a.at \in 1..c
    BY DEF ReplayInv, ArmsInv, GroupsSorted
  <1>2. tf \in Timeframes /\ a.at \in Nat /\ Base \in Timeframes
    BY <1>1 DEF ArmRecord, Timeframes, ReplayParameters
  <1>3. /\ b \in Nat /\ c \in Nat /\ k \in Nat /\ bar \in Nat /\ Skipped(Base) \in Nat
    BY <1>2, SkippedSome DEF ReplayInv, ArmsInv, CountersCount
  <1>4. bar < ticks[i].bar + Skipped(Base) /\ ticks[i].bar \in Nat
    BY <1>3 DEF ReplayInv, Lagging
  <1>5. ArmedIn(a) = IF tf = Base THEN a.at ELSE (a.at + k) * b
    BY DEF ArmedIn
  <1>6. CASE tf = Base
    <2>1. c <= bar
      BY <1>6 DEF ReplayInv
    <2> QED
      BY <1>1, <1>2, <1>3, <1>4, <1>5, <1>6, <2>1
  <1>7. CASE tf # Base
    <2>0. c > 0 /\ tf \in Timeframes \ {Base}
      BY <1>1, <1>2, <1>3, <1>7
    <2>1. (c + k) * b <= bar
      BY <2>0 DEF ReplayInv, WithinBars
    <2> HIDE DEF b, c, k
    <2> DEFINE d == c - a.at
    <2>2. d \in Nat /\ c = a.at + d
      BY <1>1, <1>2, <1>3
    <2> HIDE DEF d
    <2>3. (c + k) * b = (a.at + k) * b + d * b /\ d * b \in Nat /\ (a.at + k) * b \in Nat
      BY <1>2, <1>3, <2>2
    <2>4. (a.at + k) * b <= bar
      BY <1>3, <2>1, <2>3
    <2> QED
      BY <1>3, <1>4, <1>5, <1>7, <2>3, <2>4
  <1> QED
    BY <1>6, <1>7

(* What is armed is watched, live (armed_state.py, grouping.py): every arm *)
(* of the list is in the group of its level and of a variant that has not  *)
(* triggered today, and the types hold.                                    *)
THEOREM ArmsAreWatched ==
    ASSUME TriggersParameters
    PROVE  Spec => []ArmedIsWatched
  <1>1. Init => ArmsInv
    BY ArmsBegin
  <1>2. ArmsInv /\ [Next]_vars => ArmsInv'
    BY ArmsStep
  <1>3. ArmsInv => ArmedIsWatched
    BY ArmsMean
  <1> QED
    BY <1>1, <1>2, <1>3, PTL DEF Spec

(* "No variant remains ARMED indefinitely" (armed_state.py:10), live: an   *)
(* arm is never as old as its window is long.                              *)
THEOREM ArmsExpire ==
    ASSUME TriggersParameters
    PROVE  Spec => []WindowsRespected
  <1>1. Init => ArmsInv
    BY ArmsBegin
  <1>2. ArmsInv /\ [Next]_vars => ArmsInv'
    BY ArmsStep
  <1>3. ArmsInv => WindowsRespected
    BY ArmsMean
  <1> QED
    BY <1>1, <1>2, <1>3, PTL DEF Spec

(* In the replay (replay.py) arms expire as they do live, and no tick meets*)
(* an arm of its own candle or of a later one if the day began with        *)
(* indicators; every candle of the day that had none puts the ticks back by*)
(* one.                                                                    *)
THEOREM ReplayLooksBack ==
    ASSUME ReplayParameters
    PROVE  ReplaySpec => []WindowsKept
  <1>1. ReplayInit => ReplayInv
    BY ReplayBegins
  <1>2. ReplayInv /\ [ReplayNext]_replayVars => ReplayInv'
    BY ReplaySteps
  <1>3. ReplayInv => WindowsKept
    BY ReplayMeans, ArmsMean DEF ReplayInv, ReplayParameters, WindowsKept
  <1> QED
    BY <1>1, <1>2, <1>3, PTL DEF ReplaySpec

-----------------------------------------------------------------------------
Flushing(t) == pc[t] \in {"write", "trim"}

Begins(b, s) == Len(b) <= Len(s) /\ \A i \in 1..Len(b) : s[i] = b[i]

FlushKnows ==
    /\ \A t, u \in Threads : Flushing(t) /\ Flushing(u) => t = u
    /\ \A t \in Threads :
          /\ Flushing(t) => Begins(batch[t], buffer)
          /\ pc[t] = "trim" => Elements(batch[t]) \subseteq db

Kept == accepted \subseteq db \cup Elements(buffer)

RecorderInv ==
    /\ RecorderTypes
    /\ pc["feed"] = "record" => batch["feed"] # <<>>
    /\ pc["timer"] # "record" /\ pc["stopper"] # "record"
    /\ ~overlapped => FlushKnows /\ Kept

-----------------------------------------------------------------------------
(* What the operators on sequences do to the elements.                     *)
LEMMA AppendElements ==
    ASSUME NEW S, NEW s \in Seq(S), NEW x \in S
    PROVE  Elements(Append(s, x)) = Elements(s) \cup {x}
  <1>1. /\ Append(s, x) \in Seq(S) /\ Len(Append(s, x)) = Len(s) + 1
        /\ \A i \in 1..Len(s) : Append(s, x)[i] = s[i]
        /\ Append(s, x)[Len(s) + 1] = x
    OBVIOUS
  <1>2. DOMAIN Append(s, x) = 1..(Len(s) + 1) /\ DOMAIN s = 1..Len(s) /\ Len(s) \in Nat
    BY <1>1
  <1>3. 1..(Len(s) + 1) = 1..Len(s) \cup {Len(s) + 1}
    BY <1>2
  <1> QED
    BY <1>1, <1>2, <1>3 DEF Elements

LEMMA AppendBegins ==
    ASSUME NEW S, NEW s \in Seq(S), NEW x \in S, NEW b \in Seq(S), Begins(b, s)
    PROVE  Begins(b, Append(s, x))
  <1>1. /\ Len(Append(s, x)) = Len(s) + 1 /\ Len(s) \in Nat /\ Len(b) \in Nat
        /\ \A i \in 1..Len(s) : Append(s, x)[i] = s[i]
    OBVIOUS
  <1> QED
    BY <1>1 DEF Begins

(* What is cut off is what the sequence begins with.                       *)
LEMMA TrimElements ==
    ASSUME NEW S, NEW s \in Seq(S), NEW b \in Seq(S), Begins(b, s)
    PROVE  /\ SubSeq(s, Len(b) + 1, Len(s)) \in Seq(S)
           /\ Elements(s) \subseteq Elements(b) \cup Elements(SubSeq(s, Len(b) + 1, Len(s)))
  <1> DEFINE rest == SubSeq(s, Len(b) + 1, Len(s))
  <1>1. Len(b) \in Nat /\ Len(s) \in Nat /\ Len(b) <= Len(s)
    BY DEF Begins
  <1>2. /\ rest \in Seq(S) /\ Len(rest) = Len(s) - Len(b)
        /\ \A i \in 1..(Len(s) - Len(b)) : rest[i] = s[Len(b) + i]
    BY <1>1
  <1>3. DOMAIN s = 1..Len(s) /\ DOMAIN b = 1..Len(b) /\ DOMAIN rest = 1..(Len(s) - Len(b))
    BY <1>1, <1>2
  <1> HIDE DEF rest
  <1>4. ASSUME NEW i \in 1..Len(s) PROVE s[i] \in Elements(b) \cup Elements(rest)
    <2>1. CASE i <= Len(b)
      BY <2>1, <1>1, <1>3 DEF Begins, Elements
    <2>2. CASE i > Len(b)
      <3>1. i - Len(b) \in 1..(Len(s) - Len(b)) /\ Len(b) + (i - Len(b)) = i
        BY <2>2, <1>1
      <3>2. rest[i - Len(b)] = s[i]
        BY <3>1, <1>2
      <3> QED
        BY <3>1, <3>2, <1>3 DEF Elements
    <2> QED
      BY <2>1, <2>2, <1>1
  <1>5. Elements(s) \subseteq Elements(b) \cup Elements(rest)
    BY <1>3, <1>4 DEF Elements
  <1> QED
    BY <1>2, <1>5 DEF rest

-----------------------------------------------------------------------------
LEMMA RecorderBegins == RecorderInit => RecorderInv
  <1> SUFFICES ASSUME RecorderInit PROVE RecorderInv
    OBVIOUS
  <1>1. RecorderTypes
    BY DEF RecorderInit, RecorderTypes
  <1>2. FlushKnows /\ Kept
    BY DEF RecorderInit, FlushKnows, Flushing, Kept, Threads
  <1> QED
    BY <1>1, <1>2 DEF RecorderInv, RecorderInit, Threads

LEMMA RecorderStep == RecorderInv /\ [RecorderNext]_recorderVars => RecorderInv'
  <1> SUFFICES ASSUME RecorderInv, [RecorderNext]_recorderVars PROVE RecorderInv'
    OBVIOUS
  <1> USE DEF RecorderInv
  <1>1. CASE \E trade \in Trades : Handle(trade)
    <2> PICK trade \in Trades : Handle(trade)
      BY <1>1
    <2>1. RecorderTypes'
      BY DEF RecorderTypes, Handle, Threads
    <2>2. (pc["feed"] = "record" => batch["feed"] # <<>>)'
          /\ (pc["timer"] # "record" /\ pc["stopper"] # "record")'
      BY DEF RecorderTypes, Handle, Threads
    <2>3. ASSUME ~overlapped' PROVE FlushKnows' /\ Kept'
      <3>1. FlushKnows /\ Kept
        BY <2>3 DEF Handle
      <3>2. \A t \in Threads : Flushing(t)' => Flushing(t) /\ batch'[t] = batch[t] /\ pc'[t] = pc[t]
        BY DEF RecorderTypes, Handle, Threads, Flushing
      <3> QED
        BY <3>1, <3>2 DEF FlushKnows, Kept, Handle, Flushing
    <2> QED
      BY <2>1, <2>2, <2>3
  <1>2. CASE Record
    <2> DEFINE trade == Head(batch["feed"])
    <2>1. trade \in Trades
      BY <1>2 DEF Record, RecorderTypes, Threads
    <2>2. buffer' = buffer \/ buffer' = Append(buffer, trade)
      BY <1>2 DEF Record
    <2>3. RecorderTypes'
      <3>1. buffer' \in Seq(Trades)
        BY <2>1, <2>2 DEF RecorderTypes
      <3>2. seen' \subseteq {DedupKey[t] : t \in Trades} /\ accepted' \subseteq Trades
        BY <1>2, <2>1 DEF Record, RecorderTypes
      <3>3. pc' \in [Threads -> {"idle", "record", "copy", "write", "trim"}]
            /\ pc'["feed"] \in {"idle", "copy"}
        BY <1>2 DEF Record, RecorderTypes, Threads
      <3> QED
        BY <1>2, <3>1, <3>2, <3>3 DEF Record, RecorderTypes, Threads
    <2>4. \A t \in Threads : Flushing(t)' => Flushing(t) /\ pc'[t] = pc[t] /\ batch'[t] = batch[t]
      BY <1>2 DEF Record, RecorderTypes, Threads, Flushing
    <2>5. ASSUME ~overlapped' PROVE FlushKnows' /\ Kept'
      <3>1. FlushKnows /\ Kept
        BY <1>2, <2>5 DEF Record
      <3>2. \A t \in Threads : batch[t] \in Seq(Trades)
        BY DEF RecorderTypes
      <3>3. \A t \in Threads : Flushing(t)' => Begins(batch'[t], buffer')
        <4> TAKE t \in Threads
        <4> HAVE Flushing(t)'
        <4>1. Begins(batch[t], buffer)
          BY <2>4, <3>1 DEF FlushKnows
        <4>2. Begins(batch[t], Append(buffer, trade))
          BY <4>1, <2>1, <3>2, AppendBegins DEF RecorderTypes
        <4> QED
          BY <4>1, <4>2, <2>2, <2>4
      <3>4. Kept'
        <4>1. Elements(Append(buffer, trade)) = Elements(buffer) \cup {trade}
          BY <2>1, AppendElements DEF RecorderTypes
        <4> QED
          BY <4>1, <3>1, <1>2 DEF Record, Kept
      <3> QED
        BY <3>1, <3>3, <3>4, <2>4, <1>2 DEF FlushKnows, Record
    <2> QED
      BY <2>3, <2>5, <1>2 DEF Record, RecorderTypes, Threads
  <1>3. CASE TimerFires \/ Stop \/ ResetDaily
    <2>1. /\ UNCHANGED <<buffer, batch, db, accepted, overlapped>>
          /\ \A t \in Threads : pc'[t] # pc[t] => pc'[t] = "copy"
          /\ pc' \in [Threads -> {"idle", "record", "copy", "write", "trim"}]
      BY <1>3 DEF TimerFires, Stop, ResetDaily, RecorderTypes, Threads
    <2>2. RecorderTypes'
      BY <1>3, <2>1 DEF TimerFires, Stop, ResetDaily, RecorderTypes
    <2>3. ASSUME ~overlapped' PROVE FlushKnows' /\ Kept'
      BY <2>3, <2>1 DEF FlushKnows, Kept, Flushing
    <2> QED
      BY <2>1, <2>2, <2>3 DEF Threads
  <1>4. ASSUME NEW t \in Threads, Copy(t) PROVE RecorderInv'
    <2>1. RecorderTypes'
      BY <1>4 DEF Copy, RecorderTypes
    <2>2. ASSUME ~overlapped' PROVE FlushKnows' /\ Kept'
      <3>1. FlushKnows /\ Kept
        BY <1>4, <2>2 DEF Copy, Overlaps
      <3>2. CASE buffer = <<>>
        <4>1. \A u \in Threads : Flushing(u)' => Flushing(u) /\ pc'[u] = pc[u] /\ batch'[u] = batch[u]
          BY <3>2, <1>4 DEF Copy, Flushing, RecorderTypes
        <4> QED
          BY <3>1, <4>1, <1>4 DEF FlushKnows, Kept, Copy
      <3>3. CASE buffer # <<>>
        <4>1. \A u \in Threads \ {t} : ~Flushing(u)
          BY <3>3, <2>2, <1>4 DEF Copy, Overlaps, Flushing
        <4>2. \A u \in Threads : Flushing(u)' => u = t
          BY <4>1, <1>4 DEF Copy, Flushing, RecorderTypes
        <4>3. batch'[t] = buffer /\ buffer' = buffer /\ pc'[t] = "write"
          BY <1>4, <3>3 DEF Copy, RecorderTypes
        <4>4. Begins(buffer, buffer)
          BY DEF Begins, RecorderTypes
        <4>5. \A u \in Threads : pc'[u] # "trim"
          BY <4>1, <4>3, <1>4 DEF Copy, Flushing, RecorderTypes
        <4> QED
          BY <4>2, <4>3, <4>4, <4>5, <3>1, <1>4 DEF FlushKnows, Kept, Copy
      <3> QED
        BY <3>2, <3>3
    <2> QED
      BY <2>1, <2>2, <1>4 DEF Copy, RecorderTypes, Threads
  <1>5. ASSUME NEW t \in Threads, WriteSucceeds(t) PROVE RecorderInv'
    <2>1. RecorderTypes'
      BY <1>5 DEF WriteSucceeds, RecorderTypes, Elements
    <2>2. ASSUME ~overlapped' PROVE FlushKnows' /\ Kept'
      BY <2>2, <1>5 DEF WriteSucceeds, FlushKnows, Kept, Flushing, RecorderTypes
    <2> QED
      BY <2>1, <2>2, <1>5 DEF WriteSucceeds, RecorderTypes, Threads
  <1>6. ASSUME NEW t \in Threads, WriteFails(t) PROVE RecorderInv'
    <2>1. RecorderTypes'
      BY <1>6 DEF WriteFails, RecorderTypes
    <2>2. ASSUME ~overlapped' PROVE FlushKnows' /\ Kept'
      BY <2>2, <1>6 DEF WriteFails, FlushKnows, Kept, Flushing, RecorderTypes
    <2> QED
      BY <2>1, <2>2, <1>6 DEF WriteFails, RecorderTypes, Threads
  <1>7. ASSUME NEW t \in Threads, Trim(t) PROVE RecorderInv'
    <2>1. RecorderTypes'
      <3>1. SubSeq(buffer, Len(batch[t]) + 1, Len(buffer)) \in Seq(Trades)
        BY DEF RecorderTypes
      <3> QED
        BY <3>1, <1>7 DEF Trim, RecorderTypes
    <2>2. ASSUME ~overlapped' PROVE FlushKnows' /\ Kept'
      <3>1. FlushKnows /\ Kept
        BY <1>7, <2>2 DEF Trim
      <3>2. Begins(batch[t], buffer) /\ Elements(batch[t]) \subseteq db
        BY <3>1, <1>7 DEF FlushKnows, Flushing, Trim
      <3>3. Elements(buffer) \subseteq Elements(batch[t]) \cup Elements(buffer')
        BY <3>2, <1>7, TrimElements DEF RecorderTypes, Trim
      <3>4. \A u \in Threads : ~Flushing(u)'
        BY <3>1, <1>7 DEF FlushKnows, Flushing, Trim, RecorderTypes
      <3> QED
        BY <3>1, <3>2, <3>3, <3>4, <1>7 DEF FlushKnows, Kept, Trim, Flushing
    <2> QED
      BY <2>1, <2>2, <1>7 DEF Trim, RecorderTypes, Threads
  <1>8. CASE UNCHANGED recorderVars
    BY <1>8 DEF recorderVars, RecorderTypes, FlushKnows, Kept, Flushing
  <1> QED
    BY <1>1, <1>2, <1>3, <1>4, <1>5, <1>6, <1>7, <1>8 DEF RecorderNext, FlushStep

(* Failed writes, retries, a stop in the middle of a handler and trades    *)
(* recorded during a write lose nothing (trade_recorder.py), for any size  *)
(* of the buffer and any trades.                                           *)
THEOREM RecorderLosesNothing == RecorderSpec => []NothingLost
  <1>1. RecorderInv => NothingLost
    BY DEF RecorderInv, NothingLost, Kept
  <1> QED
    BY RecorderBegins, RecorderStep, <1>1, PTL DEF RecorderSpec

-----------------------------------------------------------------------------
(* The day is stored as it will ever be, or it is known not to be.         *)
Settled(d) == d \in spoiled \/ All({d}) \subseteq stored

MarkedSettled == \A d \in marked \cup pending : Settled(d)

FetchInv == MarkedSettled /\ NoSilentHoles

(* Of a day that is over, everything is published.                         *)
LEMMA OverPublished ==
    ASSUME NEW d, d \in Int, Pieces \in Nat, clock \in Nat, Over(d)
    PROVE  All({d}) \subseteq Published({d})
  <1>1. \A k \in 1..Pieces : (d - 1) * Pieces + k <= clock
    <2>1. (d - 1) * Pieces = d * Pieces - Pieces
      OBVIOUS
    <2>2. d * Pieces \in Int
      OBVIOUS
    <2> QED
      BY <2>1, <2>2 DEF Over
  <1> QED
    BY <1>1 DEF All, Published

(* What is asked for day by day is no less than what is asked for at once. *)
LEMMA PublishedEach ==
    ASSUME NEW days, NEW d \in days
    PROVE  Published({d}) \subseteq Published(days)
  BY DEF Published, All

LEMMA PublishedIn ==
    ASSUME NEW days, NEW x \in Published(days)
    PROVE  x[1] \in days /\ x \in All({x[1]})
  BY DEF Published, All

(* Settled days stay settled while nothing is taken away.                  *)
LEMMA SettledStays ==
    ASSUME stored \subseteq stored', spoiled \subseteq spoiled', trading' = trading,
           NEW d, Settled(d)
    PROVE  Settled(d)'
  BY DEF Settled, All

(* After an answer was written its days are settled.                       *)
LEMMA WriteSettles ==
    ASSUME NEW days, trading \subseteq Int, Pieces \in Nat, clock \in Nat,
           trading' = trading, Write(days)
    PROVE  /\ stored \subseteq stored' /\ spoiled \subseteq spoiled'
           /\ \A d \in days : Settled(d)'
  <1>1. stored \subseteq stored' /\ spoiled \subseteq spoiled'
    BY DEF Write
  <1>2. ASSUME NEW d \in days PROVE Settled(d)'
    <2>1. All({d})' = All({d})
      BY DEF All
    <2>2. CASE ~Over(d)
      BY <2>2, <1>2 DEF Write, Settled
    <2>3. CASE d \notin trading
      <3>1. All({d}) = {}
        BY <2>3 DEF All
      <3> QED
        BY <2>1, <3>1 DEF Settled
    <2>4. CASE Over(d) /\ d \in trading
      <3>1. All({d}) \subseteq Published({d})
        BY <2>4, OverPublished
      <3>2. Published({d}) \subseteq Published(days)
        BY <1>2, PublishedEach
      <3>3. CASE stored' = stored \cup Published(days)
        BY <3>1, <3>2, <3>3, <2>1 DEF Settled
      <3>4. ASSUME NEW x \in Published(days), stored' = stored \cup (Published(days) \ {x}),
                   x[1] \in spoiled'
            PROVE  Settled(d)'
        <4>1. CASE x[1] = d
          BY <4>1, <3>4 DEF Settled
        <4>2. CASE x[1] # d
          <5>1. x \notin All({d})
            BY <4>2 DEF All
          <5> QED
            BY <5>1, <3>1, <3>2, <3>4, <2>1 DEF Settled
        <4> QED
          BY <4>1, <4>2
      <3>5. CASE days \subseteq spoiled'
        BY <3>5, <1>2 DEF Settled
      <3> QED
        BY <3>3, <3>4, <3>5 DEF Write
    <2> QED
      BY <2>2, <2>3, <2>4
  <1> QED
    BY <1>1, <1>2

(* A run that passes settled days leaves no silent hole in them.           *)
LEMMA PassedWhole ==
    ASSUME NEW days, NoSilentHoles, Passed(days), trading' = trading,
           stored \subseteq stored', spoiled \subseteq spoiled',
           \A d \in days : Settled(d)'
    PROVE  NoSilentHoles'
  <1> SUFFICES ASSUME NEW x \in owed'
               PROVE  x[1] \in spoiled' \/ x \in stored'
    BY DEF NoSilentHoles
  <1>1. CASE x \in owed
    BY <1>1 DEF NoSilentHoles
  <1>2. CASE x \in Published(days)
    <2>1. x[1] \in days /\ x \in All({x[1]})
      BY <1>2, PublishedIn
    <2>2. All({x[1]})' = All({x[1]})
      BY DEF All
    <2> QED
      BY <2>1, <2>2 DEF Settled
  <1> QED
    BY <1>1, <1>2 DEF Passed

(* The calendar is one of days, the clock counts.                          *)
FetchTypes == clock \in Nat /\ trading \subseteq Int

LEMMA TypesHold ==
    ASSUME FetchParameters
    PROVE  FetchSpec => []FetchTypes
  <1>1. FetchInit => FetchTypes
    BY DEF FetchParameters, FetchInit, FetchTypes
  <1>2. FetchTypes /\ [FetchNext]_fetchVars => FetchTypes'
    <2> SUFFICES ASSUME FetchTypes, [FetchNext]_fetchVars PROVE FetchTypes'
      OBVIOUS
    <2>1. CASE ClockPasses
      BY <2>1 DEF FetchTypes, ClockPasses
    <2>2. CASE UNCHANGED <<clock, trading>>
      BY <2>2 DEF FetchTypes
    <2>3. [FetchNext]_fetchVars => ClockPasses \/ UNCHANGED <<clock, trading>>
      BY DEF FetchNext, StartRun, Crash, SkipDay, FetchDay, DayIncomplete, MarkDay,
             SkipChunk, FetchChunk, MarkChunkDay, ChunkFails, fetchVars
    <2> QED
      BY <2>1, <2>2, <2>3
  <1> QED
    BY <1>1, <1>2, PTL DEF FetchSpec

(* One step, by action: an answer settles the days it is written for; what *)
(* is passed was settled, or is given up in the same step.                 *)
LEMMA FetchStep ==
    ASSUME FetchParameters, FetchTypes, FetchInv, [FetchNext]_fetchVars
    PROVE  FetchInv'
  <1> USE DEF FetchInv
  <1>p. Pieces \in Nat
    BY DEF FetchParameters
  <1>q. ASSUME stored \subseteq stored', spoiled \subseteq spoiled', trading' = trading,
               marked' \cup pending' \subseteq marked \cup pending
        PROVE  MarkedSettled'
    BY <1>q, SettledStays DEF MarkedSettled
  <1>r. ASSUME stored \subseteq stored', spoiled \subseteq spoiled', owed' = owed
        PROVE  NoSilentHoles'
    BY <1>r DEF NoSilentHoles
  <1>1. CASE ClockPasses \/ StartRun \/ Crash \/ DayIncomplete \/ ChunkFails \/ UNCHANGED fetchVars
    BY <1>1, <1>q, <1>r
       DEF ClockPasses, StartRun, Crash, DayIncomplete, ChunkFails, fetchVars
  <1>2. CASE FetchDay \/ FetchChunk
    <2>1. PICK days : /\ Write(days) /\ pending' \subseteq days
                      /\ marked' = marked /\ trading' = trading /\ owed' = owed
      <3>1. CASE FetchDay
        BY <3>1 DEF FetchDay
      <3>2. CASE FetchChunk
        <4>1. \A x \in Published(TheChunk) : x[1] \in TheChunk
          BY PublishedIn
        <4> QED
          BY <3>2, <4>1 DEF FetchChunk
      <3> QED
        BY <1>2, <3>1, <3>2
    <2>2. /\ stored \subseteq stored' /\ spoiled \subseteq spoiled'
          /\ \A d \in days : Settled(d)'
      BY <2>1, <1>p, WriteSettles DEF FetchTypes
    <2>3. \A d \in marked : Settled(d)'
      BY <2>1, <2>2, SettledStays DEF MarkedSettled
    <2> QED
      BY <2>1, <2>2, <2>3, <1>r DEF MarkedSettled
  <1>3. CASE SkipDay \/ SkipChunk
    <2>1. /\ stored' = stored /\ spoiled \subseteq spoiled' /\ trading' = trading
          /\ marked' = marked /\ pending' = pending
      BY <1>3 DEF SkipDay, SkipChunk
    <2>2. PICK days : Passed(days) /\ days \subseteq marked \cup spoiled'
      <3>1. CASE SkipDay
        BY <3>1 DEF SkipDay
      <3>2. CASE SkipChunk
        BY <3>2 DEF SkipChunk
      <3> QED
        BY <1>3, <3>1, <3>2
    <2>3. MarkedSettled'
      BY <2>1, <1>q
    <2>4. \A d \in days : Settled(d)'
      BY <2>1, <2>2, <2>3 DEF MarkedSettled, Settled
    <2> QED
      BY <2>1, <2>2, <2>3, <2>4, PassedWhole
  <1>4. CASE MarkDay \/ \E d \in pending : MarkChunkDay(d)
    <2>1. /\ stored' = stored /\ spoiled' = spoiled /\ trading' = trading
          /\ marked' \cup pending' \subseteq marked \cup pending
      <3>1. CASE MarkDay
        BY <3>1 DEF MarkDay
      <3>2. CASE \E d \in pending : MarkChunkDay(d)
        BY <3>2 DEF MarkChunkDay
      <3> QED
        BY <1>4, <3>1, <3>2
    <2>2. PICK days : Passed(days) /\ days \subseteq pending
      <3>1. CASE MarkDay
        BY <3>1 DEF MarkDay
      <3>2. CASE \E d \in pending : MarkChunkDay(d)
        BY <3>2 DEF MarkChunkDay
      <3> QED
        BY <1>4, <3>1, <3>2
    <2>3. \A d \in days : Settled(d)'
      BY <2>1, <2>2, SettledStays DEF MarkedSettled
    <2> QED
      BY <2>1, <2>2, <2>3, <1>q, PassedWhole
  <1> QED
    BY <1>1, <1>2, <1>3, <1>4 DEF FetchNext

(* However runs overlap, fail and are broken off, of a day that a run has  *)
(* passed without an error all there was is stored: the promise of both    *)
(* downloads (fetch_dukascopy.py, "no silent holes").  Spoiled, and excused*)
(* from it, are days fetched before they were over, with a damaged or      *)
(* missing answer or file, refused by the store, or not marked themselves  *)
(* between a first and a last day of a chunk that are (fetch.py:195-201).  *)
THEOREM DownloadsWhole ==
    ASSUME FetchParameters
    PROVE  FetchSpec => []NoSilentHoles
  <1>1. FetchInit => FetchInv
    BY DEF FetchInit, FetchInv, MarkedSettled, NoSilentHoles
  <1>2. FetchTypes /\ FetchInv /\ [FetchNext]_fetchVars => FetchInv'
    BY FetchStep
  <1>3. FetchInv => NoSilentHoles
    BY DEF FetchInv
  <1> QED
    BY <1>1, <1>2, <1>3, TypesHold, PTL DEF FetchSpec

=============================================================================
