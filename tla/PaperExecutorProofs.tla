--------------------------- MODULE PaperExecutorProofs ---------------------------
(***************************************************************************)
(* The paper executor for any signals, prices and limits: no entry while   *)
(* the account is halted, one position per key, nothing of a position      *)
(* vanishes, and nothing that is due is left open by a tick.               *)
(*                                                                         *)
(* Two passes do all the work, over the arms and over the positions, and   *)
(* both are folds: what holds after each of their steps is said of the     *)
(* part of the list that is done (ArmsDone, PositionsDone) and proved by   *)
(* induction over it.  The targets of a plan are summed: that a position   *)
(* never owes more than it has left is what makes each target close its    *)
(* own fraction.                                                           *)
(***************************************************************************)
EXTENDS PaperExecutor, FoldLemmas

(* What the lists hold.                                                    *)
Arm == {a \in [sig : Signals, left : Nat] : a.left \in 1..a.sig.expiry}

PositionFields ==
    [plan : Signals, entry : Int, lots : 1..MaxLot, left : Int, booked : Int,
     taken : SUBSET Nat, best : Int, stop : Int, bars : Nat]

Taken(p) == SumFunctionOnSet(Fractions(p.plan), p.taken)

Accounted(p) == p.taken \subseteq DOMAIN p.plan.tps /\ p.left = Whole - Taken(p)

Position == {p \in PositionFields : p.left \in 1..Whole /\ Accounted(p)}

Reasons == {"STOP_LOSS", "TAKE_PROFIT", "TIME_STOP", "EOD_FLATTEN", "MANUAL"}

Close == {c \in [reason : Reasons, unbooked : Int] :
             c.reason \in {"STOP_LOSS", "TAKE_PROFIT", "TIME_STOP"} => c.unbooked = 0}

Executor == [guard : Guard, arms : Seq(Arm), positions : Seq(Position), open : SUBSET Keys,
             price : [Instruments -> Prices \cup {0}], opened : Nat, closes : Seq(Close)]

-----------------------------------------------------------------------------
(* The guard: no check, booking or marking brings trading back.            *)
LEMMA GuardChecked ==
    ASSUME NEW g \in Guard
    PROVE  /\ CheckBreach(g) \in Guard
           /\ CheckBreach(g).status = "ACTIVE" => g.status = "ACTIVE"
           /\ CanTrade(g) => g.status = "ACTIVE"
  <1> DEFINE status == StatusAfterCheck(g)
             halts == HaltsAfterCheck(g)
  <1>1. status \in Status /\ halts \in Nat /\ (status = "ACTIVE" => g.status = "ACTIVE")
    BY DEF StatusAfterCheck, HaltsAfterCheck, Guard, Status
  <1>2. CheckBreach(g) = [g EXCEPT !.status = status, !.halts = halts]
    BY DEF CheckBreach
  <1>3. CanTrade(g) => status = "ACTIVE"
    BY DEF CanTrade
  <1> HIDE DEF status, halts
  <1> QED
    BY <1>1, <1>2, <1>3 DEF Guard

LEMMA GuardBooked ==
    ASSUME NEW g \in Guard, NEW n \in Int
    PROVE  RealizePnl(g, n) \in Guard /\ MarkToMarket(g, n) \in Guard
  <1>1. [g EXCEPT !.balance = @ + n] \in Guard /\ [g EXCEPT !.unrealized = n] \in Guard
    BY DEF Guard
  <1> QED
    BY <1>1, GuardChecked DEF RealizePnl, MarkToMarket

LEMMA GuardReset ==
    ASSUME NEW g \in Guard, NEW n \in Nat
    PROVE  CheckDailyReset(g, n) \in Guard
  <1> DEFINE sod == IF g.unrealized > 0 THEN Equity(g) ELSE g.balance
             status == IF g.status = "DAILY_HALT" THEN "ACTIVE" ELSE g.status
  <1>1. sod \in Int /\ status \in Status
    BY DEF Guard, Equity, Status
  <1>2. DailyReset(g, n) = [g EXCEPT !.sod = sod, !.resetAt = n, !.status = status]
    BY DEF DailyReset
  <1> HIDE DEF sod, status
  <1>3. DailyReset(g, n) \in Guard
    <2>1. n \in Int
      OBVIOUS
    <2> QED
      BY <1>1, <1>2, <2>1 DEF Guard
  <1> QED
    BY <1>3 DEF CheckDailyReset

-----------------------------------------------------------------------------
(* Plans and their fractions.                                              *)
LEMMA SignalFacts ==
    ASSUME NEW s \in Signals
    PROVE  /\ s \in SignalFields /\ s.expiry >= 1 /\ s.key \in Keys /\ s.dir \in Directions
           /\ s.entry \in Int /\ s.sl \in Int /\ s.timeBars \in Nat /\ s.timeBars >= 0
           /\ IsFiniteSet(DOMAIN s.tps) /\ DOMAIN s.tps \subseteq Nat \ {0}
           /\ Fractions(s) \in [DOMAIN s.tps -> Int]
           /\ \A i \in DOMAIN s.tps :
                 /\ s.tps[i].price \in Int /\ s.tps[i].frac \in 1..Whole
                 /\ Fractions(s)[i] = s.tps[i].frac
           /\ SumFunctionOnSet(Fractions(s), DOMAIN s.tps) <= Whole
  <1>1. s \in SignalFields /\ ValidPlan(s) /\ s.expiry >= 1
    BY SignalsAssumption DEF ValidSignal
  <1>2. /\ s.tps \in Seq([price : Int, frac : Int]) /\ s.key \in Keys /\ s.dir \in Directions
        /\ s.entry \in Int /\ s.sl \in Int /\ s.timeBars \in Int
    BY <1>1 DEF SignalFields
  <1>3. DOMAIN s.tps = 1..Len(s.tps) /\ Len(s.tps) \in Nat
    BY <1>2
  <1>4. IsFiniteSet(DOMAIN s.tps)
    <2>1. IsFiniteSet(1..Len(s.tps))
      BY <1>3, FirstNumbers
    <2> QED
      BY <1>3, <2>1, Zenon
  <1>5. \A i \in DOMAIN s.tps : s.tps[i].price \in Int /\ s.tps[i].frac \in 1..Whole
    <2>1. ASSUME NEW T, NEW t \in Seq(T) PROVE \A i \in DOMAIN t : t[i] \in T
      OBVIOUS
    <2>3. \A i \in DOMAIN s.tps : s.tps[i] \in [price : Int, frac : Int]
      BY <1>2, <2>1
    <2>2. \A i \in DOMAIN s.tps : s.tps[i].frac \in 1..Whole
      BY <1>1 DEF ValidPlan
    <2> QED
      BY <2>2, <2>3
  <1>6. /\ Fractions(s) \in [DOMAIN s.tps -> Int]
        /\ \A i \in DOMAIN s.tps : Fractions(s)[i] = s.tps[i].frac
    BY <1>5, ExitAssumption DEF Fractions
  <1>7. SumFunctionOnSet(Fractions(s), DOMAIN s.tps) <= Whole
    <2>1. DOMAIN Fractions(s) = DOMAIN s.tps
      BY DEF Fractions
    <2> QED
      BY <1>1, <2>1 DEF ValidPlan, SumFunction
  <1>8. s.timeBars \in Nat
    BY <1>1, <1>2 DEF ValidPlan
  <1> QED
    BY <1>1, <1>2, <1>3, <1>4, <1>5, <1>6, <1>7, <1>8

(* The targets not taken have room in what is left ...                     *)
LEMMA RoomForTargets ==
    ASSUME NEW p \in PositionFields, Accounted(p),
           NEW hits \in SUBSET (DOMAIN p.plan.tps \ p.taken)
    PROVE  /\ IsFiniteSet(hits) /\ SumFunctionOnSet(Fractions(p.plan), hits) \in Int
           /\ SumFunctionOnSet(Fractions(p.plan), hits) <= p.left /\ Taken(p) \in Int
           /\ SumFunctionOnSet(Fractions(p.plan), p.taken \cup hits)
                 = Taken(p) + SumFunctionOnSet(Fractions(p.plan), hits)
  <1> DEFINE f == Fractions(p.plan)
             D == DOMAIN p.plan.tps
             Total(s) == SumFunctionOnSet(f, s)
  <1>1. /\ p.plan \in Signals /\ IsFiniteSet(D) /\ f \in [D -> Int] /\ Total(D) <= Whole
        /\ \A i \in D : f[i] >= 0
    <2>1. p.plan \in Signals
      BY DEF PositionFields
    <2> QED
      BY <2>1, SignalFacts, ExitAssumption
  <1>2. p.taken \in SUBSET D /\ hits \in SUBSET D /\ p.taken \cup hits \in SUBSET D
    BY DEF Accounted
  <1>3. IsFiniteSet(hits) /\ IsFiniteSet(p.taken) /\ IsFiniteSet(p.taken \cup hits)
    BY <1>1, <1>2, FS_Subset
  <1> HIDE DEF f, D
  <1>4. Total(hits) \in Int /\ Total(p.taken) \in Int /\ Total(D) \in Int
    BY <1>1, <1>2, <1>3, SumType
  <1>5. Total(p.taken \cup hits) = Total(p.taken) + Total(hits)
    <2>1. p.taken \cap hits = {}
      OBVIOUS
    <2> QED
      BY <1>1, <1>2, <1>3, <2>1, SumUnion
  <1>6. Total(p.taken \cup hits) <= Total(D)
    BY <1>1, <1>2, SumOfPart
  <1>7. p.left = Whole - Total(p.taken) /\ Taken(p) = Total(p.taken)
    BY DEF Accounted, Taken, f
  <1>8. Total(hits) <= p.left
    <2> HIDE DEF Total
    <2> QED
      BY <1>1, <1>4, <1>5, <1>6, <1>7, ExitAssumption
  <1> QED
    BY <1>3, <1>4, <1>5, <1>7, <1>8 DEF f

(* ... so each of those that are hit closes its own fraction.              *)
LEMMA TargetsCloseTheirs ==
    ASSUME NEW p \in PositionFields, Accounted(p),
           NEW hits \in SUBSET (DOMAIN p.plan.tps \ p.taken), NEW i \in hits
    PROVE  TargetFraction(p, i, hits) = p.plan.tps[i].frac
  <1> DEFINE f == Fractions(p.plan)
             D == DOMAIN p.plan.tps
             Total(s) == SumFunctionOnSet(f, s)
             nearer == {j \in hits : Before(p, j, i)}
  <1>1. /\ p.plan \in Signals /\ f \in [D -> Int] /\ f[i] = p.plan.tps[i].frac
        /\ f[i] \in Int /\ f[i] >= 1 /\ \A j \in hits : f[j] >= 0 /\ p.plan.tps[j].price \in Int
    <2>1. p.plan \in Signals
      BY DEF PositionFields
    <2> QED
      BY <2>1, SignalFacts, ExitAssumption
  <1>2. ~Before(p, i, i)
    <2>1. i \in Nat /\ GainOf(p, p.plan.tps[i].price) \in Int
      <3>1. p.entry \in Int /\ p.plan.dir \in Directions /\ i \in Nat
        BY <1>1, SignalFacts DEF PositionFields
      <3> QED
        BY <1>1, <3>1 DEF GainOf, Gain, Sign
    <2> QED
      BY <2>1 DEF Before
  <1>3. nearer \cup {i} \in SUBSET hits /\ i \notin nearer /\ nearer \in SUBSET hits
    BY <1>2
  <1>4. IsFiniteSet(hits) /\ Total(hits) <= p.left /\ Total(hits) \in Int
    BY RoomForTargets
  <1>5. IsFiniteSet(nearer) /\ nearer \in SUBSET D /\ i \in D /\ hits \in SUBSET D
    BY <1>3, <1>4, FS_Subset
  <1> HIDE DEF f, D, nearer
  <1>6. Total(nearer) \in Int
    BY <1>1, <1>5, SumType
  <1>7. Total(nearer \cup {i}) = f[i] + Total(nearer)
    BY <1>1, <1>3, <1>5, SumAdds
  <1>8. Total(nearer \cup {i}) <= Total(hits)
    BY <1>1, <1>3, <1>4, <1>5, SumOfPart
  <1>9. p.left \in Int
    BY DEF PositionFields
  <1>10. TargetFraction(p, i, hits) = Max({0, Min({p.plan.tps[i].frac, p.left - Total(nearer)})})
    BY DEF TargetFraction, f, nearer
  <1>11. f[i] <= p.left - Total(nearer) /\ p.left - Total(nearer) \in Int
    <2> HIDE DEF Total
    <2> QED
      BY <1>1, <1>4, <1>6, <1>7, <1>8, <1>9
  <1> HIDE DEF Total
  <1>12. Min({f[i], p.left - Total(nearer)}) = f[i]
    BY <1>1, <1>11, MinOfTwo
  <1>13. Max({0, f[i]}) = f[i]
    BY <1>1, MaxOfTwo
  <1> QED
    BY <1>1, <1>10, <1>12, <1>13

-----------------------------------------------------------------------------
(* One position at a price.                                                *)
LEMMA TightestIsOne ==
    ASSUME NEW dir \in Directions, NEW stops \in SUBSET Int, IsFiniteSet(stops), stops # {}
    PROVE  Tightest(dir, stops) \in stops
  <1> DEFINE f == [x \in stops |-> x * Sign(dir)]
  <1>1. f \in [stops -> Int]
    BY DEF Directions, Sign
  <1>2. \E x \in stops : \A y \in stops : f[x] >= f[y]
    <2> HIDE DEF f
    <2> QED
      BY <1>1, HasGreatest
  <1>3. \E x \in stops : \A y \in stops : Gain(dir, x, y) <= 0
    BY <1>2 DEF Gain, Directions, Sign
  <1> QED
    BY <1>3 DEF Tightest

(* What the policy does moves the stop and the best price, nothing else.   *)
SamePosition(p, q) ==
    /\ q.plan = p.plan /\ q.entry = p.entry /\ q.lots = p.lots /\ q.left = p.left
    /\ q.booked = p.booked /\ q.taken = p.taken

LEMMA StopMoves ==
    ASSUME NEW p \in PositionFields, NEW price \in Int
    PROVE  LET q == ApplyDynamicStop(UpdateExcursion(p, price))
           IN  q \in PositionFields /\ SamePosition(p, q)
  <1> DEFINE best == IF Gain(p.plan.dir, p.best, price) > 0 THEN price ELSE p.best
             m == UpdateExcursion(p, price)
             s == m.plan
             a == m.entry + Sign(s.dir) * s.beOffset * RiskDistance(s)
             b == m.best - Sign(s.dir) * TrailDistance(s)
             stops == {m.stop} \cup PolicyStops(m)
             stop == Tightest(s.dir, stops)
  <1>1. m \in PositionFields /\ SamePosition(p, m)
    <2>1. best \in Int
      BY DEF PositionFields
    <2>2. m = [p EXCEPT !.best = best]
      BY DEF UpdateExcursion
    <2> HIDE DEF best, m
    <2> QED
      BY <2>1, <2>2 DEF PositionFields, SamePosition
  <1> HIDE DEF m
  <1>2. s \in Signals /\ s \in SignalFields /\ s.dir \in Directions /\ m.stop \in Int
    <2>1. s \in Signals /\ m.stop \in Int
      BY <1>1 DEF PositionFields
    <2> QED
      BY <2>1, SignalFacts
  <1>3. a \in Int /\ b \in Int
    <2>0. m.entry \in Int /\ m.best \in Int
      BY <1>1 DEF PositionFields
    <2> HIDE DEF s
    <2>1. /\ Sign(s.dir) \in Int
          /\ s.beOffset \in Int /\ s.trailDist \in Int /\ s.trailR \in Int
          /\ s.entry \in Int /\ s.sl \in Int
      BY <1>2 DEF SignalFields, Sign
    <2>2. RiskDistance(s) \in Int
      BY <2>1 DEF RiskDistance, Abs
    <2>3. TrailDistance(s) \in Int
      BY <2>1, <2>2 DEF TrailDistance
    <2> QED
      BY <2>0, <2>1, <2>2, <2>3
  <1>4. stops \subseteq {m.stop, a, b}
    BY DEF PolicyStops
  <1> HIDE DEF a, b, stops
  <1>5. stops \in SUBSET Int /\ IsFiniteSet(stops) /\ stops # {}
    <2>1. IsFiniteSet({m.stop, a, b})
      BY ThreeAreFinite
    <2>2. IsFiniteSet(stops)
      BY <1>4, <2>1, FS_Subset
    <2>3. stops # {}
      BY DEF stops
    <2> QED
      BY <1>2, <1>3, <1>4, <2>2, <2>3
  <1>6. stop \in Int
    BY <1>2, <1>5, TightestIsOne
  <1>7. ApplyDynamicStop(m) = [m EXCEPT !.stop = stop]
    BY DEF ApplyDynamicStop, stops
  <1> HIDE DEF stop, s
  <1>8. [m EXCEPT !.stop = stop] \in PositionFields /\ SamePosition(p, [m EXCEPT !.stop = stop])
    BY <1>1, <1>6 DEF PositionFields, SamePosition
  <1> QED
    BY <1>7, <1>8 DEF m

LegFields == [tp : Nat, price : Int, frac : Int]

LEMMA LegsAddUp ==
    ASSUME NEW p \in PositionFields, NEW legs \in SUBSET LegFields, IsFiniteSet(legs)
    PROVE  Closed(legs) \in Int /\ Realized(p, legs) \in Int
  <1> DEFINE f == [leg \in legs |-> leg.frac]
             g == [leg \in legs |-> GainOf(p, leg.price) * leg.frac]
  <1>1. f \in [legs -> Int]
    BY DEF LegFields
  <1>2. g \in [legs -> Int]
    <2>1. ASSUME NEW leg \in legs PROVE GainOf(p, leg.price) * leg.frac \in Int
      <3>1. leg.price \in Int /\ leg.frac \in Int /\ p.entry \in Int /\ Sign(p.plan.dir) \in Int
        BY DEF LegFields, PositionFields, Sign
      <3>2. GainOf(p, leg.price) \in Int
        BY <3>1 DEF GainOf, Gain
      <3> QED
        BY <3>1, <3>2
    <2> QED
      BY <2>1
  <1>3. Closed(legs) = SumFunctionOnSet(f, legs) /\ Realized(p, legs) = SumFunctionOnSet(g, legs)
    <2>1. DOMAIN f = legs /\ DOMAIN g = legs
      OBVIOUS
    <2> QED
      BY <2>1 DEF Closed, Realized, SumFunction
  <1> HIDE DEF f, g
  <1> QED
    BY <1>1, <1>2, <1>3, SumType

(* All that is left, in one leg.                                           *)
LEMMA RestBooked ==
    ASSUME NEW p \in PositionFields, NEW price \in Int
    PROVE  LET q == Book(p, {[tp |-> 0, price |-> price, frac |-> p.left]})
           IN  /\ q.left = 0 /\ q.booked \in Int
               /\ q.plan = p.plan /\ q.lots = p.lots /\ q.taken = p.taken
  <1> DEFINE leg == [tp |-> 0, price |-> price, frac |-> p.left]
             q == Book(p, {leg})
             f == [l \in {leg} |-> l.frac]
  <1>1. leg \in LegFields /\ p.left \in Int /\ leg.frac = p.left /\ p.booked \in Int
    BY DEF LegFields, PositionFields
  <1>2. Realized(p, {leg}) \in Int
    BY <1>1, LegsAddUp, FS_Singleton
  <1>3. Closed({leg}) = p.left
    <2>1. f \in [{leg} -> Int] /\ f[leg] = p.left /\ DOMAIN f = {leg}
      BY <1>1
    <2>2. Closed({leg}) = SumFunctionOnSet(f, {leg})
      BY <2>1 DEF Closed, SumFunction
    <2> HIDE DEF f, leg
    <2> QED
      BY <2>1, <2>2, SumOfOne
  <1>4. {l.tp : l \in {leg}} \ {0} = {}
    OBVIOUS
  <1> HIDE DEF leg
  <1>5. /\ q.left = p.left - Closed({leg}) /\ q.booked = p.booked + Realized(p, {leg})
        /\ q.plan = p.plan /\ q.lots = p.lots /\ q.taken = p.taken
    BY <1>4 DEF Book, PositionFields
  <1>6. q.left = 0 /\ q.booked \in Int
    <2> HIDE DEF q
    <2> QED
      BY <1>1, <1>2, <1>3, <1>5
  <1> QED
    BY <1>5, <1>6 DEF leg

(* Without a stop, the targets that are hit close their fractions.         *)
LEMMA TargetsBooked ==
    ASSUME NEW p \in PositionFields, Accounted(p), p.left \in 1..Whole, NEW price \in Int,
           ~StopHit(p, price, price)
    PROVE  LET legs == EvaluateExit(p, price, price)
               hits == Hits(p, price, price)
           IN  /\ legs \in SUBSET LegFields /\ IsFiniteSet(legs)
               /\ ~Stopped(legs)
               /\ {leg.tp : leg \in legs} = hits /\ 0 \notin hits
               /\ Closed(legs) = SumFunctionOnSet(Fractions(p.plan), hits)
  <1> DEFINE hits == Hits(p, price, price)
             f == Fractions(p.plan)
             D == DOMAIN p.plan.tps
             name == [i \in hits |-> [tp |-> i, price |-> p.plan.tps[i].price,
                                      frac |-> p.plan.tps[i].frac]]
             named == {name[i] : i \in hits}
             legs == EvaluateExit(p, price, price)
             g == [leg \in legs |-> leg.frac]
  <1>1. /\ p.plan \in Signals /\ f \in [D -> Int] /\ D \subseteq Nat \ {0} /\ IsFiniteSet(D)
        /\ \A i \in D : /\ p.plan.tps[i].price \in Int /\ p.plan.tps[i].frac \in 1..Whole
                        /\ f[i] = p.plan.tps[i].frac
    <2>1. p.plan \in Signals
      BY DEF PositionFields
    <2> QED
      BY <2>1, SignalFacts
  <1>2. hits \in SUBSET (D \ p.taken) /\ hits \in SUBSET D
    BY DEF Hits
  <1> HIDE DEF hits, D, f
  <1>3. IsFiniteSet(hits)
    BY <1>1, <1>2, FS_Subset
  <1>4. \A i \in hits : TargetFraction(p, i, hits) = p.plan.tps[i].frac
    BY <1>2, TargetsCloseTheirs DEF D
  <1>5. legs = {leg \in {[tp |-> i, price |-> p.plan.tps[i].price,
                          frac |-> TargetFraction(p, i, hits)] : i \in hits} : leg.frac > 0}
    BY DEF EvaluateExit, hits
  <1>6. {[tp |-> i, price |-> p.plan.tps[i].price, frac |-> TargetFraction(p, i, hits)]
            : i \in hits} = named
    BY <1>4
  <1>7. \A i \in hits : /\ name[i] \in LegFields /\ name[i].frac > 0
                        /\ name[i].tp = i /\ i # 0 /\ name[i].frac = f[i]
    BY <1>1, <1>2, ExitAssumption DEF LegFields
  <1>8. legs = named
    <2>1. {leg \in named : leg.frac > 0} = named
      BY <1>7
    <2> HIDE DEF named, legs
    <2> QED
      BY <1>5, <1>6, <2>1, Zenon
  <1> HIDE DEF legs, name
  <1>9. legs \in SUBSET LegFields /\ ~Stopped(legs) /\ 0 \notin hits
    BY <1>7, <1>8 DEF Stopped
  <1>10. IsFiniteSet(legs)
    <2>1. IsFiniteSet(named)
      BY <1>3, NamesFinite
    <2> HIDE DEF named
    <2> QED
      BY <1>8, <2>1, Zenon
  <1>11. {leg.tp : leg \in legs} = hits
    BY <1>7, <1>8
  <1>12. Closed(legs) = SumFunctionOnSet(f, hits)
    <2>1. g \in [legs -> Int] /\ DOMAIN g = legs
      BY <1>9 DEF LegFields
    <2>2. Closed(legs) = SumFunctionOnSet(g, legs)
      BY <2>1 DEF Closed, SumFunction
    <2>3. \A i \in hits : name[i] \in legs /\ g[name[i]] = f[i]
      BY <1>7, <1>8
    <2>4. \A i, j \in hits : name[i] = name[j] => i = j
      BY <1>7
    <2> HIDE DEF g
    <2>5. legs = {name[i] : i \in hits}
      BY <1>8 DEF named
    <2> HIDE DEF named
    <2>6. SumFunctionOnSet(g, legs) = SumFunctionOnSet(f, hits)
      <3>1. Renames(name, hits, legs, f, g)
        BY <2>3, <2>4, <2>5 DEF Renames
      <3> QED
        <4>1. /\ f \in [D -> Int] /\ hits \in SUBSET D /\ IsFiniteSet(hits)
              /\ g \in [legs -> Int]
          BY <1>1, <1>2, <1>3, <2>1
        <4> QED
          BY <3>1, <4>1, SumOfNames
    <2> QED
      BY <2>2, <2>6, Zenon
  <1> QED
    BY <1>9, <1>10, <1>11, <1>12 DEF legs, hits, f

(* Not at or beyond its stop, nor a target it has not taken.               *)
NotDue(p, price) ==
    /\ Gain(p.plan.dir, p.stop, price) > 0
    /\ \A i \in DOMAIN p.plan.tps \ p.taken : Gain(p.plan.dir, price, p.plan.tps[i].price) > 0

LEMMA TickManaged ==
    ASSUME NEW p \in Position, NEW price \in Int
    PROVE  LET moved == ApplyDynamicStop(UpdateExcursion(p, price))
               legs  == EvaluateExit(moved, price, price)
               q     == Book(moved, legs)
           IN  /\ q.plan = p.plan /\ q.lots = p.lots /\ q.booked \in Int
               /\ IF legs # {} /\ (q.left = 0 \/ Stopped(legs)) THEN q.left = 0
                  ELSE q \in Position /\ NotDue(q, price)
  <1> DEFINE m == ApplyDynamicStop(UpdateExcursion(p, price))
             legs == EvaluateExit(m, price, price)
             q == Book(m, legs)
             hits == Hits(m, price, price)
             total == SumFunctionOnSet(Fractions(m.plan), hits)
  <1>1. p \in PositionFields /\ Accounted(p) /\ p.left \in 1..Whole
    BY DEF Position
  <1>2. m \in PositionFields /\ SamePosition(p, m)
    BY <1>1, StopMoves
  <1>3. Accounted(m) /\ m.left \in 1..Whole
    BY <1>1, <1>2 DEF Accounted, Taken, SamePosition
  <1> HIDE DEF m
  <1>4. m.plan = p.plan /\ m.lots = p.lots /\ m.booked \in Int /\ m.plan \in Signals
    BY <1>2 DEF SamePosition, PositionFields
  <1>5. CASE StopHit(m, price, price)
    <2>1. legs = {[tp |-> 0, price |-> m.stop, frac |-> m.left]}
      BY <1>5 DEF EvaluateExit
    <2>2. m.stop \in Int
      BY <1>2 DEF PositionFields
    <2>3. legs # {} /\ Stopped(legs)
      BY <2>1 DEF Stopped
    <2>4. q.left = 0 /\ q.booked \in Int /\ q.plan = m.plan /\ q.lots = m.lots
      <3>1. q = Book(m, {[tp |-> 0, price |-> m.stop, frac |-> m.left]})
        BY <2>1, Zenon
      <3> HIDE DEF q
      <3> QED
        BY <1>2, <2>2, <3>1, RestBooked
    <2> HIDE DEF q, legs
    <2>5. /\ q.plan = p.plan /\ q.lots = p.lots /\ q.booked \in Int
          /\ legs # {} /\ (q.left = 0 \/ Stopped(legs)) /\ q.left = 0
      BY <1>4, <2>3, <2>4
    <2> QED
      BY <2>5 DEF q, legs, m
  <1>6. CASE ~StopHit(m, price, price)
    <2>1. /\ legs \in SUBSET LegFields /\ IsFiniteSet(legs) /\ ~Stopped(legs)
          /\ {leg.tp : leg \in legs} = hits /\ 0 \notin hits /\ Closed(legs) = total
      BY <1>2, <1>3, <1>6, TargetsBooked
    <2>2. Realized(m, legs) \in Int /\ Closed(legs) \in Int
      BY <1>2, <2>1, LegsAddUp
    <2>3. hits \in SUBSET (DOMAIN m.plan.tps \ m.taken)
      BY DEF Hits
    <2>4. /\ total <= m.left /\ total \in Int /\ Taken(m) \in Int
          /\ SumFunctionOnSet(Fractions(m.plan), m.taken \cup hits) = Taken(m) + total
      <3> HIDE DEF hits
      <3> QED
        BY <1>2, <1>3, <2>3, RoomForTargets
    <2>5. {leg.tp : leg \in legs} \ {0} = hits
      BY <2>1
    <2> HIDE DEF hits, legs
    <2> DEFINE left == m.left - Closed(legs)
               booked == m.booked + Realized(m, legs)
               taken == m.taken \cup hits
    <2>6. q = [m EXCEPT !.left = left, !.booked = booked, !.taken = taken]
      <3>1. m.taken \cup ({leg.tp : leg \in legs} \ {0}) = taken
        BY <2>5
      <3>2. q = [m EXCEPT !.left = left, !.booked = booked,
                          !.taken = m.taken \cup ({leg.tp : leg \in legs} \ {0})]
        BY DEF Book
      <3> HIDE DEF left, booked, taken, q
      <3> QED
        BY <3>1, <3>2, Zenon
    <2>7. left \in Int /\ left >= 0 /\ left <= Whole /\ booked \in Int /\ left = m.left - total
      <3> HIDE DEF total
      <3>1. Closed(legs) >= 0
        <4>1. total >= 0
          BY <1>4, <2>3, SignalFacts, SumNonnegative, FS_Subset, ExitAssumption DEF total
        <4> QED
          BY <2>1, <4>1
      <3> QED
        BY <1>3, <1>4, <2>1, <2>2, <2>4, <3>1, ExitAssumption
    <2>8. taken \subseteq DOMAIN m.plan.tps /\ taken \in SUBSET Nat
      <3>1. DOMAIN m.plan.tps \subseteq Nat
        BY <1>4, SignalFacts
      <3> QED
        BY <1>3, <2>3, <3>1 DEF Accounted
    <2>9. left = Whole - SumFunctionOnSet(Fractions(m.plan), taken)
      <3>1. m.left = Whole - Taken(m)
        BY <1>3 DEF Accounted
      <3>2. SumFunctionOnSet(Fractions(m.plan), taken) = Taken(m) + total
        BY <2>4
      <3> HIDE DEF total, left, taken
      <3> QED
        BY <2>4, <2>7, <3>1, <3>2, ExitAssumption
    <2> HIDE DEF left, booked, taken, q
    <2>10. /\ q \in PositionFields /\ q.left = left /\ q.booked = booked /\ q.taken = taken
           /\ q.plan = m.plan /\ q.lots = m.lots /\ q.stop = m.stop
      BY <1>2, <2>6, <2>7, <2>8 DEF PositionFields
    <2>11. Accounted(q)
      BY <2>8, <2>9, <2>10 DEF Accounted, Taken
    <2>12. NotDue(q, price)
      <3>1. m.plan.dir \in Directions /\ \A i \in DOMAIN m.plan.tps : m.plan.tps[i].price \in Int
        BY <1>4, SignalFacts
      <3>2. m.stop \in Int
        BY <1>2 DEF PositionFields
      <3>3. Gain(m.plan.dir, m.stop, price) > 0
        BY <1>6, <3>1, <3>2 DEF StopHit, Gain, Sign, Directions
      <3>4. ASSUME NEW i \in DOMAIN m.plan.tps \ taken
            PROVE  Gain(m.plan.dir, price, m.plan.tps[i].price) > 0
        <4>1. ~TargetHit(m, i, price, price)
          BY DEF taken, hits, Hits
        <4> QED
          BY <3>1, <4>1 DEF TargetHit, Gain, Sign, Directions
      <3> QED
        BY <2>10, <3>3, <3>4 DEF NotDue
    <2>13. (legs # {} /\ (q.left = 0 \/ Stopped(legs))) \/ q.left # 0
      <3> SUFFICES ASSUME legs = {} PROVE q.left # 0
        BY <2>1
      <3>1. total = 0
        <4>1. hits = {}
          BY <2>1
        <4>2. total = SumFunctionOnSet(Fractions(m.plan), {})
          BY <4>1, Zenon
        <4> QED
          BY <1>4, <4>2, SignalFacts, SumEmpty
      <3> HIDE DEF total
      <3> QED
        BY <1>3, <2>7, <2>10, <3>1
    <2> QED
      BY <1>4, <2>1, <2>7, <2>10, <2>11, <2>12, <2>13 DEF Position, q, legs, m
  <1> QED
    BY <1>5, <1>6

-----------------------------------------------------------------------------
(* One position in a pass.                                                 *)
LEMMA PositionCloses ==
    ASSUME NEW x \in Executor, NEW q, NEW reason \in Reasons,
           q.booked \in Int, q.lots \in Int, q.left \in Int,
           reason \in {"STOP_LOSS", "TAKE_PROFIT", "TIME_STOP"} => q.left = 0
    PROVE  LET z == ClosePosition(x, q, reason)
           IN  /\ z \in Executor /\ z.positions = x.positions /\ z.arms = x.arms
               /\ z.price = x.price /\ z.opened = x.opened
               /\ z.open = x.open \ {q.plan.key}
  <1> DEFINE n == q.booked * q.lots - LotCost * q.lots
             g == RealizePnl(x.guard, n)
             c == [reason |-> reason, unbooked |-> q.left]
             closes == Append(x.closes, c)
             open == x.open \ {q.plan.key}
  <1>1. x.guard \in Guard /\ x.closes \in Seq(Close) /\ x.open \in SUBSET Keys
    BY DEF Executor
  <1>2. n \in Int
    BY AccountAssumption
  <1> HIDE DEF n
  <1>3. g \in Guard
    BY <1>1, <1>2, GuardBooked
  <1>4. c \in Close
    BY DEF Close
  <1> HIDE DEF c, g
  <1>5. closes \in Seq(Close) /\ open \in SUBSET Keys
    BY <1>1, <1>4
  <1>6. ClosePosition(x, q, reason) = [x EXCEPT !.guard = g, !.open = open, !.closes = closes]
    BY DEF ClosePosition, g, n, c
  <1> HIDE DEF open, closes
  <1>7. /\ [x EXCEPT !.guard = g, !.open = open, !.closes = closes] \in Executor
        /\ [x EXCEPT !.guard = g, !.open = open, !.closes = closes].open = open
    BY <1>3, <1>5 DEF Executor
  <1> QED
    BY <1>6, <1>7 DEF Executor, open

LEMMA PositionStays ==
    ASSUME NEW x \in Executor, NEW q \in Position
    PROVE  LET z == [x EXCEPT !.positions = Append(@, q)]
           IN  /\ z \in Executor /\ z.positions = Append(x.positions, q) /\ z.arms = x.arms
               /\ z.price = x.price /\ z.opened = x.opened /\ z.open = x.open
  <1>1. Append(x.positions, q) \in Seq(Position)
    BY DEF Executor
  <1> QED
    BY <1>1 DEF Executor

Calls == [kind : {"tick"}, price : Prices] \cup [kind : {"candle"}]
            \cup [kind : {"flatten"}, reason : {"EOD_FLATTEN", "MANUAL"}]

(* A position leaves a call closed, or as a position of the same plan.     *)
Left(x, p, z) ==
    /\ z.positions = x.positions
    /\ z.open = x.open \ {p.plan.key}

Kept(x, p, z, q) ==
    /\ q \in Position /\ q.plan = p.plan
    /\ z.positions = Append(x.positions, q)
    /\ z.open = x.open

SameElse(x, z) == z.arms = x.arms /\ z.price = x.price /\ z.opened = x.opened

LEMMA OneHandled ==
    ASSUME NEW x \in Executor, NEW p \in Position, NEW call \in Calls
    PROVE  LET z == Handled(x, p, call)
           IN  /\ z \in Executor /\ SameElse(x, z)
               /\ \/ Left(x, p, z)
                  \/ \E q : Kept(x, p, z, q) /\ (call.kind = "tick" => NotDue(q, call.price))
  <1> DEFINE z == Handled(x, p, call)
  <1>0. /\ p \in PositionFields /\ p.left \in Int /\ p.lots \in Int /\ p.booked \in Int
        /\ p.entry \in Int /\ p.bars \in Nat /\ p.plan \in Signals /\ Accounted(p)
        /\ \A price \in Prices : price \in Int
    BY AccountAssumption, SignalsAssumption DEF Position, PositionFields
  <1>1. CASE call \in [kind : {"tick"}, price : Prices]
    <2> DEFINE m == ApplyDynamicStop(UpdateExcursion(p, call.price))
               legs == EvaluateExit(m, call.price, call.price)
               q == Book(m, legs)
               closes == legs # {} /\ (q.left = 0 \/ Stopped(legs))
               reason == IF Stopped(legs) THEN "STOP_LOSS" ELSE "TAKE_PROFIT"
    <2>1. call.kind = "tick" /\ call.price \in Prices /\ call.price \in Int
      BY <1>0, <1>1
    <2>2. /\ q.plan = p.plan /\ q.lots = p.lots /\ q.booked \in Int
          /\ IF closes THEN q.left = 0 ELSE q \in Position /\ NotDue(q, call.price)
      BY <2>1, TickManaged
    <2>3. z = IF closes THEN ClosePosition(x, q, reason)
              ELSE [x EXCEPT !.positions = Append(@, q)]
      BY <2>1 DEF Handled, ManageOne, Settle
    <2>4. reason \in Reasons
      BY DEF Reasons
    <2> HIDE DEF m, legs, q, closes, reason, z
    <2>5. CASE closes
      <3>1. z \in Executor /\ SameElse(x, z) /\ Left(x, p, z)
        BY <1>0, <2>2, <2>3, <2>4, <2>5, PositionCloses DEF SameElse, Left
      <3> QED
        BY <3>1 DEF z
    <2>6. CASE ~closes
      <3>1. z \in Executor /\ SameElse(x, z) /\ Kept(x, p, z, q)
        BY <2>2, <2>3, <2>6, PositionStays DEF SameElse, Kept
      <3> QED
        BY <2>2, <2>6, <3>1 DEF z
    <2> QED
      BY <2>5, <2>6
  <1>2. CASE call \in [kind : {"candle"}]
    <2> DEFINE bars == Min({p.bars + 1, p.plan.timeBars})
               older == [p EXCEPT !.bars = bars]
               price == IF x.price[older.plan.key.inst] = 0 THEN older.entry
                        ELSE x.price[older.plan.key.inst]
               q == Book(older, {[tp |-> 0, price |-> price, frac |-> older.left]})
    <2>1. call.kind = "candle"
      BY <1>2
    <2>2. bars \in Nat
      <3>1. p.plan.timeBars \in Nat
        BY <1>0, SignalFacts
      <3> QED
        BY <1>0, <3>1, MinOfTwo
    <2> HIDE DEF bars
    <2>3. /\ older \in PositionFields /\ older.plan = p.plan /\ older.left = p.left
          /\ older.lots = p.lots /\ older.entry = p.entry /\ older.taken = p.taken
      BY <1>0, <2>2 DEF PositionFields
    <2>4. older \in Position
      BY <1>0, <2>3 DEF Position, Accounted, Taken
    <2>5. price \in Int
      <3>1. p.plan.key \in Keys /\ p.plan.key.inst \in Instruments
        BY <1>0, SignalFacts, AccountAssumption
      <3>2. x.price[p.plan.key.inst] \in Prices \cup {0}
        BY <3>1 DEF Executor
      <3> HIDE DEF older
      <3> QED
        BY <1>0, <2>3, <3>2
    <2>6. z = IF TimeStopReached(older) THEN ClosePosition(x, q, "TIME_STOP")
              ELSE [x EXCEPT !.positions = Append(@, older)]
      BY <2>1 DEF Handled, AgeOne, CloseAtMarket, Settle, bars
    <2>7. q.left = 0 /\ q.booked \in Int /\ q.plan = p.plan /\ q.lots = p.lots
      <3> HIDE DEF older, price
      <3> QED
        BY <2>3, <2>5, RestBooked
    <2> HIDE DEF older, price, q, z
    <2>8. CASE TimeStopReached(older)
      <3>1. "TIME_STOP" \in Reasons
        BY DEF Reasons
      <3>2. z \in Executor /\ SameElse(x, z) /\ Left(x, p, z)
        BY <1>0, <2>6, <2>7, <2>8, <3>1, PositionCloses DEF SameElse, Left
      <3> QED
        BY <3>2 DEF z
    <2>9. CASE ~TimeStopReached(older)
      <3>1. z \in Executor /\ SameElse(x, z) /\ Kept(x, p, z, older)
        BY <2>3, <2>4, <2>6, <2>9, PositionStays DEF SameElse, Kept
      <3> QED
        BY <2>1, <3>1 DEF z
    <2> QED
      BY <2>8, <2>9
  <1>3. CASE call \in [kind : {"flatten"}, reason : {"EOD_FLATTEN", "MANUAL"}]
    <2>1. /\ call.kind = "flatten" /\ call.reason \in Reasons
          /\ call.reason \notin {"STOP_LOSS", "TAKE_PROFIT", "TIME_STOP"}
      BY <1>3 DEF Reasons
    <2>2. z = ClosePosition(x, p, call.reason)
      BY <2>1 DEF Handled, Settle
    <2> HIDE DEF z
    <2>3. z \in Executor /\ SameElse(x, z) /\ Left(x, p, z)
      BY <1>0, <2>1, <2>2, PositionCloses DEF SameElse, Left
    <2> QED
      BY <2>3 DEF z
  <1> QED
    BY <1>1, <1>2, <1>3 DEF Calls

-----------------------------------------------------------------------------
(* The pass over the positions.                                            *)
KeysIn(list, s) == {list[i].plan.key : i \in s}

KeysOf(list) == KeysIn(list, DOMAIN list)

Apart(list) == \A i, j \in DOMAIN list : list[i].plan.key = list[j].plan.key => i = j

LEMMA KeyAppended ==
    ASSUME NEW T, NEW list \in Seq(T), NEW q \in T
    PROVE  /\ KeysOf(Append(list, q)) = KeysOf(list) \cup {q.plan.key}
           /\ Apart(list) /\ q.plan.key \notin KeysOf(list) => Apart(Append(list, q))
           /\ \A i \in DOMAIN Append(list, q) :
                 \/ i \in DOMAIN list /\ Append(list, q)[i] = list[i]
                 \/ Append(list, q)[i] = q
  <1> DEFINE n == Len(list)
             new == Append(list, q)
  <1>1. /\ n \in Nat /\ DOMAIN list = 1..n /\ DOMAIN new = 1..(n + 1)
        /\ new[n + 1] = q /\ \A i \in 1..n : new[i] = list[i]
    OBVIOUS
  <1> HIDE DEF n, new
  <1>2. \A i \in DOMAIN new : i \in DOMAIN list \/ i = n + 1
    BY <1>1
  <1>3. DOMAIN list \subseteq DOMAIN new /\ n + 1 \in DOMAIN new /\ n + 1 \notin DOMAIN list
    BY <1>1
  <1>4. \A i \in DOMAIN list : new[i] = list[i]
    BY <1>1
  <1>5. KeysOf(new) = KeysOf(list) \cup {q.plan.key}
    BY <1>1, <1>2, <1>3, <1>4 DEF KeysOf, KeysIn
  <1>6. Apart(list) /\ q.plan.key \notin KeysOf(list) => Apart(new)
    BY <1>1, <1>2, <1>4 DEF Apart, KeysOf, KeysIn
  <1>7. \A i \in DOMAIN new : (i \in DOMAIN list /\ new[i] = list[i]) \/ new[i] = q
    BY <1>1, <1>2, <1>4
  <1> QED
    BY <1>5, <1>6, <1>7 DEF new

(* After k positions: they are kept or gone, the others are still to come. *)
PassDone(x, y, k, insts, call) ==
    /\ y \in Executor /\ SameElse(x, y)
    /\ Apart(y.positions)
    /\ KeysOf(y.positions) \subseteq KeysIn(x.positions, 1..k)
    /\ y.open = KeysOf(y.positions) \cup KeysIn(x.positions, (k + 1)..Len(x.positions))
    /\ call.kind = "tick" =>
          \A i \in DOMAIN y.positions :
              y.positions[i].plan.key.inst \in insts => NotDue(y.positions[i], call.price)

LEMMA OnePassed ==
    ASSUME NEW x \in Executor, Apart(x.positions), NEW k \in 1..Len(x.positions),
           NEW insts, NEW call, NEW y, PassDone(x, y, k - 1, insts, call),
           NEW z \in Executor, SameElse(y, z), NEW p, p = x.positions[k],
           \/ Left(y, p, z)
           \/ \E q : /\ Kept(y, p, z, q)
                     /\ call.kind = "tick" /\ p.plan.key.inst \in insts
                        => NotDue(q, call.price)
    PROVE  PassDone(x, z, k, insts, call)
  <1> DEFINE n == Len(x.positions)
             key == p.plan.key
             done == KeysIn(x.positions, 1..(k - 1))
             rest == KeysIn(x.positions, (k + 1)..n)
  <1>1. /\ n \in Nat /\ DOMAIN x.positions = 1..n /\ x.positions \in Seq(Position)
    BY DEF Executor
  <1>2. /\ KeysIn(x.positions, 1..k) = done \cup {key}
        /\ KeysIn(x.positions, k..n) = {key} \cup rest
    <2>1. 1..k = (1..(k - 1)) \cup {k} /\ k..n = {k} \cup ((k + 1)..n)
      BY <1>1
    <2> QED
      BY <2>1 DEF KeysIn
  <1>3. key \notin done /\ key \notin rest
    <2> DEFINE P == x.positions
    <2>1. \A i, j \in 1..n : P[i].plan.key = P[j].plan.key => i = j
      BY <1>1 DEF Apart
    <2>2. k \in 1..n /\ key = P[k].plan.key
      OBVIOUS
    <2> HIDE DEF P, n, key
    <2>3. \A i \in (1..(k - 1)) \cup ((k + 1)..n) : i \in 1..n /\ i # k
      BY <1>1, <2>2
    <2>4. \A i \in (1..(k - 1)) \cup ((k + 1)..n) : P[i].plan.key # key
      BY <2>1, <2>2, <2>3
    <2> QED
      BY <2>4 DEF KeysIn, P
  <1>4. /\ y \in Executor /\ SameElse(x, y) /\ Apart(y.positions) /\ KeysOf(y.positions) \subseteq done
        /\ y.open = KeysOf(y.positions) \cup KeysIn(x.positions, k..n)
        /\ call.kind = "tick" =>
              \A i \in DOMAIN y.positions :
                  y.positions[i].plan.key.inst \in insts => NotDue(y.positions[i], call.price)
    <2>1. k - 1 + 1 = k
      OBVIOUS
    <2> QED
      BY <2>1 DEF PassDone
  <1>5. SameElse(x, z)
    BY <1>4 DEF SameElse
  <1> HIDE DEF n, key, done, rest
  <1>6. CASE Left(y, p, z)
    <2>1. z.positions = y.positions /\ z.open = y.open \ {key}
      BY <1>6 DEF Left, key
    <2>2. z.open = KeysOf(z.positions) \cup rest
      BY <1>2, <1>3, <1>4, <2>1
    <2> QED
      BY <1>2, <1>4, <1>5, <2>1, <2>2 DEF PassDone, rest, n
  <1>7. ASSUME NEW q, Kept(y, p, z, q),
               call.kind = "tick" /\ p.plan.key.inst \in insts => NotDue(q, call.price)
        PROVE  PassDone(x, z, k, insts, call)
    <2>1. /\ z.positions = Append(y.positions, q) /\ z.open = y.open
          /\ q \in Position /\ q.plan = p.plan /\ q.plan.key = key
      BY <1>7 DEF Kept, key
    <2>2. y.positions \in Seq(Position)
      BY <1>4 DEF Executor
    <2>3. key \notin KeysOf(y.positions)
      BY <1>3, <1>4
    <2>4. /\ KeysOf(z.positions) = KeysOf(y.positions) \cup {key}
          /\ Apart(z.positions)
      BY <1>4, <2>1, <2>2, <2>3, KeyAppended
    <2>5. \A i \in DOMAIN z.positions :
             \/ i \in DOMAIN y.positions /\ z.positions[i] = y.positions[i]
             \/ z.positions[i] = q
      BY <2>1, <2>2, KeyAppended
    <2>6. call.kind = "tick" =>
             \A i \in DOMAIN z.positions :
                 z.positions[i].plan.key.inst \in insts => NotDue(z.positions[i], call.price)
      BY <1>4, <1>7, <2>1, <2>5
    <2>7. z.open = KeysOf(z.positions) \cup rest
      BY <1>2, <1>4, <2>1, <2>4
    <2> QED
      BY <1>2, <1>4, <1>5, <2>4, <2>6, <2>7 DEF PassDone, rest, n
  <1> QED
    BY <1>6, <1>7

LEMMA AllPassed ==
    ASSUME NEW x \in Executor, Apart(x.positions), x.open = KeysOf(x.positions),
           NEW insts, NEW call \in Calls
    PROVE  PassDone(x, Pass(x, insts, call), Len(x.positions), insts, call)
  <1> DEFINE n == Len(x.positions)
             D == 1..n
             P == x.positions
             base == [x EXCEPT !.positions = <<>>]
             op(y, p) == IF p.plan.key.inst \in insts THEN Handled(y, p, call)
                         ELSE Settle(y, p, FALSE, "")
             step == [k \in D |-> [y \in Executor |-> op(y, P[k])]]
             Folds(f) == f = [s \in SUBSET D |-> IF s = {} THEN base
                                                 ELSE op(f[s \ {Max(s)}], P[Max(s)])]
             g == CHOOSE f : Folds(f)
  <1>1. n \in Nat /\ DOMAIN P = D /\ P \in Seq(Position) /\ \A k \in D : P[k] \in Position
    BY DEF Executor
  <1>2. Pass(x, insts, call) = (CHOOSE f : Folds(f))[D]
    <2>1. Pass(x, insts, call) =
             (CHOOSE f : f = [s \in SUBSET DOMAIN P |-> IF s = {} THEN base
                                 ELSE op(f[s \ {Max(s)}], P[Max(s)])])[DOMAIN P]
      BY DEF Pass, FoldLeft, MapThenFoldSet
    <2> QED
      BY <1>1, <2>1, Zenon
  <1>3. base \in Executor /\ base.positions = <<>> /\ SameElse(x, base) /\ base.open = x.open
    <2>1. <<>> \in Seq(Position)
      OBVIOUS
    <2> HIDE DEF P, op, g, Folds, step
    <2> QED
      BY <2>1 DEF Executor, SameElse
  <1>4. ASSUME NEW y \in Executor, NEW k \in D
        PROVE  /\ op(y, P[k]) \in Executor /\ SameElse(y, op(y, P[k]))
               /\ \/ Left(y, P[k], op(y, P[k]))
                  \/ \E q : /\ Kept(y, P[k], op(y, P[k]), q)
                            /\ call.kind = "tick" /\ P[k].plan.key.inst \in insts
                               => NotDue(q, call.price)
    <2> DEFINE z == op(y, P[k])
               p == P[k]
    <2>0. p \in Position
      BY <1>1
    <2> HIDE DEF P, p
    <2>1. CASE p.plan.key.inst \in insts
      <3>1. z = Handled(y, p, call)
        BY <2>1 DEF p
      <3> HIDE DEF z
      <3>2. /\ z \in Executor /\ SameElse(y, z)
            /\ \/ Left(y, p, z)
               \/ \E q : Kept(y, p, z, q) /\ (call.kind = "tick" => NotDue(q, call.price))
        BY <2>0, <3>1, OneHandled
      <3> QED
        BY <3>2 DEF z, p
    <2>2. CASE p.plan.key.inst \notin insts
      <3>1. z = [y EXCEPT !.positions = Append(@, p)]
        BY <2>2 DEF Settle, p
      <3> HIDE DEF z
      <3>2. z \in Executor /\ SameElse(y, z) /\ Kept(y, p, z, p)
        BY <2>0, <3>1, PositionStays DEF SameElse, Kept
      <3> QED
        BY <2>2, <3>2 DEF z, p
    <2> QED
      BY <2>1, <2>2
  <1> HIDE DEF P, base, op
  <1>5. PICK f : Recursive(f, D, Executor, base, LastOf(n), step)
    <2>1. step \in [D -> [Executor -> Executor]]
      BY <1>4
    <2> HIDE DEF step
    <2> QED
      BY <1>1, <1>3, <2>1, PrefixRecursion
  <1>6. Folds(f)
    <2>1. /\ f \in [SUBSET D -> Executor] /\ f[{}] = base
          /\ \A s \in SUBSET D : s # {} => f[s] = step[LastOf(n)[s]][f[s \ {LastOf(n)[s]}]]
      BY <1>5 DEF Recursive
    <2>2. ASSUME NEW s \in SUBSET D, s # {} PROVE f[s] = op(f[s \ {Max(s)}], P[Max(s)])
      <3>1. Max(s) \in D /\ LastOf(n)[s] = Max(s)
        BY <1>1, <2>2, MaxIsLast DEF LastOf
      <3>2. f[s \ {Max(s)}] \in Executor
        BY <2>1
      <3> QED
        BY <2>1, <2>2, <3>1, <3>2
    <2> QED
      BY <2>1, <2>2
  <1>7. Folds(g)
    BY <1>6
  <1> HIDE DEF g
  <1> DEFINE S == {k \in 0..n : PassDone(x, g[1..k], k, insts, call)}
  <1>8. 0 \in S
    <2>1. (1..0) = {} /\ {} \in SUBSET D
      OBVIOUS
    <2>2. g[1..0] = base
      BY <1>7, <2>1
    <2>3. KeysOf(base.positions) = {} /\ Apart(base.positions) /\ DOMAIN base.positions = {}
      BY <1>3 DEF KeysOf, KeysIn, Apart
    <2>4. x.open = KeysIn(x.positions, (0 + 1)..n)
      BY <1>1 DEF KeysOf, P
    <2>5. base.open = KeysOf(base.positions) \cup KeysIn(x.positions, (0 + 1)..n)
      BY <1>3, <2>3, <2>4
    <2>6. PassDone(x, base, 0, insts, call)
      BY <1>3, <2>3, <2>5 DEF PassDone
    <2> QED
      BY <1>1, <2>2, <2>6
  <1>9. ASSUME NEW k \in 1..n, k - 1 \in S PROVE k \in S
    <2>1. g[1..k] = op(g[1..(k - 1)], P[k])
      BY <1>1, <1>7, PrefixParts
    <2>2. PassDone(x, g[1..(k - 1)], k - 1, insts, call) /\ k \in 0..n /\ k \in D
      BY <1>1, <1>9
    <2>3. g[1..(k - 1)] \in Executor
      BY <2>2 DEF PassDone
    <2> DEFINE y == g[1..(k - 1)]
               z == g[1..k]
    <2> HIDE DEF y, z, D, Folds, S
    <2>4. /\ z \in Executor /\ SameElse(y, z)
          /\ \/ Left(y, P[k], z)
             \/ \E q : /\ Kept(y, P[k], z, q)
                       /\ call.kind = "tick" /\ P[k].plan.key.inst \in insts
                          => NotDue(q, call.price)
      BY <1>4, <2>1, <2>2, <2>3 DEF y, z
    <2>5. PassDone(x, z, k, insts, call)
      BY <2>2, <2>4, OnePassed DEF y, P
    <2> QED
      BY <2>2, <2>5 DEF z, S
  <1>10. 0..n \subseteq S
    <2> HIDE DEF S
    <2> QED
      BY <1>1, <1>8, <1>9, StepByStep
  <1>11. PassDone(x, g[D], n, insts, call)
    BY <1>1, <1>10
  <1> QED
    BY <1>2, <1>11 DEF g

-----------------------------------------------------------------------------
(* An entry.                                                               *)
LEMMA LotsFit ==
    ASSUME NEW dist \in Nat
    PROVE  LotSize(dist) \in 0..MaxLot
  <1> DEFINE d == 100 * dist * Whole
             b == SizingBalance * RiskPct
  <1>1. CASE dist = 0
    BY <1>1, AccountAssumption DEF LotSize
  <1>2. CASE dist # 0
    <2>1. d \in Nat \ {0} /\ b \in Nat
      BY <1>2, AccountAssumption, ExitAssumption
    <2> HIDE DEF d, b
    <2>2. b \div d \in Nat
      BY <2>1
    <2>3. Min({MaxLot, b \div d}) \in 0..MaxLot
      BY <2>2, MinOfTwo, AccountAssumption
    <2> QED
      BY <1>2, <2>3 DEF LotSize, d, b
  <1> QED
    BY <1>1, <1>2

LEMMA Opened ==
    ASSUME NEW s \in Signals, NEW price \in Int, NEW lots \in 1..MaxLot
    PROVE  NewPosition(s, price, lots) \in Position
  <1> DEFINE q == NewPosition(s, price, lots)
  <1>1. q.plan = s /\ q.taken = {} /\ q.left = Whole
    BY DEF NewPosition
  <1>2. q \in PositionFields
    <2>1. s.sl \in Int /\ Whole \in Int
      BY SignalFacts, ExitAssumption
    <2> QED
      BY <2>1 DEF NewPosition, PositionFields
  <1>3. Taken(q) = 0
    <2>1. Taken(q) = SumFunctionOnSet(Fractions(s), {})
      BY <1>1 DEF Taken
    <2> QED
      BY <2>1, SignalFacts, SumEmpty
  <1> HIDE DEF q
  <1>4. q.left \in 1..Whole /\ Accounted(q)
    BY <1>1, <1>3, ExitAssumption DEF Accounted
  <1> QED
    BY <1>2, <1>4 DEF Position, q

(* Nothing is opened, or one position of that signal by a guard that trades.*)
Stays(x, z) == z.positions = x.positions /\ z.open = x.open /\ z.opened = x.opened

Opens(x, s, z) ==
    /\ x.guard.status = "ACTIVE"
    /\ \E q \in Position : q.plan = s /\ z.positions = Append(x.positions, q)
    /\ z.open = x.open \cup {s.key} /\ z.opened = x.opened + 1

GuardOnly(x, z) ==
    /\ z \in Executor /\ z.arms = x.arms /\ z.price = x.price /\ z.closes = x.closes
    /\ z.guard.status = "ACTIVE" => x.guard.status = "ACTIVE"

LEMMA GuardSet ==
    ASSUME NEW x \in Executor
    PROVE  LET z == [x EXCEPT !.guard = CheckBreach(@)] IN GuardOnly(x, z) /\ Stays(x, z)
  <1>1. x.guard \in Guard
    BY DEF Executor
  <1> DEFINE g == CheckBreach(x.guard)
  <1>2. g \in Guard /\ (g.status = "ACTIVE" => x.guard.status = "ACTIVE")
    BY <1>1, GuardChecked
  <1> HIDE DEF g
  <1>3. GuardOnly(x, [x EXCEPT !.guard = g]) /\ Stays(x, [x EXCEPT !.guard = g])
    BY <1>2 DEF Executor, GuardOnly, Stays
  <1> QED
    BY <1>3 DEF g

LEMMA Filled ==
    ASSUME NEW x \in Executor, NEW s \in Signals, NEW price \in Int
    PROVE  LET z == Fill(x, s, price)
           IN  GuardOnly(x, z) /\ (Stays(x, z) \/ Opens(x, s, z))
  <1> DEFINE lots == LotSize(Abs(price - s.sl))
             g == CheckBreach(x.guard)
             q == NewPosition(s, price, lots)
             z == Fill(x, s, price)
  <1>1. x.guard \in Guard
    BY DEF Executor
  <1>2. g \in Guard /\ (g.status = "ACTIVE" => x.guard.status = "ACTIVE")
    BY <1>1, GuardChecked
  <1>3. lots \in 0..MaxLot
    <2>1. s.sl \in Int
      BY SignalFacts
    <2>2. Abs(price - s.sl) \in Nat
      BY <2>1 DEF Abs
    <2> QED
      BY <2>2, LotsFit
  <1>4. CASE lots = 0
    <2>1. z = x
      BY <1>4 DEF Fill
    <2> QED
      BY <2>1 DEF GuardOnly, Stays
  <1>5. CASE lots # 0 /\ ~RiskAllowed(x.guard, StopRisk(s, price, lots))
    <2>1. z = [x EXCEPT !.guard = CheckBreach(@)]
      BY <1>5 DEF Fill
    <2> HIDE DEF z
    <2> QED
      BY <2>1, GuardSet DEF z
  <1>6. CASE lots # 0 /\ RiskAllowed(x.guard, StopRisk(s, price, lots))
    <2>1. x.guard.status = "ACTIVE"
      BY <1>1, <1>6, GuardChecked DEF RiskAllowed
    <2>2. q \in Position /\ q.plan = s /\ s.key \in Keys
      <3>1. q.plan = s
        BY DEF NewPosition
      <3>2. lots \in 1..MaxLot
        BY <1>3, <1>6, AccountAssumption
      <3> HIDE DEF lots
      <3> QED
        BY <3>1, <3>2, Opened, SignalFacts
    <2> DEFINE positions == Append(x.positions, q)
               open == x.open \cup {s.key}
               opened == x.opened + 1
    <2>3. z = [x EXCEPT !.guard = g, !.positions = positions, !.open = open, !.opened = opened]
      BY <1>6 DEF Fill
    <2> HIDE DEF q, g, z
    <2>4. positions \in Seq(Position) /\ open \in SUBSET Keys /\ opened \in Nat
      BY <2>2 DEF Executor
    <2> HIDE DEF positions, open, opened
    <2>5. /\ GuardOnly(x, z) /\ z.positions = positions /\ z.open = open /\ z.opened = opened
      BY <1>2, <2>1, <2>3, <2>4 DEF Executor, GuardOnly
    <2>6. Opens(x, s, z)
      BY <2>1, <2>2, <2>5 DEF Opens, positions, open, opened
    <2> QED
      BY <2>5, <2>6 DEF z
  <1> QED
    BY <1>4, <1>5, <1>6

-----------------------------------------------------------------------------
(* The pass over the arms.                                                 *)
ArmKeysIn(arms, s) == {arms[i].sig.key : i \in s}

ArmKeysOf(arms) == ArmKeysIn(arms, DOMAIN arms)

ArmsApart(arms) == \A i, j \in DOMAIN arms : arms[i].sig.key = arms[j].sig.key => i = j

LEMMA ArmAppended ==
    ASSUME NEW arms \in Seq(Arm), NEW a \in Arm
    PROVE  /\ ArmKeysOf(Append(arms, a)) = ArmKeysOf(arms) \cup {a.sig.key}
           /\ ArmsApart(arms) /\ a.sig.key \notin ArmKeysOf(arms) => ArmsApart(Append(arms, a))
  <1> DEFINE n == Len(arms)
             new == Append(arms, a)
  <1>1. /\ n \in Nat /\ DOMAIN arms = 1..n /\ DOMAIN new = 1..(n + 1)
        /\ new[n + 1] = a /\ \A i \in 1..n : new[i] = arms[i]
    OBVIOUS
  <1> HIDE DEF n, new
  <1>2. \A i \in DOMAIN new : i \in DOMAIN arms \/ i = n + 1
    BY <1>1
  <1>3. DOMAIN arms \subseteq DOMAIN new /\ n + 1 \in DOMAIN new /\ n + 1 \notin DOMAIN arms
    BY <1>1
  <1>4. \A i \in DOMAIN arms : new[i] = arms[i]
    BY <1>1
  <1>5. ArmKeysOf(new) = ArmKeysOf(arms) \cup {a.sig.key}
    BY <1>1, <1>2, <1>3, <1>4 DEF ArmKeysOf, ArmKeysIn
  <1>6. ArmsApart(arms) /\ a.sig.key \notin ArmKeysOf(arms) => ArmsApart(new)
    BY <1>1, <1>2, <1>4 DEF ArmsApart, ArmKeysOf, ArmKeysIn
  <1> QED
    BY <1>5, <1>6 DEF new

(* The keys of an executor: one position of each, armed or open.           *)
Consistent(x) ==
    /\ x \in Executor
    /\ Apart(x.positions) /\ x.open = KeysOf(x.positions)
    /\ ArmsApart(x.arms) /\ ArmKeysOf(x.arms) \cap x.open = {}

(* After k arms: none of the keys done is armed twice or armed while open. *)
ArmsDone(x, y, k) ==
    /\ Consistent(y) /\ y.price = x.price
    /\ ArmKeysOf(y.arms) \subseteq ArmKeysIn(x.arms, 1..k)
    /\ y.open \subseteq x.open \cup ArmKeysIn(x.arms, 1..k)
    /\ y.guard.status = "ACTIVE" => x.guard.status = "ACTIVE"
    /\ y.opened # x.opened => x.guard.status = "ACTIVE"

LEMMA KeyOpens ==
    ASSUME NEW y, Consistent(y), NEW s \in Signals, s.key \notin y.open \cup ArmKeysOf(y.arms),
           NEW z \in Executor, z.arms = y.arms, Opens(y, s, z)
    PROVE  Consistent(z)
  <1>1. PICK q \in Position : q.plan = s /\ z.positions = Append(y.positions, q)
    BY DEF Opens
  <1>2. y.positions \in Seq(Position) /\ s.key \notin KeysOf(y.positions)
    BY DEF Consistent, Executor
  <1>3. Apart(z.positions) /\ KeysOf(z.positions) = KeysOf(y.positions) \cup {s.key}
    BY <1>1, <1>2, KeyAppended DEF Consistent
  <1> QED
    BY <1>3 DEF Consistent, Opens

LEMMA OneArmChecked ==
    ASSUME NEW x, Consistent(x), NEW k \in 1..Len(x.arms), NEW inst, NEW price,
           NEW y, ArmsDone(x, y, k - 1), NEW a, a = x.arms[k],
           NEW z, z = IF Reached(a, inst, price) THEN FireArm(y, a)
                      ELSE [y EXCEPT !.arms = Append(@, a)]
    PROVE  ArmsDone(x, z, k)
  <1> DEFINE key == a.sig.key
             done == ArmKeysIn(x.arms, 1..(k - 1))
             A == x.arms
             n == Len(A)
  <1>1. n \in Nat /\ DOMAIN A = 1..n /\ A \in Seq(Arm)
    BY DEF Consistent, Executor
  <1>2. a \in Arm /\ a.sig \in Signals /\ k \in DOMAIN A /\ key = A[k].sig.key
    <2>1. A[k] \in Arm
      BY <1>1
    <2> QED
      BY <1>1, <2>1 DEF Arm
  <1>3. ArmKeysIn(x.arms, 1..k) = done \cup {key}
    <2>1. 1..k = (1..(k - 1)) \cup {k}
      BY <1>1
    <2> QED
      BY <2>1 DEF ArmKeysIn
  <1>4. key \notin done
    <2>1. \A i, j \in 1..n : A[i].sig.key = A[j].sig.key => i = j
      BY <1>1 DEF Consistent, ArmsApart
    <2> HIDE DEF A, n, key
    <2>2. \A i \in 1..(k - 1) : i \in 1..n /\ i # k /\ k \in 1..n
      BY <1>1, <1>2
    <2>3. \A i \in 1..(k - 1) : A[i].sig.key # key
      BY <1>2, <2>1, <2>2
    <2> QED
      BY <2>3 DEF ArmKeysIn, A
  <1>5. key \notin x.open
    BY <1>2 DEF Consistent, ArmKeysOf, ArmKeysIn
  <1>6. /\ Consistent(y) /\ y.price = x.price /\ ArmKeysOf(y.arms) \subseteq done
        /\ y.open \subseteq x.open \cup done
        /\ y.guard.status = "ACTIVE" => x.guard.status = "ACTIVE"
        /\ y.opened # x.opened => x.guard.status = "ACTIVE"
        /\ y \in Executor
    BY DEF ArmsDone, Consistent
  <1> HIDE DEF key, done, A, n
  <1>7. CASE ~Reached(a, inst, price)
    <2> DEFINE arms == Append(y.arms, a)
    <2>1. y.arms \in Seq(Arm)
      BY <1>6 DEF Executor
    <2>2. arms \in Seq(Arm) /\ ArmKeysOf(arms) = ArmKeysOf(y.arms) \cup {key} /\ ArmsApart(arms)
      BY <1>2, <1>4, <1>6, <2>1, ArmAppended DEF Consistent, key
    <2>3. z = [y EXCEPT !.arms = arms]
      BY <1>7
    <2> HIDE DEF arms
    <2>4. /\ z \in Executor /\ z.arms = arms /\ z.positions = y.positions /\ z.open = y.open
          /\ z.price = y.price /\ z.guard = y.guard /\ z.opened = y.opened
      BY <1>6, <2>2, <2>3 DEF Executor
    <2>5. key \notin y.open
      BY <1>4, <1>5, <1>6
    <2>6. Consistent(z)
      BY <1>6, <2>2, <2>4, <2>5 DEF Consistent
    <2> QED
      BY <1>3, <1>6, <2>2, <2>4, <2>6 DEF ArmsDone
  <1>8. CASE Reached(a, inst, price)
    <2> DEFINE u == [y EXCEPT !.guard = CheckBreach(@)]
    <2>1. GuardOnly(y, u) /\ Stays(y, u)
      BY <1>6, GuardSet
    <2>2. z = IF key \in y.open THEN y ELSE IF CanTrade(y.guard) THEN Fill(u, a.sig, a.sig.entry)
              ELSE u
      BY <1>8 DEF FireArm, key
    <2> HIDE DEF u
    <2>3. u \in Executor /\ u.arms = y.arms /\ Consistent(u)
      BY <1>6, <2>1 DEF GuardOnly, Stays, Consistent
    <2>4. CASE z = y
      BY <1>3, <1>6, <2>4 DEF ArmsDone
    <2>5. CASE z = u
      BY <1>3, <1>6, <2>1, <2>3, <2>5 DEF ArmsDone, GuardOnly, Stays
    <2>6. CASE key \notin y.open /\ z = Fill(u, a.sig, a.sig.entry)
      <3>1. a.sig.entry \in Int
        BY <1>2, SignalFacts
      <3>2. GuardOnly(u, z) /\ (Stays(u, z) \/ Opens(u, a.sig, z))
        BY <1>2, <2>3, <2>6, <3>1, Filled
      <3>3. /\ z \in Executor /\ z.arms = y.arms /\ z.price = x.price
            /\ z.guard.status = "ACTIVE" => x.guard.status = "ACTIVE"
        BY <1>6, <2>1, <3>2 DEF GuardOnly
      <3>4. CASE Stays(u, z)
        BY <1>3, <1>6, <2>1, <3>3, <3>4 DEF ArmsDone, Stays, Consistent
      <3>5. CASE Opens(u, a.sig, z)
        <4>1. key \notin u.open \cup ArmKeysOf(u.arms)
          BY <1>4, <1>6, <2>1, <2>3, <2>6 DEF Stays
        <4>2. Consistent(z)
          BY <1>2, <2>3, <3>3, <3>5, <4>1, KeyOpens DEF key
        <4>3. z.open = y.open \cup {key} /\ x.guard.status = "ACTIVE"
          BY <1>6, <2>1, <3>5 DEF Opens, GuardOnly, Stays, key
        <4> QED
          BY <1>3, <1>6, <3>3, <4>2, <4>3 DEF ArmsDone
      <3> QED
        BY <3>2, <3>4, <3>5
    <2> QED
      BY <2>2, <2>4, <2>5, <2>6
  <1> QED
    BY <1>7, <1>8

LEMMA ArmsChecked ==
    ASSUME NEW x, Consistent(x), NEW inst, NEW price
    PROVE  ArmsDone(x, CheckArms(x, inst, price), Len(x.arms))
  <1> DEFINE A == x.arms
             n == Len(A)
             D == 1..n
             base == [x EXCEPT !.arms = <<>>]
             op(y, a) == IF Reached(a, inst, price) THEN FireArm(y, a)
                         ELSE [y EXCEPT !.arms = Append(@, a)]
             step == [k \in D |-> [y \in Executor |-> op(y, A[k])]]
             Folds(f) == f = [s \in SUBSET D |-> IF s = {} THEN base
                                                 ELSE op(f[s \ {Max(s)}], A[Max(s)])]
             g == CHOOSE f : Folds(f)
  <1>1. /\ x \in Executor /\ n \in Nat /\ DOMAIN A = D /\ A \in Seq(Arm)
        /\ \A k \in D : A[k] \in Arm
    BY DEF Consistent, Executor
  <1>2. CheckArms(x, inst, price) = (CHOOSE f : Folds(f))[D]
    <2>1. CheckArms(x, inst, price) =
             (CHOOSE f : f = [s \in SUBSET DOMAIN A |-> IF s = {} THEN base
                                 ELSE op(f[s \ {Max(s)}], A[Max(s)])])[DOMAIN A]
      BY DEF CheckArms, FoldLeft, MapThenFoldSet
    <2> QED
      BY <1>1, <2>1, Zenon
  <1>3. /\ base \in Executor /\ base.arms = <<>> /\ base.positions = x.positions
        /\ base.open = x.open /\ base.price = x.price /\ base.guard = x.guard
        /\ base.opened = x.opened
    <2>1. <<>> \in Seq(Arm)
      OBVIOUS
    <2> HIDE DEF A, op, g, Folds, step
    <2> QED
      BY <1>1, <2>1 DEF Executor
  <1>4. ASSUME NEW y \in Executor, NEW k \in D PROVE op(y, A[k]) \in Executor
    <2> DEFINE a == A[k]
    <2>1. a \in Arm /\ a.sig \in Signals /\ a.sig.entry \in Int
      BY <1>1, SignalFacts DEF Arm
    <2> HIDE DEF A, a
    <2>2. CASE Reached(a, inst, price)
      <3> DEFINE u == [y EXCEPT !.guard = CheckBreach(@)]
      <3>1. u \in Executor
        BY GuardSet DEF GuardOnly
      <3> HIDE DEF u
      <3>2. Fill(u, a.sig, a.sig.entry) \in Executor
        BY <2>1, <3>1, Filled DEF GuardOnly
      <3>3. FireArm(y, a) \in Executor
        BY <3>1, <3>2 DEF FireArm, u
      <3> QED
        BY <2>2, <3>3 DEF a
    <2>3. CASE ~Reached(a, inst, price)
      <3> DEFINE arms == Append(y.arms, a)
      <3>1. y.arms \in Seq(Arm)
        BY DEF Executor
      <3>2. arms \in Seq(Arm)
        BY <2>1, <3>1
      <3> HIDE DEF arms
      <3>3. [y EXCEPT !.arms = arms] \in Executor
        BY <3>2 DEF Executor
      <3> QED
        BY <2>3, <3>3 DEF arms, a
    <2> QED
      BY <2>2, <2>3
  <1> HIDE DEF A, base, op
  <1>5. PICK f : Recursive(f, D, Executor, base, LastOf(n), step)
    <2>1. step \in [D -> [Executor -> Executor]]
      BY <1>4
    <2> HIDE DEF step
    <2> QED
      BY <1>1, <1>3, <2>1, PrefixRecursion
  <1>6. Folds(f)
    <2>1. /\ f \in [SUBSET D -> Executor] /\ f[{}] = base
          /\ \A s \in SUBSET D : s # {} => f[s] = step[LastOf(n)[s]][f[s \ {LastOf(n)[s]}]]
      BY <1>5 DEF Recursive
    <2>2. ASSUME NEW s \in SUBSET D, s # {} PROVE f[s] = op(f[s \ {Max(s)}], A[Max(s)])
      <3>1. Max(s) \in D /\ LastOf(n)[s] = Max(s)
        BY <1>1, <2>2, MaxIsLast DEF LastOf
      <3>2. f[s \ {Max(s)}] \in Executor
        BY <2>1
      <3> QED
        BY <2>1, <2>2, <3>1, <3>2
    <2> QED
      BY <2>1, <2>2
  <1>7. Folds(g)
    BY <1>6
  <1> HIDE DEF g
  <1> DEFINE S == {k \in 0..n : ArmsDone(x, g[1..k], k)}
  <1>8. 0 \in S
    <2>1. (1..0) = {} /\ {} \in SUBSET D
      OBVIOUS
    <2>2. g[1..0] = base
      BY <1>7, <2>1
    <2>3. ArmKeysOf(base.arms) = {} /\ ArmsApart(base.arms)
      BY <1>3 DEF ArmKeysOf, ArmKeysIn, ArmsApart
    <2>4. Consistent(base)
      BY <1>3, <2>3 DEF Consistent
    <2>5. ArmsDone(x, base, 0)
      BY <1>3, <2>3, <2>4 DEF ArmsDone
    <2> QED
      BY <1>1, <2>2, <2>5
  <1>9. ASSUME NEW k \in 1..n, k - 1 \in S PROVE k \in S
    <2>1. g[1..k] = op(g[1..(k - 1)], A[k])
      BY <1>1, <1>7, PrefixParts
    <2>2. ArmsDone(x, g[1..(k - 1)], k - 1) /\ k \in 0..n
      BY <1>1, <1>9
    <2> HIDE DEF D, Folds
    <2>3. ArmsDone(x, g[1..k], k)
      <3> DEFINE y == g[1..(k - 1)]
                 z == g[1..k]
      <3>1. z = IF Reached(A[k], inst, price) THEN FireArm(y, A[k])
                ELSE [y EXCEPT !.arms = Append(@, A[k])]
        BY <2>1 DEF op
      <3> HIDE DEF y, z, S
      <3>2. ArmsDone(x, z, k)
        BY <2>2, <3>1, OneArmChecked DEF y, A, n
      <3> QED
        BY <3>2 DEF z
    <2> QED
      BY <2>2, <2>3
  <1>10. 0..n \subseteq S
    <2> HIDE DEF S
    <2> QED
      BY <1>1, <1>8, <1>9, StepByStep
  <1>11. ArmsDone(x, g[D], n)
    BY <1>1, <1>10
  <1> QED
    BY <1>2, <1>11 DEF g, A

(* The arms a candle leaves.                                               *)
ArmsAged(arms, kept, k) ==
    kept \in Seq(Arm) /\ ArmsApart(kept) /\ ArmKeysOf(kept) \subseteq ArmKeysIn(arms, 1..k)

LEMMA OneArmAged ==
    ASSUME NEW arms \in Seq(Arm), ArmsApart(arms), NEW k \in 1..Len(arms),
           NEW old, ArmsAged(arms, old, k - 1), NEW a \in Arm, a.sig = arms[k].sig,
           NEW new, new = old \/ new = Append(old, a)
    PROVE  ArmsAged(arms, new, k)
  <1> DEFINE n == Len(arms)
             key == a.sig.key
             done == ArmKeysIn(arms, 1..(k - 1))
  <1>1. n \in Nat /\ DOMAIN arms = 1..n /\ k \in 1..n /\ key = arms[k].sig.key
    OBVIOUS
  <1>2. ArmKeysIn(arms, 1..k) = done \cup {key}
    <2>1. 1..k = (1..(k - 1)) \cup {k}
      BY <1>1
    <2> QED
      BY <2>1 DEF ArmKeysIn
  <1>3. key \notin done
    <2>1. \A i, j \in 1..n : arms[i].sig.key = arms[j].sig.key => i = j
      BY <1>1 DEF ArmsApart
    <2> HIDE DEF n, key
    <2>2. \A i \in 1..(k - 1) : i \in 1..n /\ i # k
      BY <1>1
    <2>3. \A i \in 1..(k - 1) : arms[i].sig.key # key
      BY <1>1, <2>1, <2>2
    <2> QED
      BY <2>3 DEF ArmKeysIn
  <1>4. old \in Seq(Arm) /\ ArmsApart(old) /\ ArmKeysOf(old) \subseteq done
    BY DEF ArmsAged
  <1>5. /\ Append(old, a) \in Seq(Arm) /\ ArmKeysOf(Append(old, a)) = ArmKeysOf(old) \cup {key}
        /\ ArmsApart(Append(old, a))
    BY <1>3, <1>4, ArmAppended
  <1> HIDE DEF n, key, done
  <1> QED
    BY <1>2, <1>4, <1>5 DEF ArmsAged

LEMMA AllArmsAged ==
    ASSUME NEW x, Consistent(x), NEW inst
    PROVE  ArmsAged(x.arms, AgeArms(x, inst), Len(x.arms))
  <1> DEFINE A == x.arms
             n == Len(A)
             D == 1..n
             op(kept, a) == IF a.sig.key.inst # inst THEN Append(kept, a)
                            ELSE IF a.left > 1 THEN Append(kept, [a EXCEPT !.left = @ - 1])
                            ELSE kept
             step == [k \in D |-> [kept \in Seq(Arm) |-> op(kept, A[k])]]
             Folds(f) == f = [s \in SUBSET D |-> IF s = {} THEN <<>>
                                                 ELSE op(f[s \ {Max(s)}], A[Max(s)])]
             g == CHOOSE f : Folds(f)
  <1>1. n \in Nat /\ DOMAIN A = D /\ A \in Seq(Arm) /\ \A k \in D : A[k] \in Arm
    BY DEF Consistent, Executor
  <1>2. AgeArms(x, inst) = (CHOOSE f : Folds(f))[D]
    <2>1. AgeArms(x, inst) =
             (CHOOSE f : f = [s \in SUBSET DOMAIN A |-> IF s = {} THEN <<>>
                                 ELSE op(f[s \ {Max(s)}], A[Max(s)])])[DOMAIN A]
      BY DEF AgeArms, FoldLeft, MapThenFoldSet
    <2> QED
      BY <1>1, <2>1, Zenon
  <1>3. ASSUME NEW a \in Arm, NEW kept \in Seq(Arm)
        PROVE  /\ op(kept, a) \in Seq(Arm)
               /\ \E b \in Arm : b.sig = a.sig /\ op(kept, a) \in {kept, Append(kept, b)}
    <2>1. CASE a.sig.key.inst # inst
      BY <2>1
    <2>2. CASE a.sig.key.inst = inst /\ a.left > 1
      <3> DEFINE b == [a EXCEPT !.left = @ - 1]
      <3>1. b \in Arm /\ b.sig = a.sig
        <4>1. a.sig \in Signals /\ a.left \in Nat /\ a.left \in 1..a.sig.expiry
          BY DEF Arm
        <4>2. a.left - 1 \in Nat /\ a.left - 1 \in 1..a.sig.expiry
          <5>1. a.sig.expiry \in Int
            BY <4>1, SignalFacts DEF SignalFields
          <5> QED
            BY <2>2, <4>1, <5>1
        <4> QED
          BY <4>1, <4>2 DEF Arm
      <3>2. op(kept, a) = Append(kept, b)
        BY <2>2
      <3> HIDE DEF b, op
      <3> QED
        BY <3>1, <3>2
    <2>3. CASE a.sig.key.inst = inst /\ ~(a.left > 1)
      BY <2>3
    <2> QED
      BY <2>1, <2>2, <2>3
  <1> HIDE DEF A, op
  <1>4. <<>> \in Seq(Arm)
    OBVIOUS
  <1>5. PICK f : Recursive(f, D, Seq(Arm), <<>>, LastOf(n), step)
    <2>1. step \in [D -> [Seq(Arm) -> Seq(Arm)]]
      BY <1>1, <1>3
    <2> HIDE DEF step
    <2> QED
      BY <1>1, <1>4, <2>1, PrefixRecursion
  <1>6. Folds(f)
    <2>1. /\ f \in [SUBSET D -> Seq(Arm)] /\ f[{}] = <<>>
          /\ \A s \in SUBSET D : s # {} => f[s] = step[LastOf(n)[s]][f[s \ {LastOf(n)[s]}]]
      BY <1>5 DEF Recursive
    <2>2. ASSUME NEW s \in SUBSET D, s # {} PROVE f[s] = op(f[s \ {Max(s)}], A[Max(s)])
      <3>1. Max(s) \in D /\ LastOf(n)[s] = Max(s)
        BY <1>1, <2>2, MaxIsLast DEF LastOf
      <3>2. f[s \ {Max(s)}] \in Seq(Arm)
        BY <2>1
      <3> QED
        BY <2>1, <2>2, <3>1, <3>2
    <2> QED
      BY <2>1, <2>2
  <1>7. Folds(g)
    BY <1>6
  <1> HIDE DEF g
  <1> DEFINE S == {k \in 0..n : ArmsAged(A, g[1..k], k)}
  <1>8. 0 \in S
    <2>1. (1..0) = {} /\ {} \in SUBSET D
      OBVIOUS
    <2>2. g[1..0] = <<>>
      BY <1>7, <2>1
    <2>3. ArmKeysOf(<<>>) = {} /\ ArmsApart(<<>>)
      BY DEF ArmKeysOf, ArmKeysIn, ArmsApart
    <2>4. ArmsAged(A, <<>>, 0)
      BY <1>4, <2>3 DEF ArmsAged
    <2>5. ArmsAged(A, g[1..0], 0)
      BY <2>2, <2>4
    <2> QED
      BY <1>1, <2>5
  <1>9. ASSUME NEW k \in 1..n, k - 1 \in S PROVE k \in S
    <2>1. g[1..k] = op(g[1..(k - 1)], A[k])
      BY <1>1, <1>7, PrefixParts
    <2>2. ArmsAged(A, g[1..(k - 1)], k - 1) /\ k \in 0..n /\ A[k] \in Arm
      BY <1>1, <1>9
    <2> DEFINE old == g[1..(k - 1)]
               new == g[1..k]
    <2> HIDE DEF old, new, D, Folds, S
    <2>3. old \in Seq(Arm)
      BY <2>2 DEF ArmsAged, old
    <2>4. PICK b \in Arm : b.sig = A[k].sig /\ new \in {old, Append(old, b)}
      BY <1>3, <2>1, <2>2, <2>3 DEF old, new
    <2>5. ArmsAged(A, new, k)
      <3>1. ArmsApart(A)
        BY DEF Consistent, A
      <3> QED
        BY <1>1, <2>2, <2>4, <3>1, OneArmAged DEF old, n
    <2> QED
      BY <2>2, <2>5 DEF new, S
  <1>10. 0..n \subseteq S
    <2> HIDE DEF S
    <2> QED
      BY <1>1, <1>8, <1>9, StepByStep
  <1>11. ArmsAged(A, g[D], n)
    BY <1>1, <1>10
  <1> QED
    BY <1>2, <1>11 DEF g, A

-----------------------------------------------------------------------------
(* Each method keeps the executor consistent.                              *)
LEMMA QuietFirst ==
    ASSUME NEW x, Consistent(x)
    PROVE  /\ Consistent(Quiet(x)) /\ Quiet(x).price = x.price /\ Quiet(x).arms = x.arms
           /\ Quiet(x).opened = x.opened /\ Quiet(x).guard = x.guard
           /\ Quiet(x).positions = x.positions
  <1>1. x \in Executor /\ <<>> \in Seq(Close)
    BY DEF Consistent
  <1>2. /\ Quiet(x) \in Executor /\ Quiet(x).arms = x.arms /\ Quiet(x).positions = x.positions
        /\ Quiet(x).open = x.open /\ Quiet(x).price = x.price /\ Quiet(x).opened = x.opened
        /\ Quiet(x).guard = x.guard
    BY <1>1 DEF Quiet, Executor
  <1> QED
    BY <1>2 DEF Consistent

LEMMA Passed ==
    ASSUME NEW x, Consistent(x), NEW insts, NEW call \in Calls
    PROVE  LET z == Pass(x, insts, call)
           IN  /\ Consistent(z) /\ SameElse(x, z)
               /\ call.kind = "tick" =>
                     \A i \in DOMAIN z.positions :
                         z.positions[i].plan.key.inst \in insts =>
                             NotDue(z.positions[i], call.price)
  <1> DEFINE z == Pass(x, insts, call)
             n == Len(x.positions)
             P == x.positions
  <1>1. /\ x \in Executor /\ Apart(P) /\ x.open = KeysOf(P)
        /\ ArmsApart(x.arms) /\ ArmKeysOf(x.arms) \cap x.open = {}
    BY DEF Consistent
  <1>2. PassDone(x, z, n, insts, call)
    BY <1>1, AllPassed
  <1> HIDE DEF z
  <1>3. n \in Nat /\ DOMAIN P = 1..n
    BY <1>1 DEF Executor
  <1>4. KeysIn(P, 1..n) = x.open /\ KeysIn(P, (n + 1)..n) = {}
    <2>1. (n + 1)..n = {}
      BY <1>3
    <2>2. KeysIn(P, 1..n) = KeysOf(P)
      BY <1>3, Zenon DEF KeysOf
    <2> QED
      BY <1>1, <2>1, <2>2 DEF KeysIn
  <1>5. z.open = KeysOf(z.positions) /\ z.open \subseteq x.open
    BY <1>2, <1>4 DEF PassDone
  <1>6. Consistent(z)
    BY <1>1, <1>2, <1>5 DEF Consistent, PassDone, SameElse
  <1> QED
    BY <1>2, <1>6 DEF PassDone, z

LEMMA Signalled ==
    ASSUME NEW x0, Consistent(x0), NEW s \in Signals
    PROVE  LET z == OnSignal(x0, s)
           IN  /\ Consistent(z)
               /\ z.opened > x0.opened => x0.guard.status = "ACTIVE"
  <1> DEFINE x == Quiet(x0)
             u == [x EXCEPT !.guard = CheckBreach(@)]
             z == OnSignal(x0, s)
  <1>1. /\ Consistent(x) /\ x \in Executor /\ x.opened = x0.opened /\ x.guard = x0.guard
        /\ x.opened \in Nat
    <2>1. Consistent(x) /\ x.opened = x0.opened /\ x.guard = x0.guard
      BY QuietFirst
    <2> HIDE DEF x
    <2> QED
      BY <2>1 DEF Consistent, Executor
  <1> HIDE DEF x
  <1>2. GuardOnly(x, u) /\ Stays(x, u)
    BY <1>1, GuardSet
  <1>3. z = IF s.key \in x.open THEN x
            ELSE IF Armed(x, s.key) THEN
                [x EXCEPT !.arms = [i \in DOMAIN @ |->
                    IF @[i].sig.key = s.key THEN NewArm(s) ELSE @[i]]]
            ELSE IF ~CanTrade(x.guard) THEN u
            ELSE IF s.mode = "CANDLE_CLOSE" THEN Fill(u, s, s.entry)
            ELSE [u EXCEPT !.arms = Append(@, NewArm(s))]
    BY DEF OnSignal, x
  <1> HIDE DEF u, z
  <1>4. u \in Executor /\ u.arms = x.arms /\ u.opened = x.opened /\ u.open = x.open /\ Consistent(u)
    BY <1>1, <1>2 DEF GuardOnly, Stays, Consistent
  <1>5. NewArm(s) \in Arm /\ NewArm(s).sig = s
    <2>1. s.expiry \in Nat /\ s.expiry \in 1..s.expiry
      BY SignalFacts DEF SignalFields
    <2> QED
      BY <2>1 DEF NewArm, Arm
  <1>6. CASE z = x
    BY <1>1, <1>6 DEF z
  <1>7. CASE /\ s.key \notin x.open
             /\ z = [x EXCEPT !.arms = [i \in DOMAIN @ |->
                        IF @[i].sig.key = s.key THEN NewArm(s) ELSE @[i]]]
    <2> DEFINE A == x.arms
               arms == [i \in DOMAIN A |-> IF A[i].sig.key = s.key THEN NewArm(s) ELSE A[i]]
    <2>1. A \in Seq(Arm)
      BY <1>1 DEF Executor
    <2>2. /\ arms \in Seq(Arm) /\ DOMAIN arms = DOMAIN A
          /\ \A i \in DOMAIN A : arms[i].sig.key = A[i].sig.key
      BY <1>5, <2>1
    <2>3. z = [x EXCEPT !.arms = arms]
      BY <1>7
    <2> HIDE DEF arms, A
    <2>4. /\ z \in Executor /\ z.arms = arms /\ z.open = x.open /\ z.positions = x.positions
          /\ z.opened = x.opened
      BY <1>1, <2>2, <2>3 DEF Executor
    <2>5. ArmKeysOf(arms) = ArmKeysOf(A) /\ (ArmsApart(A) => ArmsApart(arms))
      BY <2>2 DEF ArmKeysOf, ArmKeysIn, ArmsApart
    <2>6. Consistent(z)
      BY <1>1, <2>4, <2>5 DEF Consistent, A
    <2> QED
      BY <1>1, <2>4, <2>6 DEF z
  <1>8. CASE z = u
    BY <1>1, <1>4, <1>8 DEF z
  <1>9. CASE /\ s.key \notin x.open /\ ~Armed(x, s.key)
             /\ z = Fill(u, s, s.entry)
    <2>1. s.key \notin u.open \cup ArmKeysOf(u.arms)
      BY <1>4, <1>9 DEF Armed, ArmKeysOf, ArmKeysIn
    <2>2. s.entry \in Int
      BY SignalFacts
    <2>3. GuardOnly(u, z) /\ (Stays(u, z) \/ Opens(u, s, z))
      BY <1>4, <1>9, <2>2, Filled
    <2>4. CASE Stays(u, z)
      <3>1. Consistent(z) /\ z.opened = u.opened
        BY <1>4, <2>3, <2>4 DEF GuardOnly, Stays, Consistent
      <3> QED
        BY <1>1, <1>4, <3>1 DEF z
    <2>5. CASE Opens(u, s, z)
      <3>1. Consistent(z)
        BY <1>4, <2>1, <2>3, <2>5, KeyOpens DEF GuardOnly
      <3>2. x0.guard.status = "ACTIVE"
        BY <1>1, <1>2, <2>5 DEF GuardOnly, Opens
      <3> QED
        BY <3>1, <3>2 DEF z
    <2> QED
      BY <2>3, <2>4, <2>5
  <1>10. CASE /\ s.key \notin x.open /\ ~Armed(x, s.key)
              /\ z = [u EXCEPT !.arms = Append(@, NewArm(s))]
    <2> DEFINE arms == Append(u.arms, NewArm(s))
    <2>1. u.arms \in Seq(Arm) /\ ArmsApart(u.arms) /\ s.key \notin ArmKeysOf(u.arms)
      BY <1>4, <1>10 DEF Executor, Consistent, Armed, ArmKeysOf, ArmKeysIn
    <2>2. /\ arms \in Seq(Arm) /\ ArmKeysOf(arms) = ArmKeysOf(u.arms) \cup {s.key}
          /\ ArmsApart(arms)
      BY <1>5, <2>1, ArmAppended
    <2>3. z = [u EXCEPT !.arms = arms]
      BY <1>10
    <2> HIDE DEF arms
    <2>4. /\ z \in Executor /\ z.arms = arms /\ z.open = u.open /\ z.positions = u.positions
          /\ z.opened = u.opened
      BY <1>4, <2>2, <2>3 DEF Executor
    <2>5. Consistent(z)
      BY <1>4, <1>10, <2>2, <2>4 DEF Consistent
    <2> QED
      BY <1>1, <1>4, <2>4, <2>5 DEF z
  <1> QED
    BY <1>3, <1>6, <1>7, <1>8, <1>9, <1>10

LEMMA FloatingType ==
    ASSUME NEW x \in Executor
    PROVE  Floating(x) \in Int
  <1> DEFINE P == x.positions
             n == Len(P)
             D == DOMAIN P
             f == [i \in D |-> LET p     == P[i]
                                   price == x.price[p.plan.key.inst]
                               IN  IF price = 0 THEN 0 ELSE GainOf(p, price) * p.left * p.lots]
  <1>1. n \in Nat /\ D = 1..n /\ \A i \in D : P[i] \in Position
    BY DEF Executor
  <1>2. ASSUME NEW i \in D PROVE f[i] \in Int
    <2> DEFINE p == P[i]
               price == x.price[p.plan.key.inst]
    <2>1. p \in Position
      BY <1>1
    <2> HIDE DEF P, p
    <2>2. p.plan \in Signals /\ p.left \in Int /\ p.lots \in Int /\ p.entry \in Int
      BY <2>1, AccountAssumption DEF Position, PositionFields
    <2>3. price \in Int
      <3>1. p.plan.key \in Keys /\ p.plan.key.inst \in Instruments
        BY <2>2, SignalFacts, AccountAssumption
      <3>2. x.price[p.plan.key.inst] \in Prices \cup {0}
        BY <3>1 DEF Executor
      <3>3. \A v \in Prices \cup {0} : v \in Int
        BY SignalsAssumption
      <3> HIDE DEF price
      <3> QED
        BY <3>2, <3>3 DEF price
    <2> HIDE DEF price
    <2>4. GainOf(p, price) \in Int
      BY <2>2, <2>3 DEF GainOf, Gain, Sign
    <2>5. GainOf(p, price) * p.left * p.lots \in Int
      BY <2>2, <2>4
    <2>6. f[i] = IF price = 0 THEN 0 ELSE GainOf(p, price) * p.left * p.lots
      BY DEF p, price
    <2> HIDE DEF f
    <2> QED
      BY <2>5, <2>6
  <1>3. IsFiniteSet(D)
    <2>1. IsFiniteSet(1..n)
      BY <1>1, FirstNumbers
    <2> QED
      BY <1>1, <2>1, Zenon
  <1>4. f \in [D -> Int] /\ DOMAIN f = D
    BY <1>2
  <1>5. Floating(x) = SumFunctionOnSet(f, DOMAIN f)
    BY DEF Floating, SumFunction
  <1> HIDE DEF f, D
  <1>6. SumFunctionOnSet(f, D) \in Int
    BY <1>3, <1>4, SumType
  <1> QED
    BY <1>4, <1>5, <1>6

LEMMA Ticked ==
    ASSUME NEW x0, Consistent(x0), NEW inst \in Instruments, NEW price \in Prices
    PROVE  LET z == OnTick(x0, inst, price)
           IN  /\ Consistent(z)
               /\ z.price[inst] = price
               /\ \A i \in DOMAIN z.positions :
                     z.positions[i].plan.key.inst = inst => NotDue(z.positions[i], price)
               /\ z.opened > x0.opened => x0.guard.status = "ACTIVE"
  <1> DEFINE x1 == [Quiet(x0) EXCEPT !.price[inst] = price]
             x == CheckArms(x1, inst, price)
             call == [kind |-> "tick", price |-> price]
             y == Pass(x, {inst}, call)
             z == OnTick(x0, inst, price)
             g == MarkToMarket(y.guard, Floating(y))
  <1>1. Consistent(Quiet(x0)) /\ Quiet(x0).opened = x0.opened /\ Quiet(x0).guard = x0.guard
    BY QuietFirst
  <1>2. /\ Consistent(x1) /\ x1.price[inst] = price /\ x1.opened = x0.opened
        /\ x1.guard = x0.guard /\ x1.opened \in Nat
    <2> DEFINE q == Quiet(x0)
               prices == [q.price EXCEPT ![inst] = price]
    <2>1. q \in Executor
      BY <1>1 DEF Consistent
    <2>2. x1 = [q EXCEPT !.price = prices]
      OBVIOUS
    <2> HIDE DEF q, x1
    <2>3. q.price \in [Instruments -> Prices \cup {0}]
      BY <2>1 DEF Executor
    <2>4. prices \in [Instruments -> Prices \cup {0}] /\ prices[inst] = price
      BY <2>3
    <2> HIDE DEF prices
    <2>5. /\ x1 \in Executor /\ x1.price = prices /\ x1.opened = q.opened /\ x1.guard = q.guard
          /\ x1.arms = q.arms /\ x1.positions = q.positions /\ x1.open = q.open
      BY <2>1, <2>2, <2>4 DEF Executor
    <2>6. Consistent(x1) /\ x1.opened \in Nat
      BY <1>1, <2>5 DEF Consistent, Executor, q
    <2> QED
      BY <1>1, <2>4, <2>5, <2>6 DEF q
  <1> HIDE DEF x1
  <1>3. ArmsDone(x1, x, Len(x1.arms))
    BY <1>2, ArmsChecked
  <1>4. /\ Consistent(x) /\ x.price = x1.price
        /\ x.opened # x1.opened => x1.guard.status = "ACTIVE"
    BY <1>3 DEF ArmsDone
  <1> HIDE DEF x
  <1>5. call \in Calls /\ call.kind = "tick" /\ call.price = price
    BY DEF Calls
  <1> HIDE DEF call
  <1>6. /\ Consistent(y) /\ SameElse(x, y)
        /\ \A i \in DOMAIN y.positions :
              y.positions[i].plan.key.inst = inst => NotDue(y.positions[i], price)
    <2>1. /\ Consistent(y) /\ SameElse(x, y)
          /\ call.kind = "tick" =>
                \A i \in DOMAIN y.positions :
                    y.positions[i].plan.key.inst \in {inst} => NotDue(y.positions[i], call.price)
      BY <1>4, <1>5, Passed
    <2> HIDE DEF y
    <2> QED
      BY <1>5, <2>1
  <1>7. z = [y EXCEPT !.guard = g]
    BY DEF OnTick, x, x1, call
  <1> HIDE DEF y
  <1>8. y \in Executor /\ g \in Guard
    <2>1. y \in Executor /\ y.guard \in Guard
      BY <1>6 DEF Consistent, Executor
    <2> QED
      BY <2>1, FloatingType, GuardBooked
  <1> HIDE DEF g, z
  <1>9. /\ z \in Executor /\ z.positions = y.positions /\ z.arms = y.arms /\ z.open = y.open
        /\ z.price = y.price /\ z.opened = y.opened
    BY <1>7, <1>8 DEF Executor
  <1>10. Consistent(z)
    BY <1>6, <1>9 DEF Consistent
  <1>11. z.price[inst] = price
    BY <1>2, <1>4, <1>6, <1>9 DEF SameElse
  <1>12. z.opened > x0.opened => x0.guard.status = "ACTIVE"
    BY <1>2, <1>4, <1>6, <1>9 DEF SameElse
  <1> QED
    BY <1>6, <1>9, <1>10, <1>11, <1>12 DEF z

LEMMA CandleClosed ==
    ASSUME NEW x0, Consistent(x0), NEW inst
    PROVE  LET z == OnCandleClose(x0, inst) IN Consistent(z) /\ z.opened = x0.opened
  <1> DEFINE arms == AgeArms(x0, inst)
             x == [Quiet(x0) EXCEPT !.arms = arms]
             call == [kind |-> "candle"]
             n == Len(x0.arms)
  <1>1. /\ Consistent(Quiet(x0)) /\ Quiet(x0).opened = x0.opened /\ Quiet(x0).arms = x0.arms
    BY QuietFirst
  <1>2. ArmsAged(x0.arms, arms, n)
    BY AllArmsAged
  <1>3. ArmKeysIn(x0.arms, 1..n) = ArmKeysOf(x0.arms)
    <2>1. 1..n = DOMAIN x0.arms
      BY DEF Consistent, Executor
    <2> QED
      BY <2>1, Zenon DEF ArmKeysOf
  <1>4. Consistent(x) /\ x.opened = x0.opened
    <2> DEFINE q == Quiet(x0)
    <2>1. q \in Executor /\ arms \in Seq(Arm)
      BY <1>1, <1>2 DEF Consistent, ArmsAged
    <2> HIDE DEF q, arms
    <2>2. LET r == [q EXCEPT !.arms = arms]
          IN  /\ r \in Executor /\ r.arms = arms /\ r.positions = q.positions
              /\ r.open = q.open /\ r.opened = q.opened
      BY <2>1 DEF Executor
    <2>3. ArmsApart(arms) /\ ArmKeysOf(arms) \subseteq ArmKeysOf(x0.arms)
      BY <1>2, <1>3 DEF ArmsAged
    <2>4. /\ Apart(q.positions) /\ q.open = KeysOf(q.positions)
          /\ ArmKeysOf(x0.arms) \cap q.open = {} /\ q.opened = x0.opened
      BY <1>1 DEF Consistent, q
    <2> QED
      BY <2>2, <2>3, <2>4 DEF Consistent, q
  <1>5. call \in Calls
    BY DEF Calls
  <1>6. OnCandleClose(x0, inst) = Pass(x, {inst}, call)
    BY <1>1 DEF OnCandleClose, AgeArms
  <1> HIDE DEF x, call
  <1>7. Consistent(Pass(x, {inst}, call)) /\ SameElse(x, Pass(x, {inst}, call))
    BY <1>4, <1>5, Passed
  <1> QED
    BY <1>4, <1>6, <1>7 DEF SameElse

LEMMA Flattened ==
    ASSUME NEW x0, Consistent(x0), NEW insts, NEW reason \in {"EOD_FLATTEN", "MANUAL"}
    PROVE  LET z == Pass(Quiet(x0), insts, [kind |-> "flatten", reason |-> reason])
           IN  Consistent(z) /\ z.opened = x0.opened
  <1> DEFINE x == Quiet(x0)
             call == [kind |-> "flatten", reason |-> reason]
  <1>1. Consistent(x) /\ x.opened = x0.opened
    BY QuietFirst
  <1>2. call \in Calls
    BY DEF Calls
  <1> HIDE DEF x, call
  <1>3. Consistent(Pass(x, insts, call)) /\ SameElse(x, Pass(x, insts, call))
    BY <1>1, <1>2, Passed
  <1> QED
    BY <1>1, <1>3 DEF SameElse, x, call

LEMMA DayTurned ==
    ASSUME NEW x0, Consistent(x0), NEW now \in Nat
    PROVE  LET z == OnDayReset(x0, now) IN Consistent(z) /\ z.opened = x0.opened
  <1> DEFINE x == Quiet(x0)
             g == CheckDailyReset(x.guard, now)
             z == [x EXCEPT !.guard = g]
  <1>1. Consistent(x) /\ x.opened = x0.opened
    BY QuietFirst
  <1> HIDE DEF x
  <1>2. x \in Executor /\ x.guard \in Guard
    BY <1>1 DEF Consistent, Executor
  <1>3. g \in Guard
    BY <1>2, GuardReset
  <1> HIDE DEF g
  <1>4. /\ z \in Executor /\ z.arms = x.arms /\ z.positions = x.positions
        /\ z.open = x.open /\ z.opened = x.opened
    BY <1>2, <1>3 DEF Executor
  <1>5. Consistent(z) /\ z.opened = x0.opened
    <2> HIDE DEF z
    <2> QED
      BY <1>1, <1>4 DEF Consistent
  <1> QED
    BY <1>5 DEF OnDayReset, g, x

-----------------------------------------------------------------------------
(* The invariant: consistent keys and accounts, nothing overdue after a    *)
(* tick, and the counters' types.                                          *)
PaperInv ==
    /\ Consistent(exec)
    /\ clock \in Nat /\ signals \in 0..MaxSignals
    /\ NothingOverdueAfterTick

LEMMA PaperBegins == ASSUME Init PROVE PaperInv
  <1>1. exec.guard \in Guard
    <2>1. SizingBalance * (100 - MaxDDPct) \in Int /\ SizingBalance \in Int
      BY AccountAssumption, LimitsAssumption
    <2> QED
      BY <2>1 DEF Init, NewExecutor, NewGuard, Guard, Status
  <1>2. exec \in Executor
    BY <1>1 DEF Init, NewExecutor, Executor
  <1>3. exec.positions = <<>> /\ exec.arms = <<>> /\ exec.open = {} /\ ticked = {}
    BY DEF Init, NewExecutor
  <1>4. Consistent(exec)
    BY <1>2, <1>3 DEF Consistent, Apart, KeysOf, KeysIn, ArmsApart, ArmKeysOf, ArmKeysIn
  <1>5. NothingOverdueAfterTick
    BY <1>3 DEF NothingOverdueAfterTick
  <1>6. clock \in Nat /\ signals \in 0..MaxSignals
    BY ClockAssumption, SignalsAssumption DEF Init
  <1> QED
    BY <1>4, <1>5, <1>6 DEF PaperInv

(* A step keeps the invariant, and opens a position only where the guard   *)
(* trades.                                                                 *)
Sound ==
    /\ PaperInv'
    /\ exec'.opened > exec.opened => exec.guard.status = "ACTIVE"

LEMMA PaperStep == ASSUME PaperInv, [Next]_vars PROVE Sound
  <1>1. /\ Consistent(exec) /\ clock \in Nat /\ signals \in 0..MaxSignals
        /\ exec.opened \in Nat
    BY DEF PaperInv, Consistent, Executor
  <1> DEFINE Turns == /\ Consistent(exec') /\ clock' \in Nat /\ signals' \in 0..MaxSignals
                      /\ exec'.opened > exec.opened => exec.guard.status = "ACTIVE"
  <1>2. ASSUME Turns, ticked' = {} PROVE Sound
    BY <1>2 DEF Sound, PaperInv, NothingOverdueAfterTick
  <1> HIDE DEF Turns
  <1>3. CASE \E s \in Signals : Signal(s)
    <2>1. PICK s \in Signals : Signal(s)
      BY <1>3
    <2>2. Turns
      BY <1>1, <2>1, SignalsAssumption, Signalled DEF Signal, Turns
    <2> QED
      BY <1>2, <2>1, <2>2 DEF Signal
  <1>4. CASE \E inst \in Instruments, price \in Prices : Tick(inst, price)
    <2>1. PICK inst \in Instruments, price \in Prices : Tick(inst, price)
      BY <1>4
    <2>2. exec' = OnTick(exec, inst, price) /\ ticked' = {inst} /\ UNCHANGED <<clock, signals>>
      BY <2>1 DEF Tick
    <2>3. /\ Consistent(exec') /\ exec'.price[inst] = price
          /\ \A i \in DOMAIN exec'.positions :
                exec'.positions[i].plan.key.inst = inst => NotDue(exec'.positions[i], price)
          /\ exec'.opened > exec.opened => exec.guard.status = "ACTIVE"
      BY <1>1, <2>2, Ticked
    <2>4. NothingOverdueAfterTick'
      BY <2>2, <2>3 DEF NothingOverdueAfterTick, Positions, NotDue
    <2> QED
      BY <1>1, <2>2, <2>3, <2>4 DEF Sound, PaperInv
  <1>5. CASE \E inst \in Instruments : CandleClose(inst)
    <2>1. PICK inst \in Instruments : CandleClose(inst)
      BY <1>5
    <2>2. Turns
      BY <1>1, <2>1, CandleClosed DEF CandleClose, Turns
    <2> QED
      BY <1>2, <2>1, <2>2 DEF CandleClose
  <1>6. CASE \E inst \in Instruments : FlattenOne(inst)
    <2>1. PICK inst \in Instruments : FlattenOne(inst)
      BY <1>6
    <2>2. Consistent(exec') /\ exec'.opened = exec.opened
      BY <1>1, <2>1, Flattened DEF FlattenOne, FlattenInstrument
    <2>3. Turns
      BY <1>1, <2>1, <2>2 DEF FlattenOne, Turns
    <2> QED
      BY <1>2, <2>1, <2>3 DEF FlattenOne
  <1>7. CASE Flatten
    <2>1. Consistent(exec') /\ exec'.opened = exec.opened
      BY <1>1, <1>7, Flattened DEF Flatten, FlattenAll
    <2>2. Turns
      BY <1>1, <1>7, <2>1 DEF Flatten, Turns
    <2> QED
      BY <1>2, <1>7, <2>2 DEF Flatten
  <1>8. CASE DayReset
    <2>1. Turns
      <3>1. exec' = OnDayReset(exec, clock) /\ clock' = clock /\ signals' = signals
        BY <1>8 DEF DayReset
      <3>2. Consistent(exec') /\ exec'.opened = exec.opened
        BY <1>1, <3>1, DayTurned
      <3> QED
        BY <1>1, <3>1, <3>2 DEF Turns
    <2> QED
      BY <1>2, <1>8, <2>1 DEF DayReset
  <1>9. CASE ClockTick
    <2>1. exec' = exec /\ ticked' = ticked /\ signals' = signals /\ clock' \in Nat
      BY <1>1, <1>9 DEF ClockTick
    <2>2. NothingOverdueAfterTick'
      BY <2>1 DEF PaperInv, NothingOverdueAfterTick, Positions
    <2> QED
      BY <1>1, <2>1, <2>2 DEF Sound, PaperInv
  <1>10. CASE UNCHANGED vars
    <2>1. exec' = exec /\ ticked' = ticked /\ signals' = signals /\ clock' = clock
      BY <1>10 DEF vars
    <2>2. NothingOverdueAfterTick'
      BY <2>1 DEF PaperInv, NothingOverdueAfterTick, Positions
    <2> QED
      BY <1>1, <2>1, <2>2 DEF Sound, PaperInv
  <1> QED
    BY <1>3, <1>4, <1>5, <1>6, <1>7, <1>8, <1>9, <1>10 DEF Next

LEMMA PaperAlways == Spec => []PaperInv
  <1>1. PaperInv /\ [Next]_vars => PaperInv'
    BY PaperStep DEF Sound
  <1> QED
    BY <1>1, PaperBegins, PTL DEF Spec

-----------------------------------------------------------------------------
(* What the invariant says of the properties.                              *)
LEMMA KeysCounted == ASSUME PaperInv PROVE OnePositionPerKey
  <1> DEFINE P == exec.positions
             A == exec.arms
             n == Len(P)
             m == Len(A)
             key == [i \in 1..n |-> P[i].plan.key]
             armed == [i \in 1..m |-> A[i].sig.key]
  <1>1. /\ Consistent(exec) /\ exec \in Executor /\ clock \in Nat /\ signals \in 0..MaxSignals
    BY DEF PaperInv, Consistent
  <1>2. /\ n \in Nat /\ DOMAIN P = 1..n /\ P \in Seq(Position)
        /\ m \in Nat /\ DOMAIN A = 1..m /\ A \in Seq(Arm)
    BY <1>1 DEF Executor
  <1>3. TypeOK
    <2>1. ASSUME NEW i \in DOMAIN P
          PROVE  /\ P[i].plan \in Signals /\ P[i].left \in 1..Whole /\ P[i].lots \in 1..MaxLot
                 /\ P[i].taken \subseteq DOMAIN P[i].plan.tps /\ P[i].bars \in Nat
      <3>1. P[i] \in Position
        BY <1>2
      <3> HIDE DEF P
      <3> QED
        BY <3>1 DEF Position, PositionFields, Accounted
    <2>2. ASSUME NEW i \in DOMAIN A
          PROVE  A[i].sig \in Signals /\ A[i].left \in 1..A[i].sig.expiry
      <3>1. A[i] \in Arm
        BY <1>2
      <3> HIDE DEF A
      <3> QED
        BY <3>1 DEF Arm
    <2>3. /\ exec.guard \in Guard /\ exec.open \subseteq Keys
          /\ exec.price \in [Instruments -> Prices \cup {0}]
      BY <1>1 DEF Executor
    <2> QED
      BY <1>1, <2>1, <2>2, <2>3 DEF TypeOK, Arms, Positions
  <1>4. /\ exec.open = {P[i].plan.key : i \in DOMAIN P}
        /\ \A i, j \in 1..n : key[i] = key[j] => i = j
        /\ \A i, j \in 1..m : armed[i] = armed[j] => i = j
        /\ \A i \in DOMAIN A : A[i].sig.key \notin exec.open
    BY <1>1, <1>2 DEF Consistent, KeysOf, KeysIn, Apart, ArmsApart, ArmKeysOf, ArmKeysIn
  <1>5. exec.open = {p.plan.key : p \in Positions} /\ \A a \in Arms : a.sig.key \notin exec.open
    BY <1>4 DEF Positions, Arms
  <1>6. Len(exec.positions) = Cardinality(exec.open)
    <2>1. exec.open = {key[i] : i \in 1..n}
      <3>1. \A i \in 1..n : key[i] = P[i].plan.key
        OBVIOUS
      <3> HIDE DEF key
      <3> QED
        BY <1>2, <1>4, <3>1
    <2>2. Numbers(key, n, exec.open)
      BY <1>4, <2>1, Zenon DEF Numbers
    <2> HIDE DEF key, n
    <2> QED
      BY <1>2, <2>2, NumbersCounted DEF n
  <1>7. Len(exec.arms) = Cardinality({a.sig.key : a \in Arms})
    <2>1. {a.sig.key : a \in Arms} = {armed[i] : i \in 1..m}
      BY <1>2 DEF Arms
    <2>2. Numbers(armed, m, {a.sig.key : a \in Arms})
      BY <1>4, <2>1, Zenon DEF Numbers
    <2> HIDE DEF armed, m
    <2> QED
      BY <1>2, <2>2, NumbersCounted DEF m
  <1> QED
    BY <1>3, <1>5, <1>6, <1>7 DEF OnePositionPerKey

LEMMA AllAccounted == ASSUME PaperInv PROVE NothingVanishes
  <1>1. exec \in Executor
    BY DEF PaperInv, Consistent
  <1>2. ASSUME NEW p \in Positions
        PROVE  p.left = Whole - SumFunctionOnSet(Fractions(p.plan), p.taken)
    <2>1. p \in Position
      BY <1>1 DEF Positions, Executor
    <2> QED
      BY <2>1 DEF Position, Accounted, Taken
  <1>3. ASSUME NEW i \in DOMAIN exec.closes,
               exec.closes[i].reason \in {"STOP_LOSS", "TAKE_PROFIT", "TIME_STOP"}
        PROVE  exec.closes[i].unbooked = 0
    <2>1. exec.closes[i] \in Close
      BY <1>1 DEF Executor
    <2> QED
      BY <1>3, <2>1 DEF Close
  <1> QED
    BY <1>2, <1>3 DEF NothingVanishes

(* One position per key, and the dedup set is exactly the open keys, for   *)
(* any signals, prices, limits and order of calls (_open_keys).            *)
THEOREM KeysKept == Spec => []OnePositionPerKey
  <1>1. PaperInv => OnePositionPerKey
    BY KeysCounted
  <1> QED
    BY <1>1, PaperAlways, PTL

(* What is left of a position is the whole less the targets it took, and   *)
(* the executor's own exits book all of it (_apply_exit, _close_position). *)
THEOREM EverythingBooked == Spec => []NothingVanishes
  <1>1. PaperInv => NothingVanishes
    BY AllAccounted
  <1> QED
    BY <1>1, PaperAlways, PTL

(* A tick closes what is due at its price (_manage_positions), the         *)
(* positions it has just opened included.                                  *)
THEOREM DueIsClosed == Spec => []NothingOverdueAfterTick
  <1>1. PaperInv => NothingOverdueAfterTick
    BY DEF PaperInv
  <1> QED
    BY <1>1, PaperAlways, PTL

(* A halted or blown account opens nothing, from a signal or an arm        *)
(* (on_signal, _check_arms, _fill).                                        *)
THEOREM HaltedOpensNothing == Spec => NoEntryWhileHalted
  <1>1. PaperInv /\ [Next]_vars => [exec'.opened > exec.opened => exec.guard.status = "ACTIVE"]_vars
    BY PaperStep DEF Sound
  <1> QED
    BY <1>1, PaperAlways, PTL DEF Spec, NoEntryWhileHalted
=============================================================================
