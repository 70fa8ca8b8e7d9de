------------------------------ MODULE NseProofs ------------------------------
(***************************************************************************)
(* Proofs about the two paper traders of the NSE market.  First those of   *)
(* the NSE bot, for any strategies, prices, window and day.  Then          *)
(* main_paper.py, for any instruments, session limits, history and candles:*)
(* all variants see a candle the same way, every trade is accounted for    *)
(* once, and no tick leaves one whose time is up.                          *)
(***************************************************************************)
EXTENDS NseTraders, MainPaper, FoldLemmas

Names == ToSet(Strategies)

Vote ==
    [name : Names, side : Sides, price : Int, stop : Int, target : Int, at : Nat]

Position ==
    [name : Names \cup SUBSET Names, side : Sides, entry : Int, stop : Int, target : Int,
     at : Nat, status : {"OPEN", "CLOSED"}, exit : Int,
     reason : {"none", "stop", "target", "square_off"}]

Sane(pos) == (pos.status = "OPEN") <=> (pos.reason = "none")

Clock == now \in 0..Close /\ price \in Prices \cup {0}

(* Every vote that waits for agreement was given, and not in the future.   *)
Given(name, side, at) == \E e \in log : e.name = name /\ e.side = side /\ e.at = at

Votes ==
    /\ buffer \in [Sides -> Seq(Vote)]
    /\ IsFiniteSet(log) /\ log \in SUBSET [name : Names, side : Sides, at : Nat, nr : Nat]
    /\ \A side \in Sides : \A i \in DOMAIN buffer[side] :
          LET v == buffer[side][i]
          IN  v.side = side /\ v.at <= now /\ Given(v.name, side, v.at)

Books ==
    /\ positions \in [Traders -> Seq(Position)]
    /\ \A t \in Traders : \A i \in DOMAIN positions[t] :
          Sane(positions[t][i]) /\ positions[t][i].at <= now

(* A trader of an agreement has not traded after it last fired.            *)
Fired ==
    /\ fired \in [DOMAIN Needed -> [Sides -> Int]]
    /\ \A c \in DOMAIN Needed : \A i \in DOMAIN positions[c] :
          positions[c][i].at <= fired[c][positions[c][i].side]

Own == \A t \in Names : \A i \in DOMAIN positions[t] : positions[t][i].name = t

TimerKnows ==
    /\ squaring \in [trader : Traders \cup {"none"}, left : SUBSET Nat]
    /\ squaring # NoPass =>
          squaring.trader \in Traders /\ squaring.left \subseteq DOMAIN positions[squaring.trader]

(* What TradedOnce says of the traders of an agreement, and of the others. *)
Spaced ==
    \A c \in DOMAIN Needed : \A i, j \in DOMAIN positions[c] :
        i < j /\ positions[c][i].side = positions[c][j].side =>
            positions[c][j].at - positions[c][i].at > Window

OneEach ==
    \A t \in Names : \A i, j \in OpenOf(positions[t]) :
        i # j => positions[t][i].side # positions[t][j].side

TradersInv ==
    /\ Clock /\ Votes /\ Books /\ Fired /\ Own /\ TimerKnows
    /\ ConfluenceEarned /\ Spaced /\ OneEach

-----------------------------------------------------------------------------
(* What an agreement is made of.                                           *)
LEMMA AverageType ==
    ASSUME NEW n \in Nat \ {0}, NEW values \in [1..n -> Int]
    PROVE  Average(values) \in Int
  <1>1. IsFiniteSet(1..n)
    BY FirstNumbers
  <1>2. SumFunctionOnSet(values, 1..n) \in Int
    BY <1>1, SumType
  <1>3. Average(values) = SumFunctionOnSet(values, 1..n) \div Len(values)
    BY DEF Average, FoldSeq, FoldFunction, SumFunctionOnSet
  <1>4. Len(values) = n
    OBVIOUS
  <1> QED
    BY <1>2, <1>3, <1>4

LEMMA AgreementType ==
    ASSUME NEW votes \in Seq(Vote), votes # <<>>, NEW side \in Sides
    PROVE  Agreement(votes, side) \in
               [name : {Voters(votes)}, side : {side}, price : Int, target : Int, stop : Int]
  <1> DEFINE n == Len(votes)
             stops == ToSet([i \in DOMAIN votes |-> votes[i].stop])
  <1>1. n \in Nat \ {0} /\ DOMAIN votes = 1..n /\ \A i \in 1..n : votes[i] \in Vote
    OBVIOUS
  <1> HIDE DEF n
  <1>2. /\ [i \in DOMAIN votes |-> votes[i].price] \in [1..n -> Int]
        /\ [i \in DOMAIN votes |-> votes[i].target] \in [1..n -> Int]
        /\ [i \in DOMAIN votes |-> votes[i].stop] \in [1..n -> Int]
    BY <1>1 DEF Vote
  <1>3. stops \in SUBSET Int /\ stops # {} /\ IsFiniteSet(stops)
    <2> DEFINE f == [i \in DOMAIN votes |-> votes[i].stop]
    <2>1. stops = {f[i] : i \in 1..n}
      BY <1>1 DEF ToSet
    <2>2. IsFiniteSet(1..n)
      BY <1>1, FirstNumbers
    <2>3. f \in [1..n -> Int] /\ 1 \in 1..n
      BY <1>1, <1>2
    <2> HIDE DEF f, stops
    <2>4. IsFiniteSet({f[i] : i \in 1..n})
      BY <2>2, NamesFinite
    <2> QED
      BY <2>1, <2>3, <2>4
  <1>4. Max(stops) \in Int /\ Min(stops) \in Int
    <2> HIDE DEF stops
    <2> QED
      BY <1>3, EndsOfNumbers
  <1>5. /\ Average([i \in DOMAIN votes |-> votes[i].price]) \in Int
        /\ Average([i \in DOMAIN votes |-> votes[i].target]) \in Int
    BY <1>1, <1>2, AverageType
  <1> QED
    BY <1>4, <1>5 DEF Agreement

(* A new position is the last of its trader; what there was stays.         *)
LEMMA OnSignalGives ==
    ASSUME NEW ps \in Seq(Position), NEW sig, NEW slip \in Int, now \in Nat,
           sig.name \in Names \cup SUBSET Names, sig.side \in Sides,
           sig.price \in Int, sig.stop \in Int, sig.target \in Int
    PROVE  LET new == OnSignal(ps, sig, slip) IN
           /\ new \in Seq(Position)
           /\ \A i \in DOMAIN ps : i \in DOMAIN new /\ new[i] = ps[i]
           /\ \A i \in DOMAIN new : i \notin DOMAIN ps =>
                 /\ i = Len(ps) + 1 /\ CanOpen(ps, sig.name, sig.side)
                 /\ new[i].name = sig.name /\ new[i].side = sig.side /\ new[i].at = now
                 /\ Sane(new[i])
  <1> DEFINE pos == Opened(sig, slip)
             new == OnSignal(ps, sig, slip)
  <1>1. pos \in Position /\ pos.name = sig.name /\ pos.side = sig.side /\ pos.at = now /\ Sane(pos)
    <2>1. sig.price + Sign(sig.side) * slip \in Int
      BY DEF Sign
    <2> QED
      BY <2>1 DEF Opened, Position, Sane
  <1>2. CASE now <= LastEntry /\ CanOpen(ps, sig.name, sig.side)
    <2>1. new = Append(ps, pos)
      BY <1>2 DEF OnSignal
    <2> HIDE DEF pos, new
    <2>2. /\ new \in Seq(Position) /\ Len(new) = Len(ps) + 1
          /\ \A i \in 1..Len(ps) : new[i] = ps[i]
          /\ new[Len(ps) + 1] = pos
      BY <1>1, <2>1
    <2>3. DOMAIN ps = 1..Len(ps) /\ DOMAIN new = 1..(Len(ps) + 1) /\ Len(ps) \in Nat
      BY <2>2
    <2> QED
      BY <1>1, <1>2, <2>2, <2>3 DEF new
  <1>3. CASE ~(now <= LastEntry /\ CanOpen(ps, sig.name, sig.side))
    BY <1>3 DEF OnSignal
  <1> QED
    BY <1>2, <1>3

(* A tick closes positions and changes nothing else about them.            *)
LEMMA OnTickGives ==
    ASSUME NEW ps \in Seq(Position), NEW p \in Int
    PROVE  LET new == OnTick(ps, p) IN
           /\ new \in Seq(Position) /\ DOMAIN new = DOMAIN ps
           /\ \A i \in DOMAIN ps :
                 /\ new[i].name = ps[i].name /\ new[i].side = ps[i].side /\ new[i].at = ps[i].at
                 /\ new[i].status = "OPEN" => ps[i].status = "OPEN"
                 /\ Sane(ps[i]) => Sane(new[i])
  <1> DEFINE new == OnTick(ps, p)
  <1>1. ASSUME NEW pos \in Position, NEW exit \in Int, NEW reason \in {"stop", "target"}
        PROVE  LET c == ClosePosition(pos, exit, reason) IN
               /\ c \in Position /\ c.name = pos.name /\ c.side = pos.side /\ c.at = pos.at
               /\ c.status = "CLOSED" /\ Sane(c)
    BY DEF Position, ClosePosition, Sane
  <1>2. ASSUME NEW pos \in Position
        PROVE  LET c == CheckExits(pos, p) IN
               /\ c \in Position /\ c.name = pos.name /\ c.side = pos.side /\ c.at = pos.at
               /\ c.status = "OPEN" => pos.status = "OPEN"
               /\ Sane(pos) => Sane(c)
    <2>1. pos.stop \in Int /\ pos.target \in Int
      BY DEF Position
    <2> QED
      BY <1>1, <2>1 DEF CheckExits
  <1>3. DOMAIN ps = 1..Len(ps) /\ Len(ps) \in Nat /\ \A i \in DOMAIN ps : ps[i] \in Position
    OBVIOUS
  <1>4. new = [i \in 1..Len(ps) |-> IF i \in OpenOf(ps) THEN CheckExits(ps[i], p) ELSE ps[i]]
    BY <1>3 DEF OnTick
  <1>5. \A i \in 1..Len(ps) : new[i] = IF i \in OpenOf(ps) THEN CheckExits(ps[i], p) ELSE ps[i]
    BY <1>4
  <1>6. new \in Seq(Position) /\ DOMAIN new = DOMAIN ps
    BY <1>2, <1>3, <1>4
  <1> HIDE DEF new
  <1> QED
    BY <1>2, <1>3, <1>5, <1>6 DEF new

-----------------------------------------------------------------------------
(* Who supported a trade of a side at a time, of those that had signalled. *)
Supporters(l, side, at) ==
    {v.name : v \in {e \in l : e.side = side /\ e.at <= at /\ at - e.at <= Window}}

LEMMA SupportGrows ==
    ASSUME NEW l, NEW m, IsFiniteSet(m), l \subseteq m, NEW side, NEW at
    PROVE  /\ IsFiniteSet(Supporters(m, side, at))
           /\ Cardinality(Supporters(l, side, at)) \in Nat
           /\ Cardinality(Supporters(m, side, at)) \in Nat
           /\ Cardinality(Supporters(l, side, at)) <= Cardinality(Supporters(m, side, at))
  <1> DEFINE name == [e \in m |-> e.name]
             D == {e \in m : e.side = side /\ e.at <= at /\ at - e.at <= Window}
  <1>1. IsFiniteSet(D)
    BY FS_Subset
  <1>2. Supporters(m, side, at) = {name[e] : e \in D}
    BY DEF Supporters
  <1>3. IsFiniteSet({name[e] : e \in D})
    <2> HIDE DEF name, D
    <2> QED
      BY <1>1, NamesFinite
  <1>4. Supporters(l, side, at) \subseteq Supporters(m, side, at)
    BY DEF Supporters
  <1> QED
    BY <1>2, <1>3, <1>4, FS_Subset, FS_CardinalityType

LEMMA EarnedBy ==
    ConfluenceEarned <=>
        \A c \in DOMAIN Needed : \A i \in DOMAIN positions[c] :
            Cardinality(Supporters(log, positions[c][i].side, positions[c][i].at)) >= Needed[c]
  BY DEF ConfluenceEarned, Supporters

LEMMA Counts == DOMAIN Needed = {"confluence_2", "confluence_3"} /\ \A c \in DOMAIN Needed : Needed[c] \in Nat \ {0, 1}
  BY DEF Needed

(* Closing positions disturbs nothing.                                     *)
LEMMA ClosingKeeps ==
    ASSUME TradersInv, UNCHANGED <<now, buffer, fired, log>>,
           positions' \in [Traders -> Seq(Position)],
           \A t \in Traders :
              /\ DOMAIN positions'[t] = DOMAIN positions[t]
              /\ \A i \in DOMAIN positions[t] :
                    /\ positions'[t][i].name = positions[t][i].name
                    /\ positions'[t][i].side = positions[t][i].side
                    /\ positions'[t][i].at = positions[t][i].at
                    /\ positions'[t][i].status = "OPEN" => positions[t][i].status = "OPEN"
                    /\ Sane(positions'[t][i])
    PROVE  (Votes /\ Books /\ Fired /\ Own /\ ConfluenceEarned /\ Spaced /\ OneEach)'
  <1>1. DOMAIN Needed \subseteq Traders /\ Names \subseteq Traders
    BY DEF Traders, Names
  <1>2. Votes'
    BY DEF TradersInv, Votes, Given
  <1>3. Books'
    BY DEF TradersInv, Books
  <1>4. Fired'
    BY <1>1 DEF TradersInv, Fired
  <1>5. Own'
    BY <1>1 DEF TradersInv, Own
  <1>6. ConfluenceEarned'
    <2> SUFFICES ASSUME NEW c \in DOMAIN Needed, NEW i \in DOMAIN positions'[c]
                 PROVE  Cardinality(Supporters(log', positions'[c][i].side, positions'[c][i].at)) >= Needed[c]
      BY DEF ConfluenceEarned, Supporters
    <2> QED
      BY <1>1, EarnedBy DEF TradersInv
  <1>7. Spaced'
    BY <1>1 DEF TradersInv, Spaced
  <1>8. OneEach'
    BY <1>1 DEF TradersInv, OneEach, OpenOf
  <1> QED
    BY <1>2, <1>3, <1>4, <1>5, <1>6, <1>7, <1>8

LEMMA TickStep ==
    ASSUME TradersParameters, TradersInv, NEW p \in Prices, Tick(p)
    PROVE  TradersInv'
  <1>1. p \in Int
    BY DEF TradersParameters
  <1>2. positions' = [t \in Traders |-> OnTick(positions[t], p)] /\ positions \in [Traders -> Seq(Position)]
    BY DEF Tick, TradersInv, Books
  <1>3. \A t \in Traders : positions'[t] = OnTick(positions[t], p) /\ positions[t] \in Seq(Position)
    BY <1>2
  <1>4. (Votes /\ Books /\ Fired /\ Own /\ ConfluenceEarned /\ Spaced /\ OneEach)'
    <2>1. positions' \in [Traders -> Seq(Position)]
      BY <1>1, <1>2, <1>3, OnTickGives
    <2>2. ASSUME NEW t \in Traders
          PROVE  /\ DOMAIN positions'[t] = DOMAIN positions[t]
                 /\ \A i \in DOMAIN positions[t] :
                    /\ positions'[t][i].name = positions[t][i].name
                    /\ positions'[t][i].side = positions[t][i].side
                    /\ positions'[t][i].at = positions[t][i].at
                    /\ positions'[t][i].status = "OPEN" => positions[t][i].status = "OPEN"
                    /\ Sane(positions'[t][i])
      BY <1>1, <1>3, OnTickGives DEF TradersInv, Books
    <2>3. UNCHANGED <<now, buffer, fired, log>>
      BY DEF Tick
    <2> QED
      BY <2>1, <2>2, <2>3, ClosingKeeps
  <1>5. Clock'
    BY DEF Tick, Clock, TradersInv
  <1>6. TimerKnows'
    BY <1>1, <1>3, OnTickGives DEF Tick, TimerKnows, TradersInv
  <1> QED
    BY <1>4, <1>5, <1>6 DEF TradersInv

LEMMA CloseStep ==
    ASSUME TradersParameters, TradersInv, CloseNext
    PROVE  TradersInv'
  <1> DEFINE i == Min(squaring.left)
             t == squaring.trader
             old == positions[t][i]
             new == ClosePosition(old, price, "square_off")
  <1>1. /\ t \in Traders /\ squaring.left \subseteq DOMAIN positions[t] /\ squaring.left # {}
        /\ squaring \in [trader : Traders \cup {"none"}, left : SUBSET Nat]
    BY DEF CloseNext, TradersInv, TimerKnows, NoPass
  <1>2. positions \in [Traders -> Seq(Position)] /\ positions[t] \in Seq(Position)
    BY <1>1 DEF TradersInv, Books
  <1>3. i \in squaring.left
    <2>1. DOMAIN positions[t] = 1..Len(positions[t]) /\ Len(positions[t]) \in Nat
      BY <1>2
    <2>2. IsFiniteSet(squaring.left) /\ squaring.left \in SUBSET Int
      BY <1>1, <2>1, FirstNumbers, FS_Subset
    <2> QED
      BY <1>1, <2>2, EndsOfNumbers
  <1>4. i \in DOMAIN positions[t] /\ old \in Position
    BY <1>1, <1>2, <1>3
  <1>5. price \in Int
    BY DEF TradersInv, Clock, TradersParameters
  <1>6. /\ new \in Position /\ new.name = old.name /\ new.side = old.side /\ new.at = old.at
        /\ new.status = "CLOSED" /\ Sane(new)
    BY <1>4, <1>5 DEF Position, ClosePosition, Sane
  <1>7. /\ positions' = [positions EXCEPT ![t][i] = new]
        /\ UNCHANGED <<now, price, buffer, fired, log>>
        /\ squaring' = IF squaring.left = {i} THEN NoPass
                       ELSE [squaring EXCEPT !.left = squaring.left \ {i}]
    BY DEF CloseNext
  <1> HIDE DEF new, old, i, t
  <1>8. /\ positions' \in [Traders -> Seq(Position)]
        /\ \A u \in Traders : DOMAIN positions'[u] = DOMAIN positions[u]
        /\ \A u \in Traders : \A j \in DOMAIN positions[u] :
              positions'[u][j] = IF u = t /\ j = i THEN new ELSE positions[u][j]
    <2>1. /\ positions'[t] = [positions[t] EXCEPT ![i] = new]
          /\ \A u \in Traders \ {t} : positions'[u] = positions[u]
          /\ DOMAIN positions' = Traders
      BY <1>1, <1>2, <1>7
    <2>2. positions'[t] \in Seq(Position) /\ DOMAIN positions'[t] = DOMAIN positions[t]
      BY <1>2, <1>4, <1>6, <2>1
    <2>3. \A u \in Traders : positions'[u] \in Seq(Position)
      BY <1>2, <2>1, <2>2
    <2>4. positions' = [u \in Traders |-> positions'[u]]
      BY <1>2, <1>7, <2>1
    <2> QED
      BY <1>2, <1>4, <2>1, <2>2, <2>3, <2>4
  <1>9. (Votes /\ Books /\ Fired /\ Own /\ ConfluenceEarned /\ Spaced /\ OneEach)'
    <2>1. ASSUME NEW u \in Traders
          PROVE  /\ DOMAIN positions'[u] = DOMAIN positions[u]
                 /\ \A j \in DOMAIN positions[u] :
                    /\ positions'[u][j].name = positions[u][j].name
                    /\ positions'[u][j].side = positions[u][j].side
                    /\ positions'[u][j].at = positions[u][j].at
                    /\ positions'[u][j].status = "OPEN" => positions[u][j].status = "OPEN"
                    /\ Sane(positions'[u][j])
      BY <1>6, <1>8 DEF old, TradersInv, Books
    <2> QED
      BY <1>7, <1>8, <2>1, ClosingKeeps
  <1>10. Clock'
    BY <1>7 DEF Clock, TradersInv
  <1>11. TimerKnows'
    BY <1>1, <1>7, <1>8 DEF TimerKnows, NoPass, t
  <1> QED
    BY <1>9, <1>10, <1>11 DEF TradersInv

(* The votes for an agreement, when one more was given: each was given, at *)
(* most a window ago, and they are as many as support the trade.           *)
LEMMA VotesCount ==
    ASSUME NEW list, NEW l, IsFiniteSet(l), NEW side \in Sides, now \in Nat,
           list \in Seq(Vote),
           \A i \in DOMAIN list :
              /\ list[i].side = side /\ list[i].at <= now
              /\ \E e \in l : e.name = list[i].name /\ e.side = side /\ e.at = list[i].at
    PROVE  LET votes == Active(list) IN
           /\ votes \in Seq(Vote)
           /\ \A i \in DOMAIN votes :
                 /\ votes[i].side = side /\ votes[i].at <= now
                 /\ \E e \in l : e.name = votes[i].name /\ e.side = side /\ e.at = votes[i].at
           /\ Cardinality(Voters(votes)) \in Nat
           /\ Cardinality(Voters(votes)) <= Cardinality(Supporters(l, side, now))
           /\ Voters(votes) \subseteq Names
  <1> DEFINE Good == {v \in Vote : /\ v.side = side /\ v.at <= now
                                  /\ \E e \in l : e.name = v.name /\ e.side = side /\ e.at = v.at}
             Fresh == {v \in ToSet(list) : now - v.at <= Window}
             votes == Among(list, Fresh)
  <1>1. list \in Seq(Good)
    <2>1. \A i \in DOMAIN list : list[i] \in Good
      OBVIOUS
    <2> HIDE DEF Good
    <2> QED
      BY <2>1
  <1>2. votes \in Seq(Good \cap Fresh)
    <2> HIDE DEF Good, Fresh
    <2> QED
      BY <1>1, AmongKept
  <1>3. \A i \in DOMAIN votes : votes[i] \in Good /\ now - votes[i].at <= Window
    <2> HIDE DEF votes
    <2>1. \A i \in DOMAIN votes : votes[i] \in Good \cap Fresh
      BY <1>2
    <2> QED
      BY <2>1
  <1>4. votes \in Seq(Vote)
    <2> HIDE DEF votes, Fresh
    <2> QED
      BY <1>2
  <1> HIDE DEF votes
  <1>5. Voters(votes) \subseteq Supporters(l, side, now)
    <2> SUFFICES ASSUME NEW i \in DOMAIN votes PROVE votes[i].name \in Supporters(l, side, now)
      BY DEF Voters
    <2>1. PICK e \in l : e.name = votes[i].name /\ e.side = side /\ e.at = votes[i].at
      BY <1>3
    <2> QED
      BY <1>3, <2>1 DEF Supporters
  <1>6. /\ Cardinality(Voters(votes)) \in Nat
        /\ Cardinality(Voters(votes)) <= Cardinality(Supporters(l, side, now))
    <2>1. IsFiniteSet(Supporters(l, side, now))
      BY SupportGrows
    <2> QED
      BY <1>5, <2>1, FS_Subset, FS_CardinalityType
  <1>7. Voters(votes) \subseteq Names
    BY <1>3 DEF Voters, Vote
  <1> QED
    BY <1>3, <1>4, <1>6, <1>7 DEF Active, votes

(* One trader's share of a signal.                                         *)
LEMMA SignalStep ==
    ASSUME TradersParameters, TradersInv,
           NEW n \in DOMAIN Strategies, NEW side \in Sides,
           NEW distance \in Distances, NEW slip \in Slippages,
           Signal(n, side, distance, slip)
    PROVE  TradersInv'
  <1> DEFINE name  == Strategies[n]
             sig   == [name |-> name, side |-> side, price |-> price,
                       stop |-> price - Sign(side) * distance,
                       target |-> price + RewardRatio * Sign(side) * distance, at |-> now]
             list  == Append(buffer[side], sig)
             votes == Active(list)
             firing == {c \in DOMAIN Needed : Fires(c, votes, side)}
             given == [name |-> name, side |-> side, at |-> now, nr |-> Cardinality(log)]
  <1>1. /\ buffer' = [buffer EXCEPT ![side] = votes]
        /\ fired' = [c \in DOMAIN Needed |->
                        IF c \in firing THEN [fired[c] EXCEPT ![side] = now] ELSE fired[c]]
        /\ positions' = [t \in Traders |->
                            IF t = name THEN OnSignal(positions[t], sig, slip)
                            ELSE IF t \in firing
                                 THEN OnSignal(positions[t], Agreement(votes, side), slip)
                                 ELSE positions[t]]
        /\ log' = log \cup {given}
        /\ UNCHANGED <<now, price, squaring>>
    BY DEF Signal
  <1>2. /\ now \in Nat /\ price \in Int /\ distance \in Int /\ slip \in Int
        /\ name \in Names /\ Window \in Nat /\ now \in 0..Close
    <2>1. now \in 0..Close /\ price \in Prices \cup {0} /\ Close \in Nat
      BY DEF TradersInv, Clock, TradersParameters
    <2>2. price \in Int /\ distance \in Int /\ slip \in Int /\ Window \in Nat
      BY <2>1 DEF TradersParameters
    <2>3. name \in Names
      BY DEF Names, ToSet
    <2> QED
      BY <2>1, <2>2, <2>3
  <1>3. /\ sig \in Vote /\ sig.name = name /\ sig.side = side /\ sig.at = now
        /\ sig.price \in Int /\ sig.stop \in Int /\ sig.target \in Int
    <2>1. Sign(side) \in Int /\ RewardRatio \in Int
      BY DEF Sign, TradersParameters
    <2>2. Sign(side) * distance \in Int /\ RewardRatio * Sign(side) \in Int
      BY <1>2, <2>1
    <2>3. RewardRatio * Sign(side) * distance \in Int
      BY <1>2, <2>2
    <2> QED
      BY <1>2, <2>2, <2>3 DEF Vote
  <1>4. /\ IsFiniteSet(log) /\ Cardinality(log) \in Nat /\ IsFiniteSet(log')
        /\ log' \in SUBSET [name : Names, side : Sides, at : Nat, nr : Nat]
        /\ log \subseteq log' /\ given \in log'
        /\ given.name = name /\ given.side = side /\ given.at = now
    <2>1. IsFiniteSet(log) /\ log \in SUBSET [name : Names, side : Sides, at : Nat, nr : Nat]
      BY DEF TradersInv, Votes
    <2>2. Cardinality(log) \in Nat
      BY <2>1, FS_CardinalityType
    <2>3. IsFiniteSet(log')
      BY <1>1, <2>1, FS_AddElement
    <2> QED
      BY <1>1, <1>2, <2>1, <2>2, <2>3
  <1> HIDE DEF sig, given, name
  <1>5. /\ list \in Seq(Vote)
        /\ \A i \in DOMAIN list :
              /\ list[i].side = side /\ list[i].at <= now
              /\ \E e \in log' : e.name = list[i].name /\ e.side = side /\ e.at = list[i].at
    <2> DEFINE old == buffer[side]
    <2>1. /\ old \in Seq(Vote)
          /\ \A i \in DOMAIN old :
                /\ old[i].side = side /\ old[i].at <= now
                /\ \E e \in log : e.name = old[i].name /\ e.side = side /\ e.at = old[i].at
      BY DEF TradersInv, Votes, Given
    <2> HIDE DEF old
    <2>2. /\ Append(old, sig) \in Seq(Vote) /\ DOMAIN Append(old, sig) = 1..(Len(old) + 1)
          /\ DOMAIN old = 1..Len(old) /\ Len(old) \in Nat
          /\ \A i \in 1..Len(old) : Append(old, sig)[i] = old[i]
          /\ Append(old, sig)[Len(old) + 1] = sig
      BY <1>3, <2>1
    <2>3. ASSUME NEW i \in DOMAIN Append(old, sig)
          PROVE  LET v == Append(old, sig)[i] IN
                 /\ v.side = side /\ v.at <= now
                 /\ \E e \in log' : e.name = v.name /\ e.side = side /\ e.at = v.at
      <3>1. CASE i = Len(old) + 1
        BY <1>2, <1>3, <1>4, <2>2, <3>1
      <3>2. CASE i \in 1..Len(old)
        BY <1>4, <2>1, <2>2, <3>2
      <3> QED
        BY <2>2, <3>1, <3>2
    <2> QED
      BY <2>2, <2>3 DEF old
  <1>6. /\ votes \in Seq(Vote)
        /\ \A i \in DOMAIN votes :
              /\ votes[i].side = side /\ votes[i].at <= now
              /\ \E e \in log' : e.name = votes[i].name /\ e.side = side /\ e.at = votes[i].at
        /\ Cardinality(Voters(votes)) \in Nat
        /\ Cardinality(Voters(votes)) <= Cardinality(Supporters(log', side, now))
        /\ Voters(votes) \subseteq Names
    <2> HIDE DEF list
    <2> QED
      BY <1>2, <1>4, <1>5, VotesCount
  <1> HIDE DEF votes, list
  <1>7. ASSUME NEW c \in firing
        PROVE  /\ c \in DOMAIN Needed /\ Cardinality(Voters(votes)) >= Needed[c]
               /\ now - fired[c][side] > Window /\ votes # <<>>
               /\ Cardinality(Supporters(log', side, now)) >= Needed[c]
    <2>1. /\ c \in DOMAIN Needed /\ Cardinality(Voters(votes)) >= Needed[c]
          /\ now - fired[c][side] > Window
      BY DEF Fires
    <2>2. Needed[c] \in Nat \ {0, 1}
      BY <2>1, Counts
    <2>3. Cardinality(Supporters(log', side, now)) \in Nat
      BY <1>4, SupportGrows
    <2>4. votes # <<>>
      <3> SUFFICES ASSUME votes = <<>> PROVE FALSE
        OBVIOUS
      <3> HIDE DEF votes
      <3>1. Voters(votes) = {}
        BY DEF Voters
      <3>2. Cardinality(Voters(votes)) = 0
        BY <3>1, FS_EmptySet
      <3> QED
        BY <2>1, <2>2, <3>2
    <2> QED
      BY <1>6, <2>1, <2>2, <2>3, <2>4
  <1> DEFINE agreed == Agreement(votes, side)
  <1>8. ASSUME firing # {}
        PROVE  /\ agreed.name \in Names \cup SUBSET Names /\ agreed.side = side
               /\ agreed.price \in Int /\ agreed.stop \in Int /\ agreed.target \in Int
    <2>1. votes # <<>>
      BY <1>7, <1>8
    <2>2. agreed \in [name : {Voters(votes)}, side : {side}, price : Int, target : Int, stop : Int]
      BY <1>6, <2>1, AgreementType
    <2> HIDE DEF agreed
    <2> QED
      BY <1>6, <2>2
  <1> HIDE DEF firing, agreed
  <1>9. /\ positions \in [Traders -> Seq(Position)] /\ Names \subseteq Traders
        /\ DOMAIN Needed \subseteq Traders /\ Names \cap DOMAIN Needed = {}
        /\ firing \subseteq DOMAIN Needed
    BY DEF TradersInv, Books, Traders, Names, TradersParameters, firing
  (* What each trader's positions become.                                  *)
  <1> DEFINE told(t) == t = name \/ t \in firing
  <1>10. ASSUME NEW t \in Traders
         PROVE  /\ positions'[t] \in Seq(Position)
                /\ \A i \in DOMAIN positions[t] :
                      i \in DOMAIN positions'[t] /\ positions'[t][i] = positions[t][i]
                /\ \A i \in DOMAIN positions'[t] : i \notin DOMAIN positions[t] =>
                      /\ told(t) /\ i = Len(positions[t]) + 1
                      /\ positions'[t][i].side = side /\ positions'[t][i].at = now
                      /\ Sane(positions'[t][i])
                      /\ t = name => /\ positions'[t][i].name = name
                                     /\ CanOpen(positions[t], name, side)
    <2>1. positions[t] \in Seq(Position)
      BY <1>9
    <2>2. CASE t = name
      <3>1. positions'[t] = OnSignal(positions[t], sig, slip)
        BY <1>1, <2>2
      <3>2. sig.name \in Names \cup SUBSET Names /\ sig.side \in Sides
        BY <1>2, <1>3
      <3> QED
        BY <1>2, <1>3, <2>1, <2>2, <3>1, <3>2, OnSignalGives
    <2>3. CASE t # name /\ t \in firing
      <3>1. positions'[t] = OnSignal(positions[t], agreed, slip)
        BY <1>1, <2>3 DEF agreed
      <3> QED
        BY <1>2, <1>8, <2>1, <2>3, <3>1, OnSignalGives
    <2>4. CASE ~told(t)
      BY <1>1, <2>1, <2>4
    <2> QED
      BY <2>2, <2>3, <2>4
  <1>11. ASSUME NEW t \in Traders
         PROVE  /\ DOMAIN positions[t] = 1..Len(positions[t]) /\ Len(positions[t]) \in Nat
                /\ DOMAIN positions'[t] = 1..Len(positions'[t]) /\ Len(positions'[t]) \in Nat
                /\ \A i, j \in DOMAIN positions'[t] :
                      i \notin DOMAIN positions[t] /\ j \notin DOMAIN positions[t] => i = j
                /\ \A i, j \in DOMAIN positions'[t] :
                      i \notin DOMAIN positions[t] /\ i < j => j \notin DOMAIN positions[t]
    <2>1. /\ DOMAIN positions[t] = 1..Len(positions[t]) /\ Len(positions[t]) \in Nat
          /\ DOMAIN positions'[t] = 1..Len(positions'[t]) /\ Len(positions'[t]) \in Nat
      BY <1>9, <1>10
    <2> QED
      BY <1>10, <2>1
  <1>12. Clock'
    BY <1>1 DEF TradersInv, Clock
  <1>13. Votes'
    <2>1. buffer' \in [Sides -> Seq(Vote)]
      BY <1>1, <1>6 DEF TradersInv, Votes
    <2>2. ASSUME NEW s \in Sides, NEW i \in DOMAIN buffer'[s]
          PROVE  LET v == buffer'[s][i]
                 IN  v.side = s /\ v.at <= now' /\ \E e \in log' : e.name = v.name /\ e.side = s /\ e.at = v.at
      <3>1. CASE s = side
        <4>1. buffer'[s] = votes
          BY <1>1, <3>1 DEF TradersInv, Votes
        <4> QED
          BY <1>1, <1>6, <3>1, <4>1
      <3>2. CASE s # side
        <4>1. buffer'[s] = buffer[s]
          BY <1>1, <3>2 DEF TradersInv, Votes
        <4> QED
          BY <1>1, <1>4, <3>2, <4>1 DEF TradersInv, Votes, Given
      <3> QED
        BY <3>1, <3>2
    <2> QED
      BY <1>4, <2>1, <2>2 DEF Votes, Given
  <1>14. Books'
    <2>1. positions' \in [Traders -> Seq(Position)]
      BY <1>1, <1>10
    <2>2. ASSUME NEW t \in Traders, NEW i \in DOMAIN positions'[t]
          PROVE  Sane(positions'[t][i]) /\ positions'[t][i].at <= now'
      <3>1. CASE i \in DOMAIN positions[t]
        BY <1>1, <1>10, <3>1 DEF TradersInv, Books
      <3>2. CASE i \notin DOMAIN positions[t]
        BY <1>1, <1>2, <1>10, <3>2
      <3> QED
        BY <3>1, <3>2
    <2> QED
      BY <2>1, <2>2 DEF Books
  <1>15. ASSUME NEW c \in DOMAIN Needed
         PROVE  /\ fired'[c] \in [Sides -> Int] /\ c \in Traders /\ (told(c) <=> c \in firing)
                /\ c \in firing => fired'[c][side] = now
                /\ c \notin firing => fired'[c] = fired[c]
                /\ \A s \in Sides \ {side} : fired'[c][s] = fired[c][s]
    <2>1. fired[c] \in [Sides -> Int]
      BY DEF TradersInv, Fired
    <2>2. fired'[c] = IF c \in firing THEN [fired[c] EXCEPT ![side] = now] ELSE fired[c]
      BY <1>1
    <2> QED
      BY <1>2, <1>9, <2>1, <2>2
  <1>16. Fired'
    <2>1. fired' \in [DOMAIN Needed -> [Sides -> Int]]
      BY <1>1, <1>15
    <2>2. ASSUME NEW c \in DOMAIN Needed, NEW i \in DOMAIN positions'[c]
          PROVE  positions'[c][i].at <= fired'[c][positions'[c][i].side]
      <3>1. CASE i \in DOMAIN positions[c]
        <4>1. /\ positions'[c][i] = positions[c][i] /\ positions[c][i] \in Position
              /\ positions[c][i].at <= fired[c][positions[c][i].side] /\ positions[c][i].at <= now
          BY <1>9, <1>10, <1>15, <3>1 DEF TradersInv, Fired, Books
        <4>2. positions[c][i].side \in Sides
          BY <4>1 DEF Position
        <4>3. CASE c \in firing /\ positions[c][i].side = side
          BY <1>15, <4>1, <4>3
        <4>4. CASE ~(c \in firing /\ positions[c][i].side = side)
          BY <1>15, <4>1, <4>2, <4>4
        <4> QED
          BY <4>3, <4>4
      <3>2. CASE i \notin DOMAIN positions[c]
        BY <1>2, <1>10, <1>15, <3>2
      <3> QED
        BY <3>1, <3>2
    <2> QED
      BY <2>1, <2>2 DEF Fired
  <1>17. Own'
    <2> SUFFICES ASSUME NEW t \in Names, NEW i \in DOMAIN positions'[t]
                 PROVE  positions'[t][i].name = t
      BY DEF Own
    <2>1. CASE i \in DOMAIN positions[t]
      BY <1>9, <1>10, <2>1 DEF TradersInv, Own
    <2>2. CASE i \notin DOMAIN positions[t]
      BY <1>9, <1>10, <2>2
    <2> QED
      BY <2>1, <2>2
  <1>18. TimerKnows'
    <2>1. \A t \in Traders : DOMAIN positions[t] \subseteq DOMAIN positions'[t]
      BY <1>10
    <2> QED
      BY <1>1, <2>1 DEF TradersInv, TimerKnows
  <1>19. ConfluenceEarned'
    <2> SUFFICES ASSUME NEW c \in DOMAIN Needed, NEW i \in DOMAIN positions'[c]
                 PROVE  Cardinality(Supporters(log', positions'[c][i].side, positions'[c][i].at)) >= Needed[c]
      BY DEF ConfluenceEarned, Supporters
    <2>1. CASE i \in DOMAIN positions[c]
      <3> DEFINE s == positions[c][i].side
                 a == positions[c][i].at
      <3>1. positions'[c][i] = positions[c][i]
        BY <1>10, <1>15, <2>1
      <3>2. Cardinality(Supporters(log, s, a)) >= Needed[c] /\ Needed[c] \in Nat
        BY <2>1, EarnedBy, Counts DEF TradersInv
      <3>3. /\ Cardinality(Supporters(log, s, a)) <= Cardinality(Supporters(log', s, a))
            /\ Cardinality(Supporters(log, s, a)) \in Nat /\ Cardinality(Supporters(log', s, a)) \in Nat
        BY <1>4, SupportGrows
      <3>4. Cardinality(Supporters(log', s, a)) >= Needed[c]
        BY <3>2, <3>3
      <3> QED
        BY <3>1, <3>4
    <2>2. CASE i \notin DOMAIN positions[c]
      BY <1>7, <1>10, <1>15, <2>2
    <2> QED
      BY <2>1, <2>2
  <1>20. Spaced'
    <2> SUFFICES ASSUME NEW c \in DOMAIN Needed, NEW i \in DOMAIN positions'[c],
                        NEW j \in DOMAIN positions'[c], i < j,
                        positions'[c][i].side = positions'[c][j].side
                 PROVE  positions'[c][j].at - positions'[c][i].at > Window
      BY DEF Spaced
    <2>1. CASE j \in DOMAIN positions[c]
      <3>1. i \in DOMAIN positions[c]
        BY <1>11, <1>15, <2>1
      <3> QED
        BY <1>10, <1>15, <2>1, <3>1 DEF TradersInv, Spaced
    <2>2. CASE j \notin DOMAIN positions[c]
      <3>1. /\ c \in firing /\ positions'[c][j].side = side /\ positions'[c][j].at = now
        BY <1>10, <1>15, <2>2
      <3>2. i \in DOMAIN positions[c]
        BY <1>11, <1>15, <2>2
      <3>3. positions'[c][i] = positions[c][i] /\ positions[c][i] \in Position
        BY <1>9, <1>10, <1>15, <3>2
      <3>4. positions[c][i].at <= fired[c][side] /\ fired[c][side] \in Int
        BY <3>1, <3>2, <3>3 DEF TradersInv, Fired
      <3>5. now - fired[c][side] > Window
        BY <1>7, <3>1
      <3>6. positions[c][i].at \in Int
        BY <3>3 DEF Position
      <3> QED
        BY <1>2, <3>1, <3>3, <3>4, <3>5, <3>6
    <2> QED
      BY <2>1, <2>2
  <1>21. OneEach'
    <2> SUFFICES ASSUME NEW t \in Names, NEW i \in OpenOf(positions'[t]),
                        NEW j \in OpenOf(positions'[t]), i # j,
                        positions'[t][i].side = positions'[t][j].side
                 PROVE  FALSE
      BY DEF OneEach
    <2>1. t \in Traders /\ i \in DOMAIN positions'[t] /\ j \in DOMAIN positions'[t]
      BY <1>9 DEF OpenOf
    <2>2. ASSUME NEW k \in OpenOf(positions'[t]), k \in DOMAIN positions[t]
          PROVE  k \in OpenOf(positions[t]) /\ positions'[t][k] = positions[t][k] /\ positions[t][k].name = t
      BY <1>10, <2>1, <2>2 DEF OpenOf, TradersInv, Own
    <2>3. ASSUME NEW k \in OpenOf(positions'[t]), k \notin DOMAIN positions[t],
                 NEW m \in OpenOf(positions'[t]), m \in DOMAIN positions[t],
                 positions'[t][k].side = positions'[t][m].side
          PROVE  FALSE
      <3>1. t = name
        BY <1>9, <1>10, <2>1, <2>3 DEF OpenOf
      <3>2. CanOpen(positions[t], t, side) /\ positions'[t][k].side = side
        BY <1>10, <2>1, <2>3, <3>1 DEF OpenOf
      <3>3. m \in OpenOf(positions[t]) /\ positions[t][m].name = t /\ positions[t][m].side = side
        BY <2>2, <2>3, <3>2
      <3> QED
        BY <3>2, <3>3 DEF CanOpen
    <2>4. CASE i \in DOMAIN positions[t] /\ j \in DOMAIN positions[t]
      BY <2>2, <2>4 DEF TradersInv, OneEach
    <2>5. CASE i \notin DOMAIN positions[t] /\ j \notin DOMAIN positions[t]
      BY <1>11, <2>1, <2>5
    <2> QED
      BY <2>3, <2>4, <2>5
  <1> QED
    BY <1>12, <1>13, <1>14, <1>16, <1>17, <1>18, <1>19, <1>20, <1>21 DEF TradersInv

-----------------------------------------------------------------------------
LEMMA TradersBegin == ASSUME TradersParameters, Init PROVE TradersInv
  <1>1. /\ now = 0 /\ price = 0 /\ log = {} /\ buffer = [side \in Sides |-> <<>>]
        /\ positions = [t \in Traders |-> <<>>] /\ squaring = NoPass
        /\ fired = [c \in DOMAIN Needed |-> [side \in Sides |-> Never]]
    BY DEF Init
  <1>2. \A t \in Traders : positions[t] = <<>> /\ DOMAIN positions[t] = {}
    BY <1>1
  <1>3. DOMAIN Needed \subseteq Traders /\ Names \subseteq Traders
    BY DEF Traders, Names
  <1>4. Clock
    BY <1>1 DEF Clock, TradersParameters
  <1>5. Votes
    <2>1. IsFiniteSet({})
      BY FS_EmptySet
    <2> QED
      BY <1>1, <2>1 DEF Votes
  <1>6. Books
    BY <1>1, <1>2 DEF Books
  <1>7. Fired
    <2>1. Never \in Int
      BY DEF Never, TradersParameters
    <2> QED
      BY <1>1, <1>2, <1>3, <2>1 DEF Fired
  <1>8. Own /\ Spaced /\ OneEach /\ ConfluenceEarned
    BY <1>2, <1>3 DEF Own, Spaced, OneEach, ConfluenceEarned, OpenOf
  <1>9. TimerKnows
    BY <1>1 DEF TimerKnows, NoPass
  <1> QED
    BY <1>4, <1>5, <1>6, <1>7, <1>8, <1>9 DEF TradersInv

(* Steps that leave positions, votes and agreements alone.                 *)
LEMMA QuietStep ==
    ASSUME TradersInv, UNCHANGED <<buffer, fired, positions, log>>, now' \in Nat, now <= now',
           Clock', TimerKnows'
    PROVE  TradersInv'
  <1>1. Votes'
    <2> SUFFICES ASSUME NEW side \in Sides, NEW i \in DOMAIN buffer[side]
                 PROVE  buffer[side][i].at <= now'
      BY DEF TradersInv, Votes, Given
    <2>1. buffer[side][i] \in Vote
      BY DEF TradersInv, Votes
    <2> QED
      BY <2>1 DEF TradersInv, Votes, Vote, Clock
  <1>2. Books'
    <2> SUFFICES ASSUME NEW t \in Traders, NEW i \in DOMAIN positions[t]
                 PROVE  positions[t][i].at <= now'
      BY DEF TradersInv, Books
    <2>1. positions[t][i] \in Position
      BY DEF TradersInv, Books
    <2> QED
      BY <2>1 DEF TradersInv, Books, Position, Clock
  <1>3. Fired' /\ Own' /\ Spaced' /\ OneEach'
    BY DEF TradersInv, Fired, Own, Spaced, OneEach, OpenOf
  <1>4. ConfluenceEarned'
    BY DEF TradersInv, ConfluenceEarned
  <1> QED
    BY <1>1, <1>2, <1>3, <1>4 DEF TradersInv

LEMMA TradersStep ==
    ASSUME TradersParameters, TradersInv, [Next]_vars
    PROVE  TradersInv'
  <1>0. Close \in Nat /\ now \in 0..Close
    BY DEF TradersParameters, TradersInv, Clock
  <1>1. CASE \E n \in DOMAIN Strategies, side \in Sides, d \in Distances, slip \in Slippages :
                Signal(n, side, d, slip)
    BY <1>1, SignalStep
  <1>2. CASE \E p \in Prices : Tick(p)
    BY <1>2, TickStep
  <1>3. CASE ClockTick
    BY <1>0, <1>3, QuietStep DEF ClockTick, TradersInv, Clock, TimerKnows
  <1>4. CASE \E t \in Traders : TimerFires(t)
    <2>1. PICK t \in Traders : TimerFires(t)
      BY <1>4
    <2>2. squaring' = [trader |-> t, left |-> OpenOf(positions[t])] /\ UNCHANGED <<now, price, positions>>
      BY <2>1 DEF TimerFires, Pass
    <2>3. positions[t] \in Seq(Position)
      BY DEF TradersInv, Books
    <2>4. OpenOf(positions[t]) \subseteq DOMAIN positions[t] /\ OpenOf(positions[t]) \in SUBSET Nat
      BY <2>3 DEF OpenOf
    <2>5. TimerKnows'
      BY <2>2, <2>4 DEF TimerKnows
    <2> QED
      BY <1>0, <2>1, <2>2, <2>5, QuietStep DEF TimerFires, TradersInv, Clock
  <1>5. CASE CloseNext
    BY <1>5, CloseStep
  <1>6. CASE Stop
    BY <1>0, <1>6, QuietStep DEF Stop, TradersInv, Clock, TimerKnows
  <1>7. CASE UNCHANGED vars
    BY <1>0, <1>7, QuietStep DEF vars, TradersInv, Clock, TimerKnows
  <1> QED
    BY <1>1, <1>2, <1>3, <1>4, <1>5, <1>6, <1>7 DEF Next

(* What the bot trades on agreement was agreed on (confluence.py): at the  *)
(* time of the trade, as many strategies as the trader's name says had     *)
(* signalled its side within the window.                                   *)
THEOREM AgreementsAreEarned ==
    ASSUME TradersParameters
    PROVE  Spec => []ConfluenceEarned
  <1>1. Init => TradersInv
    BY TradersBegin
  <1>2. TradersInv /\ [Next]_vars => TradersInv'
    BY TradersStep
  <1>3. TradersInv => ConfluenceEarned
    BY DEF TradersInv
  <1> QED
    BY <1>1, <1>2, <1>3, PTL DEF Spec

(* Nothing is traded twice (engine.py, _can_open_position; confluence.py,  *)
(* the time an agreement last fired), whatever signals, ticks and timers   *)
(* do, and every variable has its type.                                    *)
THEOREM NothingTradedTwice ==
    ASSUME TradersParameters
    PROVE  Spec => []TradedOnce
  <1>1. Init => TradersInv
    BY TradersBegin
  <1>2. TradersInv /\ [Next]_vars => TradersInv'
    BY TradersStep
  <1>3. TradersInv => TradedOnce
    <2> SUFFICES ASSUME TradersInv PROVE TradedOnce
      OBVIOUS
    <2>1. \A t \in Traders : \A i \in DOMAIN positions[t] : positions[t][i] \in Position
      BY DEF TradersInv, Books
    <2>2. TypeOK
      BY <2>1 DEF TradersInv, Clock, Votes, Books, TimerKnows, TypeOK, Position, Sane
    <2>3. Spaced /\ OneEach
      BY DEF TradersInv
    <2> QED
      BY <2>2, <2>3 DEF TradedOnce, Spaced, OneEach, Names
  <1> QED
    BY <1>1, <1>2, <1>3, PTL DEF Spec

-----------------------------------------------------------------------------
(* main_paper.py.  The invariant adds to the properties that a process     *)
(* that is not there has no trades, that a variant has at most one, and    *)
(* that the square-off comes when the sessions are over, so that the candle*)
(* that the very same tick completes opens nothing.                        *)
Levels == {"none", "low", "mid", "high"}
Exits == {"time_1h", "time_2h", "rr3", "ema13_cross", "session_morning"}

Trade == [exit : Exits, left : 0..(4 * Hour), held : BOOLEAN]

(* A variant has no trade, or one.                                         *)
AtMostOne(trades) == trades = {} \/ \E pos \in Trade : trades = {pos}

Regime == [volatility : Volatilities, structure : Structures, atrs : 0..MinAtrs]

Memory == [previous : Levels, current : Levels]

Results == [closed : Nat, cumulative : Nat]

Process ==
    /\ token \in Tokens /\ time \in 0..DayEnd /\ up \in BOOLEAN /\ starts \in 0..MaxStarts
    /\ store \in IF up THEN Stores ELSE {"none"}
    /\ squaredOff \in BOOLEAN /\ building \in {None} \cup 0..time /\ missing \in 0..MinHistory

Evaluated ==
    /\ rsi \in Memory /\ regime \in Regime
    /\ view \in [Number -> {"unseen"} \cup Levels] /\ SameCandleSameView

(* What was opened is there or was counted, and the results fit the store. *)
Balanced(trades, count, again, b, kept, faults) ==
    /\ count + again = Cardinality(trades) + b.closed
    /\ IF "load" \in faults THEN b.cumulative = b.closed
       ELSE kept <= b.cumulative /\ (faults = {} => kept = b.cumulative)

Recorded ==
    /\ books \in [Number -> Results] /\ stored \in [Stores -> [Number -> Nat]]
    /\ recounted \in [Number -> Nat] /\ failed \in SUBSET {"load", "save"}
    /\ looked \in BOOLEAN

(* A process that is not there has no trades; the result of every trade is *)
(* counted.                                                                *)
Traded ==
    /\ open \in [Number -> SUBSET Trade] /\ \A v \in Number : AtMostOne(open[v])
    /\ opened \in [Number -> Nat]
    /\ ~up => \A v \in Number : open[v] = {} /\ opened[v] = 0 /\ recounted[v] = 0
    /\ up => \A v \in Number : Balanced(open[v], opened[v], recounted[v], books[v],
                                        stored[store][v], failed)

(* After the square-off the session is over, so nothing is opened again.   *)
SquaredOff == squaredOff => time >= AutoSquareOff /\ \A v \in Number : open[v] = {}

PaperInv == Process /\ Evaluated /\ Recorded /\ Traded /\ SquaredOff /\ OverdueLeavesOnTick

LEMMA PaperBegins == ASSUME PaperParameters, PaperInit PROVE PaperInv
  <1>1. Process
    <2>1. time \in 0..DayEnd /\ starts \in 0..MaxStarts /\ missing \in 0..MinHistory
      BY DEF PaperParameters, PaperInit
    <2> QED
      BY <2>1 DEF PaperInit, Process
  <1>2. Evaluated
    <2>1. NoRsi \in Memory
      BY DEF NoRsi, Memory, Levels
    <2>2. NoRegime \in Regime
      BY DEF NoRegime, Regime, Volatilities, Structures, PaperParameters
    <2>3. Unseen \in [Number -> {"unseen"} \cup Levels] /\ Unseen[1] = "unseen"
      BY DEF Unseen, Number
    <2> QED
      BY <2>1, <2>2, <2>3 DEF PaperInit, Evaluated, SameCandleSameView
  <1>3. Recorded
    BY DEF PaperInit, Recorded, Results, BooksOf, Nothing
  <1>4. Traded
    BY DEF PaperInit, Traded, AtMostOne, Nothing
  <1>5. SquaredOff /\ OverdueLeavesOnTick
    BY DEF PaperInit, SquaredOff, OverdueLeavesOnTick
  <1> QED
    BY <1>1, <1>2, <1>3, <1>4, <1>5 DEF PaperInv

LEMMA UnseenIsFine ==
    Unseen \in [Number -> {"unseen"} \cup Levels] /\ Unseen[1] = "unseen" /\ Unseen[2] = "unseen"
  BY DEF Unseen, Number

LEMMA StartKeeps == ASSUME PaperParameters, PaperInv, Start PROVE PaperInv'
  <1>1. /\ ~up /\ starts < MaxStarts /\ up' = TRUE /\ starts' = starts + 1 /\ missing' \in {0, MinHistory}
        /\ UNCHANGED <<token, time, stored, squaredOff, building, rsi, regime, open>>
        /\ UNCHANGED <<opened, recounted, looked>> /\ view' = Unseen
    BY DEF Start, market
  <1>a. PICK s \in Stores : \E known \in {stored[s], Nothing} :
            /\ store' = s /\ books' = BooksOf(known)
            /\ failed' = IF known = stored[s] THEN {} ELSE {"load"}
    BY DEF Start
  <1>2. PICK known \in {stored[s], Nothing} :
            /\ store' = s /\ books' = BooksOf(known)
            /\ failed' = IF known = stored[s] THEN {} ELSE {"load"}
    BY <1>a
  <1>3. stored \in [Stores -> [Number -> Nat]] /\ known \in [Number -> Nat]
    BY DEF PaperInv, Recorded, Nothing
  <1>4. books' = [v \in Number |-> [closed |-> 0, cumulative |-> known[v]]]
    BY <1>2 DEF BooksOf
  <1>5. Process'
    BY <1>1, <1>2 DEF PaperInv, Process, PaperParameters
  <1>6. Evaluated'
    BY <1>1, UnseenIsFine DEF PaperInv, Evaluated, SameCandleSameView
  <1>7. Recorded'
    <2>1. books' \in [Number -> Results]
      BY <1>3, <1>4 DEF Results
    <2>2. failed' \in SUBSET {"load", "save"}
      BY <1>2
    <2> QED
      BY <1>1, <2>1, <2>2 DEF PaperInv, Recorded
  <1>8. Traded'
    <2>1. \A v \in Number : open[v] = {} /\ opened[v] = 0 /\ recounted[v] = 0
      BY <1>1 DEF PaperInv, Traded
    <2>2. ASSUME NEW v \in Number
          PROVE  Balanced(open'[v], opened'[v], recounted'[v], books'[v], stored'[store'][v], failed')
      <3>1. Cardinality(open'[v]) = 0 /\ opened'[v] = 0 /\ recounted'[v] = 0
        BY <1>1, <2>1, FS_EmptySet
      <3>2. books'[v].closed = 0 /\ books'[v].cumulative = known[v] /\ stored'[store'][v] = stored[s][v]
        BY <1>1, <1>2, <1>4
      <3>3. stored[s][v] \in Nat
        BY <1>3
      <3>4. CASE known = stored[s]
        BY <1>2, <3>1, <3>2, <3>3, <3>4 DEF Balanced
      <3>5. CASE known # stored[s]
        <4>1. known[v] = 0 /\ "load" \in failed'
          BY <1>2, <3>5 DEF Nothing
        <4> QED
          BY <3>1, <3>2, <4>1 DEF Balanced
      <3> QED
        BY <3>4, <3>5
    <2> QED
      BY <1>1, <2>2 DEF PaperInv, Traded
  <1>9. SquaredOff' /\ OverdueLeavesOnTick'
    BY <1>1 DEF PaperInv, SquaredOff, OverdueLeavesOnTick
  <1> QED
    BY <1>5, <1>6, <1>7, <1>8, <1>9 DEF PaperInv

LEMMA ExitKeeps == ASSUME PaperParameters, PaperInv, Exit PROVE PaperInv'
  <1>1. /\ up' = FALSE /\ store' = "none" /\ squaredOff' = FALSE /\ building' = None
        /\ rsi' = NoRsi /\ regime' = NoRegime
        /\ open' = [v \in Number |-> {}] /\ books' = BooksOf(Nothing)
        /\ opened' = Nothing /\ recounted' = Nothing /\ failed' = {}
        /\ looked' = FALSE /\ view' = Unseen
        /\ UNCHANGED <<token, time, starts, stored, missing>>
    BY DEF Exit, market
  <1>2. Process'
    BY <1>1 DEF PaperInv, Process
  <1>3. Evaluated'
    <2>1. NoRsi \in Memory
      BY DEF NoRsi, Memory, Levels
    <2>2. NoRegime \in Regime
      BY DEF NoRegime, Regime, Volatilities, Structures, PaperParameters
    <2> QED
      BY <1>1, <2>1, <2>2, UnseenIsFine DEF Evaluated, SameCandleSameView
  <1>4. Recorded'
    BY <1>1 DEF PaperInv, Recorded, Results, BooksOf, Nothing
  <1>5. Traded'
    BY <1>1 DEF Traded, AtMostOne, Nothing
  <1>6. SquaredOff' /\ OverdueLeavesOnTick'
    BY <1>1 DEF SquaredOff, OverdueLeavesOnTick
  <1> QED
    BY <1>2, <1>3, <1>4, <1>5, <1>6 DEF PaperInv

LEMMA OlderTrade == ASSUME PaperParameters, NEW pos \in Trade PROVE Older(pos) \in Trade
  <1>1. pos.left \in 0..(4 * Hour) /\ 4 * Hour \in Nat
    BY DEF Trade, PaperParameters
  <1>2. Max({pos.left - 1, 0}) = IF pos.left - 1 >= 0 THEN pos.left - 1 ELSE 0
    BY <1>1, MaxOfTwo
  <1>3. Max({pos.left - 1, 0}) \in 0..(4 * Hour)
    BY <1>1, <1>2
  <1> QED
    BY <1>3 DEF Older, Trade

LEMMA AdvanceKeeps == ASSUME PaperParameters, PaperInv, Advance PROVE PaperInv'
  <1>1. /\ time < DayEnd /\ time' = time + 1
        /\ open' = [v \in Number |-> {Older(pos) : pos \in open[v]}]
        /\ UNCHANGED <<token, up, starts, store, stored, squaredOff, building, missing, rsi, regime, books>>
        /\ UNCHANGED <<opened, recounted, failed>> /\ looked' = FALSE /\ view' = Unseen
    BY DEF Advance, process
  <1>2. Process'
    BY <1>1 DEF PaperInv, Process, PaperParameters
  <1>3. Evaluated'
    BY <1>1, UnseenIsFine DEF PaperInv, Evaluated, SameCandleSameView
  <1>4. ASSUME NEW v \in Number
        PROVE  AtMostOne(open'[v]) /\ Cardinality(open'[v]) = Cardinality(open[v])
               /\ (open[v] = {} => open'[v] = {}) /\ open'[v] \in SUBSET Trade
    <2>1. AtMostOne(open[v]) /\ open'[v] = {Older(pos) : pos \in open[v]}
      BY <1>1 DEF PaperInv, Traded
    <2>2. CASE open[v] = {}
      BY <2>1, <2>2 DEF AtMostOne
    <2>3. CASE \E pos \in Trade : open[v] = {pos}
      <3>1. PICK pos \in Trade : open[v] = {pos}
        BY <2>3
      <3>2. open'[v] = {Older(pos)} /\ Older(pos) \in Trade
        BY <2>1, <3>1, OlderTrade
      <3>3. Cardinality({pos}) = 1 /\ Cardinality({Older(pos)}) = 1
        BY FS_Singleton
      <3> QED
        BY <3>1, <3>2, <3>3 DEF AtMostOne
    <2> QED
      BY <2>1, <2>2, <2>3 DEF AtMostOne
  <1>5. Traded'
    <2>1. open' \in [Number -> SUBSET Trade]
      BY <1>1, <1>4
    <2>2. up' => \A v \in Number : Balanced(open'[v], opened'[v], recounted'[v], books'[v],
                                            stored'[store'][v], failed')
      BY <1>1, <1>4 DEF PaperInv, Traded, Balanced
    <2> QED
      BY <1>1, <1>4, <2>1, <2>2 DEF PaperInv, Traded
  <1>6. SquaredOff'
    BY <1>1, <1>4 DEF PaperInv, SquaredOff, Process, PaperParameters
  <1>7. Recorded' /\ OverdueLeavesOnTick'
    BY <1>1 DEF PaperInv, Recorded, OverdueLeavesOnTick
  <1> QED
    BY <1>2, <1>3, <1>5, <1>6, <1>7 DEF PaperInv

(* A tick's exits end with all trades that leave, or with the one whose    *)
(* saving raised.                                                          *)
LEMMA PassParts ==
    ASSUME NEW p \in Passes
    PROVE  /\ p.done \in SUBSET Number /\ p.raised \in Number \cup {None} /\ p.raised \notin p.done
           /\ p.saved \in SUBSET Number /\ p.saved \subseteq Counted(p)
           /\ p.lost \in BOOLEAN /\ p.done \subseteq Leavers(p.reached)
           /\ p.raised = None => p.done = Leavers(p.reached)
  <1>1. /\ p.done \in SUBSET Number /\ p.raised \in Number \cup {None}
        /\ p.saved \in SUBSET Number /\ p.lost \in BOOLEAN /\ p.saved \subseteq p.done \cup {p.raised}
        /\ IF p.raised = None THEN p.done = Leavers(p.reached)
           ELSE p.done = {v \in Leavers(p.reached) : Turn(p.reached, v) < Turn(p.reached, p.raised)}
    BY DEF Passes
  <1>2. None \notin Number
    BY DEF None, Number
  <1>3. p.raised \notin p.done
    <2>1. CASE p.raised = None
      BY <1>1, <1>2, <2>1
    <2>2. CASE p.raised # None
      <3>1. Turn(p.reached, p.raised) \in Nat
        BY <1>1, <2>2 DEF Turn, Number
      <3> QED
        BY <1>1, <2>2, <3>1
    <2> QED
      BY <2>1, <2>2
  <1> QED
    BY <1>1, <1>2, <1>3 DEF Counted

(* What a tick closes is booked, and what it leaves is not due, unless the *)
(* store raised, nor, after the square-off, there at all.                  *)
Left(p) ==
    /\ squaredOff' \in BOOLEAN /\ (squaredOff' => time >= AutoSquareOff)
    /\ Recorded'
    /\ Remaining(p) \in [Number -> SUBSET Trade]
    /\ \A v \in Number :
          /\ AtMostOne(Remaining(p)[v])
          /\ looked' => \A pos \in Remaining(p)[v] : pos.left > 0
          /\ squaredOff' => Remaining(p)[v] = {}
          /\ Balanced(Remaining(p)[v], opened[v], recounted'[v], books'[v], stored'[store][v], failed')

LEMMA TickRecords ==
    ASSUME PaperParameters, PaperInv, up, NEW p \in Passes, HandleTick(p), Observe(p)
    PROVE  /\ Recorded'
           /\ \A v \in Number :
                 /\ books'[v] = IF v \in Counted(p)
                                THEN [closed |-> books[v].closed + 1, cumulative |-> books[v].cumulative + 1]
                                ELSE books[v]
                 /\ recounted'[v] = recounted[v] + IF v = p.raised THEN 1 ELSE 0
                 /\ stored'[store][v] = (IF p.lost THEN 0 ELSE stored[store][v]) + IF v \in p.saved THEN 1 ELSE 0
  <1>1. /\ books' = CloseTrades(books, Counted(p))
        /\ stored' = [stored EXCEPT ![store] = SaveTrades(@, p)]
        /\ recounted' = [v \in Number |-> recounted[v] + IF v = p.raised THEN 1 ELSE 0]
        /\ failed' = failed \cup (IF p.lost \/ p.saved # Counted(p) THEN {"save"} ELSE {})
        /\ looked' = (p.raised = None)
    BY DEF HandleTick, Observe
  <1>2. /\ books \in [Number -> Results] /\ stored \in [Stores -> [Number -> Nat]] /\ store \in Stores
        /\ recounted \in [Number -> Nat] /\ failed \in SUBSET {"load", "save"}
    BY DEF PaperInv, Recorded, Process
  <1>3. books' \in [Number -> Results]
    BY <1>1, <1>2 DEF CloseTrades, Results
  <1>4. SaveTrades(stored[store], p) \in [Number -> Nat]
    BY <1>2 DEF SaveTrades
  <1>5. stored' \in [Stores -> [Number -> Nat]] /\ stored'[store] = SaveTrades(stored[store], p)
    BY <1>1, <1>2, <1>4
  <1>6. recounted' \in [Number -> Nat]
    BY <1>1, <1>2
  <1>7. failed' \in SUBSET {"load", "save"} /\ looked' \in BOOLEAN
    BY <1>1, <1>2
  <1>8. ASSUME NEW v \in Number
        PROVE  stored'[store][v] = (IF p.lost THEN 0 ELSE stored[store][v]) + IF v \in p.saved THEN 1 ELSE 0
    BY <1>5 DEF SaveTrades
  <1>9. ASSUME NEW v \in Number
        PROVE  books'[v] = IF v \in Counted(p)
                           THEN [closed |-> books[v].closed + 1, cumulative |-> books[v].cumulative + 1]
                           ELSE books[v]
    BY <1>1 DEF CloseTrades
  <1> QED
    BY <1>1, <1>3, <1>5, <1>6, <1>7, <1>8, <1>9 DEF Recorded

LEMMA TickBalances ==
    ASSUME PaperParameters, PaperInv, up, NEW p \in Passes, HandleTick(p), Observe(p), NEW v \in Number
    PROVE  Balanced(Remaining(p)[v], opened[v], recounted'[v], books'[v], stored'[store][v], failed')
  <1> DEFINE b == books[v]
             rest == Remaining(p)[v]
  <1>1. /\ b.closed \in Nat /\ b.cumulative \in Nat /\ opened[v] \in Nat /\ recounted[v] \in Nat
        /\ store \in Stores /\ stored[store][v] \in Nat
        /\ Balanced(open[v], opened[v], recounted[v], b, stored[store][v], failed) /\ AtMostOne(open[v])
    BY DEF PaperInv, Recorded, Traded, Process, Results
  <1>2. /\ books'[v] = IF v \in Counted(p) THEN [closed |-> b.closed + 1, cumulative |-> b.cumulative + 1] ELSE b
        /\ recounted'[v] = recounted[v] + IF v = p.raised THEN 1 ELSE 0
        /\ stored'[store][v] = (IF p.lost THEN 0 ELSE stored[store][v]) + IF v \in p.saved THEN 1 ELSE 0
    BY TickRecords
  <1>3. /\ p.raised \notin p.done /\ p.saved \subseteq Counted(p) /\ p.lost \in BOOLEAN
        /\ p.done \subseteq Leavers(p.reached)
    BY PassParts
  <1>4. rest = IF v \in p.done THEN {} ELSE open[v]
    BY DEF Remaining
  <1>5. failed' = failed \cup (IF p.lost \/ p.saved # Counted(p) THEN {"save"} ELSE {})
    BY DEF Observe
  <1>6. v \in Counted(p) <=> v \in p.done \/ v = p.raised
    BY DEF Counted, None, Number
  <1> HIDE DEF b, rest
  <1>7. opened[v] + recounted'[v] = Cardinality(rest) + books'[v].closed
    <2>1. Cardinality({}) = 0 /\ Cardinality(open[v]) \in Nat
      <3>1. open[v] = {} \/ \E pos \in Trade : open[v] = {pos}
        BY <1>1 DEF AtMostOne
      <3>2. Cardinality({}) = 0 /\ \A pos \in Trade : Cardinality({pos}) = 1
        BY FS_EmptySet, FS_Singleton
      <3> QED
        BY <3>1, <3>2
    <2>2. opened[v] + recounted[v] = Cardinality(open[v]) + b.closed
      BY <1>1 DEF Balanced
    <2>3. CASE v \in p.done
      <3>1. open[v] # {}
        BY <1>3, <2>3 DEF Leavers
      <3>2. Cardinality(open[v]) = 1
        BY <1>1, <3>1, FS_Singleton DEF AtMostOne
      <3>3. books'[v].closed = b.closed + 1 /\ recounted'[v] = recounted[v] /\ rest = {}
        BY <1>1, <1>2, <1>3, <1>4, <1>6, <2>3
      <3> QED
        BY <1>1, <2>1, <2>2, <3>2, <3>3
    <2>4. CASE v = p.raised
      <3>1. books'[v].closed = b.closed + 1 /\ recounted'[v] = recounted[v] + 1 /\ rest = open[v]
        BY <1>2, <1>3, <1>4, <1>6, <2>4
      <3> QED
        BY <1>1, <2>1, <2>2, <3>1
    <2>5. CASE v \notin p.done /\ v # p.raised
      <3>1. books'[v].closed = b.closed /\ recounted'[v] = recounted[v] /\ rest = open[v]
        BY <1>1, <1>2, <1>4, <1>6, <2>5
      <3> QED
        BY <2>2, <3>1
    <2> QED
      BY <2>3, <2>4, <2>5
  <1>8. CASE "load" \in failed
    <2>1. b.cumulative = b.closed /\ "load" \in failed'
      BY <1>1, <1>5, <1>8 DEF Balanced
    <2>2. books'[v].cumulative = books'[v].closed
      BY <1>2, <2>1
    <2> QED
      BY <1>7, <2>1, <2>2 DEF Balanced, rest
  <1>9. CASE "load" \notin failed
    <2>1. stored[store][v] <= b.cumulative /\ (failed = {} => stored[store][v] = b.cumulative)
      BY <1>1, <1>9 DEF Balanced
    <2>2. books'[v].cumulative = b.cumulative + IF v \in Counted(p) THEN 1 ELSE 0
      BY <1>1, <1>2
    <2>3. stored'[store][v] <= books'[v].cumulative
      BY <1>1, <1>2, <1>3, <2>1, <2>2
    <2>4. failed' = {} => stored'[store][v] = books'[v].cumulative
      <3>1. failed' = {} => ~p.lost /\ p.saved = Counted(p) /\ failed = {}
        BY <1>5
      <3> QED
        BY <1>2, <2>1, <2>2, <3>1
    <2>5. "load" \notin failed'
      BY <1>5, <1>9
    <2> QED
      BY <1>7, <2>3, <2>4, <2>5 DEF Balanced, rest
  <1> QED
    BY <1>8, <1>9 DEF rest

LEMMA TickBooks ==
    ASSUME PaperParameters, PaperInv, up, NEW p \in Passes, HandleTick(p), Observe(p)
    PROVE  Left(p)
  <1>1. /\ squaredOff' = (squaredOff \/ (p.raised = None /\ time >= AutoSquareOff))
        /\ looked' = (p.raised = None)
    BY DEF HandleTick, Observe
  <1>2. squaredOff' \in BOOLEAN /\ (squaredOff' => time >= AutoSquareOff)
    BY <1>1 DEF PaperInv, SquaredOff, Process
  <1>3. ASSUME NEW v \in Number
        PROVE  /\ Remaining(p)[v] = IF v \in p.done THEN {} ELSE open[v]
               /\ open[v] \in SUBSET Trade /\ AtMostOne(open[v])
    BY DEF Remaining, PaperInv, Traded
  <1>4. Remaining(p) \in [Number -> SUBSET Trade]
    BY <1>3 DEF Remaining
  <1>5. ASSUME NEW v \in Number PROVE AtMostOne(Remaining(p)[v])
    BY <1>3 DEF AtMostOne
  <1>6. ASSUME NEW v \in Number, looked', NEW pos \in Remaining(p)[v] PROVE pos.left > 0
    <2>1. p.done = Leavers(p.reached)
      BY <1>1, <1>6, PassParts
    <2>2. pos \in open[v] /\ v \notin Leavers(p.reached) /\ pos \in Trade
      BY <1>3, <1>6, <2>1
    <2>3. pos.left # 0
      BY <2>2 DEF Leavers, Leaves
    <2>4. pos.left \in Nat
      BY <2>2 DEF Trade, PaperParameters
    <2> QED
      BY <2>3, <2>4
  <1>7. ASSUME NEW v \in Number, squaredOff' PROVE Remaining(p)[v] = {}
    <2>1. CASE squaredOff
      BY <1>3, <2>1 DEF PaperInv, SquaredOff
    <2>2. CASE ~squaredOff
      <3>1. p.raised = None /\ time >= AutoSquareOff
        BY <1>1, <1>7, <2>2
      <3>2. p.done = Leavers(p.reached)
        BY <3>1, PassParts
      <3>3. open[v] # {} => v \in Leavers(p.reached)
        BY <2>2, <3>1 DEF Leavers
      <3> QED
        BY <1>3, <3>2, <3>3
    <2> QED
      BY <2>1, <2>2
  <1>8. Recorded'
    BY TickRecords
  <1>9. ASSUME NEW v \in Number
        PROVE  Balanced(Remaining(p)[v], opened[v], recounted'[v], books'[v], stored'[store][v], failed')
    BY TickBalances
  <1> QED
    BY <1>2, <1>4, <1>5, <1>6, <1>7, <1>8, <1>9 DEF Left

-----------------------------------------------------------------------------
(* One variant's look at a candle.                                         *)
Sight ==
    [rsi : Memory, regime : Regime, open : [Number -> SUBSET Trade], opened : [Number -> Nat],
     view : [Number -> {"unseen"} \cup Levels], rotated : BOOLEAN]

LEMMA NewTrade ==
    ASSUME PaperParameters, PaperInv, NEW v \in Number, Session # "CLOSING"
    PROVE  NewPosition(v) \in Trade /\ NewPosition(v).left > 0
  <1>1. token \in DOMAIN BestExit /\ BestExit[token] \in Exits
    BY DEF PaperInv, Process, PaperParameters, BestExit, Exits
  <1>2. ExitType(v) \in Exits
    BY <1>1 DEF ExitType, Exits
  <1>3. time \in Nat /\ MorningEnd \in Nat /\ Hour \in Nat /\ Hour > 0 /\ MorningEnd <= 4 * Hour
    BY DEF PaperInv, Process, PaperParameters
  <1>4. ASSUME NEW e \in Exits PROVE Lasts(e) \in 0..(4 * Hour) /\ Lasts(e) > 0
    BY <1>3 DEF Lasts, Exits
  <1> QED
    BY <1>2, <1>4 DEF NewPosition, Trade

LEMMA NewRegime ==
    ASSUME PaperParameters, NEW r \in Regime, NEW c \in Candles, NEW v \in Number
    PROVE  UpdateIndicators(r, c, v) \in Regime
  <1>1. r.atrs \in Nat /\ MinAtrs \in Nat /\ r.atrs <= MinAtrs
    BY DEF Regime, PaperParameters
  <1>2. Min({r.atrs + 1, MinAtrs}) = IF r.atrs + 1 <= MinAtrs THEN r.atrs + 1 ELSE MinAtrs
    BY <1>1, MinOfTwo
  <1>3. Min({r.atrs + 1, MinAtrs}) \in 0..MinAtrs
    BY <1>1, <1>2
  <1>4. c.volatility[v] \in Volatilities /\ c.structure \in Structures
    BY DEF Candles, PaperParameters, Volatilities, Structures
  <1> QED
    BY <1>3, <1>4 DEF UpdateIndicators, Regime, Volatilities

LEMMA EvaluateGives ==
    ASSUME PaperParameters, PaperInv, NEW s \in Sight, NEW v \in Number, NEW c \in Candles
    PROVE  LET t == Evaluate(s, v, c)
               memory == Rotate(s.rsi, s.rotated, c) IN
           /\ t \in Sight
           /\ \A w \in Number \ {v} : t.open[w] = s.open[w] /\ t.opened[w] = s.opened[w] /\ t.view[w] = s.view[w]
           /\ \/ t = s
              \/ t.rotated /\ t.rsi = memory /\ t.view[v] = memory.previous
           /\ \/ t.open[v] = s.open[v] /\ t.opened[v] = s.opened[v]
              \/ /\ s.open[v] = {} /\ t.opened[v] = s.opened[v] + 1 /\ Session # "CLOSING"
                 /\ \E pos \in Trade : pos.left > 0 /\ t.open[v] = {pos}
  <1> DEFINE memory == Rotate(s.rsi, s.rotated, c)
             t == [s EXCEPT !.rsi = memory, !.rotated = TRUE, !.view[v] = memory.previous]
             u == [t EXCEPT !.regime = UpdateIndicators(@, c, v)]
             signal == EvaluateMr(memory.previous, c)
             w == [u EXCEPT !.open[v] = {NewPosition(v)}, !.opened[v] = @ + 1]
  <1>1. memory \in Memory
    BY DEF Rotate, Memory, Sight, Candles, Levels, PaperParameters
  <1>2. /\ t \in Sight /\ t.rotated /\ t.rsi = memory /\ t.open = s.open /\ t.opened = s.opened
        /\ t.view = [s.view EXCEPT ![v] = memory.previous] /\ t.regime = s.regime
    <2> HIDE DEF memory
    <2>1. [s.view EXCEPT ![v] = memory.previous] \in [Number -> {"unseen"} \cup Levels]
      BY <1>1 DEF Sight, Memory
    <2> QED
      BY <1>1, <2>1 DEF Sight
  <1> HIDE DEF t, memory
  <1>3. /\ u \in Sight /\ u.rotated /\ u.rsi = memory /\ u.open = s.open /\ u.opened = s.opened
        /\ u.view = t.view
    <2>1. UpdateIndicators(t.regime, c, v) \in Regime
      BY <1>2, NewRegime DEF Sight
    <2> QED
      BY <1>2, <2>1 DEF Sight
  <1> HIDE DEF u
  <1>4. ASSUME signal # "none", Session # "CLOSING"
        PROVE  /\ w \in Sight /\ w.rotated /\ w.rsi = memory /\ w.view = t.view
               /\ w.open = [s.open EXCEPT ![v] = {NewPosition(v)}]
               /\ w.opened = [s.opened EXCEPT ![v] = s.opened[v] + 1]
               /\ NewPosition(v) \in Trade /\ NewPosition(v).left > 0
    <2>2. NewPosition(v) \in Trade /\ NewPosition(v).left > 0
      BY <1>4, NewTrade
    <2> HIDE DEF signal
    <2>3. [s.open EXCEPT ![v] = {NewPosition(v)}] \in [Number -> SUBSET Trade]
      BY <2>2 DEF Sight
    <2>4. [s.opened EXCEPT ![v] = s.opened[v] + 1] \in [Number -> Nat]
      BY DEF Sight
    <2> DEFINE trades == [u.open EXCEPT ![v] = {NewPosition(v)}]
               count == [u.opened EXCEPT ![v] = @ + 1]
    <2>5. w = [u EXCEPT !.open = trades, !.opened = count]
      OBVIOUS
    <2>6. trades = [s.open EXCEPT ![v] = {NewPosition(v)}]
          /\ count = [s.opened EXCEPT ![v] = s.opened[v] + 1]
      BY <1>3
    <2> HIDE DEF trades, count
    <2>7. trades \in [Number -> SUBSET Trade] /\ count \in [Number -> Nat]
      BY <2>3, <2>4, <2>6
    <2>8. /\ w \in Sight /\ w.open = trades /\ w.opened = count
          /\ w.rotated = u.rotated /\ w.rsi = u.rsi /\ w.view = u.view
      BY <1>3, <2>5, <2>7 DEF Sight
    <2> HIDE DEF w
    <2> QED
      BY <1>3, <2>2, <2>6, <2>8
  <1> HIDE DEF w
  <1>5. Evaluate(s, v, c) = IF ~CheckRegime(s.regime) \/ s.open[v] # {} \/ missing > 1 THEN s
                            ELSE IF memory.previous = "none" THEN t
                            ELSE IF signal = "none" THEN u ELSE w
    BY DEF Evaluate, memory, t, u, w
  <1> HIDE DEF signal
  <1>6. CheckRegime(s.regime) => Session # "CLOSING"
    BY DEF CheckRegime
  <1>7. s.view \in [Number -> {"unseen"} \cup Levels] /\ s.open \in [Number -> SUBSET Trade]
        /\ s.opened \in [Number -> Nat]
    BY DEF Sight
  <1>8. CASE Evaluate(s, v, c) = s
    BY <1>8
  <1>9. CASE Evaluate(s, v, c) = t
    BY <1>2, <1>7, <1>9 DEF memory
  <1>10. CASE Evaluate(s, v, c) = u
    BY <1>2, <1>3, <1>7, <1>10 DEF memory
  <1>11. CASE Evaluate(s, v, c) = w /\ signal # "none" /\ CheckRegime(s.regime) /\ s.open[v] = {}
    BY <1>2, <1>4, <1>6, <1>7, <1>11 DEF memory
  <1> QED
    BY <1>5, <1>8, <1>9, <1>10, <1>11

(* A variant has the trades it had, or entered one.                        *)
Entered(before, count, after, total) ==
    \/ after = before /\ total = count
    \/ /\ before = {} /\ total = count + 1 /\ Session # "CLOSING"
       /\ \E pos \in Trade : pos.left > 0 /\ after = {pos}

LEMMA OnCandleGives ==
    ASSUME PaperParameters, PaperInv, NEW s \in Sight, ~s.rotated, s.view = Unseen, NEW c \in Candles
    PROVE  LET t == OnCandle(s, c) IN
           /\ t \in Sight
           /\ "unseen" \in {t.view[1], t.view[2]} \/ t.view[1] = t.view[2]
           /\ \A v \in Number : Entered(s.open[v], s.opened[v], t.open[v], t.opened[v])
  <1> DEFINE r == Evaluate(s, 1, c)
             t == Evaluate(r, 2, c)
  <1>1. 1 \in Number /\ 2 \in Number /\ \A v \in Number : v = 1 \/ v = 2
    BY DEF Number
  <1>2. /\ r \in Sight
        /\ r.open[2] = s.open[2] /\ r.opened[2] = s.opened[2] /\ r.view[2] = s.view[2]
        /\ r = s \/ (r.rotated /\ r.view[1] = r.rsi.previous)
        /\ Entered(s.open[1], s.opened[1], r.open[1], r.opened[1])
    BY <1>1, EvaluateGives DEF Entered
  <1> HIDE DEF r
  <1>3. /\ t \in Sight
        /\ t.open[1] = r.open[1] /\ t.opened[1] = r.opened[1] /\ t.view[1] = r.view[1]
        /\ t = r \/ (t.view[2] = Rotate(r.rsi, r.rotated, c).previous)
        /\ Entered(r.open[2], r.opened[2], t.open[2], t.opened[2])
    BY <1>1, <1>2, EvaluateGives DEF Entered
  <1> HIDE DEF t
  <1>4. "unseen" \in {t.view[1], t.view[2]} \/ t.view[1] = t.view[2]
    <2>1. CASE r = s
      BY <1>3, <2>1, UnseenIsFine
    <2>2. CASE t = r
      BY <1>2, <2>2, UnseenIsFine
    <2>3. CASE r.rotated /\ r.view[1] = r.rsi.previous /\ t.view[2] = Rotate(r.rsi, r.rotated, c).previous
      BY <1>3, <2>3 DEF Rotate
    <2> QED
      BY <1>2, <1>3, <2>1, <2>2, <2>3
  <1>5. \A v \in Number : Entered(s.open[v], s.opened[v], t.open[v], t.opened[v])
    BY <1>1, <1>2, <1>3
  <1>6. OnCandle(s, c) = t
    BY DEF OnCandle, t, r
  <1> QED
    BY <1>3, <1>4, <1>5, <1>6

(* What holds after a tick, before a candle that it completes is looked at.*)
LEMMA TickMeans ==
    ASSUME PaperParameters, PaperInv, up, NEW p \in Passes, HandleTick(p), Observe(p),
           UNCHANGED process, UNCHANGED market,
           building' \in {None} \cup 0..time, missing' \in 0..MinHistory,
           Evaluated', open' \in [Number -> SUBSET Trade], opened' \in [Number -> Nat],
           \A v \in Number : Entered(Remaining(p)[v], opened[v], open'[v], opened'[v])
    PROVE  PaperInv'
  <1> DEFINE rest == Remaining(p)
  <1>0. token' = token /\ time' = time /\ up' = up /\ starts' = starts /\ store' = store
    BY DEF market, process
  <1>1. /\ squaredOff' \in BOOLEAN /\ (squaredOff' => time >= AutoSquareOff)
        /\ Recorded'
        /\ \A v \in Number :
              /\ AtMostOne(rest[v])
              /\ looked' => \A pos \in rest[v] : pos.left > 0
              /\ squaredOff' => rest[v] = {}
              /\ Balanced(rest[v], opened[v], recounted'[v], books'[v], stored'[store][v], failed')
    BY TickBooks DEF Left
  <1> HIDE DEF rest
  <1>2. Process'
    BY <1>0, <1>1 DEF PaperInv, Process
  <1>3. ASSUME NEW v \in Number
        PROVE  /\ AtMostOne(open'[v]) /\ (looked' => \A pos \in open'[v] : pos.left > 0)
               /\ squaredOff' => open'[v] = {}
               /\ Balanced(open'[v], opened'[v], recounted'[v], books'[v], stored'[store][v], failed')
    <2>1. CASE open'[v] = rest[v] /\ opened'[v] = opened[v]
      BY <1>1, <2>1
    <2>2. CASE /\ rest[v] = {} /\ opened'[v] = opened[v] + 1 /\ Session # "CLOSING"
               /\ \E pos \in Trade : pos.left > 0 /\ open'[v] = {pos}
      <3>1. PICK pos \in Trade : pos.left > 0 /\ open'[v] = {pos}
        BY <2>2
      <3>2. Cardinality(open'[v]) = 1 /\ Cardinality(rest[v]) = 0
        BY <2>2, <3>1, FS_Singleton, FS_EmptySet
      <3>3. ~squaredOff'
        <4>1. time < MiddayEnd /\ MiddayEnd <= AutoSquareOff /\ time \in Nat /\ MiddayEnd \in Nat /\ AutoSquareOff \in Nat
          BY <2>2 DEF Session, PaperInv, Process, PaperParameters
        <4> QED
          BY <1>1, <4>1
      <3>4. opened[v] \in Nat /\ books'[v].closed \in Nat /\ recounted'[v] \in Nat
        BY <1>1 DEF PaperInv, Traded, Recorded, Results
      <3>5. Balanced(open'[v], opened'[v], recounted'[v], books'[v], stored'[store][v], failed')
        <4>1. opened'[v] = opened[v] + 1
          BY <2>2
        <4>2. Balanced(rest[v], opened[v], recounted'[v], books'[v], stored'[store][v], failed')
          BY <1>1
        <4> QED
          BY <3>2, <3>4, <4>1, <4>2 DEF Balanced
      <3>6. AtMostOne(open'[v]) /\ \A q \in open'[v] : q.left > 0
        BY <3>1 DEF AtMostOne
      <3> QED
        BY <3>3, <3>5, <3>6
    <2> QED
      BY <2>1, <2>2 DEF Entered, rest
  <1>4. Traded'
    BY <1>0, <1>3 DEF Traded
  <1>5. SquaredOff' /\ OverdueLeavesOnTick'
    BY <1>0, <1>1, <1>3 DEF SquaredOff, OverdueLeavesOnTick
  <1> QED
    BY <1>1, <1>2, <1>4, <1>5 DEF PaperInv

LEMMA VixTickKeeps == ASSUME PaperParameters, PaperInv, VixTick PROVE PaperInv'
  <1>1. /\ UNCHANGED <<token, time, up, starts, store, stored, squaredOff, building, missing, rsi, regime>>
        /\ UNCHANGED <<open, books, opened, recounted, failed, looked>> /\ view' = Unseen
    BY DEF VixTick, market, process
  <1>2. Evaluated'
    BY <1>1, UnseenIsFine DEF PaperInv, Evaluated, SameCandleSameView
  <1> QED
    BY <1>1, <1>2 DEF PaperInv, Process, Recorded, Traded, SquaredOff, OverdueLeavesOnTick

LEMMA TickKeeps ==
    ASSUME PaperParameters, PaperInv, up, NEW p \in Passes, OtherTick(p) \/ OwnTick(p)
    PROVE  PaperInv'
  <1>1. /\ HandleTick(p) /\ Observe(p) /\ open' = Remaining(p)
        /\ UNCHANGED <<market, process, missing, rsi, regime, opened>> /\ view' = Unseen
        /\ building' = building \/ building' = time
    BY DEF OtherTick, OwnTick
  <1>2. time \in 0..DayEnd /\ building \in {None} \cup 0..time /\ missing \in 0..MinHistory
    BY DEF PaperInv, Process
  <1>3. building' \in {None} \cup 0..time
    BY <1>1, <1>2
  <1>4. Evaluated'
    BY <1>1, UnseenIsFine DEF PaperInv, Evaluated, SameCandleSameView
  <1>5. open' \in [Number -> SUBSET Trade]
    BY <1>1, TickBooks DEF Left
  <1>6. opened' \in [Number -> Nat] /\ \A v \in Number : Entered(Remaining(p)[v], opened[v], open'[v], opened'[v])
    BY <1>1 DEF PaperInv, Traded, Entered
  <1>7. UNCHANGED process /\ UNCHANGED market /\ missing' \in 0..MinHistory
    BY <1>1, <1>2
  <1> QED
    BY <1>1, <1>3, <1>4, <1>5, <1>6, <1>7, TickMeans

LEMMA CandleTickKeeps ==
    ASSUME PaperParameters, PaperInv, up, NEW p \in Passes, NEW c \in Candles, CandleTick(p, c)
    PROVE  PaperInv'
  <1> DEFINE s == [rsi |-> rsi, regime |-> regime, open |-> Remaining(p),
                   opened |-> opened, view |-> Unseen, rotated |-> FALSE]
             t == OnCandle(s, c)
  <1>1. /\ HandleTick(p) /\ Observe(p) /\ building' = time /\ missing' = Max({missing - 1, 0})
        /\ rsi' = t.rsi /\ regime' = t.regime /\ open' = t.open /\ opened' = t.opened /\ view' = t.view
        /\ UNCHANGED <<market, process>>
    BY DEF CandleTick
  <1>2. Remaining(p) \in [Number -> SUBSET Trade]
    BY <1>1, TickBooks DEF Left
  <1>3. s \in Sight /\ ~s.rotated /\ s.view = Unseen /\ s.open = Remaining(p) /\ s.opened = opened
    BY <1>2, UnseenIsFine DEF Sight, PaperInv, Evaluated, Traded
  <1> HIDE DEF s
  <1>4. /\ t \in Sight
        /\ "unseen" \in {t.view[1], t.view[2]} \/ t.view[1] = t.view[2]
        /\ \A v \in Number : Entered(s.open[v], s.opened[v], t.open[v], t.opened[v])
    BY <1>3, OnCandleGives
  <1> HIDE DEF t
  <1>5. Evaluated' /\ open' \in [Number -> SUBSET Trade] /\ opened' \in [Number -> Nat]
    BY <1>1, <1>4 DEF Evaluated, SameCandleSameView, Sight
  <1>6. \A v \in Number : Entered(Remaining(p)[v], opened[v], open'[v], opened'[v])
    BY <1>1, <1>3, <1>4
  <1>7. time \in 0..DayEnd /\ missing \in 0..MinHistory /\ MinHistory \in Nat
    BY DEF PaperInv, Process, PaperParameters
  <1>8. missing' \in 0..MinHistory
    <2>1. Max({missing - 1, 0}) = IF missing - 1 >= 0 THEN missing - 1 ELSE 0
      BY <1>7, MaxOfTwo
    <2> QED
      BY <1>1, <1>7, <2>1
  <1>9. building' \in {None} \cup 0..time
    BY <1>1, <1>7
  <1>10. UNCHANGED process /\ UNCHANGED market
    BY <1>1
  <1> QED
    BY <1>1, <1>5, <1>6, <1>8, <1>9, <1>10, TickMeans

LEMMA AnyTickKeeps == ASSUME PaperParameters, PaperInv, AnyTick PROVE PaperInv'
  BY VixTickKeeps, TickKeeps, CandleTickKeeps DEF AnyTick

LEMMA PaperStep == ASSUME PaperParameters, PaperInv, [PaperNext]_paperVars PROVE PaperInv'
  <1>1. CASE UNCHANGED paperVars
    <2>1. /\ UNCHANGED <<token, time, up, starts, store, stored, squaredOff, building, missing, rsi, regime>>
          /\ UNCHANGED <<open, books, opened, recounted, failed, looked, view>>
      BY <1>1 DEF paperVars, market, process, observed
    <2> QED
      BY <2>1 DEF PaperInv, Process, Evaluated, Recorded, Traded, SquaredOff, OverdueLeavesOnTick,
                  SameCandleSameView
  <1> QED
    BY <1>1, StartKeeps, ExitKeeps, AdvanceKeeps, AnyTickKeeps DEF PaperNext

LEMMA PaperMeans ==
    ASSUME PaperParameters, PaperInv
    PROVE  SameCandleSameView /\ TradesAccounted /\ OverdueLeavesOnTick
  <1>1. \A v \in Number : Cardinality(open[v]) <= 1
    <2> SUFFICES ASSUME NEW v \in Number PROVE Cardinality(open[v]) <= 1
      OBVIOUS
    <2>1. AtMostOne(open[v])
      BY DEF PaperInv, Traded
    <2> QED
      BY <2>1, FS_EmptySet, FS_Singleton DEF AtMostOne
  <1>2. \A v \in Number : \A pos \in open[v] : pos.left \in 0..(4 * Hour)
    BY DEF PaperInv, Traded, Trade
  <1>3. PaperTypes
    BY <1>1, <1>2 DEF PaperTypes, PaperInv, Process, Evaluated, Regime
  <1>4. ResultsCounted
    BY DEF PaperInv, Traded, Balanced, ResultsCounted
  <1> QED
    BY <1>3, <1>4 DEF FlatOnceSquaredOff, TradesAccounted, PaperInv, Evaluated, SquaredOff

(* "This ensures all variants evaluating the same candle see the same      *)
(* prev_rsi" (main_paper.py), whatever candles, ticks and restarts came    *)
(* before, also when only one variant evaluated the candle before.         *)
THEOREM VariantsAgree ==
    ASSUME PaperParameters
    PROVE  PaperSpec => []SameCandleSameView
  <1>1. PaperInit => PaperInv
    BY PaperBegins
  <1>2. PaperInv /\ [PaperNext]_paperVars => PaperInv'
    BY PaperStep
  <1>3. PaperInv => SameCandleSameView
    BY PaperMeans
  <1> QED
    BY <1>1, <1>2, <1>3, PTL DEF PaperSpec

(* Every trade is open or was counted once, by its exit or by the          *)
(* square-off (close_trade), and once more for every time its store raised;*)
(* what the process makes of earlier results and of its own is what the    *)
(* store holds if nothing failed, no less if the load did not fail, and its*)
(* own results if it did; after the square-off nothing is open             *)
(* (_square_off_all).                                                      *)
THEOREM TradesAddUp ==
    ASSUME PaperParameters
    PROVE  PaperSpec => []TradesAccounted
  <1>1. PaperInit => PaperInv
    BY PaperBegins
  <1>2. PaperInv /\ [PaperNext]_paperVars => PaperInv'
    BY PaperStep
  <1>3. PaperInv => TradesAccounted
    BY PaperMeans
  <1> QED
    BY <1>1, <1>2, <1>3, PTL DEF PaperSpec

(* No tick of a traded instrument, of whichever, leaves a position whose   *)
(* time is up (_check_exits) unless the store raised on it, nor does a     *)
(* candle open one.  A tick of the volatility index looks at nothing.      *)
THEOREM OverdueLeaves ==
    ASSUME PaperParameters
    PROVE  PaperSpec => []OverdueLeavesOnTick
  <1>1. PaperInit => PaperInv
    BY PaperBegins
  <1>2. PaperInv /\ [PaperNext]_paperVars => PaperInv'
    BY PaperStep
  <1>3. PaperInv => OverdueLeavesOnTick
    BY PaperMeans
  <1> QED
    BY <1>1, <1>2, <1>3, PTL DEF PaperSpec
=============================================================================
