------------------------------ MODULE FoldLemmas ------------------------------
(***************************************************************************)
(* What the proofs about folds and sums need: induction over naturals and  *)
(* over the subsets of a finite set, stated with sets so that they can be  *)
(* cited, the existence of functions defined by recursion over subsets,    *)
(* which every fold of the community modules is, and sums.                 *)
(***************************************************************************)
EXTENDS Integers, Sequences, FiniteSets, SequencesExt, Lists, FiniteSetTheorems,
        WellFoundedInduction, TLAPS

(* A set that has a subset of a finite set whenever it has all the smaller *)
(* ones has them all.                                                      *)
LEMMA SubsetsByInduction ==
    ASSUME NEW D, IsFiniteSet(D), NEW P,
           \A s \in SUBSET D : (\A t \in SUBSET s : t # s => t \in P) => s \in P
    PROVE  SUBSET D \subseteq P
  <1> DEFINE T == (SUBSET D) \ P
  <1> SUFFICES ASSUME T # {} PROVE FALSE
    OBVIOUS
  <1>1. T \subseteq FiniteSubsetsOf(D)
    BY FS_Subset DEF FiniteSubsetsOf
  <1>2. PICK s \in T : \A t \in T : <<t, s>> \notin StrictSubsetOrdering(D)
    <2> HIDE DEF T
    <2> QED
      BY <1>1, FS_StrictSubsetOrderingWellFounded, WFMin
  <1>3. ASSUME NEW t \in SUBSET s, t # s, t \notin P PROVE FALSE
    <2>1. t \in T /\ <<t, s>> \in StrictSubsetOrdering(D)
      BY <1>3 DEF StrictSubsetOrdering
    <2> QED
      BY <1>2, <2>1
  <1> QED
    BY <1>2, <1>3

(* A set with 0, and with each natural the next, has all of them.          *)
LEMMA NaturalInduction ==
    ASSUME NEW S, 0 \in S, \A n \in Nat : n \in S => n + 1 \in S
    PROVE  Nat \subseteq S
  <1> SUFFICES ASSUME NEW k \in Nat, k \notin S PROVE FALSE
    OBVIOUS
  <1> DEFINE below(n) == 0..(n - 1)
             T == {below(n) : n \in Nat \ S}
  <1>1. T \subseteq FiniteSubsetsOf(Nat)
    <2>1. ASSUME NEW n \in Nat PROVE IsFiniteSet(below(n)) /\ below(n) \subseteq Nat
      BY FS_Interval
    <2> QED
      BY <2>1 DEF FiniteSubsetsOf
  <1>2. T # {}
    OBVIOUS
  <1>3. PICK x \in T : \A y \in T : <<y, x>> \notin StrictSubsetOrdering(Nat)
    <2> HIDE DEF T
    <2> QED
      BY <1>1, <1>2, FS_StrictSubsetOrderingWellFounded, WFMin
  <1>4. PICK n \in Nat \ S : x = below(n)
    OBVIOUS
  <1>5. n - 1 \in Nat /\ below(n - 1) \subseteq below(n) /\ below(n - 1) # below(n)
    <2>1. n # 0
      OBVIOUS
    <2>2. n - 1 \in below(n) /\ n - 1 \notin below(n - 1)
      BY <2>1
    <2> QED
      BY <2>1, <2>2
  <1>6. n - 1 \in S
    <2> SUFFICES ASSUME n - 1 \notin S PROVE FALSE
      OBVIOUS
    <2>1. below(n - 1) \in T
      BY <1>5
    <2>2. <<below(n - 1), x>> \in StrictSubsetOrdering(Nat)
      <3>1. below(n - 1) \in SUBSET Nat /\ x \in SUBSET Nat
        BY <1>4, <1>5
      <3> HIDE DEF below, T
      <3> QED
        BY <3>1, <1>4, <1>5 DEF StrictSubsetOrdering
    <2> QED
      BY <2>1, <2>2, <1>3
  <1> QED
    BY <1>5, <1>6

(* Of some elements one is the greatest, by whatever measure.              *)
LEMMA HasGreatest ==
    ASSUME NEW D, IsFiniteSet(D), D # {}, NEW f \in [D -> Int]
    PROVE  \E x \in D : \A y \in D : f[x] >= f[y]
  <1> DEFINE P == {t \in SUBSET D : t # {} => \E x \in t : \A y \in t : f[x] >= f[y]}
  <1>1. ASSUME NEW t \in SUBSET D, \A u \in SUBSET t : u # t => u \in P
        PROVE  t \in P
    <2> SUFFICES ASSUME t # {} PROVE \E x \in t : \A y \in t : f[x] >= f[y]
      OBVIOUS
    <2>1. PICK z \in t : TRUE
      OBVIOUS
    <2> DEFINE u == t \ {z}
    <2>2. CASE u = {}
      BY <2>2
    <2>3. CASE u # {}
      <3>1. u \in P
        BY <1>1
      <3>2. PICK x \in u : \A y \in u : f[x] >= f[y]
        BY <2>3, <3>1
      <3>3. f[x] \in Int /\ f[z] \in Int
        OBVIOUS
      <3>4. CASE f[x] >= f[z]
        BY <3>2, <3>4
      <3>5. CASE f[z] >= f[x]
        <4>1. \A y \in u : f[y] \in Int /\ f[z] >= f[y]
          BY <3>2, <3>3, <3>5
        <4> QED
          BY <3>3, <4>1
      <3> QED
        BY <3>3, <3>4, <3>5
    <2> QED
      BY <2>2, <2>3
  <1>2. SUBSET D \subseteq P
    <2> HIDE DEF P
    <2> QED
      BY <1>1, SubsetsByInduction
  <1>3. D \in P
    BY <1>2
  <1> QED
    BY <1>3

(* The recursion of MapThenFoldSet: there is a function that gives each    *)
(* subset what the step makes of one element and of the rest.              *)
Picks(pick, D) == \A s \in SUBSET D : s # {} => pick[s] \in s

Recursive(h, D, Y, base, pick, step) ==
    /\ h \in [SUBSET D -> Y]
    /\ h[{}] = base
    /\ \A s \in SUBSET D : s # {} => h[s] = step[pick[s]][h[s \ {pick[s]}]]

LEMMA SubsetRecursion ==
    ASSUME NEW D, IsFiniteSet(D), NEW Y, NEW base, base \in Y,
           NEW pick, Picks(pick, D), NEW step, step \in [D -> [Y -> Y]]
    PROVE  \E h : Recursive(h, D, Y, base, pick, step)
  <1> USE DEF Picks
  <1> DEFINE Level(n) == {s \in SUBSET D : Cardinality(s) <= n}
             Solves(h, n) ==
                 \A s \in Level(n) :
                     h[s] = IF s = {} THEN base ELSE step[pick[s]][h[s \ {pick[s]}]]
             S == {n \in Nat : \E h \in [Level(n) -> Y] : Solves(h, n)}
  <1>1. ASSUME NEW s \in SUBSET D
        PROVE  /\ IsFiniteSet(s) /\ Cardinality(s) \in Nat
               /\ Cardinality(s) <= Cardinality(D) /\ (Cardinality(s) = 0 <=> s = {})
    BY FS_Subset, FS_CardinalityType, FS_EmptySet
  <1>2. ASSUME NEW n \in Nat, NEW s \in Level(n + 1), s # {}
        PROVE  s \ {pick[s]} \in Level(n) /\ pick[s] \in D
    <2>1. pick[s] \in s
      BY <1>2
    <2>2. Cardinality(s \ {pick[s]}) = Cardinality(s) - 1
      BY <1>1, <2>1, FS_RemoveElement
    <2> QED
      BY <1>1, <2>1, <2>2
  <1>3. 0 \in S
    <2> DEFINE h == [s \in Level(0) |-> base]
    <2>1. Level(0) = {{}}
      BY <1>1
    <2>2. Solves(h, 0)
      BY <2>1
    <2>3. h \in [Level(0) -> Y]
      OBVIOUS
    <2> HIDE DEF h, Solves
    <2> QED
      BY <2>2, <2>3
  <1>4. ASSUME NEW n \in Nat, n \in S PROVE n + 1 \in S
    <2>1. PICK g \in [Level(n) -> Y] : Solves(g, n)
      BY <1>4
    <2> DEFINE h == [s \in Level(n + 1) |->
                        IF s = {} THEN base ELSE step[pick[s]][g[s \ {pick[s]}]]]
    <2>2. h \in [Level(n + 1) -> Y]
      BY <1>2
    <2>3. Level(n) \subseteq Level(n + 1)
      BY <1>1
    <2>4. ASSUME NEW s \in Level(n) PROVE h[s] = g[s]
      BY <2>1, <2>3
    <2>5. Solves(h, n + 1)
      <3> SUFFICES ASSUME NEW s \in Level(n + 1)
                   PROVE  h[s] = IF s = {} THEN base ELSE step[pick[s]][h[s \ {pick[s]}]]
        OBVIOUS
      <3>1. s # {} => h[s \ {pick[s]}] = g[s \ {pick[s]}]
        BY <1>2, <2>4
      <3> QED
        BY <3>1
    <2>6. \E f \in [Level(n + 1) -> Y] : Solves(f, n + 1)
      <3> HIDE DEF h, Solves, Level
      <3> QED
        BY <2>2, <2>5
    <2>7. n + 1 \in Nat
      OBVIOUS
    <2> HIDE DEF Solves, Level
    <2> QED
      BY <2>6, <2>7
  <1>5. PICK h \in [Level(Cardinality(D)) -> Y] : Solves(h, Cardinality(D))
    <2> HIDE DEF Solves, Level
    <2>1. Nat \subseteq S
      <3> HIDE DEF S
      <3> QED
        BY <1>3, <1>4, NaturalInduction
    <2> QED
      BY <2>1, FS_CardinalityType
  <1>6. Level(Cardinality(D)) = SUBSET D
    BY <1>1
  <1>7. Recursive(h, D, Y, base, pick, step)
    BY <1>5, <1>6 DEF Recursive
  <1> QED
    BY <1>7

(* What a function makes of a finite set is finite, and as large when no   *)
(* two elements are given the same name.                                   *)
LEMMA NamesFinite ==
    ASSUME NEW D, IsFiniteSet(D), NEW name
    PROVE  /\ IsFiniteSet({name[x] : x \in D})
           /\ (\A x, y \in D : name[x] = name[y] => x = y)
              => Cardinality({name[x] : x \in D}) = Cardinality(D)
  <1> DEFINE Named(s) == {name[x] : x \in s}
             Apart(s) == \A x, y \in s : name[x] = name[y] => x = y
             P == {s \in SUBSET D : /\ IsFiniteSet(Named(s))
                                    /\ Apart(s) => Cardinality(Named(s)) = Cardinality(s)}
  <1>1. ASSUME NEW s \in SUBSET D, \A t \in SUBSET s : t # s => t \in P
        PROVE  s \in P
    <2>1. CASE s = {}
      <3>1. Named(s) = s
        BY <2>1
      <3>2. IsFiniteSet(s)
        BY <2>1, FS_EmptySet
      <3>3. IsFiniteSet(Named(s)) /\ Cardinality(Named(s)) = Cardinality(s)
        BY <3>1, <3>2, Zenon
      <3> QED
        BY <3>3
    <2>2. CASE s # {}
      <3>1. PICK y \in s : TRUE
        BY <2>2
      <3> DEFINE t == s \ {y}
      <3>2. IsFiniteSet(Named(t)) /\ (Apart(t) => Cardinality(Named(t)) = Cardinality(t))
        BY <1>1
      <3>3. Named(s) = Named(t) \cup {name[y]} /\ s = t \cup {y} /\ y \notin t
        OBVIOUS
      <3>4. Apart(s) => name[y] \notin Named(t) /\ Apart(t)
        OBVIOUS
      <3>5. IsFiniteSet(t)
        BY FS_Subset
      <3> HIDE DEF Named, Apart, t
      <3>6. IsFiniteSet(Named(s))
        BY <3>2, <3>3, FS_AddElement
      <3>7. ASSUME Apart(s) PROVE Cardinality(Named(s)) = Cardinality(s)
        <4>1. Cardinality(Named(t) \cup {name[y]}) = Cardinality(Named(t)) + 1
          BY <3>2, <3>4, <3>7, FS_AddElement
        <4>2. Cardinality(t \cup {y}) = Cardinality(t) + 1
          BY <3>3, <3>5, FS_AddElement
        <4> QED
          BY <3>2, <3>3, <3>4, <3>7, <4>1, <4>2
      <3> QED
        BY <3>6, <3>7
    <2> QED
      BY <2>1, <2>2
  <1>2. SUBSET D \subseteq P
    <2> HIDE DEF P
    <2> QED
      BY <1>1, SubsetsByInduction
  <1> QED
    BY <1>2

-----------------------------------------------------------------------------
(* Sums of a function over a finite set.                                   *)
AnyOf(s) == CHOOSE x \in s : TRUE

SumsOver(h, f, D) == h = [s \in SUBSET D |-> IF s = {} THEN 0
                                            ELSE f[AnyOf(s)] + h[s \ {AnyOf(s)}]]

LEMMA SumIsFold ==
    ASSUME NEW f, NEW D
    PROVE  SumFunctionOnSet(f, D) = (CHOOSE h : SumsOver(h, f, D))[D]
  BY DEF SumFunctionOnSet, FoldFunctionOnSet, MapThenFoldSet, SumsOver, AnyOf

LEMMA SumsExist ==
    ASSUME NEW E, NEW f \in [E -> Int], NEW D \in SUBSET E, IsFiniteSet(D)
    PROVE  \E h : SumsOver(h, f, D)
  <1> DEFINE pick == [s \in SUBSET D |-> AnyOf(s)]
             step == [x \in D |-> [y \in Int |-> f[x] + y]]
  <1>1. Picks(pick, D) /\ 0 \in Int
    BY DEF AnyOf, Picks
  <1>2. step \in [D -> [Int -> Int]]
    OBVIOUS
  <1>3. PICK h : Recursive(h, D, Int, 0, pick, step)
    <2> HIDE DEF step, pick
    <2> QED
      BY <1>1, <1>2, SubsetRecursion
  <1>4. /\ h \in [SUBSET D -> Int] /\ h[{}] = 0
        /\ \A s \in SUBSET D : s # {} => h[s] = step[pick[s]][h[s \ {pick[s]}]]
    BY <1>3 DEF Recursive
  <1>5. ASSUME NEW s \in SUBSET D, s # {}
        PROVE  h[s] = f[AnyOf(s)] + h[s \ {AnyOf(s)}]
    <2>1. AnyOf(s) \in D /\ pick[s] = AnyOf(s) /\ h[s \ {AnyOf(s)}] \in Int
      BY <1>1, <1>4, <1>5 DEF Picks
    <2> QED
      BY <1>4, <1>5, <2>1
  <1>6. SumsOver(h, f, D)
    <2>1. \A s \in SUBSET D : h[s] = IF s = {} THEN 0 ELSE f[AnyOf(s)] + h[s \ {AnyOf(s)}]
      BY <1>4, <1>5
    <2> QED
      BY <1>4, <2>1 DEF SumsOver
  <1> QED
    BY <1>6

(* Two such functions agree wherever both are defined.                     *)
LEMMA SumsAgree ==
    ASSUME NEW f, NEW D, IsFiniteSet(D), NEW C \in SUBSET D,
           NEW g, SumsOver(g, f, C), NEW h, SumsOver(h, f, D)
    PROVE  \A s \in SUBSET C : g[s] = h[s]
  <1> DEFINE P == {s \in SUBSET C : g[s] = h[s]}
  <1>1. IsFiniteSet(C)
    BY FS_Subset
  <1>2. ASSUME NEW s \in SUBSET C, \A t \in SUBSET s : t # s => t \in P
        PROVE  s \in P
    <2>1. CASE s = {}
      BY <2>1 DEF SumsOver
    <2>2. CASE s # {}
      <3>1. AnyOf(s) \in s
        BY <2>2 DEF AnyOf
      <3>2. s \ {AnyOf(s)} \in P
        BY <1>2, <3>1
      <3>3. g[s] = f[AnyOf(s)] + g[s \ {AnyOf(s)}]
        BY <2>2 DEF SumsOver
      <3>4. h[s] = f[AnyOf(s)] + h[s \ {AnyOf(s)}]
        BY <2>2 DEF SumsOver
      <3> QED
        BY <3>2, <3>3, <3>4
    <2> QED
      BY <2>1, <2>2
  <1>3. SUBSET C \subseteq P
    <2> HIDE DEF P
    <2> QED
      BY <1>1, <1>2, SubsetsByInduction
  <1> QED
    BY <1>3

LEMMA SumSteps ==
    ASSUME NEW E, NEW f \in [E -> Int], NEW D \in SUBSET E, IsFiniteSet(D)
    PROVE  SumFunctionOnSet(f, D) = IF D = {} THEN 0
               ELSE f[AnyOf(D)] + SumFunctionOnSet(f, D \ {AnyOf(D)})
  <1> DEFINE C == D \ {AnyOf(D)}
             h == CHOOSE x : SumsOver(x, f, D)
             g == CHOOSE x : SumsOver(x, f, C)
  <1>1. IsFiniteSet(C) /\ C \in SUBSET E /\ C \in SUBSET D
    BY FS_Subset
  <1>2. SumsOver(h, f, D) /\ SumsOver(g, f, C)
    <2>1. (\E x : SumsOver(x, f, D)) /\ (\E x : SumsOver(x, f, C))
      BY <1>1, SumsExist
    <2> QED
      BY <2>1
  <1>3. g[C] = h[C]
    <2> HIDE DEF g, h, C
    <2> QED
      BY <1>1, <1>2, SumsAgree
  <1>4. SumFunctionOnSet(f, D) = h[D] /\ SumFunctionOnSet(f, C) = g[C]
    BY SumIsFold
  <1>5. h[D] = IF D = {} THEN 0 ELSE f[AnyOf(D)] + h[C]
    <2> HIDE DEF h
    <2> QED
      BY <1>2 DEF SumsOver
  <1> QED
    BY <1>3, <1>4, <1>5

LEMMA SumEmpty ==
    ASSUME NEW E, NEW f \in [E -> Int]
    PROVE  SumFunctionOnSet(f, {}) = 0
  BY SumSteps, FS_EmptySet

LEMMA SumType ==
    ASSUME NEW E, NEW f \in [E -> Int], NEW D \in SUBSET E, IsFiniteSet(D)
    PROVE  SumFunctionOnSet(f, D) \in Int
  <1> DEFINE P == {s \in SUBSET D : SumFunctionOnSet(f, s) \in Int}
  <1>1. ASSUME NEW s \in SUBSET D, \A t \in SUBSET s : t # s => t \in P
        PROVE  s \in P
    <2>1. IsFiniteSet(s)
      BY FS_Subset
    <2>2. CASE s = {}
      BY <2>2, SumEmpty
    <2>3. CASE s # {}
      <3>1. AnyOf(s) \in s
        BY <2>3 DEF AnyOf
      <3>2. SumFunctionOnSet(f, s \ {AnyOf(s)}) \in Int
        BY <1>1, <3>1
      <3> QED
        BY <2>1, <2>3, <3>1, <3>2, SumSteps
    <2> QED
      BY <2>2, <2>3
  <1>2. SUBSET D \subseteq P
    <2> HIDE DEF P
    <2> QED
      BY <1>1, SubsetsByInduction
  <1> QED
    BY <1>2

(* Whichever element is taken out, the rest and it make the sum.           *)
LEMMA SumTakes ==
    ASSUME NEW E, NEW f \in [E -> Int], NEW D \in SUBSET E, IsFiniteSet(D), NEW x \in D
    PROVE  SumFunctionOnSet(f, D) = f[x] + SumFunctionOnSet(f, D \ {x})
  <1> DEFINE Total(s) == SumFunctionOnSet(f, s)
             P == {s \in SUBSET D : \A y \in s : Total(s) = f[y] + Total(s \ {y})}
  <1>0. ASSUME NEW s \in SUBSET D PROVE IsFiniteSet(s) /\ Total(s) \in Int
    <2>1. IsFiniteSet(s)
      BY FS_Subset
    <2> QED
      BY <2>1, SumType
  <1>1. ASSUME NEW s \in SUBSET D, \A t \in SUBSET s : t # s => t \in P
        PROVE  s \in P
    <2> SUFFICES ASSUME NEW y \in s PROVE Total(s) = f[y] + Total(s \ {y})
      OBVIOUS
    <2> DEFINE a == AnyOf(s)
    <2>1. a \in s
      BY DEF AnyOf
    <2>2. Total(s) = f[a] + Total(s \ {a})
      BY <1>0, <2>1, SumSteps
    <2> HIDE DEF a
    <2>3. CASE y = a
      BY <2>2, <2>3
    <2>4. CASE y # a
      <3>1. s \ {a} \in P /\ s \ {y} \in P
        BY <1>1, <2>1
      <3>2. Total(s \ {a}) = f[y] + Total((s \ {a}) \ {y})
        BY <2>4, <3>1
      <3>3. Total(s \ {y}) = f[a] + Total((s \ {y}) \ {a})
        BY <2>1, <2>4, <3>1
      <3>4. Total((s \ {a}) \ {y}) = Total((s \ {y}) \ {a})
        <4>1. (s \ {a}) \ {y} = (s \ {y}) \ {a}
          OBVIOUS
        <4> QED
          BY <4>1, Zenon
      <3>5. f[a] \in Int /\ f[y] \in Int /\ Total((s \ {a}) \ {y}) \in Int
        BY <1>0, <2>1
      <3> HIDE DEF Total
      <3> QED
        BY <2>2, <3>2, <3>3, <3>4, <3>5
    <2> QED
      BY <2>3, <2>4
  <1>2. SUBSET D \subseteq P
    <2> HIDE DEF P
    <2> QED
      BY <1>1, SubsetsByInduction
  <1> QED
    BY <1>2

LEMMA SumAdds ==
    ASSUME NEW E, NEW f \in [E -> Int], NEW D \in SUBSET E, IsFiniteSet(D),
           NEW x \in E, x \notin D
    PROVE  SumFunctionOnSet(f, D \cup {x}) = f[x] + SumFunctionOnSet(f, D)
  <1>1. IsFiniteSet(D \cup {x}) /\ (D \cup {x}) \ {x} = D
    BY FS_AddElement
  <1> QED
    BY <1>1, SumTakes

LEMMA SumOfOne ==
    ASSUME NEW E, NEW f \in [E -> Int], NEW x \in E
    PROVE  SumFunctionOnSet(f, {x}) = f[x]
  <1>1. IsFiniteSet({}) /\ {} \in SUBSET E /\ x \notin {} /\ {} \cup {x} = {x}
    BY FS_EmptySet
  <1>2. SumFunctionOnSet(f, {} \cup {x}) = f[x] + SumFunctionOnSet(f, {})
    BY <1>1, SumAdds
  <1>3. SumFunctionOnSet(f, {} \cup {x}) = SumFunctionOnSet(f, {x})
    BY <1>1, Zenon
  <1>4. SumFunctionOnSet(f, {}) = 0 /\ f[x] \in Int
    BY SumEmpty
  <1> QED
    BY <1>2, <1>3, <1>4

LEMMA SumUnion ==
    ASSUME NEW E, NEW f \in [E -> Int], NEW C \in SUBSET E, IsFiniteSet(C),
           NEW D \in SUBSET E, IsFiniteSet(D), C \cap D = {}
    PROVE  SumFunctionOnSet(f, C \cup D) = SumFunctionOnSet(f, C) + SumFunctionOnSet(f, D)
  <1> DEFINE Total(s) == SumFunctionOnSet(f, s)
             P == {s \in SUBSET D : Total(C \cup s) = Total(C) + Total(s)}
  <1>0. ASSUME NEW s \in SUBSET D
        PROVE  /\ IsFiniteSet(s) /\ Total(s) \in Int
               /\ IsFiniteSet(C \cup s) /\ Total(C \cup s) \in Int
    <2>1. IsFiniteSet(s) /\ IsFiniteSet(C \cup s)
      BY FS_Subset, FS_Union
    <2> QED
      BY <2>1, SumType
  <1>1. Total(C) \in Int
    BY SumType
  <1>2. ASSUME NEW s \in SUBSET D, \A t \in SUBSET s : t # s => t \in P
        PROVE  s \in P
    <2>1. CASE s = {}
      <3>1. C \cup s = C
        BY <2>1
      <3>2. Total(C \cup s) = Total(C)
        BY <3>1, Zenon
      <3>3. Total(s) = 0
        BY <2>1, SumEmpty
      <3> HIDE DEF Total
      <3> QED
        BY <1>1, <3>2, <3>3
    <2>2. CASE s # {}
      <3>1. PICK y \in s : TRUE
        BY <2>2
      <3> DEFINE t == s \ {y}
      <3>2. t \in P
        BY <1>2
      <3>3. Total(s) = f[y] + Total(t)
        <4>1. s \in SUBSET E /\ IsFiniteSet(s)
          BY <1>0
        <4> QED
          BY <4>1, SumTakes
      <3>4. Total(C \cup s) = f[y] + Total(C \cup t)
        <4>1. (C \cup s) \ {y} = C \cup t
          OBVIOUS
        <4>2. C \cup s \in SUBSET E /\ IsFiniteSet(C \cup s) /\ y \in C \cup s
          BY <1>0
        <4>3. Total(C \cup s) = f[y] + Total((C \cup s) \ {y})
          <5> HIDE DEF t
          <5> QED
            BY <4>2, SumTakes
        <4> QED
          BY <4>1, <4>3, Zenon
      <3>5. f[y] \in Int /\ Total(t) \in Int
        BY <1>0
      <3> HIDE DEF Total, t
      <3> QED
        BY <1>1, <3>2, <3>3, <3>4, <3>5
    <2> QED
      BY <2>1, <2>2
  <1>3. SUBSET D \subseteq P
    <2> HIDE DEF P
    <2> QED
      BY <1>2, SubsetsByInduction
  <1> QED
    BY <1>3

LEMMA SumNonnegative ==
    ASSUME NEW E, NEW f \in [E -> Int], NEW D \in SUBSET E, IsFiniteSet(D),
           \A x \in D : f[x] >= 0
    PROVE  SumFunctionOnSet(f, D) >= 0
  <1> DEFINE Total(s) == SumFunctionOnSet(f, s)
             P == {s \in SUBSET D : Total(s) >= 0}
  <1>1. ASSUME NEW s \in SUBSET D, \A t \in SUBSET s : t # s => t \in P
        PROVE  s \in P
    <2>1. IsFiniteSet(s)
      BY FS_Subset
    <2>2. CASE s = {}
      BY <2>2, SumEmpty
    <2>3. CASE s # {}
      <3>1. PICK y \in s : TRUE
        BY <2>3
      <3> DEFINE t == s \ {y}
      <3>2. t \in P /\ IsFiniteSet(t)
        BY <1>1, <2>1, FS_Subset
      <3>3. Total(s) = f[y] + Total(t)
        BY <2>1, SumTakes
      <3>4. f[y] \in Int /\ f[y] >= 0 /\ Total(t) \in Int
        BY <3>2, SumType
      <3> HIDE DEF Total, t
      <3> QED
        BY <3>2, <3>3, <3>4
    <2> QED
      BY <2>2, <2>3
  <1>2. SUBSET D \subseteq P
    <2> HIDE DEF P
    <2> QED
      BY <1>1, SubsetsByInduction
  <1> QED
    BY <1>2

(* A part of what is not negative is no more than all of it.               *)
LEMMA SumOfPart ==
    ASSUME NEW E, NEW f \in [E -> Int], NEW D \in SUBSET E, IsFiniteSet(D),
           \A x \in D : f[x] >= 0, NEW C \in SUBSET D
    PROVE  SumFunctionOnSet(f, C) <= SumFunctionOnSet(f, D)
  <1> DEFINE Total(s) == SumFunctionOnSet(f, s)
             R == D \ C
  <1>1. IsFiniteSet(C) /\ IsFiniteSet(R) /\ R \in SUBSET E /\ C \in SUBSET E
    BY FS_Subset
  <1>2. Total(C \cup R) = Total(C) + Total(R)
    BY <1>1, SumUnion
  <1>3. Total(C \cup R) = Total(D)
    <2>1. C \cup R = D
      OBVIOUS
    <2> QED
      BY <2>1, Zenon
  <1>r. Total(C) \in Int /\ Total(R) \in Int
    BY <1>1, SumType
  <1>4. Total(R) >= 0
    BY <1>1, SumNonnegative
  <1> HIDE DEF Total, R
  <1>5. Total(C) <= Total(D)
    BY <1>2, <1>3, <1>4, <1>r
  <1> QED
    BY <1>5 DEF Total

(* The sum over other names of the same elements.                          *)
LEMMA SumRenamed ==
    ASSUME NEW E, NEW f \in [E -> Int], NEW D \in SUBSET E, IsFiniteSet(D),
           NEW F, NEW g \in [F -> Int], NEW name,
           \A x \in D : name[x] \in F /\ g[name[x]] = f[x],
           \A x, y \in D : name[x] = name[y] => x = y
    PROVE  SumFunctionOnSet(g, {name[x] : x \in D}) = SumFunctionOnSet(f, D)
  <1> DEFINE Named(s) == {name[x] : x \in s}
             Total(s) == SumFunctionOnSet(f, s)
             Renamed(s) == SumFunctionOnSet(g, Named(s))
             P == {s \in SUBSET D : Renamed(s) = Total(s)}
  <1>1. ASSUME NEW s \in SUBSET D
        PROVE  IsFiniteSet(s) /\ IsFiniteSet(Named(s)) /\ Named(s) \in SUBSET F
    <2>1. IsFiniteSet(s)
      BY FS_Subset
    <2> QED
      BY <2>1, NamesFinite
  <1>2. ASSUME NEW s \in SUBSET D, \A t \in SUBSET s : t # s => t \in P
        PROVE  s \in P
    <2>2. CASE s = {}
      <3>1. Named(s) = {}
        BY <2>2
      <3> QED
        BY <2>2, <3>1, SumEmpty
    <2>3. CASE s # {}
      <3>1. PICK y \in s : TRUE
        BY <2>3
      <3> DEFINE t == s \ {y}
      <3>2. t \in P
        BY <1>2
      <3>3. Total(s) = f[y] + Total(t)
        <4>1. s \in SUBSET E /\ IsFiniteSet(s)
          BY <1>1
        <4> QED
          BY <4>1, SumTakes
      <3>4. Named(s) \ {name[y]} = Named(t) /\ name[y] \in Named(s)
        OBVIOUS
      <3>5. Renamed(s) = g[name[y]] + Renamed(t)
        <4>1. IsFiniteSet(Named(s)) /\ Named(s) \in SUBSET F
          BY <1>1
        <4> HIDE DEF Named
        <4>2. SumFunctionOnSet(g, Named(s))
                 = g[name[y]] + SumFunctionOnSet(g, Named(s) \ {name[y]})
          BY <3>4, <4>1, SumTakes
        <4>3. SumFunctionOnSet(g, Named(s) \ {name[y]}) = SumFunctionOnSet(g, Named(t))
          BY <3>4, Zenon
        <4> QED
          BY <4>2, <4>3
      <3>6. g[name[y]] = f[y]
        OBVIOUS
      <3> HIDE DEF Total, Renamed, t
      <3> QED
        BY <3>2, <3>3, <3>5, <3>6
    <2> QED
      BY <2>2, <2>3
  <1>3. SUBSET D \subseteq P
    <2> HIDE DEF P
    <2> QED
      BY <1>2, SubsetsByInduction
  <1> QED
    BY <1>3

Renames(name, D, names, f, g) ==
    /\ names = {name[x] : x \in D}
    /\ \A x \in D : g[name[x]] = f[x]
    /\ \A x, y \in D : name[x] = name[y] => x = y

(* Of all that is summed, and by which functions.                          *)
Relabelled(f, E, D, g, F, names, name) ==
    /\ f \in [E -> Int] /\ D \in SUBSET E /\ g \in [F -> Int] /\ names \in SUBSET F
    /\ Renames(name, D, names, f, g)

LEMMA SumOfSome ==
    ASSUME NEW f, NEW E, NEW D, NEW g, NEW F, NEW names, NEW name,
           Relabelled(f, E, D, g, F, names, name), IsFiniteSet(D)
    PROVE  SumFunctionOnSet(g, names) = SumFunctionOnSet(f, D)
  <1>0. f \in [E -> Int] /\ D \in SUBSET E /\ g \in [F -> Int] /\ names \in SUBSET F
    BY DEF Relabelled
  <1>1. names = {name[x] : x \in D} /\ \A x \in D : name[x] \in names
    BY DEF Relabelled, Renames
  <1>2. /\ \A x \in D : name[x] \in F /\ g[name[x]] = f[x]
        /\ \A x, y \in D : name[x] = name[y] => x = y
    BY <1>0, <1>1 DEF Relabelled, Renames
  <1>3. SumFunctionOnSet(g, {name[x] : x \in D}) = SumFunctionOnSet(f, D)
    BY <1>0, <1>2, SumRenamed
  <1> QED
    BY <1>1, <1>3, Zenon

LEMMA SumOfNames ==
    ASSUME NEW E, NEW f \in [E -> Int], NEW D \in SUBSET E, IsFiniteSet(D),
           NEW names, NEW g \in [names -> Int], NEW name, Renames(name, D, names, f, g)
    PROVE  SumFunctionOnSet(g, names) = SumFunctionOnSet(f, D)
  <1>1. Relabelled(f, E, D, g, names, names, name)
    BY DEF Relabelled
  <1> QED
    BY <1>1, SumOfSome

(* Small sets.                                                             *)
LEMMA ThreeAreFinite == ASSUME NEW a, NEW b, NEW c PROVE IsFiniteSet({a, b, c})
  <1>1. IsFiniteSet({a})
    BY FS_Singleton
  <1>2. IsFiniteSet({a} \cup {b})
    BY <1>1, FS_AddElement
  <1>3. IsFiniteSet(({a} \cup {b}) \cup {c})
    BY <1>2, FS_AddElement
  <1>4. ({a} \cup {b}) \cup {c} = {a, b, c}
    OBVIOUS
  <1> QED
    BY <1>3, <1>4, Zenon

LEMMA FirstNumbers == ASSUME NEW n \in Nat PROVE IsFiniteSet(1..n) /\ Cardinality(1..n) = n
  <1>1. 1 \in Int /\ n \in Int
    OBVIOUS
  <1>2. IsFiniteSet(1..n) /\ Cardinality(1..n) = IF 1 > n THEN 0 ELSE n - 1 + 1
    BY <1>1, FS_Interval, Zenon
  <1> QED
    BY <1>2

(* As many names as numbers.                                               *)
Numbers(name, n, names) ==
    /\ names = {name[i] : i \in 1..n}
    /\ \A i, j \in 1..n : name[i] = name[j] => i = j

LEMMA NumbersCounted ==
    ASSUME NEW n \in Nat, NEW name, NEW names, Numbers(name, n, names)
    PROVE  Cardinality(names) = n
  <1>1. IsFiniteSet(1..n) /\ Cardinality(1..n) = n
    BY FirstNumbers
  <1> DEFINE D == 1..n
  <1> HIDE DEF D
  <1>2. names = {name[i] : i \in D} /\ \A i, j \in D : name[i] = name[j] => i = j
    BY DEF Numbers, D
  <1>3. Cardinality({name[i] : i \in D}) = Cardinality(D)
    BY <1>1, <1>2, NamesFinite DEF D
  <1> QED
    BY <1>1, <1>2, <1>3, Zenon DEF D

(* A finite set of numbers has a least and a greatest element.             *)
LEMMA EndsOfNumbers ==
    ASSUME NEW s \in SUBSET Int, IsFiniteSet(s), s # {}
    PROVE  /\ Max(s) \in s /\ \A x \in s : x <= Max(s)
           /\ Min(s) \in s /\ \A x \in s : Min(s) <= x
  <1> DEFINE id == [x \in s |-> x]
             neg == [x \in s |-> -x]
  <1>1. \E x \in s : \A y \in s : id[x] >= id[y]
    <2>1. id \in [s -> Int]
      OBVIOUS
    <2> HIDE DEF id
    <2> QED
      BY <2>1, HasGreatest
  <1>2. \E x \in s : \A y \in s : neg[x] >= neg[y]
    <2>1. neg \in [s -> Int]
      OBVIOUS
    <2> HIDE DEF neg
    <2> QED
      BY <2>1, HasGreatest
  <1>3. \E x \in s : \A y \in s : x >= y
    BY <1>1
  <1>4. \E x \in s : \A y \in s : x =< y
    BY <1>2
  <1>5. Max(s) \in s /\ \A x \in s : Max(s) >= x
    BY <1>3 DEF Max
  <1>6. Min(s) \in s /\ \A x \in s : Min(s) =< x
    BY <1>4 DEF Min
  <1> QED
    BY <1>5, <1>6

LEMMA MinOfTwo ==
    ASSUME NEW a \in Int, NEW b \in Int
    PROVE  Min({a, b}) = IF a <= b THEN a ELSE b
  BY DEF Min

LEMMA MaxOfTwo ==
    ASSUME NEW a \in Int, NEW b \in Int
    PROVE  Max({a, b}) = IF a >= b THEN a ELSE b
  BY DEF Max

-----------------------------------------------------------------------------
(* Folds over a sequence, from left to right.                              *)
LEMMA MaxIsLast ==
    ASSUME NEW n \in Nat, NEW s \in SUBSET (1..n), s # {}
    PROVE  Max(s) \in s /\ \A x \in s : x <= Max(s)
  <1> DEFINE id == [x \in s |-> x]
  <1>1. IsFiniteSet(s)
    <2>1. IsFiniteSet(1..n)
      BY FS_Interval
    <2> QED
      BY <2>1, FS_Subset
  <1>2. id \in [s -> Int]
    OBVIOUS
  <1>3. \E x \in s : \A y \in s : id[x] >= id[y]
    <2> HIDE DEF id
    <2> QED
      BY <1>1, <1>2, HasGreatest
  <1>4. \E x \in s : \A y \in s : x >= y
    BY <1>3
  <1> QED
    BY <1>4 DEF Max

LastOf(n) == [s \in SUBSET (1..n) |-> Max(s)]

(* The recursion of FoldLeft over a sequence of length n, and what it      *)
(* makes of each prefix.                                                   *)
LEMMA PrefixRecursion ==
    ASSUME NEW n \in Nat, NEW Y, NEW base, base \in Y,
           NEW step, step \in [1..n -> [Y -> Y]]
    PROVE  \E h : Recursive(h, 1..n, Y, base, LastOf(n), step)
  <1>1. IsFiniteSet(1..n)
    BY FS_Interval
  <1>2. Picks(LastOf(n), 1..n)
    BY MaxIsLast DEF Picks, LastOf
  <1> QED
    BY <1>1, <1>2, SubsetRecursion

LEMMA PrefixParts ==
    ASSUME NEW n \in Nat, NEW k \in 1..n
    PROVE  /\ (1..k) \in SUBSET (1..n) /\ (1..k) # {} /\ (1..0) = {}
           /\ Max(1..k) = k
           /\ (1..k) \ {Max(1..k)} = 1..(k - 1)
  <1>1. Max(1..k) \in 1..k /\ \A x \in 1..k : x <= Max(1..k)
    <2>1. 1..k \in SUBSET (1..n) /\ 1..k # {}
      OBVIOUS
    <2> QED
      BY <2>1, MaxIsLast
  <1>2. Max(1..k) = k
    BY <1>1
  <1>3. (1..k) \in SUBSET (1..n) /\ (1..k) # {} /\ (1..0) = {}
    OBVIOUS
  <1>4. (1..k) \ {k} = 1..(k - 1)
    OBVIOUS
  <1>5. (1..k) \ {Max(1..k)} = 1..(k - 1)
    BY <1>2, <1>4, Zenon
  <1> QED
    BY <1>2, <1>3, <1>5

(* What holds of the beginning and is kept by each step holds at the end.  *)
LEMMA StepByStep ==
    ASSUME NEW n \in Nat, NEW S, 0 \in S,
           \A k \in 1..n : k - 1 \in S => k \in S
    PROVE  0..n \subseteq S
  <1> DEFINE T == {k \in Nat : k \in 0..n => k \in S}
  <1>1. ASSUME NEW k \in Nat, k \in T PROVE k + 1 \in T
    BY <1>1
  <1>2. Nat \subseteq T
    <2>1. 0 \in T
      OBVIOUS
    <2> HIDE DEF T
    <2> QED
      BY <1>1, <2>1, NaturalInduction
  <1> QED
    BY <1>2

-----------------------------------------------------------------------------
(* A list that is filled holds nothing but what it held and what was       *)
(* wanted, and no more than there is room for.                             *)
LEMMA FillUpKept ==
    ASSUME NEW B, NEW list \in Seq(B), NEW C, NEW more \in Seq(C), NEW wanted, NEW room \in Nat
    PROVE  /\ FillUp(list, more, wanted, room) \in Seq(B \cup (C \cap wanted))
           /\ Len(list) <= room => Len(FillUp(list, more, wanted, room)) <= room
  <1> DEFINE n == Len(more)
             D == 1..n
             Y == {l \in Seq(B \cup (C \cap wanted)) : Len(list) <= room => Len(l) <= room}
             op(l, x) == IF x \in wanted /\ Len(l) < room THEN Append(l, x) ELSE l
             step == [k \in D |-> [l \in Y |-> op(l, more[k])]]
             Folds(f) == f = [s \in SUBSET D |-> IF s = {} THEN list
                                                 ELSE op(f[s \ {Max(s)}], more[Max(s)])]
             g == CHOOSE f : Folds(f)
             S == {k \in 0..n : g[1..k] \in Y}
  <1>1. n \in Nat /\ DOMAIN more = D /\ (\A k \in D : more[k] \in C) /\ list \in Y
    <2>1. n \in Nat /\ DOMAIN more = D /\ \A k \in D : more[k] \in C
      OBVIOUS
    <2>2. list \in Seq(B \cup (C \cap wanted))
      <3> DEFINE E == B \cup (C \cap wanted)
      <3>1. B \subseteq E
        OBVIOUS
      <3> HIDE DEF E
      <3>2. list \in Seq(E)
        BY <3>1
      <3> QED
        BY <3>2 DEF E
    <2> QED
      BY <2>1, <2>2
  <1>2. FillUp(list, more, wanted, room) = g[D]
    <2>1. FillUp(list, more, wanted, room) =
             (CHOOSE f : f = [s \in SUBSET DOMAIN more |-> IF s = {} THEN list
                                 ELSE op(f[s \ {Max(s)}], more[Max(s)])])[DOMAIN more]
      BY DEF FillUp, FoldLeft, MapThenFoldSet
    <2> QED
      BY <1>1, <2>1, Zenon
  <1>3. ASSUME NEW l \in Y, NEW x \in C PROVE op(l, x) \in Y
    <2>1. CASE x \in wanted /\ Len(l) < room
      <3> DEFINE E == B \cup (C \cap wanted)
      <3>1. x \in E /\ l \in Seq(E)
        BY <2>1
      <3> HIDE DEF E
      <3>2. Append(l, x) \in Seq(E) /\ Len(Append(l, x)) = Len(l) + 1 /\ Len(l) \in Nat
        BY <3>1
      <3> QED
        BY <2>1, <3>2 DEF E
    <2>2. CASE ~(x \in wanted /\ Len(l) < room)
      BY <2>2
    <2> QED
      BY <2>1, <2>2
  <1> HIDE DEF op, n, Y
  <1>4. PICK f : Recursive(f, D, Y, list, LastOf(n), step)
    <2>1. step \in [D -> [Y -> Y]]
      BY <1>1, <1>3
    <2> HIDE DEF step
    <2> QED
      BY <1>1, <2>1, PrefixRecursion
  <1>5. Folds(f)
    <2>1. /\ f \in [SUBSET D -> Y] /\ f[{}] = list
          /\ \A s \in SUBSET D : s # {} => f[s] = step[LastOf(n)[s]][f[s \ {LastOf(n)[s]}]]
      BY <1>4 DEF Recursive
    <2>2. ASSUME NEW s \in SUBSET D, s # {} PROVE f[s] = op(f[s \ {Max(s)}], more[Max(s)])
      <3>1. Max(s) \in D /\ LastOf(n)[s] = Max(s)
        BY <1>1, <2>2, MaxIsLast DEF LastOf
      <3>2. f[s \ {Max(s)}] \in Y
        BY <2>1
      <3> QED
        BY <2>1, <2>2, <3>1, <3>2
    <2> QED
      BY <2>1, <2>2
  <1>6. Folds(g)
    BY <1>5
  <1> HIDE DEF g
  <1>7. 0 \in S
    <2>1. (1..0) = {} /\ {} \in SUBSET D /\ 0 \in 0..n
      BY <1>1
    <2>2. g[1..0] = list
      BY <1>6, <2>1
    <2> QED
      BY <1>1, <2>1, <2>2
  <1>8. ASSUME NEW k \in 1..n, k - 1 \in S PROVE k \in S
    <2>1. g[1..k] = op(g[1..(k - 1)], more[k])
      <3>1. /\ (1..k) \in SUBSET D /\ (1..k) # {}
            /\ Max(1..k) = k /\ (1..k) \ {Max(1..k)} = 1..(k - 1)
        BY <1>1, PrefixParts
      <3>2. g[1..k] = op(g[(1..k) \ {Max(1..k)}], more[Max(1..k)])
        <4> HIDE DEF D
        <4> QED
          BY <1>6, <3>1
      <3> QED
        BY <3>1, <3>2, Zenon
    <2>2. g[1..(k - 1)] \in Y /\ k \in 0..n /\ more[k] \in C
      BY <1>1, <1>8
    <2> HIDE DEF Folds
    <2> QED
      BY <1>3, <2>1, <2>2
  <1>9. 0..n \subseteq S
    <2> HIDE DEF S
    <2> QED
      BY <1>1, <1>7, <1>8, StepByStep
  <1>10. n \in S
    BY <1>1, <1>9
  <1>11. g[D] \in Y
    BY <1>10
  <1> QED
    BY <1>2, <1>11 DEF Y

(* A filter keeps nothing it was not given, and nothing unwanted.          *)
LEMMA AmongKept ==
    ASSUME NEW C, NEW list \in Seq(C), NEW wanted
    PROVE  /\ Among(list, wanted) \in Seq(C \cap wanted)
           /\ Len(Among(list, wanted)) <= Len(list)
  <1>1. <<>> \in Seq({}) /\ Len(<<>>) = 0 /\ Len(list) \in Nat
    OBVIOUS
  <1>2. /\ Among(list, wanted) \in Seq({} \cup (C \cap wanted))
        /\ Len(<<>>) <= Len(list) => Len(Among(list, wanted)) <= Len(list)
    BY <1>1, FillUpKept DEF Among
  <1>3. {} \cup (C \cap wanted) = C \cap wanted
    OBVIOUS
  <1>4. Among(list, wanted) \in Seq(C \cap wanted)
    BY <1>2, <1>3, Zenon
  <1> QED
    BY <1>1, <1>2, <1>4

(* A list made of a set has the set's members.                             *)
LEMMA SetListed ==
    ASSUME NEW S, IsFiniteSet(S)
    PROVE  SetToSeq(S) \in Seq(S) /\ IsInjective(SetToSeq(S))
  <1>1. PICK n \in Nat : ExistsBijection(1..n, S)
    BY FS_NatBijection
  <1>2. Cardinality(S) = n
    BY <1>1, FS_CountingElements
  <1>3. \E f \in [1..n -> S] : IsInjective(f)
    BY <1>1 DEF ExistsBijection, Bijection, Injection, Surjection, IsInjective
  <1>4. SetToSeq(S) \in [1..n -> S] /\ IsInjective(SetToSeq(S))
    BY <1>2, <1>3 DEF SetToSeq
  <1> QED
    BY <1>4
=============================================================================
