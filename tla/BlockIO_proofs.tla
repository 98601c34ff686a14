--------------------------- MODULE BlockIO_proofs ---------------------------
(***************************************************************************)
(* Proofs about BlockIO: sums over finite sets, the types, and one         *)
(* inductive invariant after the other, each on top of the one before:     *)
(* which requests have a state, the in-flight count, the queue area, what  *)
(* the polls reported, and the requests a poll must show.                  *)
(***************************************************************************)
EXTENDS BlockIO, FiniteSetTheorems, WellFoundedInduction, TLAPS

----------------------------------------------------------------------------
(* Sums over finite sets.                                                  *)

Total(f, S) == MapThenSumSet(LAMBDA x : f[x], S)

First(s) == CHOOSE x \in s : TRUE

Ints(f, S) == \A x \in S : f[x] \in Int

(* The sum of f over s if g has that of the smaller subsets. *)
Adds(g, f, s) == IF s = {} THEN 0 ELSE f[First(s)] + g[s \ {First(s)}]

IsSum(g, f, S) == g = [s \in SUBSET S |-> Adds(g, f, s)]

(* A set of naturals that is not empty has a least member. *)
LEMMA Least ==
  ASSUME NEW S \in SUBSET Nat, S # {}
  PROVE  \E i \in S : \A j \in S : i <= j
<1> DEFINE R == OpToRel(<, Nat)
<1>1. \E i \in S : \A j \in S : <<j, i>> \notin R
  BY WFMin, NatLessThanWellFounded
<1>2. \A i, j \in Nat : j < i => <<j, i>> \in R
  BY DEF OpToRel
<1> HIDE DEF R
<1>3. PICK i \in S : \A j \in S : <<j, i>> \notin R
  BY <1>1
<1>4. \A j \in S : ~(j < i)
  BY <1>2, <1>3
<1> QED
  BY <1>3, <1>4

(* What the library's fold computes. *)
LEMMA TotalIs == ASSUME NEW f, NEW S
  PROVE Total(f, S) = (CHOOSE g : IsSum(g, f, S))[S]
BY DEF Total, MapThenSumSet, MapThenFoldSet, IsSum, Adds, First

(* The member taken first leaves a smaller subset. *)
LEMMA Smaller ==
  ASSUME NEW S, IsFiniteSet(S), NEW s \in SUBSET S, NEW x \in s
  PROVE  /\ IsFiniteSet(s) /\ IsFiniteSet(s \ {x})
         /\ Cardinality(s) \in Nat /\ Cardinality(s \ {x}) \in Nat
         /\ Cardinality(s \ {x}) = Cardinality(s) - 1
<1>1. IsFiniteSet(s)
  BY FS_Subset
<1>2. IsFiniteSet(s \ {x})
  BY <1>1, FS_RemoveElement
<1> QED
  BY <1>1, <1>2, FS_RemoveElement, FS_CardinalityType

LEMMA FirstOf == ASSUME NEW s, s # {} PROVE First(s) \in s
BY DEF First

(* The sum exists: one more application of its equation reaches subsets one larger. *)
LEMMA SumExists ==
  ASSUME NEW S, IsFiniteSet(S), NEW f, Ints(f, S)
  PROVE  \E g \in [SUBSET S -> Int] : IsSum(g, f, S)
<1> DEFINE Up(n) == {s \in SUBSET S : Cardinality(s) <= n}
           Good(n) == \E g \in [SUBSET S -> Int] : \A s \in Up(n) : g[s] = Adds(g, f, s)
           bad == {n \in Nat : ~Good(n)}
<1>1. Good(0)
  <2> DEFINE g == [s \in SUBSET S |-> 0]
  <2>1. \A s \in Up(0) : s = {}
    <3> SUFFICES ASSUME NEW s \in Up(0), s # {} PROVE FALSE
      OBVIOUS
    <3>1. First(s) \in s
      BY FirstOf
    <3>2. /\ Cardinality(s) \in Nat /\ Cardinality(s \ {First(s)}) \in Nat
          /\ Cardinality(s \ {First(s)}) = Cardinality(s) - 1
      BY <3>1, Smaller
    <3>3. Cardinality(s) <= 0
      OBVIOUS
    <3> QED
      BY <3>2, <3>3
  <2>2. g \in [SUBSET S -> Int] /\ \A s \in Up(0) : g[s] = Adds(g, f, s)
    BY <2>1 DEF Adds
  <2> QED
    BY <2>2
<1>2. ASSUME NEW n \in Nat, Good(n) PROVE Good(n + 1)
  <2>1. PICK g \in [SUBSET S -> Int] : \A s \in Up(n) : g[s] = Adds(g, f, s)
    BY <1>2
  <2> DEFINE h == [s \in SUBSET S |-> Adds(g, f, s)]
  <2>2. \A s \in SUBSET S : Adds(g, f, s) \in Int
    BY FirstOf DEF Adds, Ints
  <2>3. h \in [SUBSET S -> Int]
    BY <2>2
  <2>4. ASSUME NEW s \in Up(n + 1) PROVE h[s] = Adds(h, f, s)
    <3>1. CASE s = {}
      BY <3>1 DEF Adds
    <3>2. CASE s # {}
      <4>1. First(s) \in s
        BY <3>2, FirstOf
      <4>2. s \ {First(s)} \in Up(n)
        <5>1. /\ Cardinality(s) \in Nat /\ Cardinality(s \ {First(s)}) \in Nat
              /\ Cardinality(s \ {First(s)}) = Cardinality(s) - 1
          BY <4>1, Smaller
        <5>2. Cardinality(s) <= n + 1
          OBVIOUS
        <5> QED
          BY <5>1, <5>2
      <4>3. h[s \ {First(s)}] = g[s \ {First(s)}]
        BY <2>1, <4>2
      <4> QED
        BY <3>2, <4>3 DEF Adds
    <3> QED
      BY <3>1, <3>2
  <2> HIDE DEF h
  <2> QED
    BY <2>3, <2>4
<1> HIDE DEF Good
<1>3. bad = {}
  <2> SUFFICES ASSUME bad # {} PROVE FALSE
    OBVIOUS
  <2>1. PICK n \in bad : \A m \in bad : n <= m
    BY Least
  <2>2. n # 0 /\ n - 1 \in Nat /\ n - 1 \notin bad
    BY <1>1, <2>1
  <2>3. Good((n - 1) + 1)
    BY <1>2, <2>2
  <2> QED
    BY <2>1, <2>2, <2>3
<1>4. Cardinality(S) \in Nat /\ \A s \in SUBSET S : Cardinality(s) <= Cardinality(S)
  BY FS_CardinalityType, FS_Subset
<1>5. Good(Cardinality(S))
  BY <1>3, <1>4
<1>6. PICK g \in [SUBSET S -> Int] : \A s \in Up(Cardinality(S)) : g[s] = Adds(g, f, s)
  BY <1>5 DEF Good
<1>7. g = [s \in SUBSET S |-> Adds(g, f, s)]
  BY <1>4, <1>6
<1> QED
  BY <1>7 DEF IsSum

(* The sum of a subset does not depend on the set it is taken from. *)
LEMMA SumUnique ==
  ASSUME NEW S, IsFiniteSet(S), NEW U \in SUBSET S, NEW f, NEW g, NEW h,
         IsSum(g, f, S), IsSum(h, f, U)
  PROVE  g[U] = h[U]
<1> DEFINE bad == {Cardinality(s) : s \in {t \in SUBSET U : g[t] # h[t]}}
<1>1. \A s \in SUBSET U : s \in SUBSET S /\ Cardinality(s) \in Nat
  BY FS_CardinalityType, FS_Subset
<1>2. bad = {}
  <2> SUFFICES ASSUME bad # {} PROVE FALSE
    OBVIOUS
  <2>0. bad \in SUBSET Nat
    BY <1>1
  <2>1. PICK n \in bad : \A m \in bad : n <= m
    <3> HIDE DEF bad
    <3> QED
      BY <2>0, Least
  <2>2. PICK s \in SUBSET U : g[s] # h[s] /\ Cardinality(s) = n
    BY <2>1
  <2>3. g[s] = Adds(g, f, s) /\ h[s] = Adds(h, f, s)
    BY <1>1 DEF IsSum
  <2>4. s # {} /\ First(s) \in s
    BY <2>2, <2>3, FirstOf DEF Adds
  <2>5. Cardinality(s \ {First(s)}) = n - 1 /\ n \in Nat
    BY <1>1, <2>2, <2>4, Smaller
  <2>6. g[s \ {First(s)}] = h[s \ {First(s)}]
    <3> SUFFICES ASSUME g[s \ {First(s)}] # h[s \ {First(s)}] PROVE FALSE
      OBVIOUS
    <3>1. Cardinality(s \ {First(s)}) \in bad
      OBVIOUS
    <3> HIDE DEF bad
    <3> QED
      BY <2>1, <2>5, <3>1
  <2> QED
    BY <2>2, <2>3, <2>4, <2>6 DEF Adds
<1> QED
  BY <1>2

Totals(g, f, S) ==
  /\ g \in [SUBSET S -> Int] /\ IsSum(g, f, S)
  /\ \A U \in SUBSET S : Total(f, U) = g[U]

(* Any member may be taken first. *)
LEMMA SumAnyFirst ==
  ASSUME NEW S, IsFiniteSet(S), NEW f, Ints(f, S), NEW g, Totals(g, f, S)
  PROVE  \A y \in S : g[S] = f[y] + g[S \ {y}]
<1> DEFINE Good(s) == \A x \in s : g[s] = f[x] + g[s \ {x}]
           bad == {Cardinality(s) : s \in {t \in SUBSET S : ~Good(t)}}
<1>0. g \in [SUBSET S -> Int] /\ IsSum(g, f, S)
  BY DEF Totals
<1>1. \A s \in SUBSET S : Cardinality(s) \in Nat
  BY FS_CardinalityType, FS_Subset
<1>2. bad = {}
  <2> SUFFICES ASSUME bad # {} PROVE FALSE
    OBVIOUS
  <2>0. bad \in SUBSET Nat
    BY <1>1
  <2>1. PICK n \in bad : \A m \in bad : n <= m
    <3> HIDE DEF bad
    <3> QED
      BY <2>0, Least
  <2>2. PICK s \in SUBSET S : ~Good(s) /\ Cardinality(s) = n
    BY <2>1
  <2>3. \A t \in SUBSET S : Cardinality(t) = n - 1 => Good(t)
    <3> SUFFICES ASSUME NEW t \in SUBSET S, Cardinality(t) = n - 1, ~Good(t) PROVE FALSE
      OBVIOUS
    <3>1. n - 1 \in bad
      OBVIOUS
    <3>2. n \in Nat
      BY <1>1, <2>2
    <3> HIDE DEF bad
    <3> QED
      BY <2>1, <3>1, <3>2
  <2>4. PICK x \in s : g[s] # f[x] + g[s \ {x}]
    BY <2>2
  <2> DEFINE c == First(s)
  <2>5. c \in s /\ g[s] = f[c] + g[s \ {c}]
    BY <1>0, FirstOf DEF IsSum, Adds
  <2> HIDE DEF c
  <2>6. x # c
    BY <2>4, <2>5
  <2>7. Cardinality(s \ {c}) = n - 1 /\ Cardinality(s \ {x}) = n - 1
    BY <2>2, <2>5, Smaller
  <2>8. g[s \ {c}] = f[x] + g[(s \ {c}) \ {x}] /\ g[s \ {x}] = f[c] + g[(s \ {x}) \ {c}]
    BY <2>3, <2>5, <2>6, <2>7
  <2>9. (s \ {c}) \ {x} = (s \ {x}) \ {c}
    OBVIOUS
  <2>10. f[x] \in Int /\ f[c] \in Int /\ g[(s \ {x}) \ {c}] \in Int
    BY <1>0, <2>5 DEF Ints
  <2>11. \A a, b, e \in Int : a + (b + e) = b + (a + e)
    OBVIOUS
  <2>12. g[s] = f[c] + (f[x] + g[(s \ {x}) \ {c}])
    BY <2>5, <2>8, <2>9
  <2>13. f[x] + g[s \ {x}] = f[x] + (f[c] + g[(s \ {x}) \ {c}])
    BY <2>8
  <2>14. g[s] = f[x] + g[s \ {x}]
    <3> HIDE DEF bad, Good
    <3> QED
      BY <2>10, <2>11, <2>12, <2>13
  <2> QED
    BY <2>4, <2>14
<1>3. S \in SUBSET S
  OBVIOUS
<1> QED
  BY <1>2, <1>3

(* Sums of the subsets of S agree with one function. *)
LEMMA TotalsOf ==
  ASSUME NEW S, IsFiniteSet(S), NEW f, Ints(f, S)
  PROVE  \E g : Totals(g, f, S)
<1>1. PICK g \in [SUBSET S -> Int] : IsSum(g, f, S)
  BY SumExists
<1>2. ASSUME NEW U \in SUBSET S PROVE Total(f, U) = g[U]
  <2> DEFINE h == CHOOSE h : IsSum(h, f, U)
  <2>1. IsFiniteSet(U) /\ Ints(f, U)
    BY FS_Subset DEF Ints
  <2>2. IsSum(h, f, U)
    <3>1. \E k : IsSum(k, f, U)
      BY <2>1, SumExists
    <3> QED
      BY <3>1
  <2>3. Total(f, U) = h[U]
    BY TotalIs
  <2> HIDE DEF h
  <2> QED
    BY <1>1, <2>2, <2>3, SumUnique
<1>3. Totals(g, f, S)
  BY <1>1, <1>2 DEF Totals
<1> QED
  BY <1>3

LEMMA TotalType ==
  ASSUME NEW S, IsFiniteSet(S), NEW f, Ints(f, S)
  PROVE  Total(f, S) \in Int
<1>1. PICK g : Totals(g, f, S)
  BY TotalsOf
<1> QED
  BY <1>1 DEF Totals

LEMMA TotalEmpty == ASSUME NEW f PROVE Total(f, {}) = 0
<1>1. IsFiniteSet({}) /\ Ints(f, {})
  BY FS_EmptySet DEF Ints
<1>2. PICK g : Totals(g, f, {})
  BY <1>1, TotalsOf
<1> QED
  BY <1>2 DEF Totals, IsSum, Adds

LEMMA TotalRemove ==
  ASSUME NEW S, IsFiniteSet(S), NEW f, Ints(f, S), NEW y \in S
  PROVE  Total(f, S) = f[y] + Total(f, S \ {y})
<1>1. PICK g : Totals(g, f, S)
  BY TotalsOf
<1>2. S \in SUBSET S /\ S \ {y} \in SUBSET S
  OBVIOUS
<1>3. g[S] = f[y] + g[S \ {y}]
  BY <1>1, SumAnyFirst
<1> QED
  BY <1>1, <1>2, <1>3 DEF Totals

LEMMA TotalAdd ==
  ASSUME NEW S, IsFiniteSet(S), NEW f, NEW y, y \notin S, Ints(f, S \cup {y})
  PROVE  Total(f, S \cup {y}) = f[y] + Total(f, S)
<1>1. IsFiniteSet(S \cup {y})
  BY FS_AddElement
<1>2. (S \cup {y}) \ {y} = S
  OBVIOUS
<1> QED
  BY <1>1, <1>2, TotalRemove

(* Induction over the subsets of a finite set, for a set of subsets. *)
LEMMA SubsetInduction ==
  ASSUME NEW S, IsFiniteSet(S), NEW P \in SUBSET SUBSET S, {} \in P,
         \A s \in P : \A x \in S \ s : s \cup {x} \in P
  PROVE  S \in P
<1> DEFINE bad == {Cardinality(s) : s \in {t \in SUBSET S : t \notin P}}
<1>1. \A s \in SUBSET S : Cardinality(s) \in Nat
  BY FS_CardinalityType, FS_Subset
<1>2. bad = {}
  <2> SUFFICES ASSUME bad # {} PROVE FALSE
    OBVIOUS
  <2>0. bad \in SUBSET Nat
    BY <1>1
  <2>1. PICK n \in bad : \A m \in bad : n <= m
    <3> HIDE DEF bad
    <3> QED
      BY <2>0, Least
  <2>2. PICK s \in SUBSET S : s \notin P /\ Cardinality(s) = n
    BY <2>1
  <2>3. PICK x \in s : TRUE
    BY <2>2
  <2>4. s \ {x} \notin P
    <3>1. s = (s \ {x}) \cup {x} /\ x \in S \ (s \ {x})
      BY <2>3
    <3> QED
      BY <2>2, <3>1
  <2>5. Cardinality(s \ {x}) \in bad
    BY <2>4
  <2>6. Cardinality(s \ {x}) = n - 1 /\ n \in Nat
    BY <1>1, <2>2, <2>3, Smaller
  <2> HIDE DEF bad
  <2> QED
    BY <2>1, <2>5, <2>6
<1> QED
  BY <1>2

LEMMA TotalCong ==
  ASSUME NEW S, IsFiniteSet(S), NEW f, NEW g, Ints(f, S), \A x \in S : f[x] = g[x]
  PROVE  Total(f, S) = Total(g, S)
<1> DEFINE P == {s \in SUBSET S : Total(f, s) = Total(g, s)}
<1>1. {} \in P
  BY TotalEmpty
<1>2. ASSUME NEW s \in P, NEW x \in S \ s PROVE s \cup {x} \in P
  <2>1. IsFiniteSet(s) /\ Ints(f, s \cup {x}) /\ Ints(g, s \cup {x})
    BY FS_Subset DEF Ints
  <2>2. /\ Total(f, s \cup {x}) = f[x] + Total(f, s)
        /\ Total(g, s \cup {x}) = g[x] + Total(g, s)
    BY <2>1, TotalAdd
  <2> QED
    BY <2>2
<1> HIDE DEF P
<1>3. P \in SUBSET SUBSET S
  BY DEF P
<1>4. S \in P
  BY <1>1, <1>2, <1>3, SubsetInduction
<1> QED
  BY <1>4 DEF P

LEMMA TotalMono ==
  ASSUME NEW S, IsFiniteSet(S), NEW f, NEW g, Ints(f, S), Ints(g, S), \A x \in S : f[x] <= g[x]
  PROVE  Total(f, S) <= Total(g, S)
<1> DEFINE P == {s \in SUBSET S : Total(f, s) <= Total(g, s)}
<1>1. {} \in P
  BY TotalEmpty
<1>2. ASSUME NEW s \in P, NEW x \in S \ s PROVE s \cup {x} \in P
  <2>1. IsFiniteSet(s) /\ Ints(f, s \cup {x}) /\ Ints(g, s \cup {x}) /\ Ints(f, s) /\ Ints(g, s)
    BY FS_Subset DEF Ints
  <2>2. /\ Total(f, s \cup {x}) = f[x] + Total(f, s)
        /\ Total(g, s \cup {x}) = g[x] + Total(g, s)
    BY <2>1, TotalAdd
  <2>3. f[x] \in Int /\ g[x] \in Int /\ Total(f, s) \in Int /\ Total(g, s) \in Int
    BY <2>1, TotalType DEF Ints
  <2>4. f[x] <= g[x] /\ Total(f, s) <= Total(g, s)
    OBVIOUS
  <2>5. f[x] + Total(f, s) <= g[x] + Total(g, s)
    BY <2>3, <2>4
  <2> QED
    BY <2>2, <2>5
<1> HIDE DEF P
<1>3. P \in SUBSET SUBSET S
  BY DEF P
<1>4. S \in P
  BY <1>1, <1>2, <1>3, SubsetInduction
<1> QED
  BY <1>4 DEF P

(* A sum of differences from one value. *)
LEMMA TotalDiff ==
  ASSUME NEW S, IsFiniteSet(S), NEW f, Ints(f, S), NEW c \in Int, NEW g,
         \A x \in S : g[x] = c - f[x]
  PROVE  Total(g, S) = c * Cardinality(S) - Total(f, S)
<1> DEFINE P == {s \in SUBSET S : Total(g, s) = c * Cardinality(s) - Total(f, s)}
<1>1. {} \in P
  BY TotalEmpty, FS_EmptySet
<1>2. ASSUME NEW s \in P, NEW x \in S \ s PROVE s \cup {x} \in P
  <2>1. IsFiniteSet(s) /\ Ints(f, s \cup {x}) /\ Ints(g, s \cup {x}) /\ Ints(f, s)
    BY FS_Subset DEF Ints
  <2>2. /\ Total(f, s \cup {x}) = f[x] + Total(f, s)
        /\ Total(g, s \cup {x}) = g[x] + Total(g, s)
    BY <2>1, TotalAdd
  <2>3. f[x] \in Int /\ Total(f, s) \in Int /\ Cardinality(s) \in Nat
    BY <2>1, TotalType, FS_CardinalityType DEF Ints
  <2>4. Cardinality(s \cup {x}) = Cardinality(s) + 1
    BY <2>1, FS_AddElement
  <2>5. g[x] = c - f[x] /\ Total(g, s) = c * Cardinality(s) - Total(f, s)
    OBVIOUS
  <2>6. c * (Cardinality(s) + 1) = c * Cardinality(s) + c /\ c * Cardinality(s) \in Int
    BY <2>3
  <2>7. (c - f[x]) + (c * Cardinality(s) - Total(f, s))
          = (c * Cardinality(s) + c) - (f[x] + Total(f, s))
    BY <2>3, <2>6
  <2>8. Total(g, s \cup {x}) = c * Cardinality(s \cup {x}) - Total(f, s \cup {x})
    BY <2>2, <2>4, <2>5, <2>6, <2>7
  <2> QED
    BY <2>8
<1> HIDE DEF P
<1>3. P \in SUBSET SUBSET S
  BY DEF P
<1>4. S \in P
  BY <1>1, <1>2, <1>3, SubsetInduction
<1> QED
  BY <1>4 DEF P

(* Leaving out members that add nothing negative makes a sum no larger. *)
LEMMA TotalSubset ==
  ASSUME NEW S, IsFiniteSet(S), NEW f, NEW U \in SUBSET S, Ints(f, S), \A x \in S \ U : f[x] >= 0
  PROVE  Total(f, U) <= Total(f, S)
<1> DEFINE P == {s \in SUBSET (S \ U) : Total(f, U) <= Total(f, U \cup s)}
<1>0. IsFiniteSet(U) /\ IsFiniteSet(S \ U) /\ Total(f, U) \in Int
  BY FS_Subset, TotalType DEF Ints
<1>1. {} \in P
  <2>1. U \cup {} = U
    OBVIOUS
  <2> QED
    BY <1>0, <2>1
<1>2. ASSUME NEW s \in P, NEW x \in (S \ U) \ s PROVE s \cup {x} \in P
  <2>1. IsFiniteSet(U \cup s) /\ Ints(f, (U \cup s) \cup {x}) /\ Ints(f, U \cup s)
    BY FS_Subset DEF Ints
  <2>2. Total(f, (U \cup s) \cup {x}) = f[x] + Total(f, U \cup s)
    BY <2>1, TotalAdd
  <2>3. f[x] \in Int /\ f[x] >= 0 /\ Total(f, U \cup s) \in Int
    BY <2>1, TotalType DEF Ints
  <2>4. Total(f, U) <= f[x] + Total(f, U \cup s)
    BY <1>0, <2>3
  <2>5. (U \cup s) \cup {x} = U \cup (s \cup {x})
    OBVIOUS
  <2> QED
    BY <2>2, <2>4, <2>5
<1> HIDE DEF P
<1>3. P \in SUBSET SUBSET (S \ U)
  BY DEF P
<1>4. S \ U \in P
  BY <1>0, <1>1, <1>2, <1>3, SubsetInduction
<1>5. U \cup (S \ U) = S
  OBVIOUS
<1> QED
  BY <1>4, <1>5 DEF P

----------------------------------------------------------------------------
(* Arithmetic of the areas.                                                *)

LEMMA ProductNat == \A a, b \in Nat : a * b \in Nat
OBVIOUS

LEMMA ProductMono == \A a, b, c \in Nat : a <= b => a * c <= b * c
<1> SUFFICES ASSUME NEW a \in Nat, NEW b \in Nat, NEW c \in Nat, a <= b PROVE a * c <= b * c
  OBVIOUS
<1>1. b * c = a * c + (b - a) * c
  OBVIOUS
<1>2. (b - a) * c \in Nat /\ a * c \in Nat
  BY ProductNat
<1> QED
  BY <1>1, <1>2

LEMMA ProductPred == \A a, b \in Int : a * (b - 1) = a * b - a
OBVIOUS

LEMMA ProductDiff == \A a, b, c \in Int : (a - b) * c = a * c - b * c
OBVIOUS

----------------------------------------------------------------------------
(* Type correctness.                                                       *)

LEMMA AreaType ==
  ASSUME DevicesTyped, NEW d \in Device, NEW at \in Nat
  PROVE  Area(d, at) \in Nat
<1>1. queue_last_ns[d] \in Nat /\ queue_area_ns[d] \in Nat /\ inflight[d] \in Nat
  BY DEF DevicesTyped
<1>2. at > queue_last_ns[d] => (at - queue_last_ns[d]) * inflight[d] \in Nat
  BY <1>1, ProductNat
<1> QED
  BY <1>1, <1>2 DEF Area

LEMMA ExtendedType ==
  ASSUME DevicesTyped, NEW d \in Device, pollMono \in Nat
  PROVE  Extended(d) \in Nat
<1>1. queue_last_ns[d] \in Nat /\ queue_area_ns[d] \in Nat /\ inflight[d] \in Nat
  BY DEF DevicesTyped
<1>2. pollMono > queue_last_ns[d] => (pollMono - queue_last_ns[d]) * inflight[d] \in Nat
  BY <1>1, ProductNat
<1> QED
  BY <1>1, <1>2 DEF Extended

LEMMA TypeInit == Init => TypeOK
<1> SUFFICES ASSUME Init PROVE TypeOK
  OBVIOUS
<1>1. ClockTyped
  BY DEF Init, ClockTyped
<1>2. RequestsTyped
  BY DEF Init, RequestsTyped, Phases, NoState, RequestState
<1>3. DevicesTyped
  BY BlockAssumption DEF Init, DevicesTyped, Zero
<1>4. PollTyped
  BY DEF Init, PollTyped, Zero
<1>5. HistoryTyped
  <2>1. completion_miss \in BOOLEAN /\ map_update_fail \in BOOLEAN
    BY Zenon DEF Init
  <2>2. /\ reported \in [Device -> Nat] /\ trueArea \in [Device -> Int]
        /\ shownUpTo \in [Device -> Nat] /\ overtaken \subseteq Device
    BY DEF Init, Zero
  <2> QED
    BY <2>1, <2>2 DEF HistoryTyped
<1> QED
  BY <1>1, <1>2, <1>3, <1>4, <1>5 DEF TypeOK

LEMMA ClockType == TypeOK /\ [Next]_vars => ClockTyped'
<1> SUFFICES ASSUME TypeOK, [Next]_vars PROVE ClockTyped'
  OBVIOUS
<1> USE DEF TypeOK, ClockTyped
<1>0. CASE UNCHANGED vars
  BY <1>0 DEF vars
<1>1. CASE AttachComplete \/ AttachIssue \/ ReadBoundary \/ Arm \/ Tick
  BY <1>1 DEF AttachComplete, AttachIssue, ReadBoundary, Arm, Tick
<1>2. ASSUME NEW r \in Request,
             Allocate(r) \/ Issue(r) \/ IssueAccount(r) \/ Requeue(r) \/ Complete(r)
               \/ CompleteAccount(r)
      PROVE  ClockTyped'
  BY <1>2 DEF Allocate, Issue, IssueAccount, Requeue, Complete, CompleteAccount
<1>3. CASE PollStart \/ PollCommit \/ \E d \in Device : PollLookup(d)
  BY <1>3 DEF PollStart, PollCommit, PollLookup
<1> QED
  BY <1>0, <1>1, <1>2, <1>3 DEF Next

LEMMA RequestsType == TypeOK /\ [Next]_vars => RequestsTyped'
<1> SUFFICES ASSUME TypeOK, [Next]_vars PROVE RequestsTyped'
  OBVIOUS
<1> USE DEF TypeOK, ClockTyped, RequestsTyped, RequestState, Phases, kernelState
<1>0. CASE UNCHANGED vars
  BY <1>0 DEF vars
<1>1. CASE AttachComplete \/ AttachIssue \/ ReadBoundary \/ Arm \/ Tick
  BY <1>1 DEF AttachComplete, AttachIssue, ReadBoundary, Arm, Tick
<1>2. ASSUME NEW r \in Request, Allocate(r) PROVE RequestsTyped'
  BY <1>2 DEF Allocate
<1>3. ASSUME NEW r \in Request, Issue(r) PROVE RequestsTyped'
  BY <1>3 DEF Issue
<1>4. ASSUME NEW r \in Request, IssueAccount(r) PROVE RequestsTyped'
  BY <1>4 DEF IssueAccount
<1>5. ASSUME NEW r \in Request, Requeue(r) PROVE RequestsTyped'
  BY <1>5 DEF Requeue
<1>6. ASSUME NEW r \in Request, Complete(r) PROVE RequestsTyped'
  BY <1>6 DEF Complete, NoState
<1>7. ASSUME NEW r \in Request, CompleteAccount(r) PROVE RequestsTyped'
  BY <1>7 DEF CompleteAccount
<1>8. CASE PollStart \/ PollCommit \/ \E d \in Device : PollLookup(d)
  BY <1>8 DEF PollStart, PollCommit, PollLookup
<1> QED
  BY <1>0, <1>1, <1>2, <1>3, <1>4, <1>5, <1>6, <1>7, <1>8 DEF Next

LEMMA DevicesType == TypeOK /\ [Next]_vars => DevicesTyped'
<1> SUFFICES ASSUME TypeOK, [Next]_vars PROVE DevicesTyped'
  OBVIOUS
<1> USE DEF TypeOK, DevicesTyped, devStats
<1>0. CASE UNCHANGED vars
  BY <1>0 DEF vars
<1>1. CASE AttachComplete \/ AttachIssue \/ ReadBoundary \/ Arm \/ Tick
  BY <1>1 DEF AttachComplete, AttachIssue, ReadBoundary, Arm, Tick
<1>2. ASSUME NEW r \in Request, Allocate(r) \/ Issue(r) \/ Requeue(r) \/ Complete(r)
      PROVE  DevicesTyped'
  BY <1>2 DEF Allocate, Issue, Requeue, Complete
<1>3. ASSUME NEW r \in Request, IssueAccount(r) \/ CompleteAccount(r) PROVE DevicesTyped'
  <2> DEFINE d == DevOf[r]
  <2>1. d \in Device /\ stamp[r] \in Nat
    BY BlockAssumption DEF RequestsTyped
  <2>2. Area(d, stamp[r]) \in Nat
    BY <2>1, AreaType
  <2>3. Decremented(inflight[d]) \in Nat
    BY <2>1 DEF Decremented
  <2> QED
    BY <1>3, <2>1, <2>2, <2>3 DEF IssueAccount, CompleteAccount
<1>4. CASE PollStart \/ PollCommit \/ \E d \in Device : PollLookup(d)
  BY <1>4 DEF PollStart, PollCommit, PollLookup
<1> QED
  BY <1>0, <1>1, <1>2, <1>3, <1>4 DEF Next

LEMMA PollType == TypeOK /\ [Next]_vars => PollTyped'
<1> SUFFICES ASSUME TypeOK, [Next]_vars PROVE PollTyped'
  OBVIOUS
<1> USE DEF TypeOK, PollTyped, pollVars
<1>0. CASE UNCHANGED vars
  BY <1>0 DEF vars
<1>1. CASE AttachComplete \/ AttachIssue \/ ReadBoundary \/ Arm \/ Tick
  BY <1>1 DEF AttachComplete, AttachIssue, ReadBoundary, Arm, Tick
<1>2. ASSUME NEW r \in Request,
             Allocate(r) \/ Issue(r) \/ IssueAccount(r) \/ Requeue(r) \/ Complete(r)
               \/ CompleteAccount(r)
      PROVE  PollTyped'
  BY <1>2 DEF Allocate, Issue, IssueAccount, Requeue, Complete, CompleteAccount
<1>3. CASE PollStart
  BY <1>3 DEF PollStart, Zero, ClockTyped, DevicesTyped
<1>4. ASSUME NEW d \in Device, PollLookup(d) PROVE PollTyped'
  BY <1>4, ExtendedType DEF PollLookup
<1>5. CASE PollCommit
  BY <1>5 DEF PollCommit, Zero
<1> QED
  BY <1>0, <1>1, <1>2, <1>3, <1>4, <1>5 DEF Next

LEMMA HistoryType == TypeOK /\ [Next]_vars => HistoryTyped'
<1> SUFFICES ASSUME TypeOK, [Next]_vars PROVE HistoryTyped'
  OBVIOUS
<1> USE DEF TypeOK, HistoryTyped, health
<1>0. CASE UNCHANGED vars
  BY <1>0 DEF vars
<1>1. CASE AttachComplete \/ AttachIssue \/ ReadBoundary \/ Arm \/ Tick
  BY <1>1 DEF AttachComplete, AttachIssue, ReadBoundary, Arm, Tick
<1>2. ASSUME NEW r \in Request, Allocate(r) \/ Issue(r) \/ Requeue(r) PROVE HistoryTyped'
  BY <1>2 DEF Allocate, Issue, Requeue
<1>3. ASSUME NEW r \in Request, IssueAccount(r) \/ CompleteAccount(r) PROVE HistoryTyped'
  <2>1. overtaken' \subseteq Device
    BY <1>3, BlockAssumption DEF IssueAccount, CompleteAccount, Overtakes
  <2>2. map_update_fail' \in BOOLEAN /\ completion_miss' \in BOOLEAN
    BY <1>3, Zenon DEF IssueAccount, CompleteAccount
  <2>3. UNCHANGED <<reported, trueArea, shownUpTo>>
    BY <1>3 DEF IssueAccount, CompleteAccount
  <2> QED
    BY <2>1, <2>2, <2>3
<1>4. ASSUME NEW r \in Request, Complete(r) PROVE HistoryTyped'
  <2>1. DevOf[r] \in Device /\ trueArea[DevOf[r]] + (now - start[r].first_issue_ns) \in Int
    BY BlockAssumption DEF RequestsTyped, RequestState, ClockTyped
  <2> QED
    BY <1>4, <2>1 DEF Complete
<1>5. CASE PollStart
  BY <1>5 DEF PollStart
<1>6. ASSUME NEW d \in Device, PollLookup(d) PROVE HistoryTyped'
  BY <1>6 DEF PollLookup, PollTyped
<1>7. CASE PollCommit
  <2>1. \A d \in Device : CounterDelta(cur[d], prev[d]) \in Nat
    BY DEF CounterDelta, PollTyped
  <2> QED
    BY <1>7, <2>1 DEF PollCommit
<1> QED
  BY <1>0, <1>1, <1>2, <1>3, <1>4, <1>5, <1>6, <1>7 DEF Next

LEMMA TypeStep == TypeOK /\ [Next]_vars => TypeOK'
BY ClockType, RequestsType, DevicesType, PollType, HistoryType DEF TypeOK

(* Every variable has its type: in particular no area, gauge, delta or clock reading of
   block.bpf.c and IOCollector is ever negative. *)
THEOREM TypeCorrect == Spec => []TypeOK
BY TypeInit, TypeStep, PTL DEF Spec

----------------------------------------------------------------------------
(* The inductive invariants.                                               *)

Held(d) == InFlight(d) \ InPhase(d, "issuing")
Ending(d) == InPhase(d, "completing")

(* The clock, the boundary and the handshake. *)
Handshake ==
  /\ now >= 1 /\ boundaryNS <= now /\ startup_boundary_ns \in {0, boundaryNS}
  /\ boundaryNS # 0 => IssueAttached
  /\ startup_boundary_ns # 0 => setup = "armed"

(* A state is that of a request the driver has, seen by the issue hook. *)
Recorded == \A r \in Request : start[r] # NoState =>
  /\ phase[r] \in {"issuing", "issued", "requeued"} /\ IssueAttached
  /\ start[r].first_issue_ns \in 1..now

(* A handler under way has the timestamp it took. *)
Stamped == \A r \in Request :
  /\ start_time_ns[r] <= now
  /\ phase[r] = "issuing" => start[r].tracked /\ stamp[r] = start[r].first_issue_ns
  /\ phase[r] = "completing" => stamp[r] \in 1..now

(* What the driver has without a state was allocated before the issue hook was there,
   as long as no full map refused an entry. *)
Unseen == ~map_update_fail /\ IssueAttached => \A r \in Request :
  phase[r] \in {"issued", "requeued"} /\ start[r] = NoState =>
    start_time_ns[r] < now /\ (boundaryNS # 0 => start_time_ns[r] < boundaryNS)

RequestInv == TypeOK /\ Handshake /\ Recorded /\ Stamped /\ Unseen /\ NoFalseMiss

(* The entries of dev_stats, and the devices it can still take. *)
Entries == \A d \in Device :
  IF d \in devs THEN queue_last_ns[d] \in 1..now
  ELSE queue_last_ns[d] = 0 /\ queue_area_ns[d] = 0 /\ inflight[d] = 0
Rooms ==
  /\ Cardinality(devs) <= devRoom
  /\ \A d \in Device \ devs : Cardinality(devs \cup {d}) <= devRoom =>
       Held(d) = {} /\ Ending(d) = {} /\ trueArea[d] = 0
Gauge == \A d \in devs : inflight[d] = Cardinality(Held(d)) + Cardinality(Ending(d))

GaugeInv == RequestInv /\ Entries /\ Rooms /\ Gauge

(* Sums of the first issues and of the completions under way. *)
Firsts == [r \in Request |-> start[r].first_issue_ns]
FirstSum(d) == Total(Firsts, Held(d))
StampSum(d) == Total(stamp, Ending(d))

(* The area, as if accounted back to time 0, is what the requests themselves say. *)
AreaKept == \A d \in devs \ overtaken :
  queue_area_ns[d] - queue_last_ns[d] * inflight[d] = trueArea[d] - FirstSum(d) - StampSum(d)

AreaInv == GaugeInv /\ AreaKept

(* The polls are behind the clock, and a device has been shown up to the poll's time
   exactly when it was looked up. *)
PollOrder ==
  /\ pollMono <= now /\ todo \cup looked \subseteq devs
  /\ pollMono = 0 => looked = {}
  /\ \A d \in Device : /\ shownUpTo[d] <= now
                       /\ pollMono # 0 => shownUpTo[d] <= pollMono
                       /\ d \in looked => shownUpTo[d] = pollMono

(* A device a poll has reported is visited by the next one. *)
Visited == \A d \in Device :
  prev[d] # 0 => d \in devs /\ (pollMono # 0 => d \in todo \cup looked)

ExtendedTo(d, at) ==
  IF at > queue_last_ns[d] THEN queue_area_ns[d] + (at - queue_last_ns[d]) * inflight[d]
  ELSE queue_area_ns[d]

(* What was reported is no more than the area as it was last shown. *)
ShownKept == \A d \in Device \ overtaken :
  /\ reported[d] = prev[d] /\ prev[d] <= ExtendedTo(d, shownUpTo[d])
  /\ d \in looked => prev[d] <= cur[d] /\ cur[d] <= ExtendedTo(d, shownUpTo[d])

TrueAreaNat == \A d \in Device : trueArea[d] >= 0

ReportInv == AreaInv /\ PollOrder /\ Visited /\ ShownKept /\ TrueAreaNat

(* The area holds at least the requests not yet complete, up to the last event: it is no
   less than the sum of queue_last_ns - first_issue_ns over the requests held.  What a poll
   looked up holds at least those issued before its time, up to its time. *)
Ages(at) == [r \in Request |-> at - start[r].first_issue_ns]
Before(d, at) == {r \in Held(d) : start[r].first_issue_ns < at}
Covered == \A d \in devs \ overtaken :
  /\ \A r \in Held(d) : start[r].first_issue_ns <= queue_last_ns[d]
  /\ queue_area_ns[d] >= queue_last_ns[d] * Cardinality(Held(d)) - FirstSum(d)
Looked == \A d \in looked \ overtaken : cur[d] >= Total(Ages(pollMono), Before(d, pollMono))

StableInv == ReportInv /\ Covered /\ Looked

----------------------------------------------------------------------------
(* Requests, their states and the handshake.                               *)

LEMMA RequestInit == Init => RequestInv
<1> SUFFICES ASSUME Init PROVE RequestInv
  OBVIOUS
<1>1. TypeOK
  BY TypeInit
<1>2. Handshake /\ Recorded /\ Stamped /\ Unseen
  BY DEF Init, Handshake, Recorded, Stamped, Unseen, IssueAttached, NoState
<1>3. NoFalseMiss
  BY Zenon DEF Init, NoFalseMiss
<1> QED
  BY <1>1, <1>2, <1>3 DEF RequestInv

(* The types the steps below need, at one request. *)
LEMMA RequestTypes ==
  ASSUME TypeOK, NEW r \in Request
  PROVE  /\ now \in Nat /\ boundaryNS \in Nat /\ startup_boundary_ns \in Nat
         /\ start[r] \in RequestState /\ start[r].first_issue_ns \in Nat
         /\ start[r].tracked \in BOOLEAN
         /\ stamp[r] \in Nat /\ start_time_ns[r] \in Nat
BY DEF TypeOK, ClockTyped, RequestsTyped, RequestState

(* The steps of NewIOCollector and of the clock. *)
LEMMA RequestSetup ==
  ASSUME RequestInv, AttachComplete \/ AttachIssue \/ ReadBoundary \/ Arm \/ Tick
  PROVE  Handshake' /\ Recorded' /\ Stamped' /\ Unseen' /\ NoFalseMiss'
<1> USE DEF RequestInv, kernelState, health
<1>1. now \in Nat /\ boundaryNS \in Nat /\ now >= 1
      /\ \A r \in Request : start[r].first_issue_ns \in Nat /\ stamp[r] \in Nat /\ start_time_ns[r] \in Nat
  BY RequestTypes DEF Handshake, TypeOK, ClockTyped
<1>2. UNCHANGED <<kernelState, start, health>>
  BY DEF AttachComplete, AttachIssue, ReadBoundary, Arm, Tick
<1>3. now' \in Nat /\ now <= now'
  BY <1>1 DEF AttachComplete, AttachIssue, ReadBoundary, Arm, Tick
<1>4. Handshake'
  BY <1>1 DEF Handshake, AttachComplete, AttachIssue, ReadBoundary, Arm, Tick, IssueAttached,
              BothHooks
<1>5. IssueAttached => IssueAttached'
  BY DEF AttachComplete, AttachIssue, ReadBoundary, Arm, Tick, IssueAttached
<1>6. Recorded'
  BY <1>1, <1>2, <1>3, <1>5 DEF Recorded
<1>7. Stamped'
  BY <1>1, <1>2, <1>3 DEF Stamped
<1>8. Unseen'
  <2>1. CASE AttachComplete
    BY <2>1 DEF AttachComplete, Unseen, IssueAttached
  <2>2. CASE AttachIssue
    <3>1. boundaryNS = 0 /\ boundaryNS' = 0 /\ now' = now + 1
      BY <2>2 DEF AttachIssue, Handshake, IssueAttached
    <3> QED
      BY <1>1, <1>2, <3>1 DEF Unseen, Stamped
  <2>3. CASE ReadBoundary
    BY <1>1, <1>2, <2>3 DEF ReadBoundary, BothHooks, Unseen, IssueAttached
  <2>4. CASE Arm
    BY <1>1, <1>2, <2>4 DEF Arm, Unseen, IssueAttached
  <2>5. CASE Tick
    BY <1>1, <1>2, <2>5 DEF Tick, Unseen, IssueAttached
  <2> QED
    BY <2>1, <2>2, <2>3, <2>4, <2>5
<1>9. NoFalseMiss'
  BY <1>2, Zenon DEF NoFalseMiss
<1> QED
  BY <1>4, <1>6, <1>7, <1>8, <1>9

LEMMA RequestAllocate ==
  ASSUME RequestInv, NEW r \in Request, Allocate(r)
  PROVE  Handshake' /\ Recorded' /\ Stamped' /\ Unseen' /\ NoFalseMiss'
<1> USE DEF RequestInv
<1>1. now \in Nat /\ phase \in [Request -> Phases] /\ start_time_ns \in [Request -> Nat]
  BY DEF TypeOK, ClockTyped, RequestsTyped
<1>2. UNCHANGED <<now, setup, boundaryNS, startup_boundary_ns, stamp, start, health>>
  BY DEF Allocate
<1>3. /\ phase[r] = "free" /\ phase' = [phase EXCEPT ![r] = "allocated"]
      /\ \A q \in Request : q # r => start_time_ns'[q] = start_time_ns[q]
  BY <1>1 DEF Allocate
<1>4. Handshake'
  BY <1>2 DEF Handshake, IssueAttached
<1>5. Recorded'
  BY <1>1, <1>2, <1>3 DEF Recorded, IssueAttached
<1>6. Stamped'
  <2>1. \A q \in Request : start_time_ns'[q] <= now
    BY <1>1 DEF Stamped, Allocate
  <2> QED
    BY <1>1, <1>2, <1>3, <2>1 DEF Stamped
<1>7. Unseen'
  BY <1>1, <1>2, <1>3 DEF Unseen, IssueAttached, health
<1>8. NoFalseMiss'
  BY <1>2, Zenon DEF NoFalseMiss, health
<1> QED
  BY <1>4, <1>5, <1>6, <1>7, <1>8

LEMMA RequestRequeue ==
  ASSUME RequestInv, NEW r \in Request, Requeue(r)
  PROVE  Handshake' /\ Recorded' /\ Stamped' /\ Unseen' /\ NoFalseMiss'
<1> USE DEF RequestInv
<1>1. phase \in [Request -> Phases]
  BY DEF TypeOK, RequestsTyped
<1>2. UNCHANGED <<now, setup, boundaryNS, startup_boundary_ns, start_time_ns, stamp, start, health>>
  BY DEF Requeue
<1>3. phase[r] = "issued" /\ phase' = [phase EXCEPT ![r] = "requeued"]
  BY DEF Requeue
<1>4. Handshake'
  BY <1>2 DEF Handshake, IssueAttached
<1>5. Recorded'
  BY <1>1, <1>2, <1>3 DEF Recorded, IssueAttached
<1>6. Stamped'
  BY <1>1, <1>2, <1>3 DEF Stamped
<1>7. Unseen'
  BY <1>1, <1>2, <1>3 DEF Unseen, IssueAttached, health
<1>8. NoFalseMiss'
  BY <1>2, Zenon DEF NoFalseMiss, health
<1> QED
  BY <1>4, <1>5, <1>6, <1>7, <1>8

(* handle_issue leaves no request without a state unless it counts the loss. *)
LEMMA RequestIssue ==
  ASSUME RequestInv, NEW r \in Request, Issue(r)
  PROVE  Handshake' /\ Recorded' /\ Stamped' /\ Unseen' /\ NoFalseMiss'
<1> DEFINE armed == startup_boundary_ns # 0
           room == Cardinality(Started) < startRoom
           account == NewIssue(r) /\ room /\ armed
<1> USE DEF RequestInv
<1>1. /\ now \in Nat /\ now >= 1 /\ phase \in [Request -> Phases] /\ stamp \in [Request -> Nat]
      /\ start \in [Request -> RequestState]
  BY DEF TypeOK, ClockTyped, RequestsTyped, Handshake
<1>2. UNCHANGED <<now, setup, boundaryNS, startup_boundary_ns, start_time_ns, completion_miss>>
  BY DEF Issue
<1>3. /\ start' = IF NewIssue(r) /\ room
                  THEN [start EXCEPT ![r] = [first_issue_ns |-> now, tracked |-> armed]]
                  ELSE start
      /\ phase' = [phase EXCEPT ![r] = IF account THEN "issuing" ELSE "issued"]
      /\ stamp' = [stamp EXCEPT ![r] = IF account THEN now ELSE 0]
      /\ phase[r] \in {"allocated", "requeued"}
  BY DEF Issue
<1>4. map_update_fail' = (map_update_fail \/ (NewIssue(r) /\ ~room))
  BY DEF Issue
<1> HIDE DEF armed, room
<1>5. Handshake'
  BY <1>2 DEF Handshake, IssueAttached
<1>6. Recorded'
  <2> SUFFICES ASSUME NEW q \in Request, start'[q] # NoState
               PROVE  /\ phase'[q] \in {"issuing", "issued", "requeued"} /\ IssueAttached'
                      /\ start'[q].first_issue_ns \in 1..now'
    BY DEF Recorded
  <2>1. \/ start'[q] = start[q]
        \/ q = r /\ NewIssue(r) /\ start'[q] = [first_issue_ns |-> now, tracked |-> armed]
    BY <1>1, <1>3
  <2>2. phase'[q] \in {"issuing", "issued", "requeued"}
    BY <1>1, <1>3, <2>1 DEF Recorded
  <2>3. IssueAttached' /\ start'[q].first_issue_ns \in 1..now
    BY <1>1, <1>2, <2>1 DEF Recorded, IssueAttached, NewIssue
  <2> QED
    BY <1>2, <2>2, <2>3
<1>7. Stamped'
  BY <1>1, <1>2, <1>3 DEF Stamped
<1>8. Unseen'
  <2>1. CASE map_update_fail'
    BY <2>1 DEF Unseen
  <2>2. CASE ~map_update_fail'
    <3>1. ~map_update_fail /\ ~(NewIssue(r) /\ ~room)
      BY <1>4, <2>2, Zenon
    <3>2. SUFFICES ASSUME IssueAttached', NEW q \in Request,
                          phase'[q] \in {"issued", "requeued"}, start'[q] = NoState
                   PROVE  start_time_ns[q] < now /\ (boundaryNS # 0 => start_time_ns[q] < boundaryNS)
      BY <1>2, <2>2 DEF Unseen
    <3>3. IssueAttached
      BY <1>2, <3>2 DEF IssueAttached
    <3>4. q # r
      BY <1>1, <1>3, <3>1, <3>2, <3>3 DEF NewIssue, NoState
    <3>5. phase'[q] = phase[q] /\ start'[q] = start[q]
      BY <1>1, <1>3, <3>4
    <3> QED
      BY <3>1, <3>2, <3>3, <3>5 DEF Unseen
  <2> QED
    BY <2>1, <2>2
<1>9. NoFalseMiss'
  BY <1>2, <1>4, Zenon DEF NoFalseMiss
<1> QED
  BY <1>5, <1>6, <1>7, <1>8, <1>9

LEMMA RequestIssueAccount ==
  ASSUME RequestInv, NEW r \in Request, IssueAccount(r)
  PROVE  Handshake' /\ Recorded' /\ Stamped' /\ Unseen' /\ NoFalseMiss'
<1> USE DEF RequestInv
<1>1. phase \in [Request -> Phases] /\ stamp \in [Request -> Nat]
  BY DEF TypeOK, RequestsTyped
<1>2. UNCHANGED <<now, setup, boundaryNS, startup_boundary_ns, start_time_ns, start, completion_miss>>
  BY DEF IssueAccount
<1>3. /\ phase[r] = "issuing" /\ phase' = [phase EXCEPT ![r] = "issued"]
      /\ stamp' = [stamp EXCEPT ![r] = 0]
  BY DEF IssueAccount
<1>4. map_update_fail => map_update_fail'
  BY DEF IssueAccount
<1>5. start[r] # NoState
  BY <1>3 DEF Stamped, NoState
<1>6. Handshake'
  BY <1>2 DEF Handshake, IssueAttached
<1>7. Recorded'
  BY <1>1, <1>2, <1>3 DEF Recorded, IssueAttached
<1>8. Stamped'
  BY <1>1, <1>2, <1>3 DEF Stamped
<1>9. Unseen'
  BY <1>1, <1>2, <1>3, <1>4, <1>5 DEF Unseen, IssueAttached
<1>10. NoFalseMiss'
  BY <1>2, <1>4, Zenon DEF NoFalseMiss
<1> QED
  BY <1>6, <1>7, <1>8, <1>9, <1>10

(* handle_complete: a miss is provable only where the start map refused an entry. *)
LEMMA RequestComplete ==
  ASSUME RequestInv, NEW r \in Request, Complete(r)
  PROVE  Handshake' /\ Recorded' /\ Stamped' /\ Unseen' /\ NoFalseMiss'
<1> USE DEF RequestInv
<1>1. /\ now \in Nat /\ now >= 1 /\ boundaryNS \in Nat /\ startup_boundary_ns \in Nat
      /\ phase \in [Request -> Phases]
      /\ stamp \in [Request -> Nat] /\ start_time_ns \in [Request -> Nat]
      /\ start \in [Request -> RequestState]
  BY DEF TypeOK, ClockTyped, RequestsTyped, Handshake
<1>2. UNCHANGED <<now, setup, boundaryNS, startup_boundary_ns, map_update_fail>>
  BY DEF Complete
<1>3. /\ phase[r] = "issued" /\ start_time_ns' = [start_time_ns EXCEPT ![r] = 0]
      /\ start' = IF CompleteAttached THEN [start EXCEPT ![r] = NoState] ELSE start
  BY DEF Complete
<1>4. \/ phase' = [phase EXCEPT ![r] = "completing"] /\ stamp' = [stamp EXCEPT ![r] = now]
      \/ phase' = [phase EXCEPT ![r] = "free"] /\ stamp' = stamp
  BY DEF Complete
<1>5. start'[r] = NoState
  BY <1>1, <1>3 DEF Recorded, IssueAttached, CompleteAttached
<1>6. \A q \in Request : start'[q] # NoState => q # r /\ start'[q] = start[q]
  BY <1>1, <1>3, <1>5
<1>7. Handshake'
  BY <1>2 DEF Handshake, IssueAttached
<1>8. Recorded'
  BY <1>1, <1>2, <1>4, <1>6 DEF Recorded, IssueAttached
<1>9. Stamped'
  BY <1>1, <1>2, <1>3, <1>4 DEF Stamped
<1>10. Unseen'
  <2>1. \A q \in Request : phase'[q] \in {"issued", "requeued"} /\ start'[q] = NoState =>
          phase'[q] = phase[q] /\ start[q] = NoState /\ start_time_ns'[q] = start_time_ns[q]
    BY <1>1, <1>3, <1>4
  <2> QED
    BY <1>2, <2>1 DEF Unseen, IssueAttached
<1>11. NoFalseMiss'
  <2>1. CASE start[r] = NoState /\ ProvableMiss(r)
    <3>1. startup_boundary_ns = boundaryNS /\ boundaryNS # 0 /\ IssueAttached
      BY <2>1 DEF ProvableMiss, Handshake
    <3>2. ~(start_time_ns[r] < boundaryNS)
      BY <1>1, <2>1, <3>1 DEF ProvableMiss
    <3>3. map_update_fail
      BY <1>3, <2>1, <3>1, <3>2 DEF Unseen
    <3> QED
      BY <1>2, <3>3, Zenon DEF NoFalseMiss
  <2>2. CASE ~(start[r] = NoState /\ ProvableMiss(r))
    <3>1. completion_miss' => completion_miss
      BY <2>2, Zenon DEF Complete
    <3> QED
      BY <1>2, <3>1, Zenon DEF NoFalseMiss
  <2> QED
    BY <2>1, <2>2
<1> QED
  BY <1>7, <1>8, <1>9, <1>10, <1>11

LEMMA RequestCompleteAccount ==
  ASSUME RequestInv, NEW r \in Request, CompleteAccount(r)
  PROVE  Handshake' /\ Recorded' /\ Stamped' /\ Unseen' /\ NoFalseMiss'
<1> USE DEF RequestInv
<1>1. phase \in [Request -> Phases] /\ stamp \in [Request -> Nat]
  BY DEF TypeOK, RequestsTyped
<1>2. UNCHANGED <<now, setup, boundaryNS, startup_boundary_ns, start_time_ns, start, completion_miss>>
  BY DEF CompleteAccount
<1>3. /\ phase[r] = "completing" /\ phase' = [phase EXCEPT ![r] = "free"]
      /\ stamp' = [stamp EXCEPT ![r] = 0]
  BY DEF CompleteAccount
<1>4. map_update_fail => map_update_fail'
  BY DEF CompleteAccount
<1>5. Handshake'
  BY <1>2 DEF Handshake, IssueAttached
<1>6. Recorded'
  BY <1>1, <1>2, <1>3 DEF Recorded, IssueAttached
<1>7. Stamped'
  BY <1>1, <1>2, <1>3 DEF Stamped
<1>8. Unseen'
  BY <1>1, <1>2, <1>3, <1>4 DEF Unseen, IssueAttached
<1>9. NoFalseMiss'
  BY <1>2, <1>4, Zenon DEF NoFalseMiss
<1> QED
  BY <1>5, <1>6, <1>7, <1>8, <1>9

LEMMA RequestPoll ==
  ASSUME RequestInv,
         PollStart \/ PollCommit \/ (\E d \in Device : PollLookup(d)) \/ UNCHANGED vars
  PROVE  Handshake' /\ Recorded' /\ Stamped' /\ Unseen' /\ NoFalseMiss'
<1>1. UNCHANGED <<now, setup, boundaryNS, startup_boundary_ns, kernelState, start, health>>
  BY DEF PollStart, PollCommit, PollLookup, vars
<1>2. Handshake' /\ Recorded' /\ Stamped' /\ Unseen'
  BY <1>1 DEF RequestInv, Handshake, Recorded, Stamped, Unseen, IssueAttached, kernelState, health
<1>3. NoFalseMiss'
  BY <1>1, Zenon DEF RequestInv, NoFalseMiss, health
<1> QED
  BY <1>2, <1>3

LEMMA RequestStep == RequestInv /\ [Next]_vars => RequestInv'
<1> SUFFICES ASSUME RequestInv, [Next]_vars PROVE RequestInv'
  OBVIOUS
<1>1. TypeOK'
  BY TypeStep DEF RequestInv
<1> SUFFICES Handshake' /\ Recorded' /\ Stamped' /\ Unseen' /\ NoFalseMiss'
  BY <1>1 DEF RequestInv
<1>2. CASE UNCHANGED vars
  BY <1>2, RequestPoll
<1>3. CASE Next
  BY <1>3, RequestSetup, RequestAllocate, RequestRequeue, RequestIssue, RequestIssueAccount,
     RequestComplete, RequestCompleteAccount, RequestPoll DEF Next
<1> QED
  BY <1>2, <1>3

(* A completion is called a miss only if a full map lost the state of some request: the
   boundary handle_complete compares with is read after the issue hook was attached, so
   every request allocated since was seen by handle_issue. *)
THEOREM MissesAreTrue == Spec => []NoFalseMiss
<1>1. RequestInv => NoFalseMiss
  BY DEF RequestInv
<1> QED
  BY <1>1, RequestInit, RequestStep, PTL DEF Spec

----------------------------------------------------------------------------
(* What each step does to the requests held and ending at a device, and to their sums. *)

BooksTyped == \A d \in Device :
  /\ Held(d) \subseteq Request /\ IsFiniteSet(Held(d)) /\ Ints(Firsts, Held(d))
  /\ Ending(d) \subseteq Request /\ IsFiniteSet(Ending(d)) /\ Ints(stamp, Ending(d))
  /\ FirstSum(d) \in Int /\ StampSum(d) \in Int
  /\ Cardinality(Held(d)) \in Nat /\ Cardinality(Ending(d)) \in Nat

LEMMA BooksType == TypeOK => BooksTyped
<1> SUFFICES ASSUME TypeOK, NEW d \in Device
             PROVE  /\ Held(d) \subseteq Request /\ IsFiniteSet(Held(d)) /\ Ints(Firsts, Held(d))
                    /\ Ending(d) \subseteq Request /\ IsFiniteSet(Ending(d)) /\ Ints(stamp, Ending(d))
                    /\ FirstSum(d) \in Int /\ StampSum(d) \in Int
                    /\ Cardinality(Held(d)) \in Nat /\ Cardinality(Ending(d)) \in Nat
  BY DEF BooksTyped
<1>1. Held(d) \subseteq Request /\ Ending(d) \subseteq Request
  BY DEF Held, Ending, InFlight, InPhase, OnDevice
<1>2. IsFiniteSet(Held(d)) /\ IsFiniteSet(Ending(d))
  BY <1>1, BlockAssumption, FS_Subset
<1>3. Ints(Firsts, Held(d)) /\ Ints(stamp, Ending(d))
  BY <1>1, RequestTypes DEF Ints, Firsts
<1> QED
  BY <1>1, <1>2, <1>3, TotalType, FS_CardinalityType DEF FirstSum, StampSum

\* Nothing changes for the requests held and ending at d.
Quiet(d) ==
  /\ Held(d)' = Held(d) /\ Ending(d)' = Ending(d)
  /\ \A r \in Held(d) : start'[r] = start[r]
  /\ FirstSum(d)' = FirstSum(d) /\ StampSum(d)' = StampSum(d)
  /\ trueArea'[d] = trueArea[d]

(* Steps that leave the books of d alone. *)
LEMMA QuietBy ==
  ASSUME TypeOK, NEW d \in Device, Held(d)' = Held(d), Ending(d)' = Ending(d),
         \A r \in Held(d) : start'[r] = start[r], \A r \in Ending(d) : stamp'[r] = stamp[r],
         trueArea'[d] = trueArea[d]
  PROVE  Quiet(d)
<1>1. BooksTyped
  BY BooksType
<1>2. FirstSum(d)' = FirstSum(d)
  <2>1. \A r \in Held(d) : Firsts[r] = Firsts'[r]
    BY <1>1 DEF Firsts, BooksTyped
  <2>2. Total(Firsts, Held(d)) = Total(Firsts', Held(d))
    BY <1>1, <2>1, TotalCong DEF BooksTyped
  <2> QED
    BY <2>2 DEF FirstSum
<1>3. StampSum(d)' = StampSum(d)
  <2>1. \A r \in Ending(d) : stamp[r] = stamp'[r]
    OBVIOUS
  <2>2. Total(stamp, Ending(d)) = Total(stamp', Ending(d))
    BY <1>1, <2>1, TotalCong DEF BooksTyped
  <2> QED
    BY <2>2 DEF StampSum
<1> QED
  BY <1>2, <1>3 DEF Quiet

LEMMA QuietOther ==
  ASSUME RequestInv, NEW d \in Device,
         \/ AttachComplete \/ AttachIssue \/ ReadBoundary \/ Arm \/ Tick
         \/ PollStart \/ PollCommit \/ (\E e \in Device : PollLookup(e)) \/ UNCHANGED vars
  PROVE  Quiet(d)
<1>1. UNCHANGED <<kernelState, start, trueArea>>
  BY DEF AttachComplete, AttachIssue, ReadBoundary, Arm, Tick, PollStart, PollCommit, PollLookup, vars
<1>2. Held(d)' = Held(d) /\ Ending(d)' = Ending(d)
  BY <1>1 DEF kernelState, Held, Ending, InFlight, InPhase
<1> QED
  BY <1>1, <1>2, QuietBy DEF RequestInv, kernelState

LEMMA QuietPhase ==
  ASSUME RequestInv, NEW d \in Device, NEW r \in Request, Allocate(r) \/ Requeue(r)
  PROVE  Quiet(d)
<1>1. UNCHANGED <<stamp, start, trueArea>>
  BY DEF Allocate, Requeue
<1>2. phase \in [Request -> Phases]
  BY DEF RequestInv, TypeOK, RequestsTyped
<1>3. \A q \in Request : (phase'[q] = "issuing" <=> phase[q] = "issuing")
                         /\ (phase'[q] = "completing" <=> phase[q] = "completing")
  BY <1>2 DEF Allocate, Requeue
<1>4. Held(d)' = Held(d) /\ Ending(d)' = Ending(d)
  BY <1>1, <1>3 DEF Held, Ending, InFlight, InPhase, OnDevice
<1> QED
  BY <1>1, <1>4, QuietBy DEF RequestInv

LEMMA QuietIssue ==
  ASSUME RequestInv, NEW d \in Device, NEW r \in Request, Issue(r)
  PROVE  Quiet(d)
<1> DEFINE armed == startup_boundary_ns # 0
           room == Cardinality(Started) < startRoom
           account == NewIssue(r) /\ room /\ armed
<1>1. /\ phase \in [Request -> Phases] /\ stamp \in [Request -> Nat]
      /\ start \in [Request -> RequestState]
  BY DEF RequestInv, TypeOK, RequestsTyped
<1>2. /\ start' = IF NewIssue(r) /\ room
                  THEN [start EXCEPT ![r] = [first_issue_ns |-> now, tracked |-> armed]]
                  ELSE start
      /\ phase' = [phase EXCEPT ![r] = IF account THEN "issuing" ELSE "issued"]
      /\ stamp' = [stamp EXCEPT ![r] = IF account THEN now ELSE 0]
      /\ phase[r] \in {"allocated", "requeued"} /\ trueArea' = trueArea
  BY DEF Issue
<1> HIDE DEF armed, room
<1>3. \A q \in Request \ {r} : phase'[q] = phase[q] /\ start'[q] = start[q] /\ stamp'[q] = stamp[q]
  BY <1>1, <1>2
<1>4. phase'[r] # "completing" /\ phase[r] # "completing"
  BY <1>1, <1>2
<1>5. (start'[r].tracked /\ phase'[r] # "issuing") <=> (start[r].tracked /\ phase[r] # "issuing")
  <2>1. CASE NewIssue(r) /\ room
    <3>1. start[r].tracked = FALSE
      BY <2>1 DEF NewIssue, NoState
    <3>2. start'[r].tracked = armed /\ (armed => phase'[r] = "issuing")
      BY <1>1, <1>2, <2>1
    <3> QED
      BY <3>1, <3>2
  <2>2. CASE ~(NewIssue(r) /\ room)
    BY <1>1, <1>2, <2>2
  <2> QED
    BY <2>1, <2>2
<1>6. start[r].tracked => start'[r] = start[r]
  BY <1>1, <1>2 DEF NewIssue, NoState
<1>7. Held(d)' = Held(d)
  BY <1>3, <1>5 DEF Held, InFlight, InPhase, OnDevice
<1>8. Ending(d)' = Ending(d)
  BY <1>3, <1>4 DEF Ending, InPhase, OnDevice
<1>9. \A q \in Held(d) : start'[q] = start[q]
  BY <1>3, <1>6 DEF Held, InFlight, OnDevice
<1>10. \A q \in Ending(d) : stamp'[q] = stamp[q]
  BY <1>3, <1>4 DEF Ending, InPhase, OnDevice
<1> QED
  BY <1>2, <1>7, <1>8, <1>9, <1>10, QuietBy DEF RequestInv

(* An accounted issue: r joins the requests held at its device. *)
LEMMA IssueBooks ==
  ASSUME RequestInv, NEW r \in Request, IssueAccount(r)
  PROVE  /\ start' = start /\ trueArea' = trueArea
         /\ \A d \in Device \ {DevOf[r]} : Quiet(d)
         /\ LET d == DevOf[r] IN
            /\ d \in Device
            /\ r \notin Held(d) /\ Held(d)' = Held(d) \cup {r} /\ Ending(d)' = Ending(d)
            /\ FirstSum(d)' = FirstSum(d) + stamp[r] /\ StampSum(d)' = StampSum(d)
<1> DEFINE d == DevOf[r]
<1>1. /\ phase \in [Request -> Phases] /\ stamp \in [Request -> Nat]
      /\ start \in [Request -> RequestState] /\ d \in Device /\ BooksTyped
  BY BlockAssumption, BooksType DEF RequestInv, TypeOK, RequestsTyped
<1>2. /\ start' = start /\ trueArea' = trueArea /\ phase[r] = "issuing"
      /\ phase' = [phase EXCEPT ![r] = "issued"] /\ stamp' = [stamp EXCEPT ![r] = 0]
  BY DEF IssueAccount
<1>3. start[r].tracked /\ stamp[r] = start[r].first_issue_ns
  BY <1>2 DEF RequestInv, Stamped
<1>4. \A e \in Device : Ending(e)' = Ending(e) /\ \A q \in Ending(e) : stamp'[q] = stamp[q]
  BY <1>1, <1>2 DEF Ending, InPhase, OnDevice
<1>5. ASSUME NEW e \in Device \ {d} PROVE Quiet(e)
  <2>1. Held(e)' = Held(e)
    BY <1>1, <1>2 DEF Held, InFlight, InPhase, OnDevice
  <2> QED
    BY <1>2, <1>4, <2>1, QuietBy DEF RequestInv
<1>6. r \notin Held(d) /\ Held(d)' = Held(d) \cup {r}
  BY <1>1, <1>2, <1>3 DEF Held, InFlight, InPhase, OnDevice
<1> HIDE DEF d
<1>7. FirstSum(d)' = FirstSum(d) + stamp[r]
  <2>1. Firsts' = Firsts /\ Firsts[r] = stamp[r]
    BY <1>2, <1>3 DEF Firsts
  <2>2. Ints(Firsts, Held(d) \cup {r}) /\ IsFiniteSet(Held(d))
    BY <1>1, <2>1 DEF Ints, BooksTyped
  <2>3. Total(Firsts, Held(d) \cup {r}) = stamp[r] + Total(Firsts, Held(d))
    BY <1>6, <2>1, <2>2, TotalAdd
  <2>4. FirstSum(d)' = stamp[r] + FirstSum(d)
    BY <1>6, <2>1, <2>3 DEF FirstSum
  <2>5. FirstSum(d) \in Int /\ stamp[r] \in Int
    BY <1>1 DEF BooksTyped
  <2> QED
    BY <2>4, <2>5
<1>8. StampSum(d)' = StampSum(d)
  <2>1. Total(stamp, Ending(d)) = Total(stamp', Ending(d))
    BY <1>1, <1>4, TotalCong DEF BooksTyped
  <2> QED
    BY <1>1, <1>4, <2>1 DEF StampSum
<1> QED
  BY <1>1, <1>2, <1>4, <1>5, <1>6, <1>7, <1>8 DEF d

(* A completion: a tracked request moves from the held to the ending ones. *)
LEMMA CompleteBooks ==
  ASSUME RequestInv, NEW r \in Request, Complete(r)
  PROVE  /\ \A d \in Device \ {DevOf[r]} : Quiet(d)
         /\ \A q \in Request \ {r} : start'[q] = start[q]
         /\ LET d == DevOf[r] IN
            /\ d \in Device
            /\ \/ Quiet(d)
               \/ /\ r \in Held(d) /\ Held(d)' = Held(d) \ {r}
                  /\ r \notin Ending(d) /\ Ending(d)' = Ending(d) \cup {r}
                  /\ FirstSum(d)' = FirstSum(d) - start[r].first_issue_ns
                  /\ StampSum(d)' = StampSum(d) + now
                  /\ trueArea'[d] = trueArea[d] + (now - start[r].first_issue_ns)
<1> DEFINE d == DevOf[r]
<1>1. /\ phase \in [Request -> Phases] /\ stamp \in [Request -> Nat] /\ now \in Nat
      /\ start \in [Request -> RequestState] /\ d \in Device /\ BooksTyped
      /\ trueArea \in [Device -> Int]
  BY BlockAssumption, BooksType DEF RequestInv, TypeOK, RequestsTyped, ClockTyped, HistoryTyped
<1>2. start[r] # NoState => CompleteAttached
  BY DEF RequestInv, Recorded, IssueAttached, CompleteAttached
<1>3. /\ phase[r] = "issued"
      /\ start' = IF CompleteAttached THEN [start EXCEPT ![r] = NoState] ELSE start
  BY DEF Complete
<1>4. \A q \in Request \ {r} : start'[q] = start[q]
  BY <1>1, <1>3
<1>5. CASE ~start[r].tracked
  <2>1. phase' = [phase EXCEPT ![r] = "free"] /\ stamp' = stamp /\ trueArea' = trueArea
    BY <1>5 DEF Complete
  <2>2. ~start'[r].tracked
    BY <1>1, <1>3, <1>5 DEF NoState
  <2>3. \A e \in Device : Quiet(e)
    <3> SUFFICES ASSUME NEW e \in Device PROVE Quiet(e)
      OBVIOUS
    <3>1. Held(e)' = Held(e) /\ Ending(e)' = Ending(e)
      BY <1>1, <1>3, <1>4, <1>5, <2>1, <2>2 DEF Held, Ending, InFlight, InPhase, OnDevice
    <3>2. \A q \in Held(e) : start'[q] = start[q]
      BY <1>4, <1>5 DEF Held, InFlight, OnDevice
    <3> QED
      BY <2>1, <3>1, <3>2, QuietBy DEF RequestInv
  <2> QED
    BY <1>1, <1>4, <2>3
<1>6. CASE start[r].tracked
  <2>1. start[r] # NoState
    BY <1>6 DEF NoState
  <2>2. /\ phase' = [phase EXCEPT ![r] = "completing"] /\ stamp' = [stamp EXCEPT ![r] = now]
        /\ trueArea' = [trueArea EXCEPT ![d] = @ + (now - start[r].first_issue_ns)]
        /\ start'[r] = NoState
    BY <1>1, <1>2, <1>3, <1>6, <2>1 DEF Complete
  <2>3. ASSUME NEW e \in Device \ {d} PROVE Quiet(e)
    <3>1. Held(e)' = Held(e) /\ Ending(e)' = Ending(e)
      BY <1>1, <1>4, <2>2 DEF Held, Ending, InFlight, InPhase, OnDevice
    <3>2. \A q \in Held(e) : start'[q] = start[q]
      BY <1>4 DEF Held, InFlight, OnDevice
    <3>3. \A q \in Ending(e) : stamp'[q] = stamp[q]
      BY <1>1, <2>2 DEF Ending, InPhase, OnDevice
    <3>4. trueArea'[e] = trueArea[e]
      BY <1>1, <2>2
    <3> QED
      BY <3>1, <3>2, <3>3, <3>4, QuietBy DEF RequestInv
  <2>4. r \in Held(d) /\ Held(d)' = Held(d) \ {r}
    <3>1. ~start'[r].tracked
      BY <2>2 DEF NoState
    <3> QED
      BY <1>1, <1>3, <1>4, <1>6, <2>2, <3>1 DEF Held, InFlight, InPhase, OnDevice
  <2>5. r \notin Ending(d) /\ Ending(d)' = Ending(d) \cup {r}
    BY <1>1, <1>3, <2>2 DEF Ending, InPhase, OnDevice
  <2>6. trueArea'[d] = trueArea[d] + (now - start[r].first_issue_ns)
    BY <1>1, <2>2
  <2> HIDE DEF d
  <2>7. FirstSum(d)' = FirstSum(d) - start[r].first_issue_ns
    <3>1. FirstSum(d) = Firsts[r] + Total(Firsts, Held(d) \ {r})
      BY <1>1, <2>4, TotalRemove DEF FirstSum, BooksTyped
    <3>2. IsFiniteSet(Held(d) \ {r}) /\ Ints(Firsts, Held(d) \ {r})
          /\ Held(d) \ {r} \subseteq Request
      BY <1>1, FS_RemoveElement DEF BooksTyped, Ints
    <3>3. \A q \in Held(d) \ {r} : Firsts[q] = Firsts'[q]
      BY <1>4, <3>2 DEF Firsts
    <3>4. Total(Firsts, Held(d) \ {r}) = Total(Firsts', Held(d) \ {r})
      BY <3>2, <3>3, TotalCong
    <3>5. FirstSum(d)' = Total(Firsts', Held(d) \ {r})
      BY <2>4 DEF FirstSum
    <3>6. FirstSum(d) \in Int /\ Total(Firsts, Held(d) \ {r}) \in Int
      BY <1>1, <3>2, TotalType DEF BooksTyped
    <3>7. Firsts[r] = start[r].first_issue_ns /\ start[r].first_issue_ns \in Int
      BY RequestTypes DEF RequestInv, Firsts
    <3> QED
      BY <3>1, <3>4, <3>5, <3>6, <3>7
  <2>8. StampSum(d)' = StampSum(d) + now
    <3>1. stamp'[r] = now /\ \A q \in Ending(d) : stamp[q] = stamp'[q]
      BY <1>1, <2>2, <2>5 DEF BooksTyped
    <3>2. IsFiniteSet(Ending(d)) /\ Ints(stamp, Ending(d)) /\ StampSum(d) \in Int
      BY <1>1 DEF BooksTyped
    <3>3. Ints(stamp', Ending(d) \cup {r})
      BY <1>1, <3>1, <3>2 DEF Ints
    <3>4. Total(stamp', Ending(d) \cup {r}) = now + Total(stamp', Ending(d))
      BY <2>5, <3>1, <3>2, <3>3, TotalAdd
    <3>5. Total(stamp, Ending(d)) = Total(stamp', Ending(d))
      BY <3>1, <3>2, TotalCong
    <3>6. StampSum(d)' = now + StampSum(d)
      BY <2>5, <3>4, <3>5 DEF StampSum
    <3> QED
      BY <1>1, <3>2, <3>6
  <2> QED
    BY <1>1, <1>4, <2>3, <2>4, <2>5, <2>6, <2>7, <2>8 DEF d
<1> QED
  BY <1>5, <1>6

(* An accounted completion: r leaves the ending ones. *)
LEMMA EndBooks ==
  ASSUME RequestInv, NEW r \in Request, CompleteAccount(r)
  PROVE  /\ start' = start /\ trueArea' = trueArea
         /\ \A d \in Device \ {DevOf[r]} : Quiet(d)
         /\ LET d == DevOf[r] IN
            /\ d \in Device
            /\ Held(d)' = Held(d) /\ r \in Ending(d) /\ Ending(d)' = Ending(d) \ {r}
            /\ FirstSum(d)' = FirstSum(d) /\ StampSum(d)' = StampSum(d) - stamp[r]
<1> DEFINE d == DevOf[r]
<1>1. /\ phase \in [Request -> Phases] /\ stamp \in [Request -> Nat]
      /\ start \in [Request -> RequestState] /\ d \in Device /\ BooksTyped
  BY BlockAssumption, BooksType DEF RequestInv, TypeOK, RequestsTyped
<1>2. /\ start' = start /\ trueArea' = trueArea /\ phase[r] = "completing"
      /\ phase' = [phase EXCEPT ![r] = "free"] /\ stamp' = [stamp EXCEPT ![r] = 0]
  BY DEF CompleteAccount
<1>3. \A e \in Device : Held(e)' = Held(e)
  BY <1>1, <1>2 DEF Held, InFlight, InPhase, OnDevice
<1>4. ASSUME NEW e \in Device \ {d} PROVE Quiet(e)
  <2>1. Ending(e)' = Ending(e) /\ \A q \in Ending(e) : stamp'[q] = stamp[q]
    BY <1>1, <1>2 DEF Ending, InPhase, OnDevice
  <2> QED
    BY <1>2, <1>3, <2>1, QuietBy DEF RequestInv
<1>5. r \in Ending(d) /\ Ending(d)' = Ending(d) \ {r}
  BY <1>1, <1>2 DEF Ending, InPhase, OnDevice
<1> HIDE DEF d
<1>6. FirstSum(d)' = FirstSum(d)
  BY <1>1, <1>2, <1>3 DEF FirstSum, Firsts
<1>7. StampSum(d)' = StampSum(d) - stamp[r]
  <2>1. StampSum(d) = stamp[r] + Total(stamp, Ending(d) \ {r})
    BY <1>1, <1>5, TotalRemove DEF StampSum, BooksTyped
  <2>2. IsFiniteSet(Ending(d) \ {r}) /\ Ints(stamp, Ending(d) \ {r})
        /\ Ending(d) \ {r} \subseteq Request
    BY <1>1, FS_RemoveElement DEF BooksTyped, Ints
  <2>3. \A q \in Ending(d) \ {r} : stamp[q] = stamp'[q]
    BY <1>1, <1>2, <2>2
  <2>4. Total(stamp, Ending(d) \ {r}) = Total(stamp', Ending(d) \ {r})
    BY <2>2, <2>3, TotalCong
  <2>5. StampSum(d)' = Total(stamp', Ending(d) \ {r})
    BY <1>5 DEF StampSum
  <2>6. Total(stamp, Ending(d) \ {r}) \in Int /\ stamp[r] \in Int
    BY <1>1, <2>2, TotalType
  <2> QED
    BY <2>1, <2>4, <2>5, <2>6
<1> QED
  BY <1>1, <1>2, <1>3, <1>4, <1>5, <1>6, <1>7 DEF d

----------------------------------------------------------------------------
(* The in-flight count.                                                    *)

LEMMA GaugeInit == Init => GaugeInv
<1> SUFFICES ASSUME Init PROVE GaugeInv
  OBVIOUS
<1>1. RequestInv
  BY RequestInit
<1>2. Entries
  BY DEF Init, Entries, Zero
<1>3. Gauge
  BY DEF Init, Gauge
<1>4. \A d \in Device : Held(d) = {} /\ Ending(d) = {} /\ trueArea[d] = 0
  BY DEF Init, Held, Ending, InFlight, InPhase, OnDevice, NoState, Zero
<1>5. Cardinality(devs) <= devRoom
  BY <1>1, FS_EmptySet DEF Init, RequestInv, TypeOK, DevicesTyped
<1> QED
  BY <1>1, <1>2, <1>3, <1>4, <1>5 DEF GaugeInv, Rooms

(* Steps that leave dev_stats and the books alone. *)
LEMMA GaugeQuiet ==
  ASSUME GaugeInv, \A d \in Device : Quiet(d), UNCHANGED devStats, now' \in Nat, now <= now'
  PROVE  Entries' /\ Rooms' /\ Gauge'
<1> USE DEF GaugeInv, devStats
<1>1. now \in Nat /\ devs \subseteq Device /\ queue_last_ns \in [Device -> Nat]
  BY DEF RequestInv, TypeOK, ClockTyped, DevicesTyped
<1>2. Entries'
  BY <1>1 DEF Entries
<1>3. Rooms'
  BY DEF Rooms, Quiet
<1>4. Gauge'
  BY <1>1 DEF Gauge, Quiet
<1> QED
  BY <1>2, <1>3, <1>4

LEMMA GaugeOther ==
  ASSUME GaugeInv,
         \/ AttachComplete \/ AttachIssue \/ ReadBoundary \/ Arm \/ Tick
         \/ PollStart \/ PollCommit \/ (\E e \in Device : PollLookup(e)) \/ UNCHANGED vars
         \/ \E r \in Request : Allocate(r) \/ Requeue(r) \/ Issue(r)
  PROVE  (\A d \in Device : Quiet(d)) /\ UNCHANGED devStats /\ now' \in Nat /\ now <= now'
<1>1. \A d \in Device : Quiet(d)
  BY QuietOther, QuietPhase, QuietIssue DEF GaugeInv
<1>2. now \in Nat
  BY DEF GaugeInv, RequestInv, TypeOK, ClockTyped
<1>3. UNCHANGED devStats
  BY DEF AttachComplete, AttachIssue, ReadBoundary, Arm, Tick, PollStart, PollCommit, PollLookup,
         vars, Allocate, Requeue, Issue
<1>4. now' \in Nat /\ now <= now'
  BY <1>2 DEF AttachComplete, AttachIssue, ReadBoundary, Arm, Tick, PollStart, PollCommit,
              PollLookup, vars, Allocate, Requeue, Issue
<1> QED
  BY <1>1, <1>3, <1>4

(* The two outcomes of handle_issue at the device. *)
LEMMA IssueOutcomes ==
  ASSUME GaugeInv, NEW r \in Request, IssueAccount(r)
  PROVE  /\ stamp[r] \in 1..now /\ now \in Nat
         /\ UNCHANGED <<now, devRoom, shownUpTo, pollVars, reported>>
         /\ LET d == DevOf[r] IN
            \/ /\ devs' = devs \cup {d} /\ Cardinality(devs \cup {d}) <= devRoom
               /\ queue_area_ns' = [queue_area_ns EXCEPT ![d] = Area(d, stamp[r])]
               /\ queue_last_ns' = [queue_last_ns EXCEPT ![d] = stamp[r]]
               /\ inflight' = [inflight EXCEPT ![d] = @ + 1]
               /\ overtaken' = Overtakes(d, stamp[r])
            \/ /\ d \notin devs /\ Cardinality(devs \cup {d}) > devRoom
               /\ UNCHANGED <<devs, queue_area_ns, queue_last_ns, inflight, overtaken>>
<1> DEFINE d == DevOf[r]
<1>1. now \in Nat
  BY DEF GaugeInv, RequestInv, TypeOK, ClockTyped
<1>2. start[r].tracked /\ stamp[r] = start[r].first_issue_ns
  BY DEF IssueAccount, GaugeInv, RequestInv, Stamped
<1>3. start[r] # NoState
  BY <1>2 DEF NoState
<1>4. stamp[r] \in 1..now
  BY <1>2, <1>3 DEF GaugeInv, RequestInv, Recorded
<1>5. d \in devs => devs \cup {d} = devs
  OBVIOUS
<1>6. Cardinality(devs) <= devRoom /\ devRoom \in Nat /\ IsFiniteSet(devs) /\ Cardinality(devs) \in Nat
  BY BlockAssumption, FS_Subset, FS_CardinalityType
  DEF GaugeInv, RequestInv, Rooms, TypeOK, DevicesTyped
<1>7. Cardinality(devs \cup {d}) > devRoom => d \notin devs
  BY <1>5, <1>6
<1>8. UNCHANGED <<now, devRoom, shownUpTo, pollVars, reported>>
  BY DEF IssueAccount
<1> QED
  BY <1>1, <1>4, <1>7, <1>8 DEF IssueAccount

LEMMA EndOutcomes ==
  ASSUME GaugeInv, NEW r \in Request, CompleteAccount(r)
  PROVE  /\ stamp[r] \in 1..now /\ now \in Nat
         /\ UNCHANGED <<now, devs, devRoom, shownUpTo, pollVars, reported>>
         /\ LET d == DevOf[r] IN
            \/ /\ d \in devs /\ inflight[d] > 0
               /\ queue_area_ns' = [queue_area_ns EXCEPT ![d] = Area(d, stamp[r])]
               /\ queue_last_ns' = [queue_last_ns EXCEPT ![d] = stamp[r]]
               /\ inflight' = [inflight EXCEPT ![d] = @ - 1]
               /\ overtaken' = Overtakes(d, stamp[r])
            \/ /\ d \notin devs
               /\ UNCHANGED <<queue_area_ns, queue_last_ns, inflight, overtaken>>
<1> DEFINE d == DevOf[r]
<1>1. now \in Nat /\ d \in Device /\ inflight \in [Device -> Nat]
  BY BlockAssumption DEF GaugeInv, RequestInv, TypeOK, ClockTyped, DevicesTyped
<1>2. stamp[r] \in 1..now
  BY DEF CompleteAccount, GaugeInv, RequestInv, Stamped
<1>3. ASSUME d \in devs PROVE inflight[d] > 0
  <2>1. r \in Ending(d) /\ IsFiniteSet(Ending(d)) /\ Cardinality(Held(d)) \in Nat
        /\ Cardinality(Ending(d)) \in Nat
    BY <1>1, EndBooks, BooksType DEF GaugeInv, RequestInv, BooksTyped
  <2>2. Cardinality(Ending(d)) # 0
    BY <2>1, FS_EmptySet
  <2> QED
    BY <1>3, <2>1, <2>2 DEF GaugeInv, Gauge
<1>4. UNCHANGED <<now, devs, devRoom, shownUpTo, pollVars, reported>>
  BY DEF CompleteAccount
<1>5. d \in devs => Decremented(inflight[d]) = inflight[d] - 1
  BY <1>1, <1>3 DEF Decremented
<1> QED
  BY <1>1, <1>2, <1>3, <1>4, <1>5 DEF CompleteAccount

LEMMA GaugeIssue ==
  ASSUME GaugeInv, NEW r \in Request, NEW d \in Device, d = DevOf[r], IssueAccount(r)
  PROVE  Entries' /\ Rooms' /\ Gauge'
<1>1. /\ d \in Device /\ devs \subseteq Device /\ IsFiniteSet(devs) /\ devRoom \in Nat
      /\ inflight \in [Device -> Nat] /\ queue_area_ns \in [Device -> Nat]
      /\ queue_last_ns \in [Device -> Nat] /\ BooksTyped
  BY BlockAssumption, FS_Subset, BooksType DEF GaugeInv, RequestInv, TypeOK, DevicesTyped
<1>2. /\ stamp[r] \in 1..now /\ now \in Nat /\ UNCHANGED <<now, devRoom>>
      /\ \A e \in Device \ {d} : Quiet(e)
      /\ r \notin Held(d) /\ Held(d)' = Held(d) \cup {r} /\ Ending(d)' = Ending(d)
  BY IssueOutcomes, IssueBooks DEF GaugeInv
<1>3. CASE /\ devs' = devs \cup {d} /\ Cardinality(devs \cup {d}) <= devRoom
           /\ queue_area_ns' = [queue_area_ns EXCEPT ![d] = Area(d, stamp[r])]
           /\ queue_last_ns' = [queue_last_ns EXCEPT ![d] = stamp[r]]
           /\ inflight' = [inflight EXCEPT ![d] = @ + 1]
  <2>1. Entries'
    <3> SUFFICES ASSUME NEW e \in Device
                 PROVE  IF e \in devs' THEN queue_last_ns'[e] \in 1..now
                        ELSE queue_last_ns'[e] = 0 /\ queue_area_ns'[e] = 0 /\ inflight'[e] = 0
      BY <1>2 DEF Entries
    <3>1. CASE e = d
      BY <1>1, <1>2, <1>3, <3>1
    <3>2. CASE e # d
      BY <1>1, <1>2, <1>3, <3>2 DEF GaugeInv, Entries
    <3> QED
      BY <3>1, <3>2
  <2>2. Rooms'
    <3>1. Cardinality(devs') <= devRoom'
      BY <1>2, <1>3
    <3>2. ASSUME NEW e \in Device \ devs', Cardinality(devs' \cup {e}) <= devRoom'
          PROVE  Held(e)' = {} /\ Ending(e)' = {} /\ trueArea'[e] = 0
      <4>1. e # d /\ e \in Device \ devs
        BY <1>3
      <4>2. IsFiniteSet(devs' \cup {e}) /\ devs \cup {e} \subseteq devs' \cup {e}
        BY <1>1, <1>3, FS_AddElement
      <4>3. /\ Cardinality(devs \cup {e}) <= Cardinality(devs' \cup {e})
            /\ Cardinality(devs \cup {e}) \in Nat /\ Cardinality(devs' \cup {e}) \in Nat
        BY <4>2, FS_Subset, FS_CardinalityType
      <4>4. Cardinality(devs \cup {e}) <= devRoom
        BY <1>1, <1>2, <3>2, <4>3
      <4> QED
        BY <1>2, <4>1, <4>4 DEF GaugeInv, Rooms, Quiet
    <3> QED
      BY <3>1, <3>2 DEF Rooms
  <2>3. Gauge'
    <3> SUFFICES ASSUME NEW e \in devs'
                 PROVE  inflight'[e] = Cardinality(Held(e)') + Cardinality(Ending(e)')
      BY DEF Gauge
    <3>1. CASE e # d
      BY <1>1, <1>2, <1>3, <3>1 DEF GaugeInv, Gauge, Quiet
    <3>2. CASE e = d
      <4>1. inflight[d] = Cardinality(Held(d)) + Cardinality(Ending(d))
        <5>1. CASE d \in devs
          BY <5>1 DEF GaugeInv, Gauge
        <5>2. CASE d \notin devs
          <6>1. inflight[d] = 0 /\ Held(d) = {} /\ Ending(d) = {}
            BY <1>1, <1>3, <5>2 DEF GaugeInv, Entries, Rooms
          <6> QED
            BY <6>1, FS_EmptySet
        <5> QED
          BY <5>1, <5>2
      <4>2. Cardinality(Held(d) \cup {r}) = Cardinality(Held(d)) + 1
        BY <1>1, <1>2, FS_AddElement DEF BooksTyped
      <4>3. Cardinality(Held(d)) \in Nat /\ Cardinality(Ending(d)) \in Nat
        BY <1>1 DEF BooksTyped
      <4>4. inflight'[d] = inflight[d] + 1
        BY <1>1, <1>3
      <4> QED
        BY <1>2, <3>2, <4>1, <4>2, <4>3, <4>4
    <3> QED
      BY <3>1, <3>2
  <2> QED
    BY <2>1, <2>2, <2>3
<1>4. CASE /\ d \notin devs /\ Cardinality(devs \cup {d}) > devRoom
           /\ UNCHANGED <<devs, queue_area_ns, queue_last_ns, inflight>>
  <2>1. Entries'
    BY <1>2, <1>4 DEF GaugeInv, Entries
  <2>2. Rooms'
    <3>1. Cardinality(devs) <= devRoom /\ Cardinality(devs \cup {d}) \in Nat
      BY <1>1, FS_AddElement, FS_CardinalityType DEF GaugeInv, Rooms
    <3>2. ASSUME NEW e \in Device \ devs, Cardinality(devs \cup {e}) <= devRoom
          PROVE  Held(e)' = {} /\ Ending(e)' = {} /\ trueArea'[e] = 0
      <4>1. e # d
        BY <1>1, <1>4, <3>1, <3>2
      <4> QED
        BY <1>2, <3>2, <4>1 DEF GaugeInv, Rooms, Quiet
    <3> QED
      BY <1>2, <1>4, <3>1, <3>2 DEF Rooms
  <2>3. Gauge'
    BY <1>1, <1>2, <1>4 DEF GaugeInv, Gauge, Quiet
  <2> QED
    BY <2>1, <2>2, <2>3
<1> QED
  BY <1>3, <1>4, IssueOutcomes

LEMMA GaugeComplete ==
  ASSUME GaugeInv, NEW r \in Request, NEW d \in Device, d = DevOf[r], Complete(r)
  PROVE  Entries' /\ Rooms' /\ Gauge'
<1>1. UNCHANGED <<now, devStats>>
  BY DEF Complete
<1>2. /\ now \in Nat /\ d \in Device /\ devs \subseteq Device /\ BooksTyped
  BY BlockAssumption, BooksType DEF GaugeInv, RequestInv, TypeOK, ClockTyped, DevicesTyped
<1>3. CASE \A e \in Device : Quiet(e)
  BY <1>1, <1>2, <1>3, GaugeQuiet
<1>4. CASE /\ \A e \in Device \ {d} : Quiet(e)
           /\ r \in Held(d) /\ Held(d)' = Held(d) \ {r}
           /\ r \notin Ending(d) /\ Ending(d)' = Ending(d) \cup {r}
  <2> USE DEF devStats
  <2>1. Entries'
    BY <1>1 DEF GaugeInv, Entries
  <2>2. Rooms'
    <3>1. ASSUME NEW e \in Device \ devs, Cardinality(devs \cup {e}) <= devRoom
          PROVE  Held(e)' = {} /\ Ending(e)' = {} /\ trueArea'[e] = 0
      <4>1. e # d
        BY <1>4, <3>1 DEF GaugeInv, Rooms
      <4> QED
        BY <1>4, <3>1, <4>1 DEF GaugeInv, Rooms, Quiet
    <3> QED
      BY <1>1, <3>1 DEF GaugeInv, Rooms
  <2>3. Gauge'
    <3> SUFFICES ASSUME NEW e \in devs
                 PROVE  inflight[e] = Cardinality(Held(e)') + Cardinality(Ending(e)')
      BY <1>1 DEF Gauge
    <3>1. CASE e # d
      BY <1>2, <1>4, <3>1 DEF GaugeInv, Gauge, Quiet
    <3>2. CASE e = d
      <4>1. Cardinality(Held(d) \ {r}) = Cardinality(Held(d)) - 1
        BY <1>2, <1>4, FS_RemoveElement DEF BooksTyped
      <4>2. Cardinality(Ending(d) \cup {r}) = Cardinality(Ending(d)) + 1
        BY <1>2, <1>4, FS_AddElement DEF BooksTyped
      <4>3. Cardinality(Held(d)) \in Nat /\ Cardinality(Ending(d)) \in Nat
        BY <1>2 DEF BooksTyped
      <4>4. inflight[d] = Cardinality(Held(d)) + Cardinality(Ending(d))
        BY <3>2 DEF GaugeInv, Gauge
      <4>5. /\ Cardinality(Held(d)') = Cardinality(Held(d) \ {r})
            /\ Cardinality(Ending(d)') = Cardinality(Ending(d) \cup {r})
        BY <1>4, Zenon
      <4> QED
        BY <3>2, <4>1, <4>2, <4>3, <4>4, <4>5
    <3> QED
      BY <3>1, <3>2
  <2> QED
    BY <2>1, <2>2, <2>3
<1> QED
  BY <1>2, <1>3, <1>4, CompleteBooks DEF GaugeInv

LEMMA GaugeEnd ==
  ASSUME GaugeInv, NEW r \in Request, NEW d \in Device, d = DevOf[r], CompleteAccount(r)
  PROVE  Entries' /\ Rooms' /\ Gauge'
<1>1. /\ d \in Device /\ devs \subseteq Device /\ BooksTyped
      /\ inflight \in [Device -> Nat] /\ queue_area_ns \in [Device -> Nat]
      /\ queue_last_ns \in [Device -> Nat]
  BY BlockAssumption, BooksType DEF GaugeInv, RequestInv, TypeOK, DevicesTyped
<1>2. /\ stamp[r] \in 1..now /\ now \in Nat /\ UNCHANGED <<now, devs, devRoom>>
      /\ \A e \in Device \ {d} : Quiet(e)
      /\ r \in Ending(d) /\ Held(d)' = Held(d) /\ Ending(d)' = Ending(d) \ {r}
  BY EndOutcomes, EndBooks DEF GaugeInv
<1>3. Rooms'
  <2>1. ASSUME NEW e \in Device \ devs, Cardinality(devs \cup {e}) <= devRoom
        PROVE  Held(e)' = {} /\ Ending(e)' = {} /\ trueArea'[e] = 0
    <3>1. e # d
      BY <1>2, <2>1 DEF GaugeInv, Rooms
    <3> QED
      BY <1>2, <2>1, <3>1 DEF GaugeInv, Rooms, Quiet
  <2> QED
    BY <1>2, <2>1 DEF GaugeInv, Rooms
<1>4. CASE /\ d \in devs /\ inflight[d] > 0
           /\ queue_area_ns' = [queue_area_ns EXCEPT ![d] = Area(d, stamp[r])]
           /\ queue_last_ns' = [queue_last_ns EXCEPT ![d] = stamp[r]]
           /\ inflight' = [inflight EXCEPT ![d] = @ - 1]
  <2>1. Entries'
    <3> SUFFICES ASSUME NEW e \in Device
                 PROVE  IF e \in devs THEN queue_last_ns'[e] \in 1..now
                        ELSE queue_last_ns'[e] = 0 /\ queue_area_ns'[e] = 0 /\ inflight'[e] = 0
      BY <1>2 DEF Entries
    <3>1. CASE e = d
      BY <1>1, <1>2, <1>4, <3>1
    <3>2. CASE e # d
      BY <1>1, <1>2, <1>4, <3>2 DEF GaugeInv, Entries
    <3> QED
      BY <3>1, <3>2
  <2>2. Gauge'
    <3> SUFFICES ASSUME NEW e \in devs
                 PROVE  inflight'[e] = Cardinality(Held(e)') + Cardinality(Ending(e)')
      BY <1>2 DEF Gauge
    <3>1. CASE e # d
      BY <1>1, <1>2, <1>4, <3>1 DEF GaugeInv, Gauge, Quiet
    <3>2. CASE e = d
      <4>1. Cardinality(Ending(d) \ {r}) = Cardinality(Ending(d)) - 1
        BY <1>1, <1>2, FS_RemoveElement DEF BooksTyped
      <4>2. Cardinality(Held(d)) \in Nat /\ Cardinality(Ending(d)) \in Nat
        BY <1>1 DEF BooksTyped
      <4>3. inflight[d] = Cardinality(Held(d)) + Cardinality(Ending(d))
        BY <1>4 DEF GaugeInv, Gauge
      <4>4. inflight'[d] = inflight[d] - 1
        BY <1>1, <1>4
      <4>5. /\ Cardinality(Held(d)') = Cardinality(Held(d))
            /\ Cardinality(Ending(d)') = Cardinality(Ending(d) \ {r})
        BY <1>2, Zenon
      <4> QED
        BY <3>2, <4>1, <4>2, <4>3, <4>4, <4>5
    <3> QED
      BY <3>1, <3>2
  <2> QED
    BY <1>3, <2>1, <2>2
<1>5. CASE d \notin devs /\ UNCHANGED <<queue_area_ns, queue_last_ns, inflight>>
  <2>1. Entries'
    BY <1>2, <1>5 DEF GaugeInv, Entries
  <2>2. Gauge'
    BY <1>1, <1>2, <1>5 DEF GaugeInv, Gauge, Quiet
  <2> QED
    BY <1>3, <2>1, <2>2
<1> QED
  BY <1>4, <1>5, EndOutcomes

LEMMA GaugeStep == GaugeInv /\ [Next]_vars => GaugeInv'
<1> SUFFICES ASSUME GaugeInv, [Next]_vars PROVE GaugeInv'
  OBVIOUS
<1>1. RequestInv'
  BY RequestStep DEF GaugeInv
<1> SUFFICES Entries' /\ Rooms' /\ Gauge'
  BY <1>1 DEF GaugeInv
<1>2. CASE UNCHANGED vars
  BY <1>2, GaugeOther, GaugeQuiet
<1>3. CASE AttachComplete \/ AttachIssue \/ ReadBoundary \/ Arm \/ Tick
           \/ PollStart \/ PollCommit \/ (\E e \in Device : PollLookup(e))
           \/ \E r \in Request : Allocate(r) \/ Requeue(r) \/ Issue(r)
  BY <1>3, GaugeOther, GaugeQuiet
<1>4. ASSUME NEW r \in Request, IssueAccount(r) \/ Complete(r) \/ CompleteAccount(r)
      PROVE  Entries' /\ Rooms' /\ Gauge'
  <2>1. DevOf[r] \in Device
    BY BlockAssumption
  <2> QED
    BY <1>4, <2>1, GaugeIssue, GaugeComplete, GaugeEnd
<1> QED
  BY <1>2, <1>3, <1>4 DEF Next

(* The gauge counts the tracked requests the driver has and the completions not yet
   accounted, whatever was issued before the hooks, requeued or refused by a full map. *)
THEOREM GaugeIsRight == Spec => []InflightConserved
<1>1. GaugeInv => InflightConserved
  BY DEF GaugeInv, Gauge, InflightConserved, Held, Ending
<1> QED
  BY <1>1, GaugeInit, GaugeStep, PTL DEF Spec

----------------------------------------------------------------------------
(* The queue area.                                                         *)

LEMMA IssueArith == \A a, l, i, s \in Int : (a + (s - l) * i) - s * (i + 1) = (a - l * i) - s
OBVIOUS

(* An event not older than the last one adds the whole stretch since then. *)
LEMMA AreaIs ==
  ASSUME GaugeInv, NEW d \in Device, NEW at \in Nat, queue_last_ns[d] <= at
  PROVE  Area(d, at) = queue_area_ns[d] + (at - queue_last_ns[d]) * inflight[d]
<1>1. queue_last_ns[d] \in Nat /\ queue_area_ns[d] \in Nat /\ inflight[d] \in Nat
      /\ devs \subseteq Device /\ now \in Nat
  BY DEF GaugeInv, RequestInv, TypeOK, DevicesTyped, ClockTyped
<1>2. queue_last_ns[d] = 0 => inflight[d] = 0
  BY <1>1 DEF GaugeInv, Entries
<1>3. inflight[d] = 0 \/ at = queue_last_ns[d] => (at - queue_last_ns[d]) * inflight[d] = 0
  BY <1>1
<1> QED
  BY <1>1, <1>2, <1>3 DEF Area

LEMMA AreaInit == Init => AreaInv
BY GaugeInit DEF Init, AreaInv, AreaKept

LEMMA AreaQuiet ==
  ASSUME AreaInv, \A d \in Device : Quiet(d), UNCHANGED <<devStats, overtaken>>
  PROVE  AreaKept'
BY DEF AreaInv, AreaKept, Quiet, devStats, GaugeInv, RequestInv, TypeOK, DevicesTyped

LEMMA AreaIssue ==
  ASSUME AreaInv, NEW r \in Request, NEW d \in Device, d = DevOf[r], IssueAccount(r)
  PROVE  AreaKept'
<1>1. /\ stamp[r] \in Nat /\ inflight \in [Device -> Nat] /\ queue_area_ns \in [Device -> Nat]
      /\ queue_last_ns \in [Device -> Nat] /\ BooksTyped /\ devs \subseteq Device
      /\ trueArea \in [Device -> Int]
  BY BooksType DEF AreaInv, GaugeInv, RequestInv, TypeOK, DevicesTyped, RequestsTyped, HistoryTyped
<1>2. /\ trueArea' = trueArea /\ \A e \in Device \ {d} : Quiet(e)
      /\ FirstSum(d)' = FirstSum(d) + stamp[r] /\ StampSum(d)' = StampSum(d)
  BY IssueBooks DEF AreaInv, GaugeInv
<1>3. CASE /\ devs' = devs \cup {d} /\ Cardinality(devs \cup {d}) <= devRoom
           /\ queue_area_ns' = [queue_area_ns EXCEPT ![d] = Area(d, stamp[r])]
           /\ queue_last_ns' = [queue_last_ns EXCEPT ![d] = stamp[r]]
           /\ inflight' = [inflight EXCEPT ![d] = @ + 1]
           /\ overtaken' = Overtakes(d, stamp[r])
  <2> SUFFICES ASSUME NEW e \in devs' \ overtaken'
               PROVE  queue_area_ns'[e] - queue_last_ns'[e] * inflight'[e]
                        = trueArea'[e] - FirstSum(e)' - StampSum(e)'
    BY DEF AreaKept
  <2>1. e \in Device /\ e \notin overtaken
    BY <1>1, <1>3 DEF Overtakes
  <2>2. CASE e # d
    BY <1>1, <1>2, <1>3, <2>1, <2>2 DEF AreaInv, AreaKept, Quiet
  <2>3. CASE e = d
    <3>1. queue_last_ns[d] <= stamp[r]
      BY <1>1, <1>3, <2>3 DEF Overtakes
    <3>2. Area(d, stamp[r]) = queue_area_ns[d] + (stamp[r] - queue_last_ns[d]) * inflight[d]
      BY <1>1, <3>1, AreaIs DEF AreaInv
    <3>3. queue_area_ns[d] - queue_last_ns[d] * inflight[d] = trueArea[d] - FirstSum(d) - StampSum(d)
      <4>1. CASE d \in devs
        BY <2>1, <2>3, <4>1 DEF AreaInv, AreaKept
      <4>2. CASE d \notin devs
        <5>1. queue_last_ns[d] = 0 /\ queue_area_ns[d] = 0 /\ inflight[d] = 0
          BY <4>2 DEF AreaInv, GaugeInv, Entries
        <5>2. Held(d) = {} /\ Ending(d) = {} /\ trueArea[d] = 0
          BY <1>3, <4>2 DEF AreaInv, GaugeInv, Rooms
        <5>3. FirstSum(d) = 0 /\ StampSum(d) = 0
          BY <5>2, TotalEmpty DEF FirstSum, StampSum
        <5> QED
          BY <5>1, <5>2, <5>3
      <4> QED
        BY <4>1, <4>2
    <3>4. (queue_area_ns[d] + (stamp[r] - queue_last_ns[d]) * inflight[d])
            - stamp[r] * (inflight[d] + 1)
          = (queue_area_ns[d] - queue_last_ns[d] * inflight[d]) - stamp[r]
      <4>1. /\ queue_area_ns[d] \in Int /\ queue_last_ns[d] \in Int
            /\ inflight[d] \in Int /\ stamp[r] \in Int
        BY <1>1
      <4> QED
        BY <4>1, IssueArith
    <3>5. /\ queue_area_ns'[d] = Area(d, stamp[r]) /\ queue_last_ns'[d] = stamp[r]
          /\ inflight'[d] = inflight[d] + 1
      BY <1>1, <1>3
    <3>6. FirstSum(d) \in Int /\ StampSum(d) \in Int /\ trueArea[d] \in Int
      BY <1>1 DEF BooksTyped
    <3>7. trueArea[d] - (FirstSum(d) + stamp[r]) - StampSum(d)
            = (trueArea[d] - FirstSum(d) - StampSum(d)) - stamp[r]
      BY <1>1, <3>6
    <3>8. queue_area_ns'[d] - queue_last_ns'[d] * inflight'[d]
            = trueArea'[d] - FirstSum(d)' - StampSum(d)'
      BY <1>2, <3>2, <3>3, <3>4, <3>5, <3>7
    <3> QED
      BY <2>3, <3>8
  <2> QED
    BY <2>2, <2>3
<1>4. CASE /\ d \notin devs /\ Cardinality(devs \cup {d}) > devRoom
           /\ UNCHANGED <<devs, queue_area_ns, queue_last_ns, inflight, overtaken>>
  BY <1>1, <1>2, <1>4 DEF AreaInv, AreaKept, Quiet
<1> QED
  BY <1>3, <1>4, IssueOutcomes DEF AreaInv

LEMMA AreaComplete ==
  ASSUME AreaInv, NEW r \in Request, NEW d \in Device, d = DevOf[r], Complete(r)
  PROVE  AreaKept'
<1>1. UNCHANGED <<devStats, overtaken>>
  BY DEF Complete
<1>2. /\ now \in Nat /\ BooksTyped /\ devs \subseteq Device /\ trueArea \in [Device -> Int]
      /\ start[r].first_issue_ns \in Int
  BY BooksType, RequestTypes
  DEF AreaInv, GaugeInv, RequestInv, TypeOK, ClockTyped, DevicesTyped, HistoryTyped
<1>3. CASE \A e \in Device : Quiet(e)
  BY <1>1, <1>3, AreaQuiet
<1>4. CASE /\ \A e \in Device \ {d} : Quiet(e)
           /\ FirstSum(d)' = FirstSum(d) - start[r].first_issue_ns
           /\ StampSum(d)' = StampSum(d) + now
           /\ trueArea'[d] = trueArea[d] + (now - start[r].first_issue_ns)
  <2> SUFFICES ASSUME NEW e \in devs \ overtaken
               PROVE  queue_area_ns[e] - queue_last_ns[e] * inflight[e]
                        = trueArea'[e] - FirstSum(e)' - StampSum(e)'
    BY <1>1 DEF AreaKept, devStats
  <2>1. CASE e # d
    BY <1>2, <1>4, <2>1 DEF AreaInv, AreaKept, Quiet
  <2>2. CASE e = d
    <3>1. FirstSum(d) \in Int /\ StampSum(d) \in Int /\ trueArea[d] \in Int
      BY <1>2 DEF BooksTyped
    <3>2. trueArea'[d] - FirstSum(d)' - StampSum(d)' = trueArea[d] - FirstSum(d) - StampSum(d)
      BY <1>2, <1>4, <3>1
    <3> QED
      BY <2>2, <3>2 DEF AreaInv, AreaKept
  <2> QED
    BY <2>1, <2>2
<1> QED
  BY <1>3, <1>4, CompleteBooks DEF AreaInv, GaugeInv

LEMMA AreaEnd ==
  ASSUME AreaInv, NEW r \in Request, NEW d \in Device, d = DevOf[r], CompleteAccount(r)
  PROVE  AreaKept'
<1>1. /\ stamp[r] \in Nat /\ inflight \in [Device -> Nat] /\ queue_area_ns \in [Device -> Nat]
      /\ queue_last_ns \in [Device -> Nat] /\ BooksTyped /\ devs \subseteq Device
      /\ trueArea \in [Device -> Int]
  BY BooksType DEF AreaInv, GaugeInv, RequestInv, TypeOK, DevicesTyped, RequestsTyped, HistoryTyped
<1>2. /\ trueArea' = trueArea /\ devs' = devs /\ \A e \in Device \ {d} : Quiet(e)
      /\ FirstSum(d)' = FirstSum(d) /\ StampSum(d)' = StampSum(d) - stamp[r]
  BY EndBooks, EndOutcomes DEF AreaInv, GaugeInv
<1>3. CASE /\ d \in devs /\ inflight[d] > 0
           /\ queue_area_ns' = [queue_area_ns EXCEPT ![d] = Area(d, stamp[r])]
           /\ queue_last_ns' = [queue_last_ns EXCEPT ![d] = stamp[r]]
           /\ inflight' = [inflight EXCEPT ![d] = @ - 1]
           /\ overtaken' = Overtakes(d, stamp[r])
  <2> SUFFICES ASSUME NEW e \in devs \ overtaken'
               PROVE  queue_area_ns'[e] - queue_last_ns'[e] * inflight'[e]
                        = trueArea'[e] - FirstSum(e)' - StampSum(e)'
    BY <1>2 DEF AreaKept
  <2>1. e \in Device /\ e \notin overtaken
    BY <1>1, <1>3 DEF Overtakes
  <2>2. CASE e # d
    BY <1>1, <1>2, <1>3, <2>1, <2>2 DEF AreaInv, AreaKept, Quiet
  <2>3. CASE e = d
    <3>1. queue_last_ns[d] <= stamp[r]
      BY <1>1, <1>3, <2>3 DEF Overtakes
    <3>2. Area(d, stamp[r]) = queue_area_ns[d] + (stamp[r] - queue_last_ns[d]) * inflight[d]
      BY <1>1, <3>1, AreaIs DEF AreaInv
    <3>3. queue_area_ns[d] - queue_last_ns[d] * inflight[d] = trueArea[d] - FirstSum(d) - StampSum(d)
      BY <2>1, <2>3 DEF AreaInv, AreaKept
    <3>4. (queue_area_ns[d] + (stamp[r] - queue_last_ns[d]) * inflight[d])
            - stamp[r] * (inflight[d] - 1)
          = (queue_area_ns[d] - queue_last_ns[d] * inflight[d]) + stamp[r]
      <4>1. /\ queue_area_ns[d] \in Int /\ queue_last_ns[d] \in Int
            /\ inflight[d] \in Int /\ stamp[r] \in Int
        BY <1>1
      <4>2. (stamp[r] - queue_last_ns[d]) * inflight[d]
              = stamp[r] * inflight[d] - queue_last_ns[d] * inflight[d]
        BY <4>1, ProductDiff
      <4>3. stamp[r] * (inflight[d] - 1) = stamp[r] * inflight[d] - stamp[r]
        BY <4>1, ProductPred
      <4>4. stamp[r] * inflight[d] \in Int /\ queue_last_ns[d] * inflight[d] \in Int
        BY <4>1
      <4> QED
        BY <4>1, <4>2, <4>3, <4>4
    <3>5. /\ queue_area_ns'[d] = Area(d, stamp[r]) /\ queue_last_ns'[d] = stamp[r]
          /\ inflight'[d] = inflight[d] - 1
      BY <1>1, <1>3
    <3>6. FirstSum(d) \in Int /\ StampSum(d) \in Int /\ trueArea[d] \in Int
      BY <1>1 DEF BooksTyped
    <3>7. trueArea[d] - FirstSum(d) - (StampSum(d) - stamp[r])
            = (trueArea[d] - FirstSum(d) - StampSum(d)) + stamp[r]
      BY <1>1, <3>6
    <3>8. queue_area_ns'[d] - queue_last_ns'[d] * inflight'[d]
            = trueArea'[d] - FirstSum(d)' - StampSum(d)'
      BY <1>2, <3>2, <3>3, <3>4, <3>5, <3>7
    <3> QED
      BY <2>3, <3>8
  <2> QED
    BY <2>2, <2>3
<1>4. CASE d \notin devs /\ UNCHANGED <<queue_area_ns, queue_last_ns, inflight, overtaken>>
  BY <1>1, <1>2, <1>4 DEF AreaInv, AreaKept, Quiet
<1> QED
  BY <1>3, <1>4, EndOutcomes DEF AreaInv

LEMMA AreaStep == AreaInv /\ [Next]_vars => AreaInv'
<1> SUFFICES ASSUME AreaInv, [Next]_vars PROVE AreaInv'
  OBVIOUS
<1>1. GaugeInv'
  BY GaugeStep DEF AreaInv
<1> SUFFICES AreaKept'
  BY <1>1 DEF AreaInv
<1>2. CASE \/ AttachComplete \/ AttachIssue \/ ReadBoundary \/ Arm \/ Tick
           \/ PollStart \/ PollCommit \/ (\E e \in Device : PollLookup(e)) \/ UNCHANGED vars
           \/ \E r \in Request : Allocate(r) \/ Requeue(r) \/ Issue(r)
  <2>1. (\A d \in Device : Quiet(d)) /\ UNCHANGED devStats
    BY <1>2, GaugeOther DEF AreaInv
  <2>2. overtaken' = overtaken
    BY <1>2 DEF AttachComplete, AttachIssue, ReadBoundary, Arm, Tick, PollStart, PollCommit,
                PollLookup, vars, Allocate, Requeue, Issue
  <2> QED
    BY <2>1, <2>2, AreaQuiet
<1>3. ASSUME NEW r \in Request, IssueAccount(r) \/ Complete(r) \/ CompleteAccount(r)
      PROVE  AreaKept'
  <2>1. DevOf[r] \in Device
    BY BlockAssumption
  <2> QED
    BY <1>3, <2>1, AreaIssue, AreaComplete, AreaEnd
<1> QED
  BY <1>2, <1>3 DEF Next

LEMMA TrueAreaIs ==
  ASSUME TypeOK, NEW d \in Device
  PROVE  TrueArea(d) = trueArea[d] + Total(Ages(now), InFlight(d))
<1>1. InFlight(d) \in SUBSET Request
  BY DEF InFlight, OnDevice
<1>2. MapThenSumSet(LAMBDA r : now - start[r].first_issue_ns, InFlight(d))
        = Total(Ages(now), InFlight(d))
  BY <1>1 DEF Total, Ages, MapThenSumSet, MapThenFoldSet
<1> QED
  BY <1>2 DEF TrueArea

(* Between handlers, the request time of a device is what its event integral gives, when
   the stretch since the last event is added. *)
LEMMA SettledArea ==
  ASSUME AreaInv, NEW d \in Device, Settled(d), d \in devs => d \notin overtaken
  PROVE  /\ Held(d) = InFlight(d) /\ Ending(d) = {}
         /\ Total(Ages(now), InFlight(d)) = now * Cardinality(Held(d)) - FirstSum(d)
         /\ d \in devs => queue_area_ns[d] + (now - queue_last_ns[d]) * inflight[d] = TrueArea(d)
<1>1. TypeOK /\ BooksTyped /\ now \in Nat /\ trueArea[d] \in Int
      /\ queue_area_ns[d] \in Nat /\ queue_last_ns[d] \in Nat
  BY BooksType DEF AreaInv, GaugeInv, RequestInv, TypeOK, ClockTyped, HistoryTyped, DevicesTyped
<1>2. Held(d) = InFlight(d) /\ Ending(d) = {}
  BY DEF Settled, Held, Ending
<1>3. Total(Ages(now), Held(d)) = now * Cardinality(Held(d)) - FirstSum(d)
  <2>1. \A r \in Held(d) : Ages(now)[r] = now - Firsts[r]
    BY <1>1 DEF Ages, Firsts, BooksTyped
  <2> QED
    BY <1>1, <2>1, TotalDiff DEF BooksTyped, FirstSum
<1>4. ASSUME d \in devs
      PROVE  queue_area_ns[d] + (now - queue_last_ns[d]) * inflight[d] = TrueArea(d)
  <2>1. inflight[d] = Cardinality(Held(d)) /\ Cardinality(Held(d)) \in Nat
    <3>1. Cardinality(Ending(d)) = 0
      BY <1>2, FS_EmptySet
    <3> QED
      BY <1>1, <1>4, <3>1 DEF AreaInv, GaugeInv, Gauge, BooksTyped
  <2>2. StampSum(d) = 0
    BY <1>2, TotalEmpty DEF StampSum
  <2>3. queue_area_ns[d] - queue_last_ns[d] * inflight[d] = trueArea[d] - FirstSum(d)
    <3>1. FirstSum(d) \in Int
      BY <1>1 DEF BooksTyped
    <3> QED
      BY <1>1, <1>4, <2>2, <3>1 DEF AreaInv, AreaKept
  <2>4. (now - queue_last_ns[d]) * inflight[d] = now * inflight[d] - queue_last_ns[d] * inflight[d]
    BY <1>1, <2>1, ProductDiff
  <2>5. FirstSum(d) \in Int /\ now * inflight[d] \in Int /\ queue_last_ns[d] * inflight[d] \in Int
    BY <1>1, <2>1 DEF BooksTyped
  <2>6. TrueArea(d) = trueArea[d] + (now * inflight[d] - FirstSum(d))
    BY <1>1, <1>2, <1>3, <2>1, TrueAreaIs
  <2> QED
    BY <1>1, <2>3, <2>4, <2>5, <2>6
<1> QED
  BY <1>2, <1>3, <1>4

(* Between handlers, the integral the event handlers keep is the request time the requests
   really spent, on a device whose handlers took the lock in the order of their stamps. *)
THEOREM AreaIsExact == Spec => []QueueAreaExact
<1>1. AreaInv => QueueAreaExact
  <2> SUFFICES ASSUME AreaInv, NEW d \in devs \ overtaken, Settled(d)
               PROVE  queue_area_ns[d] + (now - queue_last_ns[d]) * inflight[d] = TrueArea(d)
    BY DEF QueueAreaExact
  <2>1. d \in Device
    BY DEF AreaInv, GaugeInv, RequestInv, TypeOK, DevicesTyped
  <2> QED
    BY <2>1, SettledArea
<1> QED
  BY <1>1, AreaInit, AreaStep, PTL DEF Spec

----------------------------------------------------------------------------
(* What the polls reported.                                                *)

LEMMA DeviceTypes ==
  ASSUME TypeOK, NEW d \in Device
  PROVE  /\ now \in Nat /\ pollMono \in Nat /\ queue_last_ns[d] \in Nat /\ queue_area_ns[d] \in Nat
         /\ inflight[d] \in Nat /\ cur[d] \in Nat /\ prev[d] \in Nat /\ reported[d] \in Nat
         /\ shownUpTo[d] \in Nat /\ trueArea[d] \in Int
BY DEF TypeOK, ClockTyped, DevicesTyped, PollTyped, HistoryTyped

LEMMA ExtendedToType ==
  ASSUME TypeOK, NEW d \in Device, NEW at \in Nat
  PROVE  ExtendedTo(d, at) \in Nat
<1>1. at > queue_last_ns[d] => (at - queue_last_ns[d]) * inflight[d] \in Nat
  BY DeviceTypes, ProductNat
<1> QED
  BY <1>1, DeviceTypes DEF ExtendedTo

(* A device never loses area by being shown later. *)
LEMMA ExtendedToMono ==
  ASSUME TypeOK, NEW d \in Device, NEW at \in Nat, NEW later \in Nat, at <= later
  PROVE  ExtendedTo(d, at) <= ExtendedTo(d, later)
<1>1. queue_last_ns[d] \in Nat /\ queue_area_ns[d] \in Nat /\ inflight[d] \in Nat
  BY DeviceTypes
<1>2. CASE at <= queue_last_ns[d]
  <2>1. ExtendedTo(d, at) = queue_area_ns[d]
    BY <1>1, <1>2 DEF ExtendedTo
  <2>2. later > queue_last_ns[d] => (later - queue_last_ns[d]) * inflight[d] \in Nat
    BY <1>1, ProductNat
  <2> QED
    BY <1>1, <2>1, <2>2 DEF ExtendedTo
<1>3. CASE at > queue_last_ns[d]
  <2>1. /\ at - queue_last_ns[d] \in Nat /\ later - queue_last_ns[d] \in Nat
        /\ at - queue_last_ns[d] <= later - queue_last_ns[d] /\ later > queue_last_ns[d]
    BY <1>1, <1>3
  <2>2. (at - queue_last_ns[d]) * inflight[d] <= (later - queue_last_ns[d]) * inflight[d]
    BY <1>1, <2>1, ProductMono
  <2>3. /\ (at - queue_last_ns[d]) * inflight[d] \in Nat
        /\ (later - queue_last_ns[d]) * inflight[d] \in Nat
    BY <1>1, <2>1, ProductNat
  <2>4. /\ ExtendedTo(d, at) = queue_area_ns[d] + (at - queue_last_ns[d]) * inflight[d]
        /\ ExtendedTo(d, later) = queue_area_ns[d] + (later - queue_last_ns[d]) * inflight[d]
    BY <1>3, <2>1 DEF ExtendedTo
  <2> QED
    BY <1>1, <2>2, <2>3, <2>4
<1> QED
  BY <1>1, <1>2, <1>3

(* For an event not older than the last one, the handler and the poll agree. *)
LEMMA ExtendedToIs ==
  ASSUME GaugeInv, NEW d \in Device, NEW at \in Nat, queue_last_ns[d] <= at
  PROVE  /\ ExtendedTo(d, at) = queue_area_ns[d] + (at - queue_last_ns[d]) * inflight[d]
         /\ ExtendedTo(d, at) = Area(d, at)
<1>1. queue_last_ns[d] \in Nat /\ queue_area_ns[d] \in Nat /\ inflight[d] \in Nat
  BY DeviceTypes DEF GaugeInv, RequestInv
<1>2. at = queue_last_ns[d] => (at - queue_last_ns[d]) * inflight[d] = 0
  BY <1>1
<1>3. ExtendedTo(d, at) = queue_area_ns[d] + (at - queue_last_ns[d]) * inflight[d]
  BY <1>1, <1>2 DEF ExtendedTo
<1> QED
  BY <1>3, AreaIs

LEMMA ExtendedIs ==
  ASSUME TypeOK, NEW d \in Device
  PROVE  Extended(d) = ExtendedTo(d, pollMono)
<1>1. inflight[d] = 0 => (pollMono - queue_last_ns[d]) * inflight[d] = 0
  BY DeviceTypes
<1> QED
  BY <1>1, DeviceTypes DEF Extended, ExtendedTo

LEMMA ReportInit == Init => ReportInv
<1> SUFFICES ASSUME Init PROVE ReportInv
  OBVIOUS
<1>1. AreaInv /\ TypeOK
  BY AreaInit, TypeInit
<1>2. PollOrder /\ Visited /\ TrueAreaNat
  BY DEF Init, PollOrder, Visited, TrueAreaNat, Zero
<1>3. ShownKept
  BY DEF Init, ShownKept, ExtendedTo, Zero
<1> QED
  BY <1>1, <1>2, <1>3 DEF ReportInv

(* Steps that only let the clock run on, or complete a request. *)
LEMMA ReportIdle ==
  ASSUME ReportInv,
         UNCHANGED <<devStats, pollVars, reported, shownUpTo, overtaken>>,
         now' \in Nat, now <= now'
  PROVE  PollOrder' /\ Visited' /\ ShownKept'
<1> USE DEF ReportInv, devStats, pollVars
<1>1. now \in Nat /\ pollMono \in Nat /\ shownUpTo \in [Device -> Nat]
  BY DEF AreaInv, GaugeInv, RequestInv, TypeOK, ClockTyped, PollTyped, HistoryTyped
<1>2. PollOrder'
  BY <1>1 DEF PollOrder
<1>3. Visited'
  BY DEF Visited
<1>4. ShownKept'
  BY DEF ShownKept, ExtendedTo
<1> QED
  BY <1>2, <1>3, <1>4

(* A handler that accounts at d with stamp s. *)
LEMMA ReportAccount ==
  ASSUME ReportInv, NEW d \in Device, NEW s \in 1..now, devs' \subseteq Device,
         devs \subseteq devs', UNCHANGED <<now, shownUpTo, pollVars, reported>>,
         \/ /\ queue_area_ns' = [queue_area_ns EXCEPT ![d] = Area(d, s)]
            /\ queue_last_ns' = [queue_last_ns EXCEPT ![d] = s]
            /\ \A e \in Device \ {d} : inflight'[e] = inflight[e]
            /\ overtaken' = Overtakes(d, s)
         \/ UNCHANGED <<queue_area_ns, queue_last_ns, inflight, overtaken>>
  PROVE  PollOrder' /\ Visited' /\ ShownKept'
<1>1. /\ TypeOK /\ GaugeInv /\ now \in Nat /\ s \in Nat /\ queue_area_ns \in [Device -> Nat]
      /\ queue_last_ns \in [Device -> Nat]
  BY DEF ReportInv, AreaInv, GaugeInv, RequestInv, TypeOK, ClockTyped, DevicesTyped
<1>2. PollOrder' /\ Visited'
  BY DEF ReportInv, PollOrder, Visited, pollVars
<1>3. ShownKept'
  <2> SUFFICES ASSUME NEW e \in Device \ overtaken'
               PROVE  /\ reported[e] = prev[e] /\ prev[e] <= ExtendedTo(e, shownUpTo[e])'
                      /\ e \in looked =>
                           prev[e] <= cur[e] /\ cur[e] <= ExtendedTo(e, shownUpTo[e])'
    BY DEF ShownKept, pollVars
  <2>1. /\ e \notin overtaken /\ reported[e] = prev[e] /\ prev[e] <= ExtendedTo(e, shownUpTo[e])
        /\ e \in looked => prev[e] <= cur[e] /\ cur[e] <= ExtendedTo(e, shownUpTo[e])
    BY DEF ReportInv, ShownKept, Overtakes
  <2>2. ExtendedTo(e, shownUpTo[e]) <= ExtendedTo(e, shownUpTo[e])'
        /\ ExtendedTo(e, shownUpTo[e]) \in Nat /\ ExtendedTo(e, shownUpTo[e])' \in Nat
    <3>0. shownUpTo[e] \in Nat /\ ExtendedTo(e, shownUpTo[e]) \in Nat
      BY <1>1, DeviceTypes, ExtendedToType
    <3>1. CASE e # d \/ UNCHANGED <<queue_area_ns, queue_last_ns, inflight>>
      <4>1. ExtendedTo(e, shownUpTo[e])' = ExtendedTo(e, shownUpTo[e])
        BY <1>1, <3>1 DEF ExtendedTo
      <4> QED
        BY <3>0, <4>1
    <3>2. CASE /\ e = d /\ queue_area_ns' = [queue_area_ns EXCEPT ![d] = Area(d, s)]
               /\ queue_last_ns' = [queue_last_ns EXCEPT ![d] = s]
               /\ overtaken' = Overtakes(d, s)
      <4>1. queue_last_ns[d] <= s /\ shownUpTo[d] <= s
        BY <1>1, <3>0, <3>2 DEF Overtakes
      <4>2. ExtendedTo(d, shownUpTo[d]) <= Area(d, s) /\ Area(d, s) \in Nat
        BY <1>1, <3>0, <3>2, <4>1, ExtendedToMono, ExtendedToIs, ExtendedToType
      <4>3. queue_last_ns'[d] = s /\ queue_area_ns'[d] = Area(d, s) /\ shownUpTo'[d] = shownUpTo[d]
        BY <1>1, <3>2
      <4>4. ExtendedTo(d, shownUpTo[d])' = Area(d, s)
        BY <1>1, <3>0, <3>2, <4>1, <4>3 DEF ExtendedTo
      <4> QED
        BY <3>0, <3>2, <4>2, <4>4
    <3> QED
      BY <3>1, <3>2
  <2>3. prev[e] \in Nat /\ cur[e] \in Nat
    BY <1>1, DeviceTypes
  <2> QED
    BY <2>1, <2>2, <2>3
<1> QED
  BY <1>2, <1>3

LEMMA ReportStart ==
  ASSUME ReportInv, PollStart
  PROVE  PollOrder' /\ Visited' /\ ShownKept'
<1> USE DEF ReportInv, PollStart
<1>1. now \in Nat /\ now >= 1 /\ devs \subseteq Device
  BY DEF AreaInv, GaugeInv, RequestInv, TypeOK, ClockTyped, DevicesTyped, Handshake
<1>2. PollOrder'
  BY <1>1 DEF PollOrder, devStats
<1>3. Visited'
  BY <1>1 DEF Visited, devStats
<1>4. ShownKept'
  BY DEF ShownKept, ExtendedTo, devStats
<1> QED
  BY <1>2, <1>3, <1>4

LEMMA ReportLookup ==
  ASSUME ReportInv, NEW d \in Device, PollLookup(d)
  PROVE  PollOrder' /\ Visited' /\ ShownKept'
<1>1. /\ TypeOK /\ pollMono \in Nat /\ now \in Nat /\ shownUpTo \in [Device -> Nat]
      /\ cur \in [Device -> Nat] /\ devs \subseteq Device
  BY DEF ReportInv, AreaInv, GaugeInv, RequestInv, TypeOK, ClockTyped, PollTyped, HistoryTyped,
         DevicesTyped
<1>2. /\ pollMono # 0 /\ d \in devs /\ d \notin looked
      /\ cur' = [cur EXCEPT ![d] = Extended(d)]
      /\ looked' = looked \cup {d} /\ todo' = todo \ {d}
      /\ shownUpTo' = [shownUpTo EXCEPT ![d] = pollMono]
      /\ UNCHANGED <<now, devs, inflight, queue_area_ns, queue_last_ns, pollMono, prev, reported,
                     overtaken>>
  BY DEF PollLookup, devStats
<1>3. PollOrder'
  BY <1>1, <1>2 DEF ReportInv, PollOrder
<1>4. Visited'
  BY <1>2 DEF ReportInv, Visited
<1>5. ShownKept'
  <2> SUFFICES ASSUME NEW e \in Device \ overtaken
               PROVE  /\ reported[e] = prev[e] /\ prev[e] <= ExtendedTo(e, shownUpTo'[e])
                      /\ e \in looked' =>
                           prev[e] <= cur'[e] /\ cur'[e] <= ExtendedTo(e, shownUpTo'[e])
    BY <1>2 DEF ShownKept, ExtendedTo
  <2>1. /\ reported[e] = prev[e] /\ prev[e] <= ExtendedTo(e, shownUpTo[e])
        /\ e \in looked => prev[e] <= cur[e] /\ cur[e] <= ExtendedTo(e, shownUpTo[e])
    BY DEF ReportInv, ShownKept
  <2>2. CASE e # d
    BY <1>1, <1>2, <2>1, <2>2
  <2>3. CASE e = d
    <3>1. shownUpTo[d] <= pollMono /\ shownUpTo[d] \in Nat /\ prev[d] \in Nat
      BY <1>1, <1>2, DeviceTypes DEF ReportInv, PollOrder
    <3>2. ExtendedTo(d, shownUpTo[d]) <= ExtendedTo(d, pollMono)
      BY <1>1, <3>1, ExtendedToMono
    <3>3. ExtendedTo(d, pollMono) \in Nat /\ ExtendedTo(d, shownUpTo[d]) \in Nat
      BY <1>1, <3>1, ExtendedToType
    <3>4. cur'[d] = ExtendedTo(d, pollMono) /\ shownUpTo'[d] = pollMono
      BY <1>1, <1>2, ExtendedIs
    <3>5. prev[d] <= ExtendedTo(d, pollMono)
      BY <2>1, <2>3, <3>1, <3>2, <3>3
    <3> QED
      BY <2>1, <2>3, <3>3, <3>4, <3>5
  <2> QED
    BY <2>2, <2>3
<1> QED
  BY <1>3, <1>4, <1>5

LEMMA ReportCommit ==
  ASSUME ReportInv, PollCommit
  PROVE  PollOrder' /\ Visited' /\ ShownKept'
<1>1. TypeOK /\ looked \subseteq Device
  BY DEF ReportInv, AreaInv, GaugeInv, RequestInv, TypeOK, PollTyped
<1>2. /\ pollMono # 0 /\ todo = {} /\ todo' = {} /\ looked' = {} /\ pollMono' = 0
      /\ reported' = [e \in Device |->
           IF e \in looked THEN reported[e] + CounterDelta(cur[e], prev[e]) ELSE reported[e]]
      /\ prev' = [e \in Device |-> IF e \in looked THEN cur[e] ELSE 0]
      /\ UNCHANGED <<now, devs, inflight, queue_area_ns, queue_last_ns, shownUpTo, overtaken>>
  BY DEF PollCommit, devStats
<1>3. PollOrder'
  BY <1>1, <1>2, DeviceTypes DEF ReportInv, PollOrder, AreaInv, GaugeInv, RequestInv, TypeOK, ClockTyped
<1>4. Visited'
  BY <1>2 DEF ReportInv, Visited, PollOrder
<1>5. ShownKept'
  <2> SUFFICES ASSUME NEW e \in Device \ overtaken
               PROVE  reported'[e] = prev'[e] /\ prev'[e] <= ExtendedTo(e, shownUpTo[e])
    BY <1>2 DEF ShownKept, ExtendedTo
  <2>1. /\ reported[e] = prev[e]
        /\ e \in looked => prev[e] <= cur[e] /\ cur[e] <= ExtendedTo(e, shownUpTo[e])
    BY DEF ReportInv, ShownKept
  <2>2. cur[e] \in Nat /\ prev[e] \in Nat /\ ExtendedTo(e, shownUpTo[e]) \in Nat
    BY <1>1, DeviceTypes, ExtendedToType
  <2>3. CASE e \in looked
    BY <1>2, <2>1, <2>2, <2>3 DEF CounterDelta
  <2>4. CASE e \notin looked
    <3>1. prev[e] = 0
      BY <1>2, <2>4 DEF ReportInv, Visited
    <3> QED
      BY <1>2, <2>1, <2>2, <2>4, <3>1
  <2> QED
    BY <2>3, <2>4
<1> QED
  BY <1>3, <1>4, <1>5

LEMMA TrueAreaStep == ReportInv /\ [Next]_vars => TrueAreaNat'
<1> SUFFICES ASSUME ReportInv, [Next]_vars PROVE TrueAreaNat'
  OBVIOUS
<1>1. ASSUME NEW r \in Request, Complete(r) PROVE TrueAreaNat'
  <2>1. /\ now \in Nat /\ trueArea \in [Device -> Int] /\ DevOf[r] \in Device
    BY BlockAssumption DEF ReportInv, AreaInv, GaugeInv, RequestInv, TypeOK, ClockTyped, HistoryTyped
  <2>2. start[r].tracked => start[r].first_issue_ns \in 1..now
    BY DEF ReportInv, AreaInv, GaugeInv, RequestInv, Recorded, NoState
  <2>3. \/ trueArea' = trueArea
        \/ /\ start[r].tracked
           /\ trueArea' = [trueArea EXCEPT ![DevOf[r]] = @ + (now - start[r].first_issue_ns)]
    BY <1>1 DEF Complete
  <2> QED
    BY <2>1, <2>2, <2>3 DEF ReportInv, TrueAreaNat
<1>2. CASE UNCHANGED trueArea
  BY <1>2 DEF ReportInv, TrueAreaNat
<1>3. CASE UNCHANGED vars
  BY <1>2, <1>3 DEF vars
<1>4. CASE AttachComplete \/ AttachIssue \/ ReadBoundary \/ Arm \/ Tick
           \/ PollStart \/ PollCommit \/ (\E e \in Device : PollLookup(e))
  BY <1>2, <1>4
  DEF AttachComplete, AttachIssue, ReadBoundary, Arm, Tick, PollStart, PollCommit, PollLookup
<1>5. ASSUME NEW r \in Request,
             Allocate(r) \/ Requeue(r) \/ Issue(r) \/ IssueAccount(r) \/ CompleteAccount(r)
      PROVE  TrueAreaNat'
  BY <1>2, <1>5 DEF Allocate, Requeue, Issue, IssueAccount, CompleteAccount
<1> QED
  BY <1>1, <1>3, <1>4, <1>5 DEF Next

(* Steps that neither account, poll nor overtake. *)
LEMMA IdleSteps ==
  ASSUME TypeOK,
         \/ AttachComplete \/ AttachIssue \/ ReadBoundary \/ Arm \/ Tick \/ UNCHANGED vars
         \/ \E r \in Request : Allocate(r) \/ Requeue(r) \/ Issue(r) \/ Complete(r)
  PROVE  /\ UNCHANGED <<devStats, pollVars, reported, shownUpTo, overtaken>>
         /\ now' \in Nat /\ now <= now'
<1>1. now \in Nat
  BY DEF TypeOK, ClockTyped
<1>2. UNCHANGED <<devStats, pollVars, reported, shownUpTo, overtaken>>
  BY DEF AttachComplete, AttachIssue, ReadBoundary, Arm, Tick, vars, Allocate, Requeue, Issue, Complete
<1>3. now' \in Nat /\ now <= now'
  BY <1>1 DEF AttachComplete, AttachIssue, ReadBoundary, Arm, Tick, vars, Allocate, Requeue, Issue,
              Complete
<1> QED
  BY <1>2, <1>3

(* The two handlers, as ReportAccount sees them. *)
LEMMA Accounts ==
  ASSUME GaugeInv, NEW r \in Request, IssueAccount(r) \/ CompleteAccount(r)
  PROVE  LET d == DevOf[r] IN
         /\ d \in Device /\ stamp[r] \in 1..now /\ devs' \subseteq Device /\ devs \subseteq devs'
         /\ UNCHANGED <<now, shownUpTo, pollVars, reported>>
         /\ \/ /\ queue_area_ns' = [queue_area_ns EXCEPT ![d] = Area(d, stamp[r])]
               /\ queue_last_ns' = [queue_last_ns EXCEPT ![d] = stamp[r]]
               /\ \A e \in Device \ {d} : inflight'[e] = inflight[e]
               /\ overtaken' = Overtakes(d, stamp[r])
            \/ UNCHANGED <<queue_area_ns, queue_last_ns, inflight, overtaken>>
<1>1. DevOf[r] \in Device /\ devs \subseteq Device /\ inflight \in [Device -> Nat]
  BY BlockAssumption DEF GaugeInv, RequestInv, TypeOK, DevicesTyped
<1>2. CASE IssueAccount(r)
  BY <1>1, <1>2, IssueOutcomes
<1>3. CASE CompleteAccount(r)
  BY <1>1, <1>3, EndOutcomes
<1> QED
  BY <1>2, <1>3

LEMMA ReportStep == ReportInv /\ [Next]_vars => ReportInv'
<1> SUFFICES ASSUME ReportInv, [Next]_vars PROVE ReportInv'
  OBVIOUS
<1>1. AreaInv' /\ TrueAreaNat'
  BY AreaStep, TrueAreaStep DEF ReportInv
<1> SUFFICES PollOrder' /\ Visited' /\ ShownKept'
  BY <1>1 DEF ReportInv
<1>2. CASE \/ AttachComplete \/ AttachIssue \/ ReadBoundary \/ Arm \/ Tick \/ UNCHANGED vars
           \/ \E r \in Request : Allocate(r) \/ Requeue(r) \/ Issue(r) \/ Complete(r)
  BY <1>2, IdleSteps, ReportIdle DEF ReportInv, AreaInv, GaugeInv, RequestInv
<1>3. ASSUME NEW r \in Request, IssueAccount(r) \/ CompleteAccount(r)
      PROVE  PollOrder' /\ Visited' /\ ShownKept'
  BY <1>3, Accounts, ReportAccount DEF ReportInv, AreaInv
<1>4. CASE PollStart \/ PollCommit \/ \E d \in Device : PollLookup(d)
  BY <1>4, ReportStart, ReportLookup, ReportCommit
<1> QED
  BY <1>2, <1>3, <1>4 DEF Next

(* A sum of what is not negative is not negative. *)
LEMMA TotalNonneg ==
  ASSUME NEW S, IsFiniteSet(S), NEW f, Ints(f, S), \A x \in S : f[x] >= 0
  PROVE  Total(f, S) >= 0
<1>1. Total(f, {}) <= Total(f, S)
  BY TotalSubset
<1> QED
  BY <1>1, TotalEmpty, TotalType

(* The deltas of all polls add up to no more than the request time there was, on a device
   whose handlers were not passed by a later handler or a poll. *)
THEOREM DeltasAreTrue == Spec => []ReportedIsTrue
<1>1. ReportInv => ReportedIsTrue
  <2> SUFFICES ASSUME ReportInv, NEW d \in Device \ overtaken, Settled(d)
               PROVE  reported[d] <= TrueArea(d)
    BY DEF ReportedIsTrue
  <2>1. AreaInv /\ GaugeInv /\ TypeOK /\ BooksTyped
    BY BooksType DEF ReportInv, AreaInv, GaugeInv, RequestInv
  <2>2. /\ now \in Nat /\ shownUpTo[d] \in Nat /\ shownUpTo[d] <= now /\ trueArea[d] \in Int
        /\ trueArea[d] >= 0 /\ prev[d] \in Nat
    BY <2>1, DeviceTypes DEF ReportInv, PollOrder, TrueAreaNat
  <2>3. reported[d] = prev[d] /\ prev[d] <= ExtendedTo(d, shownUpTo[d])
    BY DEF ReportInv, ShownKept
  <2>4. CASE d \in devs
    <3>1. queue_last_ns[d] <= now
      BY <2>1, <2>2, <2>4 DEF GaugeInv, Entries
    <3>2. ExtendedTo(d, now) = TrueArea(d)
      BY <2>1, <2>2, <2>4, <3>1, ExtendedToIs, SettledArea
    <3>3. ExtendedTo(d, shownUpTo[d]) <= ExtendedTo(d, now)
      BY <2>1, <2>2, ExtendedToMono
    <3>4. ExtendedTo(d, shownUpTo[d]) \in Nat /\ ExtendedTo(d, now) \in Nat
      BY <2>1, <2>2, ExtendedToType
    <3> QED
      BY <2>2, <2>3, <3>2, <3>3, <3>4
  <2>5. CASE d \notin devs
    <3>1. prev[d] = 0
      BY <2>5 DEF ReportInv, Visited
    <3>2. /\ InFlight(d) \subseteq Request /\ IsFiniteSet(InFlight(d))
      BY BlockAssumption, FS_Subset DEF InFlight, OnDevice
    <3>3. \A r \in InFlight(d) : start[r].first_issue_ns \in 1..now
      BY <2>1, <3>2 DEF GaugeInv, RequestInv, Recorded, InFlight, NoState
    <3>4. Ints(Ages(now), InFlight(d)) /\ \A r \in InFlight(d) : Ages(now)[r] >= 0
      BY <2>2, <3>2, <3>3 DEF Ages, Ints
    <3>5. Total(Ages(now), InFlight(d)) >= 0 /\ Total(Ages(now), InFlight(d)) \in Int
      BY <3>2, <3>4, TotalNonneg, TotalType
    <3> QED
      BY <2>1, <2>2, <2>3, <3>1, <3>5, TrueAreaIs
  <2> QED
    BY <2>4, <2>5
<1> QED
  BY <1>1, ReportInit, ReportStep, PTL DEF Spec

----------------------------------------------------------------------------
(* The requests a poll must show.                                          *)

LEMMA StableInit == Init => StableInv
BY ReportInit DEF Init, StableInv, Covered, Looked

(* An event at s adds at least the time of every request held since the last event. *)
LEMMA CoverGrows ==
  ASSUME StableInv, NEW d \in Device, d \notin overtaken, NEW s \in Nat, queue_last_ns[d] <= s,
         d \in devs \/ Held(d) = {}
  PROVE  ExtendedTo(d, s) >= s * Cardinality(Held(d)) - FirstSum(d)
<1> DEFINE a == queue_area_ns[d]
           l == queue_last_ns[d]
           i == inflight[d]
           h == Cardinality(Held(d))
<1>1. /\ TypeOK /\ GaugeInv /\ BooksTyped /\ a \in Nat /\ l \in Nat /\ i \in Nat
      /\ h \in Nat /\ FirstSum(d) \in Int
  BY BooksType, DeviceTypes DEF StableInv, ReportInv, AreaInv, GaugeInv, RequestInv, BooksTyped
<1>2. ExtendedTo(d, s) = a + (s - l) * i
  BY <1>1, ExtendedToIs
<1>3. CASE d \in devs
  <2>1. Cardinality(Ending(d)) \in Nat
    BY <1>1 DEF BooksTyped
  <2>2. h <= i
    BY <1>1, <1>3, <2>1 DEF GaugeInv, Gauge
  <2>3. a >= l * h - FirstSum(d)
    BY <1>3 DEF StableInv, Covered
  <2>4. l <= s
    OBVIOUS
  <2> HIDE DEF a, l, i, h
  <2>5. s - l \in Nat /\ (s - l) * i \in Nat /\ (s - l) * h \in Nat /\ l * h \in Int /\ s * h \in Int
    BY <1>1, <2>4, ProductNat
  <2>6. h * (s - l) <= i * (s - l) /\ h * (s - l) = (s - l) * h /\ i * (s - l) = (s - l) * i
    BY <1>1, <2>2, <2>5, ProductMono
  <2>7. (s - l) * h = s * h - l * h
    BY <1>1, ProductDiff
  <2>8. a + (s - l) * i >= s * h - FirstSum(d)
    BY <1>1, <2>3, <2>5, <2>6, <2>7
  <2> QED
    BY <1>2, <2>8 DEF h
<1>4. CASE Held(d) = {}
  <2>1. FirstSum(d) = 0 /\ h = 0
    BY <1>4, TotalEmpty, FS_EmptySet DEF FirstSum
  <2>2. ExtendedTo(d, s) \in Nat
    BY <1>1, ExtendedToType
  <2> QED
    BY <2>1, <2>2
<1> QED
  BY <1>3, <1>4

LEMMA AgesSum ==
  ASSUME TypeOK, NEW d \in Device, NEW at \in Nat
  PROVE  /\ Ints(Ages(at), Held(d)) /\ IsFiniteSet(Held(d))
         /\ Total(Ages(at), Held(d)) = at * Cardinality(Held(d)) - FirstSum(d)
<1>1. BooksTyped
  BY BooksType
<1>2. \A r \in Held(d) : Ages(at)[r] = at - Firsts[r]
  BY <1>1 DEF Ages, Firsts, BooksTyped
<1>3. Ints(Ages(at), Held(d))
  BY <1>1, <1>2 DEF Ints, BooksTyped
<1>4. /\ IsFiniteSet(Held(d)) /\ Ints(Firsts, Held(d)) /\ at \in Int
  BY <1>1 DEF BooksTyped
<1>5. Total(Ages(at), Held(d)) = at * Cardinality(Held(d)) - Total(Firsts, Held(d))
  BY <1>2, <1>4, TotalDiff
<1> QED
  BY <1>3, <1>4, <1>5 DEF FirstSum

(* The requests issued before a poll's time are in the extended area the poll reads. *)
LEMMA LookupCovers ==
  ASSUME StableInv, NEW d \in devs \ overtaken, NEW p \in Nat
  PROVE  ExtendedTo(d, p) >= Total(Ages(p), Before(d, p))
<1>1. /\ TypeOK /\ BooksTyped /\ d \in Device
      /\ \A r \in Held(d) : start[r].first_issue_ns <= queue_last_ns[d]
      /\ queue_area_ns[d] >= queue_last_ns[d] * Cardinality(Held(d)) - FirstSum(d)
  BY BooksType
  DEF StableInv, ReportInv, AreaInv, GaugeInv, RequestInv, TypeOK, DevicesTyped, Covered
<1>2. /\ queue_last_ns[d] \in Nat /\ queue_area_ns[d] \in Nat
      /\ \A r \in Held(d) : r \in Request /\ start[r].first_issue_ns \in Nat
  BY <1>1, DeviceTypes, RequestTypes DEF BooksTyped
<1>3. CASE p > queue_last_ns[d]
  <2>1. Before(d, p) = Held(d)
    BY <1>1, <1>2, <1>3 DEF Before
  <2>2. ExtendedTo(d, p) >= p * Cardinality(Held(d)) - FirstSum(d)
    BY <1>1, <1>2, <1>3, CoverGrows
  <2>3. Total(Ages(p), Held(d)) = p * Cardinality(Held(d)) - FirstSum(d)
    BY <1>1, AgesSum
  <2> QED
    BY <2>1, <2>2, <2>3
<1>4. CASE p <= queue_last_ns[d]
  <2> DEFINE l == queue_last_ns[d]
             B == Before(d, p)
  <2>1. Total(Ages(l), Held(d)) = l * Cardinality(Held(d)) - FirstSum(d)
        /\ Ints(Ages(l), Held(d)) /\ IsFiniteSet(Held(d)) /\ Ints(Ages(p), Held(d))
    BY <1>1, <1>2, AgesSum
  <2>2. B \in SUBSET Held(d) /\ IsFiniteSet(B)
    BY <2>1, FS_Subset DEF Before
  <2>3. \A r \in Held(d) : Ages(l)[r] >= 0 /\ Ages(p)[r] <= Ages(l)[r]
    BY <1>1, <1>2, <1>4 DEF Ages
  <2>4. Ints(Ages(l), B) /\ Ints(Ages(p), B)
    BY <2>1, <2>2 DEF Ints
  <2>5. Total(Ages(l), B) <= Total(Ages(l), Held(d))
    BY <2>1, <2>2, <2>3, TotalSubset
  <2>6. Total(Ages(p), B) <= Total(Ages(l), B)
    BY <2>2, <2>3, <2>4, TotalMono
  <2>7. /\ Total(Ages(p), B) \in Int /\ Total(Ages(l), B) \in Int
        /\ Total(Ages(l), Held(d)) \in Int
    BY <2>1, <2>2, <2>4, TotalType
  <2>8. ExtendedTo(d, p) = queue_area_ns[d]
    BY <1>2, <1>4 DEF ExtendedTo
  <2>9. queue_area_ns[d] >= Total(Ages(l), Held(d))
    BY <1>1, <2>1
  <2> HIDE DEF l, B
  <2>10. queue_area_ns[d] >= Total(Ages(p), B)
    BY <1>2, <2>5, <2>6, <2>7, <2>9
  <2> QED
    BY <2>8, <2>10 DEF B
<1> QED
  BY <1>2, <1>3, <1>4

(* What was looked up still holds what is left of the requests it must show. *)
LEMMA LookedKept ==
  ASSUME StableInv, NEW d \in looked \ overtaken, Before(d, pollMono)' \subseteq Before(d, pollMono),
         \A r \in Before(d, pollMono)' : start'[r] = start[r],
         pollMono' = pollMono, cur'[d] = cur[d]
  PROVE  cur'[d] >= Total(Ages(pollMono), Before(d, pollMono))'
<1> DEFINE p == pollMono
           B == Before(d, p)
           C == Before(d, p)'
<1>1. /\ TypeOK /\ BooksTyped /\ d \in Device /\ pollMono \in Nat /\ cur[d] \in Nat
  BY BooksType DEF StableInv, ReportInv, AreaInv, GaugeInv, RequestInv, TypeOK, PollTyped
<1>2. /\ B \subseteq Held(d) /\ IsFiniteSet(B) /\ Ints(Ages(p), B) /\ B \subseteq Request
  BY <1>1, AgesSum, FS_Subset DEF Before, Ints, BooksTyped
<1>3. \A r \in B : start[r].first_issue_ns \in Nat /\ Ages(p)[r] >= 0
  BY <1>1, <1>2, RequestTypes DEF Before, Ages
<1>4. Before(d, pollMono)' \in SUBSET B
  OBVIOUS
<1>5. PICK X \in SUBSET B : X = Before(d, pollMono)'
  BY <1>4
<1>6. IsFiniteSet(X) /\ Ints(Ages(p), X)
  BY <1>2, FS_Subset DEF Ints
<1>7. Total(Ages(p), X) <= Total(Ages(p), B)
  BY <1>2, <1>3, TotalSubset
<1>8. \A r \in X : Ages(p)[r] = Ages(pollMono)'[r]
  BY <1>2, <1>5 DEF Ages
<1>9. Total(Ages(p), X) = Total(Ages(pollMono)', X)
  BY <1>6, <1>8, TotalCong
<1>10. Total(Ages(pollMono), Before(d, pollMono))' = Total(Ages(pollMono)', X)
  BY <1>5
<1>11. cur[d] >= Total(Ages(p), B)
  BY DEF StableInv, Looked
<1>12. Total(Ages(p), X) \in Int /\ Total(Ages(p), B) \in Int
  BY <1>2, <1>6, TotalType
<1> HIDE DEF p, B
<1>13. cur[d] >= Total(Ages(p), X)
  BY <1>1, <1>7, <1>11, <1>12
<1> QED
  BY <1>9, <1>10, <1>13

(* Steps that leave the devices, the poll and the books alone. *)
LEMMA StableQuiet ==
  ASSUME StableInv, \A d \in Device : Quiet(d), UNCHANGED <<devStats, pollVars, overtaken>>
  PROVE  Covered' /\ Looked'
<1>1. devs \subseteq Device /\ looked \subseteq Device
  BY DEF StableInv, ReportInv, AreaInv, GaugeInv, RequestInv, TypeOK, DevicesTyped, PollTyped
<1>2. Covered'
  BY <1>1 DEF StableInv, Covered, Quiet, devStats
<1>3. Looked'
  <2> SUFFICES ASSUME NEW d \in looked \ overtaken
               PROVE  cur'[d] >= Total(Ages(pollMono), Before(d, pollMono))'
    BY DEF Looked, pollVars
  <2>1. Before(d, pollMono)' = Before(d, pollMono) /\ \A r \in Held(d) : start'[r] = start[r]
    BY <1>1 DEF Before, Quiet, pollVars
  <2> QED
    BY <2>1, LookedKept DEF Before, pollVars
<1> QED
  BY <1>2, <1>3

LEMMA StableIssue ==
  ASSUME StableInv, NEW r \in Request, NEW d \in Device, d = DevOf[r], IssueAccount(r)
  PROVE  Covered' /\ Looked'
<1>1. /\ stamp[r] \in Nat /\ inflight \in [Device -> Nat] /\ queue_area_ns \in [Device -> Nat]
      /\ queue_last_ns \in [Device -> Nat] /\ BooksTyped /\ devs \subseteq Device
      /\ looked \subseteq Device /\ GaugeInv /\ RequestInv /\ shownUpTo \in [Device -> Nat]
      /\ pollMono \in Nat
  BY BooksType DEF StableInv, ReportInv, AreaInv, GaugeInv, RequestInv, TypeOK, DevicesTyped,
                   RequestsTyped, PollTyped, HistoryTyped
<1>2. /\ start' = start /\ \A e \in Device \ {d} : Quiet(e)
      /\ r \notin Held(d) /\ Held(d)' = Held(d) \cup {r}
      /\ FirstSum(d)' = FirstSum(d) + stamp[r]
  BY <1>1, IssueBooks
<1>3. UNCHANGED pollVars
  BY DEF IssueAccount
<1>4. start[r].first_issue_ns = stamp[r]
  BY <1>1 DEF IssueAccount, RequestInv, Stamped
<1>5. CASE /\ devs' = devs \cup {d} /\ Cardinality(devs \cup {d}) <= devRoom
           /\ queue_area_ns' = [queue_area_ns EXCEPT ![d] = Area(d, stamp[r])]
           /\ queue_last_ns' = [queue_last_ns EXCEPT ![d] = stamp[r]]
           /\ inflight' = [inflight EXCEPT ![d] = @ + 1]
           /\ overtaken' = Overtakes(d, stamp[r])
  <2>1. Covered'
    <3> SUFFICES ASSUME NEW e \in devs' \ overtaken'
                 PROVE  /\ \A q \in Held(e)' : start'[q].first_issue_ns <= queue_last_ns'[e]
                        /\ queue_area_ns'[e]
                             >= queue_last_ns'[e] * Cardinality(Held(e)') - FirstSum(e)'
      BY DEF Covered
    <3>1. e \in Device /\ e \notin overtaken
      BY <1>1, <1>5 DEF Overtakes
    <3>2. CASE e # d
      BY <1>1, <1>2, <1>5, <3>1, <3>2 DEF StableInv, Covered, Quiet
    <3>3. CASE e = d
      <4>1. queue_last_ns[d] <= stamp[r]
        BY <1>1, <1>5, <3>3 DEF Overtakes
      <4>2. d \in devs \/ Held(d) = {}
        BY <1>1, <1>5 DEF GaugeInv, Rooms
      <4>3. queue_area_ns'[d] = ExtendedTo(d, stamp[r]) /\ queue_last_ns'[d] = stamp[r]
        BY <1>1, <1>5, <4>1, ExtendedToIs
      <4>4. ExtendedTo(d, stamp[r]) >= stamp[r] * Cardinality(Held(d)) - FirstSum(d)
        BY <1>1, <3>1, <3>3, <4>1, <4>2, CoverGrows
      <4>5. \A q \in Held(d)' : start'[q].first_issue_ns <= queue_last_ns'[d]
        <5>1. \A q \in Held(d) : start[q].first_issue_ns <= queue_last_ns[d]
                                 /\ start[q].first_issue_ns \in Nat
          BY <1>1, <3>1, <3>3, <4>2, RequestTypes DEF StableInv, Covered, BooksTyped, RequestInv
        <5>2. queue_last_ns[d] \in Nat
          BY <1>1
        <5> QED
          BY <1>1, <1>2, <1>4, <4>1, <4>3, <5>1, <5>2
      <4>6. Cardinality(Held(d) \cup {r}) = Cardinality(Held(d)) + 1
        BY <1>1, <1>2, FS_AddElement DEF BooksTyped
      <4>7. Cardinality(Held(d)') = Cardinality(Held(d)) + 1
        BY <1>2, <4>6
      <4>8. Cardinality(Held(d)) \in Nat /\ FirstSum(d) \in Int
        BY <1>1 DEF BooksTyped
      <4>9. stamp[r] * (Cardinality(Held(d)) + 1) = stamp[r] * Cardinality(Held(d)) + stamp[r]
            /\ stamp[r] * Cardinality(Held(d)) \in Int
        BY <1>1, <4>8
      <4>10. stamp[r] * (Cardinality(Held(d)) + 1) - (FirstSum(d) + stamp[r])
               = stamp[r] * Cardinality(Held(d)) - FirstSum(d)
        BY <1>1, <4>8, <4>9
      <4>11. queue_last_ns'[d] * Cardinality(Held(d)') - FirstSum(d)'
               = stamp[r] * Cardinality(Held(d)) - FirstSum(d)
        BY <1>2, <4>3, <4>7, <4>10
      <4>12. queue_area_ns'[d] >= queue_last_ns'[d] * Cardinality(Held(d)') - FirstSum(d)'
        BY <4>3, <4>4, <4>11
      <4> QED
        BY <3>3, <4>5, <4>12
    <3> QED
      BY <3>2, <3>3
  <2>2. Looked'
    <3> SUFFICES ASSUME NEW e \in looked \ overtaken'
                 PROVE  cur'[e] >= Total(Ages(pollMono), Before(e, pollMono))'
      BY <1>3 DEF Looked, pollVars
    <3>1. e \in Device /\ e \notin overtaken
      BY <1>1, <1>5 DEF Overtakes
    <3>2. Before(e, pollMono)' = Before(e, pollMono)
      <4>1. CASE e # d
        BY <1>2, <1>3, <3>1, <4>1 DEF Before, Quiet, pollVars
      <4>2. CASE e = d
        <5>1. shownUpTo[d] = pollMono /\ stamp[r] >= shownUpTo[d]
          BY <1>1, <1>5, <4>2 DEF StableInv, ReportInv, PollOrder, Overtakes
        <5>2. ~(start[r].first_issue_ns < pollMono)
          BY <1>1, <1>4, <5>1
        <5>3. Before(d, pollMono)' = Before(d, pollMono)
          BY <1>2, <1>3, <5>2 DEF Before, pollVars
        <5> QED
          BY <4>2, <5>3
      <4> QED
        BY <4>1, <4>2
    <3> QED
      BY <1>2, <1>3, <3>1, <3>2, LookedKept DEF pollVars
  <2> QED
    BY <2>1, <2>2
<1>6. CASE /\ d \notin devs /\ Cardinality(devs \cup {d}) > devRoom
           /\ UNCHANGED <<devs, queue_area_ns, queue_last_ns, inflight, overtaken>>
  <2>1. Covered'
    BY <1>1, <1>2, <1>6 DEF StableInv, Covered, Quiet
  <2>2. Looked'
    <3> SUFFICES ASSUME NEW e \in looked \ overtaken
                 PROVE  cur'[e] >= Total(Ages(pollMono), Before(e, pollMono))'
      BY <1>3, <1>6 DEF Looked, pollVars
    <3>1. e # d /\ e \in Device
      BY <1>1, <1>6 DEF StableInv, ReportInv, PollOrder
    <3>2. Before(e, pollMono)' = Before(e, pollMono)
      BY <1>2, <1>3, <3>1 DEF Before, Quiet, pollVars
    <3> QED
      BY <1>2, <1>3, <3>2, LookedKept DEF pollVars
  <2> QED
    BY <2>1, <2>2
<1> QED
  BY <1>1, <1>5, <1>6, IssueOutcomes

LEMMA StableComplete ==
  ASSUME StableInv, NEW r \in Request, NEW d \in Device, d = DevOf[r], Complete(r)
  PROVE  Covered' /\ Looked'
<1>1. UNCHANGED <<devStats, pollVars, overtaken>>
  BY DEF Complete
<1>2. /\ BooksTyped /\ devs \subseteq Device /\ looked \subseteq Device /\ GaugeInv /\ RequestInv
      /\ start[r].first_issue_ns \in Nat /\ queue_last_ns \in [Device -> Nat]
      /\ queue_area_ns \in [Device -> Nat]
  BY BooksType, RequestTypes
  DEF StableInv, ReportInv, AreaInv, GaugeInv, RequestInv, TypeOK, DevicesTyped, PollTyped
<1>3. \A q \in Request \ {r} : start'[q] = start[q]
  BY <1>2, CompleteBooks
<1>4. CASE \A e \in Device : Quiet(e)
  BY <1>1, <1>4, StableQuiet
<1>5. CASE /\ \A e \in Device \ {d} : Quiet(e)
           /\ r \in Held(d) /\ Held(d)' = Held(d) \ {r}
           /\ FirstSum(d)' = FirstSum(d) - start[r].first_issue_ns
  <2>1. Covered'
    <3> SUFFICES ASSUME NEW e \in devs \ overtaken
                 PROVE  /\ \A q \in Held(e)' : start'[q].first_issue_ns <= queue_last_ns[e]
                        /\ queue_area_ns[e]
                             >= queue_last_ns[e] * Cardinality(Held(e)') - FirstSum(e)'
      BY <1>1 DEF Covered, devStats
    <3>1. CASE e # d
      BY <1>2, <1>5, <3>1 DEF StableInv, Covered, Quiet
    <3>2. CASE e = d
      <4>1. /\ \A q \in Held(d) : start[q].first_issue_ns <= queue_last_ns[d]
            /\ queue_area_ns[d] >= queue_last_ns[d] * Cardinality(Held(d)) - FirstSum(d)
        BY <3>2 DEF StableInv, Covered
      <4>2. \A q \in Held(d)' : q \in Held(d) /\ start'[q] = start[q]
        BY <1>2, <1>3, <1>5 DEF BooksTyped
      <4>3. Cardinality(Held(d) \ {r}) = Cardinality(Held(d)) - 1
        BY <1>2, <1>5, FS_RemoveElement DEF BooksTyped
      <4>4. Cardinality(Held(d)') = Cardinality(Held(d)) - 1
        BY <1>5, <4>3
      <4>5. Cardinality(Held(d)) \in Int /\ FirstSum(d) \in Int /\ queue_last_ns[d] \in Int
            /\ queue_area_ns[d] \in Int
        BY <1>2 DEF BooksTyped
      <4>6. queue_last_ns[d] * (Cardinality(Held(d)) - 1)
              = queue_last_ns[d] * Cardinality(Held(d)) - queue_last_ns[d]
        BY <4>5, ProductPred
      <4>7. queue_last_ns[d] * Cardinality(Held(d)) \in Int
        BY <4>5
      <4>8. start[r].first_issue_ns <= queue_last_ns[d]
        BY <1>5, <4>1
      <4>9. queue_area_ns[d] >= queue_last_ns[d] * (Cardinality(Held(d)) - 1)
                                  - (FirstSum(d) - start[r].first_issue_ns)
        BY <1>2, <4>1, <4>5, <4>6, <4>7, <4>8
      <4>10. queue_area_ns[d] >= queue_last_ns[d] * Cardinality(Held(d)') - FirstSum(d)'
        BY <1>5, <4>4, <4>9
      <4> QED
        BY <3>2, <4>1, <4>2, <4>10
    <3> QED
      BY <3>1, <3>2
  <2>2. Looked'
    <3> SUFFICES ASSUME NEW e \in looked \ overtaken
                 PROVE  cur'[e] >= Total(Ages(pollMono), Before(e, pollMono))'
      BY <1>1 DEF Looked, pollVars
    <3>1. Held(e)' \subseteq Held(e) /\ \A q \in Held(e)' : start'[q] = start[q]
      <4>1. CASE e # d
        BY <1>2, <1>5, <4>1 DEF Quiet
      <4>2. CASE e = d
        <5>1. Held(d)' \subseteq Held(d) /\ \A q \in Held(d)' : start'[q] = start[q]
          BY <1>2, <1>3, <1>5 DEF BooksTyped
        <5> QED
          BY <4>2, <5>1
      <4> QED
        BY <4>1, <4>2
    <3>2. Before(e, pollMono)' \subseteq Before(e, pollMono)
          /\ \A q \in Before(e, pollMono)' : start'[q] = start[q]
      BY <1>1, <3>1 DEF Before, pollVars
    <3> QED
      BY <1>1, <3>2, LookedKept DEF pollVars
  <2> QED
    BY <2>1, <2>2
<1> QED
  BY <1>2, <1>4, <1>5, CompleteBooks

LEMMA StableEnd ==
  ASSUME StableInv, NEW r \in Request, NEW d \in Device, d = DevOf[r], CompleteAccount(r)
  PROVE  Covered' /\ Looked'
<1>1. /\ stamp[r] \in Nat /\ inflight \in [Device -> Nat] /\ queue_area_ns \in [Device -> Nat]
      /\ queue_last_ns \in [Device -> Nat] /\ BooksTyped /\ devs \subseteq Device
      /\ looked \subseteq Device /\ GaugeInv /\ RequestInv
  BY BooksType DEF StableInv, ReportInv, AreaInv, GaugeInv, RequestInv, TypeOK, DevicesTyped,
                   RequestsTyped, PollTyped
<1>2. /\ start' = start /\ devs' = devs /\ \A e \in Device \ {d} : Quiet(e)
      /\ Held(d)' = Held(d) /\ FirstSum(d)' = FirstSum(d) /\ UNCHANGED pollVars
  BY <1>1, EndBooks, EndOutcomes
<1>3. \A e \in Device : Held(e)' = Held(e) /\ FirstSum(e)' = FirstSum(e)
  BY <1>2 DEF Quiet
<1>4. CASE /\ d \in devs /\ inflight[d] > 0
           /\ queue_area_ns' = [queue_area_ns EXCEPT ![d] = Area(d, stamp[r])]
           /\ queue_last_ns' = [queue_last_ns EXCEPT ![d] = stamp[r]]
           /\ inflight' = [inflight EXCEPT ![d] = @ - 1]
           /\ overtaken' = Overtakes(d, stamp[r])
  <2> SUFFICES ASSUME NEW e \in devs' \ overtaken'
               PROVE  /\ \A q \in Held(e)' : start'[q].first_issue_ns <= queue_last_ns'[e]
                      /\ queue_area_ns'[e]
                           >= queue_last_ns'[e] * Cardinality(Held(e)') - FirstSum(e)'
    <3>1. ASSUME NEW e \in looked \ overtaken'
          PROVE  cur'[e] >= Total(Ages(pollMono), Before(e, pollMono))'
      <4>1. e \in Device /\ e \notin overtaken
        BY <1>1, <1>4 DEF Overtakes
      <4>2. Before(e, pollMono)' = Before(e, pollMono)
        BY <1>2, <1>3, <4>1 DEF Before, pollVars
      <4> QED
        BY <1>2, <4>1, <4>2, LookedKept DEF pollVars
    <3> QED
      BY <1>2, <3>1 DEF Covered, Looked, pollVars
  <2>1. e \in Device /\ e \notin overtaken /\ e \in devs
    BY <1>1, <1>2, <1>4 DEF Overtakes
  <2>2. /\ \A q \in Held(e) : start[q].first_issue_ns <= queue_last_ns[e]
        /\ queue_area_ns[e] >= queue_last_ns[e] * Cardinality(Held(e)) - FirstSum(e)
    BY <2>1 DEF StableInv, Covered
  <2>3. CASE e # d
    BY <1>1, <1>2, <1>3, <1>4, <2>1, <2>2, <2>3
  <2>4. CASE e = d
    <3>1. queue_last_ns[d] <= stamp[r]
      BY <1>1, <1>4, <2>4 DEF Overtakes
    <3>2. queue_area_ns'[d] = ExtendedTo(d, stamp[r]) /\ queue_last_ns'[d] = stamp[r]
      BY <1>1, <1>4, <3>1, ExtendedToIs
    <3>3. ExtendedTo(d, stamp[r]) >= stamp[r] * Cardinality(Held(d)) - FirstSum(d)
      BY <1>1, <2>1, <2>4, <3>1, CoverGrows
    <3>4. \A q \in Held(d) : start[q].first_issue_ns <= stamp[r]
      <4>1. \A q \in Held(d) : start[q].first_issue_ns \in Nat
        BY <1>1, RequestTypes DEF BooksTyped, RequestInv
      <4>2. queue_last_ns[d] \in Nat
        BY <1>1
      <4> QED
        BY <1>1, <2>2, <2>4, <3>1, <4>1, <4>2
    <3>5. \A q \in Held(d)' : start'[q].first_issue_ns <= queue_last_ns'[d]
      BY <1>2, <3>2, <3>4
    <3>6. queue_area_ns'[d] >= queue_last_ns'[d] * Cardinality(Held(d)') - FirstSum(d)'
      BY <1>2, <3>2, <3>3
    <3> QED
      BY <2>4, <3>5, <3>6
  <2> QED
    BY <2>3, <2>4
<1>5. CASE d \notin devs /\ UNCHANGED <<queue_area_ns, queue_last_ns, inflight, overtaken>>
  <2>1. Covered'
    BY <1>1, <1>2, <1>3, <1>5 DEF StableInv, Covered
  <2>2. Looked'
    <3> SUFFICES ASSUME NEW e \in looked \ overtaken
                 PROVE  cur'[e] >= Total(Ages(pollMono), Before(e, pollMono))'
      BY <1>2, <1>5 DEF Looked, pollVars
    <3>1. Before(e, pollMono)' = Before(e, pollMono)
      BY <1>1, <1>2, <1>3 DEF Before, pollVars
    <3> QED
      BY <1>2, <3>1, LookedKept DEF pollVars
  <2> QED
    BY <2>1, <2>2
<1> QED
  BY <1>1, <1>4, <1>5, EndOutcomes

LEMMA StablePoll ==
  ASSUME StableInv, PollStart \/ PollCommit \/ \E d \in Device : PollLookup(d)
  PROVE  Covered' /\ Looked'
<1>1. \A e \in Device : Quiet(e)
  BY QuietOther DEF StableInv, ReportInv, AreaInv, GaugeInv
<1>2. /\ devs \subseteq Device /\ looked \subseteq Device /\ cur \in [Device -> Nat] /\ pollMono \in Nat
      /\ TypeOK
  BY DEF StableInv, ReportInv, AreaInv, GaugeInv, RequestInv, TypeOK, DevicesTyped, PollTyped
<1>3. UNCHANGED <<devStats, start, overtaken>>
  BY DEF PollStart, PollCommit, PollLookup
<1>4. Covered'
  BY <1>1, <1>2, <1>3 DEF StableInv, Covered, Quiet, devStats
<1>5. CASE PollStart \/ PollCommit
  <2>1. looked' = {}
    BY <1>5 DEF PollStart, PollCommit
  <2> QED
    BY <1>4, <2>1 DEF Looked
<1>6. ASSUME NEW d \in Device, PollLookup(d) PROVE Looked'
  <2>1. /\ d \in devs /\ cur' = [cur EXCEPT ![d] = Extended(d)] /\ looked' = looked \cup {d}
        /\ pollMono' = pollMono
    BY <1>6 DEF PollLookup
  <2> SUFFICES ASSUME NEW e \in looked' \ overtaken
               PROVE  cur'[e] >= Total(Ages(pollMono), Before(e, pollMono))'
    BY <1>3 DEF Looked
  <2>2. e \in Device
    BY <1>2, <2>1
  <2>3. Before(e, pollMono)' = Before(e, pollMono)
    BY <1>1, <1>3, <2>1, <2>2 DEF Before, Quiet
  <2>4. CASE e # d
    <3>1. e \in looked \ overtaken /\ cur'[e] = cur[e]
      BY <1>2, <2>1, <2>2, <2>4
    <3> QED
      BY <1>3, <2>1, <2>3, <3>1, LookedKept
  <2>5. CASE e = d
    <3>1. cur'[e] = ExtendedTo(e, pollMono)
      BY <1>2, <2>1, <2>2, <2>5, ExtendedIs
    <3>2. ExtendedTo(e, pollMono) >= Total(Ages(pollMono), Before(e, pollMono))
      BY <1>2, <2>1, <2>5, LookupCovers
    <3>3. Ages(pollMono)' = Ages(pollMono)
      BY <1>3, <2>1 DEF Ages
    <3>4. Total(Ages(pollMono), Before(e, pollMono))' = Total(Ages(pollMono), Before(e, pollMono))
      BY <2>3, <3>3
    <3> QED
      BY <3>1, <3>2, <3>4
  <2> QED
    BY <2>4, <2>5
<1> QED
  BY <1>4, <1>5, <1>6

LEMMA StableStep == StableInv /\ [Next]_vars => StableInv'
<1> SUFFICES ASSUME StableInv, [Next]_vars PROVE StableInv'
  OBVIOUS
<1>1. ReportInv'
  BY ReportStep DEF StableInv
<1> SUFFICES Covered' /\ Looked'
  BY <1>1 DEF StableInv
<1>2. CASE \/ AttachComplete \/ AttachIssue \/ ReadBoundary \/ Arm \/ Tick \/ UNCHANGED vars
           \/ \E r \in Request : Allocate(r) \/ Requeue(r) \/ Issue(r)
  <2>1. \A d \in Device : Quiet(d)
    BY <1>2, GaugeOther DEF StableInv, ReportInv, AreaInv
  <2>2. UNCHANGED <<devStats, pollVars, overtaken>>
    BY <1>2, IdleSteps DEF StableInv, ReportInv, AreaInv, GaugeInv, RequestInv
  <2> QED
    BY <2>1, <2>2, StableQuiet
<1>3. ASSUME NEW r \in Request, IssueAccount(r) \/ Complete(r) \/ CompleteAccount(r)
      PROVE  Covered' /\ Looked'
  <2>1. DevOf[r] \in Device
    BY BlockAssumption
  <2> QED
    BY <1>3, <2>1, StableIssue, StableComplete, StableEnd
<1>4. CASE PollStart \/ PollCommit \/ \E d \in Device : PollLookup(d)
  BY <1>4, StablePoll
<1> QED
  BY <1>2, <1>3, <1>4 DEF Next

(* A request in flight at a poll's time is in the sum of the deltas up to that time, with
   or without an event since it was issued: the poll extends the area it reads. *)
THEOREM FlightIsShown == Spec => StableQueueShown
<1> DEFINE Shown == polls' # polls => \A d \in looked \ overtaken :
              reported'[d] >= MapThenSumSet(
                LAMBDA r : pollMono - start[r].first_issue_ns,
                {r \in InFlight(d) \ InPhase(d, "issuing") : start[r].first_issue_ns < pollMono})
<1>1. StableInv /\ [Next]_vars => Shown
  <2> SUFFICES ASSUME StableInv, [Next]_vars, polls' # polls, NEW d \in looked \ overtaken
               PROVE  reported'[d] >= MapThenSumSet(
                        LAMBDA r : pollMono - start[r].first_issue_ns,
                        {r \in InFlight(d) \ InPhase(d, "issuing") :
                           start[r].first_issue_ns < pollMono})
    OBVIOUS
  <2>1. PollCommit
    <3>1. ASSUME ~PollCommit PROVE UNCHANGED polls
      BY <3>1 DEF Next, vars, AttachComplete, AttachIssue, ReadBoundary, Arm, Tick, PollStart,
                  PollLookup, Allocate, Requeue, Issue, IssueAccount, Complete, CompleteAccount,
                  pollVars
    <3> QED
      BY <3>1
  <2>2. d \in Device /\ TypeOK
    BY DEF StableInv, ReportInv, AreaInv, GaugeInv, RequestInv, TypeOK, PollTyped
  <2>3. reported'[d] = reported[d] + CounterDelta(cur[d], prev[d])
    BY <2>1, <2>2 DEF PollCommit
  <2>4. reported[d] = prev[d] /\ prev[d] <= cur[d] /\ cur[d] \in Nat /\ prev[d] \in Nat
    BY <2>2, DeviceTypes DEF StableInv, ReportInv, ShownKept
  <2>5. reported'[d] = cur[d]
    BY <2>3, <2>4 DEF CounterDelta
  <2>6. Before(d, pollMono)
          = {r \in InFlight(d) \ InPhase(d, "issuing") : start[r].first_issue_ns < pollMono}
    BY DEF Before, Held
  <2>7. Before(d, pollMono) \in SUBSET Request
    BY DEF Before, Held, InFlight, OnDevice
  <2>8. PICK B \in SUBSET Request : B = Before(d, pollMono)
    BY <2>7
  <2>9. MapThenSumSet(LAMBDA r : pollMono - start[r].first_issue_ns, B) = Total(Ages(pollMono), B)
    BY DEF Total, Ages, MapThenSumSet, MapThenFoldSet
  <2>10. cur[d] >= Total(Ages(pollMono), B)
    BY <2>8 DEF StableInv, Looked
  <2> QED
    BY <2>5, <2>6, <2>8, <2>9, <2>10
<1>2. StableInv /\ [Next]_vars => [Shown]_vars
  BY <1>1
<1> QED
  BY <1>2, StableInit, StableStep, PTL DEF Spec, StableQueueShown
=============================================================================
