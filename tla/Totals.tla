------------------------------- MODULE Totals -------------------------------
(***************************************************************************)
(* Sums over finite sets.  MapThenSumSet takes the elements in an order of *)
(* its own; these lemmas say that any order gives the same, and what a sum *)
(* is when an element is added or changed.                                 *)
(*                                                                         *)
(* Each is proved from a least counterexample: of the subsets that refute  *)
(* it, one has none of its own smaller by an element that does too.        *)
(***************************************************************************)
EXTENDS Integers, FiniteSetsExt, FiniteSetTheorems, WellFoundedInduction, TLAPS

\* The element MapThenSumSet takes next.
AnyIn(s) == CHOOSE x \in s : TRUE

\* g is the sum of w over the subsets of T, taken one element after the other.
Sums(g, w, T) ==
  g = [s \in SUBSET T |-> IF s = {} THEN 0 ELSE w[AnyIn(s)] + g[s \ {AnyIn(s)}]]

\* What w comes to over S.
Total(w, S) == MapThenSumSet(LAMBDA x : w[x], S)

\* Numbers in a set have a least one.
LEMMA LeastNumber ==
  ASSUME NEW T \in SUBSET Nat, T # {}
  PROVE  \E n \in T : \A m \in T : n <= m
<1>1. PICK n \in T : \A m \in T : <<m, n>> \notin OpToRel(<, Nat)
  BY NatLessThanWellFounded, WFMin
<1>2. \A m \in T : ~(m < n)
  BY <1>1 DEF OpToRel
<1> QED
  BY <1>2

\* Of some subsets of a finite set one has no other below it.
LEMMA LeastSubset ==
  ASSUME NEW T, IsFiniteSet(T), NEW B \in SUBSET SUBSET T, B # {}
  PROVE  \E s \in B : \A x \in s : s \ {x} \notin B
<1>1. \A s \in B : IsFiniteSet(s) /\ Cardinality(s) \in Nat
  BY FS_Subset, FS_CardinalityType
<1> DEFINE sizes == {Cardinality(s) : s \in B}
<1>2. sizes \in SUBSET Nat /\ sizes # {}
  BY <1>1
<1>3. PICK n \in sizes : \A m \in sizes : n <= m
  BY <1>2, LeastNumber
<1>4. PICK s \in B : Cardinality(s) = n
  BY <1>3
<1>5. ASSUME NEW x \in s, s \ {x} \in B
      PROVE  FALSE
  <2>1. Cardinality(s \ {x}) = Cardinality(s) - 1
    BY <1>1, FS_RemoveElement
  <2>2. n <= Cardinality(s \ {x})
    BY <1>3, <1>5
  <2> QED
    BY <1>1, <1>4, <2>1, <2>2
<1> QED
  BY <1>5

\* It is one of them.
LEMMA AnyInSet == \A s : s # {} => AnyIn(s) \in s
  BY DEF AnyIn

\* There are such sums, which the choice in MapThenSumSet takes for granted.
LEMMA SumsExist ==
  ASSUME NEW T, IsFiniteSet(T), NEW w
  PROVE  \E g : Sums(g, w, T)
<1> DEFINE Small(n) == {s \in SUBSET T : Cardinality(s) <= n}
           Upto(g, n) == g = [s \in Small(n) |-> IF s = {} THEN 0 ELSE w[AnyIn(s)] + g[s \ {AnyIn(s)}]]
           Without == {n \in Nat : \A g : ~Upto(g, n)}
<1>1. \A s \in SUBSET T : IsFiniteSet(s) /\ Cardinality(s) \in Nat
  BY FS_Subset, FS_CardinalityType
<1>2. \E g : Upto(g, 0)
  <2>1. Small(0) = {{}}
    BY <1>1, FS_EmptySet
  <2>2. Upto([s \in Small(0) |-> 0], 0)
    BY <2>1
  <2> QED
    BY <2>2
<1>3. ASSUME NEW n \in Nat, \E g : Upto(g, n)
      PROVE  \E g : Upto(g, n + 1)
  <2>1. PICK g : Upto(g, n)
    BY <1>3
  <2> DEFINE h == [s \in Small(n + 1) |->
                     IF Cardinality(s) <= n THEN g[s] ELSE w[AnyIn(s)] + g[s \ {AnyIn(s)}]]
  <2>2. ASSUME NEW s \in Small(n + 1), s # {}
        PROVE  s \ {AnyIn(s)} \in Small(n) /\ s \ {AnyIn(s)} \in Small(n + 1)
               /\ h[s \ {AnyIn(s)}] = g[s \ {AnyIn(s)}]
    <3>1. AnyIn(s) \in s
      BY <2>2, AnyInSet
    <3>2. Cardinality(s \ {AnyIn(s)}) = Cardinality(s) - 1
      BY <1>1, <3>1, FS_RemoveElement
    <3> QED
      BY <1>1, <3>2
  <2>3. ASSUME NEW s \in Small(n + 1)
        PROVE  h[s] = IF s = {} THEN 0 ELSE w[AnyIn(s)] + h[s \ {AnyIn(s)}]
    <3>1. CASE s = {}
      <4>1. Cardinality(s) = 0 /\ s \in Small(n)
        BY <3>1, FS_EmptySet
      <4>2. g[s] = 0
        BY <2>1, <3>1, <4>1
      <4> QED
        BY <3>1, <4>1, <4>2
    <3>2. CASE s # {} /\ Cardinality(s) <= n
      <4>1. s \in Small(n)
        BY <3>2
      <4>2. g[s] = w[AnyIn(s)] + g[s \ {AnyIn(s)}]
        BY <2>1, <3>2, <4>1
      <4> QED
        BY <2>2, <3>2, <4>2
    <3>3. CASE s # {} /\ ~(Cardinality(s) <= n)
      BY <2>2, <3>3
    <3> QED
      BY <3>1, <3>2, <3>3
  <2> HIDE DEF Small
  <2>4. h = [s \in Small(n + 1) |-> h[s]]
    OBVIOUS
  <2> HIDE DEF h
  <2>5. Upto(h, n + 1)
    BY <2>3, <2>4
  <2> QED
    BY <2>5
<1> HIDE DEF Upto
<1>4. Without = {}
  <2> SUFFICES ASSUME Without # {}
               PROVE  FALSE
    OBVIOUS
  <2>1. Without \in SUBSET Nat
    OBVIOUS
  <2>2. PICK n \in Without : \A m \in Without : n <= m
    BY <2>1, LeastNumber
  <2>3. n # 0
    BY <1>2, <2>2
  <2>4. n - 1 \in Nat /\ n - 1 \notin Without
    BY <2>2, <2>3
  <2>5. \E g : Upto(g, (n - 1) + 1)
    BY <1>3, <2>4
  <2> QED
    BY <2>2, <2>5
<1>5. Cardinality(T) \in Nat /\ Small(Cardinality(T)) = SUBSET T
  BY <1>1, FS_Subset
<1>6. PICK g : Upto(g, Cardinality(T))
  BY <1>4, <1>5
<1> QED
  BY <1>5, <1>6 DEF Upto, Sums

\* And a total is one.
LEMMA TotalIsSums ==
  ASSUME NEW T, NEW w, IsFiniteSet(T)
  PROVE  \E g : Sums(g, w, T) /\ Total(w, T) = g[T]
<1> DEFINE it == CHOOSE g : Sums(g, w, T)
<1>1. Sums(it, w, T)
  BY SumsExist
<1>2. Total(w, T) = it[T]
  BY DEF Total, MapThenSumSet, MapThenFoldSet, Sums, AnyIn
<1> QED
  BY <1>1, <1>2

\* They are numbers when what they add are.
LEMMA SumsTyped ==
  ASSUME NEW T, IsFiniteSet(T), NEW w, \A x \in T : w[x] \in Int, NEW g, Sums(g, w, T)
  PROVE  \A s \in SUBSET T : g[s] \in Int
<1> DEFINE Bad == {r \in SUBSET T : g[r] \notin Int}
<1> SUFFICES ASSUME Bad # {}
             PROVE  FALSE
  OBVIOUS
<1>1. PICK r \in Bad : \A x \in r : r \ {x} \notin Bad
  BY LeastSubset
<1>2. CASE r = {}
  BY <1>1, <1>2 DEF Sums
<1>3. CASE r # {}
  <2>1. AnyIn(r) \in r /\ g[r] = w[AnyIn(r)] + g[r \ {AnyIn(r)}]
    BY <1>3, AnyInSet DEF Sums
  <2>2. g[r \ {AnyIn(r)}] \in Int
    BY <1>1, <2>1
  <2> QED
    BY <1>1, <2>1, <2>2
<1> QED
  BY <1>2, <1>3

\* Any element may be the one added last.
LEMMA SumsInAnyOrder ==
  ASSUME NEW T, IsFiniteSet(T), NEW w, \A x \in T : w[x] \in Int, NEW g, Sums(g, w, T), NEW s \in SUBSET T
  PROVE  g[s] \in Int /\ \A y \in s : g[s] = w[y] + g[s \ {y}]
<1> DEFINE Fine(r) == g[r] \in Int /\ \A y \in r : g[r] = w[y] + g[r \ {y}]
           Bad == {r \in SUBSET T : ~Fine(r)}
<1>1. ASSUME NEW r \in SUBSET T, \A x \in r : Fine(r \ {x})
      PROVE  Fine(r)
  <2>1. CASE r = {}
    BY <2>1 DEF Sums
  <2>2. CASE r # {}
    <3> DEFINE a == AnyIn(r)
    <3>1. a \in r /\ g[r] = w[a] + g[r \ {a}]
      BY <2>2, AnyInSet DEF Sums
    <3> HIDE DEF a
    <3>2. w[a] \in Int /\ g[r \ {a}] \in Int /\ g[r] \in Int
      BY <1>1, <3>1
    <3>3. ASSUME NEW y \in r, y # a
          PROVE  g[r] = w[y] + g[r \ {y}]
      <4>1. g[r \ {a}] = w[y] + g[(r \ {a}) \ {y}]
        BY <1>1, <3>1, <3>3
      <4>2. g[r \ {y}] = w[a] + g[(r \ {y}) \ {a}]
        BY <1>1, <3>1, <3>3
      <4>3. (r \ {a}) \ {y} = (r \ {y}) \ {a}
        OBVIOUS
      <4> DEFINE rest == g[(r \ {y}) \ {a}]
      <4>4. rest \in Int
        <5>1. (r \ {y}) \ {a} \in SUBSET T
          OBVIOUS
        <5> QED
          BY <5>1, SumsTyped
      <4>5. g[r \ {a}] = w[y] + rest /\ g[r \ {y}] = w[a] + rest
        BY <4>1, <4>2, <4>3
      <4>6. w[y] \in Int
        BY <3>3
      <4> HIDE DEF rest
      <4> QED
        BY <3>1, <3>2, <4>4, <4>5, <4>6
    <3> QED
      BY <3>1, <3>2, <3>3
  <2> QED
    BY <2>1, <2>2
<1> HIDE DEF Fine
<1>2. Bad = {}
  <2> SUFFICES ASSUME Bad # {}
               PROVE  FALSE
    OBVIOUS
  <2>1. PICK r \in Bad : \A x \in r : r \ {x} \notin Bad
    BY LeastSubset
  <2>2. \A x \in r : Fine(r \ {x})
    BY <2>1
  <2> QED
    BY <1>1, <2>1, <2>2
<1> QED
  BY <1>2 DEF Fine

\* Sums over two sets agree where they agree on what they add.
LEMMA SumsAgree ==
  ASSUME NEW U, IsFiniteSet(U), NEW T \in SUBSET U, NEW w, NEW v, \A x \in T : w[x] = v[x],
         NEW g, Sums(g, w, T), NEW h, Sums(h, v, U)
  PROVE  \A s \in SUBSET T : g[s] = h[s]
<1> DEFINE Bad == {r \in SUBSET T : g[r] # h[r]}
<1> SUFFICES ASSUME Bad # {}
             PROVE  FALSE
  OBVIOUS
<1>1. IsFiniteSet(T)
  BY FS_Subset
<1>2. PICK r \in Bad : \A x \in r : r \ {x} \notin Bad
  BY <1>1, LeastSubset
<1>3. CASE r = {}
  BY <1>2, <1>3 DEF Sums
<1>4. CASE r # {}
  <2>1. /\ AnyIn(r) \in r
        /\ g[r] = w[AnyIn(r)] + g[r \ {AnyIn(r)}]
        /\ h[r] = v[AnyIn(r)] + h[r \ {AnyIn(r)}]
    BY <1>4, AnyInSet DEF Sums
  <2>2. g[r \ {AnyIn(r)}] = h[r \ {AnyIn(r)}]
    BY <1>2, <2>1
  <2> QED
    BY <1>2, <2>1, <2>2
<1> QED
  BY <1>3, <1>4

\* The total of nothing.
LEMMA TotalEmpty == \A w : Total(w, {}) = 0
<1> SUFFICES ASSUME NEW w
             PROVE  Total(w, {}) = 0
  OBVIOUS
<1>1. PICK g : Sums(g, w, {}) /\ Total(w, {}) = g[{}]
  BY TotalIsSums, FS_EmptySet
<1> QED
  BY <1>1 DEF Sums

\* The total of one element and the others.
LEMMA TotalOf ==
  ASSUME NEW S, IsFiniteSet(S), NEW w, \A y \in S : w[y] \in Int
  PROVE  Total(w, S) \in Int /\ \A x \in S : Total(w, S) = w[x] + Total(w, S \ {x})
<1>1. PICK g : Sums(g, w, S) /\ Total(w, S) = g[S]
  BY TotalIsSums
<1>2. g[S] \in Int /\ \A x \in S : g[S] = w[x] + g[S \ {x}]
  BY <1>1, SumsInAnyOrder
<1>3. ASSUME NEW x \in S
      PROVE  Total(w, S \ {x}) = g[S \ {x}]
  <2> DEFINE R == S \ {x}
  <2>1. R \in SUBSET S /\ IsFiniteSet(R)
    BY FS_Subset
  <2>2. PICK h : Sums(h, w, R) /\ Total(w, R) = h[R]
    BY <2>1, TotalIsSums
  <2> HIDE DEF R
  <2>3. h[R] = g[R]
    BY <1>1, <2>1, <2>2, SumsAgree
  <2> QED
    BY <2>2, <2>3 DEF R
<1> QED
  BY <1>1, <1>2, <1>3

\* Two totals that add the same.
LEMMA TotalAgrees ==
  ASSUME NEW S, IsFiniteSet(S), NEW w, NEW v, \A x \in S : w[x] = v[x]
  PROVE  Total(w, S) = Total(v, S)
<1>1. PICK g : Sums(g, w, S) /\ Total(w, S) = g[S]
  BY TotalIsSums
<1>2. PICK h : Sums(h, v, S) /\ Total(v, S) = h[S]
  BY TotalIsSums
<1>3. g[S] = h[S]
  BY <1>1, <1>2, SumsAgree
<1> QED
  BY <1>1, <1>2, <1>3

\* One summand changes.
LEMMA TotalChanges ==
  ASSUME NEW S, IsFiniteSet(S), NEW w, NEW v, \A y \in S : w[y] \in Int /\ v[y] \in Int,
         NEW x \in S, \A y \in S : y # x => v[y] = w[y]
  PROVE  Total(v, S) = Total(w, S) + (v[x] - w[x])
<1> DEFINE R == S \ {x}
<1>1. IsFiniteSet(R)
  BY FS_Subset
<1>2. Total(w, S) = w[x] + Total(w, R) /\ Total(v, S) = v[x] + Total(v, R)
  BY TotalOf
<1>3. Total(v, R) = Total(w, R)
  BY <1>1, TotalAgrees
<1>4. Total(w, R) \in Int
  BY <1>1, TotalOf
<1> HIDE DEF R
<1> QED
  BY <1>2, <1>3, <1>4

\* Nothing comes of nothing.
LEMMA TotalZero ==
  ASSUME NEW S, IsFiniteSet(S), NEW w, \A x \in S : w[x] = 0
  PROVE  Total(w, S) = 0
<1> DEFINE Bad == {r \in SUBSET S : Total(w, r) # 0}
<1> SUFFICES ASSUME Bad # {}
             PROVE  FALSE
  OBVIOUS
<1>1. PICK r \in Bad : \A x \in r : r \ {x} \notin Bad
  BY LeastSubset
<1>2. CASE r = {}
  BY <1>1, <1>2, TotalEmpty
<1>3. CASE r # {}
  <2>1. PICK x \in r : TRUE
    BY <1>3
  <2>2. IsFiniteSet(r)
    BY FS_Subset
  <2>3. Total(w, r) = w[x] + Total(w, r \ {x})
    BY <2>1, <2>2, TotalOf
  <2>4. Total(w, r \ {x}) = 0
    BY <1>1, <2>1
  <2> QED
    BY <1>1, <2>1, <2>3, <2>4
<1> QED
  BY <1>2, <1>3

\* Larger summands, a larger total.
LEMMA TotalGrows ==
  ASSUME NEW S, IsFiniteSet(S), NEW w, NEW v,
         \A x \in S : w[x] \in Int /\ v[x] \in Int /\ w[x] <= v[x]
  PROVE  Total(w, S) <= Total(v, S)
<1> DEFINE Bad == {r \in SUBSET S : ~(Total(w, r) <= Total(v, r))}
<1> SUFFICES ASSUME Bad # {}
             PROVE  FALSE
  OBVIOUS
<1>1. PICK r \in Bad : \A x \in r : r \ {x} \notin Bad
  BY LeastSubset
<1>2. CASE r = {}
  BY <1>1, <1>2, TotalEmpty
<1>3. CASE r # {}
  <2>1. PICK x \in r : TRUE
    BY <1>3
  <2>2. IsFiniteSet(r) /\ IsFiniteSet(r \ {x})
    BY FS_Subset
  <2>3. Total(w, r) = w[x] + Total(w, r \ {x}) /\ Total(v, r) = v[x] + Total(v, r \ {x})
    BY <2>1, <2>2, TotalOf
  <2>4. Total(w, r \ {x}) <= Total(v, r \ {x})
    BY <1>1, <2>1
  <2>5. /\ Total(w, r \ {x}) \in Int /\ Total(v, r \ {x}) \in Int
        /\ w[x] \in Int /\ v[x] \in Int /\ w[x] <= v[x]
    BY <2>2, TotalOf
  <2>6. Total(w, r) <= Total(v, r)
    BY <2>3, <2>4, <2>5
  <2> QED
    BY <1>1, <2>6
<1> QED
  BY <1>2, <1>3

\* Summands of at most m.
LEMMA TotalAtMost ==
  ASSUME NEW S, IsFiniteSet(S), NEW m \in Int, NEW w, \A x \in S : w[x] \in Int /\ w[x] <= m
  PROVE  Total(w, S) <= Cardinality(S) * m
<1> DEFINE Bad == {r \in SUBSET S : ~(Total(w, r) <= Cardinality(r) * m)}
<1> SUFFICES ASSUME Bad # {}
             PROVE  FALSE
  OBVIOUS
<1>1. PICK r \in Bad : \A x \in r : r \ {x} \notin Bad
  BY LeastSubset
<1>2. CASE r = {}
  BY <1>1, <1>2, TotalEmpty, FS_EmptySet
<1>3. CASE r # {}
  <2>1. PICK x \in r : TRUE
    BY <1>3
  <2>2. IsFiniteSet(r) /\ IsFiniteSet(r \ {x})
    BY FS_Subset
  <2>3. Total(w, r) = w[x] + Total(w, r \ {x}) /\ Total(w, r \ {x}) \in Int
    BY <2>1, <2>2, TotalOf
  <2>4. Total(w, r \ {x}) <= Cardinality(r \ {x}) * m
    BY <1>1, <2>1
  <2>5. Cardinality(r \ {x}) = Cardinality(r) - 1 /\ Cardinality(r) \in Nat
    BY <2>1, <2>2, FS_RemoveElement, FS_CardinalityType
  <2>6. \A n \in Nat : (n - 1) * m = n * m - m /\ n * m \in Int
    OBVIOUS
  <2>7. w[x] \in Int /\ w[x] <= m
    BY <2>1
  <2>8. Total(w, r \ {x}) <= Cardinality(r) * m - m /\ Cardinality(r) * m \in Int
    BY <2>4, <2>5, <2>6
  <2>9. Total(w, r) <= Cardinality(r) * m
    BY <2>3, <2>7, <2>8
  <2> QED
    BY <1>1, <2>9
<1> QED
  BY <1>2, <1>3

\* What is added over a part only, is added over the whole as zero elsewhere.
LEMMA TotalPart ==
  ASSUME NEW S, IsFiniteSet(S), NEW A \in SUBSET S, NEW w, NEW v,
         \A x \in S : v[x] \in Int /\ v[x] = IF x \in A THEN w[x] ELSE 0
  PROVE  Total(w, A) = Total(v, S)
<1> DEFINE Bad == {r \in SUBSET S : Total(w, A \cap r) # Total(v, r)}
<1>1. Bad = {}
  <2> SUFFICES ASSUME Bad # {}
               PROVE  FALSE
    OBVIOUS
  <2>1. PICK r \in Bad : \A x \in r : r \ {x} \notin Bad
    BY LeastSubset
  <2>2. CASE r = {}
    <3>1. A \cap r = {}
      BY <2>2
    <3> QED
      BY <2>1, <2>2, <3>1, TotalEmpty
  <2>3. CASE r # {}
    <3>1. PICK x \in r : TRUE
      BY <2>3
    <3>2. IsFiniteSet(r) /\ IsFiniteSet(A \cap r)
      BY FS_Subset
    <3>3. Total(v, r) = v[x] + Total(v, r \ {x}) /\ Total(v, r \ {x}) \in Int
      BY <3>1, <3>2, TotalOf, FS_RemoveElement
    <3>4. Total(w, A \cap (r \ {x})) = Total(v, r \ {x})
      BY <2>1, <3>1
    <3>5. Total(w, A \cap r) = v[x] + Total(w, A \cap (r \ {x}))
      <4>1. CASE x \in A
        <5>1. Total(w, A \cap r) = w[x] + Total(w, (A \cap r) \ {x})
          BY <3>1, <3>2, <4>1, TotalOf
        <5>2. (A \cap r) \ {x} = A \cap (r \ {x})
          OBVIOUS
        <5> QED
          BY <3>1, <4>1, <5>1, <5>2
      <4>2. CASE x \notin A
        <5>1. A \cap r = A \cap (r \ {x})
          BY <4>2
        <5>2. v[x] = 0
          BY <3>1, <4>2
        <5>3. Total(w, A \cap r) = Total(w, A \cap (r \ {x}))
          BY <5>1, Zenon
        <5> QED
          BY <3>3, <3>4, <5>2, <5>3
      <4> QED
        BY <4>1, <4>2
    <3> QED
      BY <2>1, <3>3, <3>4, <3>5
  <2> QED
    BY <2>2, <2>3
<1>2. A \cap S = A
  OBVIOUS
<1> QED
  BY <1>1, <1>2
=============================================================================
