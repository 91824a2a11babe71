------------------------------ MODULE Folding ------------------------------
(***************************************************************************)
(* What holds of a fold over a sequence, whatever one step of it makes:    *)
(* it has a value, and the value is that of the last of its steps.  The    *)
(* community module defines the fold by a function on sets of indices,     *)
(* which has to be shown to exist and to be unique.                        *)
(***************************************************************************)
EXTENDS Integers, SequencesExt, FiniteSetTheorems, NaturalsInduction, TLAPS

CONSTANT Step(_, _, _) \* one step: of which fold, what it has so far, the element

-----------------------------------------------------------------------------
(* Numbers and indices.                                                    *)
\* A set of numbers that is not empty has a smallest member: induction in first-order form.
LEMMA Smallest ==
  ASSUME NEW T \in SUBSET Nat, T # {}
  PROVE  \E m \in T : \A k \in T : m <= k
<1>1. \E m \in T : \A k \in T : <<k, m>> \notin OpToRel(<, Nat)
  BY NatLessThanWellFounded, WFMin
<1>2. \A k, m \in T : <<k, m>> \in OpToRel(<, Nat) <=> k < m
  BY DEF OpToRel
<1>3. PICK m \in T : \A k \in T : <<k, m>> \notin OpToRel(<, Nat)
  BY <1>1
<1>4. \A k \in T : ~(k < m)
  BY <1>2, <1>3
<1> QED
  BY <1>4

LEMMA StepByStep ==
  ASSUME NEW n \in Nat, NEW T, 0 \in T, \A k \in 1..n : k - 1 \in T => k \in T
  PROVE  \A k \in 0..n : k \in T
<1> DEFINE bad == {k \in 0..n : k \notin T}
<1>1. SUFFICES ASSUME bad # {} PROVE FALSE
  OBVIOUS
<1>2. PICK m \in bad : \A k \in bad : m <= k
  <2>1. bad \in SUBSET Nat
    OBVIOUS
  <2> QED
    BY <1>1, <2>1, Smallest
<1>3. m \in 1..n /\ m - 1 \in 0..n /\ ~(m <= m - 1)
  OBVIOUS
<1>4. m - 1 \in T
  BY <1>2, <1>3
<1> QED
  BY <1>3, <1>4

\* The last index of a part of a sequence.
LEMMA LastIndex ==
  ASSUME NEW n \in Nat, NEW S \in SUBSET (1..n), S # {}
  PROVE  Max(S) \in S /\ \A k \in S : k <= Max(S)
<1> DEFINE T == {n - k : k \in S}
<1>0. \A k \in S : n - k \in Nat /\ k \in Nat
  OBVIOUS
<1>1. T \in SUBSET Nat /\ T # {}
  BY <1>0
<1>2. PICK m \in T : \A k \in T : m <= k
  BY <1>1, Smallest
<1>3. PICK x \in S : m = n - x
  OBVIOUS
<1>4. \A k \in S : n - k \in T
  OBVIOUS
<1>5. \A k \in S : x >= k
  <2>1. \A k \in S : n - x <= n - k
    BY <1>2, <1>3, <1>4
  <2> QED
    BY <1>0, <2>1
<1>6. \E y \in S : \A k \in S : y >= k
  BY <1>5
<1>7. Max(S) \in S /\ \A k \in S : Max(S) >= k
  BY <1>6 DEF Max
<1> QED
  BY <1>7

LEMMA FirstIndex ==
  ASSUME NEW S \in SUBSET Nat, S # {}
  PROVE  Min(S) \in S /\ \A k \in S : Min(S) <= k
BY Smallest DEF Min

LEMMA PartsAreFinite ==
  ASSUME NEW n \in Nat, NEW S \in SUBSET (1..n)
  PROVE  IsFiniteSet(S) /\ Cardinality(S) \in Nat
<1>1. IsFiniteSet(1..n)
  BY FS_Interval
<1> QED
  BY <1>1, FS_Subset, FS_CardinalityType

-----------------------------------------------------------------------------
(* Folds, and what a fold is after k steps.                                *)

\* The fold as a function on the sets of the indices that are done.
Folds(f, how, old, new, S) ==
  f = [s \in SUBSET S |-> IF s = {} THEN old ELSE Step(how, f[s \ {Max(s)}], new[Max(s)])]
Folded(how, old, new) == (CHOOSE f : Folds(f, how, old, new, DOMAIN new))[DOMAIN new]

Indices(S) == \E n \in Nat : S \in SUBSET (1..n)

LEMMA FoldsAgree ==
  ASSUME NEW S, Indices(S), NEW how, NEW old, NEW new, NEW a, NEW b,
         Folds(a, how, old, new, S), Folds(b, how, old, new, S)
  PROVE  \A s \in SUBSET S : a[s] = b[s]
<1>0. PICK n \in Nat : S \in SUBSET (1..n)
  BY DEF Indices
<1> DEFINE differ == {s \in SUBSET S : a[s] # b[s]}
<1> DEFINE sizes == {Cardinality(s) : s \in differ}
<1>1. SUFFICES ASSUME differ # {} PROVE FALSE
  OBVIOUS
<1>2. \A s \in SUBSET S : IsFiniteSet(s) /\ Cardinality(s) \in Nat
  <2>1. \A s \in SUBSET S : s \in SUBSET (1..n)
    BY <1>0
  <2> QED
    BY <2>1, PartsAreFinite
<1>3. sizes \in SUBSET Nat /\ sizes # {}
  BY <1>1, <1>2
<1>4. PICK m \in sizes : \A k \in sizes : m <= k
  BY <1>3, Smallest
<1>5. PICK s \in differ : Cardinality(s) = m
  OBVIOUS
<1>6. s # {}
  BY DEF Folds
<1> DEFINE u == s \ {Max(s)}
<1>7. Max(s) \in s
  <2>1. s \in SUBSET (1..n)
    BY <1>0
  <2> QED
    BY <1>6, <2>1, LastIndex
<1>8. u \in SUBSET S /\ Cardinality(u) = m - 1 /\ Cardinality(u) \in Nat /\ m \in Nat
  BY <1>2, <1>5, <1>7, FS_RemoveElement
<1>9. a[u] = b[u]
  <2>1. ~(m <= m - 1)
    BY <1>8
  <2>2. Cardinality(u) \notin sizes
    BY <1>4, <1>8, <2>1
  <2> QED
    BY <1>8, <2>2
<1>10. a[s] = Step(how, a[u], new[Max(s)]) /\ b[s] = Step(how, b[u], new[Max(s)])
  BY <1>6 DEF Folds
<1> QED
  BY <1>9, <1>10

LEMMA FoldsBelow ==
  ASSUME NEW S, NEW how, NEW old, NEW new, NEW a, Folds(a, how, old, new, S), NEW T \in SUBSET S
  PROVE  Folds([s \in SUBSET T |-> a[s]], how, old, new, T)
<1>1. \A s \in SUBSET T : s \in SUBSET S /\ s \ {Max(s)} \in SUBSET T
  OBVIOUS
<1>2. \A s \in SUBSET S : a[s] = IF s = {} THEN old ELSE Step(how, a[s \ {Max(s)}], new[Max(s)])
  BY DEF Folds
<1> DEFINE r == [s \in SUBSET T |-> a[s]]
<1>3. \A s \in SUBSET T : r[s] = IF s = {} THEN old ELSE Step(how, r[s \ {Max(s)}], new[Max(s)])
  BY <1>1, <1>2
<1> QED
  BY <1>3 DEF Folds

LEMMA FoldsExist ==
  ASSUME NEW n \in Nat, NEW how, NEW old, NEW new
  PROVE  \E f : Folds(f, how, old, new, 1..n)
<1> DEFINE Has(T) == \E f : Folds(f, how, old, new, T)
<1> DEFINE bad == {k \in Nat : \E T \in SUBSET (1..n) : Cardinality(T) = k /\ ~Has(T)}
<1>0. \A T \in SUBSET (1..n) : IsFiniteSet(T) /\ Cardinality(T) \in Nat
  BY PartsAreFinite
<1>1. SUFFICES ASSUME bad # {} PROVE FALSE
  BY <1>0
<1>2. PICK m \in bad : \A k \in bad : m <= k
  BY <1>1, Smallest
<1>3. PICK T \in SUBSET (1..n) : Cardinality(T) = m /\ ~Has(T)
  BY <1>2
<1> DEFINE F(s) == CHOOSE f : Folds(f, how, old, new, s)
<1>4. ASSUME NEW s \in SUBSET T, s # T
      PROVE  Folds(F(s), how, old, new, s) /\ s \in SUBSET (1..n)
  <2>1. Cardinality(s) \in Nat /\ Cardinality(s) <= m /\ Cardinality(s) # m
    BY <1>0, <1>3, <1>4, FS_Subset
  <2>2. Cardinality(s) \notin bad
    BY <1>2, <2>1
  <2>3. Has(s)
    BY <2>1, <2>2
  <2> QED
    BY <2>1, <2>3
<1> DEFINE below(s) == s \ {Max(s)}
<1> DEFINE f ==
  [s \in SUBSET T |-> IF s = {} THEN old ELSE Step(how, F(below(s))[below(s)], new[Max(s)])]
<1>5. \A s \in SUBSET T : s # {} => Max(s) \in s /\ below(s) \in SUBSET T /\ below(s) # T
  BY LastIndex
<1>6. ASSUME NEW s \in SUBSET T, s # T
      PROVE  f[s] = F(s)[s]
  <2>1. Folds(F(s), how, old, new, s) /\ s \in SUBSET s
    BY <1>4, <1>6
  <2>2. CASE s = {}
    BY <2>1, <2>2 DEF Folds
  <2>3. CASE s # {}
    <3> DEFINE u == below(s)
    <3>1. u \in SUBSET s /\ u \in SUBSET T /\ u # T
      BY <1>5, <2>3
    <3>2. Folds(F(u), how, old, new, u) /\ u \in SUBSET (1..n)
      BY <1>4, <3>1
    <3> HIDE DEF F
    <3>3. Folds([v \in SUBSET u |-> F(s)[v]], how, old, new, u)
      BY <2>1, <3>1, FoldsBelow
    <3> DEFINE r == [v \in SUBSET u |-> F(s)[v]]
    <3>4. \A v \in SUBSET u : r[v] = F(u)[v]
      <4> DEFINE b == F(u)
      <4>1. Folds(r, how, old, new, u) /\ Folds(b, how, old, new, u) /\ Indices(u)
        BY <3>2, <3>3 DEF Indices
      <4> HIDE DEF r, u, b, f, bad, Has
      <4>2. \A v \in SUBSET u : r[v] = b[v]
        BY <4>1, FoldsAgree
      <4> QED
        BY <4>2 DEF b
    <3>5. F(s)[s] = Step(how, F(s)[u], new[Max(s)])
      BY <2>1, <2>3 DEF Folds
    <3> QED
      BY <2>3, <3>1, <3>4, <3>5
  <2> QED
    BY <2>2, <2>3
<1>7. Folds(f, how, old, new, T)
  <2> HIDE DEF F
  <2>1. \A s \in SUBSET T : s # {} => f[below(s)] = F(below(s))[below(s)]
    BY <1>5, <1>6
  <2>2. \A s \in SUBSET T : f[s] = IF s = {} THEN old ELSE Step(how, f[below(s)], new[Max(s)])
    BY <2>1
  <2> QED
    BY <2>2 DEF Folds
<1> QED
  BY <1>3, <1>7

LEMMA MaxOfInterval ==
  ASSUME NEW k \in Nat, k > 0
  PROVE  Max(1..k) = k /\ (1..k) \ {k} = 1..(k - 1) /\ k - 1 \in Nat
<1>1. 1..k \in SUBSET (1..k) /\ k \in 1..k
  OBVIOUS
<1>2. Max(1..k) \in 1..k /\ k <= Max(1..k)
  BY <1>1, LastIndex
<1> QED
  BY <1>2

\* The values of a fold from step to step.
Runs(g, how, old, new, n) ==
  g[0] = old /\ \A k \in 1..n : g[k] = Step(how, g[k - 1], new[k])

LEMMA FoldRuns ==
  ASSUME NEW n \in Nat, NEW how, NEW old, NEW new, NEW f, Folds(f, how, old, new, 1..n)
  PROVE  \E g : Runs(g, how, old, new, n) /\ f[1..n] = g[n]
<1> DEFINE g == [k \in 0..n |-> f[1..k]]
<1>1. g[0] = old
  <2>1. 1..0 = {} /\ {} \in SUBSET (1..n) /\ 0 \in 0..n
    OBVIOUS
  <2> QED
    BY <2>1 DEF Folds
<1>2. ASSUME NEW k \in 1..n
      PROVE  g[k] = Step(how, g[k - 1], new[k])
  <2>1. Max(1..k) = k /\ (1..k) \ {k} = 1..(k - 1) /\ k - 1 \in 0..n /\ k \in 0..n
    BY MaxOfInterval
  <2>2. 1..k \in SUBSET (1..n) /\ 1..k # {}
    <3>1. 1 \in 1..k /\ \A j \in 1..k : j \in 1..n
      OBVIOUS
    <3> QED
      BY <3>1
  <2>3. f[1..k] = Step(how, f[(1..k) \ {Max(1..k)}], new[Max(1..k)])
    BY <2>2 DEF Folds
  <2> QED
    BY <2>1, <2>3
<1>3. Runs(g, how, old, new, n)
  BY <1>1, <1>2 DEF Runs
<1> HIDE DEF g
<1>4. g[n] = f[1..n]
  BY DEF g
<1> QED
  BY <1>3, <1>4

LEMMA FoldedRuns ==
  ASSUME NEW n \in Nat, NEW how, NEW old, NEW new, DOMAIN new = 1..n
  PROVE  \E g : Runs(g, how, old, new, n) /\ Folded(how, old, new) = g[n]
<1> DEFINE f == CHOOSE h : Folds(h, how, old, new, 1..n)
<1>1. Folds(f, how, old, new, 1..n)
  BY FoldsExist
<1>2. Folded(how, old, new) = f[1..n]
  BY DEF Folded
<1> HIDE DEF f
<1> QED
  BY <1>1, <1>2, FoldRuns
=============================================================================
