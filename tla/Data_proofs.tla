----------------------------- MODULE Data_proofs -----------------------------
(***************************************************************************)
(* Proofs about the data of a training step: how a batch is shared, how its *)
(* rows move through the columns of the driver, and how dynamic sampling    *)
(* keeps them.                                                             *)
(*                                                                         *)
(* Balancing: every row is in exactly one part, no part is empty, parts are *)
(* of equal size where that is asked for, and the loads of two parts differ *)
(* by at most one row.  StepData: the columns of the batch are about the    *)
(* same rows, and an actor trains on each kept row once.  DynamicSampling:  *)
(* what is kept, and what is cut, is whole groups.  Advantages: an estimate *)
(* moves with its row whatever the order of the batch, and the sweeps over  *)
(* a response count its own tokens.                                         *)
(***************************************************************************)
EXTENDS Balancing, StepData, Advantages, DynamicSampling,
        FiniteSetTheorems, SequenceTheorems, WellFoundedInduction, TLAPS

-----------------------------------------------------------------------------
(* The inductive invariant.                                                *)

Set == [items : SUBSET Items, sum : Nat]

TypeInv ==
  /\ weight \in [Items -> Nat \ {0}]
  /\ equal \in BOOLEAN
  /\ states \subseteq [Parts -> Set]

\* State.merge leaves the sets in decreasing order of their sums.
Ordered == \A s \in states : Descending(s)

\* A set has no load exactly when it has no row.
Weighted == \A s \in states : \A i \in Parts : s[i].sum = 0 <=> s[i].items = {}

\* Where a set is empty, every set of the state has at most one row.
Alike(S) == \A x, y \in S : x = y
Sparse(s) == (\E i \in Parts : s[i].items = {}) => \A i \in Parts : Alike(s[i].items)
SparseStates == \A s \in states : Sparse(s)

\* With equal_size no set of any state is empty.
Full == equal => \A s \in states : \A i \in Parts : s[i].items # {}

IInv == /\ TypeInv /\ Shared /\ Ordered /\ Weighted /\ SparseStates
        /\ Full /\ EqualSizes /\ SpreadBounded

-----------------------------------------------------------------------------
(* Parts and orders.                                                       *)

LEMMA PartFacts ==
  /\ K \in Nat \ {0} /\ NumItems \in Nat /\ NumItems >= K
  /\ 1 \in Parts /\ K \in Parts
  /\ \A i \in Parts : i \in Nat /\ 1 <= i /\ i <= K /\ K + 1 - i \in Parts
  /\ \A i \in Items : i \in Nat /\ 1 <= i /\ i <= NumItems
BY BalancingAssumption DEF Parts, Items

LEMMA FiniteParts ==
  /\ IsFiniteSet(Parts) /\ Cardinality(Parts) = K
  /\ IsFiniteSet(Items) /\ Cardinality(Items) = NumItems
<1>1. \A n \in Nat : IsFiniteSet(1..n) /\ Cardinality(1..n) = n
  <2> SUFFICES ASSUME NEW n \in Nat PROVE IsFiniteSet(1..n) /\ Cardinality(1..n) = n
    OBVIOUS
  <2>1. IsFiniteSet(1..n) /\ Cardinality(1..n) = IF 1 > n THEN 0 ELSE n - 1 + 1
    BY FS_Interval
  <2> QED BY <2>1
<1> QED BY <1>1, PartFacts DEF Parts, Items

\* An injective function from a finite set to itself reaches every member.
LEMMA Onto ==
  ASSUME NEW S, IsFiniteSet(S), NEW p \in [S -> S],
         \A i, j \in S : p[i] = p[j] => i = j
  PROVE  \A j \in S : \E i \in S : p[i] = j
<1>1. p \in Injection(S, S)
  BY DEF Injection, IsInjective
<1>2. p \in Surjection(S, S)
  BY <1>1, FS_Injection
<1> QED BY <1>2 DEF Surjection

LEMMA ShuffleOnto ==
  ASSUME NEW p \in Shuffles
  PROVE  /\ p \in [Parts -> Parts]
         /\ \A i, j \in Parts : p[i] = p[j] => i = j
         /\ \A j \in Parts : \E i \in Parts : p[i] = j
BY Onto, FiniteParts DEF Shuffles

\* What a merged and sorted state is made of.
LEMMA MergedParts ==
  ASSUME NEW s, NEW t, NEW m \in Sorted(Merged(s, t))
  PROVE  /\ Descending(m)
         /\ \E p \in Shuffles :
              /\ m = [i \in Parts |-> Merged(s, t)[p[i]]]
              /\ \A i \in Parts : m[i] = Joined(s[p[i]], t[K + 1 - p[i]])
<1>1. Descending(m)
  BY DEF Sorted
<1>2. PICK p \in Shuffles : m = [i \in Parts |-> Merged(s, t)[p[i]]]
  BY DEF Sorted
<1>3. \A i \in Parts : m[i] = Joined(s[p[i]], t[K + 1 - p[i]])
  BY <1>2, ShuffleOnto DEF Merged, Opposite
<1> QED BY <1>1, <1>2, <1>3

LEMMA MergedIs ==
  ASSUME TypeInv, NEW s \in states, NEW t \in states, NEW m \in Sorted(Merged(s, t))
  PROVE  /\ m \in [Parts -> Set]
         /\ Descending(m)
         /\ \E p \in Shuffles : \A i \in Parts :
              /\ p[i] \in Parts /\ K + 1 - p[i] \in Parts
              /\ m[i].items = s[p[i]].items \cup t[K + 1 - p[i]].items
              /\ m[i].sum = s[p[i]].sum + t[K + 1 - p[i]].sum
<1>1. PICK p \in Shuffles :
        /\ m = [i \in Parts |-> Merged(s, t)[p[i]]]
        /\ \A i \in Parts : m[i] = Joined(s[p[i]], t[K + 1 - p[i]])
  BY MergedParts
<1>2. \A i \in Parts : p[i] \in Parts /\ K + 1 - p[i] \in Parts
  BY ShuffleOnto, PartFacts
<1>3. \A i, j \in Parts : Joined(s[i], t[j]) \in Set
  <2> SUFFICES ASSUME NEW i \in Parts, NEW j \in Parts PROVE Joined(s[i], t[j]) \in Set
    OBVIOUS
  <2>1. s[i] \in Set /\ t[j] \in Set
    BY DEF TypeInv
  <2> QED BY <2>1 DEF Joined, Set
<1>4. \A i \in Parts : m[i] \in Set
  BY <1>1, <1>2, <1>3
<1>5. m \in [Parts -> Set]
  BY <1>1, <1>4
<1>6. \A i \in Parts : /\ m[i].items = s[p[i]].items \cup t[K + 1 - p[i]].items
                       /\ m[i].sum = s[p[i]].sum + t[K + 1 - p[i]].sum
  <2>1. \A a, b : Joined(a, b).items = a.items \cup b.items /\ Joined(a, b).sum = a.sum + b.sum
    BY DEF Joined
  <2> QED BY <1>1, <2>1
<1> QED BY <1>2, <1>5, <1>6, MergedParts

\* The two states that are merged, and the one that takes their place.
Merges(s, t, m) ==
  /\ s \in states /\ t \in states /\ s # t
  /\ Spread(s) >= Spread(t)
  /\ m \in Sorted(Merged(s, t))
  /\ states' = (states \ {s, t}) \cup {m}
  /\ weight' = weight /\ equal' = equal

LEMMA MergeIs == Merge => \E s, t, m : Merges(s, t, m)
<1> SUFFICES ASSUME Merge PROVE \E s, t, m : Merges(s, t, m)
  OBVIOUS
<1>1. PICK s, t \in states :
        /\ s # t /\ Spread(s) >= Spread(t)
        /\ \E m \in Sorted(Merged(s, t)) : states' = Rest(s, t) \cup {m}
        /\ UNCHANGED <<weight, equal>>
  BY DEF Merge
<1>2. PICK m \in Sorted(Merged(s, t)) : states' = Rest(s, t) \cup {m}
  BY <1>1
<1>3. Merges(s, t, m)
  BY <1>1, <1>2 DEF Merges, Rest
<1> QED BY <1>3

LEMMA TypeMerge ==
  ASSUME TypeInv, NEW s, NEW t, NEW m, Merges(s, t, m)
  PROVE  TypeInv'
<1>1. m \in [Parts -> Set]
  BY MergedIs DEF Merges
<1> QED BY <1>1 DEF TypeInv, Merges, Set, Parts, Items

LEMMA OrderMerge ==
  ASSUME TypeInv, Ordered, NEW s, NEW t, NEW m, Merges(s, t, m)
  PROVE  Ordered'
<1>1. Descending(m)
  BY MergedIs DEF Merges
<1> QED BY <1>1 DEF Ordered, Merges, Descending

LEMMA WeightedMerge ==
  ASSUME TypeInv, Weighted, NEW s, NEW t, NEW m, Merges(s, t, m)
  PROVE  Weighted'
<1>1. PICK p \in Shuffles : \A i \in Parts :
              /\ p[i] \in Parts /\ K + 1 - p[i] \in Parts
              /\ m[i].items = s[p[i]].items \cup t[K + 1 - p[i]].items
              /\ m[i].sum = s[p[i]].sum + t[K + 1 - p[i]].sum
  BY MergedIs DEF Merges
<1>2. \A i \in Parts : m[i].sum = 0 <=> m[i].items = {}
  <2> SUFFICES ASSUME NEW i \in Parts PROVE m[i].sum = 0 <=> m[i].items = {}
    OBVIOUS
  <2> DEFINE a == s[p[i]]
             b == t[K + 1 - p[i]]
  <2>1. /\ a \in Set /\ b \in Set
        /\ a.sum = 0 <=> a.items = {}
        /\ b.sum = 0 <=> b.items = {}
    BY <1>1 DEF Weighted, TypeInv, Merges
  <2>2. m[i].sum = a.sum + b.sum /\ m[i].items = a.items \cup b.items
    BY <1>1
  <2>3. a.sum \in Nat /\ b.sum \in Nat
    BY <2>1 DEF Set
  <2> HIDE DEF a, b
  <2>4. m[i].sum = 0 <=> a.sum = 0 /\ b.sum = 0
    BY <2>2, <2>3
  <2> QED BY <2>1, <2>2, <2>4
<1> QED BY <1>2 DEF Weighted, Merges

\* Every row of the new state was in one of the two old ones, and the other way
\* round.
LEMMA SharedMerge ==
  ASSUME TypeInv, Shared, NEW s, NEW t, NEW m, Merges(s, t, m)
  PROVE  Shared'
<1>1. PICK p \in Shuffles : \A i \in Parts :
              /\ p[i] \in Parts /\ K + 1 - p[i] \in Parts
              /\ m[i].items = s[p[i]].items \cup t[K + 1 - p[i]].items
              /\ m[i].sum = s[p[i]].sum + t[K + 1 - p[i]].sum
  BY MergedIs DEF Merges
<1>2. /\ \A i, j \in Parts : p[i] = p[j] => i = j
      /\ \A j \in Parts : \E i \in Parts : p[i] = j
  BY ShuffleOnto
<1>3. \A i, j \in Parts : K + 1 - p[i] = K + 1 - p[j] => i = j
  <2> SUFFICES ASSUME NEW i \in Parts, NEW j \in Parts, K + 1 - p[i] = K + 1 - p[j] PROVE i = j
    OBVIOUS
  <2>1. p[i] \in Nat /\ p[j] \in Nat /\ K \in Nat
    BY <1>1, PartFacts
  <2>2. p[i] = p[j]
    BY <2>1
  <2> QED BY <2>2, <1>2
<1>4. s \in states /\ t \in states /\ s # t /\ states' = (states \ {s, t}) \cup {m}
  BY DEF Merges
<1>5. \A x \in Items : \E u \in states' : \E i \in Parts : x \in u[i].items
  <2> SUFFICES ASSUME NEW x \in Items PROVE \E u \in states' : \E i \in Parts : x \in u[i].items
    OBVIOUS
  <2>1. PICK u \in states : \E i \in Parts : x \in u[i].items
    BY DEF Shared
  <2>2. PICK i \in Parts : x \in u[i].items
    BY <2>1
  <2>3. CASE u = s
    <3>1. PICK j \in Parts : p[j] = i
      BY <1>2
    <3>2. x \in m[j].items
      BY <1>1, <2>2, <2>3, <3>1
    <3> QED BY <1>4, <3>2
  <2>4. CASE u = t
    <3>1. K + 1 - i \in Parts /\ K + 1 - (K + 1 - i) = i
      BY PartFacts
    <3>2. PICK j \in Parts : p[j] = K + 1 - i
      BY <1>2, <3>1
    <3>3. x \in m[j].items
      BY <1>1, <2>2, <2>4, <3>1, <3>2
    <3> QED BY <1>4, <3>3
  <2>5. CASE u # s /\ u # t
    BY <1>4, <2>2, <2>5
  <2> QED BY <2>3, <2>4, <2>5
<1>6. \A u, v \in states : \A i, j \in Parts : \A x : x \in u[i].items /\ x \in v[j].items => u = v /\ i = j
  BY DEF Shared
<1>7. ASSUME NEW i \in Parts, NEW x \in m[i].items
      PROVE  \/ x \in s[p[i]].items
             \/ x \in t[K + 1 - p[i]].items
  BY <1>1, <1>7
<1>8. ASSUME NEW u \in states \ {s, t}, NEW i \in Parts, NEW j \in Parts
      PROVE  u[i].items \cap m[j].items = {}
  BY <1>1, <1>4, <1>6, <1>7, <1>8
<1>9. ASSUME NEW i \in Parts, NEW j \in Parts, NEW x \in m[i].items \cap m[j].items
      PROVE  i = j
  <2>1. x \in s[p[i]].items \/ x \in t[K + 1 - p[i]].items
    BY <1>7, <1>9
  <2>2. x \in s[p[j]].items \/ x \in t[K + 1 - p[j]].items
    BY <1>7, <1>9
  <2>3. /\ p[i] \in Parts /\ K + 1 - p[i] \in Parts
        /\ p[j] \in Parts /\ K + 1 - p[j] \in Parts
    BY <1>1
  <2>4. x \in s[p[i]].items /\ x \in s[p[j]].items => p[i] = p[j]
    BY <1>4, <1>6, <2>3
  <2>5. x \in t[K + 1 - p[i]].items /\ x \in t[K + 1 - p[j]].items => K + 1 - p[i] = K + 1 - p[j]
    BY <1>4, <1>6, <2>3
  <2>6. \A a, b \in Parts : ~(x \in s[a].items /\ x \in t[b].items)
    BY <1>4, <1>6
  <2> QED BY <2>1, <2>2, <2>3, <2>4, <2>5, <2>6, <1>2, <1>3
<1>10. \A u, v \in states' : \A i, j \in Parts : \A x \in u[i].items \cap v[j].items : u = v /\ i = j
  <2> SUFFICES ASSUME NEW u \in states', NEW v \in states', NEW i \in Parts, NEW j \in Parts,
                      NEW x \in u[i].items \cap v[j].items
               PROVE  u = v /\ i = j
    OBVIOUS
  <2>1. CASE u = m /\ v = m
    BY <1>9, <2>1
  <2>2. CASE u # m /\ v # m
    BY <1>4, <1>6, <2>2
  <2>3. CASE u = m /\ v # m
    BY <1>4, <1>8, <2>3
  <2>4. CASE u # m /\ v = m
    BY <1>4, <1>8, <2>4
  <2> QED BY <2>1, <2>2, <2>3, <2>4
<1> QED BY <1>5, <1>10 DEF Shared, Items, Parts

\* If a set of the new state is empty, the sets of one old state are empty from
\* some place on and those of the other up to its opposite.
LEMMA SparseMerge ==
  ASSUME TypeInv, Ordered, Weighted, SparseStates, NEW s, NEW t, NEW m, Merges(s, t, m)
  PROVE  SparseStates'
<1>1. PICK p \in Shuffles : \A i \in Parts :
              /\ p[i] \in Parts /\ K + 1 - p[i] \in Parts
              /\ m[i].items = s[p[i]].items \cup t[K + 1 - p[i]].items
              /\ m[i].sum = s[p[i]].sum + t[K + 1 - p[i]].sum
  BY MergedIs DEF Merges
<1>2. ASSUME NEW u \in states, NEW j \in Parts, u[j].items = {}
      PROVE  \A i \in Parts : i >= j => u[i].items = {}
  <2> SUFFICES ASSUME NEW i \in Parts, i >= j PROVE u[i].items = {}
    OBVIOUS
  <2>1. u[j].sum = 0 /\ u[i].sum <= u[j].sum
    BY <1>2 DEF Weighted, Ordered, Descending
  <2>2. u[i].sum \in Nat
    BY DEF TypeInv, Set
  <2>3. u[i].sum = 0
    BY <2>1, <2>2
  <2> QED BY <2>3 DEF Weighted
<1>3. Sparse(m)
  <2> SUFFICES ASSUME NEW j \in Parts, m[j].items = {}, NEW i \in Parts
               PROVE  Alike(m[i].items)
    BY DEF Sparse
  <2>1. s[p[j]].items = {} /\ t[K + 1 - p[j]].items = {}
    BY <1>1
  <2>2. s \in states /\ t \in states
    BY DEF Merges
  <2>3. Alike(s[p[i]].items) /\ Alike(t[K + 1 - p[i]].items)
    BY <1>1, <2>1, <2>2 DEF SparseStates, Sparse
  <2>4. p[i] \in Nat /\ p[j] \in Nat
    BY <1>1, PartFacts
  <2>5. CASE p[i] >= p[j]
    <3>1. s[p[i]].items = {}
      BY <1>1, <1>2, <2>1, <2>2, <2>5
    <3> QED BY <1>1, <2>3, <3>1 DEF Alike
  <2>6. CASE ~(p[i] >= p[j])
    <3>1. K + 1 - p[i] >= K + 1 - p[j]
      BY <2>4, <2>6, PartFacts
    <3>2. t[K + 1 - p[i]].items = {}
      BY <1>1, <1>2, <2>1, <2>2, <3>1
    <3> QED BY <1>1, <2>3, <3>2 DEF Alike
  <2> QED BY <2>5, <2>6
<1> QED BY <1>3 DEF SparseStates, Sparse, Alike, Merges

\* Sets of different states are disjoint.
LEMMA Disjoint ==
  ASSUME Shared, TypeInv, NEW s \in states, NEW t \in states, s # t, NEW i \in Parts, NEW j \in Parts
  PROVE  s[i].items \cap t[j].items = {}
BY DEF Shared

LEMMA FullMerge ==
  ASSUME TypeInv, Full, NEW s, NEW t, NEW m, Merges(s, t, m)
  PROVE  Full'
<1>1. PICK p \in Shuffles : \A i \in Parts :
              /\ p[i] \in Parts /\ K + 1 - p[i] \in Parts
              /\ m[i].items = s[p[i]].items \cup t[K + 1 - p[i]].items
              /\ m[i].sum = s[p[i]].sum + t[K + 1 - p[i]].sum
  BY MergedIs DEF Merges
<1> QED BY <1>1 DEF Full, Merges

LEMMA ItemsFinite ==
  ASSUME TypeInv, NEW s \in states, NEW i \in Parts
  PROVE  IsFiniteSet(s[i].items) /\ Cardinality(s[i].items) \in Nat
<1>1. s[i].items \in SUBSET Items
  BY DEF TypeInv, Set
<1> QED BY <1>1, FiniteParts, FS_Subset, FS_CardinalityType

LEMMA EqualMerge ==
  ASSUME TypeInv, Shared, EqualSizes, NEW s, NEW t, NEW m, Merges(s, t, m)
  PROVE  EqualSizes'
<1>1. PICK p \in Shuffles : \A i \in Parts :
              /\ p[i] \in Parts /\ K + 1 - p[i] \in Parts
              /\ m[i].items = s[p[i]].items \cup t[K + 1 - p[i]].items
              /\ m[i].sum = s[p[i]].sum + t[K + 1 - p[i]].sum
  BY MergedIs DEF Merges
<1>2. s \in states /\ t \in states /\ s # t
  BY DEF Merges
<1>3. ASSUME NEW i \in Parts
      PROVE  Cardinality(m[i].items) = Cardinality(s[p[i]].items) + Cardinality(t[K + 1 - p[i]].items)
  <2> DEFINE a == s[p[i]].items
             b == t[K + 1 - p[i]].items
  <2>1. a \cap b = {} /\ m[i].items = a \cup b
    BY <1>1, <1>2, Disjoint
  <2>2. IsFiniteSet(a) /\ IsFiniteSet(b) /\ Cardinality(a) \in Nat /\ Cardinality(b) \in Nat
    BY <1>1, <1>2, ItemsFinite
  <2> HIDE DEF a, b
  <2>3. Cardinality(a \cup b) = Cardinality(a) + Cardinality(b) - Cardinality(a \cap b)
    BY <2>2, FS_Union
  <2>4. Cardinality(a \cap b) = 0
    BY <2>1, FS_EmptySet
  <2>5. Cardinality(m[i].items) = Cardinality(a) + Cardinality(b)
    BY <2>1, <2>2, <2>3, <2>4
  <2> QED BY <2>5 DEF a, b
<1>4. equal => \A i, j \in Parts : Cardinality(m[i].items) = Cardinality(m[j].items)
  <2> SUFFICES ASSUME equal, NEW i \in Parts, NEW j \in Parts
               PROVE  Cardinality(m[i].items) = Cardinality(m[j].items)
    OBVIOUS
  <2>1. /\ Cardinality(s[p[i]].items) = Cardinality(s[p[j]].items)
        /\ Cardinality(t[K + 1 - p[i]].items) = Cardinality(t[K + 1 - p[j]].items)
    BY <1>1, <1>2 DEF EqualSizes
  <2> QED BY <1>3, <2>1
<1> QED BY <1>4 DEF EqualSizes, Merges

\* Opposite sets meet, so the new spread is at most that of one old state.
LEMMA SpreadMerge ==
  ASSUME TypeInv, Ordered, SpreadBounded, NEW s, NEW t, NEW m, Merges(s, t, m)
  PROVE  SpreadBounded'
<1>1. PICK p \in Shuffles : \A i \in Parts :
              /\ p[i] \in Parts /\ K + 1 - p[i] \in Parts
              /\ m[i].items = s[p[i]].items \cup t[K + 1 - p[i]].items
              /\ m[i].sum = s[p[i]].sum + t[K + 1 - p[i]].sum
  BY MergedIs DEF Merges
<1>2. s \in states /\ t \in states
  BY DEF Merges
<1>3. \A u \in states : \A i \in Parts : u[i].sum \in Nat
  BY DEF TypeInv, Set
<1>4. \A u \in states : \A i, j \in Parts : i <= j => u[i].sum >= u[j].sum
  BY DEF Ordered, Descending
<1> DEFINE a == p[1]
           b == p[K]
<1>5. /\ a \in Parts /\ b \in Parts /\ K + 1 - a \in Parts /\ K + 1 - b \in Parts
      /\ m[1].sum = s[a].sum + t[K + 1 - a].sum
      /\ m[K].sum = s[b].sum + t[K + 1 - b].sum
  BY <1>1, PartFacts
<1> HIDE DEF a, b
<1>6. \A u \in states : \A i \in Parts : u[1].sum >= u[i].sum /\ u[i].sum >= u[K].sum
  BY <1>4, PartFacts
<1>7. Spread(m) <= Spread(s) \/ Spread(m) <= Spread(t)
  <2>1. CASE a <= b
    <3>1. K + 1 - b <= K + 1 - a
      <4>1. a \in Nat /\ b \in Nat /\ K \in Nat
        BY <1>5, PartFacts
      <4> QED BY <4>1, <2>1
    <3>2. t[K + 1 - b].sum >= t[K + 1 - a].sum
      BY <1>2, <1>4, <1>5, <3>1
    <3>3. s[1].sum >= s[a].sum /\ s[b].sum >= s[K].sum
      BY <1>2, <1>5, <1>6
    <3>4. /\ s[1].sum \in Nat /\ s[K].sum \in Nat /\ s[a].sum \in Nat /\ s[b].sum \in Nat
          /\ t[K + 1 - a].sum \in Nat /\ t[K + 1 - b].sum \in Nat
      BY <1>2, <1>3, <1>5, PartFacts
    <3>5. m[1].sum - m[K].sum <= s[1].sum - s[K].sum
      BY <1>5, <3>2, <3>3, <3>4
    <3> QED BY <3>5 DEF Spread
  <2>2. CASE ~(a <= b)
    <3>1. b <= a
      <4>1. a \in Nat /\ b \in Nat
        BY <1>5, PartFacts
      <4> QED BY <4>1, <2>2
    <3>2. s[b].sum >= s[a].sum
      BY <1>2, <1>4, <1>5, <3>1
    <3>3. t[1].sum >= t[K + 1 - a].sum /\ t[K + 1 - b].sum >= t[K].sum
      BY <1>2, <1>5, <1>6
    <3>4. /\ t[1].sum \in Nat /\ t[K].sum \in Nat /\ s[a].sum \in Nat /\ s[b].sum \in Nat
          /\ t[K + 1 - a].sum \in Nat /\ t[K + 1 - b].sum \in Nat
      BY <1>2, <1>3, <1>5, PartFacts
    <3>5. m[1].sum - m[K].sum <= t[1].sum - t[K].sum
      BY <1>5, <3>2, <3>3, <3>4
    <3> QED BY <3>5 DEF Spread
  <2> QED BY <2>1, <2>2
<1>8. Spread(m) \in Int /\ Spread(s) \in Int /\ Spread(t) \in Int
  <2>1. m \in [Parts -> Set]
    BY MergedIs DEF Merges
  <2>2. m[1].sum \in Nat /\ m[K].sum \in Nat
    BY <2>1, PartFacts DEF Set
  <2>3. s[1].sum \in Nat /\ s[K].sum \in Nat /\ t[1].sum \in Nat /\ t[K].sum \in Nat
    BY <1>2, <1>3, PartFacts
  <2> QED BY <2>2, <2>3 DEF Spread
<1>9. \E x, y \in Items : Spread(m) <= weight[x] - (IF equal THEN weight[y] ELSE 0)
  <2>1. ASSUME NEW u \in states, Spread(u) \in Int, Spread(m) <= Spread(u)
        PROVE  \E x, y \in Items : Spread(m) <= weight[x] - (IF equal THEN weight[y] ELSE 0)
    <3>1. PICK x, y \in Items : Spread(u) <= weight[x] - (IF equal THEN weight[y] ELSE 0)
      BY DEF SpreadBounded
    <3>2. weight[x] - (IF equal THEN weight[y] ELSE 0) \in Int
      BY DEF TypeInv
    <3>3. Spread(m) <= weight[x] - (IF equal THEN weight[y] ELSE 0)
      BY <1>8, <2>1, <3>1, <3>2
    <3> QED BY <3>3
  <2> QED BY <1>2, <1>7, <1>8, <2>1
<1> QED BY <1>9 DEF SpreadBounded, Merges, Spread

LEMMA InvMerge == IInv /\ [Merge]_balancing => IInv'
<1> SUFFICES ASSUME IInv, [Merge]_balancing PROVE IInv'
  OBVIOUS
<1>1. CASE Merge
  <2>1. PICK s, t, m : Merges(s, t, m)
    BY <1>1, MergeIs
  <2> QED BY <2>1, TypeMerge, SharedMerge, OrderMerge, WeightedMerge, SparseMerge, FullMerge,
             EqualMerge, SpreadMerge DEF IInv
<1>2. CASE UNCHANGED balancing
  <2>1. UNCHANGED <<weight, equal, states>>
    BY <1>2 DEF balancing
  <2>2. TypeInv' /\ Shared' /\ Ordered' /\ Weighted'
    BY <2>1, ZenonT(30) DEF IInv, TypeInv, Shared, Ordered, Descending, Weighted, Set, Parts, Items
  <2>3. SparseStates' /\ Full' /\ EqualSizes' /\ SpreadBounded'
    BY <2>1, ZenonT(30) DEF IInv, SparseStates, Sparse, Alike, Full, EqualSizes, SpreadBounded, Spread, Parts, Items
  <2> QED BY <2>2, <2>3, ZenonT(30) DEF IInv, SpreadBounded, Alike
<1> QED BY <1>1, <1>2

-----------------------------------------------------------------------------
(* The initial states.                                                     *)

LEMMA AloneIs ==
  ASSUME weight \in [Items -> Nat \ {0}], NEW x \in Items
  PROVE  /\ Alone(x) \in [Parts -> Set]
         /\ \A i \in Parts :
              /\ i = 1 => Alone(x)[i].items = {x} /\ Alone(x)[i].sum = weight[x]
              /\ i # 1 => Alone(x)[i].items = {} /\ Alone(x)[i].sum = 0
<1>1. weight[x] \in Nat
  OBVIOUS
<1>2. [items |-> {x}, sum |-> weight[x]] \in Set /\ [items |-> {}, sum |-> 0] \in Set
  BY <1>1 DEF Set
<1> QED BY <1>2, PartFacts DEF Alone, Single, None

LEMMA InitAlone == BalancingInit /\ ~equal => IInv
<1> SUFFICES ASSUME BalancingInit, ~equal PROVE IInv
  OBVIOUS
<1>1. weight \in [Items -> Nat \ {0}] /\ equal \in BOOLEAN /\ states = {Alone(x) : x \in Items}
  BY BalancingAssumption DEF BalancingInit
<1>2. TypeInv
  <2>1. \A x \in Items : Alone(x) \in [Parts -> Set]
    BY <1>1, AloneIs
  <2> QED BY <1>1, <2>1 DEF TypeInv
<1>3. \A x \in Items : \A i \in Parts :
        /\ i = 1 => Alone(x)[i].items = {x} /\ Alone(x)[i].sum = weight[x]
        /\ i # 1 => Alone(x)[i].items = {} /\ Alone(x)[i].sum = 0
  BY <1>1, AloneIs
<1>4. Shared
  <2>1. \A x \in Items : \E s \in states : \E i \in Parts : x \in s[i].items
    BY <1>1, <1>3, PartFacts
  <2>2. \A x \in Items : \A i \in Parts : \A y \in Alone(x)[i].items : y = x /\ i = 1
    BY <1>3
  <2>3. \A s, t \in states : \A i, j \in Parts : \A x \in s[i].items \cap t[j].items :
          s = t /\ i = j
    BY <1>1, <2>2
  <2> QED BY <2>1, <2>3 DEF Shared
<1>5. \A x \in Items : weight[x] \in Nat /\ weight[x] # 0
  BY <1>1
<1>6. Ordered
  <2> SUFFICES ASSUME NEW x \in Items, NEW i \in Parts, NEW j \in Parts, i <= j
               PROVE  Alone(x)[i].sum >= Alone(x)[j].sum
    BY <1>1 DEF Ordered, Descending
  <2>1. CASE j = 1
    <3>1. i = 1
      BY <2>1, PartFacts
    <3> QED BY <1>3, <1>5, <2>1, <3>1
  <2>2. CASE j # 1
    BY <1>3, <1>5, <2>2
  <2> QED BY <2>1, <2>2
<1>7. Weighted
  BY <1>1, <1>3, <1>5, SMTT(20) DEF Weighted
<1>8. SparseStates
  BY <1>1, <1>3 DEF SparseStates, Sparse, Alike
<1>9. Full /\ EqualSizes
  BY DEF Full, EqualSizes
<1>10. SpreadBounded
  <2> SUFFICES ASSUME NEW x \in Items PROVE Spread(Alone(x)) <= weight[x] - 0
    BY <1>1 DEF SpreadBounded
  <2>1. Alone(x)[1].sum = weight[x] /\ (K = 1 \/ Alone(x)[K].sum = 0)
    BY <1>3, PartFacts
  <2>2. CASE K = 1
    BY <1>5, <2>1, <2>2 DEF Spread
  <2>3. CASE Alone(x)[K].sum = 0
    BY <1>5, <2>1, <2>3 DEF Spread
  <2> QED BY <2>1, <2>2, <2>3
<1> QED BY <1>2, <1>4, <1>6, <1>7, <1>8, <1>9, <1>10 DEF IInv

LEMMA DivMod ==
  ASSUME NEW a \in Nat, NEW b \in Nat \ {0}
  PROVE  a \div b \in Nat /\ a % b \in 0..(b - 1) /\ a = b * (a \div b) + (a % b)
OBVIOUS

\* What is known of a product of which the factors are compared.
LEMMA Products ==
  ASSUME NEW k \in Nat \ {0}, NEW c \in Nat, NEW d \in Nat, c < d
  PROVE  c * k \in Nat /\ d * k \in Nat /\ c * k + k <= d * k
<1>1. d - c - 1 \in Nat
  OBVIOUS
<1>2. (d - c - 1) * k \in Nat
  BY <1>1
<1>3. (d - c - 1) * k = d * k - c * k - k
  OBVIOUS
<1>4. c * k \in Nat /\ d * k \in Nat
  OBVIOUS
<1> QED BY <1>2, <1>3, <1>4

\* The rows of the runs of K: every place of the list is in one run, once.
LEMMA Places ==
  ASSUME NumItems % K = 0
  PROVE  /\ NumItems \div K \in Nat
         /\ \A c \in 1..(NumItems \div K), j \in Parts :
              c \in Nat /\ c * K \in Nat /\ c * K + 1 - j \in Items
         /\ \A n \in Items : \E c \in 1..(NumItems \div K), j \in Parts : n = c * K + 1 - j
         /\ \A c, d \in 1..(NumItems \div K) : \A i, j \in Parts :
              c * K + 1 - i = d * K + 1 - j => c = d /\ i = j
<1> DEFINE q == NumItems \div K
<1>1. q \in Nat /\ NumItems = K * q
  <2>1. q \in Nat /\ NumItems = K * q + (NumItems % K)
    BY DivMod, PartFacts
  <2> HIDE DEF q
  <2> QED BY <2>1, PartFacts
<1> HIDE DEF q
<1>2. ASSUME NEW c \in 1..q, NEW j \in Parts
      PROVE  c \in Nat /\ c * K \in Nat /\ c * K + 1 - j \in Items
  <2>1. c \in Nat /\ c >= 1 /\ c <= q /\ K \in Nat /\ K # 0
    BY <1>1, PartFacts
  <2>2. K <= c * K
    <3>1. 0 * K + K <= c * K
      BY <2>1, Products
    <3> QED BY <3>1, <2>1
  <2>3. c * K <= K * q
    <3>1. CASE c = q
      BY <1>1, <2>1, <3>1
    <3>2. CASE c < q
      <4>1. c * K + K <= q * K /\ c * K \in Nat
        BY <1>1, <2>1, <3>2, Products
      <4> QED BY <4>1, <1>1, <2>1
    <3> QED BY <2>1, <3>1, <3>2, <1>1
  <2>4. c * K \in Nat
    BY <2>1
  <2>5. j \in Nat /\ 1 <= j /\ j <= K
    BY PartFacts
  <2>6. c * K + 1 - j \in 1..NumItems
    BY <1>1, <2>1, <2>2, <2>3, <2>4, <2>5, PartFacts
  <2> QED BY <2>1, <2>4, <2>6 DEF Items
<1>3. ASSUME NEW n \in Items
      PROVE  \E c \in 1..q, j \in Parts : n = c * K + 1 - j
  <2> DEFINE d == (n - 1) \div K
             r == (n - 1) % K
  <2>1. n - 1 \in Nat /\ n <= NumItems /\ K \in Nat \ {0}
    BY PartFacts
  <2>2. d \in Nat /\ r \in 0..(K - 1) /\ n - 1 = K * d + r
    BY <2>1, DivMod
  <2> HIDE DEF d, r
  <2>3. d < q
    <3>1. SUFFICES ASSUME ~(d < q) PROVE FALSE
      OBVIOUS
    <3>2. K * q <= K * d
      <4>1. CASE d = q
        BY <4>1, <1>1, <2>1, <2>2
      <4>2. CASE q < d
        <5>1. q * K + K <= d * K /\ q * K \in Nat /\ d * K \in Nat
          BY <4>2, <1>1, <2>1, <2>2, Products
        <5> QED BY <5>1, <1>1, <2>1, <2>2
      <4> QED BY <3>1, <4>1, <4>2, <1>1, <2>2
    <3>3. n \in Nat /\ r \in Nat /\ K * q \in Nat /\ K * d \in Nat
      BY <1>1, <2>1, <2>2, PartFacts
    <3> QED BY <3>2, <3>3, <1>1, <2>1, <2>2
  <2>4. d + 1 \in 1..q /\ K - r \in Parts
    BY <1>1, <2>1, <2>2, <2>3 DEF Parts
  <2>5. (d + 1) * K = K * d + K
    BY <2>1, <2>2
  <2>6. n = (d + 1) * K + 1 - (K - r)
    BY <2>1, <2>2, <2>5, PartFacts
  <2> QED BY <2>4, <2>6
<1>4. ASSUME NEW c \in 1..q, NEW d \in 1..q, NEW i \in Parts, NEW j \in Parts,
             c * K + 1 - i = d * K + 1 - j
      PROVE  c = d /\ i = j
  <2>1. /\ c \in Nat /\ d \in Nat /\ c * K \in Nat /\ d * K \in Nat
        /\ i \in Nat /\ 1 <= i /\ i <= K /\ j \in Nat /\ 1 <= j /\ j <= K /\ K \in Nat \ {0}
    BY <1>2, PartFacts
  <2>2. ~(c < d)
    <3>1. c < d => c * K + K <= d * K
      BY <2>1, Products
    <3> QED BY <2>1, <3>1, <1>4
  <2>3. ~(d < c)
    <3>1. d < c => d * K + K <= c * K
      BY <2>1, Products
    <3> QED BY <2>1, <3>1, <1>4
  <2>4. c = d
    BY <2>1, <2>2, <2>3
  <2> QED BY <2>1, <2>4, <1>4
<1> QED BY <1>1, <1>2, <1>3, <1>4 DEF q

LEMMA InOrderOnto ==
  ASSUME weight \in [Items -> Nat \ {0}], NEW order \in [Items -> Items], InOrder(order)
  PROVE  /\ \A i, j \in Items : order[i] = order[j] => i = j
         /\ \A x \in Items : \E i \in Items : order[i] = x
         /\ \A i, j \in Items : i <= j => weight[order[i]] <= weight[order[j]]
<1>1. ASSUME NEW i \in Items, NEW j \in Items, i < j
      PROVE  order[i] # order[j] /\ weight[order[i]] <= weight[order[j]]
  <2>1. /\ order[i] \in Nat /\ order[j] \in Nat
        /\ weight[order[i]] \in Nat /\ weight[order[j]] \in Nat
    BY PartFacts
  <2>2. \/ weight[order[i]] < weight[order[j]]
        \/ weight[order[i]] = weight[order[j]] /\ order[i] < order[j]
    BY <1>1 DEF InOrder
  <2> QED BY <2>1, <2>2
<1>2. \A i, j \in Items : order[i] = order[j] => i = j
  <2> SUFFICES ASSUME NEW i \in Items, NEW j \in Items, order[i] = order[j] PROVE i = j
    OBVIOUS
  <2>1. i \in Nat /\ j \in Nat
    BY PartFacts
  <2>2. ~(i < j) /\ ~(j < i)
    BY <1>1
  <2> QED BY <2>1, <2>2
<1>3. \A x \in Items : \E i \in Items : order[i] = x
  BY <1>2, Onto, FiniteParts
<1>4. \A i, j \in Items : i <= j => weight[order[i]] <= weight[order[j]]
  <2> SUFFICES ASSUME NEW i \in Items, NEW j \in Items, i <= j
               PROVE  weight[order[i]] <= weight[order[j]]
    OBVIOUS
  <2>1. i \in Nat /\ j \in Nat /\ weight[order[i]] \in Nat
    BY PartFacts
  <2>2. i = j \/ i < j
    BY <2>1
  <2> QED BY <1>1, <2>1, <2>2
<1> QED BY <1>2, <1>3, <1>4

LEMMA InitEqual == BalancingInit /\ equal => IInv
<1> SUFFICES ASSUME BalancingInit, equal PROVE IInv
  OBVIOUS
<1>1. weight \in [Items -> Nat \ {0}] /\ equal \in BOOLEAN /\ NumItems % K = 0
  BY BalancingAssumption DEF BalancingInit
<1>2. PICK order \in [Items -> Items] :
        InOrder(order) /\ states = {Run(order, c) : c \in 1..(NumItems \div K)}
  BY DEF BalancingInit
<1> DEFINE C == 1..(NumItems \div K)
           at(c, j) == order[c * K + 1 - j]
<1>3. /\ \A i, j \in Items : order[i] = order[j] => i = j
      /\ \A x \in Items : \E i \in Items : order[i] = x
      /\ \A i, j \in Items : i <= j => weight[order[i]] <= weight[order[j]]
  BY <1>1, <1>2, InOrderOnto
<1>4. /\ \A c \in C, j \in Parts :
           c \in Nat /\ c * K \in Nat /\ c * K + 1 - j \in Items
      /\ \A n \in Items : \E c \in C, j \in Parts : n = c * K + 1 - j
      /\ \A c, d \in C : \A i, j \in Parts :
           c * K + 1 - i = d * K + 1 - j => c = d /\ i = j
  BY <1>1, Places
<1>5. states = {Run(order, c) : c \in C}
  BY <1>2
<1> HIDE DEF C
<1>6. /\ \A c \in C, j \in Parts : at(c, j) \in Items
      /\ \A c \in C, j \in Parts : Run(order, c)[j] = Single(at(c, j))
  <2>1. \A c \in C, j \in Parts : at(c, j) \in Items
    BY <1>2, <1>4
  <2>2. \A c \in C, j \in Parts : Run(order, c)[j] = Single(at(c, j))
    BY DEF Run
  <2> QED BY <2>1, <2>2
<1>7. \A c, d \in C : \A i, j \in Parts : at(c, i) = at(d, j) => c = d /\ i = j
  BY <1>3, <1>4
<1>8. \A x \in Items : \E c \in C, j \in Parts : at(c, j) = x
  BY <1>3, <1>4
<1>9. \A x \in Items : weight[x] \in Nat /\ weight[x] # 0
  BY <1>1
<1>10. ASSUME NEW c \in C, NEW i \in Parts, NEW j \in Parts, i <= j
       PROVE  weight[at(c, j)] <= weight[at(c, i)]
  <2>1. /\ c * K + 1 - i \in Items /\ c * K + 1 - j \in Items
        /\ c * K \in Nat /\ i \in Nat /\ j \in Nat
    BY <1>4, PartFacts
  <2>2. c * K + 1 - j <= c * K + 1 - i
    BY <2>1, <1>10
  <2> QED BY <1>3, <2>1, <2>2
<1> HIDE DEF at
<1>18. PICK run : run = [c \in C |-> Run(order, c)]
  OBVIOUS
<1>19. /\ \A c \in C, j \in Parts : run[c][j].items = {at(c, j)}
       /\ \A c \in C, j \in Parts : run[c][j].sum = weight[at(c, j)]
  <2>1. \A c \in C, j \in Parts : run[c][j] = Single(at(c, j))
    BY <1>6, <1>18
  <2>2. ASSUME NEW x PROVE Single(x).items = {x} /\ Single(x).sum = weight[x]
    BY DEF Single
  <2>3. \A c \in C, j \in Parts : run[c][j].items = {at(c, j)}
    BY <2>1, <2>2
  <2>4. \A c \in C, j \in Parts : run[c][j].sum = weight[at(c, j)]
    BY <2>1, <2>2
  <2> QED BY <2>3, <2>4
<1>20. \A c \in C : run[c] \in [Parts -> Set]
  <2>1. \A c \in C, j \in Parts : at(c, j) \in Items /\ weight[at(c, j)] \in Nat
    BY <1>6, <1>9
  <2>4. ASSUME NEW x \in Items, weight[x] \in Nat PROVE Single(x) \in Set
    BY <2>4 DEF Single, Set
  <2>2. \A c \in C, j \in Parts : run[c][j] \in Set
    BY <1>6, <1>18, <2>1, <2>4
  <2>3. \A c \in C : run[c] = [j \in Parts |-> run[c][j]]
    BY <1>18 DEF Run
  <2> QED BY <2>2, <2>3
<1>21. states = {run[c] : c \in C}
  BY <1>5, <1>18
<1>11. TypeInv
  BY <1>1, <1>20, <1>21 DEF TypeInv
<1>12. Shared
  <2>1. ASSUME NEW x \in Items PROVE \E s \in states : \E i \in Parts : x \in s[i].items
    <3>1. PICK c \in C, j \in Parts : at(c, j) = x
      BY <1>8
    <3>2. run[c] \in states /\ x \in run[c][j].items
      BY <1>19, <1>21, <3>1
    <3> QED BY <3>2
  <2>2. ASSUME NEW c \in C, NEW d \in C, NEW i \in Parts, NEW j \in Parts,
               NEW x \in run[c][i].items \cap run[d][j].items
        PROVE  run[c] = run[d] /\ i = j
    <3>1. x = at(c, i) /\ x = at(d, j)
      BY <1>19, <2>2
    <3>2. at(c, i) = at(d, j)
      BY <3>1
    <3>3. c = d /\ i = j
      BY <1>7, <3>2
    <3> QED BY <3>3
  <2> QED BY <1>21, <2>1, <2>2 DEF Shared
<1>13. Ordered
  <2>1. ASSUME NEW c \in C, NEW i \in Parts, NEW j \in Parts, i <= j
        PROVE  run[c][i].sum >= run[c][j].sum
    <3>1. weight[at(c, i)] \in Nat /\ weight[at(c, j)] \in Nat
      BY <1>6, <1>9
    <3>2. run[c][i].sum = weight[at(c, i)] /\ run[c][j].sum = weight[at(c, j)]
      BY <1>19
    <3> QED BY <1>10, <2>1, <3>1, <3>2
  <2> QED BY <1>21, <2>1 DEF Ordered, Descending
<1>14. \A c \in C : \A i \in Parts : run[c][i].items # {} /\ run[c][i].sum # 0
  <2>1. \A c \in C, i \in Parts : at(c, i) \in Items /\ weight[at(c, i)] # 0
    BY <1>6, <1>9
  <2> QED BY <1>19, <2>1
<1>15. Weighted /\ SparseStates /\ Full
  BY <1>1, <1>14, <1>21 DEF Weighted, SparseStates, Sparse, Full
<1>16. EqualSizes
  <2>1. ASSUME NEW c \in C, NEW i \in Parts PROVE Cardinality(run[c][i].items) = 1
    <3>1. run[c][i].items = {at(c, i)}
      BY <1>19
    <3>2. Cardinality({at(c, i)}) = 1
      BY FS_Singleton
    <3> QED BY <3>1, <3>2
  <2> QED BY <1>21, <2>1 DEF EqualSizes
<1>17. SpreadBounded
  <2>1. ASSUME NEW c \in C
        PROVE  \E x, y \in Items : Spread(run[c]) <= weight[x] - weight[y]
    <3>1. /\ at(c, 1) \in Items /\ at(c, K) \in Items
          /\ run[c][1].sum = weight[at(c, 1)] /\ run[c][K].sum = weight[at(c, K)]
      BY <1>6, <1>19, PartFacts
    <3>2. Spread(run[c]) <= weight[at(c, 1)] - weight[at(c, K)]
      BY <1>9, <3>1 DEF Spread
    <3> QED BY <3>1, <3>2
  <2> QED BY <1>1, <1>21, <2>1 DEF SpreadBounded
<1> QED BY <1>11, <1>12, <1>13, <1>15, <1>16, <1>17 DEF IInv

LEMMA Invariant == BalancingSpec => []IInv
<1>1. BalancingInit => IInv
  BY InitAlone, InitEqual
<1> QED BY <1>1, InvMerge, PTL DEF BalancingSpec

-----------------------------------------------------------------------------
(* The theorems.                                                           *)

\* Every row is in exactly one set of one state, at every moment: no row of a
\* batch is lost or given to two ranks (_check_and_sort_partitions).
THEOREM SharesEveryRow == BalancingSpec => []Shared
BY Invariant, PTL DEF IInv

\* An empty part would leave at most one row in each of the K - 1 others.
LEMMA FinalNotEmpty == IInv => NeverEmpty
<1> SUFFICES ASSUME IInv, Finished, NEW s \in states, NEW j \in Parts, s[j].items = {}
             PROVE  FALSE
  BY DEF NeverEmpty
<1>1. \A i \in Parts : Alike(s[i].items)
  BY DEF IInv, SparseStates, Sparse
<1>2. \A x \in Items : \E i \in Parts : x \in s[i].items
  BY DEF IInv, Shared, Finished
<1> DEFINE part == [x \in Items |-> CHOOSE i \in Parts : x \in s[i].items]
<1>3. \A x \in Items : part[x] \in Parts /\ x \in s[part[x]].items
  BY <1>2
<1>4. part \in [Items -> Parts \ {j}]
  BY <1>3
<1> HIDE DEF part
<1>5. IsFiniteSet(Parts \ {j}) /\ Cardinality(Parts \ {j}) = K - 1
  BY FiniteParts, FS_RemoveElement
<1>6. Cardinality(Parts \ {j}) < Cardinality(Items)
  BY <1>5, FiniteParts, PartFacts
<1>7. \E x, y \in Items : x # y /\ part[x] = part[y]
  BY <1>4, <1>5, <1>6, FiniteParts, FS_PigeonHole
<1> QED BY <1>1, <1>3, <1>7 DEF Alike

\* With as many rows as parts no part is empty at the end
\* (get_seqlen_balanced_partitions).
THEOREM LeavesNoPartEmpty == BalancingSpec => []NeverEmpty
BY Invariant, FinalNotEmpty, PTL

\* With equal_size all parts have as many rows at every moment (karmarkar_karp's
\* closing assertion), so every rank gets an equal chunk.
THEOREM KeepsSizesEqual == BalancingSpec => []EqualSizes
BY Invariant, PTL DEF IInv

\* The checks of get_seqlen_balanced_partitions and karmarkar_karp never fail,
\* whatever the rows weigh.
THEOREM PartitionsValid == BalancingSpec => []ValidPartition
BY SharesEveryRow, LeavesNoPartEmpty, KeepsSizesEqual, PTL DEF ValidPartition

\* Two parts never differ by more than one row's load; with equal_size by no more
\* than the difference of two rows.
THEOREM BoundsTheSpread == BalancingSpec => []SpreadBounded
BY Invariant, PTL DEF IInv

LEMMA LeastOf ==
  ASSUME NEW S, S \subseteq Nat, S # {}
  PROVE  \E n \in S : \A m \in S : n <= m
<1> DEFINE Below == {p \in Nat \X Nat : p[1] < p[2]}
<1>1. IsWellFoundedOn(Below, Nat)
  BY NatLessThanWellFounded, Zenon DEF OpToRel
<1>2. PICK n \in S : \A m \in S : ~ (<<m, n>> \in Below)
  BY <1>1, WFMin
<1>3. \A m \in S : ~ (m < n)
  BY <1>2
<1> HIDE DEF Below
<1> QED BY <1>3

LEMMA Induct ==
  ASSUME NEW S, 0 \in S, \A n \in Nat : n \in S => n + 1 \in S
  PROVE  \A n \in Nat : n \in S
<1> SUFFICES ASSUME Nat \ S # {} PROVE FALSE
  OBVIOUS
<1>1. PICK n \in Nat \ S : \A m \in Nat \ S : n <= m
  BY LeastOf
<1>2. n # 0 /\ n - 1 \in Nat
  BY <1>1
<1>3. n - 1 \in S
  BY <1>1, <1>2
<1>4. (n - 1) + 1 \in S
  BY <1>2, <1>3
<1> QED BY <1>1, <1>2, <1>4

-----------------------------------------------------------------------------
(* Division and places.                                                    *)

LEMMA DivUnique ==
  ASSUME NEW b \in Nat \ {0}, NEW q \in Nat, NEW o \in 0..(b - 1)
  PROVE  q * b + o \in Nat /\ (q * b + o) \div b = q /\ (q * b + o) % b = o
<1> DEFINE a == q * b + o
<1>1. q * b \in Nat /\ o \in Nat /\ a \in Nat
  OBVIOUS
<1>2. a \div b \in Nat /\ a % b \in 0..(b - 1) /\ a = b * (a \div b) + (a % b)
  BY <1>1, DivMod
<1>3. PICK d \in Nat, e \in Nat : d = a \div b /\ e = a % b
  BY <1>2
<1> HIDE DEF a
<1>4. e < b /\ a = b * d + e
  BY <1>2, <1>3
<1>5. b * d = d * b
  BY <1>3
<1>6. d * b \in Nat
  BY <1>3
<1>7. ~(d < q)
  <2> SUFFICES ASSUME d < q PROVE FALSE
    OBVIOUS
  <2>1. d * b + b <= q * b
    BY <1>3, Products
  <2> QED BY <1>1, <1>3, <1>4, <1>5, <1>6, <2>1 DEF a
<1>8. ~(q < d)
  <2> SUFFICES ASSUME q < d PROVE FALSE
    OBVIOUS
  <2>1. q * b + b <= d * b
    BY <1>3, Products
  <2> QED BY <1>1, <1>3, <1>4, <1>5, <1>6, <2>1 DEF a
<1>9. d = q
  BY <1>3, <1>7, <1>8
<1>10. e = o
  BY <1>1, <1>3, <1>4, <1>5, <1>6, <1>9 DEF a
<1> QED BY <1>1, <1>3, <1>9, <1>10 DEF a

\* Place i of k runs of b places is place ((i - 1) % b) + 1 of run
\* ((i - 1) \div b) + 1, and of no other.
RunOf(i, b) == ((i - 1) \div b) + 1
SpotOf(i, b) == ((i - 1) % b) + 1

LEMMA PlaceIs ==
  ASSUME NEW b \in Nat \ {0}, NEW k \in Nat, NEW i \in 1..(k * b)
  PROVE  /\ RunOf(i, b) \in 1..k /\ SpotOf(i, b) \in 1..b
         /\ i = (RunOf(i, b) - 1) * b + SpotOf(i, b)
<1>1. k * b \in Nat /\ i - 1 \in Nat /\ i <= k * b
  OBVIOUS
<1>2. PICK q \in Nat, o \in 0..(b - 1) :
        q = (i - 1) \div b /\ o = (i - 1) % b /\ i - 1 = b * q + o
  BY <1>1, DivMod
<1>3. q * b \in Nat /\ b * q = q * b
  OBVIOUS
<1>4. q < k
  <2> SUFFICES ASSUME k <= q PROVE FALSE
    OBVIOUS
  <2>1. k * b <= q * b
    <3>1. CASE k = q
      BY <3>1
    <3>2. CASE k < q
      <4>1. k * b + b <= q * b
        BY <3>2, Products
      <4> QED BY <4>1, <1>1, <1>3
    <3> QED BY <3>1, <3>2
  <2> QED BY <1>1, <1>2, <1>3, <2>1
<1>5. RunOf(i, b) = q + 1 /\ SpotOf(i, b) = o + 1
  BY <1>2 DEF RunOf, SpotOf
<1>6. (q + 1) - 1 = q
  OBVIOUS
<1>7. i = q * b + (o + 1)
  BY <1>1, <1>2, <1>3
<1> QED BY <1>4, <1>5, <1>6, <1>7

LEMMA PlaceOf ==
  ASSUME NEW b \in Nat \ {0}, NEW k \in Nat, NEW r \in 1..k, NEW o \in 1..b
  PROVE  /\ (r - 1) * b \in Nat
         /\ (r - 1) * b + o \in 1..(k * b)
         /\ RunOf((r - 1) * b + o, b) = r
         /\ SpotOf((r - 1) * b + o, b) = o
<1>1. r - 1 \in Nat /\ o - 1 \in 0..(b - 1) /\ r - 1 < k
  OBVIOUS
<1>2. (r - 1) * b \in Nat /\ k * b \in Nat /\ (r - 1) * b + b <= k * b
  BY <1>1, Products
<1>3. /\ ((r - 1) * b + (o - 1)) \div b = r - 1
      /\ ((r - 1) * b + (o - 1)) % b = o - 1
  BY <1>1, DivUnique
<1>4. ((r - 1) * b + o) - 1 = (r - 1) * b + (o - 1)
  BY <1>2
<1>5. (r - 1) * b + o \in 1..(k * b)
  BY <1>2
<1>6. RunOf((r - 1) * b + o, b) = (r - 1) + 1
  BY <1>3, <1>4 DEF RunOf
<1>7. SpotOf((r - 1) * b + o, b) = (o - 1) + 1
  BY <1>3, <1>4 DEF SpotOf
<1> QED BY <1>2, <1>5, <1>6, <1>7

\* A number that b divides is b runs, or runs of b.
LEMMA Divides ==
  ASSUME NEW n \in Nat \ {0}, NEW k \in Nat \ {0}, n % k = 0
  PROVE  \E b \in Nat \ {0} : b = n \div k /\ n = k * b
<1>1. n \div k \in Nat /\ n = k * (n \div k) + (n % k)
  BY DivMod
<1>2. PICK q \in Nat : q = n \div k
  BY <1>1
<1>3. n = k * q
  BY <1>1, <1>2
<1>4. q # 0
  BY <1>3
<1> QED BY <1>2, <1>3, <1>4

-----------------------------------------------------------------------------
(* Columns: sequences of a known length.                                   *)

Column(s, n) == s = [i \in 1..n |-> s[i]]
Slice(s, o, l) == [i \in 1..l |-> s[o + i]]
Between(s, o, e) == SubSeq(s, o + 1, e)

LEMMA ColumnIs ==
  ASSUME NEW n \in Nat, NEW s, Column(s, n)
  PROVE  Len(s) = n /\ DOMAIN s = 1..n
<1> DEFINE S == {s[i] : i \in 1..n}
<1>1. s \in [1..n -> S]
  BY DEF Column
<1>2. s \in Seq(S)
  BY <1>1, SeqDef
<1> HIDE DEF S
<1>3. Len(s) \in Nat /\ DOMAIN s = 1..Len(s)
  BY <1>2, LenProperties
<1>4. DOMAIN s = 1..n
  BY <1>1
<1>5. PICK l \in Nat : l = Len(s)
  BY <1>3
<1>6. \A i \in Int : i \in 1..l <=> i \in 1..n
  BY <1>3, <1>4, <1>5
<1>7. ~(l < n)
  <2>1. l < n => n \in 1..n /\ n \notin 1..l
    OBVIOUS
  <2> QED BY <1>6, <2>1
<1>8. ~(n < l)
  <2>1. n < l => l \in 1..l /\ l \notin 1..n
    OBVIOUS
  <2> QED BY <1>6, <2>1
<1> QED BY <1>4, <1>5, <1>7, <1>8

LEMMA SliceColumn ==
  ASSUME NEW s, NEW o, NEW l
  PROVE  Column(Slice(s, o, l), l) /\ \A i \in 1..l : Slice(s, o, l)[i] = s[o + i]
BY DEF Column, Slice

LEMMA ColumnsEqual ==
  ASSUME NEW n, NEW s, NEW t, Column(s, n), Column(t, n), \A i \in 1..n : s[i] = t[i]
  PROVE  s = t
<1>1. [i \in 1..n |-> s[i]] = [i \in 1..n |-> t[i]]
  OBVIOUS
<1> QED BY <1>1 DEF Column

LEMMA BetweenIs ==
  ASSUME NEW n \in Nat, NEW s, Column(s, n),
         NEW o \in Nat, NEW e \in Nat, e <= n, o <= e
  PROVE  Between(s, o, e) = Slice(s, o, e - o)
<1> DEFINE S == {s[i] : i \in 1..n}
           t == SubSeq(s, o + 1, e)
           l == e - o
<1>1. \A i \in (o + 1)..e : s[i] \in S
  OBVIOUS
<1>2. o + 1 \in Int /\ e \in Int /\ l \in Nat
  OBVIOUS
<1> HIDE DEF S
<1>3. /\ t \in Seq(S)
      /\ Len(t) = IF o + 1 <= e THEN e - (o + 1) + 1 ELSE 0
      /\ \A i \in 1..(e - (o + 1) + 1) : t[i] = s[(o + 1) + i - 1]
  BY <1>1, <1>2, SubSeqProperties
<1> HIDE DEF t
<1>4. Len(t) = l
  BY <1>3
<1>5. t \in [1..l -> S]
  BY <1>3, <1>4, LenProperties
<1>6. ASSUME NEW i \in 1..l PROVE t[i] = s[o + i]
  <2>1. i \in 1..(e - (o + 1) + 1) /\ (o + 1) + i - 1 = o + i
    BY <1>2
  <2> QED BY <1>3, <2>1
<1>7. t = [i \in 1..l |-> t[i]]
  BY <1>5
<1> HIDE DEF l
<1>8. t = [i \in 1..l |-> s[o + i]]
  BY <1>6, <1>7
<1> QED BY <1>8 DEF t, l, Slice, Between

\* DataProto.chunk.
LEMMA ChunkIs ==
  ASSUME NEW n \in Nat, NEW s, Column(s, n),
         NEW k \in Nat, NEW b \in Nat, n = k * b, k # 0, NEW r \in 1..k
  PROVE  Chunk(s, k, r) = Slice(s, (r - 1) * b, b)
<1>1. Len(s) = n
  BY ColumnIs
<1>2. n \div k = b
  <2>1. b * k + 0 = n /\ k \in Nat \ {0} /\ 0 \in 0..(k - 1)
    OBVIOUS
  <2>2. (b * k + 0) \div k = b
    BY <2>1, DivUnique
  <2> QED BY <2>1, <2>2
<1>3. PICK q \in Nat : q = (r - 1) * b /\ q + b <= n /\ r * b = q + b
  <2>1. r - 1 \in Nat /\ k - r \in Nat
    OBVIOUS
  <2>2. (r - 1) * b \in Nat /\ (k - r) * b \in Nat
    BY <2>1
  <2>3. r * b = (r - 1) * b + b /\ (k - r) * b = k * b - r * b
    OBVIOUS
  <2>4. k * b \in Nat /\ r * b \in Nat
    OBVIOUS
  <2> QED BY <2>2, <2>3, <2>4
<1>4. Chunk(s, k, r) = Between(s, q, q + b)
  BY <1>1, <1>2, <1>3 DEF Chunk, Between
<1>5. q + b \in Nat /\ q <= q + b /\ (q + b) - q = b
  OBVIOUS
<1>6. Between(s, q, q + b) = Slice(s, q, (q + b) - q)
  BY <1>3, <1>5, BetweenIs
<1> QED BY <1>3, <1>4, <1>5, <1>6

\* The chunks put behind one another are the rows that were cut.
Chunked(c, s, k) == \A r \in 1..k : c[r] = Chunk(s, k, r)
Rejoined(c, n, b) == [i \in 1..n |-> c[RunOf(i, b)][SpotOf(i, b)]]

LEMMA ChunksJoin ==
  ASSUME NEW n \in Nat, NEW s, Column(s, n),
         NEW k \in Nat, NEW b \in Nat, n = k * b, k # 0, b # 0,
         NEW c, Chunked(c, s, k)
  PROVE  Rejoined(c, n, b) = s
<1>1. ASSUME NEW i \in 1..n PROVE c[RunOf(i, b)][SpotOf(i, b)] = s[i]
  <2>1. /\ RunOf(i, b) \in 1..k /\ SpotOf(i, b) \in 1..b
        /\ i = (RunOf(i, b) - 1) * b + SpotOf(i, b)
    <3>1. i \in 1..(k * b) /\ b \in Nat \ {0}
      OBVIOUS
    <3> QED BY <3>1, PlaceIs
  <2>2. PICK p \in 1..k, o \in 1..b : p = RunOf(i, b) /\ o = SpotOf(i, b)
    BY <2>1
  <2>3. c[p] = Slice(s, (p - 1) * b, b)
    BY ChunkIs DEF Chunked
  <2>4. c[p][o] = s[(p - 1) * b + o]
    BY <2>3, SliceColumn
  <2> QED BY <2>1, <2>2, <2>4
<1>2. [i \in 1..n |-> c[RunOf(i, b)][SpotOf(i, b)]] = [i \in 1..n |-> s[i]]
  BY <1>1
<1> QED BY <1>2 DEF Column, Rejoined

\* DataProto.split.
LEMMA CeilDivIs ==
  ASSUME NEW n \in Nat \ {0}, NEW b \in Nat \ {0}
  PROVE  /\ CeilDiv(n, b) \in 1..n
         /\ CeilDiv(n, b) * b \in Nat
         /\ n <= CeilDiv(n, b) * b
         /\ CeilDiv(n, b) * b <= n + b - 1
<1> DEFINE m == CeilDiv(n, b)
<1>1. n + b - 1 \in Nat
  OBVIOUS
<1>2. m \in Nat /\ n + b - 1 = b * m + ((n + b - 1) % b) /\ (n + b - 1) % b \in 0..(b - 1)
  BY <1>1, DivMod DEF CeilDiv
<1>3. PICK e \in 0..(b - 1) : n + b - 1 = b * m + e
  BY <1>2
<1> HIDE DEF m
<1>4. b * m = m * b /\ m * b \in Nat
  BY <1>2
<1>5. n <= m * b /\ m * b <= n + b - 1
  BY <1>3, <1>4
<1>6. m # 0
  <2>1. m = 0 => m * b = 0
    OBVIOUS
  <2> QED BY <1>5, <2>1
<1>7. m <= n
  <2> SUFFICES ASSUME n < m PROVE FALSE
    BY <1>2
  <2>1. n * b + b <= m * b /\ n * b \in Nat
    BY <1>2, Products
  <2>2. n <= n * b
    <3>1. n - 1 \in Nat /\ b - 1 \in Nat
      OBVIOUS
    <3>2. n * (b - 1) \in Nat
      BY <3>1
    <3>3. n * b = n * (b - 1) + n
      OBVIOUS
    <3> QED BY <3>2, <3>3
  <2> QED BY <1>4, <1>5, <2>1, <2>2
<1>8. m \in 1..n
  BY <1>2, <1>6, <1>7
<1> QED BY <1>4, <1>5, <1>8 DEF m

LEMMA SplitIs ==
  ASSUME NEW n \in Nat \ {0}, NEW s, Column(s, n), NEW b \in Nat \ {0}
  PROVE  /\ Column(Split(s, b), CeilDiv(n, b))
         /\ \A j \in 1..CeilDiv(n, b) :
              /\ (j - 1) * b \in Nat /\ (j - 1) * b < n
              /\ \E l \in 1..b :
                   /\ l = Least(j * b, n) - (j - 1) * b
                   /\ Split(s, b)[j] = Slice(s, (j - 1) * b, l)
<1>1. PICK m \in 1..n : m = CeilDiv(n, b) /\ m * b \in Nat /\ n <= m * b /\ m * b <= n + b - 1
  BY CeilDivIs
<1>2. Len(s) = n /\ n \in Nat
  BY ColumnIs
<1>3. Split(s, b) = [j \in 1..m |-> SubSeq(s, (j - 1) * b + 1, Least(j * b, n))]
  BY <1>1, <1>2 DEF Split
<1>4. ASSUME NEW j \in 1..m
      PROVE  /\ (j - 1) * b \in Nat /\ (j - 1) * b < n
             /\ \E l \in 1..b :
                  /\ l = Least(j * b, n) - (j - 1) * b
                  /\ Split(s, b)[j] = Slice(s, (j - 1) * b, l)
  <2>1. j - 1 \in Nat /\ j - 1 < m /\ j \in Nat /\ m \in Nat
    OBVIOUS
  <2>2. PICK q \in Nat : q = (j - 1) * b /\ q + b <= m * b /\ j * b = q + b
    <3>1. (j - 1) * b \in Nat /\ (j - 1) * b + b <= m * b
      BY <2>1, Products
    <3>2. j * b = (j - 1) * b + b
      BY <2>1
    <3> QED BY <3>1, <3>2
  <2>3. q < n
    BY <1>1, <2>2
  <2>4. PICK e \in Nat : e = Least(j * b, n) /\ e <= n /\ q <= e /\ e - q \in 1..b
    BY <2>2, <2>3 DEF Least
  <2>5. Split(s, b)[j] = Between(s, q, e)
    BY <1>3, <2>2, <2>4 DEF Between
  <2>6. Between(s, q, e) = Slice(s, q, e - q)
    BY <1>2, <2>4, BetweenIs
  <2> QED BY <2>2, <2>3, <2>4, <2>5, <2>6
<1>5. Column(Split(s, b), m)
  BY <1>3 DEF Column
<1> QED BY <1>1, <1>4, <1>5

\* DataProto.repeat, with the copies of a row together.
LEMMA RepeatIs ==
  ASSUME NEW n \in Nat, NEW s, Column(s, n), NEW k \in Nat \ {0}
  PROVE  /\ Column(Repeat(s, k), n * k)
         /\ \A i \in 1..(n * k) : Repeat(s, k)[i] = s[RunOf(i, k)] /\ RunOf(i, k) \in 1..n
<1>1. Len(s) = n
  BY ColumnIs
<1>2. \A i \in 1..(n * k) : RunOf(i, k) \in 1..n
  BY PlaceIs
<1>3. Repeat(s, k) = [i \in 1..(n * k) |-> s[RunOf(i, k)]]
  BY <1>1 DEF Repeat, RunOf
<1> QED BY <1>2, <1>3 DEF Column

\* pad_dataproto_to_divisor and unpad_dataproto: the first rows are the batch.
LEMMA PadIs ==
  ASSUME NEW n \in Nat \ {0}, NEW s, Column(s, n), NEW k \in Nat \ {0}
  PROVE  \E l \in Nat \ {0} : /\ Column(Pad(s, k), l) /\ l >= n
                              /\ Unpad(Pad(s, k), l - n) = s
<1>1. Len(s) = n
  BY ColumnIs
<1>2. PICK p \in Nat : p = PadSize(n, k)
  <2>1. n % k \in 0..(k - 1)
    BY DivMod
  <2>2. k - (n % k) \in Nat
    BY <2>1
  <2>3. (k - (n % k)) % k \in Nat
    BY <2>2, DivMod
  <2> QED BY <2>3 DEF PadSize
<1>3. PICK l \in Nat \ {0} : l = n + p /\ l >= n
  OBVIOUS
<1>4. PICK t : t = Pad(s, k) /\ t = [i \in 1..l |-> s[((i - 1) % n) + 1]]
  BY <1>1, <1>2, <1>3 DEF Pad
<1>5. Column(t, l)
  BY <1>4 DEF Column
<1>6. Len(t) = l
  BY <1>5, ColumnIs
<1>7. \A i \in 1..n : t[i] = s[i]
  <2> SUFFICES ASSUME NEW i \in 1..n PROVE t[i] = s[i]
    OBVIOUS
  <2>1. i \in 1..l /\ i - 1 \in 0..(n - 1)
    BY <1>3
  <2>2. (0 * n + (i - 1)) % n = i - 1
    BY <2>1, DivUnique
  <2>3. 0 * n + (i - 1) = i - 1
    OBVIOUS
  <2>4. ((i - 1) % n) + 1 = i
    BY <2>1, <2>2, <2>3
  <2> QED BY <1>4, <2>1, <2>4
<1>8. Unpad(t, l - n) = Between(t, 0, n)
  <2>1. Len(t) - (l - n) = n /\ 0 + 1 = 1
    BY <1>3, <1>6
  <2> QED BY <2>1 DEF Unpad, Between
<1>9. Between(t, 0, n) = Slice(t, 0, n - 0)
  BY <1>3, <1>5, BetweenIs
<1>10. n - 0 = n /\ \A i \in 1..n : 0 + i = i
  OBVIOUS
<1>11. Column(Slice(t, 0, n), n) /\ \A i \in 1..n : Slice(t, 0, n)[i] = s[i]
  BY <1>7, <1>10, SliceColumn
<1>12. Slice(t, 0, n) = s
  BY <1>11, ColumnsEqual
<1> QED BY <1>3, <1>4, <1>5, <1>8, <1>9, <1>10, <1>12

\* get_reverse_idx and restore_dynamic_batch undo a reordering.
LEMMA RestoreIs ==
  ASSUME NEW n \in Nat, NEW s, Column(s, n), NEW order \in Orders(n)
  PROVE  Restore(Reorder(s, order), order) = s
<1>1. order \in [1..n -> 1..n] /\ \A i, j \in 1..n : order[i] = order[j] => i = j
  BY DEF Orders
<1>2. IsFiniteSet(1..n)
  BY FS_Interval
<1>3. \A j \in 1..n : \E i \in 1..n : order[i] = j
  BY <1>1, <1>2, Onto
<1>4. PICK m : m = ReverseIdx(order) /\ m = [j \in 1..n |-> CHOOSE i \in 1..n : order[i] = j]
  <2>1. DOMAIN order = 1..n
    BY <1>1
  <2>2. ReverseIdx(order) = [j \in 1..n |-> CHOOSE i \in 1..n : order[i] = j]
    BY <2>1 DEF ReverseIdx
  <2> QED BY <2>2
<1>5. \A j \in 1..n : m[j] \in 1..n /\ order[m[j]] = j
  <2> SUFFICES ASSUME NEW j \in 1..n PROVE m[j] \in 1..n /\ order[m[j]] = j
    OBVIOUS
  <2>1. m[j] = CHOOSE i \in 1..n : order[i] = j
    BY <1>4
  <2>2. \E i \in 1..n : order[i] = j
    BY <1>3
  <2> QED BY <2>1, <2>2, Zenon
<1>6. Reorder(s, order) = [i \in 1..n |-> s[order[i]]]
  BY <1>1 DEF Reorder
<1>7. DOMAIN m = 1..n
  BY <1>4
<1>8. Restore(Reorder(s, order), order) = [j \in 1..n |-> s[order[m[j]]]]
  <2>1. Restore(Reorder(s, order), order) = [j \in 1..n |-> Reorder(s, order)[m[j]]]
    BY <1>4, <1>7 DEF Restore, Reorder
  <2>2. \A j \in 1..n : Reorder(s, order)[m[j]] = s[order[m[j]]]
    BY <1>5, <1>6
  <2> QED BY <2>1, <2>2
<1>9. [j \in 1..n |-> s[order[m[j]]]] = [j \in 1..n |-> s[j]]
  BY <1>5
<1> QED BY <1>8, <1>9 DEF Column

-----------------------------------------------------------------------------
(* Ranks.                                                                  *)

\* In a total order of a finite set, every place from the first to the last is
\* the rank of one member.
TotalOrder(S, B) ==
  /\ \A i \in S : <<i, i>> \in B
  /\ \A i, j \in S : <<i, j>> \in B \/ <<j, i>> \in B
  /\ \A i, j \in S : <<i, j>> \in B /\ <<j, i>> \in B => i = j
  /\ \A i, j, k \in S : <<i, j>> \in B /\ <<j, k>> \in B => <<i, k>> \in B
RanksOf(S, B, rank) ==
  /\ Cardinality(S) \in Nat
  /\ rank \in [S -> 1..Cardinality(S)]
  /\ \A i, j \in S : rank[i] = rank[j] => i = j
  /\ \A p \in 1..Cardinality(S) : \E i \in S : rank[i] = p
  /\ \A i, j \in S : <<i, j>> \in B /\ i # j => rank[i] < rank[j]
LEMMA Ranking ==
  ASSUME NEW S, IsFiniteSet(S), NEW B, TotalOrder(S, B),
         NEW rank, rank = [i \in S |-> Cardinality({k \in S : <<k, i>> \in B})]
  PROVE  RanksOf(S, B, rank)
<1>20. /\ \A i \in S : <<i, i>> \in B
       /\ \A i, j \in S : <<i, j>> \in B \/ <<j, i>> \in B
       /\ \A i, j \in S : <<i, j>> \in B /\ <<j, i>> \in B => i = j
       /\ \A i, j, k \in S : <<i, j>> \in B /\ <<j, k>> \in B => <<i, k>> \in B
  BY DEF TotalOrder
<1> DEFINE To(i) == {k \in S : <<k, i>> \in B}
<1>1. \A i \in S : To(i) \in SUBSET S /\ i \in To(i)
  BY <1>20
<1>2. \A i \in S : IsFiniteSet(To(i)) /\ Cardinality(To(i)) <= Cardinality(S)
  BY <1>1, FS_Subset
<1>3. Cardinality(S) \in Nat /\ \A i \in S : Cardinality(To(i)) \in Nat
  BY <1>2, FS_CardinalityType
<1>4. \A i \in S : Cardinality(To(i)) # 0
  BY <1>1, <1>2, FS_EmptySet
<1>5. \A i \in S : rank[i] = Cardinality(To(i))
  OBVIOUS
<1>6. ASSUME NEW i \in S, NEW j \in S, <<i, j>> \in B, i # j
      PROVE  Cardinality(To(i)) < Cardinality(To(j))
  <2>1. To(i) \in SUBSET To(j)
    BY <1>6, <1>20
  <2>2. j \in To(j) /\ j \notin To(i)
    BY <1>6, <1>20
  <2>3. Cardinality(To(i)) <= Cardinality(To(j)) /\ Cardinality(To(i)) # Cardinality(To(j))
    BY <1>2, <2>1, <2>2, FS_Subset
  <2> HIDE DEF To
  <2> QED BY <1>3, <2>3
<1> HIDE DEF To
<1>7. rank \in [S -> 1..Cardinality(S)]
  <2>1. \A i \in S : Cardinality(To(i)) \in 1..Cardinality(S)
    BY <1>2, <1>3, <1>4
  <2> QED BY <1>5, <2>1
<1>8. \A i, j \in S : rank[i] = rank[j] => i = j
  <2> SUFFICES ASSUME NEW i \in S, NEW j \in S, rank[i] = rank[j], i # j PROVE FALSE
    OBVIOUS
  <2>1. Cardinality(To(i)) < Cardinality(To(j)) \/ Cardinality(To(j)) < Cardinality(To(i))
    BY <1>6, <1>20
  <2> QED BY <1>3, <1>5, <2>1
<1>9. \A p \in 1..Cardinality(S) : \E i \in S : rank[i] = p
  <2>1. rank \in Injection(S, 1..Cardinality(S))
    BY <1>7, <1>8 DEF Injection, IsInjective
  <2>2. IsFiniteSet(1..Cardinality(S)) /\ Cardinality(1..Cardinality(S)) = Cardinality(S)
    <3>1. PICK n \in Nat : n = Cardinality(S)
      BY <1>3
    <3>2. IsFiniteSet(1..n) /\ Cardinality(1..n) = IF 1 > n THEN 0 ELSE n - 1 + 1
      BY FS_Interval
    <3> QED BY <3>1, <3>2
  <2>3. rank \in Surjection(S, 1..Cardinality(S))
    BY <2>1, <2>2, FS_Injection
  <2> QED BY <2>3 DEF Surjection
<1>10. \A i, j \in S : <<i, j>> \in B /\ i # j => rank[i] < rank[j]
  BY <1>5, <1>6
<1> QED BY <1>3, <1>7, <1>8, <1>9, <1>10, Zenon DEF RanksOf

\* The members of a set of numbers in their order: the j-th has j members up to it.
NthOf(S, j) == CHOOSE i \in S : Cardinality({k \in S : k <= i}) = j
LEMMA Nths ==
  ASSUME NEW S, IsFiniteSet(S), S \subseteq Int
  PROVE  /\ Cardinality(S) \in Nat
         /\ \A j \in 1..Cardinality(S) :
              NthOf(S, j) \in S /\ Cardinality({k \in S : k <= NthOf(S, j)}) = j
         /\ \A i, j \in 1..Cardinality(S) : NthOf(S, i) = NthOf(S, j) => i = j
         /\ \A x \in S : \E j \in 1..Cardinality(S) : NthOf(S, j) = x
<1> DEFINE B == {p \in S \X S : p[1] <= p[2]}
           rank == [i \in S |-> Cardinality({k \in S : <<k, i>> \in B})]
<1>1. \A i, j \in S : <<i, j>> \in B <=> i <= j
  OBVIOUS
<1>2. \A i \in S : rank[i] = Cardinality({k \in S : k <= i})
  <2> SUFFICES ASSUME NEW i \in S PROVE rank[i] = Cardinality({k \in S : k <= i})
    OBVIOUS
  <2>1. {k \in S : <<k, i>> \in B} = {k \in S : k <= i}
    BY <1>1
  <2> QED BY <2>1
<1>3. TotalOrder(S, B)
  BY <1>1 DEF TotalOrder
<1>4. /\ Cardinality(S) \in Nat
      /\ rank \in [S -> 1..Cardinality(S)]
      /\ \A i, j \in S : rank[i] = rank[j] => i = j
      /\ \A p \in 1..Cardinality(S) : \E i \in S : rank[i] = p
  <2> HIDE DEF B
  <2>1. \E r : r = rank
    OBVIOUS
  <2>2. PICK r : r = rank
    BY <2>1
  <2> HIDE DEF rank
  <2>3. r = [i \in S |-> Cardinality({k \in S : <<k, i>> \in B})]
    BY <2>2 DEF rank
  <2>4. /\ Cardinality(S) \in Nat
        /\ r \in [S -> 1..Cardinality(S)]
        /\ \A i, j \in S : r[i] = r[j] => i = j
        /\ \A p \in 1..Cardinality(S) : \E i \in S : r[i] = p
    <3>1. RanksOf(S, B, r)
      BY <1>3, <2>3, Ranking
    <3> QED BY <3>1 DEF RanksOf
  <2> QED BY <2>2, <2>4
<1> HIDE DEF rank, B
<1>5. \A j \in 1..Cardinality(S) :
        NthOf(S, j) \in S /\ Cardinality({k \in S : k <= NthOf(S, j)}) = j
  <2> SUFFICES ASSUME NEW j \in 1..Cardinality(S)
               PROVE  NthOf(S, j) \in S /\ Cardinality({k \in S : k <= NthOf(S, j)}) = j
    OBVIOUS
  <2>1. \E i \in S : Cardinality({k \in S : k <= i}) = j
    BY <1>2, <1>4
  <2> QED BY <2>1 DEF NthOf
<1>6. \A x \in S : \E j \in 1..Cardinality(S) : NthOf(S, j) = x
  <2> SUFFICES ASSUME NEW x \in S PROVE NthOf(S, rank[x]) = x
    BY <1>4
  <2>1. rank[x] \in 1..Cardinality(S)
    BY <1>4
  <2>2. NthOf(S, rank[x]) \in S /\ rank[NthOf(S, rank[x])] = rank[x]
    BY <1>2, <1>5, <2>1
  <2> QED BY <1>4, <2>2
<1>7. \A i, j \in 1..Cardinality(S) : NthOf(S, i) = NthOf(S, j) => i = j
  <2> SUFFICES ASSUME NEW i \in 1..Cardinality(S), NEW j \in 1..Cardinality(S),
                      NthOf(S, i) = NthOf(S, j)
               PROVE  i = j
    OBVIOUS
  <2>1. /\ Cardinality({k \in S : k <= NthOf(S, i)}) = i
        /\ Cardinality({k \in S : k <= NthOf(S, j)}) = j
    BY <1>5
  <2> QED BY <2>1
<1> QED BY <1>4, <1>5, <1>6, <1>7

-----------------------------------------------------------------------------
(* Sums over the rows of a batch.                                          *)

\* What row n adds to the sum over the rows S, and a running total of it.
Adds(f, S, n) == IF n \in S THEN f[n] ELSE 0
Running(f, S, m, g) ==
  /\ g \in [0..m -> Int] /\ g[0] = 0
  /\ \A n \in 1..m : g[n] = g[n - 1] + Adds(f, S, n)

LEMMA AddsType ==
  ASSUME NEW N \in Nat, NEW f \in [1..N -> Int], NEW S, NEW n \in 1..N
  PROVE  Adds(f, S, n) \in Int
BY DEF Adds

LEMMA RunningExists ==
  ASSUME NEW N \in Nat, NEW f \in [1..N -> Int], NEW S
  PROVE  \E g : Running(f, S, N, g)
<1> DEFINE E == {m \in Nat : m <= N => \E g : Running(f, S, m, g)}
<1>1. 0 \in E
  <2>1. Running(f, S, 0, [n \in 0..0 |-> 0])
    BY DEF Running
  <2> QED BY <2>1
<1>2. ASSUME NEW m \in Nat, m \in E PROVE m + 1 \in E
  <2> SUFFICES ASSUME m + 1 <= N PROVE \E g : Running(f, S, m + 1, g)
    OBVIOUS
  <2>1. PICK g : Running(f, S, m, g)
    BY <1>2
  <2> DEFINE h == [n \in 0..(m + 1) |-> IF n = m + 1 THEN g[m] + Adds(f, S, m + 1) ELSE g[n]]
  <2>2. m + 1 \in 1..N
    OBVIOUS
  <2>3. Adds(f, S, m + 1) \in Int
    BY <2>2, AddsType
  <2>4. g \in [0..m -> Int] /\ g[0] = 0 /\ \A n \in 1..m : g[n] = g[n - 1] + Adds(f, S, n)
    BY <2>1 DEF Running
  <2>5. h \in [0..(m + 1) -> Int] /\ h[0] = 0
    BY <2>3, <2>4
  <2>6. ASSUME NEW n \in 1..(m + 1) PROVE h[n] = h[n - 1] + Adds(f, S, n)
    <3>1. n \in 0..(m + 1) /\ n - 1 \in 0..(m + 1) /\ n - 1 # m + 1
      OBVIOUS
    <3>2. h[n - 1] = g[n - 1]
      BY <3>1
    <3>3. CASE n = m + 1
      BY <3>1, <3>2, <3>3
    <3>4. CASE n # m + 1
      <4>1. h[n] = g[n] /\ n \in 1..m
        BY <3>1, <3>4
      <4> QED BY <2>4, <3>2, <4>1
    <3> QED BY <3>3, <3>4
  <2>7. Running(f, S, m + 1, h)
    BY <2>5, <2>6 DEF Running
  <2> QED BY <2>7
<1> HIDE DEF E
<1>3. \A m \in Nat : m \in E
  BY <1>1, <1>2, Induct
<1> QED BY <1>3 DEF E

LEMMA SumIs ==
  ASSUME NEW N \in Nat, NEW f \in [1..N -> Int], NEW S
  PROVE  \E g : Running(f, S, N, g) /\ SumOver(f, N, S) = g[N]
<1> DEFINE Is(c) == c = [n \in 0..N |-> IF n = 0 THEN 0 ELSE c[n - 1] + (IF n \in S THEN f[n] ELSE 0)]
           F == CHOOSE c : Is(c)
<1>1. SumOver(f, N, S) = F[N]
  BY Zenon DEF SumOver
<1>2. PICK g : Running(f, S, N, g)
  BY RunningExists
<1>3. Is(g)
  <2>1. g = [n \in 0..N |-> g[n]]
    BY <1>2 DEF Running
  <2>2. ASSUME NEW n \in 0..N
        PROVE  g[n] = IF n = 0 THEN 0 ELSE g[n - 1] + (IF n \in S THEN f[n] ELSE 0)
    BY <1>2 DEF Running, Adds
  <2>3. [n \in 0..N |-> g[n]] =
        [n \in 0..N |-> IF n = 0 THEN 0 ELSE g[n - 1] + (IF n \in S THEN f[n] ELSE 0)]
    BY <2>2
  <2> QED BY <2>1, <2>3, Zenon
<1>4. Is(F)
  BY <1>3, Zenon
<1> DEFINE c == F
<1>5. c = [n \in 0..N |-> IF n = 0 THEN 0 ELSE c[n - 1] + Adds(f, S, n)]
  BY <1>4, Zenon DEF Adds
<1> HIDE DEF F, c
<1>6. 0 \in 0..N /\ \A n \in 1..N : n \in 0..N /\ n # 0
  OBVIOUS
<1>7. c[0] = 0 /\ \A n \in 1..N : c[n] = c[n - 1] + Adds(f, S, n)
  BY <1>5, <1>6
<1> DEFINE E == {n \in Nat : n <= N => c[n] = g[n]}
<1>8. 0 \in E
  BY <1>2, <1>7 DEF Running
<1>9. ASSUME NEW n \in Nat, n \in E PROVE n + 1 \in E
  <2> SUFFICES ASSUME n + 1 <= N PROVE c[n + 1] = g[n + 1]
    OBVIOUS
  <2>1. n + 1 \in 1..N /\ (n + 1) - 1 = n /\ c[n] = g[n]
    BY <1>9
  <2>2. c[n + 1] = c[n] + Adds(f, S, n + 1) /\ g[n + 1] = g[n] + Adds(f, S, n + 1)
    BY <1>2, <1>7, <2>1 DEF Running
  <2> QED BY <2>1, <2>2
<1> HIDE DEF E
<1>10. N \in E
  BY <1>8, <1>9, Induct
<1>11. c[N] = g[N]
  BY <1>10 DEF E
<1>12. SumOver(f, N, S) = c[N]
  BY <1>1 DEF c
<1> QED BY <1>2, <1>11, <1>12

LEMMA SumType ==
  ASSUME NEW N \in Nat, NEW f \in [1..N -> Int], NEW S
  PROVE  SumOver(f, N, S) \in Int
<1>1. PICK g : Running(f, S, N, g) /\ SumOver(f, N, S) = g[N]
  BY SumIs
<1> QED BY <1>1 DEF Running

\* Sums over disjoint sets of rows add up.
LEMMA SumAdds ==
  ASSUME NEW N \in Nat, NEW f \in [1..N -> Int], NEW A, NEW B, A \cap B = {}
  PROVE  SumOver(f, N, A \cup B) = SumOver(f, N, A) + SumOver(f, N, B)
<1>1. PICK a : Running(f, A, N, a) /\ SumOver(f, N, A) = a[N]
  BY SumIs
<1>2. PICK b : Running(f, B, N, b) /\ SumOver(f, N, B) = b[N]
  BY SumIs
<1>3. PICK c : Running(f, A \cup B, N, c) /\ SumOver(f, N, A \cup B) = c[N]
  BY SumIs
<1> DEFINE E == {n \in Nat : n <= N => c[n] = a[n] + b[n]}
<1>4. 0 \in E
  BY <1>1, <1>2, <1>3 DEF Running
<1>5. ASSUME NEW n \in Nat, n \in E PROVE n + 1 \in E
  <2> SUFFICES ASSUME n + 1 <= N PROVE c[n + 1] = a[n + 1] + b[n + 1]
    OBVIOUS
  <2>1. n + 1 \in 1..N /\ (n + 1) - 1 = n /\ c[n] = a[n] + b[n]
    BY <1>5
  <2>2. /\ a[n + 1] = a[n] + Adds(f, A, n + 1)
        /\ b[n + 1] = b[n] + Adds(f, B, n + 1)
        /\ c[n + 1] = c[n] + Adds(f, A \cup B, n + 1)
    BY <1>1, <1>2, <1>3, <2>1 DEF Running
  <2>3. Adds(f, A, n + 1) \in Int /\ Adds(f, B, n + 1) \in Int
    BY <2>1, AddsType
  <2>4. Adds(f, A \cup B, n + 1) = Adds(f, A, n + 1) + Adds(f, B, n + 1)
    BY <2>3 DEF Adds
  <2>5. n \in 0..N /\ a[n] \in Int /\ b[n] \in Int
    BY <1>1, <1>2 DEF Running
  <2> QED BY <2>1, <2>2, <2>3, <2>4, <2>5
<1> HIDE DEF E
<1>6. N \in E
  BY <1>4, <1>5, Induct
<1> QED BY <1>1, <1>2, <1>3, <1>6 DEF E

LEMMA SumNone ==
  ASSUME NEW N \in Nat, NEW f \in [1..N -> Int]
  PROVE  SumOver(f, N, {}) = 0
<1>1. SumOver(f, N, {} \cup {}) = SumOver(f, N, {}) + SumOver(f, N, {})
  BY SumAdds
<1>2. {} \cup {} = {} /\ SumOver(f, N, {}) \in Int
  BY SumType
<1> QED BY <1>1, <1>2

LEMMA SumOne ==
  ASSUME NEW N \in Nat, NEW f \in [1..N -> Int], NEW x \in 1..N
  PROVE  SumOver(f, N, {x}) = f[x]
<1>1. PICK a : Running(f, {x}, N, a) /\ SumOver(f, N, {x}) = a[N]
  BY SumIs
<1> DEFINE E == {n \in Nat : n <= N => a[n] = IF n < x THEN 0 ELSE f[x]}
<1>3. 0 \in E
  BY <1>1 DEF Running
<1>4. ASSUME NEW n \in Nat, n \in E PROVE n + 1 \in E
  <2> SUFFICES ASSUME n + 1 <= N PROVE a[n + 1] = IF n + 1 < x THEN 0 ELSE f[x]
    OBVIOUS
  <2>1. /\ n + 1 \in 1..N /\ (n + 1) - 1 = n
        /\ a[n] = IF n < x THEN 0 ELSE f[x]
    BY <1>4
  <2>2. a[n + 1] = a[n] + Adds(f, {x}, n + 1)
    BY <1>1, <2>1 DEF Running
  <2>3. CASE n + 1 = x
    BY <2>1, <2>2, <2>3 DEF Adds
  <2>4. CASE n + 1 # x
    <3>1. Adds(f, {x}, n + 1) = 0
      BY <2>4 DEF Adds
    <3>2. n + 1 < x <=> n < x
      BY <2>4
    <3> QED BY <2>1, <2>2, <3>1, <3>2
  <2> QED BY <2>3, <2>4
<1> HIDE DEF E
<1>5. N \in E
  BY <1>3, <1>4, Induct
<1>6. a[N] = f[x]
  BY <1>5 DEF E
<1> QED BY <1>1, <1>6

\* A row more in the set.
LEMMA SumGrows ==
  ASSUME NEW N \in Nat, NEW f \in [1..N -> Int], NEW x \in 1..N, NEW S, x \notin S
  PROVE  SumOver(f, N, S \cup {x}) = SumOver(f, N, S) + f[x]
<1>1. SumOver(f, N, S \cup {x}) = SumOver(f, N, S) + SumOver(f, N, {x})
  <2>1. S \cap {x} = {}
    OBVIOUS
  <2> QED BY <2>1, SumAdds
<1>2. SumOver(f, N, {x}) = f[x]
  BY SumOne
<1> QED BY <1>1, <1>2

\* The rows of S moved to other places have the same sum there.
Moved(p, S) == {p[i] : i \in S}

Moves(f, g, p, N) ==
  /\ f \in [1..N -> Int] /\ g \in [1..N -> Int] /\ p \in [1..N -> 1..N]
  /\ \A i, j \in 1..N : p[i] = p[j] => i = j
  /\ \A i \in 1..N : g[p[i]] = f[i]

LEMMA SumMoved ==
  ASSUME NEW N \in Nat, NEW f, NEW g, NEW p, Moves(f, g, p, N), NEW S \in SUBSET (1..N)
  PROVE  SumOver(g, N, Moved(p, S)) = SumOver(f, N, S)
<1> USE DEF Moves
<1> DEFINE Image(R) == {p[i] : i \in R}
           E == {m \in Nat : \A R \in SUBSET (1..N) : Cardinality(R) = m =>
                                SumOver(g, N, Image(R)) = SumOver(f, N, R)}
<1>1. ASSUME NEW R \in SUBSET (1..N) PROVE IsFiniteSet(R) /\ Cardinality(R) \in Nat
  <2>1. IsFiniteSet(1..N)
    BY FS_Interval
  <2>2. IsFiniteSet(R)
    BY <2>1, FS_Subset
  <2> QED BY <2>2, FS_CardinalityType
<1>2. 0 \in E
  <2>1. ASSUME NEW R \in SUBSET (1..N), Cardinality(R) = 0
        PROVE  SumOver(g, N, Image(R)) = SumOver(f, N, R)
    <3>1. R = {} /\ Image(R) = {}
      BY <1>1, <2>1, FS_EmptySet
    <3>2. SumOver(g, N, {}) = 0 /\ SumOver(f, N, {}) = 0
      BY SumNone
    <3> HIDE DEF Image
    <3> QED BY <3>1, <3>2
  <2> HIDE DEF Image
  <2> QED BY <2>1
<1>3. ASSUME NEW m \in Nat, m \in E PROVE m + 1 \in E
  <2> HIDE DEF Image
  <2> SUFFICES ASSUME NEW R \in SUBSET (1..N), Cardinality(R) = m + 1
               PROVE  SumOver(g, N, Image(R)) = SumOver(f, N, R)
    OBVIOUS
  <2> USE DEF Image
  <2>1. PICK x : x \in R
    <3>1. Cardinality(R) # 0
      OBVIOUS
    <3>2. R # {}
      BY <3>1, FS_EmptySet
    <3> QED BY <3>2
  <2>2. PICK Q \in SUBSET (1..N) : Q = R \ {x}
    OBVIOUS
  <2>3. Cardinality(Q) = m
    <3>1. Cardinality(R \ {x}) = Cardinality(R) - 1
      BY <1>1, <2>1, FS_RemoveElement
    <3> QED BY <2>2, <3>1
  <2>4. SumOver(g, N, Image(Q)) = SumOver(f, N, Q)
    BY <1>3, <2>3
  <2>5. x \in 1..N /\ x \notin Q /\ R = Q \cup {x}
    BY <2>1, <2>2
  <2>6. p[x] \in 1..N /\ p[x] \notin Image(Q) /\ Image(R) = Image(Q) \cup {p[x]}
    <3>1. \A i \in Q : i \in 1..N /\ i # x
      BY <2>5
    <3>2. \A i \in Q : p[i] # p[x]
      BY <2>5, <3>1
    <3>3. ASSUME NEW y \in Image(R) PROVE y \in Image(Q) \cup {p[x]}
      <4>1. PICK i \in R : y = p[i]
        OBVIOUS
      <4> QED BY <2>5, <4>1
    <3>4. Image(Q) \subseteq Image(R) /\ p[x] \in Image(R)
      BY <2>5
    <3> QED BY <2>5, <3>2, <3>3, <3>4
  <2> HIDE DEF Image
  <2>7. SumOver(f, N, Q \cup {x}) = SumOver(f, N, Q) + f[x]
    <3>1. N \in Nat /\ f \in [1..N -> Int]
      OBVIOUS
    <3>2. x \in 1..N /\ x \notin Q
      BY <2>5
    <3> QED BY ONLY <3>1, <3>2, SumGrows
  <2>8. SumOver(g, N, Image(Q) \cup {p[x]}) = SumOver(g, N, Image(Q)) + g[p[x]]
    <3>1. N \in Nat /\ g \in [1..N -> Int]
      OBVIOUS
    <3>2. PICK y, I : y \in 1..N /\ y = p[x] /\ I = Image(Q) /\ y \notin I
      BY <2>6
    <3>3. y \in 1..N /\ y \notin I
      BY <3>2
    <3>4. SumOver(g, N, I \cup {y}) = SumOver(g, N, I) + g[y]
      <4> HIDE DEF E
      <4> QED BY ONLY <3>1, <3>3, SumGrows
    <3> QED BY <3>2, <3>4
  <2>9. g[p[x]] = f[x]
    BY <2>5
  <2> QED BY <2>4, <2>5, <2>6, <2>7, <2>8, <2>9
<1> HIDE DEF E
<1>4. \A m \in Nat : m \in E
  BY <1>2, <1>3, Induct
<1>5. Cardinality(S) \in Nat /\ Cardinality(S) \in E
  BY <1>1, <1>4
<1> HIDE DEF Image
<1>6. SumOver(g, N, Image(S)) = SumOver(f, N, S)
  BY <1>5 DEF E
<1> QED BY <1>6 DEF Image, Moved

\* A factor of every number is one of the sum; only the rows of S count.
LEMMA SumScaled ==
  ASSUME NEW N \in Nat, NEW f \in [1..N -> Int], NEW h \in [1..N -> Int], NEW S, NEW c \in Int,
         \A n \in 1..N : n \in S => h[n] = c * f[n]
  PROVE  SumOver(h, N, S) = c * SumOver(f, N, S)
<1>1. PICK a : Running(f, S, N, a) /\ SumOver(f, N, S) = a[N]
  BY SumIs
<1>2. PICK b : Running(h, S, N, b) /\ SumOver(h, N, S) = b[N]
  BY SumIs
<1> DEFINE E == {n \in Nat : n <= N => b[n] = c * a[n]}
<1>3. 0 \in E
  BY <1>1, <1>2 DEF Running
<1>4. ASSUME NEW n \in Nat, n \in E PROVE n + 1 \in E
  <2> SUFFICES ASSUME n + 1 <= N PROVE b[n + 1] = c * a[n + 1]
    OBVIOUS
  <2>1. n + 1 \in 1..N /\ (n + 1) - 1 = n /\ b[n] = c * a[n] /\ n \in 0..N
    BY <1>4
  <2>2. /\ a[n + 1] = a[n] + Adds(f, S, n + 1)
        /\ b[n + 1] = b[n] + Adds(h, S, n + 1)
    BY <1>1, <1>2, <2>1 DEF Running
  <2>3. PICK x \in Int, y \in Int : x = a[n] /\ y = Adds(f, S, n + 1)
    BY <1>1, <2>1, AddsType DEF Running
  <2>4. Adds(h, S, n + 1) = c * y
    BY <2>1, <2>3 DEF Adds
  <2>5. c * (x + y) = c * x + c * y
    OBVIOUS
  <2> QED BY <2>1, <2>2, <2>3, <2>4, <2>5
<1> HIDE DEF E
<1>5. N \in E
  BY <1>3, <1>4, Induct
<1> QED BY <1>1, <1>2, <1>5 DEF E

-----------------------------------------------------------------------------
(* Balancing: the load of the rows S.                                      *)

LEMMA WeightType ==
  ASSUME TypeInv
  PROVE  NumItems \in Nat /\ weight \in [1..NumItems -> Int]
<1>1. NumItems \in Nat
  BY PartFacts
<1> QED BY <1>1 DEF TypeInv, Items

LEMMA LoadAdds ==
  ASSUME TypeInv, NEW A, NEW B, A \cap B = {}
  PROVE  Load(A \cup B) = Load(A) + Load(B)
BY WeightType, SumAdds DEF Load

LEMMA LoadNone ==
  ASSUME TypeInv
  PROVE  Load({}) = 0
BY WeightType, SumNone DEF Load

LEMMA LoadOne ==
  ASSUME TypeInv, NEW x \in Items
  PROVE  Load({x}) = weight[x]
<1>1. x \in 1..NumItems
  BY DEF Items
<1> QED BY <1>1, WeightType, SumOne DEF Load

-----------------------------------------------------------------------------
\* The sum kept of a set is the load of its rows.
Summed == \A s \in states : \A i \in Parts : s[i].sum = Load(s[i].items)

LEMMA SummedMerge ==
  ASSUME TypeInv, Shared, Summed, NEW s, NEW t, NEW m, Merges(s, t, m)
  PROVE  Summed'
<1>1. PICK p \in Shuffles : \A i \in Parts :
              /\ p[i] \in Parts /\ K + 1 - p[i] \in Parts
              /\ m[i].items = s[p[i]].items \cup t[K + 1 - p[i]].items
              /\ m[i].sum = s[p[i]].sum + t[K + 1 - p[i]].sum
  BY MergedIs DEF Merges
<1>2. s \in states /\ t \in states /\ s # t
  BY DEF Merges
<1>3. ASSUME NEW i \in Parts PROVE m[i].sum = Load(m[i].items)
  <2>1. s[p[i]].items \cap t[K + 1 - p[i]].items = {}
    BY <1>1, <1>2, Disjoint
  <2>2. Load(s[p[i]].items \cup t[K + 1 - p[i]].items)
        = Load(s[p[i]].items) + Load(t[K + 1 - p[i]].items)
    BY <2>1, LoadAdds
  <2> QED BY <1>1, <1>2, <2>2 DEF Summed
<1>4. ASSUME NEW u \in states', NEW i \in Parts PROVE u[i].sum = Load(u[i].items)
  BY <1>3 DEF Merges, Summed
<1>5. ASSUME NEW S PROVE Load(S)' = Load(S)
  BY Zenon DEF Merges, Load
<1> QED BY <1>4, <1>5 DEF Summed, Parts

LEMMA SummedNext == IInv /\ Summed /\ [Merge]_balancing => Summed'
<1> SUFFICES ASSUME IInv, Summed, [Merge]_balancing PROVE Summed'
  OBVIOUS
<1>1. CASE Merge
  <2>1. PICK s, t, m : Merges(s, t, m)
    BY <1>1, MergeIs
  <2> QED BY <2>1, SummedMerge DEF IInv
<1>2. CASE UNCHANGED balancing
  <2>1. weight' = weight /\ states' = states
    BY <1>2 DEF balancing
  <2>2. ASSUME NEW S PROVE Load(S)' = Load(S)
    BY <2>1, Zenon DEF Load
  <2> QED BY <2>1, <2>2 DEF Summed, Parts
<1> QED BY <1>1, <1>2

LEMMA SummedInit == BalancingInit => Summed
<1> SUFFICES ASSUME BalancingInit PROVE Summed
  OBVIOUS
<1>1. TypeInv
  BY InitAlone, InitEqual DEF IInv
<1>2. weight \in [Items -> Nat \ {0}]
  BY <1>1 DEF TypeInv
<1>3. ASSUME NEW x \in Items PROVE Single(x).sum = Load(Single(x).items)
  BY <1>1, LoadOne DEF Single
<1>4. CASE ~equal
  <2>1. ASSUME NEW x \in Items, NEW i \in Parts
        PROVE  Alone(x)[i].sum = Load(Alone(x)[i].items)
    <3>1. CASE i = 1
      BY <1>1, <1>2, <3>1, AloneIs, LoadOne
    <3>2. CASE i # 1
      <4>1. Alone(x)[i].items = {} /\ Alone(x)[i].sum = 0
        BY <1>2, <3>2, AloneIs
      <4>2. Load({}) = 0
        BY <1>1, LoadNone
      <4> QED BY <4>1, <4>2
    <3> QED BY <3>1, <3>2
  <2> QED BY <1>4, <2>1 DEF Summed, BalancingInit
<1>5. CASE equal
  <2>1. PICK order \in [Items -> Items] :
          states = {Run(order, c) : c \in 1..(NumItems \div K)}
    BY <1>5 DEF BalancingInit
  <2>2. NumItems % K = 0
    BY <1>5, BalancingAssumption DEF BalancingInit
  <2>3. ASSUME NEW c \in 1..(NumItems \div K), NEW i \in Parts
        PROVE  Run(order, c)[i].sum = Load(Run(order, c)[i].items)
    <3>1. c * K + 1 - i \in Items
      BY <2>2, Places
    <3>2. Run(order, c)[i] = Single(order[c * K + 1 - i]) /\ order[c * K + 1 - i] \in Items
      BY <3>1 DEF Run
    <3> QED BY <1>3, <3>2
  <2> QED BY <2>1, <2>3 DEF Summed
<1> QED BY <1>4, <1>5

\* The loads lie between those of the first and the last set.
LEMMA Bounded == IInv /\ Summed => LoadsBounded
<1> SUFFICES ASSUME IInv, Summed, NEW s \in states, NEW i \in Parts, NEW j \in Parts
             PROVE  \E x, y \in Items : Load(s[i].items) - Load(s[j].items)
                                        <= weight[x] - (IF equal THEN weight[y] ELSE 0)
  BY DEF LoadsBounded
<1>1. PICK x, y \in Items : Spread(s) <= weight[x] - (IF equal THEN weight[y] ELSE 0)
  BY DEF IInv, SpreadBounded
<1> DEFINE d == weight[x] - (IF equal THEN weight[y] ELSE 0)
<1>2. d \in Int
  BY DEF IInv, TypeInv
<1>3. s[1].sum \in Nat /\ s[K].sum \in Nat /\ s[i].sum \in Nat /\ s[j].sum \in Nat
  BY PartFacts DEF IInv, TypeInv, Set
<1>4. s[1].sum >= s[i].sum /\ s[j].sum >= s[K].sum
  BY PartFacts DEF IInv, Ordered, Descending
<1>5. s[1].sum - s[K].sum <= d
  BY <1>1 DEF Spread
<1> HIDE DEF d
<1>6. s[i].sum - s[j].sum <= d
  BY <1>2, <1>3, <1>4, <1>5
<1>7. Load(s[i].items) - Load(s[j].items) <= d
  BY <1>6 DEF Summed
<1> QED BY <1>7 DEF d

\* The workloads of two ranks differ by no more than the heaviest row (less the
\* lightest with equal_size), counted over the rows they are given and not read
\* from the sums the method keeps (karmarkar_karp).
THEOREM BoundsTheLoads == BalancingSpec => []LoadsBounded
<1>1. BalancingInit => Summed
  BY SummedInit
<1>2. BalancingSpec => []Summed
  BY <1>1, SummedNext, Invariant, PTL DEF BalancingSpec
<1> QED BY <1>2, Invariant, Bounded, PTL

-----------------------------------------------------------------------------
(* The rows of a step: what each of them is about.                         *)

\* The same over a configuration c as PromptOf and Prompts over set.
PromptIn(c, s) == RunOf(s, c.n)
PromptsIn(c) == Total \div c.n
Identity(n) == [i \in 1..n |-> i]

\* A baseline joins the rows of its prompts (REMAX over dropped answers may
\* pair them wrongly, see the README).
Paired(c) == c.drop /\ c.remax => c.n = 1

\* Row i of every column of the batch b is about sample rows[i].
About(c, b, rows, n) ==
  /\ Column(rows, n)
  /\ "uid" \in DOMAIN b
  /\ \A x \in DOMAIN b : Column(b[x], n)
  /\ \A i \in 1..n : b["uid"][i] = PromptIn(c, rows[i])
  /\ \A x \in DOMAIN b \cap {"response", "score", "old"} : b[x] = rows
  /\ Paired(c) /\ "baseline" \in DOMAIN b =>
       \A i \in 1..n : b["baseline"][i] = Baseline(PromptIn(c, rows[i]))
  /\ "group" \in DOMAIN b =>
       \A i \in 1..n : b["group"][i] =
         {u \in {rows[j] : j \in 1..n} : PromptIn(c, u) = PromptIn(c, rows[i])}

\* The samples a training step goes on with: each once, and all of them or
\* correct ones only, of which less than one for each rank is missing.
Missing(cor, rows, n) == {s \in cor : \A i \in 1..n : rows[i] # s}
Chosen(cor, rows, n) ==
  /\ \A i \in 1..n : rows[i] \in Samples
  /\ \A i, j \in 1..n : rows[i] = rows[j] => i = j
  /\ \/ \A s \in Samples : \E i \in 1..n : rows[i] = s
     \/ /\ \A i \in 1..n : rows[i] \in cor
        /\ Cardinality(Missing(cor, rows, n)) < World

\* A call to k workers in progress: each answer is the chunk that was sent.
Calling(rows, k, answers) ==
  /\ \E n, b \in Nat \ {0} : Column(rows, n) /\ n = k * b
  /\ DOMAIN answers \subseteq 1..k
  /\ \A a \in DOMAIN answers : answers[a] = Chunk(rows, k, a)

Popped(c, b) == DOMAIN b = {"uid"} /\ b["uid"] = Identity(PromptsIn(c))
AtGenerate(c, b, s) ==
  IF c.validate
  THEN \E t \in Nat \ {0} : /\ DOMAIN b = {"uid"}
                            /\ b["uid"] = [i \in 1..t |-> PromptIn(c, i)]
                            /\ s = Pad(Identity(t), Agents)
  ELSE Popped(c, b) /\ s = Identity(Total)
Early(c, cor, b, g) ==
  /\ DOMAIN b \subseteq {"uid", "baseline"}
  /\ \E n \in Nat \ {0} : About(c, b, g, n) /\ (~c.validate => Chosen(cor, g, n))
Late(c, cor, b) ==
  /\ "response" \in DOMAIN b
  /\ \E n \in Nat \ {0} : /\ About(c, b, b["response"], n)
                          /\ ~c.validate => Chosen(cor, b["response"], n)

Greedy == {"max", "baseline"}
Before == Greedy \cup {"union"}
Training == {"balance", "send", "log_prob", "advantage", "actor", "update"}
Closing == Training \cup {"reward", "done"}

Phase(c, cor, p, s, k, g, b, f) ==
  /\ p \in {"pop", "generate", "select", "failed"} \cup Before \cup Closing
  /\ p = "pop" => DOMAIN b = {}
  /\ p = "generate" => AtGenerate(c, b, s) /\ Calling(s, Agents, k)
  /\ p = "select" => ~c.validate /\ Popped(c, b) /\ g = Identity(Total)
  /\ p \in Before => Early(c, cor, b, g)
  /\ p \in Greedy => /\ ~c.validate /\ c.remax /\ "baseline" \notin DOMAIN b
                     /\ ~c.drop => Len(g) = Total
                     /\ Len(g) = Total => g = Identity(Total)
  /\ p = "baseline" => /\ s = [i \in 1..PromptsIn(c) |-> Baseline(i)]
                       /\ Calling(s, Agents, k)
  /\ p \in Closing => Late(c, cor, b)
  /\ p \in Training => ~c.validate
  /\ p = "balance" => "group" \notin DOMAIN b
  /\ p \in {"send", "log_prob", "advantage"} =>
       IF c.async THEN f = b["response"] ELSE "score" \in DOMAIN b
  /\ p \in {"advantage", "actor"} => "old" \in DOMAIN b
  /\ p \in {"log_prob", "update"} \/ (p = "done" /\ ~c.validate) =>
       s = b["response"] /\ Calling(s, World, k)
  /\ p = "failed" /\ "response" \in DOMAIN b => Late(c, cor, b)

Configured == set \in Settings /\ correct \in SUBSET Samples /\ len \in Lengths
StepInv == Configured /\ Phase(set, correct, pc, sent, back, gen, batch, future)

-----------------------------------------------------------------------------
(* Facts about constants, batches and calls.                               *)

LEMMA StepFacts ==
  /\ Total \in Nat \ {0} /\ World \in Nat \ {0} /\ Agents \in Nat \ {0} /\ Mini \in Nat \ {0}
  /\ Samples = 1..Total /\ Ranks = 1..World /\ Workers = 1..Agents
BY StepAssumption DEF Samples, Ranks, Workers

LEMMA SettingIs ==
  ASSUME NEW c \in Settings
  PROVE  /\ c.n \in Nat \ {0} /\ PromptsIn(c) \in Nat \ {0} /\ Total = PromptsIn(c) * c.n
         /\ c.validate \in BOOLEAN /\ c.drop \in BOOLEAN /\ c.remax \in BOOLEAN
         /\ c.balance \in BOOLEAN /\ c.async \in BOOLEAN
<1>1. /\ c.n \in 1..Total /\ Total % c.n = 0
      /\ c.validate \in BOOLEAN /\ c.drop \in BOOLEAN /\ c.remax \in BOOLEAN
      /\ c.balance \in BOOLEAN /\ c.async \in BOOLEAN
  BY StepAssumption
<1>2. PICK k \in Nat \ {0} : k = c.n
  BY <1>1, StepFacts
<1>3. PICK b \in Nat \ {0} : b = Total \div k /\ Total = k * b
  <2>1. Total % k = 0 /\ Total \in Nat \ {0}
    BY <1>1, <1>2, StepFacts
  <2> QED BY <2>1, Divides
<1>4. PromptsIn(c) = b /\ k * b = b * k
  BY <1>2, <1>3 DEF PromptsIn
<1> QED BY <1>1, <1>2, <1>3, <1>4

LEMMA PromptIs == Prompts = PromptsIn(set) /\ \A s : PromptOf(s) = PromptIn(set, s)
BY DEF Prompts, PromptsIn, PromptOf, PromptIn, RunOf

LEMMA IdentityColumn ==
  ASSUME NEW n
  PROVE  Column(Identity(n), n) /\ \A i \in 1..n : Identity(n)[i] = i
BY DEF Column, Identity

LEMMA SendIs ==
  ASSUME NEW rows, NEW n \in Nat \ {0}, Column(rows, n), NEW k \in Nat \ {0},
         NEW next, Send(rows, k, next)
  PROVE  \/ pc' = next /\ sent' = rows /\ Calling(sent', k, back')
         \/ pc' = "failed"
<1>1. Len(rows) = n
  BY ColumnIs
<1>2. CASE n % k = 0
  <2>1. pc' = next /\ sent' = rows /\ back' = <<>>
    BY <1>1, <1>2 DEF Send
  <2>4. PICK b \in Nat \ {0} : b = n \div k /\ n = k * b
    BY <1>2, Divides
  <2>2. \E d \in Nat \ {0} : n = k * d
    BY <2>4
  <2>3. DOMAIN back' = {}
    BY <2>1
  <2> QED BY <2>1, <2>2, <2>3 DEF Calling
<1>3. CASE n % k # 0
  BY <1>1, <1>3 DEF Send
<1> QED BY <1>2, <1>3

LEMMA GatherIs ==
  ASSUME NEW k \in Nat \ {0}, Calling(sent, k, back), Answered(k)
  PROVE  Gather(k) = sent
<1>1. PICK n \in Nat \ {0}, b \in Nat \ {0} : Column(sent, n) /\ n = k * b
  BY DEF Calling
<1>2. Len(sent) = n
  BY <1>1, ColumnIs
<1>3. Len(sent) \div k = b
  <2>1. b * k + 0 = n /\ 0 \in 0..(k - 1)
    BY <1>1
  <2>2. (b * k + 0) \div k = b
    BY <2>1, DivUnique
  <2> QED BY <1>2, <2>1, <2>2
<1>4. Chunked(back, sent, k)
  BY DEF Calling, Answered, Chunked
<1>5. Rejoined(back, n, b) = sent
  BY <1>1, <1>4, ChunksJoin
<1> QED BY <1>2, <1>3, <1>5 DEF Gather, RunOf, SpotOf, Rejoined

LEMMA CallingPut ==
  ASSUME NEW rows, NEW k, NEW answers, Calling(rows, k, answers), NEW a \in 1..k,
         NEW v, v = Chunk(rows, k, a)
  PROVE  Calling(rows, k, Put(answers, a, v))
BY DEF Put, Calling

\* One more column.
LEMMA AboutWith ==
  ASSUME NEW c, NEW b, NEW rows, NEW n, About(c, b, rows, n),
         NEW x \in {"response", "score", "old"}
  PROVE  About(c, Put(b, x, rows), rows, n)
<1>1. /\ DOMAIN Put(b, x, rows) = DOMAIN b \cup {x}
      /\ Put(b, x, rows)[x] = rows
      /\ \A k \in DOMAIN b : k # x => Put(b, x, rows)[k] = b[k]
  BY DEF Put
<1> QED BY <1>1 DEF About

LEMMA RowsIs ==
  ASSUME NEW c, NEW rows, NEW n \in Nat, About(c, batch, rows, n)
  PROVE  Rows = n
<1>1. Column(batch["uid"], n)
  BY DEF About
<1> QED BY <1>1, ColumnIs DEF Rows

-----------------------------------------------------------------------------
(* The actions up to the balanced batch.                                   *)

LEMMA NextPhase ==
  ASSUME Configured, UNCHANGED config,
         Phase(set, correct, pc', sent', back', gen', batch', future')
  PROVE  StepInv'
<1>1. set' = set /\ correct' = correct /\ len' = len
  BY DEF config
<1> QED BY <1>1 DEF StepInv, Configured, Samples

LEMMA FailPhase ==
  ASSUME NEW c, NEW cor, NEW p, NEW s, NEW k, NEW g, NEW b, NEW f,
         p = "failed", "response" \in DOMAIN b => Late(c, cor, b)
  PROVE  Phase(c, cor, p, s, k, g, b, f)
BY DEF Phase, Greedy, Before, Training, Closing

LEMMA PopTrainInv == ASSUME StepInv, PopTrain PROVE StepInv'
<1>1. /\ pc = "pop" /\ ~set.validate /\ UNCHANGED <<config, gen, future, trained>>
      /\ batch' = With("uid", [p \in 1..Prompts |-> p])
      /\ Send([i \in Samples |-> i], Agents, "generate")
  BY DEF PopTrain
<1>2. Configured /\ DOMAIN batch = {}
  BY <1>1 DEF StepInv, Phase
<1>3. DOMAIN batch' = {"uid"} /\ batch'["uid"] = Identity(PromptsIn(set))
  BY <1>1, <1>2, PromptIs DEF With, Put, Identity
<1>4. [i \in Samples |-> i] = Identity(Total)
  BY StepFacts DEF Identity
<1>5. \/ pc' = "generate" /\ sent' = Identity(Total) /\ Calling(sent', Agents, back')
      \/ pc' = "failed"
  BY <1>1, <1>4, StepFacts, IdentityColumn, SendIs
<1>6. CASE pc' = "failed"
  BY <1>1, <1>2, <1>3, <1>6, FailPhase, NextPhase
<1>7. CASE pc' = "generate" /\ sent' = Identity(Total) /\ Calling(sent', Agents, back')
  <2>1. AtGenerate(set, batch', sent')
    BY <1>1, <1>3, <1>7 DEF AtGenerate, Popped
  <2>2. Phase(set, correct, pc', sent', back', gen', batch', future')
    BY <1>7, <2>1 DEF Phase, Greedy, Before, Training, Closing
  <2> QED BY <1>1, <1>2, <2>2, NextPhase
<1> QED BY <1>5, <1>6, <1>7

LEMMA PopTestInv == ASSUME StepInv, PopTest PROVE StepInv'
<1>1. pc = "pop" /\ set.validate /\ UNCHANGED <<config, gen, future, trained>>
  BY DEF PopTest
<1>2. PICK t \in Tests : /\ batch' = With("uid", [i \in 1..t |-> PromptOf(i)])
                         /\ Send(Pad([i \in 1..t |-> i], Agents), Agents, "generate")
  BY DEF PopTest
<1>3. Configured /\ DOMAIN batch = {}
  BY <1>1 DEF StepInv, Phase
<1>4. DOMAIN batch' = {"uid"} /\ batch'["uid"] = [i \in 1..t |-> PromptIn(set, i)]
  BY <1>2, <1>3, PromptIs DEF With, Put
<1>5. t \in Nat \ {0}
  BY StepAssumption
<1>6. PICK l \in Nat \ {0} : Column(Pad(Identity(t), Agents), l)
  BY <1>5, StepFacts, IdentityColumn, PadIs
<1>7. \/ pc' = "generate" /\ sent' = Pad(Identity(t), Agents) /\ Calling(sent', Agents, back')
      \/ pc' = "failed"
  BY <1>2, <1>6, StepFacts, SendIs DEF Identity
<1>8. CASE pc' = "failed"
  BY <1>1, <1>3, <1>4, <1>8, FailPhase, NextPhase
<1>9. CASE pc' = "generate" /\ sent' = Pad(Identity(t), Agents) /\ Calling(sent', Agents, back')
  <2>1. AtGenerate(set, batch', sent')
    BY <1>1, <1>4, <1>5, <1>9 DEF AtGenerate
  <2>2. Phase(set, correct, pc', sent', back', gen', batch', future')
    BY <1>9, <2>1 DEF Phase, Greedy, Before, Training, Closing
  <2> QED BY <1>1, <1>3, <2>2, NextPhase
<1> QED BY <1>7, <1>8, <1>9

LEMMA GenerateInv == ASSUME StepInv, NEW a \in Workers, Generate(a) PROVE StepInv'
<1>1. /\ pc \in {"generate", "baseline"}
      /\ back' = Put(back, a, Chunk(sent, Agents, a))
      /\ UNCHANGED <<config, pc, sent, gen, batch, future, trained>>
  BY DEF Generate
<1>2. Configured /\ Phase(set, correct, pc, sent, back, gen, batch, future)
  BY DEF StepInv
<1>3. Calling(sent, Agents, back)
  BY <1>1, <1>2 DEF Phase
<1>4. Calling(sent, Agents, back')
  BY <1>1, <1>3, StepFacts, CallingPut
<1>5. Phase(set, correct, pc', sent', back', gen', batch', future')
  BY <1>1, <1>2, <1>4 DEF Phase, Greedy, Before, Training, Closing
<1> QED BY <1>1, <1>2, <1>5, NextPhase

\* Right after the pop the rows are about the samples of the same numbers.
LEMMA IdentityAbout ==
  ASSUME NEW c, NEW b, NEW n, DOMAIN b = {"uid"},
         b["uid"] = [i \in 1..n |-> PromptIn(c, i)]
  PROVE  About(c, b, Identity(n), n)
BY IdentityColumn DEF About, Column

LEMMA GeneratedInv == ASSUME StepInv, Generated PROVE StepInv'
<1>1. /\ pc = "generate" /\ Answered(Agents)
      /\ gen' = IF set.validate THEN Unpad(Gather(Agents), Len(sent) - Rows) ELSE Gather(Agents)
      /\ pc' = IF set.validate THEN "union" ELSE "select"
      /\ UNCHANGED <<config, sent, back, batch, future, trained>>
  BY DEF Generated
<1>2. Configured /\ AtGenerate(set, batch, sent) /\ Calling(sent, Agents, back)
  BY <1>1 DEF StepInv, Phase
<1>3. Gather(Agents) = sent
  BY <1>1, <1>2, StepFacts, GatherIs
<1>4. CASE set.validate
  <2>1. PICK t \in Nat \ {0} : /\ DOMAIN batch = {"uid"}
                               /\ batch["uid"] = [i \in 1..t |-> PromptIn(set, i)]
                               /\ sent = Pad(Identity(t), Agents)
    BY <1>2, <1>4 DEF AtGenerate
  <2>2. PICK l \in Nat \ {0} : Column(sent, l) /\ Unpad(sent, l - t) = Identity(t)
    BY <2>1, StepFacts, IdentityColumn, PadIs
  <2>3. Len(sent) = l
    BY <2>2, ColumnIs
  <2>4. About(set, batch, Identity(t), t)
    BY <2>1, IdentityAbout
  <2>5. Rows = t
    BY <2>4, RowsIs
  <2>6. gen' = Identity(t)
    BY <1>1, <1>3, <1>4, <2>2, <2>3, <2>5
  <2>7. Early(set, correct, batch', gen')
    BY <1>1, <1>4, <2>1, <2>4, <2>6 DEF Early
  <2>8. Phase(set, correct, pc', sent', back', gen', batch', future')
    BY <1>1, <1>4, <2>7 DEF Phase, Greedy, Before, Training, Closing
  <2> QED BY <1>1, <1>2, <2>8, NextPhase
<1>5. CASE ~set.validate
  <2>1. Popped(set, batch) /\ sent = Identity(Total)
    BY <1>2, <1>5 DEF AtGenerate
  <2>2. gen' = Identity(Total) /\ pc' = "select"
    BY <1>1, <1>3, <1>5, <2>1
  <2>3. Phase(set, correct, pc', sent', back', gen', batch', future')
    BY <1>1, <1>5, <2>1, <2>2 DEF Phase, Greedy, Before, Training, Closing
  <2> QED BY <1>1, <1>2, <2>3, NextPhase
<1> QED BY <1>4, <1>5

-----------------------------------------------------------------------------
(* _drop_wrong_generations.                                                *)

\* The right answers in their order, cut to a multiple of the ranks: fewer than
\* one for each rank are left out.
LEMMA KeptIs ==
  ASSUME gen = Identity(Total), correct \in SUBSET Samples
  PROVE  \E m \in Nat :
           /\ Column(Kept, m) /\ m <= Total
           /\ \A i \in 1..m : Kept[i] \in Samples /\ Kept[i] \in correct
           /\ \A i, j \in 1..m : Kept[i] = Kept[j] => i = j
           /\ Cardinality(Missing(correct, Kept, m)) < World
           /\ m = Total => Kept = Identity(Total)
<1> DEFINE S == {i \in 1..Total : gen[i] \in correct}
<1>1. S = correct /\ S \subseteq 1..Total
  BY StepFacts DEF Identity
<1>2. IsFiniteSet(1..Total) /\ Cardinality(1..Total) = Total
  <2>1. IsFiniteSet(1..Total) /\ Cardinality(1..Total) = IF 1 > Total THEN 0 ELSE Total - 1 + 1
    BY StepFacts, FS_Interval
  <2> QED BY <2>1, StepFacts
<1>3. IsFiniteSet(S) /\ Cardinality(S) <= Total /\ (Cardinality(S) = Total => S = 1..Total)
  <2>1. S \in SUBSET (1..Total)
    BY <1>1
  <2> HIDE DEF S
  <2> QED BY <1>2, <2>1, FS_Subset
<1>4. PICK n \in Nat : n = Cardinality(S)
  BY <1>3, FS_CardinalityType
<1>5. PICK w : w = [j \in 1..n |-> NthOf(S, j)]
  OBVIOUS
<1>6. Column(w, n)
  BY <1>5 DEF Column
<1>7. RightOnes = w
  <2>1. Len(gen) = Total
    BY StepFacts, IdentityColumn, ColumnIs
  <2>2. RightOnes = [j \in 1..Cardinality(S) |->
                       CHOOSE i \in S : Cardinality({k \in S : k <= i}) = j]
    BY <2>1 DEF RightOnes, Positions
  <2> QED BY <1>4, <1>5, <2>2 DEF NthOf
<1> HIDE DEF S
<1>8. S \subseteq Int
  BY <1>1, StepFacts
<1>9. /\ \A j \in 1..n : w[j] \in S /\ Cardinality({k \in S : k <= w[j]}) = j
      /\ \A i, j \in 1..n : w[i] = w[j] => i = j
      /\ \A x \in S : \E j \in 1..n : w[j] = x
  <2>1. /\ \A j \in 1..Cardinality(S) :
              NthOf(S, j) \in S /\ Cardinality({k \in S : k <= NthOf(S, j)}) = j
        /\ \A i, j \in 1..Cardinality(S) : NthOf(S, i) = NthOf(S, j) => i = j
        /\ \A x \in S : \E j \in 1..Cardinality(S) : NthOf(S, j) = x
    BY <1>3, <1>8, Nths
  <2>2. \A j \in 1..n : w[j] = NthOf(S, j)
    BY <1>5
  <2> QED BY <1>4, <2>1, <2>2
<1>10. PICK d \in Nat : d = n % World /\ d < World /\ d <= n
  <2>1. n % World \in 0..(World - 1) /\ n \div World \in Nat /\ n = World * (n \div World) + (n % World)
    BY DivMod, StepFacts
  <2>2. World * (n \div World) \in Nat
    BY <2>1, StepFacts
  <2> QED BY <2>1, <2>2, StepFacts
<1>11. PICK m \in Nat : m = n - d
  BY <1>10
<1>12. Kept = Slice(w, 0, m)
  <2>1. Len(w) = n
    BY <1>6, ColumnIs
  <2>2. Kept = Between(w, 0, m)
    BY <1>7, <1>10, <1>11, <2>1 DEF Kept, Between
  <2>3. Between(w, 0, m) = Slice(w, 0, m - 0)
    BY <1>6, <1>11, BetweenIs
  <2> QED BY <2>2, <2>3
<1>13. Column(Kept, m) /\ \A i \in 1..m : Kept[i] = w[i] /\ i \in 1..n
  BY <1>11, <1>12, SliceColumn
<1>14. \A i \in 1..m : Kept[i] \in Samples /\ Kept[i] \in correct
  BY <1>1, <1>9, <1>13, StepFacts
<1>15. \A i, j \in 1..m : Kept[i] = Kept[j] => i = j
  BY <1>9, <1>13
<1>16. Cardinality(Missing(correct, Kept, m)) < World
  <2> DEFINE M == Missing(correct, Kept, m)
             at == [x \in M |-> CHOOSE j \in 1..n : w[j] = x]
  <2>1. ASSUME NEW x \in M PROVE at[x] \in (m + 1)..n /\ w[at[x]] = x
    <3>1. x \in S /\ \A i \in 1..m : Kept[i] # x
      BY <1>1 DEF Missing
    <3>2. at[x] \in 1..n /\ w[at[x]] = x
      BY <1>9, <3>1
    <3>3. at[x] \notin 1..m
      BY <1>13, <3>1, <3>2
    <3> QED BY <3>2, <3>3
  <2>2. at \in Injection(M, (m + 1)..n)
    BY <2>1 DEF Injection, IsInjective
  <2>3. IsFiniteSet((m + 1)..n) /\ Cardinality((m + 1)..n) = d
    <3>1. /\ IsFiniteSet((m + 1)..n)
          /\ Cardinality((m + 1)..n) = IF m + 1 > n THEN 0 ELSE n - (m + 1) + 1
      BY FS_Interval
    <3> QED BY <1>10, <1>11, <3>1
  <2>4. IsFiniteSet(M) /\ Cardinality(M) <= d
    BY <2>2, <2>3, FS_Injection
  <2>5. Cardinality(M) \in Nat
    BY <2>4, FS_CardinalityType
  <2> HIDE DEF M
  <2>6. Cardinality(M) < World
    BY <1>10, <2>4, <2>5, StepFacts
  <2> QED BY <2>6 DEF M
<1>17. m <= Total
  BY <1>3, <1>4, <1>10, <1>11, StepFacts
<1>18. ASSUME m = Total PROVE Kept = Identity(Total)
  <2>1. n = Total /\ S = 1..Total
    BY <1>3, <1>4, <1>10, <1>11, <1>18, StepFacts
  <2>2. ASSUME NEW j \in 1..Total PROVE w[j] = j
    <3>1. PICK k \in 1..Total : k = w[j]
      BY <1>9, <2>1
    <3>2. {i \in S : i <= k} = 1..k
      BY <2>1, StepFacts
    <3>3. Cardinality(1..k) = IF 1 > k THEN 0 ELSE k - 1 + 1
      BY FS_Interval
    <3>4. Cardinality({i \in S : i <= w[j]}) = j
      BY <1>9, <2>1
    <3>5. Cardinality(1..k) = j
      BY <3>1, <3>2, <3>4
    <3>6. k = j
      BY <3>3, <3>5
    <3> QED BY <3>1, <3>6
  <2>3. Column(Kept, Total) /\ \A i \in 1..Total : Kept[i] = Identity(Total)[i]
    BY <1>13, <1>18, <2>2, IdentityColumn
  <2> QED BY <2>3, IdentityColumn, ColumnsEqual
<1> QED BY <1>13, <1>14, <1>15, <1>16, <1>17, <1>18

LEMMA SelectInv == ASSUME StepInv, Select PROVE StepInv'
<1> DEFINE repeated == Repeat(batch["uid"], set.n)
<1>1. /\ pc = "select"
      /\ pc' = IF set.remax THEN "max" ELSE "union"
      /\ UNCHANGED <<config, sent, back, future, trained>>
      /\ IF set.drop /\ Len(Kept) > 0
         THEN batch' = With("uid", Reorder(repeated, Kept)) /\ gen' = Reorder(gen, Kept)
         ELSE batch' = With("uid", repeated) /\ gen' = gen
  BY DEF Select
<1>2. Configured /\ ~set.validate /\ Popped(set, batch) /\ gen = Identity(Total)
  BY <1>1 DEF StepInv, Phase
<1>3. /\ set.n \in Nat \ {0} /\ PromptsIn(set) \in Nat \ {0} /\ Total = PromptsIn(set) * set.n
      /\ set.remax \in BOOLEAN /\ set.drop \in BOOLEAN
  BY <1>2, SettingIs DEF Configured
<1>4. /\ DOMAIN batch = {"uid"}
      /\ Column(batch["uid"], PromptsIn(set)) /\ \A i \in 1..PromptsIn(set) : batch["uid"][i] = i
  BY <1>2, IdentityColumn DEF Popped
<1>5. PICK u : u = repeated
  OBVIOUS
<1>6. Column(u, Total) /\ \A i \in 1..Total : u[i] = PromptIn(set, i)
  <2>1. /\ Column(u, PromptsIn(set) * set.n)
        /\ \A i \in 1..(PromptsIn(set) * set.n) :
             u[i] = batch["uid"][RunOf(i, set.n)] /\ RunOf(i, set.n) \in 1..PromptsIn(set)
    <3>1. \E p \in Nat, k \in Nat \ {0} : p = PromptsIn(set) /\ k = set.n
      BY <1>3
    <3>6. PICK p \in Nat, k \in Nat \ {0} : p = PromptsIn(set) /\ k = set.n
      BY <3>1
    <3>7. PICK v : v = batch["uid"]
      OBVIOUS
    <3>2. Column(v, p)
      BY <1>4, <3>6, <3>7
    <3>3. Column(Repeat(v, k), p * k)
      BY <3>2, RepeatIs
    <3>4. \A i \in 1..(p * k) : Repeat(v, k)[i] = v[RunOf(i, k)] /\ RunOf(i, k) \in 1..p
      BY <3>2, RepeatIs
    <3>5. Repeat(v, k) = u
      BY <1>5, <3>6, <3>7
    <3> QED BY <3>6, <3>7, <3>3, <3>4, <3>5
  <2> QED BY <1>3, <1>4, <2>1 DEF PromptIn
<1>7. ASSUME NEW m \in Nat \ {0}, Column(gen', m), DOMAIN batch' = {"uid"}, Column(batch'["uid"], m),
             \A i \in 1..m : batch'["uid"][i] = PromptIn(set, gen'[i]),
             Chosen(correct, gen', m),
             ~set.drop => m = Total, m = Total => gen' = Identity(Total)
      PROVE  StepInv'
  <2>1. About(set, batch', gen', m)
    BY <1>7 DEF About
  <2>2. Early(set, correct, batch', gen')
    BY <1>7, <2>1 DEF Early
  <2>3. Len(gen') = m
    BY <1>7, ColumnIs
  <2>4. Phase(set, correct, pc', sent', back', gen', batch', future')
    BY <1>1, <1>2, <1>3, <1>7, <2>2, <2>3 DEF Phase, Greedy, Before, Training, Closing
  <2> QED BY <1>1, <1>2, <2>4, NextPhase
<1>8. CASE set.drop /\ Len(Kept) > 0
  <2>1. PICK m \in Nat :
           /\ Column(Kept, m) /\ m <= Total
           /\ \A i \in 1..m : Kept[i] \in Samples /\ Kept[i] \in correct
           /\ \A i, j \in 1..m : Kept[i] = Kept[j] => i = j
           /\ Cardinality(Missing(correct, Kept, m)) < World
           /\ m = Total => Kept = Identity(Total)
    BY <1>2, KeptIs DEF Configured
  <2>2. Len(Kept) = m /\ DOMAIN Kept = 1..m
    BY <2>1, ColumnIs
  <2>3. m \in Nat \ {0}
    BY <1>8, <2>2
  <2>4. gen' = [i \in 1..m |-> gen[Kept[i]]] /\ batch' = With("uid", [i \in 1..m |-> u[Kept[i]]])
    BY <1>1, <1>5, <1>8, <2>2 DEF Reorder
  <2>5. \A i \in 1..m : gen[Kept[i]] = Kept[i] /\ u[Kept[i]] = PromptIn(set, Kept[i])
    BY <1>2, <1>6, <2>1, StepFacts, IdentityColumn
  <2>6. gen' = Kept
    BY <2>1, <2>4, <2>5 DEF Column
  <2>7. DOMAIN batch' = {"uid"} /\ batch'["uid"] = [i \in 1..m |-> u[Kept[i]]]
    BY <1>4, <2>4 DEF With, Put
  <2>8. Column(batch'["uid"], m) /\ \A i \in 1..m : batch'["uid"][i] = PromptIn(set, gen'[i])
    BY <2>5, <2>6, <2>7 DEF Column
  <2>9. Chosen(correct, gen', m)
    BY <2>1, <2>6 DEF Chosen
  <2> QED BY <1>7, <1>8, <2>1, <2>3, <2>6, <2>7, <2>8, <2>9
<1>9. CASE ~(set.drop /\ Len(Kept) > 0)
  <2>1. gen' = Identity(Total) /\ batch' = With("uid", u)
    BY <1>1, <1>2, <1>5, <1>9
  <2>2. DOMAIN batch' = {"uid"} /\ batch'["uid"] = u
    BY <1>4, <2>1 DEF With, Put
  <2>3. Column(gen', Total) /\ \A i \in 1..Total : gen'[i] = i
    BY <2>1, IdentityColumn
  <2>4. Chosen(correct, gen', Total)
    BY <2>3, StepFacts DEF Chosen
  <2> QED BY <1>6, <1>7, <2>1, <2>2, <2>3, <2>4, StepFacts
<1> QED BY <1>8, <1>9

-----------------------------------------------------------------------------
(* The greedy answers of REMAX, and the union.                             *)

LEMMA GenerateMaxInv == ASSUME StepInv, GenerateMax PROVE StepInv'
<1>1. /\ pc = "max" /\ UNCHANGED <<config, gen, batch, future, trained>>
      /\ Send([p \in 1..Prompts |-> Baseline(p)], Agents, "baseline")
  BY DEF GenerateMax
<1>2. Configured /\ Phase(set, correct, pc, sent, back, gen, batch, future)
  BY DEF StepInv
<1> DEFINE rows1 == [p \in 1..Prompts |-> Baseline(p)]
<1>3. PromptsIn(set) \in Nat \ {0} /\ Prompts = PromptsIn(set)
  BY <1>2, SettingIs, PromptIs DEF Configured
<1>4. Column(rows1, PromptsIn(set))
  BY <1>3 DEF Column
<1>5. Send(rows1, Agents, "baseline")
  BY <1>1
<1> HIDE DEF rows1
<1>6. \/ pc' = "baseline" /\ sent' = rows1 /\ Calling(sent', Agents, back')
      \/ pc' = "failed"
  BY <1>3, <1>4, <1>5, StepFacts, SendIs
<1>7. Early(set, correct, batch, gen) /\ "response" \notin DOMAIN batch
  BY <1>1, <1>2 DEF Phase, Before, Greedy, Early
<1>8. CASE pc' = "failed"
  BY <1>1, <1>2, <1>7, <1>8, FailPhase, NextPhase
<1>9. CASE pc' = "baseline" /\ sent' = rows1 /\ Calling(sent', Agents, back')
  <2>1. sent' = [i \in 1..PromptsIn(set) |-> Baseline(i)]
    BY <1>3, <1>9 DEF rows1
  <2>2. Phase(set, correct, pc', sent', back', gen', batch', future')
    BY <1>1, <1>2, <1>7, <1>9, <2>1 DEF Phase, Greedy, Before, Training, Closing
  <2> QED BY <1>1, <1>2, <2>2, NextPhase
<1> QED BY <1>6, <1>8, <1>9

LEMMA FailedIs ==
  ASSUME StepInv, Failed, "response" \in DOMAIN batch => Late(set, correct, batch)
  PROVE  StepInv'
<1>1. pc' = "failed" /\ UNCHANGED <<config, sent, back, gen, batch, future, trained>>
  BY DEF Failed
<1>2. Configured
  BY DEF StepInv
<1>3. Phase(set, correct, pc', sent', back', gen', batch', future')
  BY <1>1, FailPhase
<1> QED BY <1>1, <1>2, <1>3, NextPhase

LEMMA UnionMaxInv == ASSUME StepInv, UnionMax PROVE StepInv'
<1>1. pc = "baseline" /\ Answered(Agents)
  BY DEF UnionMax
<1>2. Configured /\ Phase(set, correct, pc, sent, back, gen, batch, future)
  BY DEF StepInv
<1>3. /\ Early(set, correct, batch, gen) /\ ~set.validate /\ set.remax
      /\ ~set.drop => Len(gen) = Total
      /\ Len(gen) = Total => gen = Identity(Total)
      /\ sent = [i \in 1..PromptsIn(set) |-> Baseline(i)] /\ Calling(sent, Agents, back)
      /\ "response" \notin DOMAIN batch
  BY <1>1, <1>2 DEF Phase, Before, Greedy, Early
<1>4. PICK n \in Nat \ {0} : About(set, batch, gen, n) /\ Chosen(correct, gen, n)
  BY <1>3 DEF Early
<1>5. Rows = n /\ Len(gen) = n
  BY <1>4, RowsIs, ColumnIs DEF About
<1>6. set.n \in Nat \ {0} /\ PromptsIn(set) \in Nat \ {0} /\ Total = PromptsIn(set) * set.n
  BY <1>2, SettingIs DEF Configured
<1>7. Len(sent) = PromptsIn(set) /\ Column(sent, PromptsIn(set))
  <2>1. Column(sent, PromptsIn(set))
    BY <1>3 DEF Column
  <2> QED BY <1>6, <2>1, ColumnIs
<1>8. CASE Rows # Len(sent)
  <2>1. Failed
    BY <1>8 DEF UnionMax
  <2> QED BY <1>3, <2>1, FailedIs
<1>9. CASE Rows = Len(sent)
  <2>1. /\ batch' = With("baseline", sent) /\ pc' = "union"
        /\ UNCHANGED <<config, sent, back, gen, future, trained>>
    BY <1>1, <1>3, <1>9, StepFacts, GatherIs DEF UnionMax
  <2>2. n = PromptsIn(set)
    BY <1>5, <1>7, <1>9
  <2>3. /\ DOMAIN batch' = DOMAIN batch \cup {"baseline"} /\ batch'["baseline"] = sent
        /\ \A x \in DOMAIN batch : x # "baseline" => batch'[x] = batch[x]
    BY <2>1 DEF With, Put
  <2>4. ASSUME Paired(set), NEW i \in 1..n
        PROVE  sent[i] = Baseline(PromptIn(set, gen[i]))
    <3>1. set.n = 1 /\ n = Total
      <4>1. set.drop => set.n = 1
        BY <1>3, <2>4 DEF Paired
      <4>2. set.n = 1 => PromptsIn(set) = Total
        BY <1>6
      <4>3. PICK k \in Nat \ {0}, p \in Nat \ {0} : k = set.n /\ p = PromptsIn(set)
        BY <1>6
      <4>4. p * k = p => k = 1
        <5>1. k # 1 => p * k >= p + p
          <6>1. k # 1 => k - 2 \in Nat
            BY <4>3
          <6>2. k # 1 => p * (k - 2) \in Nat
            BY <6>1
          <6>3. p * (k - 2) = p * k - p - p
            BY <4>3
          <6> QED BY <4>3, <6>2, <6>3
        <5> QED BY <4>3, <5>1
      <4>5. ~set.drop => set.n = 1
        BY <1>3, <1>5, <1>6, <2>2, <4>3, <4>4
      <4> QED BY <2>2, <4>1, <4>2, <4>5
    <3>2. gen[i] = i
      BY <1>3, <1>5, <2>4, <3>1, IdentityColumn
    <3>3. PromptIn(set, i) = i
      <4>1. 1 \in Nat \ {0} /\ n \in Nat /\ i \in 1..n /\ 1 \in 1..1
        OBVIOUS
      <4>2. RunOf((i - 1) * 1 + 1, 1) = i
        BY <4>1, PlaceOf
      <4>3. (i - 1) * 1 + 1 = i
        BY <4>1
      <4> QED BY <3>1, <4>2, <4>3 DEF PromptIn
    <3>4. sent[i] = Baseline(i)
      BY <1>3, <2>2
    <3> QED BY <3>2, <3>3, <3>4
  <2>5. About(set, batch', gen, n)
    <3>1. Column(batch'["baseline"], n)
      BY <1>7, <2>2, <2>3
    <3>2. \A x \in DOMAIN batch' : Column(batch'[x], n)
      BY <1>4, <2>3, <3>1 DEF About
    <3>3. DOMAIN batch' \subseteq {"uid", "baseline"}
      BY <1>3, <2>3 DEF Early
    <3>4. batch'["uid"] = batch["uid"] /\ "uid" \in DOMAIN batch'
      BY <1>4, <2>3 DEF About
    <3>5. \A i \in 1..n : batch'["uid"][i] = PromptIn(set, gen[i])
      BY <1>4, <3>4 DEF About
    <3> QED BY <1>4, <2>3, <2>4, <3>2, <3>3, <3>4, <3>5 DEF About
  <2>6. Early(set, correct, batch', gen')
    BY <1>3, <1>4, <2>1, <2>3, <2>5 DEF Early
  <2>7. Phase(set, correct, pc', sent', back', gen', batch', future')
    BY <2>1, <2>6 DEF Phase, Greedy, Before, Training, Closing
  <2> QED BY <1>2, <2>1, <2>7, NextPhase
<1> QED BY <1>8, <1>9

LEMMA UnionInv == ASSUME StepInv, Union PROVE StepInv'
<1>1. pc = "union"
  BY DEF Union
<1>2. Configured /\ Phase(set, correct, pc, sent, back, gen, batch, future)
  BY DEF StepInv
<1>3. Early(set, correct, batch, gen)
  BY <1>1, <1>2 DEF Phase, Before
<1>4. PICK n \in Nat \ {0} : About(set, batch, gen, n) /\ (~set.validate => Chosen(correct, gen, n))
  BY <1>3 DEF Early
<1>5. Rows = n /\ Len(gen) = n
  BY <1>4, RowsIs, ColumnIs DEF About
<1>6. /\ batch' = Put(batch, "response", gen)
      /\ pc' = IF set.balance /\ ~set.validate THEN "balance" ELSE "reward"
      /\ UNCHANGED <<config, sent, back, gen, future, trained>>
  BY <1>5 DEF Union, With
<1>7. About(set, batch', gen, n)
  BY <1>4, <1>6, AboutWith
<1>8. /\ "response" \in DOMAIN batch' /\ batch'["response"] = gen /\ "group" \notin DOMAIN batch'
  BY <1>3, <1>6 DEF Put, Early
<1>9. Late(set, correct, batch')
  BY <1>4, <1>7, <1>8 DEF Late
<1>10. Phase(set, correct, pc', sent', back', gen', batch', future')
  <2>1. CASE set.balance /\ ~set.validate
    BY <1>6, <1>8, <1>9, <2>1 DEF Phase, Greedy, Before, Training, Closing
  <2>2. CASE ~(set.balance /\ ~set.validate)
    BY <1>6, <1>8, <1>9, <2>2 DEF Phase, Greedy, Before, Training, Closing
  <2> QED BY <2>1, <2>2
<1> QED BY <1>2, <1>6, <1>10, NextPhase

-----------------------------------------------------------------------------
(* _balance_batch.                                                         *)

\* The rows of a rank in the order of their lengths, shortest first, rows of
\* equal length in the order of the batch.
Lighter == {p \in (1..Rows) \X (1..Rows) : Shorter(p[1], p[2])}
OfRank(f, r) == {i \in 1..Rows : f[i] = r}

LEMMA ZigZags ==
  ASSUME NEW n \in Nat
  PROVE  /\ \A j \in 1..n : ZigZag(n, j) \in 1..n
         /\ \A i, j \in 1..n : ZigZag(n, i) = ZigZag(n, j) => i = j
<1>1. ASSUME NEW j \in 1..n PROVE ZigZag(n, j) \in 1..n
  <2>1. CASE 2 * j - 1 <= n
    BY <2>1 DEF ZigZag
  <2>2. CASE ~(2 * j - 1 <= n)
    BY <2>2 DEF ZigZag
  <2> QED BY <2>1, <2>2
<1>2. ASSUME NEW i \in 1..n, NEW j \in 1..n, ZigZag(n, i) = ZigZag(n, j) PROVE i = j
  <2>1. CASE 2 * i - 1 <= n /\ 2 * j - 1 <= n
    BY <1>2, <2>1 DEF ZigZag
  <2>2. CASE ~(2 * i - 1 <= n) /\ ~(2 * j - 1 <= n)
    BY <1>2, <2>2 DEF ZigZag
  <2>3. CASE 2 * i - 1 <= n /\ ~(2 * j - 1 <= n)
    <3>1. 2 * i - 1 = 2 * (n - j + 1)
      BY <1>2, <2>3 DEF ZigZag
    <3> QED BY <3>1
  <2>4. CASE ~(2 * i - 1 <= n) /\ 2 * j - 1 <= n
    <3>1. 2 * j - 1 = 2 * (n - i + 1)
      BY <1>2, <2>4 DEF ZigZag
    <3> QED BY <3>1
  <2> QED BY <2>1, <2>2, <2>3, <2>4
<1> QED BY <1>1, <1>2

LEMMA LighterIs ==
  ASSUME Rows \in Nat, \A i \in 1..Rows : len[batch["response"][i]] \in Int
  PROVE  TotalOrder(1..Rows, Lighter)
<1> DEFINE l(i) == len[batch["response"][i]]
<1>1. \A i, j \in 1..Rows : <<i, j>> \in Lighter <=> l(i) < l(j) \/ (l(i) = l(j) /\ i <= j)
  BY DEF Lighter, Shorter
<1>2. \A i \in 1..Rows : l(i) \in Int /\ i \in Int
  OBVIOUS
<1> HIDE DEF l
<1>3. \A i \in 1..Rows : <<i, i>> \in Lighter
  BY <1>1, <1>2
<1>4. ASSUME NEW i \in 1..Rows, NEW j \in 1..Rows
      PROVE  <<i, j>> \in Lighter \/ <<j, i>> \in Lighter
  <2>1. l(i) \in Int /\ l(j) \in Int /\ i \in Int /\ j \in Int
    BY <1>2
  <2>2. \/ l(i) < l(j) \/ (l(i) = l(j) /\ i <= j)
        \/ l(j) < l(i) \/ (l(j) = l(i) /\ j <= i)
    BY <2>1
  <2> QED BY <1>1, <2>2
<1>5. ASSUME NEW i \in 1..Rows, NEW j \in 1..Rows, <<i, j>> \in Lighter, <<j, i>> \in Lighter
      PROVE  i = j
  <2>1. l(i) \in Int /\ l(j) \in Int /\ i \in Int /\ j \in Int
    BY <1>2
  <2>2. /\ l(i) < l(j) \/ (l(i) = l(j) /\ i <= j)
        /\ l(j) < l(i) \/ (l(j) = l(i) /\ j <= i)
    BY <1>1, <1>5
  <2> QED BY <2>1, <2>2
<1>6. ASSUME NEW i \in 1..Rows, NEW j \in 1..Rows, NEW k \in 1..Rows,
             <<i, j>> \in Lighter, <<j, k>> \in Lighter
      PROVE  <<i, k>> \in Lighter
  <2>1. l(i) \in Int /\ l(j) \in Int /\ l(k) \in Int /\ i \in Int /\ j \in Int /\ k \in Int
    BY <1>2
  <2>2. /\ l(i) < l(j) \/ (l(i) = l(j) /\ i <= j)
        /\ l(j) < l(k) \/ (l(j) = l(k) /\ j <= k)
    BY <1>1, <1>6
  <2>3. l(i) < l(k) \/ (l(i) = l(k) /\ i <= k)
    BY <2>1, <2>2
  <2> QED BY <1>1, <2>3
<1> QED BY <1>3, <1>4, <1>5, <1>6 DEF TotalOrder

LEMMA TotalOrderSub ==
  ASSUME NEW S, NEW T \in SUBSET S, NEW B, TotalOrder(S, B)
  PROVE  TotalOrder(T, B)
<1>1. \A i \in T : i \in S
  OBVIOUS
<1> QED BY <1>1 DEF TotalOrder

\* The ranks' rows laid out behind one another are the rows of the batch in
\* another order.
LEMMA PlacedIs ==
  ASSUME NEW n \in Nat \ {0}, Rows = n, n % World = 0,
         \A i \in 1..n : len[batch["response"][i]] \in Int,
         NEW f \in Shares
  PROVE  /\ Placed(f) \in [1..n -> 1..n]
         /\ \A p, q \in 1..n : Placed(f)[p] = Placed(f)[q] => p = q
         /\ \A i \in 1..n : \E p \in 1..n : Placed(f)[p] = i
<1>1. PICK b \in Nat \ {0} : b = n \div World /\ n = World * b
  BY StepFacts, Divides
<1>2. /\ f \in [1..n -> Ranks]
      /\ \A r \in Ranks : Cardinality({i \in 1..n : f[i] = r}) * World = n
  BY DEF Shares
<1>3. IsFiniteSet(1..n)
  BY FS_Interval
<1>4. ASSUME NEW r \in Ranks
      PROVE  /\ IsFiniteSet(OfRank(f, r)) /\ OfRank(f, r) \in SUBSET (1..n)
             /\ Cardinality(OfRank(f, r)) = b
  <2>1. OfRank(f, r) = {i \in 1..n : f[i] = r}
    BY DEF OfRank
  <2>2. OfRank(f, r) \in SUBSET (1..n)
    BY <2>1
  <2>3. IsFiniteSet(OfRank(f, r))
    BY <1>3, <2>2, FS_Subset
  <2>4. PICK c \in Nat : c = Cardinality(OfRank(f, r))
    BY <2>3, FS_CardinalityType
  <2>5. c * World = World * b
    BY <1>1, <1>2, <2>1, <2>4
  <2>6. b * World = World * b
    BY StepFacts
  <2>7. ~(c < b)
    <3>1. c < b => c * World + World <= b * World
      BY StepFacts, Products
    <3>2. c * World \in Nat
      BY StepFacts
    <3> QED BY <2>5, <2>6, <3>1, <3>2, StepFacts
  <2>8. ~(b < c)
    <3>1. b < c => b * World + World <= c * World
      BY StepFacts, Products
    <3>2. b * World \in Nat
      BY StepFacts
    <3> QED BY <2>5, <2>6, <3>1, <3>2, StepFacts
  <2> QED BY <2>2, <2>3, <2>4, <2>7, <2>8
<1>5. PICK rk : rk = [i \in 1..n |-> Cardinality({k \in 1..n : f[k] = f[i] /\ Shorter(k, i)})]
  OBVIOUS
<1>6. ASSUME NEW r \in Ranks
      PROVE  /\ \A i \in OfRank(f, r) : rk[i] \in 1..b
             /\ \A i, j \in OfRank(f, r) : rk[i] = rk[j] => i = j
             /\ \A p \in 1..b : \E i \in OfRank(f, r) : rk[i] = p
  <2> DEFINE S == OfRank(f, r)
  <2>1. PICK o : o = [i \in S |-> Cardinality({k \in S : <<k, i>> \in Lighter})]
    OBVIOUS
  <2>2. TotalOrder(S, Lighter)
    <3>1. TotalOrder(1..n, Lighter)
      BY LighterIs
    <3> QED BY <1>4, <3>1, TotalOrderSub
  <2>3. IsFiniteSet(S) /\ Cardinality(S) = b /\ S \in SUBSET (1..n)
    BY <1>4
  <2>4. ASSUME NEW i \in S PROVE rk[i] = o[i]
    <3>1. f[i] = r /\ i \in 1..n
      BY DEF OfRank
    <3>2. {k \in S : <<k, i>> \in Lighter} = {k \in 1..n : f[k] = f[i] /\ Shorter(k, i)}
      BY <3>1 DEF Lighter, OfRank
    <3> QED BY <1>5, <2>1, <3>1, <3>2
  <2> HIDE DEF S
  <2>5. RanksOf(S, Lighter, o)
    BY <2>1, <2>2, <2>3, Ranking
  <2>6. /\ \A i \in S : o[i] \in 1..b
        /\ \A i, j \in S : o[i] = o[j] => i = j
        /\ \A p \in 1..b : \E i \in S : o[i] = p
    BY <2>3, <2>5 DEF RanksOf
  <2>7. /\ \A i \in S : rk[i] \in 1..b
        /\ \A i, j \in S : rk[i] = rk[j] => i = j
        /\ \A p \in 1..b : \E i \in S : rk[i] = p
    BY <2>4, <2>6
  <2> QED BY <2>7 DEF S
<1>7. PICK P : P = Placed(f)
  OBVIOUS
<1> DEFINE Fits(p, i) == f[i] = RunOf(p, b) /\ rk[i] = ZigZag(b, SpotOf(p, b))
           Has(p, i) == /\ f[i] = ((p - 1) \div (Rows \div World)) + 1
                        /\ Cardinality({k \in 1..Rows : f[k] = f[i] /\ Shorter(k, i)})
                              = ZigZag(Rows \div World, ((p - 1) % (Rows \div World)) + 1)
<1>8. /\ DOMAIN P = 1..n /\ P = [p \in DOMAIN P |-> P[p]]
      /\ \A p \in 1..n : P[p] = CHOOSE i \in 1..Rows : Fits(p, i)
  <2>1. Rows = n /\ Rows \div World = b
    BY <1>1
  <2>2. P = [p \in 1..Rows |-> CHOOSE i \in 1..Rows : Has(p, i)]
    BY <1>7 DEF Placed
  <2>3. ASSUME NEW p \in 1..Rows, NEW i \in 1..Rows PROVE Has(p, i) <=> Fits(p, i)
    BY <1>5, <2>1 DEF RunOf, SpotOf
  <2> HIDE DEF Has, Fits
  <2>4. ASSUME NEW p \in 1..Rows
        PROVE  (CHOOSE i \in 1..Rows : Has(p, i)) = (CHOOSE i \in 1..Rows : Fits(p, i))
    BY <2>3, Zenon
  <2>5. DOMAIN P = 1..Rows /\ \A p \in 1..Rows : P[p] = CHOOSE i \in 1..Rows : Has(p, i)
    BY <2>2
  <2>6. P = [p \in DOMAIN P |-> P[p]]
    BY <2>2
  <2>7. \A p \in 1..Rows : P[p] = CHOOSE i \in 1..Rows : Fits(p, i)
    BY <2>4, <2>5
  <2> QED BY <2>1, <2>5, <2>6, <2>7
<1>9. ASSUME NEW p \in 1..n
      PROVE  /\ RunOf(p, b) \in Ranks /\ SpotOf(p, b) \in 1..b
             /\ p = (RunOf(p, b) - 1) * b + SpotOf(p, b)
             /\ P[p] \in 1..n /\ f[P[p]] = RunOf(p, b) /\ rk[P[p]] = ZigZag(b, SpotOf(p, b))
  <2>1. /\ RunOf(p, b) \in 1..World /\ SpotOf(p, b) \in 1..b
        /\ p = (RunOf(p, b) - 1) * b + SpotOf(p, b)
    <3>1. p \in 1..(World * b) /\ World \in Nat
      BY <1>1, StepFacts
    <3> QED BY <3>1, PlaceIs
  <2>2. RunOf(p, b) \in Ranks
    BY <2>1, StepFacts
  <2>3. ZigZag(b, SpotOf(p, b)) \in 1..b
    BY <2>1, ZigZags
  <2>4. \E i \in 1..n : f[i] = RunOf(p, b) /\ rk[i] = ZigZag(b, SpotOf(p, b))
    <3>1. PICK i \in OfRank(f, RunOf(p, b)) : rk[i] = ZigZag(b, SpotOf(p, b))
      BY <1>6, <2>2, <2>3
    <3> QED BY <3>1 DEF OfRank
  <2>5. P[p] = CHOOSE i \in 1..Rows : Fits(p, i)
    BY <1>8
  <2>7. \E i \in 1..Rows : Fits(p, i)
    BY <2>4
  <2>6. P[p] \in 1..n /\ f[P[p]] = RunOf(p, b) /\ rk[P[p]] = ZigZag(b, SpotOf(p, b))
    BY <2>5, <2>7, Zenon
  <2> QED BY <2>1, <2>2, <2>6
<1>10. P \in [1..n -> 1..n]
  <2>2. \A p \in 1..n : P[p] \in 1..n
    BY <1>9
  <2> QED BY <1>8, <2>2
<1>11. \A p, q \in 1..n : P[p] = P[q] => p = q
  <2> SUFFICES ASSUME NEW p \in 1..n, NEW q \in 1..n, P[p] = P[q] PROVE p = q
    OBVIOUS
  <2>1. RunOf(p, b) = RunOf(q, b) /\ ZigZag(b, SpotOf(p, b)) = ZigZag(b, SpotOf(q, b))
    BY <1>9
  <2>2. SpotOf(p, b) = SpotOf(q, b)
    BY <1>9, <2>1, ZigZags
  <2> QED BY <1>9, <2>1, <2>2
<1>12. \A i \in 1..n : \E p \in 1..n : P[p] = i
  <2> HIDE DEF Fits, Has
  <2>1. IsFiniteSet(1..n)
    BY <1>3
  <2>2. \A i, j \in 1..n : P[i] = P[j] => i = j
    BY <1>11
  <2>3. PICK S : S = 1..n
    OBVIOUS
  <2>4. IsFiniteSet(S) /\ P \in [S -> S] /\ \A i, j \in S : P[i] = P[j] => i = j
    BY <1>10, <2>1, <2>2, <2>3
  <2>5. \A i \in S : \E p \in S : P[p] = i
    BY <2>4, Onto
  <2> QED BY <2>3, <2>5
<1> QED BY <1>7, <1>10, <1>11, <1>12

\* What is about a row goes with it.
LEMMA AboutReorder ==
  ASSUME NEW c, NEW b, NEW rows, NEW n \in Nat, About(c, b, rows, n), "group" \notin DOMAIN b,
         NEW P \in [1..n -> 1..n]
  PROVE  About(c, [x \in DOMAIN b |-> Reorder(b[x], P)], Reorder(rows, P), n)
<1> DEFINE d == [x \in DOMAIN b |-> Reorder(b[x], P)]
           t == Reorder(rows, P)
<1>1. \A v : Reorder(v, P) = [i \in 1..n |-> v[P[i]]]
  BY DEF Reorder
<1>2. DOMAIN d = DOMAIN b /\ \A x \in DOMAIN b : d[x] = [i \in 1..n |-> b[x][P[i]]]
  BY <1>1
<1>3. t = [i \in 1..n |-> rows[P[i]]]
  BY <1>1
<1> HIDE DEF d, t
<1>4. \A i \in 1..n : P[i] \in 1..n
  OBVIOUS
<1>5. Column(t, n) /\ \A x \in DOMAIN d : Column(d[x], n)
  BY <1>2, <1>3 DEF Column
<1>11. /\ "uid" \in DOMAIN b /\ \A i \in 1..n : b["uid"][i] = PromptIn(c, rows[i])
       /\ Paired(c) /\ "baseline" \in DOMAIN b =>
            \A i \in 1..n : b["baseline"][i] = Baseline(PromptIn(c, rows[i]))
  BY DEF About
<1>6. "uid" \in DOMAIN d /\ \A i \in 1..n : d["uid"][i] = PromptIn(c, t[i])
  <2> SUFFICES ASSUME NEW i \in 1..n PROVE d["uid"][i] = PromptIn(c, t[i])
    BY <1>2, <1>11
  <2>1. d["uid"][i] = b["uid"][P[i]] /\ t[i] = rows[P[i]] /\ P[i] \in 1..n
    BY <1>2, <1>3, <1>4, <1>11
  <2> QED BY <1>11, <2>1
<1>7. \A x \in DOMAIN d \cap {"response", "score", "old"} : d[x] = t
  BY <1>2, <1>3 DEF About
<1>8. Paired(c) /\ "baseline" \in DOMAIN d =>
        \A i \in 1..n : d["baseline"][i] = Baseline(PromptIn(c, t[i]))
  <2> SUFFICES ASSUME Paired(c), "baseline" \in DOMAIN d, NEW i \in 1..n
               PROVE  d["baseline"][i] = Baseline(PromptIn(c, t[i]))
    OBVIOUS
  <2>1. d["baseline"][i] = b["baseline"][P[i]] /\ t[i] = rows[P[i]] /\ P[i] \in 1..n
    BY <1>2, <1>3, <1>4
  <2> QED BY <1>2, <1>11, <2>1
<1>9. "group" \notin DOMAIN d
  BY <1>2
<1>10. About(c, d, t, n)
  BY <1>5, <1>6, <1>7, <1>8, <1>9 DEF About
<1> QED BY <1>10 DEF d, t

LEMMA ChosenReorder ==
  ASSUME NEW cor, NEW rows, NEW n \in Nat, Chosen(cor, rows, n),
         NEW P \in [1..n -> 1..n], \A p, q \in 1..n : P[p] = P[q] => p = q,
         \A i \in 1..n : \E p \in 1..n : P[p] = i
  PROVE  Chosen(cor, Reorder(rows, P), n)
<1>1. PICK t : t = Reorder(rows, P) /\ t = [i \in 1..n |-> rows[P[i]]]
  BY DEF Reorder
<1>2. \A i \in 1..n : P[i] \in 1..n /\ t[i] = rows[P[i]]
  BY <1>1
<1>3. \A i \in 1..n : t[i] \in Samples
  BY <1>2 DEF Chosen
<1>4. \A i, j \in 1..n : t[i] = t[j] => i = j
  <2> SUFFICES ASSUME NEW i \in 1..n, NEW j \in 1..n, t[i] = t[j] PROVE i = j
    OBVIOUS
  <2>1. rows[P[i]] = rows[P[j]] /\ P[i] \in 1..n /\ P[j] \in 1..n
    BY <1>2
  <2>3. \A x, y \in 1..n : rows[x] = rows[y] => x = y
    BY DEF Chosen
  <2>4. PICK x \in 1..n, y \in 1..n : x = P[i] /\ y = P[j]
    BY <2>1
  <2>5. x = y
    BY <2>1, <2>3, <2>4
  <2>2. P[i] = P[j]
    BY <2>4, <2>5
  <2> QED BY <2>2
<1>5. ASSUME NEW s PROVE (\E i \in 1..n : rows[i] = s) <=> (\E i \in 1..n : t[i] = s)
  <2>1. ASSUME NEW i \in 1..n, rows[i] = s PROVE \E p \in 1..n : t[p] = s
    <3>1. PICK p \in 1..n : P[p] = i
      OBVIOUS
    <3> QED BY <1>2, <2>1, <3>1
  <2>2. ASSUME NEW i \in 1..n, t[i] = s PROVE \E p \in 1..n : rows[p] = s
    BY <1>2, <2>2
  <2> QED BY <2>1, <2>2
<1>6. Missing(cor, t, n) = Missing(cor, rows, n)
  <2>1. ASSUME NEW s PROVE (\A i \in 1..n : rows[i] # s) <=> (\A i \in 1..n : t[i] # s)
    BY <1>5
  <2> QED BY <2>1 DEF Missing
<1>7. \/ \A s \in Samples : \E i \in 1..n : t[i] = s
      \/ /\ \A i \in 1..n : t[i] \in cor
         /\ Cardinality(Missing(cor, t, n)) < World
  BY <1>2, <1>5, <1>6 DEF Chosen
<1> QED BY <1>1, <1>3, <1>4, <1>7 DEF Chosen

LEMMA BalanceBatchInv == ASSUME StepInv, BalanceBatch PROVE StepInv'
<1>1. pc = "balance"
  BY DEF BalanceBatch
<1>2. Configured /\ Phase(set, correct, pc, sent, back, gen, batch, future)
  BY DEF StepInv
<1>3. Late(set, correct, batch) /\ ~set.validate /\ "group" \notin DOMAIN batch
  BY <1>1, <1>2 DEF Phase, Closing, Training
<1>4. PICK n \in Nat \ {0} : /\ About(set, batch, batch["response"], n)
                             /\ Chosen(correct, batch["response"], n)
  BY <1>3 DEF Late
<1>5. Rows = n
  BY <1>4, RowsIs
<1>6. CASE n % World # 0
  <2>1. Failed
    BY <1>5, <1>6 DEF BalanceBatch
  <2> QED BY <1>3, <2>1, FailedIs
<1>7. CASE n % World = 0
  <2>1. PICK f \in Shares : batch' = [c \in DOMAIN batch |-> Reorder(batch[c], Placed(f))]
    BY <1>5, <1>7 DEF BalanceBatch
  <2>2. pc' = "reward" /\ UNCHANGED <<config, sent, back, gen, future, trained>>
    BY <1>5, <1>7 DEF BalanceBatch
  <2>3. \A i \in 1..n : len[batch["response"][i]] \in Int
    <3>1. len \in [Samples -> Nat]
      BY <1>2, StepAssumption, StepFacts DEF Configured
    <3> QED BY <1>4, <3>1 DEF Chosen
  <2>4. /\ Placed(f) \in [1..n -> 1..n]
        /\ \A p, q \in 1..n : Placed(f)[p] = Placed(f)[q] => p = q
        /\ \A i \in 1..n : \E p \in 1..n : Placed(f)[p] = i
    BY <1>5, <1>7, <2>3, PlacedIs
  <2>5. PICK P \in [1..n -> 1..n] : P = Placed(f)
    BY <2>4
  <2>6. batch' = [c \in DOMAIN batch |-> Reorder(batch[c], P)]
    BY <2>1, <2>5
  <2>7. About(set, batch', Reorder(batch["response"], P), n)
    BY <1>3, <1>4, <2>6, AboutReorder
  <2>8. Chosen(correct, Reorder(batch["response"], P), n)
    BY <1>4, <2>4, <2>5, ChosenReorder
  <2>9. "response" \in DOMAIN batch' /\ batch'["response"] = Reorder(batch["response"], P)
    BY <1>3, <2>6 DEF Late
  <2>10. Late(set, correct, batch')
    BY <2>7, <2>8, <2>9 DEF Late
  <2>11. Phase(set, correct, pc', sent', back', gen', batch', future')
    BY <2>2, <2>10 DEF Phase, Greedy, Before, Training, Closing
  <2> QED BY <1>2, <2>2, <2>11, NextPhase
<1> QED BY <1>6, <1>7

-----------------------------------------------------------------------------
(* Scores, log probabilities, advantages and the update.                   *)

LEMMA RewardInv == ASSUME StepInv, Reward PROVE StepInv'
<1>1. /\ pc = "reward"
      /\ IF set.async /\ ~set.validate
         THEN future' = batch["response"] /\ batch' = batch
         ELSE batch' = Put(batch, "score", batch["response"]) /\ future' = future
      /\ pc' = IF set.validate THEN "done" ELSE "send"
      /\ UNCHANGED <<config, sent, back, gen, trained>>
  BY DEF Reward, With
<1>2. Configured /\ Late(set, correct, batch)
  BY <1>1 DEF StepInv, Phase, Closing
<1>3. PICK n \in Nat \ {0} : /\ About(set, batch, batch["response"], n)
                             /\ ~set.validate => Chosen(correct, batch["response"], n)
  BY <1>2 DEF Late
<1>4. CASE set.async /\ ~set.validate
  <2>1. Phase(set, correct, pc', sent', back', gen', batch', future')
    BY <1>1, <1>2, <1>4 DEF Phase, Greedy, Before, Training, Closing
  <2> QED BY <1>1, <1>2, <2>1, NextPhase
<1>5. CASE ~(set.async /\ ~set.validate)
  <2>1. batch' = Put(batch, "score", batch["response"]) /\ future' = future
    BY <1>1, <1>5
  <2>2. About(set, batch', batch["response"], n)
    BY <1>3, <2>1, AboutWith
  <2>3. /\ batch'["response"] = batch["response"] /\ "response" \in DOMAIN batch'
        /\ "score" \in DOMAIN batch'
    BY <1>2, <2>1 DEF Put, Late
  <2>4. Late(set, correct, batch')
    BY <1>3, <2>2, <2>3 DEF Late
  <2>5. Phase(set, correct, pc', sent', back', gen', batch', future')
    BY <1>1, <1>5, <2>3, <2>4 DEF Phase, Greedy, Before, Training, Closing
  <2> QED BY <1>1, <1>2, <2>5, NextPhase
<1> QED BY <1>4, <1>5

LEMMA SendLogProbInv == ASSUME StepInv, SendLogProb PROVE StepInv'
<1>1. /\ pc = "send" /\ Send(batch["response"], World, "log_prob")
      /\ UNCHANGED <<config, gen, batch, future, trained>>
  BY DEF SendLogProb
<1>2. Configured /\ Late(set, correct, batch) /\ ~set.validate
      /\ (IF set.async THEN future = batch["response"] ELSE "score" \in DOMAIN batch)
  BY <1>1 DEF StepInv, Phase, Closing, Training
<1>3. PICK n \in Nat \ {0} : Column(batch["response"], n)
  BY <1>2 DEF Late, About
<1>4. \/ pc' = "log_prob" /\ sent' = batch["response"] /\ Calling(sent', World, back')
      \/ pc' = "failed"
  BY <1>1, <1>3, StepFacts, SendIs
<1>5. CASE pc' = "failed"
  BY <1>1, <1>2, <1>5, FailPhase, NextPhase
<1>6. CASE pc' = "log_prob" /\ sent' = batch["response"] /\ Calling(sent', World, back')
  <2>1. Phase(set, correct, pc', sent', back', gen', batch', future')
    BY <1>1, <1>2, <1>6 DEF Phase, Greedy, Before, Training, Closing
  <2> QED BY <1>1, <1>2, <2>1, NextPhase
<1> QED BY <1>4, <1>5, <1>6

LEMMA ComputeLogProbInv == ASSUME StepInv, NEW r \in Ranks, ComputeLogProb(r) PROVE StepInv'
<1> DEFINE share == [q \in Ranks |-> Chunk(sent, World, q)]
<1>1. /\ pc = "log_prob"
      /\ IF Agreed(share) <= Len(share[r])
         THEN /\ \E order \in Arrangements(Len(share[r]), Agreed(share)) :
                   back' = Put(back, r, Restore(Reorder(share[r], order), order))
              /\ UNCHANGED <<config, pc, sent, gen, batch, future, trained>>
         ELSE Failed
  BY DEF ComputeLogProb
<1>2. Configured /\ Phase(set, correct, pc, sent, back, gen, batch, future)
  BY DEF StepInv
<1>3. Late(set, correct, batch) /\ Calling(sent, World, back)
  BY <1>1, <1>2 DEF Phase, Closing, Training
<1>4. PICK n \in Nat \ {0}, b \in Nat \ {0} : Column(sent, n) /\ n = World * b
  BY <1>3 DEF Calling
<1>5. PICK v : v = Chunk(sent, World, r)
  OBVIOUS
<1>6. share[r] = v /\ Column(v, b) /\ Len(v) = b
  <2>1. v = Slice(sent, (r - 1) * b, b)
    BY <1>4, <1>5, StepFacts, ChunkIs
  <2>2. Column(v, b)
    BY <2>1, SliceColumn
  <2> QED BY <1>5, <2>2, ColumnIs
<1>7. CASE ~(Agreed(share) <= Len(share[r]))
  <2>1. Failed
    BY <1>1, <1>7
  <2> QED BY <1>3, <2>1, FailedIs
<1>8. CASE Agreed(share) <= Len(share[r])
  <2>1. PICK order \in Orders(b) : back' = Put(back, r, Restore(Reorder(v, order), order))
    BY <1>1, <1>6, <1>8 DEF Arrangements
  <2>2. UNCHANGED <<config, pc, sent, gen, batch, future, trained>>
    BY <1>1, <1>8
  <2>3. Restore(Reorder(v, order), order) = v
    BY <1>6, RestoreIs
  <2>4. Calling(sent, World, back')
    BY <1>3, <1>5, <2>1, <2>3, StepFacts, CallingPut
  <2>5. Phase(set, correct, pc', sent', back', gen', batch', future')
    BY <1>1, <1>2, <2>2, <2>4 DEF Phase, Greedy, Before, Training, Closing
  <2> QED BY <1>2, <2>2, <2>5, NextPhase
<1> QED BY <1>7, <1>8

LEMMA UnionLogProbInv == ASSUME StepInv, UnionLogProb PROVE StepInv'
<1>1. /\ pc = "log_prob" /\ Answered(World) /\ batch' = Put(batch, "old", Gather(World))
      /\ pc' = "advantage" /\ UNCHANGED <<config, sent, back, gen, future, trained>>
  BY DEF UnionLogProb, With
<1>2. /\ Configured /\ Late(set, correct, batch) /\ Calling(sent, World, back) /\ ~set.validate
      /\ sent = batch["response"]
      /\ IF set.async THEN future = batch["response"] ELSE "score" \in DOMAIN batch
  BY <1>1 DEF StepInv, Phase, Closing, Training
<1>3. Gather(World) = batch["response"]
  BY <1>1, <1>2, StepFacts, GatherIs
<1>4. PICK n \in Nat \ {0} : /\ About(set, batch, batch["response"], n)
                             /\ Chosen(correct, batch["response"], n)
  BY <1>2 DEF Late
<1>5. About(set, batch', batch["response"], n)
  BY <1>1, <1>3, <1>4, AboutWith
<1>6. /\ batch'["response"] = batch["response"] /\ "response" \in DOMAIN batch'
      /\ "score" \in DOMAIN batch => "score" \in DOMAIN batch'
  BY <1>1, <1>2 DEF Put, Late
<1>7. Late(set, correct, batch')
  BY <1>4, <1>5, <1>6 DEF Late
<1>8. "old" \in DOMAIN batch'
  BY <1>1 DEF Put
<1>9. Phase(set, correct, pc', sent', back', gen', batch', future')
  BY <1>1, <1>2, <1>6, <1>7, <1>8 DEF Phase, Greedy, Before, Training, Closing
<1> QED BY <1>1, <1>2, <1>9, NextPhase

LEMMA AdvantageInv == ASSUME StepInv, Advantage PROVE StepInv'
<1> DEFINE scores == IF set.async THEN future ELSE batch["score"]
           rows == batch["response"]
           group(i) == {scores[j] : j \in Peers(i)}
           groups == [i \in 1..Rows |-> group(i)]
<1>1. /\ pc = "advantage" /\ pc' = "actor" /\ UNCHANGED <<config, sent, back, gen, future, trained>>
      /\ batch' = Put(Put(batch, "group", groups), "score", scores)
  BY DEF Advantage, With
<1>2. /\ Configured /\ Late(set, correct, batch) /\ ~set.validate
      /\ IF set.async THEN future = batch["response"] ELSE "score" \in DOMAIN batch
  BY <1>1 DEF StepInv, Phase, Closing, Training
<1>3. PICK n \in Nat \ {0} : About(set, batch, rows, n) /\ Chosen(correct, rows, n)
  BY <1>2 DEF Late
<1>4. scores = rows
  BY <1>2, <1>3 DEF About
<1>5. Rows = n
  BY <1>3, RowsIs
<1>6. Column(groups, n)
  BY <1>5 DEF Column
<1>7. ASSUME NEW i \in 1..n
      PROVE  groups[i] = {u \in {rows[j] : j \in 1..n} : PromptIn(set, u) = PromptIn(set, rows[i])}
  <2>1. \A j \in 1..n : batch["uid"][j] = PromptIn(set, rows[j])
    BY <1>3 DEF About
  <2>2. Peers(i) = {j \in 1..n : PromptIn(set, rows[j]) = PromptIn(set, rows[i])}
    BY <1>5, <2>1 DEF Peers
  <2>3. groups[i] = {rows[j] : j \in Peers(i)}
    BY <1>4, <1>5
  <2>4. PICK p : p = PromptIn(set, rows[i])
    OBVIOUS
  <2> HIDE DEF rows, groups, scores
  <2>5. {rows[j] : j \in {k \in 1..n : PromptIn(set, rows[k]) = p}}
          = {u \in {rows[j] : j \in 1..n} : PromptIn(set, u) = p}
    OBVIOUS
  <2>6. groups[i] = {rows[j] : j \in {k \in 1..n : PromptIn(set, rows[k]) = p}}
    BY <2>2, <2>3, <2>4
  <2> QED BY <2>4, <2>5, <2>6
<1> HIDE DEF scores, groups
<1>8. PICK b : b = Put(batch, "group", groups)
  OBVIOUS
<1>9. /\ DOMAIN b = DOMAIN batch \cup {"group"} /\ b["group"] = groups
      /\ \A x \in DOMAIN batch : x # "group" => b[x] = batch[x]
  BY <1>8 DEF Put
<1>10. About(set, b, rows, n)
  BY <1>3, <1>6, <1>7, <1>9 DEF About
<1>11. batch' = Put(b, "score", rows)
  BY <1>1, <1>4, <1>8
<1>12. About(set, batch', rows, n)
  BY <1>10, <1>11, AboutWith
<1>13. "response" \in DOMAIN batch'
  BY <1>2, <1>9, <1>11 DEF Late, Put
<1>14. batch'["response"] = rows
  BY <1>12, <1>13 DEF About
<1>15. Late(set, correct, batch')
  BY <1>3, <1>12, <1>13, <1>14 DEF Late
<1>16. pc = "advantage" => "old" \in DOMAIN batch
  BY DEF StepInv, Phase
<1>17. "old" \in DOMAIN batch'
  BY <1>1, <1>9, <1>11, <1>16 DEF Put
<1>18. Phase(set, correct, pc', sent', back', gen', batch', future')
  BY <1>1, <1>2, <1>15, <1>17 DEF Phase, Greedy, Before, Training, Closing
<1> QED BY <1>1, <1>2, <1>18, NextPhase

LEMMA SendUpdateInv == ASSUME StepInv, SendUpdate PROVE StepInv'
<1>1. /\ pc = "actor" /\ Send(batch["old"], World, "update")
      /\ UNCHANGED <<config, gen, batch, future, trained>>
  BY DEF SendUpdate
<1>2. Configured /\ Late(set, correct, batch) /\ ~set.validate /\ "old" \in DOMAIN batch
  BY <1>1 DEF StepInv, Phase, Closing, Training
<1>3. PICK n \in Nat \ {0} : Column(batch["response"], n) /\ batch["old"] = batch["response"]
  BY <1>2 DEF Late, About
<1>4. \/ pc' = "update" /\ sent' = batch["response"] /\ Calling(sent', World, back')
      \/ pc' = "failed"
  <2>1. Send(batch["response"], World, "update")
    BY <1>1, <1>3
  <2> QED BY <1>3, <2>1, StepFacts, SendIs
<1>5. CASE pc' = "failed"
  BY <1>1, <1>2, <1>5, FailPhase, NextPhase
<1>6. CASE pc' = "update" /\ sent' = batch["response"] /\ Calling(sent', World, back')
  <2>1. Phase(set, correct, pc', sent', back', gen', batch', future')
    BY <1>1, <1>2, <1>6 DEF Phase, Greedy, Before, Training, Closing
  <2> QED BY <1>1, <1>2, <2>1, NextPhase
<1> QED BY <1>4, <1>5, <1>6

LEMMA TrainInv == ASSUME StepInv, NEW r \in Ranks, Train(r) PROVE StepInv'
<1>1. pc = "update" /\ (Failed \/ UNCHANGED <<config, pc, sent, back, gen, batch, future>>)
  BY DEF Train
<1>2. Configured /\ Phase(set, correct, pc, sent, back, gen, batch, future)
  BY DEF StepInv
<1>3. Late(set, correct, batch)
  BY <1>1, <1>2 DEF Phase, Closing, Training
<1>4. CASE Failed
  BY <1>3, <1>4, FailedIs
<1>5. CASE UNCHANGED <<config, pc, sent, back, gen, batch, future>>
  <2>1. Phase(set, correct, pc', sent', back', gen', batch', future')
    BY <1>2, <1>5
  <2> QED BY <1>2, <1>5, <2>1, NextPhase
<1> QED BY <1>1, <1>4, <1>5

LEMMA UpdatedInv == ASSUME StepInv, Updated PROVE StepInv'
<1>1. pc = "update" /\ pc' = "done" /\ UNCHANGED <<config, sent, back, gen, batch, future, trained>>
  BY DEF Updated
<1>2. Configured /\ Phase(set, correct, pc, sent, back, gen, batch, future)
  BY DEF StepInv
<1>3. /\ Late(set, correct, batch) /\ ~set.validate
      /\ sent = batch["response"] /\ Calling(sent, World, back)
  BY <1>1, <1>2 DEF Phase, Closing, Training
<1>4. Phase(set, correct, pc', sent', back', gen', batch', future')
  BY <1>1, <1>3 DEF Phase, Greedy, Before, Training, Closing
<1> QED BY <1>1, <1>2, <1>4, NextPhase

LEMMA StepInit == Init => StepInv
<1> SUFFICES ASSUME Init PROVE StepInv
  OBVIOUS
<1>1. set \in Settings /\ len \in Lengths /\ pc = "pop" /\ DOMAIN batch = {}
  BY DEF Init
<1>2. correct \in SUBSET Samples
  BY DEF Init
<1>3. Phase(set, correct, pc, sent, back, gen, batch, future)
  BY <1>1 DEF Phase, Greedy, Before, Training, Closing
<1> QED BY <1>1, <1>2, <1>3 DEF StepInv, Configured

LEMMA StepNext == StepInv /\ [Next]_vars => StepInv'
<1> SUFFICES ASSUME StepInv, [Next]_vars PROVE StepInv'
  OBVIOUS
<1>1. CASE PopTrain
  BY <1>1, PopTrainInv
<1>2. CASE PopTest
  BY <1>2, PopTestInv
<1>3. CASE \E a \in Workers : Generate(a)
  BY <1>3, GenerateInv
<1>4. CASE Generated
  BY <1>4, GeneratedInv
<1>5. CASE Select
  BY <1>5, SelectInv
<1>6. CASE GenerateMax
  BY <1>6, GenerateMaxInv
<1>7. CASE UnionMax
  BY <1>7, UnionMaxInv
<1>8. CASE Union
  BY <1>8, UnionInv
<1>9. CASE BalanceBatch
  BY <1>9, BalanceBatchInv
<1>10. CASE Reward
  BY <1>10, RewardInv
<1>11. CASE SendLogProb
  BY <1>11, SendLogProbInv
<1>12. CASE \E r \in Ranks : ComputeLogProb(r)
  BY <1>12, ComputeLogProbInv
<1>13. CASE UnionLogProb
  BY <1>13, UnionLogProbInv
<1>14. CASE Advantage
  BY <1>14, AdvantageInv
<1>15. CASE SendUpdate
  BY <1>15, SendUpdateInv
<1>16. CASE \E r \in Ranks : Train(r)
  BY <1>16, TrainInv
<1>17. CASE Updated
  BY <1>17, UpdatedInv
<1>18. CASE UNCHANGED vars
  <2>1. UNCHANGED config /\ UNCHANGED <<pc, sent, back, gen, batch, future>>
    BY <1>18 DEF vars, config
  <2> QED BY <2>1, NextPhase DEF StepInv
<1> QED BY <1>1, <1>2, <1>3, <1>4, <1>5, <1>6, <1>7, <1>8, <1>9, <1>10, <1>11, <1>12, <1>13,
           <1>14, <1>15, <1>16, <1>17, <1>18 DEF Next, Driver

LEMMA StepAlways == Spec => []StepInv
BY StepInit, StepNext, PTL DEF Spec

\* Whatever was repeated, padded, dropped, reordered or computed in pieces, every
\* column of a row is about the same sample, under the uid of its prompt, and its
\* advantage is taken over every sample of that prompt and no other
\* (ray_trainer.py fit, protocol.py).  With answers dropped, the rows of REMAX
\* are paired with baselines by their number alone: the theorem holds there only
\* when each prompt has one answer.
THEOREM AlignsRows ==
  Spec => []((set.drop /\ set.remax => set.n = 1) => Aligned)
<1>1. ASSUME StepInv, set.drop /\ set.remax => set.n = 1 PROVE Aligned
  <2> SUFFICES ASSUME "response" \in DOMAIN batch PROVE Aligned
    BY DEF Aligned
  <2>1. Configured /\ Phase(set, correct, pc, sent, back, gen, batch, future)
    BY <1>1 DEF StepInv
  <2>2. Late(set, correct, batch)
    <3>1. CASE pc \in {"pop", "generate", "select"}
      <4>1. pc = "pop" => DOMAIN batch = {}
        BY <2>1 DEF Phase
      <4>2. pc = "generate" => DOMAIN batch = {"uid"}
        <5>1. pc = "generate" => AtGenerate(set, batch, sent)
          BY <2>1 DEF Phase
        <5>2. AtGenerate(set, batch, sent) => DOMAIN batch = {"uid"}
          BY DEF AtGenerate, Popped
        <5> QED BY <5>1, <5>2
      <4>3. pc = "select" => DOMAIN batch = {"uid"}
        BY <2>1 DEF Phase, Popped
      <4> QED BY <3>1, <4>1, <4>2, <4>3
    <3>2. CASE pc \in Before
      BY <2>1, <3>2 DEF Phase, Early
    <3>3. CASE pc \in Closing \cup {"failed"}
      BY <2>1, <3>3 DEF Phase
    <3> QED BY <2>1, <3>1, <3>2, <3>3 DEF Phase
  <2>3. PICK n \in Nat \ {0} : About(set, batch, batch["response"], n)
    BY <2>2 DEF Late
  <2>4. Rows = n
    BY <2>3, RowsIs
  <2>5. \A c \in DOMAIN batch : Len(batch[c]) = n
    BY <2>3, ColumnIs DEF About
  <2>6. Paired(set)
    BY <1>1 DEF Paired
  <2>7. ASSUME NEW i \in 1..Rows, NEW s, s = batch["response"][i]
        PROVE  /\ \A c \in DOMAIN batch : Len(batch[c]) = Rows
               /\ batch["uid"][i] = PromptOf(s)
               /\ \A c \in DOMAIN batch \cap {"score", "old"} : batch[c][i] = s
               /\ "baseline" \in DOMAIN batch => batch["baseline"][i] = Baseline(PromptOf(s))
               /\ "group" \in DOMAIN batch =>
                    batch["group"][i] =
                      {u \in {batch["response"][j] : j \in 1..Rows} : PromptOf(u) = PromptOf(s)}
    <3>1. \A u : PromptOf(u) = PromptIn(set, u)
      BY PromptIs
    <3>2. batch["uid"][i] = PromptOf(s)
      BY <2>3, <2>4, <2>7, <3>1 DEF About
    <3>3. \A c \in DOMAIN batch \cap {"score", "old"} : batch[c][i] = s
      BY <2>3, <2>7 DEF About
    <3>4. "baseline" \in DOMAIN batch => batch["baseline"][i] = Baseline(PromptOf(s))
      BY <2>3, <2>4, <2>6, <2>7, <3>1 DEF About
    <3>5. "group" \in DOMAIN batch =>
            batch["group"][i] =
              {u \in {batch["response"][j] : j \in 1..Rows} : PromptOf(u) = PromptOf(s)}
      <4> SUFFICES ASSUME "group" \in DOMAIN batch
                   PROVE  batch["group"][i] =
                            {u \in {batch["response"][j] : j \in 1..Rows} : PromptOf(u) = PromptOf(s)}
        OBVIOUS
      <4>1. batch["group"][i] = {u \in {batch["response"][j] : j \in 1..Rows} :
                                   PromptIn(set, u) = PromptIn(set, s)}
        BY <2>3, <2>4, <2>7 DEF About
      <4> QED BY <3>1, <4>1
    <3> QED BY <2>4, <2>5, <3>2, <3>3, <3>4, <3>5
  <2> QED BY <2>7 DEF Aligned
<1> QED BY <1>1, StepAlways, PTL

-----------------------------------------------------------------------------
(* update_policy.                                                          *)

\* What rank r trains on in its j-th optimizer step, and the steps it has made.
StepOf(r, j) == [rows |-> MiniBatches(r)[j],
                 micro |-> Agreed([q \in Ranks |-> MiniBatches(q)[j]])]
Took(r) == \E t \in Nat : /\ Column(trained[r], t)
                          /\ \A j \in 1..t : trained[r][j] = StepOf(r, j)

TrainInvariant ==
  /\ DOMAIN trained = Ranks
  /\ pc \notin {"update", "done", "failed"} => \A r \in Ranks : trained[r] = <<>>
  /\ pc = "update" \/ (pc = "done" /\ ~set.validate) => \A r \in Ranks : Took(r)
  /\ pc = "done" /\ ~set.validate => \A r \in Ranks : Len(trained[r]) = Len(MiniBatches(r))

LEMMA TookInit ==
  ASSUME NEW r, trained[r] = <<>>
  PROVE  Took(r)
<1>1. Column(trained[r], 0)
  BY DEF Column
<1> QED BY <1>1 DEF Took

\* The mini-batches are a matter of the rows that were sent.
LEMMA StepSame ==
  ASSUME sent' = sent, len' = len, NEW r
  PROVE  /\ \A j : StepOf(r, j)' = StepOf(r, j)
         /\ MiniBatches(r)' = MiniBatches(r)
<1>1. \A q : MiniBatches(q)' = MiniBatches(q)
  BY DEF MiniBatches
<1>2. ASSUME NEW share PROVE Agreed(share)' = Agreed(share)
  BY DEF Agreed, Needed, Tokens
<1>3. ASSUME NEW j PROVE StepOf(r, j)' = StepOf(r, j)
  BY <1>1, <1>2 DEF StepOf
<1> QED BY <1>1, <1>3

LEMMA TookSame ==
  ASSUME sent' = sent, len' = len, NEW r, Took(r), trained'[r] = trained[r]
  PROVE  Took(r)'
<1>1. PICK t \in Nat : Column(trained[r], t) /\ \A j \in 1..t : trained[r][j] = StepOf(r, j)
  BY DEF Took
<1>2. Column(trained'[r], t)
  BY <1>1
<1>3. \A j \in 1..t : trained'[r][j] = StepOf(r, j)'
  BY <1>1, StepSame
<1>4. \E u \in Nat : Column(trained'[r], u) /\ \A j \in 1..u : trained'[r][j] = StepOf(r, j)'
  BY <1>1, <1>2, <1>3
<1> QED BY <1>4 DEF Took

LEMMA TrainTrained == ASSUME TrainInvariant, NEW r \in Ranks, Train(r) PROVE TrainInvariant'
<1> DEFINE j == Len(trained[r]) + 1
           share == [q \in Ranks |-> MiniBatches(q)[j]]
           made == [rows |-> share[r], micro |-> Agreed(share)]
<1>1. /\ pc = "update"
      /\ IF Agreed(share) <= Len(share[r])
         THEN /\ trained' = [trained EXCEPT ![r] = Append(@, made)]
              /\ UNCHANGED <<config, pc, sent, back, gen, batch, future>>
         ELSE Failed
  BY DEF Train
<1>2. DOMAIN trained = Ranks /\ \A q \in Ranks : Took(q)
  BY <1>1 DEF TrainInvariant
<1>3. CASE ~(Agreed(share) <= Len(share[r]))
  <2>1. pc' = "failed" /\ trained' = trained
    BY <1>1, <1>3 DEF Failed
  <2> QED BY <1>2, <2>1 DEF TrainInvariant
<1>4. CASE Agreed(share) <= Len(share[r])
  <2>1. /\ trained' = [trained EXCEPT ![r] = Append(@, made)]
        /\ pc' = "update" /\ sent' = sent /\ len' = len
    BY <1>1, <1>4 DEF config
  <2>2. DOMAIN trained' = Ranks /\ \A q \in Ranks \ {r} : trained'[q] = trained[q]
    BY <1>2, <2>1
  <2>3. PICK t \in Nat : Column(trained[r], t) /\ \A i \in 1..t : trained[r][i] = StepOf(r, i)
    BY <1>2 DEF Took
  <2>4. Len(trained[r]) = t
    BY <2>3, ColumnIs
  <2>5. made = StepOf(r, t + 1)
    BY <2>4 DEF StepOf
  <2>6. PICK old : old = trained[r]
    OBVIOUS
  <2>7. PICK s : s = StepOf(r, t + 1)
    OBVIOUS
  <2>8. trained'[r] = Append(old, s)
    BY <1>2, <2>1, <2>5, <2>6, <2>7
  <2>9. /\ Column(Append(old, s), t + 1)
        /\ Append(old, s)[t + 1] = s /\ \A i \in 1..t : Append(old, s)[i] = old[i]
    <3> DEFINE S == {old[i] : i \in 1..t} \cup {s}
    <3>1. Column(old, t) /\ Len(old) = t
      BY <2>3, <2>4, <2>6
    <3>2. old \in [1..t -> S]
      BY <3>1 DEF Column
    <3>3. old \in Seq(S) /\ s \in S
      <4>1. [1..t -> S] \subseteq Seq(S)
        BY SeqDef
      <4> QED BY <3>2, <4>1
    <3> HIDE DEF S
    <3>4. /\ Append(old, s) \in Seq(S) /\ Len(Append(old, s)) = t + 1
          /\ \A i \in 1..t : Append(old, s)[i] = old[i]
          /\ Append(old, s)[t + 1] = s
      BY <3>1, <3>3, AppendProperties
    <3>5. Append(old, s) \in [1..(t + 1) -> S]
      BY <3>4, LenProperties
    <3>6. Column(Append(old, s), t + 1)
      BY <3>5 DEF Column
    <3> QED BY <3>4, <3>6
  <2>10. \A i \in 1..(t + 1) : trained'[r][i] = StepOf(r, i)'
    <3> SUFFICES ASSUME NEW i \in 1..(t + 1) PROVE trained'[r][i] = StepOf(r, i)'
      OBVIOUS
    <3>1. StepOf(r, i)' = StepOf(r, i)
      BY <2>1, StepSame
    <3>2. CASE i = t + 1
      BY <2>7, <2>8, <2>9, <3>1, <3>2
    <3>3. CASE i \in 1..t
      BY <2>3, <2>6, <2>8, <2>9, <3>1, <3>3
    <3> QED BY <3>2, <3>3
  <2>11. \E u \in Nat : Column(trained'[r], u) /\ \A i \in 1..u : trained'[r][i] = StepOf(r, i)'
    <3>1. t + 1 \in Nat /\ Column(trained'[r], t + 1)
      BY <2>8, <2>9
    <3> QED BY <2>10, <3>1
  <2>12. Took(r)'
    BY <2>11 DEF Took
  <2>13. \A q \in Ranks : Took(q)'
    BY <1>2, <2>1, <2>2, <2>12, TookSame
  <2>14. Ranks' = Ranks
    BY DEF Ranks
  <2> QED BY <2>1, <2>2, <2>13, <2>14 DEF TrainInvariant
<1> QED BY <1>3, <1>4

LEMMA UpdatedTrained == ASSUME TrainInvariant, Updated PROVE TrainInvariant'
<1>1. /\ pc = "update" /\ \A r \in Ranks : Len(trained[r]) = Len(MiniBatches(r))
      /\ pc' = "done" /\ sent' = sent /\ len' = len /\ trained' = trained
  BY DEF Updated, config
<1>2. DOMAIN trained' = Ranks /\ \A r \in Ranks : Took(r)'
  BY <1>1, TookSame DEF TrainInvariant
<1>3. \A r \in Ranks : Len(trained'[r]) = Len(MiniBatches(r)')
  BY <1>1, StepSame
<1> QED BY <1>1, <1>2, <1>3 DEF TrainInvariant

LEMMA SendTrained == ASSUME TrainInvariant, SendUpdate PROVE TrainInvariant'
<1>1. pc = "actor" /\ trained' = trained /\ pc' \in {"update", "failed"}
  BY DEF SendUpdate, Send
<1>2. DOMAIN trained' = Ranks /\ \A r \in Ranks : trained'[r] = <<>>
  BY <1>1 DEF TrainInvariant
<1>3. \A r \in Ranks : Took(r)'
  <2>1. ASSUME NEW r \in Ranks PROVE Took(r)'
    <3>1. Column(trained'[r], 0)
      BY <1>2 DEF Column
    <3>2. \E t \in Nat : Column(trained'[r], t) /\ \A i \in 1..t : trained'[r][i] = StepOf(r, i)'
      BY <3>1
    <3> QED BY <3>2 DEF Took
  <2> QED BY <2>1
<1> QED BY <1>1, <1>2, <1>3 DEF TrainInvariant

\* Nothing else trains.
LEMMA ElseTrained ==
  ASSUME TrainInvariant, trained' = trained, pc \notin {"update", "done", "failed"},
         pc' # "update", pc' = "done" => set'.validate
  PROVE  TrainInvariant'
BY DEF TrainInvariant

LEMMA TrainedInit == Init => TrainInvariant
BY DEF Init, TrainInvariant

LEMMA TrainedNext == TrainInvariant /\ [Next]_vars => TrainInvariant'
<1> SUFFICES ASSUME TrainInvariant, [Next]_vars PROVE TrainInvariant'
  OBVIOUS
<1>1. CASE PopTrain \/ PopTest
  BY <1>1, ElseTrained DEF PopTrain, PopTest, Send
<1>2. CASE \E a \in Workers : Generate(a)
  BY <1>2, ElseTrained DEF Generate
<1>3. CASE Generated \/ Select
  BY <1>3, ElseTrained DEF Generated, Select
<1>4. CASE GenerateMax
  BY <1>4, ElseTrained DEF GenerateMax, Send
<1>5. CASE UnionMax \/ Union \/ BalanceBatch
  BY <1>5, ElseTrained DEF UnionMax, Union, BalanceBatch, Failed
<1>6. CASE Reward
  BY <1>6, ElseTrained DEF Reward, config
<1>7. CASE SendLogProb
  BY <1>7, ElseTrained DEF SendLogProb, Send
<1>8. CASE \E r \in Ranks : ComputeLogProb(r)
  BY <1>8, ElseTrained DEF ComputeLogProb, Failed
<1>9. CASE UnionLogProb \/ Advantage
  BY <1>9, ElseTrained DEF UnionLogProb, Advantage
<1>10. CASE SendUpdate
  BY <1>10, SendTrained
<1>11. CASE \E r \in Ranks : Train(r)
  BY <1>11, TrainTrained
<1>12. CASE Updated
  BY <1>12, UpdatedTrained
<1>13. CASE UNCHANGED vars
  <2>1. sent' = sent /\ len' = len /\ trained' = trained /\ pc' = pc /\ set' = set
    BY <1>13 DEF vars
  <2>2. \A r \in Ranks : Took(r) => Took(r)'
    BY <2>1, TookSame
  <2>3. \A r : MiniBatches(r)' = MiniBatches(r)
    BY <2>1, StepSame
  <2> QED BY <2>1, <2>2, <2>3 DEF TrainInvariant
<1> QED BY <1>1, <1>2, <1>3, <1>4, <1>5, <1>6, <1>7, <1>8, <1>9, <1>10, <1>11, <1>12, <1>13
        DEF Next, Driver

LEMMA TrainedAlways == Spec => []TrainInvariant
BY TrainedInit, TrainedNext, PTL DEF Spec

-----------------------------------------------------------------------------
(* Every sample that was kept is trained on once.                          *)

\* Row x of the j-th mini-batch of rank r is this row of the call.
LEMMA MiniIs ==
  ASSUME NEW n \in Nat \ {0}, NEW b \in Nat \ {0}, Column(sent, n), n = World * b,
         NEW r \in Ranks
  PROVE  /\ Column(MiniBatches(r), CeilDiv(b, Mini))
         /\ \A j \in 1..CeilDiv(b, Mini) :
              /\ (j - 1) * Mini \in Nat
              /\ \E l \in 1..Mini :
                   /\ l = Least(j * Mini, b) - (j - 1) * Mini
                   /\ Column(MiniBatches(r)[j], l)
                   /\ \A x \in 1..l :
                        MiniBatches(r)[j][x] = sent[(r - 1) * b + ((j - 1) * Mini + x)]
<1>1. PICK c : c = Chunk(sent, World, r)
  OBVIOUS
<1>2. c = Slice(sent, (r - 1) * b, b)
  BY <1>1, StepFacts, ChunkIs
<1>3. Column(c, b) /\ \A i \in 1..b : c[i] = sent[(r - 1) * b + i]
  BY <1>2, SliceColumn
<1>4. MiniBatches(r) = Split(c, Mini)
  BY <1>1 DEF MiniBatches
<1>5. /\ Column(Split(c, Mini), CeilDiv(b, Mini))
      /\ \A j \in 1..CeilDiv(b, Mini) :
           /\ (j - 1) * Mini \in Nat
           /\ \E l \in 1..Mini :
                /\ l = Least(j * Mini, b) - (j - 1) * Mini
                /\ Split(c, Mini)[j] = Slice(c, (j - 1) * Mini, l)
  BY <1>3, StepFacts, SplitIs
<1>6. ASSUME NEW j \in 1..CeilDiv(b, Mini)
      PROVE  /\ (j - 1) * Mini \in Nat
             /\ \E l \in 1..Mini :
                  /\ l = Least(j * Mini, b) - (j - 1) * Mini
                  /\ Column(Split(c, Mini)[j], l)
                  /\ \A x \in 1..l :
                       Split(c, Mini)[j][x] = sent[(r - 1) * b + ((j - 1) * Mini + x)]
  <2>1. PICK o \in Nat : o = (j - 1) * Mini
    BY <1>5
  <2>2. PICK l \in 1..Mini : l = Least(j * Mini, b) - o /\ Split(c, Mini)[j] = Slice(c, o, l)
    BY <1>5, <2>1
  <2>3. o + l <= b
    <3>1. PICK e \in Nat : e = j * Mini
      <4>1. j \in Nat /\ Mini \in Nat
        <5>1. CeilDiv(b, Mini) \in 1..b
          BY StepFacts, CeilDivIs
        <5> QED BY <5>1, StepFacts
      <4> QED BY <4>1
    <3> QED BY <2>2, <3>1 DEF Least
  <2>4. Column(Slice(c, o, l), l) /\ \A x \in 1..l : Slice(c, o, l)[x] = c[o + x]
    BY SliceColumn
  <2>5. \A x \in 1..l : o + x \in 1..b
    BY <2>3
  <2>6. \A x \in 1..l : Slice(c, o, l)[x] = sent[(r - 1) * b + (o + x)]
    BY <1>3, <2>4, <2>5
  <2> QED BY <2>1, <2>2, <2>4, <2>6
<1> QED BY <1>4, <1>5, <1>6

\* Where row i of a call is trained on: by which rank, in which of its
\* mini-batches and as which row of it.
LEMMA MiniPlace ==
  ASSUME NEW n \in Nat \ {0}, NEW b \in Nat \ {0}, n = World * b, NEW i \in 1..n
  PROVE  \E r \in Ranks, j \in 1..CeilDiv(b, Mini), x \in 1..Mini :
           /\ (j - 1) * Mini \in Nat
           /\ x <= Least(j * Mini, b) - (j - 1) * Mini
           /\ i = (r - 1) * b + ((j - 1) * Mini + x)
<1>1. PICK m \in Nat \ {0} : /\ m = CeilDiv(b, Mini)
                            /\ m * Mini \in Nat /\ b <= m * Mini
  <2>1. /\ CeilDiv(b, Mini) \in 1..b /\ CeilDiv(b, Mini) * Mini \in Nat
        /\ b <= CeilDiv(b, Mini) * Mini
    BY StepFacts, CeilDivIs
  <2>2. CeilDiv(b, Mini) \in Nat \ {0}
    BY <2>1
  <2> QED BY <2>1, <2>2
<1>2. PICK r \in Ranks, o \in 1..b : i = (r - 1) * b + o
  <2>1. i \in 1..(World * b) /\ World \in Nat
    BY StepFacts
  <2>2. RunOf(i, b) \in 1..World /\ SpotOf(i, b) \in 1..b
        /\ i = (RunOf(i, b) - 1) * b + SpotOf(i, b)
    BY <2>1, PlaceIs
  <2> QED BY <2>2, StepFacts
<1>3. PICK j \in 1..m, x \in 1..Mini : o = (j - 1) * Mini + x
  <2>1. o \in 1..(m * Mini) /\ m \in Nat
    BY <1>1
  <2>2. RunOf(o, Mini) \in 1..m /\ SpotOf(o, Mini) \in 1..Mini
        /\ o = (RunOf(o, Mini) - 1) * Mini + SpotOf(o, Mini)
    BY <2>1, StepFacts, PlaceIs
  <2> QED BY <2>2
<1>4. PICK k \in Nat : k = (j - 1) * Mini /\ j * Mini = k + Mini
  BY StepFacts
<1>5. x <= Least(j * Mini, b) - k
  BY <1>3, <1>4, StepFacts DEF Least
<1> QED BY <1>1, <1>2, <1>3, <1>4, <1>5

\* No other row of the call is trained on there: i stands at o in run r of b rows.
LiesAt(i, r, b, o) == i = (r - 1) * b + o

LEMMA PlaceUnique ==
  ASSUME NEW b \in Nat \ {0}, NEW k \in Nat, NEW r \in 1..k, NEW q \in 1..k,
         NEW o \in 1..b, NEW p \in 1..b, NEW i, LiesAt(i, r, b, o), LiesAt(i, q, b, p)
  PROVE  r = q /\ o = p
<1>1. (r - 1) * b + o = (q - 1) * b + p
  BY DEF LiesAt
<1>2. \A u \in 1..k, v \in 1..b : RunOf((u - 1) * b + v, b) = u /\ SpotOf((u - 1) * b + v, b) = v
  BY PlaceOf
<1>3. /\ RunOf((r - 1) * b + o, b) = r /\ SpotOf((r - 1) * b + o, b) = o
      /\ RunOf((q - 1) * b + p, b) = q /\ SpotOf((q - 1) * b + p, b) = p
  BY <1>2, Zenon
<1> QED BY <1>1, <1>3

\* A finished step has trained on every sample it kept exactly once, on all of
\* them unless answers are dropped and then on correct ones only, of which less
\* than one for each rank is cut, in the same number of optimizer steps and of
\* micro-batches on every rank (ray_trainer.py, dp_actor.py update_policy).
THEOREM TrainsKeptOnce == Spec => []TrainsTheKept
<1>1. ASSUME StepInv, TrainInvariant PROVE TrainsTheKept
  <2> DEFINE rows(r) == {x \in (1..Len(trained[r])) \X (1..Mini) :
                           x[2] <= Len(trained[r][x[1]].rows)}
             of(r, s) == {x \in rows(r) : trained[r][x[1]].rows[x[2]] = s}
             times(s) == {y \in Ranks \X (Samples \X (1..Mini)) : y[2] \in of(y[1], s)}
             kept == {s \in Samples : times(s) # {}}
  <2> SUFFICES ASSUME pc = "done", ~set.validate
               PROVE  /\ \A s \in kept : Cardinality(times(s)) = 1
                      /\ kept # Samples => /\ kept \subseteq correct
                                           /\ Cardinality(correct \ kept) < World
                      /\ \A r, q \in Ranks :
                           /\ Len(trained[r]) = Len(trained[q])
                           /\ \A j \in 1..Len(trained[r]) :
                                trained[r][j].micro = trained[q][j].micro
    BY DEF TrainsTheKept
  <2>1. /\ Late(set, correct, batch) /\ sent = batch["response"] /\ Calling(sent, World, back)
        /\ Configured
    BY <1>1 DEF StepInv, Phase, Closing
  <2>2. PICK n \in Nat \ {0}, b \in Nat \ {0} : Column(sent, n) /\ n = World * b
    BY <2>1 DEF Calling
  <2>3. Chosen(correct, sent, n)
    <3>1. PICK k \in Nat \ {0} : Column(sent, k) /\ Chosen(correct, sent, k)
      BY <2>1 DEF Late, About
    <3>2. Len(sent) = n /\ Len(sent) = k
      BY <2>2, <3>1, ColumnIs
    <3> QED BY <3>1, <3>2
  <2>4. PICK m \in Nat \ {0} : m = CeilDiv(b, Mini) /\ m <= Total
    <3>1. PICK k \in 1..b : k = CeilDiv(b, Mini)
      BY StepFacts, CeilDivIs
    <3>2. b <= n
      <4>1. 0 < World => 0 * b + b <= World * b
        BY StepFacts, Products
      <4> QED BY <2>2, <4>1, StepFacts
    <3>3. n <= Total
      <4>1. sent \in [1..n -> Samples] /\ \A i, j \in 1..n : sent[i] = sent[j] => i = j
        BY <2>2, <2>3 DEF Column, Chosen
      <4>2. sent \in Injection(1..n, Samples)
        BY <4>1 DEF Injection, IsInjective
      <4>3. IsFiniteSet(Samples) /\ Cardinality(Samples) = Total
        BY StepFacts, FS_Interval
      <4>4. Cardinality(1..n) <= Cardinality(Samples)
        BY <4>2, <4>3, FS_Injection
      <4>5. Cardinality(1..n) = n
        BY FS_Interval
      <4> QED BY <4>3, <4>4, <4>5
    <3>4. k <= Total /\ k \in Nat \ {0}
      BY <3>1, <3>2, <3>3, StepFacts
    <3> QED BY <3>1, <3>4
  <2>5. ASSUME NEW r \in Ranks
        PROVE  /\ Len(MiniBatches(r)) = m
               /\ \A j \in 1..m :
                    \E l \in 1..Mini :
                      /\ l = Least(j * Mini, b) - (j - 1) * Mini
                      /\ Len(MiniBatches(r)[j]) = l
                      /\ \A x \in 1..l :
                           MiniBatches(r)[j][x] = sent[(r - 1) * b + ((j - 1) * Mini + x)]
    <3>1. Column(MiniBatches(r), m)
      BY <2>2, <2>4, MiniIs
    <3>2. ASSUME NEW j \in 1..m
          PROVE  \E l \in 1..Mini :
                   /\ l = Least(j * Mini, b) - (j - 1) * Mini
                   /\ Len(MiniBatches(r)[j]) = l
                   /\ \A x \in 1..l :
                        MiniBatches(r)[j][x] = sent[(r - 1) * b + ((j - 1) * Mini + x)]
      <4>1. PICK l \in 1..Mini : 
                   /\ l = Least(j * Mini, b) - (j - 1) * Mini
                   /\ Column(MiniBatches(r)[j], l)
                   /\ \A x \in 1..l :
                        MiniBatches(r)[j][x] = sent[(r - 1) * b + ((j - 1) * Mini + x)]
        BY <2>2, <2>4, MiniIs
      <4>2. l \in Nat
        BY <4>1, StepFacts
      <4>3. Len(MiniBatches(r)[j]) = l
        BY <4>1, <4>2, ColumnIs
      <4> QED BY <4>1, <4>3
    <3> QED BY <3>1, <3>2, ColumnIs
  <2>6. ASSUME NEW r \in Ranks
        PROVE  Len(trained[r]) = m /\ \A j \in 1..m : trained[r][j] = StepOf(r, j)
    <3>1. PICK t \in Nat : Column(trained[r], t) /\ \A j \in 1..t : trained[r][j] = StepOf(r, j)
      BY <1>1 DEF TrainInvariant, Took
    <3>2. Len(trained[r]) = t /\ Len(trained[r]) = m
      BY <1>1, <2>5, <3>1, ColumnIs DEF TrainInvariant
    <3> QED BY <3>1, <3>2
  <2>7. \A r \in Ranks : \A j \in 1..m : trained[r][j].rows = MiniBatches(r)[j]
    <3> SUFFICES ASSUME NEW r \in Ranks, NEW j \in 1..m
                 PROVE  trained[r][j].rows = MiniBatches(r)[j]
      OBVIOUS
    <3>1. trained[r][j] = StepOf(r, j)
      BY <2>6
    <3>2. StepOf(r, j).rows = MiniBatches(r)[j]
      BY DEF StepOf
    <3> QED BY <3>1, <3>2
  <2>8. \A r, q \in Ranks : \A j \in 1..m : trained[r][j].micro = trained[q][j].micro
    <3> SUFFICES ASSUME NEW r \in Ranks, NEW q \in Ranks, NEW j \in 1..m
                 PROVE  trained[r][j].micro = trained[q][j].micro
      OBVIOUS
    <3>1. trained[r][j] = StepOf(r, j) /\ trained[q][j] = StepOf(q, j)
      BY <2>6
    <3>2. StepOf(r, j).micro = StepOf(q, j).micro
      BY DEF StepOf
    <3> QED BY <3>1, <3>2
  <2> HIDE DEF rows, of, times, kept
  <2>9. ASSUME NEW s, NEW y \in times(s)
        PROVE  \E r \in Ranks, j \in 1..m, x \in 1..Mini, o \in 1..b, i \in 1..n :
                 /\ y = <<r, <<j, x>>>>
                 /\ LiesAt(o, j, Mini, x) /\ LiesAt(i, r, b, o) /\ sent[i] = s
    <3>1. PICK r \in Ranks, j \in Samples, x \in 1..Mini :
            /\ y = <<r, <<j, x>>>> /\ j \in 1..Len(trained[r])
            /\ x <= Len(trained[r][j].rows) /\ trained[r][j].rows[x] = s
      BY DEF times, of, rows
    <3>2. j \in 1..m
      BY <2>6, <3>1
    <3>3. PICK l \in 1..Mini :
            /\ l = Least(j * Mini, b) - (j - 1) * Mini
            /\ Len(MiniBatches(r)[j]) = l
            /\ \A z \in 1..l :
                 MiniBatches(r)[j][z] = sent[(r - 1) * b + ((j - 1) * Mini + z)]
      BY <2>5, <3>2
    <3>4. x \in 1..l
      BY <2>7, <3>1, <3>2, <3>3
    <3>5. sent[(r - 1) * b + ((j - 1) * Mini + x)] = s
      BY <2>7, <3>1, <3>2, <3>3, <3>4
    <3>6. PICK k \in Nat : k = (j - 1) * Mini /\ j * Mini = k + Mini
      <4>1. j \in Nat \ {0} /\ Mini \in Nat
        BY <3>2, StepFacts
      <4> QED BY <4>1
    <3>7. PICK o \in 1..b : o = k + x
      BY <3>3, <3>4, <3>6, StepFacts DEF Least
    <3>8. (r - 1) * b + o \in 1..n
      <4>1. World \in Nat /\ r \in 1..World
        BY StepFacts
      <4>2. (r - 1) * b + o \in 1..(World * b)
        BY <4>1, PlaceOf
      <4> QED BY <2>2, <4>2
    <3>9. PICK i \in 1..n : i = (r - 1) * b + o
      BY <3>8
    <3>10. LiesAt(o, j, Mini, x) /\ LiesAt(i, r, b, o)
      BY <3>6, <3>7, <3>9 DEF LiesAt
    <3>11. sent[i] = s
      BY <3>5, <3>6, <3>7, <3>9
    <3> QED BY <3>1, <3>2, <3>10, <3>11
  <2>10. ASSUME NEW i \in 1..n
         PROVE  sent[i] \in kept
    <3>1. PICK r \in Ranks, j \in 1..m, x \in 1..Mini :
            /\ (j - 1) * Mini \in Nat
            /\ x <= Least(j * Mini, b) - (j - 1) * Mini
            /\ i = (r - 1) * b + ((j - 1) * Mini + x)
      BY <2>2, <2>4, MiniPlace
    <3>2. PICK l \in 1..Mini :
            /\ l = Least(j * Mini, b) - (j - 1) * Mini
            /\ Len(MiniBatches(r)[j]) = l
            /\ \A z \in 1..l :
                 MiniBatches(r)[j][z] = sent[(r - 1) * b + ((j - 1) * Mini + z)]
      BY <2>5
    <3>3. x \in 1..l /\ MiniBatches(r)[j][x] = sent[i]
      BY <3>1, <3>2
    <3>4. trained[r][j].rows = MiniBatches(r)[j] /\ Len(trained[r]) = m /\ j \in Samples
      BY <2>4, <2>6, <2>7, StepFacts
    <3>5. <<r, <<j, x>>>> \in times(sent[i])
      <4>1. <<j, x>> \in rows(r)
        BY <3>2, <3>3, <3>4 DEF rows
      <4>2. <<j, x>> \in of(r, sent[i])
        BY <3>3, <3>4, <4>1 DEF of
      <4> QED BY <3>4, <4>2 DEF times
    <3>6. sent[i] \in Samples
      BY <2>3 DEF Chosen
    <3> QED BY <3>5, <3>6 DEF kept
  <2>11. ASSUME NEW s \in kept PROVE \E i \in 1..n : sent[i] = s
    BY <2>9 DEF kept
  <2>12. ASSUME NEW s \in kept PROVE Cardinality(times(s)) = 1
    <3>1. PICK y \in times(s) : TRUE
      BY DEF kept
    <3>2. ASSUME NEW z \in times(s) PROVE z = y
      <4>1. PICK r \in Ranks, j \in 1..m, x \in 1..Mini, o \in 1..b, i \in 1..n :
               /\ y = <<r, <<j, x>>>>
               /\ LiesAt(o, j, Mini, x) /\ LiesAt(i, r, b, o) /\ sent[i] = s
        BY <2>9
      <4>2. PICK q \in Ranks, k \in 1..m, w \in 1..Mini, p \in 1..b, h \in 1..n :
               /\ z = <<q, <<k, w>>>>
               /\ LiesAt(p, k, Mini, w) /\ LiesAt(h, q, b, p) /\ sent[h] = s
        BY <2>9
      <4>3. i = h
        BY <2>3, <4>1, <4>2 DEF Chosen
      <4>4. World \in Nat /\ r \in 1..World /\ q \in 1..World /\ Mini \in Nat \ {0} /\ m \in Nat
        BY StepFacts
      <4>5. r = q /\ o = p
        BY <4>1, <4>2, <4>3, <4>4, PlaceUnique
      <4>6. j = k /\ x = w
        BY <4>1, <4>2, <4>4, <4>5, PlaceUnique
      <4> QED BY <4>1, <4>2, <4>5, <4>6
    <3>3. times(s) = {y}
      BY <3>2
    <3> QED BY <3>3, FS_Singleton
  <2>13. ASSUME kept # Samples
         PROVE  kept \subseteq correct /\ Cardinality(correct \ kept) < World
    <3>1. kept \subseteq Samples
      BY DEF kept
    <3>2. ~(\A s \in Samples : \E i \in 1..n : sent[i] = s)
      BY <2>10, <2>13, <3>1
    <3>3. /\ \A i \in 1..n : sent[i] \in correct
          /\ Cardinality(Missing(correct, sent, n)) < World
      BY <2>3, <3>2 DEF Chosen
    <3>4. kept \subseteq correct
      BY <2>11, <3>3
    <3>5. Missing(correct, sent, n) = correct \ kept
      BY <2>10, <2>11 DEF Missing
    <3> QED BY <3>3, <3>4, <3>5
  <2> QED BY <2>6, <2>8, <2>12, <2>13
<1> QED BY <1>1, StepAlways, TrainedAlways, PTL

-----------------------------------------------------------------------------
(* The members of a set of runs, in their order.                           *)

LEMMA NthsGrow ==
  ASSUME NEW S, IsFiniteSet(S), S \subseteq Int,
         NEW i \in 1..Cardinality(S), NEW j \in 1..Cardinality(S), i < j
  PROVE  NthOf(S, i) < NthOf(S, j)
<1> DEFINE Upto(x) == {k \in S : k <= x}
<1>1. /\ NthOf(S, i) \in S /\ Cardinality(Upto(NthOf(S, i))) = i
      /\ NthOf(S, j) \in S /\ Cardinality(Upto(NthOf(S, j))) = j
      /\ Cardinality(S) \in Nat
  BY Nths
<1>2. PICK x \in Int, y \in Int : x = NthOf(S, i) /\ y = NthOf(S, j)
  BY <1>1
<1> SUFFICES ASSUME y <= x PROVE FALSE
  BY <1>2
<1>3. Upto(y) \in SUBSET Upto(x) /\ Upto(x) \in SUBSET S
  <2>1. ASSUME NEW k \in S, k <= y PROVE k <= x
    <3>1. k \in Int
      OBVIOUS
    <3> QED BY <2>1, <3>1
  <2> QED BY <2>1
<1> HIDE DEF Upto
<1>4. IsFiniteSet(Upto(x))
  BY <1>3, FS_Subset
<1>5. Cardinality(Upto(y)) <= Cardinality(Upto(x))
  BY <1>3, <1>4, FS_Subset
<1> QED BY <1>1, <1>2, <1>5

\* It is known by the number of members up to it.
LEMMA NthIs ==
  ASSUME NEW S, IsFiniteSet(S), S \subseteq Int, NEW x \in S,
         NEW j \in 1..Cardinality(S), Cardinality({k \in S : k <= x}) = j
  PROVE  NthOf(S, j) = x
<1>1. /\ \A i \in 1..Cardinality(S) : Cardinality({k \in S : k <= NthOf(S, i)}) = i
      /\ \A y \in S : \E i \in 1..Cardinality(S) : NthOf(S, i) = y
  BY Nths
<1>2. PICK i \in 1..Cardinality(S) : NthOf(S, i) = x
  BY <1>1
<1>3. Cardinality({k \in S : k <= NthOf(S, i)}) = i
  BY <1>1
<1> QED BY <1>2, <1>3

\* The runs come one after another, and so do the places in a run.
LEMMA RunsOrder ==
  ASSUME NEW b \in Nat \ {0}, NEW k \in Nat, NEW r \in 1..k, NEW o \in 1..b,
         NEW q \in 1..k, NEW p \in 1..b
  PROVE  (r - 1) * b + o < (q - 1) * b + p <=> r < q \/ (r = q /\ o < p)
<1>1. r - 1 \in Nat /\ q - 1 \in Nat
  OBVIOUS
<1>2. PICK u \in Nat, v \in Nat : u = (r - 1) * b /\ v = (q - 1) * b
  BY <1>1
<1>3. r < q => u + b <= v
  <2>1. r - 1 < q - 1 => (r - 1) * b + b <= (q - 1) * b
    BY <1>1, Products
  <2> QED BY <1>2, <2>1
<1>4. q < r => v + b <= u
  <2>1. q - 1 < r - 1 => (q - 1) * b + b <= (r - 1) * b
    BY <1>1, Products
  <2> QED BY <1>2, <2>1
<1>5. r = q => u = v
  BY <1>2
<1>6. u + o < v + p <=> r < q \/ (r = q /\ o < p)
  BY <1>3, <1>4, <1>5
<1> QED BY <1>2, <1>6

\* Runs that are members of B, of N runs of R places: the j-th place among them is
\* the same place in the run of B that comes as many runs in.
RunsOf(N, R, B) == {i \in 1..(N * R) : RunOf(i, R) \in B}
RunByRun(S, R, B) ==
  /\ IsFiniteSet(S) /\ Cardinality(B) \in Nat
  /\ Cardinality(S) = Cardinality(B) * R
  /\ \A j \in 1..(Cardinality(B) * R) :
       /\ RunOf(j, R) \in 1..Cardinality(B)
       /\ NthOf(S, j) \in S
       /\ RunOf(NthOf(S, j), R) = NthOf(B, RunOf(j, R))
       /\ SpotOf(NthOf(S, j), R) = SpotOf(j, R)
LEMMA RunNths ==
  ASSUME NEW R \in Nat \ {0}, NEW N \in Nat, NEW B \in SUBSET (1..N),
         NEW S, S = RunsOf(N, R, B)
  PROVE  RunByRun(S, R, B)
<1>13. S = {i \in 1..(N * R) : RunOf(i, R) \in B}
  BY DEF RunsOf
<1>1. /\ IsFiniteSet(B) /\ B \subseteq Int /\ Cardinality(B) \in Nat
      /\ \A j \in 1..Cardinality(B) : NthOf(B, j) \in B
      /\ \A x \in B : \E j \in 1..Cardinality(B) : NthOf(B, j) = x
  <2>1. IsFiniteSet(1..N)
    BY FS_Interval
  <2>2. IsFiniteSet(B) /\ B \subseteq Int
    <3>1. B \in SUBSET (1..N)
      OBVIOUS
    <3>2. IsFiniteSet(B)
      BY <2>1, <3>1, FS_Subset
    <3> QED BY <3>2
  <2> QED BY <2>2, Nths
<1>2. PICK m \in Nat : m = Cardinality(B)
  BY <1>1
<1>3. PICK n \in Nat : n = m * R
  OBVIOUS
<1>4. PICK g : g = [j \in 1..n |-> (NthOf(B, RunOf(j, R)) - 1) * R + SpotOf(j, R)]
  OBVIOUS
<1>5. ASSUME NEW j \in 1..n
      PROVE  RunOf(j, R) \in 1..m /\ SpotOf(j, R) \in 1..R
             /\ j = (RunOf(j, R) - 1) * R + SpotOf(j, R)
  BY <1>3, PlaceIs
<1>6. ASSUME NEW j \in 1..n
      PROVE  /\ NthOf(B, RunOf(j, R)) \in 1..N
             /\ g[j] = (NthOf(B, RunOf(j, R)) - 1) * R + SpotOf(j, R)
             /\ g[j] \in S
             /\ RunOf(g[j], R) = NthOf(B, RunOf(j, R))
             /\ SpotOf(g[j], R) = SpotOf(j, R)
  <2>1. NthOf(B, RunOf(j, R)) \in B
    BY <1>1, <1>2, <1>5
  <2>2. PICK r \in 1..N, o \in 1..R : r = NthOf(B, RunOf(j, R)) /\ o = SpotOf(j, R)
    BY <1>5, <2>1
  <2>3. g[j] = (r - 1) * R + o
    BY <1>4, <2>2
  <2>4. /\ (r - 1) * R + o \in 1..(N * R)
        /\ RunOf((r - 1) * R + o, R) = r /\ SpotOf((r - 1) * R + o, R) = o
    <3>1. R \in Nat \ {0} /\ N \in Nat /\ r \in 1..N /\ o \in 1..R
      OBVIOUS
    <3> QED BY ONLY <3>1, PlaceOf
  <2>5. g[j] \in 1..(N * R) /\ RunOf(g[j], R) = r /\ SpotOf(g[j], R) = o
    BY <2>3, <2>4
  <2> QED BY <1>13, <2>1, <2>2, <2>3, <2>5
<1>7. ASSUME NEW i \in 1..n, NEW j \in 1..n, i < j PROVE g[i] < g[j]
  <2>1. PICK r \in 1..m, o \in 1..R : r = RunOf(i, R) /\ o = SpotOf(i, R) /\ i = (r - 1) * R + o
    BY <1>5
  <2>2. PICK q \in 1..m, p \in 1..R : q = RunOf(j, R) /\ p = SpotOf(j, R) /\ j = (q - 1) * R + p
    BY <1>5
  <2>3. r < q \/ (r = q /\ o < p)
    <3>1. (r - 1) * R + o < (q - 1) * R + p
      BY <1>7, <2>1, <2>2
    <3> QED BY <3>1, RunsOrder
  <2>4. PICK c \in 1..N, d \in 1..N : c = NthOf(B, r) /\ d = NthOf(B, q)
    BY <1>6, <2>1, <2>2
  <2>5. c < d \/ (c = d /\ o < p)
    <3>1. r < q => NthOf(B, r) < NthOf(B, q)
      BY <1>1, <1>2, NthsGrow
    <3> QED BY <2>3, <2>4, <3>1
  <2>6. (c - 1) * R + o < (d - 1) * R + p
    BY <2>5, RunsOrder
  <2>7. g[i] = (c - 1) * R + o /\ g[j] = (d - 1) * R + p
    BY <1>6, <2>1, <2>2, <2>4
  <2> QED BY <2>6, <2>7
<1>8. S \subseteq Nat /\ S \subseteq Int /\ IsFiniteSet(S)
  <2>1. N * R \in Nat
    OBVIOUS
  <2>2. IsFiniteSet(1..(N * R))
    BY <2>1, FS_Interval
  <2>3. S \in SUBSET (1..(N * R))
    BY <1>13
  <2>4. IsFiniteSet(S) /\ S \subseteq 1..(N * R)
    BY <2>2, <2>3, FS_Subset
  <2> QED BY <2>4
<1>9. ASSUME NEW x \in S PROVE \E j \in 1..n : g[j] = x
  <2>1. x \in 1..(N * R) /\ RunOf(x, R) \in B
    BY <1>13
  <2>2. SpotOf(x, R) \in 1..R /\ x = (RunOf(x, R) - 1) * R + SpotOf(x, R)
    BY <2>1, PlaceIs
  <2>3. PICK a \in 1..m : NthOf(B, a) = RunOf(x, R)
    BY <1>1, <1>2, <2>1
  <2>4. PICK o \in 1..R : o = SpotOf(x, R)
    BY <2>2
  <2>5. /\ (a - 1) * R + o \in 1..(m * R)
        /\ RunOf((a - 1) * R + o, R) = a /\ SpotOf((a - 1) * R + o, R) = o
    <3>1. R \in Nat \ {0} /\ m \in Nat /\ a \in 1..m /\ o \in 1..R
      OBVIOUS
    <3>2. (a - 1) * R + o \in 1..(m * R)
      BY ONLY <3>1, PlaceOf
    <3>3. RunOf((a - 1) * R + o, R) = a
      BY ONLY <3>1, PlaceOf
    <3>4. SpotOf((a - 1) * R + o, R) = o
      <4>1. PICK h \in Nat : h = (a - 1) * R
        BY ONLY <3>1, PlaceOf
      <4>2. (h + o - 1) % R = o - 1
        BY ONLY <3>1, <4>1
      <4>3. SpotOf(h + o, R) = o
        BY ONLY <3>1, <4>1, <4>2 DEF SpotOf
      <4> QED BY ONLY <4>1, <4>3
    <3> QED BY <3>2, <3>3, <3>4
  <2>6. PICK j \in 1..n : RunOf(j, R) = a /\ SpotOf(j, R) = o
    BY <1>3, <2>5
  <2>7. g[j] = x
    BY <1>6, <2>2, <2>3, <2>4, <2>6
  <2> QED BY <2>7
<1>10. /\ g \in [1..n -> S] /\ \A i, j \in 1..n : g[i] = g[j] => i = j
  <2>1. g \in [1..n -> S]
    BY <1>4, <1>6
  <2>2. \A j \in 1..n : g[j] \in Int
    BY <1>6, <1>8
  <2> QED BY <1>7, <2>1, <2>2
<1>11. Cardinality(S) = n
  <2>1. g \in Surjection(1..n, S) /\ g \in Injection(1..n, S)
    BY <1>9, <1>10 DEF Surjection, Injection, IsInjective
  <2>2. IsFiniteSet(1..n) /\ Cardinality(1..n) = n
    BY FS_Interval
  <2> QED BY <2>1, <2>2, FS_Surjection
<1>12. ASSUME NEW j \in 1..n PROVE NthOf(S, j) = g[j]
  <2> DEFINE U == {k \in S : k <= g[j]}
  <2>1. \A i \in 1..n : i <= j <=> g[i] <= g[j]
    <3> SUFFICES ASSUME NEW i \in 1..n PROVE i <= j <=> g[i] <= g[j]
      OBVIOUS
    <3>1. g[i] \in Int /\ g[j] \in Int
      BY <1>6, <1>8
    <3>2. i < j => g[i] < g[j]
      BY <1>7
    <3>3. j < i => g[j] < g[i]
      BY <1>7
    <3> QED BY <3>1, <3>2, <3>3
  <2>2. PICK h : h = [i \in 1..j |-> g[i]]
    OBVIOUS
  <2>3. h \in [1..j -> U] /\ \A i, k \in 1..j : h[i] = h[k] => i = k
    BY <1>10, <2>1, <2>2
  <2>4. \A x \in U : \E i \in 1..j : h[i] = x
    BY <1>9, <2>1, <2>2
  <2> HIDE DEF U
  <2>5. h \in Surjection(1..j, U) /\ h \in Injection(1..j, U)
    BY <2>3, <2>4 DEF Surjection, Injection, IsInjective
  <2>6. IsFiniteSet(1..j) /\ Cardinality(1..j) = j
    BY FS_Interval
  <2>7. Cardinality(U) = j
    BY <2>5, <2>6, FS_Surjection
  <2>8. g[j] \in S /\ j \in 1..Cardinality(S) /\ S \subseteq Int /\ IsFiniteSet(S)
    BY <1>6, <1>8, <1>11
  <2>9. Cardinality({k \in S : k <= g[j]}) = j
    BY <2>7 DEF U
  <2> QED BY <2>8, <2>9, NthIs
<1> QED BY <1>1, <1>2, <1>3, <1>5, <1>6, <1>8, <1>11, <1>12 DEF RunByRun

-----------------------------------------------------------------------------
(* Dynamic sampling.                                                       *)

\* The first n trajectories are whole groups: a run of Rollouts for each prompt,
\* of the d prompts drawn so far, whose answers are all there and differ in score.
Whole(s, n, d) ==
  /\ Column(s, n)
  /\ \A i \in 1..n : s[i][1] \in 1..d
  /\ \A i, j \in 1..n : RunOf(i, Rollouts) = RunOf(j, Rollouts) <=> s[i][1] = s[j][1]
  /\ \A i, j \in 1..n : s[i] = s[j] => i = j
  /\ Rollouts > 1 =>
       \A i \in 1..n : \E j, k \in 1..n :
         /\ RunOf(j, Rollouts) = RunOf(i, Rollouts) /\ RunOf(k, Rollouts) = RunOf(i, Rollouts)
         /\ s[j][3] # s[k][3]

SamplingInv ==
  /\ drawn \in Nat /\ num_prompt \in Nat
  /\ stage = "sampling" => Whole(pool, num_prompt * Rollouts, drawn * GenPrompts)
  /\ stage = "updating" => Whole(pool, TrainPrompts * Rollouts, drawn * GenPrompts)

LEMMA SamplingFacts ==
  /\ GenPrompts \in Nat \ {0} /\ TrainPrompts \in Nat \ {0} /\ Rollouts \in Nat \ {0}
BY SamplingAssumption

\* A cut between two groups.
LEMMA WholeCut ==
  ASSUME NEW s, NEW a \in Nat, NEW b \in Nat, a <= b, NEW d, Whole(s, b * Rollouts, d)
  PROVE  Whole(SubSeq(s, 1, a * Rollouts), a * Rollouts, d)
<1> DEFINE R == Rollouts
           Turn(i) == RunOf(i, R)
<1>1. PICK n \in Nat, l \in Nat : n = b * R /\ l = a * R /\ l <= n
  <2>1. b * R \in Nat /\ a * R \in Nat
    BY SamplingFacts
  <2>2. a < b => a * R + R <= b * R
    BY SamplingFacts, Products
  <2>3. R \in Nat
    BY SamplingFacts
  <2>4. a * R <= b * R
    <3>1. CASE a < b
      BY <2>1, <2>2, <2>3, <3>1
    <3>2. CASE a = b
      BY <2>1, <3>2
    <3> QED BY <3>1, <3>2
  <2> QED BY <2>1, <2>4
<1>2. Column(s, n)
  BY <1>1 DEF Whole
<1>3. PICK t : t = SubSeq(s, 1, l)
  OBVIOUS
<1>4. Column(t, l) /\ \A i \in 1..l : t[i] = s[i]
  <2>1. Between(s, 0, l) = Slice(s, 0, l - 0)
    BY <1>1, <1>2, BetweenIs
  <2>2. t = Slice(s, 0, l)
    BY <1>3, <2>1 DEF Between
  <2>3. Column(t, l) /\ \A i \in 1..l : t[i] = s[0 + i]
    BY <2>2, SliceColumn
  <2> QED BY <2>3
<1>5. ASSUME NEW i \in 1..l, NEW j \in 1..n, Turn(j) = Turn(i) PROVE j \in 1..l
  <2>1. Turn(i) \in 1..a
    BY <1>1, SamplingFacts, PlaceIs
  <2>2. SpotOf(j, R) \in 1..R /\ j = (Turn(j) - 1) * R + SpotOf(j, R)
    BY <1>1, SamplingFacts, PlaceIs
  <2>3. PICK r \in 1..a, o \in 1..R : r = Turn(j) /\ o = SpotOf(j, R) /\ j = (r - 1) * R + o
    BY <1>5, <2>1, <2>2
  <2>4. (r - 1) * R + o \in 1..(a * R)
    BY SamplingFacts, PlaceOf
  <2> QED BY <1>1, <2>3, <2>4
<1> HIDE DEF R, Turn
<1>6. 1..l \subseteq 1..n
  BY <1>1
<1>7. /\ \A i \in 1..n : s[i][1] \in 1..d
      /\ \A i, j \in 1..n : Turn(i) = Turn(j) <=> s[i][1] = s[j][1]
      /\ \A i, j \in 1..n : s[i] = s[j] => i = j
      /\ Rollouts > 1 => \A i \in 1..n : \E j, k \in 1..n :
           Turn(j) = Turn(i) /\ Turn(k) = Turn(i) /\ s[j][3] # s[k][3]
  BY <1>1 DEF Whole, R, Turn
<1>8. /\ \A i \in 1..l : t[i][1] \in 1..d
      /\ \A i, j \in 1..l : Turn(i) = Turn(j) <=> t[i][1] = t[j][1]
      /\ \A i, j \in 1..l : t[i] = t[j] => i = j
  BY <1>4, <1>6, <1>7
<1>9. ASSUME Rollouts > 1, NEW i \in 1..l
      PROVE  \E j, k \in 1..l : Turn(j) = Turn(i) /\ Turn(k) = Turn(i) /\ t[j][3] # t[k][3]
  <2>1. PICK j \in 1..n, k \in 1..n : Turn(j) = Turn(i) /\ Turn(k) = Turn(i) /\ s[j][3] # s[k][3]
    BY <1>6, <1>7, <1>9
  <2>2. j \in 1..l /\ k \in 1..l
    BY <1>5, <2>1
  <2> QED BY <1>4, <2>1, <2>2
<1>10. Whole(t, l, d)
  BY <1>4, <1>8, <1>9 DEF Whole, R, Turn
<1> QED BY <1>1, <1>3, <1>10 DEF R

Chain(s, t) == s \o t
LEMMA ColumnsJoin ==
  ASSUME NEW n \in Nat, NEW s, Column(s, n), NEW m \in Nat, NEW t, Column(t, m)
  PROVE  /\ Column(Chain(s, t), n + m)
         /\ \A i \in 1..n : Chain(s, t)[i] = s[i]
         /\ \A i \in 1..m : Chain(s, t)[n + i] = t[i]
<1> DEFINE S == {s[i] : i \in 1..n} \cup {t[i] : i \in 1..m}
<1>1. s \in [1..n -> S] /\ t \in [1..m -> S]
  BY DEF Column
<1>3. Len(s) = n /\ Len(t) = m
  BY ColumnIs
<1> HIDE DEF S
<1>2. s \in Seq(S) /\ t \in Seq(S)
  <2>1. [1..n -> S] \subseteq Seq(S) /\ [1..m -> S] \subseteq Seq(S)
    BY SeqDef
  <2> QED BY <1>1, <2>1
<1>4. /\ s \o t \in Seq(S) /\ Len(s \o t) = Len(s) + Len(t)
      /\ \A i \in 1..(Len(s) + Len(t)) :
           (s \o t)[i] = IF i <= Len(s) THEN s[i] ELSE t[i - Len(s)]
  BY <1>2, ConcatProperties
<1>5. PICK u : u = s \o t /\ u = Chain(s, t)
  BY DEF Chain
<1>6. /\ u \in [1..(n + m) -> S]
      /\ \A i \in 1..(n + m) : u[i] = IF i <= n THEN s[i] ELSE t[i - n]
  BY <1>3, <1>4, <1>5, LenProperties
<1>7. Column(u, n + m)
  BY <1>6 DEF Column
<1>8. \A i \in 1..n : u[i] = s[i]
  BY <1>6
<1>9. ASSUME NEW i \in 1..m PROVE u[n + i] = t[i]
  <2>1. n + i \in 1..(n + m) /\ ~(n + i <= n) /\ (n + i) - n = i
    OBVIOUS
  <2> QED BY <1>6, <2>1
<1> QED BY <1>5, <1>7, <1>8, <1>9

\* Groups of new prompts behind groups of earlier ones.
LEMMA WholeJoin ==
  ASSUME NEW s, NEW a \in Nat, NEW d \in Nat, Whole(s, a * Rollouts, d),
         NEW t, NEW b \in Nat, NEW e \in Nat, Whole(t, b * Rollouts, e), d <= e,
         \A i \in 1..(b * Rollouts) : d < t[i][1]
  PROVE  Whole(s \o t, (a + b) * Rollouts, e)
<1> DEFINE R == Rollouts
           Turn(i) == RunOf(i, R)
<1>1. PICK n \in Nat, m \in Nat : n = a * R /\ m = b * R /\ n + m = (a + b) * R
  <2>1. a * R \in Nat /\ b * R \in Nat /\ (a + b) * R = a * R + b * R
    BY SamplingFacts
  <2> QED BY <2>1
<1>2. PICK u : u = s \o t /\ u = Chain(s, t)
  BY DEF Chain
<1>3. Column(s, n) /\ Column(t, m)
  BY <1>1 DEF Whole
<1>4. /\ Column(u, n + m) /\ \A i \in 1..n : u[i] = s[i]
      /\ \A i \in 1..m : u[n + i] = t[i]
  <2>1. /\ Column(Chain(s, t), n + m) /\ \A i \in 1..n : Chain(s, t)[i] = s[i]
        /\ \A i \in 1..m : Chain(s, t)[n + i] = t[i]
    BY <1>3, ColumnsJoin
  <2> QED BY <1>2, <2>1
\* Where a row stands: among the first or among the others, and in which run.
<1>5. ASSUME NEW i \in 1..(n + m)
      PROVE  \/ i \in 1..n /\ Turn(i) \in 1..a
             \/ \E j \in 1..m : i = n + j /\ Turn(j) \in 1..b /\ Turn(i) = a + Turn(j)
  <2>1. CASE i \in 1..n
    <3>1. i \in 1..(a * R) /\ R \in Nat \ {0}
      BY <1>1, <2>1, SamplingFacts
    <3> QED BY <2>1, <3>1, PlaceIs
  <2>2. CASE i \notin 1..n
    <3>1. PICK j \in 1..m : i = n + j
      <4>1. i - n \in 1..m /\ i = n + (i - n)
        BY <2>2
      <4> QED BY <4>1
    <3>2. PICK r \in 1..b, o \in 1..R : r = Turn(j) /\ o = SpotOf(j, R) /\ j = (r - 1) * R + o
      <4>1. j \in 1..(b * R) /\ R \in Nat \ {0}
        BY <1>1, SamplingFacts
      <4>2. RunOf(j, R) \in 1..b /\ SpotOf(j, R) \in 1..R
            /\ j = (RunOf(j, R) - 1) * R + SpotOf(j, R)
        BY <4>1, PlaceIs
      <4> QED BY <4>2
    <3>3. /\ ((a + r) - 1) * R + o \in 1..((a + b) * R)
          /\ RunOf(((a + r) - 1) * R + o, R) = a + r
      <4>1. a + b \in Nat /\ a + r \in 1..(a + b)
        OBVIOUS
      <4> QED BY <4>1, SamplingFacts, PlaceOf
    <3>4. ((a + r) - 1) * R + o = n + j
      <4>1. ((a + r) - 1) * R = a * R + (r - 1) * R
        BY SamplingFacts
      <4>2. (r - 1) * R \in Int
        BY SamplingFacts
      <4> QED BY <1>1, <3>2, <4>1, <4>2
    <3> QED BY <3>1, <3>2, <3>3, <3>4
  <2> QED BY <2>1, <2>2
<1> HIDE DEF R, Turn
<1>6. /\ \A i \in 1..n : s[i][1] \in 1..d
      /\ \A i, j \in 1..n : Turn(i) = Turn(j) <=> s[i][1] = s[j][1]
      /\ \A i, j \in 1..n : s[i] = s[j] => i = j
      /\ Rollouts > 1 => \A i \in 1..n : \E j, k \in 1..n :
           Turn(j) = Turn(i) /\ Turn(k) = Turn(i) /\ s[j][3] # s[k][3]
  BY <1>1 DEF Whole, R, Turn
<1>7. /\ \A i \in 1..m : t[i][1] \in 1..e /\ d < t[i][1]
      /\ \A i, j \in 1..m : Turn(i) = Turn(j) <=> t[i][1] = t[j][1]
      /\ \A i, j \in 1..m : t[i] = t[j] => i = j
      /\ Rollouts > 1 => \A i \in 1..m : \E j, k \in 1..m :
           Turn(j) = Turn(i) /\ Turn(k) = Turn(i) /\ t[j][3] # t[k][3]
  BY <1>1 DEF Whole, R, Turn
<1>8. ASSUME NEW i \in 1..(n + m)
      PROVE  \/ i \in 1..n /\ Turn(i) \in 1..a /\ u[i] = s[i] /\ u[i][1] \in 1..d
             \/ \E j \in 1..m : /\ i = n + j /\ Turn(j) \in 1..b /\ Turn(i) = a + Turn(j)
                               /\ u[i] = t[j] /\ u[i][1] \in (d + 1)..e
  <2>1. CASE i \in 1..n /\ Turn(i) \in 1..a
    BY <1>4, <1>6, <2>1
  <2>2. CASE \E j \in 1..m : i = n + j /\ Turn(j) \in 1..b /\ Turn(i) = a + Turn(j)
    <3>1. PICK j \in 1..m : i = n + j /\ Turn(j) \in 1..b /\ Turn(i) = a + Turn(j)
      BY <2>2
    <3>2. u[i] = t[j] /\ u[i][1] \in (d + 1)..e
      BY <1>4, <1>7, <3>1
    <3> QED BY <3>1, <3>2
  <2> QED BY <1>5, <2>1, <2>2
<1>9. \A i \in 1..(n + m) : u[i][1] \in 1..e
  <2> SUFFICES ASSUME NEW i \in 1..(n + m) PROVE u[i][1] \in 1..e
    OBVIOUS
  <2>1. u[i][1] \in 1..d \/ u[i][1] \in (d + 1)..e
    BY <1>8
  <2> QED BY <2>1
<1>10. ASSUME NEW i \in 1..(n + m), NEW j \in 1..(n + m)
       PROVE  /\ Turn(i) = Turn(j) <=> u[i][1] = u[j][1]
              /\ u[i] = u[j] => i = j
  <2>1. CASE i \in 1..n /\ j \in 1..n
    BY <1>4, <1>6, <2>1
  <2>2. CASE i \in 1..n /\ j \notin 1..n
    <3>1. Turn(i) \in 1..a /\ u[i][1] \in 1..d
      BY <1>8, <2>2
    <3>2. PICK k \in 1..m : Turn(k) \in 1..b /\ Turn(j) = a + Turn(k) /\ u[j][1] \in (d + 1)..e
      BY <1>8, <2>2
    <3>3. Turn(i) # Turn(j) /\ u[i][1] # u[j][1]
      BY <3>1, <3>2
    <3> QED BY <3>3
  <2>3. CASE i \notin 1..n /\ j \in 1..n
    <3>1. Turn(j) \in 1..a /\ u[j][1] \in 1..d
      BY <1>8, <2>3
    <3>2. PICK k \in 1..m : Turn(k) \in 1..b /\ Turn(i) = a + Turn(k) /\ u[i][1] \in (d + 1)..e
      BY <1>8, <2>3
    <3>3. Turn(i) # Turn(j) /\ u[i][1] # u[j][1]
      BY <3>1, <3>2
    <3> QED BY <3>3
  <2>4. CASE i \notin 1..n /\ j \notin 1..n
    <3>1. PICK k \in 1..m : i = n + k /\ Turn(k) \in 1..b /\ Turn(i) = a + Turn(k) /\ u[i] = t[k]
      BY <1>8, <2>4
    <3>2. PICK h \in 1..m : j = n + h /\ Turn(h) \in 1..b /\ Turn(j) = a + Turn(h) /\ u[j] = t[h]
      BY <1>8, <2>4
    <3>3. Turn(i) = Turn(j) <=> Turn(k) = Turn(h)
      BY <3>1, <3>2
    <3>4. Turn(k) = Turn(h) <=> t[k][1] = t[h][1]
      BY <1>7
    <3>5. t[k] = t[h] => k = h
      BY <1>7
    <3> QED BY <3>1, <3>2, <3>3, <3>4, <3>5
  <2> QED BY <2>1, <2>2, <2>3, <2>4
<1>11. ASSUME Rollouts > 1, NEW i \in 1..(n + m)
       PROVE  \E j, k \in 1..(n + m) : Turn(j) = Turn(i) /\ Turn(k) = Turn(i) /\ u[j][3] # u[k][3]
  <2>1. CASE i \in 1..n
    <3>1. PICK j \in 1..n, k \in 1..n : Turn(j) = Turn(i) /\ Turn(k) = Turn(i) /\ s[j][3] # s[k][3]
      BY <1>6, <1>11, <2>1
    <3>2. u[j] = s[j] /\ u[k] = s[k] /\ j \in 1..(n + m) /\ k \in 1..(n + m)
      BY <1>4
    <3> QED BY <3>1, <3>2
  <2>2. CASE i \notin 1..n
    <3>1. PICK x \in 1..m : i = n + x /\ Turn(i) = a + Turn(x)
      BY <1>8, <2>2
    <3>2. PICK y \in 1..m, z \in 1..m : Turn(y) = Turn(x) /\ Turn(z) = Turn(x) /\ t[y][3] # t[z][3]
      BY <1>7, <1>11
    <3>3. n + y \in 1..(n + m) /\ n + z \in 1..(n + m) /\ n + y \notin 1..n /\ n + z \notin 1..n
      OBVIOUS
    <3>4. Turn(n + y) = a + Turn(y) /\ Turn(n + z) = a + Turn(z)
      <4>1. ASSUME NEW w \in 1..m PROVE Turn(n + w) = a + Turn(w)
        <5>1. n + w \in 1..(n + m) /\ n + w \notin 1..n
          OBVIOUS
        <5>2. PICK j \in 1..m : n + w = n + j /\ Turn(n + w) = a + Turn(j)
          BY <1>8, <5>1
        <5>3. j = w
          BY <5>2
        <5> QED BY <5>2, <5>3
      <4> QED BY <4>1
    <3>5. u[n + y] = t[y] /\ u[n + z] = t[z]
      BY <1>4
    <3> QED BY <3>1, <3>2, <3>3, <3>4, <3>5
  <2> QED BY <2>1, <2>2
<1>12. Whole(u, n + m, e)
  BY <1>4, <1>9, <1>10, <1>11 DEF Whole, R, Turn
<1> QED BY <1>1, <1>2, <1>12 DEF R

\* What filtering keeps of a generation batch are whole groups of new prompts.
LEMMA KeptWhole ==
  ASSUME drawn \in Nat, NEW score
  PROVE  \E m \in Nat :
           /\ m = Cardinality(KeptPrompts(score))
           /\ Whole(KeptRows(score), m * Rollouts, drawn * GenPrompts + GenPrompts)
           /\ \A i \in 1..(m * Rollouts) : drawn * GenPrompts < KeptRows(score)[i][1]
<1> DEFINE R == Rollouts
           Turn(i) == RunOf(i, R)
           B == {r \in 1..GenPrompts : drawn * GenPrompts + r \in KeptPrompts(score)}
           S == RunsOf(GenPrompts, R, B)
<1>1. PICK base \in Nat : base = drawn * GenPrompts
  BY SamplingFacts
<1>2. ASSUME NEW i \in NewRows
      PROVE  /\ i \in 1..(GenPrompts * R) /\ Turn(i) \in 1..GenPrompts /\ SpotOf(i, R) \in 1..R
             /\ i = (Turn(i) - 1) * R + SpotOf(i, R)
             /\ PromptAt(i) = base + Turn(i)
  <2>1. i \in 1..(GenPrompts * R)
    BY DEF NewRows
  <2>2. /\ Turn(i) \in 1..GenPrompts /\ SpotOf(i, R) \in 1..R
        /\ i = (Turn(i) - 1) * R + SpotOf(i, R)
    BY <2>1, SamplingFacts, PlaceIs
  <2>3. PICK q \in Int : q = (i - 1) \div R
    BY SamplingFacts DEF NewRows
  <2>4. PromptAt(i) = base + Turn(i)
    BY <1>1, <2>3 DEF PromptAt, RunOf
  <2> QED BY <2>1, <2>2, <2>4
<1>3. ASSUME NEW r \in 1..GenPrompts, NEW o \in 1..R
      PROVE  /\ (r - 1) * R + o \in NewRows /\ Turn((r - 1) * R + o) = r
             /\ PromptAt((r - 1) * R + o) = base + r
  <2>1. (r - 1) * R + o \in 1..(GenPrompts * R) /\ RunOf((r - 1) * R + o, R) = r
    BY SamplingFacts, PlaceOf
  <2>2. PICK i : i = (r - 1) * R + o
    OBVIOUS
  <2>3. i \in NewRows /\ Turn(i) = r
    BY <2>1, <2>2 DEF NewRows
  <2>4. PromptAt(i) = base + r
    BY <1>2, <2>3
  <2> QED BY <2>2, <2>3, <2>4
<1>4. \A p \in KeptPrompts(score) : \E r \in B : p = base + r
  <2> SUFFICES ASSUME NEW p \in KeptPrompts(score) PROVE \E r \in B : p = base + r
    OBVIOUS
  <2>1. PICK i \in NewRows : p = PromptAt(i)
    BY DEF KeptPrompts
  <2>2. Turn(i) \in B /\ p = base + Turn(i)
    BY <1>1, <1>2, <2>1
  <2> QED BY <2>2
<1>5. \A r \in B : r \in 1..GenPrompts /\ base + r \in KeptPrompts(score)
  BY <1>1
<1>6. S = {i \in NewRows : PromptAt(i) \in KeptPrompts(score)}
  <2>1. NewRows = 1..(GenPrompts * R)
    BY DEF NewRows
  <2>2. ASSUME NEW i \in NewRows PROVE RunOf(i, R) \in B <=> PromptAt(i) \in KeptPrompts(score)
    BY <1>1, <1>2
  <2> QED BY <2>1, <2>2 DEF RunsOf
<1>7. B \subseteq 1..GenPrompts /\ B \subseteq Int /\ IsFiniteSet(B)
  <2>1. IsFiniteSet(1..GenPrompts)
    BY SamplingFacts, FS_Interval
  <2>2. B \in SUBSET (1..GenPrompts)
    OBVIOUS
  <2>3. IsFiniteSet(B)
    BY <2>1, <2>2, FS_Subset
  <2> QED BY <2>2, <2>3
<1>8. PICK T : T = S
  OBVIOUS
<1>9. PICK C : C = B
  OBVIOUS
<1>10. /\ T = RunsOf(GenPrompts, R, C) /\ C \subseteq 1..GenPrompts
       /\ C \subseteq Int /\ IsFiniteSet(C)
       /\ T = {i \in NewRows : PromptAt(i) \in KeptPrompts(score)}
       /\ \A r \in C : r \in 1..GenPrompts /\ base + r \in KeptPrompts(score)
       /\ \A p \in KeptPrompts(score) : \E r \in C : p = base + r
  BY <1>4, <1>5, <1>6, <1>7, <1>8, <1>9
<1> HIDE DEF B, S
<1>11. PICK m \in Nat : m = Cardinality(C)
  BY <1>10, FS_CardinalityType
<1>12. /\ IsFiniteSet(T) /\ Cardinality(T) = m * R
       /\ \A j \in 1..(m * R) :
            /\ Turn(j) \in 1..m /\ NthOf(T, j) \in T
            /\ Turn(NthOf(T, j)) = NthOf(C, Turn(j))
  <2>1. GenPrompts \in Nat /\ R \in Nat \ {0}
    BY SamplingFacts
  <2> HIDE DEF R
  <2>2. C \in SUBSET (1..GenPrompts) /\ T = RunsOf(GenPrompts, R, C)
    BY <1>10
  <2>4. /\ IsFiniteSet(T) /\ Cardinality(T) = Cardinality(C) * R
        /\ \A j \in 1..(Cardinality(C) * R) :
             /\ RunOf(j, R) \in 1..Cardinality(C)
             /\ NthOf(T, j) \in T
             /\ RunOf(NthOf(T, j), R) = NthOf(C, RunOf(j, R))
    <3>1. RunByRun(T, R, C)
      BY <2>1, <2>2, RunNths
    <3> QED BY <3>1 DEF RunByRun
  <2> QED BY <1>11, <2>4
<1>13. Cardinality(KeptPrompts(score)) = m
  <2>1. PICK f : f = [r \in C |-> base + r]
    OBVIOUS
  <2>2. f \in [C -> KeptPrompts(score)] /\ \A r, q \in C : f[r] = f[q] => r = q
    BY <1>10, <2>1
  <2>3. \A p \in KeptPrompts(score) : \E r \in C : f[r] = p
    BY <1>10, <2>1
  <2>4. f \in Surjection(C, KeptPrompts(score)) /\ f \in Injection(C, KeptPrompts(score))
    BY <2>2, <2>3 DEF Surjection, Injection, IsInjective
  <2> QED BY <1>10, <1>11, <2>4, FS_Surjection
<1>14. PICK n \in Nat : n = m * R
  BY SamplingFacts
<1>15. PICK k : k = KeptRows(score)
  OBVIOUS
<1>16. /\ Column(k, n)
       /\ \A j \in 1..n : k[j] = <<PromptAt(NthOf(T, j)), NthOf(T, j), score[NthOf(T, j)]>>
  <2>1. k = [j \in 1..Cardinality(T) |->
               <<PromptAt(NthOf(T, j)), NthOf(T, j), score[NthOf(T, j)]>>]
    <3> DEFINE Q == {i \in NewRows : PromptAt(i) \in KeptPrompts(score)}
    <3>1. k = [j \in 1..Cardinality(Q) |->
                 <<PromptAt(NthOf(Q, j)), NthOf(Q, j), score[NthOf(Q, j)]>>]
      BY <1>15 DEF KeptRows, NthOf
    <3>2. Q = T
      BY <1>10
    <3> HIDE DEF Q
    <3> QED BY <3>1, <3>2
  <2>2. Cardinality(T) = n
    BY <1>12, <1>14
  <2> QED BY <2>1, <2>2 DEF Column
<1>17. /\ \A j \in 1..n : NthOf(T, j) \in T
       /\ \A i, j \in 1..n : NthOf(T, i) = NthOf(T, j) => i = j
       /\ \A x \in T : \E j \in 1..n : NthOf(T, j) = x
  <2>1. T \subseteq Int
    BY <1>10 DEF NewRows
  <2>2. PICK c : c = Cardinality(T)
    OBVIOUS
  <2>3. /\ \A j \in 1..c : NthOf(T, j) \in T
        /\ \A i, j \in 1..c : NthOf(T, i) = NthOf(T, j) => i = j
        /\ \A x \in T : \E j \in 1..c : NthOf(T, j) = x
    BY <1>12, <2>1, <2>2, Nths
  <2> QED BY <1>12, <1>14, <2>2, <2>3
<1>18. /\ \A r \in 1..m : NthOf(C, r) \in C
       /\ \A r, q \in 1..m : NthOf(C, r) = NthOf(C, q) => r = q
  BY <1>10, <1>11, Nths
<1> HIDE DEF Run
<1>19. ASSUME NEW j \in 1..n
       PROVE  /\ NthOf(T, j) \in NewRows /\ Turn(j) \in 1..m
              /\ k[j][1] = base + NthOf(C, Turn(j)) /\ NthOf(C, Turn(j)) \in 1..GenPrompts
              /\ k[j][1] \in KeptPrompts(score)
              /\ k[j][2] = NthOf(T, j) /\ k[j][3] = score[NthOf(T, j)]
              /\ PromptAt(NthOf(T, j)) = k[j][1]
  <2>1. NthOf(T, j) \in NewRows /\ PromptAt(NthOf(T, j)) \in KeptPrompts(score)
    BY <1>10, <1>17
  <2>2. Turn(j) \in 1..m /\ Turn(NthOf(T, j)) = NthOf(C, Turn(j))
    BY <1>12, <1>14
  <2>3. PromptAt(NthOf(T, j)) = base + NthOf(C, Turn(j))
    BY <1>2, <2>1, <2>2
  <2>4. NthOf(C, Turn(j)) \in 1..GenPrompts
    BY <1>10, <1>18, <2>2
  <2> QED BY <1>16, <2>1, <2>2, <2>3, <2>4
<1>20. \A j \in 1..n : k[j][1] \in 1..(base + GenPrompts) /\ base < k[j][1]
  <2> SUFFICES ASSUME NEW j \in 1..n
               PROVE  k[j][1] \in 1..(base + GenPrompts) /\ base < k[j][1]
    OBVIOUS
  <2>1. PICK r \in 1..GenPrompts : k[j][1] = base + r
    BY <1>19
  <2> QED BY <2>1, SamplingFacts
<1>21. ASSUME NEW i \in 1..n, NEW j \in 1..n
       PROVE  Turn(i) = Turn(j) <=> k[i][1] = k[j][1]
  <2>1. PICK r \in 1..GenPrompts, q \in 1..GenPrompts :
          r = NthOf(C, Turn(i)) /\ q = NthOf(C, Turn(j))
    BY <1>19
  <2>2. k[i][1] = base + r /\ k[j][1] = base + q
    BY <1>19, <2>1
  <2>3. r = q => Turn(i) = Turn(j)
    BY <1>18, <1>19, <2>1
  <2> QED BY <2>1, <2>2, <2>3
<1>22. ASSUME NEW i \in 1..n, NEW j \in 1..n, k[i] = k[j]
       PROVE  i = j
  BY <1>17, <1>19, <1>22
<1>23. ASSUME Rollouts > 1, NEW i \in 1..n
       PROVE  \E j, h \in 1..n : Turn(j) = Turn(i) /\ Turn(h) = Turn(i) /\ k[j][3] # k[h][3]
  <2>1. PICK p \in KeptPrompts(score), r \in 1..GenPrompts : p = k[i][1] /\ p = base + r
    BY <1>19
  <2> DEFINE own == {x \in NewRows : PromptAt(x) = p}
  <2>2. Cardinality(own) = 1 \/ \E x, y \in own : score[x] # score[y]
    BY <2>1 DEF KeptPrompts, Varied
  <2>3. PICK x \in own, y \in own : x # y
    <3>1. 1 \in 1..R /\ 2 \in 1..R
      BY <1>23, SamplingFacts
    <3>2. (r - 1) * R + 1 \in own /\ (r - 1) * R + 2 \in own
      BY <1>3, <2>1, <3>1
    <3>3. (r - 1) * R \in Int
      BY SamplingFacts
    <3>4. (r - 1) * R + 1 # (r - 1) * R + 2
      BY <3>3
    <3> QED BY <3>2, <3>4
  <2>4. IsFiniteSet(own)
    <3>1. GenPrompts * R \in Int
      BY SamplingFacts
    <3>2. IsFiniteSet(NewRows)
      BY <3>1, FS_Interval DEF NewRows
    <3>3. own \in SUBSET NewRows
      OBVIOUS
    <3> QED BY <3>2, <3>3, FS_Subset
  <2>5. PICK v \in own, w \in own : score[v] # score[w]
    <3> HIDE DEF own
    <3>1. Cardinality(own) # 1
      BY <2>3, <2>4, FS_Singleton
    <3> QED BY <2>2, <3>1
  <2>6. v \in T /\ w \in T
    BY <1>10, <2>1
  <2>7. PICK j \in 1..n, h \in 1..n : NthOf(T, j) = v /\ NthOf(T, h) = w
    BY <1>17, <2>6
  <2>8. k[j][1] = k[i][1] /\ k[h][1] = k[i][1] /\ k[j][3] # k[h][3]
    BY <1>19, <2>1, <2>5, <2>7
  <2> QED BY <1>21, <2>7, <2>8
<1>24. Whole(k, n, base + GenPrompts)
  BY <1>16, <1>20, <1>21, <1>22, <1>23 DEF Whole, Run, R
<1> QED BY <1>1, <1>11, <1>13, <1>14, <1>15, <1>20, <1>24 DEF R

LEMMA SampleInv == ASSUME SamplingInv, Sample PROVE SamplingInv'
<1>1. stage = "sampling" /\ drawn \in Nat /\ num_prompt \in Nat /\ drawn' = drawn + 1
      /\ Whole(pool, num_prompt * Rollouts, drawn * GenPrompts)
  BY DEF Sample, SamplingInv
<1>2. PICK score \in [NewRows -> 0..1] :
        LET n == num_prompt + Cardinality(KeptPrompts(score))
            all == pool \o KeptRows(score)
        IN  /\ num_prompt' = n
            /\ pool' = IF Enough(n) THEN Cut(all) ELSE all
            /\ stage' = IF Enough(n) THEN "updating" ELSE IF MayGoOn THEN "sampling" ELSE "failed"
  BY DEF Sample
<1>3. PICK m \in Nat :
        /\ m = Cardinality(KeptPrompts(score))
        /\ Whole(KeptRows(score), m * Rollouts, drawn * GenPrompts + GenPrompts)
        /\ \A i \in 1..(m * Rollouts) : drawn * GenPrompts < KeptRows(score)[i][1]
  BY <1>1, KeptWhole
<1>4. PICK n \in Nat : n = num_prompt + m
  BY <1>1
<1>5. PICK all : all = pool \o KeptRows(score)
  OBVIOUS
<1>6. /\ num_prompt' = n
      /\ pool' = IF Enough(n) THEN Cut(all) ELSE all
      /\ stage' = IF Enough(n) THEN "updating" ELSE IF MayGoOn THEN "sampling" ELSE "failed"
  BY <1>2, <1>3, <1>4, <1>5
<1>7. PICK d \in Nat, e \in Nat :
        d = drawn * GenPrompts /\ e = d + GenPrompts /\ e = drawn' * GenPrompts
  <2>1. drawn * GenPrompts \in Nat /\ (drawn + 1) * GenPrompts = drawn * GenPrompts + GenPrompts
    BY <1>1, SamplingFacts
  <2> QED BY <1>1, <2>1, SamplingFacts
<1>8. Whole(all, n * Rollouts, e)
  <2>1. PICK k : k = KeptRows(score)
    OBVIOUS
  <2>2. /\ Whole(pool, num_prompt * Rollouts, d) /\ Whole(k, m * Rollouts, e) /\ d <= e
        /\ \A i \in 1..(m * Rollouts) : d < k[i][1]
    BY <1>1, <1>3, <1>7, <2>1, SamplingFacts
  <2>3. Whole(pool \o k, (num_prompt + m) * Rollouts, e)
    BY <1>1, <2>2, WholeJoin
  <2> QED BY <1>4, <1>5, <2>1, <2>3
<1>9. CASE Enough(n)
  <2>1. TrainPrompts <= n /\ TrainPrompts \in Nat
    BY <1>9, SamplingFacts DEF Enough
  <2>2. PICK l \in Nat, t \in Nat : l = n * Rollouts /\ t = TrainPrompts * Rollouts /\ t <= l
    <3>1. n * Rollouts \in Nat /\ TrainPrompts * Rollouts \in Nat
      BY SamplingFacts
    <3>2. TrainPrompts < n => TrainPrompts * Rollouts + Rollouts <= n * Rollouts
      BY SamplingFacts, Products
    <3>3. TrainPrompts * Rollouts <= n * Rollouts
      <4>1. CASE TrainPrompts < n
        BY <3>1, <3>2, <4>1, SamplingFacts
      <4>2. CASE TrainPrompts = n
        BY <3>1, <4>2
      <4> QED BY <2>1, <4>1, <4>2
    <3> QED BY <3>1, <3>3
  <2>3. Len(all) = l
    BY <1>8, <2>2, ColumnIs DEF Whole
  <2>4. Cut(all) = SubSeq(all, 1, TrainPrompts * Rollouts)
    <3>1. CASE t < l
      BY <2>2, <2>3, <3>1 DEF Cut
    <3>2. CASE t = l
      BY <2>2, <2>3, <3>2 DEF Cut
    <3> QED BY <2>2, <3>1, <3>2
  <2>5. Whole(SubSeq(all, 1, TrainPrompts * Rollouts), TrainPrompts * Rollouts, e)
    BY <1>8, <2>1, WholeCut
  <2> QED BY <1>1, <1>6, <1>7, <1>9, <2>4, <2>5 DEF SamplingInv
<1>10. CASE ~Enough(n)
  <2>1. pool' = all /\ stage' # "updating"
    BY <1>6, <1>10
  <2> QED BY <1>1, <1>6, <1>7, <1>8, <2>1 DEF SamplingInv
<1> QED BY <1>9, <1>10

LEMMA EmptyWhole == ASSUME NEW d PROVE Whole(<<>>, 0, d)
<1>1. Column(<<>>, 0)
  BY DEF Column
<1> QED BY <1>1 DEF Whole

LEMMA SamplingStarts == SamplingInit => SamplingInv
<1> SUFFICES ASSUME SamplingInit PROVE SamplingInv
  OBVIOUS
<1>1. pool = <<>> /\ num_prompt = 0 /\ drawn = 0 /\ stage = "sampling"
  BY DEF SamplingInit
<1>2. 0 * Rollouts = 0
  BY SamplingFacts
<1> QED BY <1>1, <1>2, EmptyWhole DEF SamplingInv

LEMMA SamplingSteps == SamplingInv /\ [SamplingNext]_sampling => SamplingInv'
<1> SUFFICES ASSUME SamplingInv, [SamplingNext]_sampling PROVE SamplingInv'
  OBVIOUS
<1>1. CASE Sample
  BY <1>1, SampleInv
<1>2. CASE Update
  <2>1. /\ pool' = <<>> /\ num_prompt' = 0 /\ drawn' = drawn /\ stage' # "updating"
    BY <1>2 DEF Update
  <2>2. 0 * Rollouts = 0
    BY SamplingFacts
  <2>3. Whole(pool', 0, drawn' * GenPrompts)
    BY <2>1, EmptyWhole
  <2> QED BY <2>1, <2>2, <2>3 DEF SamplingInv
<1>3. CASE Exhausted
  BY <1>3 DEF Exhausted, SamplingInv
<1>4. CASE UNCHANGED sampling
  BY <1>4 DEF sampling, SamplingInv
<1> QED BY <1>1, <1>2, <1>3, <1>4 DEF SamplingNext

\* A step trains on train_batch_size prompts, each with all its answers, which
\* do not all score the same (dapo_ray_trainer.py fit): the cut at traj_bsz comes
\* between two groups whatever the batches the step was put together from.
THEOREM KeepsGroupsWhole == SamplingSpec => []WholeGroups
<1>1. ASSUME SamplingInv PROVE WholeGroups
  <2> DEFINE prompts == {pool[i][1] : i \in DOMAIN pool}
             group(p) == {pool[i] : i \in {j \in DOMAIN pool : pool[j][1] = p}}
             R == Rollouts
             Turn(i) == RunOf(i, R)
  <2> SUFFICES ASSUME stage = "updating"
               PROVE  /\ Cardinality(prompts) = TrainPrompts
                      /\ Len(pool) = TrainPrompts * Rollouts
                      /\ \A p \in prompts :
                           /\ Cardinality(group(p)) = Rollouts
                           /\ Rollouts > 1 => \E x, y \in group(p) : x[3] # y[3]
    BY DEF WholeGroups
  <2>1. Whole(pool, TrainPrompts * R, drawn * GenPrompts)
    BY <1>1 DEF SamplingInv
  <2>2. PICK n \in Nat : n = TrainPrompts * R
    BY SamplingFacts
  <2>3. /\ Len(pool) = n /\ DOMAIN pool = 1..n
        /\ \A i, j \in 1..n : Turn(i) = Turn(j) <=> pool[i][1] = pool[j][1]
        /\ \A i, j \in 1..n : pool[i] = pool[j] => i = j
        /\ R > 1 => \A i \in 1..n : \E j, k \in 1..n :
             Turn(j) = Turn(i) /\ Turn(k) = Turn(i) /\ pool[j][3] # pool[k][3]
    BY <2>1, <2>2, ColumnIs DEF Whole
  <2>4. ASSUME NEW i \in 1..n
        PROVE  /\ Turn(i) \in 1..TrainPrompts /\ SpotOf(i, R) \in 1..R
               /\ i = (Turn(i) - 1) * R + SpotOf(i, R)
    <3>1. i \in 1..(TrainPrompts * R) /\ TrainPrompts \in Nat
      BY <2>2, SamplingFacts
    <3> QED BY <3>1, SamplingFacts, PlaceIs
  <2>5. ASSUME NEW r \in 1..TrainPrompts, NEW o \in 1..R
        PROVE  /\ (r - 1) * R + o \in 1..n
               /\ Turn((r - 1) * R + o) = r /\ SpotOf((r - 1) * R + o, R) = o
    <3>1. TrainPrompts \in Nat /\ R \in Nat \ {0}
      BY SamplingFacts
    <3> QED BY <2>2, <3>1, PlaceOf
  <2>6. 1 \in 1..R
    BY SamplingFacts
  <2> HIDE DEF prompts, group, Run
  <2>7. Cardinality(prompts) = TrainPrompts
    <3>1. PICK f : f = [r \in 1..TrainPrompts |-> pool[(r - 1) * R + 1][1]]
      OBVIOUS
    <3>2. ASSUME NEW r \in 1..TrainPrompts
          PROVE  \E i \in 1..n : Turn(i) = r /\ f[r] = pool[i][1]
      BY <2>5, <2>6, <3>1
    <3>3. f \in [1..TrainPrompts -> prompts]
      BY <2>3, <3>1, <3>2 DEF prompts
    <3>4. ASSUME NEW r \in 1..TrainPrompts, NEW q \in 1..TrainPrompts, f[r] = f[q]
          PROVE  r = q
      BY <2>3, <3>2, <3>4
    <3>5. ASSUME NEW p \in prompts PROVE \E r \in 1..TrainPrompts : f[r] = p
      <4>1. PICK i \in 1..n : p = pool[i][1]
        BY <2>3 DEF prompts
      <4>2. Turn(i) \in 1..TrainPrompts
        BY <2>4
      <4>3. PICK j \in 1..n : Turn(j) = Turn(i) /\ f[Turn(i)] = pool[j][1]
        BY <3>2, <4>2
      <4>4. pool[j][1] = pool[i][1]
        BY <2>3, <4>3
      <4> QED BY <4>1, <4>2, <4>3, <4>4
    <3>6. f \in Surjection(1..TrainPrompts, prompts) /\ f \in Injection(1..TrainPrompts, prompts)
      BY <3>3, <3>4, <3>5 DEF Surjection, Injection, IsInjective
    <3>7. IsFiniteSet(1..TrainPrompts) /\ Cardinality(1..TrainPrompts) = TrainPrompts
      BY SamplingFacts, FS_Interval
    <3> QED BY <3>6, <3>7, FS_Surjection
  <2>8. ASSUME NEW p \in prompts
        PROVE  /\ Cardinality(group(p)) = R
               /\ R > 1 => \E x, y \in group(p) : x[3] # y[3]
    <3>1. PICK i \in 1..n : p = pool[i][1]
      BY <2>3 DEF prompts
    <3>2. PICK r \in 1..TrainPrompts : r = Turn(i)
      BY <2>4
    <3>3. \A j \in 1..n : Turn(j) = r <=> pool[j] \in group(p)
      BY <2>3, <3>1, <3>2 DEF group
    <3>4. PICK g : g = [o \in 1..R |-> pool[(r - 1) * R + o]]
      OBVIOUS
    <3>5. \A o \in 1..R : g[o] = pool[(r - 1) * R + o]
      BY <3>4
    <3>6. ASSUME NEW o \in 1..R
          PROVE  \E j \in 1..n : g[o] = pool[j] /\ Turn(j) = r /\ SpotOf(j, R) = o
      <4>1. PICK j \in 1..n : j = (r - 1) * R + o /\ Turn(j) = r /\ SpotOf(j, R) = o
        BY <2>5
      <4>2. g[o] = pool[j]
        BY <3>5, <4>1
      <4> QED BY <4>1, <4>2
    <3>7. g \in [1..R -> group(p)]
      BY <3>3, <3>4, <3>6
    <3>8. ASSUME NEW o \in 1..R, NEW q \in 1..R, g[o] = g[q] PROVE o = q
      <4>1. PICK j \in 1..n : g[o] = pool[j] /\ Turn(j) = r /\ SpotOf(j, R) = o
        BY <3>6
      <4>2. PICK k \in 1..n : g[q] = pool[k] /\ Turn(k) = r /\ SpotOf(k, R) = q
        BY <3>6
      <4>3. j = k
        <5>1. pool[j] = pool[k]
          BY <3>8, <4>1, <4>2
        <5>2. \A a, b \in 1..n : pool[a] = pool[b] => a = b
          BY <2>3
        <5> QED BY <5>1, <5>2
      <4> QED BY <4>1, <4>2, <4>3
    <3>9. ASSUME NEW x \in group(p) PROVE \E o \in 1..R : g[o] = x
      <4>1. PICK j \in 1..n : x = pool[j] /\ pool[j][1] = p
        BY <2>3 DEF group
      <4>2. Turn(j) = r
        BY <3>3, <4>1
      <4>3. PICK o \in 1..R : o = SpotOf(j, R) /\ j = (r - 1) * R + o
        BY <2>4, <4>2
      <4> QED BY <3>5, <4>1, <4>3
    <3>10. g \in Surjection(1..R, group(p)) /\ g \in Injection(1..R, group(p))
      BY <3>7, <3>8, <3>9 DEF Surjection, Injection, IsInjective
    <3>11. IsFiniteSet(1..R) /\ Cardinality(1..R) = R
      BY SamplingFacts, FS_Interval
    <3>12. Cardinality(group(p)) = R
      BY <3>10, <3>11, FS_Surjection
    <3>13. ASSUME R > 1 PROVE \E x, y \in group(p) : x[3] # y[3]
      <4>1. PICK j \in 1..n, k \in 1..n : /\ Turn(j) = Turn(i) /\ Turn(k) = Turn(i)
                                        /\ pool[j][3] # pool[k][3]
        BY <2>3, <3>13
      <4>2. pool[j] \in group(p) /\ pool[k] \in group(p)
        BY <3>2, <3>3, <4>1
      <4> QED BY <4>1, <4>2
    <3> QED BY <3>12, <3>13
  <2> QED BY <2>2, <2>3, <2>7, <2>8
<1> QED BY <1>1, SamplingStarts, SamplingSteps, PTL DEF SamplingSpec

-----------------------------------------------------------------------------
(* Outcome advantages.                                                     *)

\* A batch of N rows in some order; and a batch with the same rows, row i of b
\* being row p[i] of c.
Shuffled(b, N) ==
  /\ Column(b, N)
  /\ \A i \in 1..N : b[i].row \in 1..N /\ b[i].score \in Int /\ LengthOf[b[i].row] \in Int
  /\ \A i, j \in 1..N : b[i].row = b[j].row => i = j

Permutes(p, N) ==
  /\ p \in [1..N -> 1..N]
  /\ \A i, j \in 1..N : p[i] = p[j] => i = j
  /\ \A k \in 1..N : \E i \in 1..N : p[i] = k

Rearranged(b, c, p, N) == Shuffled(b, N) /\ Shuffled(c, N) /\ Permutes(p, N) /\ \A i \in 1..N : c[p[i]] = b[i]

LEMMA OntoItself ==
  ASSUME NEW N \in Nat, NEW p \in [1..N -> 1..N], \A i, j \in 1..N : p[i] = p[j] => i = j
  PROVE  Permutes(p, N)
<1>1. IsFiniteSet(1..N)
  BY FS_Interval
<1>2. p \in Injection(1..N, 1..N)
  BY DEF Injection, IsInjective
<1>3. p \in Surjection(1..N, 1..N)
  BY <1>1, <1>2, FS_Injection
<1>4. \A k \in 1..N : \E i \in 1..N : p[i] = k
  BY <1>3 DEF Surjection
<1> QED BY <1>4 DEF Permutes

LEMMA OriginalIs ==
  ASSUME NEW N \in Nat, Shuffled(data, N)
  PROVE  LET p == [i \in 1..N |-> data[i].row] IN Rearranged(data, Original, p, N)
<1> DEFINE p == [i \in 1..N |-> data[i].row]
<1>1. DOMAIN data = 1..N
  BY ColumnIs DEF Shuffled
<1>2. p \in [1..N -> 1..N] /\ \A i, j \in 1..N : p[i] = p[j] => i = j
  BY DEF Shuffled
<1>3. Permutes(p, N)
  <2> HIDE DEF p
  <2> QED BY <1>2, OntoItself
<1>4. ASSUME NEW i \in 1..N PROVE Original[p[i]] = data[i]
  <2> DEFINE Held == {data[j] : j \in 1..N}
  <2>1. p[i] \in 1..N /\ Original[p[i]] = CHOOSE r \in Held : r.row = p[i]
    BY <1>1, <1>2 DEF Original
  <2>2. data[i] \in Held /\ data[i].row = p[i]
    OBVIOUS
  <2>3. ASSUME NEW r \in Held, r.row = p[i] PROVE r = data[i]
    <3>1. PICK j \in 1..N : r = data[j]
      OBVIOUS
    <3>2. p[j] = p[i]
      BY <2>3, <3>1
    <3> QED BY <1>2, <3>1, <3>2
  <2> HIDE DEF Held, p
  <2>4. (CHOOSE r \in Held : r.row = p[i]) = data[i]
    BY <2>2, <2>3
  <2> QED BY <2>1, <2>4
<1>5. Shuffled(Original, N)
  <2> HIDE DEF p
  <2>1. Column(Original, N)
    BY <1>1 DEF Original, Column
  <2>2. ASSUME NEW k \in 1..N
        PROVE  \E i \in 1..N : p[i] = k /\ Original[k] = data[i]
    <3>1. PICK i \in 1..N : p[i] = k
      BY <1>3 DEF Permutes
    <3>2. Original[p[i]] = data[i]
      BY <1>4
    <3> QED BY <3>1, <3>2
  <2>3. \A k \in 1..N : /\ Original[k].row \in 1..N /\ Original[k].score \in Int
                        /\ LengthOf[Original[k].row] \in Int
    BY <2>2 DEF Shuffled
  <2>4. ASSUME NEW k \in 1..N, NEW m \in 1..N, Original[k].row = Original[m].row PROVE k = m
    <3>1. PICK i \in 1..N, j \in 1..N : /\ p[i] = k /\ Original[k] = data[i]
                                        /\ p[j] = m /\ Original[m] = data[j]
      BY <2>2
    <3>2. i = j
      BY <2>4, <3>1 DEF Shuffled
    <3> QED BY <3>1, <3>2
  <2> QED BY <2>1, <2>3, <2>4 DEF Shuffled
<1>6. \A i \in 1..N : Original[p[i]] = data[i]
  BY <1>4
<1> HIDE DEF p
<1>7. Rearranged(data, Original, p, N)
  BY <1>3, <1>5, <1>6 DEF Rearranged
<1> QED BY <1>7 DEF p

LEMMA ImageSize ==
  ASSUME NEW N \in Nat, NEW p, Permutes(p, N), NEW S \in SUBSET (1..N)
  PROVE  Cardinality(Moved(p, S)) = Cardinality(S) /\ IsFiniteSet(S)
<1> DEFINE T == {p[i] : i \in S}
           q == [i \in S |-> p[i]]
<1>1. IsFiniteSet(S)
  <2>1. IsFiniteSet(1..N)
    BY FS_Interval
  <2> QED BY <2>1, FS_Subset
<1>2. q \in [S -> T] /\ \A i, j \in S : q[i] = q[j] => i = j
  BY DEF Permutes
<1>3. \A y \in T : \E i \in S : q[i] = y
  OBVIOUS
<1> HIDE DEF T, q
<1>4. q \in Bijection(S, T)
  BY <1>2, <1>3 DEF Bijection, Injection, Surjection, IsInjective
<1>5. ExistsBijection(S, T)
  BY <1>4 DEF ExistsBijection
<1>6. Cardinality(T) = Cardinality(S)
  BY <1>1, <1>5, FS_Bijection
<1> QED BY <1>1, <1>6 DEF T, Moved

LEMMA GroupMoved ==
  ASSUME NEW N \in Nat, NEW b, NEW c, NEW p, Rearranged(b, c, p, N), NEW i \in 1..N
  PROVE  /\ Group(b, i) \in SUBSET (1..N) /\ i \in Group(b, i)
         /\ Group(c, p[i]) = Moved(p, Group(b, i))
         /\ Size(c, p[i]) = Size(b, i)
         /\ Len(b) = N /\ Len(c) = N
<1>1. Len(b) = N /\ Len(c) = N /\ DOMAIN b = 1..N /\ DOMAIN c = 1..N
  BY ColumnIs DEF Rearranged, Shuffled
<1>2. Group(b, i) \in SUBSET (1..N) /\ i \in Group(b, i)
  BY <1>1 DEF Group, At
<1>3. \A j \in 1..N : p[j] \in 1..N /\ c[p[j]] = b[j]
  BY DEF Rearranged, Permutes
<1>4. \A k \in 1..N : \E j \in 1..N : p[j] = k
  BY DEF Rearranged, Permutes
<1>5. ASSUME NEW k \in Group(c, p[i]) PROVE k \in Moved(p, Group(b, i))
  <2>1. k \in 1..N /\ c[k].uid = c[p[i]].uid
    BY <1>1 DEF Group, At
  <2>2. PICK j \in 1..N : p[j] = k
    BY <1>4, <2>1
  <2>3. b[j].uid = b[i].uid
    BY <1>3, <2>1, <2>2
  <2>4. j \in Group(b, i)
    BY <1>1, <2>3 DEF Group, At
  <2> QED BY <2>2, <2>4 DEF Moved
<1>6. ASSUME NEW j \in Group(b, i) PROVE p[j] \in Group(c, p[i])
  <2>1. j \in 1..N /\ b[j].uid = b[i].uid
    BY <1>1 DEF Group, At
  <2>2. p[j] \in 1..N /\ c[p[j]].uid = c[p[i]].uid
    BY <1>3, <2>1
  <2> QED BY <1>1, <2>2 DEF Group, At
<1>7. Group(c, p[i]) = Moved(p, Group(b, i))
  BY <1>5, <1>6 DEF Moved
<1>8. Permutes(p, N)
  BY DEF Rearranged
<1>9. Cardinality(Moved(p, Group(b, i))) = Cardinality(Group(b, i))
  BY <1>2, <1>8, ImageSize
<1>10. Size(c, p[i]) = Size(b, i)
  BY <1>7, <1>9 DEF Size
<1> QED BY <1>1, <1>2, <1>7, <1>10

Carried(f, g, p, N) ==
  /\ f \in [1..N -> Int] /\ g \in [1..N -> Int]
  /\ \A j \in 1..N : g[p[j]] = f[j]

LEMMA SumInMoved ==
  ASSUME NEW N \in Nat, NEW b, NEW c, NEW p, Rearranged(b, c, p, N), NEW i \in 1..N,
         NEW f, NEW g, Carried(f, g, p, N)
  PROVE  SumIn(c, g, p[i]) = SumIn(b, f, i)
<1>1. /\ Group(b, i) \in SUBSET (1..N) /\ Len(b) = N /\ Len(c) = N
      /\ Group(c, p[i]) = Moved(p, Group(b, i))
  <2>1. N \in Nat /\ Rearranged(b, c, p, N) /\ i \in 1..N
    OBVIOUS
  <2> QED BY ONLY <2>1, GroupMoved
<1>2. p \in [1..N -> 1..N] /\ \A j, k \in 1..N : p[j] = p[k] => j = k
  BY DEF Rearranged, Permutes
<1>3. SumOver(g, N, Moved(p, Group(b, i))) = SumOver(f, N, Group(b, i))
  <2>1. PICK S \in SUBSET (1..N) : S = Group(b, i)
    BY <1>1
  <2>2. SumOver(g, N, Moved(p, S)) = SumOver(f, N, S)
    <3>1. N \in Nat /\ Moves(f, g, p, N)
      BY <1>2 DEF Carried, Moves
    <3> QED BY ONLY <2>1, <3>1, SumMoved
  <2> QED BY <2>1, <2>2
<1> QED BY <1>1, <1>3 DEF SumIn

\* Every estimator is computed from the size and the sums of a group, the row's
\* own score, and the number of scores that are not 0.
LEMMA EstimatesMoved ==
  ASSUME NEW N \in Nat, NEW b, NEW c, NEW p, Rearranged(b, c, p, N), NEW i \in 1..N
  PROVE  Estimates(c, p[i]) = Estimates(b, i)
<1>1. /\ Size(c, p[i]) = Size(b, i) /\ Len(b) = N /\ Len(c) = N
  <2>1. N \in Nat /\ Rearranged(b, c, p, N) /\ i \in 1..N
    OBVIOUS
  <2> QED BY ONLY <2>1, GroupMoved
<1>2. /\ DOMAIN b = 1..N /\ DOMAIN c = 1..N
      /\ \A j \in 1..N : p[j] \in 1..N /\ c[p[j]] = b[j]
      /\ \A j \in 1..N : /\ b[j].score \in Int /\ LengthOf[b[j].row] \in Int
                         /\ c[j].score \in Int /\ LengthOf[c[j].row] \in Int
  BY ColumnIs DEF Rearranged, Shuffled, Permutes
<1> DEFINE wb == [j \in At(b) |-> LengthsIn(b)[j] * b[j].score]
           wc == [j \in At(c) |-> LengthsIn(c)[j] * c[j].score]
<1>3. /\ ScoreIn(b) \in [1..N -> Int] /\ ScoreIn(c) \in [1..N -> Int]
      /\ \A j \in 1..N : ScoreIn(c)[p[j]] = ScoreIn(b)[j]
  BY <1>2 DEF ScoreIn, At
<1>4. /\ LengthsIn(b) \in [1..N -> Int] /\ LengthsIn(c) \in [1..N -> Int]
      /\ \A j \in 1..N : LengthsIn(c)[p[j]] = LengthsIn(b)[j]
  BY <1>2 DEF LengthsIn, At
<1>5. /\ wb \in [1..N -> Int] /\ wc \in [1..N -> Int]
      /\ \A j \in 1..N : wc[p[j]] = wb[j]
  <2>1. \A j \in 1..N : /\ LengthsIn(b)[j] * b[j].score \in Int
                        /\ LengthsIn(c)[j] * c[j].score \in Int
    <3> SUFFICES ASSUME NEW j \in 1..N
                 PROVE  /\ LengthsIn(b)[j] * b[j].score \in Int
                        /\ LengthsIn(c)[j] * c[j].score \in Int
      OBVIOUS
    <3>1. LengthsIn(b)[j] \in Int /\ LengthsIn(c)[j] \in Int
      BY <1>4
    <3>2. b[j].score \in Int /\ c[j].score \in Int
      BY <1>2
    <3> QED BY ONLY <3>1, <3>2
  <2>2. \A j \in 1..N : LengthsIn(c)[p[j]] * c[p[j]].score = LengthsIn(b)[j] * b[j].score
    <3> SUFFICES ASSUME NEW j \in 1..N
                 PROVE  LengthsIn(c)[p[j]] * c[p[j]].score = LengthsIn(b)[j] * b[j].score
      OBVIOUS
    <3>1. LengthsIn(c)[p[j]] = LengthsIn(b)[j]
      BY <1>4
    <3>2. c[p[j]].score = b[j].score
      BY <1>2
    <3> QED BY ONLY <3>1, <3>2
  <2> QED BY <1>2, <2>1, <2>2 DEF At
<1> HIDE DEF wb, wc
<1>6. /\ Sum(c, p[i]) = Sum(b, i)
      /\ SumIn(c, LengthsIn(c), p[i]) = SumIn(b, LengthsIn(b), i)
      /\ SumIn(c, wc, p[i]) = SumIn(b, wb, i)
  <2>1. N \in Nat /\ Rearranged(b, c, p, N) /\ i \in 1..N
    OBVIOUS
  <2>2. SumIn(c, ScoreIn(c), p[i]) = SumIn(b, ScoreIn(b), i)
    <3>1. Carried(ScoreIn(b), ScoreIn(c), p, N)
      BY <1>3 DEF Carried
    <3> QED BY ONLY <2>1, <3>1, SumInMoved
  <2>3. SumIn(c, LengthsIn(c), p[i]) = SumIn(b, LengthsIn(b), i)
    <3>1. Carried(LengthsIn(b), LengthsIn(c), p, N)
      BY <1>4 DEF Carried
    <3> QED BY ONLY <2>1, <3>1, SumInMoved
  <2>4. SumIn(c, wc, p[i]) = SumIn(b, wb, i)
    <3>1. Carried(wb, wc, p, N)
      BY <1>5 DEF Carried
    <3> QED BY ONLY <2>1, <3>1, SumInMoved
  <2> QED BY <2>2, <2>3, <2>4 DEF Sum
<1>7. Cardinality({j \in At(c) : c[j].score # 0}) = Cardinality({j \in At(b) : b[j].score # 0})
  <2>1. PICK S \in SUBSET (1..N) : S = {j \in At(b) : b[j].score # 0}
    BY <1>2 DEF At
  <2>2. Permutes(p, N)
    BY DEF Rearranged
  <2>3. {j \in At(c) : c[j].score # 0} = Moved(p, S)
    <3>1. ASSUME NEW k \in 1..N, c[k].score # 0 PROVE k \in Moved(p, S)
      <4>1. PICK j \in 1..N : p[j] = k
        BY <2>2 DEF Permutes
      <4>2. j \in S
        BY <1>2, <2>1, <3>1, <4>1 DEF At
      <4> QED BY <4>1, <4>2 DEF Moved
    <3>2. ASSUME NEW j \in S PROVE p[j] \in 1..N /\ c[p[j]].score # 0
      BY <1>2, <2>1
    <3> QED BY <1>2, <3>1, <3>2 DEF At, Moved
  <2>4. Cardinality(Moved(p, S)) = Cardinality(S)
    BY <2>2, ImageSize
  <2> QED BY <2>1, <2>3, <2>4
<1>8. c[p[i]].score = b[i].score
  BY <1>2
<1>9. Score(c, p[i]) = Score(b, i) /\ Mean(c, p[i]) = Mean(b, i)
  BY <1>1, <1>6, <1>8 DEF Score, Mean
<1>10. GRPO(c, p[i]) = GRPO(b, i)
  BY <1>9 DEF GRPO
<1>11. GPG(c, p[i]) = GPG(b, i)
  BY <1>1, <1>7, <1>10 DEF GPG
<1>12. RLOO(c, p[i]) = RLOO(b, i)
  BY <1>1, <1>9 DEF RLOO
<1>13. RLOOVectorized(c, p[i]) = RLOOVectorized(b, i)
  BY <1>1, <1>6, <1>8 DEF RLOOVectorized
<1>14. OPO(c, p[i]) = OPO(b, i)
  BY <1>1, <1>6, <1>9 DEF OPO, wb, wc
<1> QED BY <1>10, <1>11, <1>12, <1>13, <1>14 DEF Estimates

LEMMA Topmost ==
  ASSUME NEW N \in Nat, NEW f, \A i \in 1..N : f[i] \in Int, NEW S \in SUBSET (1..N), S # {}
  PROVE  \E j \in S : \A k \in S : f[k] <= f[j]
<1> DEFINE E == {m \in Nat : \A R \in SUBSET (1..N) : Cardinality(R) = m + 1 =>
                               \E j \in R : \A k \in R : f[k] <= f[j]}
<1>1. ASSUME NEW R \in SUBSET (1..N) PROVE IsFiniteSet(R) /\ Cardinality(R) \in Nat
  <2>1. IsFiniteSet(1..N)
    BY FS_Interval
  <2>2. IsFiniteSet(R)
    BY <2>1, FS_Subset
  <2> QED BY <2>2, FS_CardinalityType
<1>2. 0 \in E
  <2> SUFFICES ASSUME NEW R \in SUBSET (1..N), Cardinality(R) = 1
               PROVE  \E j \in R : \A k \in R : f[k] <= f[j]
    OBVIOUS
  <2>1. PICK j : R = {j}
    BY <1>1, FS_Singleton
  <2> QED BY <2>1
<1>3. ASSUME NEW m \in Nat, m \in E PROVE m + 1 \in E
  <2> SUFFICES ASSUME NEW R \in SUBSET (1..N), Cardinality(R) = (m + 1) + 1
               PROVE  \E j \in R : \A k \in R : f[k] <= f[j]
    OBVIOUS
  <2>1. PICK x : x \in R
    <3>1. Cardinality(R) # 0
      OBVIOUS
    <3>2. R # {}
      BY <3>1, FS_EmptySet
    <3> QED BY <3>2
  <2>2. PICK Q \in SUBSET (1..N) : Q = R \ {x}
    OBVIOUS
  <2>3. Cardinality(Q) = m + 1
    <3>1. Cardinality(R \ {x}) = Cardinality(R) - 1
      BY <1>1, <2>1, FS_RemoveElement
    <3> QED BY <2>2, <3>1
  <2>4. PICK j \in Q : \A k \in Q : f[k] <= f[j]
    BY <1>3, <2>3
  <2>5. \A k \in R : k = x \/ k \in Q
    BY <2>2
  <2>6. f[x] \in Int /\ f[j] \in Int /\ x \in R /\ j \in R
    BY <2>1, <2>2
  <2>7. \A k \in Q : f[k] \in Int
    OBVIOUS
  <2>8. CASE f[x] <= f[j]
    BY <2>4, <2>5, <2>6, <2>8
  <2>9. CASE f[j] <= f[x]
    <3>1. \A k \in Q : f[k] <= f[x]
      BY <2>4, <2>6, <2>7, <2>9
    <3>2. \A k \in R : f[k] <= f[x]
      BY <2>5, <2>6, <3>1
    <3> QED BY <2>6, <3>2
  <2> QED BY <2>6, <2>8, <2>9
<1> HIDE DEF E
<1>4. \A m \in Nat : m \in E
  BY <1>2, <1>3, Induct
<1>5. Cardinality(S) # 0
  BY <1>1, FS_EmptySet
<1>6. Cardinality(S) - 1 \in Nat /\ (Cardinality(S) - 1) + 1 = Cardinality(S)
  BY <1>1, <1>5
<1>7. Cardinality(S) - 1 \in E
  BY <1>4, <1>6
<1> QED BY <1>6, <1>7 DEF E

\* The advantage of pass@k: second has the highest score of the others.
Second(b, i, x, s) ==
  /\ s \in Group(b, i) \ {x} /\ \A k \in Group(b, i) \ {x} : b[k].score <= b[s].score
  /\ PassK(b, i, x) = IF i = x THEN <<b[i].score - b[s].score, 1>> ELSE <<0, 1>>

LEMMA PassKIs ==
  ASSUME NEW N \in Nat, NEW b, Shuffled(b, N), NEW i \in 1..N, Size(b, i) > 1, NEW x \in Best(b, i)
  PROVE  \E s : Second(b, i, x, s)
<1>1. DOMAIN b = 1..N
  BY ColumnIs DEF Shuffled
<1>2. Group(b, i) \in SUBSET (1..N) /\ x \in Group(b, i)
  BY <1>1 DEF Group, At, Best
<1> DEFINE others == Group(b, i) \ {x}
<1>3. others # {}
  <2> SUFFICES ASSUME others = {} PROVE FALSE
    OBVIOUS
  <2>1. Group(b, i) = {x}
    BY <1>2
  <2>2. Cardinality({x}) = 1
    BY FS_Singleton
  <2> QED BY <2>1, <2>2 DEF Size
<1>4. \A k \in 1..N : b[k].score \in Int
  BY DEF Shuffled
<1>5. \E j \in others : \A k \in others : b[k].score <= b[j].score
  <2> DEFINE f == [k \in 1..N |-> b[k].score]
  <2>1. \A k \in 1..N : f[k] \in Int /\ f[k] = b[k].score
    BY <1>4
  <2>2. others \in SUBSET (1..N)
    BY <1>2
  <2> HIDE DEF f, others
  <2>3. PICK j \in others : \A k \in others : f[k] <= f[j]
    BY <1>3, <2>1, <2>2, Topmost
  <2>4. \A k \in others : b[k].score <= b[j].score
    BY <2>1, <2>2, <2>3
  <2> QED BY <2>4
<1> DEFINE second == CHOOSE j \in others : \A k \in others : b[k].score <= b[j].score
<1>6. second \in others /\ \A k \in others : b[k].score <= b[second].score
  BY <1>5
<1>7. PassK(b, i, x) = IF i = x THEN <<b[i].score - b[second].score, 1>> ELSE <<0, 1>>
  BY DEF PassK
<1> HIDE DEF second
<1>8. Second(b, i, x, second)
  BY <1>6, <1>7 DEF Second
<1> QED BY <1>8

LEMMA PassKMoved ==
  ASSUME NEW N \in Nat, NEW b, NEW c, NEW p, Rearranged(b, c, p, N), NEW i \in 1..N,
         Size(b, i) > 1, NEW x \in Best(b, i), NEW z \in Best(c, p[i])
  PROVE  SameNumber(PassK(b, i, x), PassK(c, p[i], z))
<1>1. /\ Group(b, i) \in SUBSET (1..N) /\ i \in Group(b, i) /\ Size(c, p[i]) = Size(b, i)
      /\ Group(c, p[i]) = Moved(p, Group(b, i))
  <2>1. N \in Nat /\ Rearranged(b, c, p, N) /\ i \in 1..N
    OBVIOUS
  <2> QED BY ONLY <2>1, GroupMoved
<1>2. PICK G \in SUBSET (1..N) : G = Group(b, i) /\ i \in G
  BY <1>1
<1>3. /\ \A j \in 1..N : p[j] \in 1..N /\ c[p[j]] = b[j] /\ b[j].score \in Int
      /\ \A j, k \in 1..N : p[j] = p[k] => j = k
  BY DEF Rearranged, Permutes, Shuffled
<1>4. PICK s : Second(b, i, x, s)
  BY PassKIs DEF Rearranged
<1>5. p[i] \in 1..N /\ Size(c, p[i]) > 1 /\ Shuffled(c, N)
  BY <1>1, <1>3 DEF Rearranged
<1>6. PICK r : Second(c, p[i], z, r)
  BY <1>5, PassKIs
<1>7. PICK y \in G : z = p[y]
  BY <1>1, <1>2 DEF Best, Moved
<1>8. PICK q \in G : r = p[q]
  BY <1>1, <1>2, <1>6 DEF Second, Moved
<1>9. x \in G /\ \A k \in G : b[k].score <= b[x].score
  BY <1>2 DEF Best
<1>10. \A k \in G : b[k].score <= b[y].score
  <2>1. \A k \in G : p[k] \in Group(c, p[i])
    BY <1>1, <1>2 DEF Moved
  <2>2. \A k \in G : c[p[k]].score <= c[p[y]].score
    BY <1>7, <2>1 DEF Best
  <2> QED BY <1>3, <2>2
<1>11. s \in G \ {x} /\ \A k \in G \ {x} : b[k].score <= b[s].score
  BY <1>2, <1>4 DEF Second
<1>12. q \in G \ {y} /\ \A k \in G \ {y} : b[k].score <= b[q].score
  <2>1. q # y
    BY <1>6, <1>7, <1>8 DEF Second
  <2>2. \A k \in G \ {y} : p[k] \in Group(c, p[i]) \ {z}
    BY <1>1, <1>2, <1>3, <1>7 DEF Moved
  <2>3. \A k \in G \ {y} : c[p[k]].score <= c[p[q]].score
    BY <1>6, <1>8, <2>2 DEF Second
  <2> QED BY <1>3, <2>1, <2>3
<1>13. PassK(b, i, x) = IF i = x THEN <<b[i].score - b[s].score, 1>> ELSE <<0, 1>>
  BY <1>4 DEF Second
<1>14. PassK(c, p[i], z) = IF i = y THEN <<b[i].score - b[q].score, 1>> ELSE <<0, 1>>
  <2>1. p[i] = z <=> i = y
    BY <1>2, <1>3, <1>7
  <2>2. c[p[i]] = b[i] /\ c[r] = b[q]
    BY <1>2, <1>3, <1>8
  <2>3. PassK(c, p[i], z) = IF p[i] = z THEN <<c[p[i]].score - c[r].score, 1>> ELSE <<0, 1>>
    BY <1>6 DEF Second
  <2> QED BY <2>1, <2>2, <2>3
<1>15. PICK S \in Int, Q \in Int, X \in Int, Y \in Int, I \in Int :
          S = b[s].score /\ Q = b[q].score /\ X = b[x].score /\ Y = b[y].score /\ I = b[i].score
  BY <1>2, <1>3, <1>7, <1>8, <1>9, <1>11
<1>16. CASE x = y
  <2>1. S = Q
    <3>1. q \in G \ {x} /\ s \in G \ {y}
      BY <1>11, <1>12, <1>16
    <3>2. Q <= S /\ S <= Q
      BY <1>11, <1>12, <1>15, <3>1
    <3> QED BY <3>2
  <2>2. PassK(b, i, x) = PassK(c, p[i], z)
    BY <1>13, <1>14, <1>15, <1>16, <2>1
  <2> QED BY <2>2, <1>13, <1>15 DEF SameNumber
<1>17. CASE x # y
  <2>1. y \in G \ {x} /\ x \in G \ {y}
    BY <1>9, <1>17
  <2>2. Y <= S /\ S <= Y /\ X <= Q /\ Q <= X /\ X <= Y /\ Y <= X
    <3>1. Y <= S /\ X <= Q
      BY <1>11, <1>12, <1>15, <2>1
    <3>2. S <= Y /\ Q <= X /\ X <= Y /\ Y <= X
      BY <1>9, <1>10, <1>11, <1>12, <1>15
    <3> QED BY <3>1, <3>2
  <2>3. i = x => I = X
    BY <1>15
  <2>4. i = y => I = Y
    BY <1>15
  <2>5. PassK(b, i, x) = <<0, 1>>
    <3>1. i = x => I - S = 0
      BY <2>2, <2>3
    <3> QED BY <1>13, <1>15, <3>1
  <2>6. PassK(c, p[i], z) = <<0, 1>>
    <3>1. i = y => I - Q = 0
      BY <2>2, <2>4
    <3> QED BY <1>14, <1>15, <3>1
  <2> QED BY <2>5, <2>6 DEF SameNumber
<1> QED BY <1>16, <1>17

\* The batch is the rows of a group in some order.
BatchShuffled == \E N \in Nat : Shuffled(data, N)

LEMMA BatchStarts == AdvantagesInit => BatchShuffled
<1> SUFFICES ASSUME AdvantagesInit PROVE BatchShuffled
  OBVIOUS
<1>1. PICK g \in Groups : \E s \in [1..Len(g) -> Scores] :
         data = [i \in 1..Len(g) |-> [row |-> i, uid |-> g[i], score |-> s[i]]]
  BY DEF AdvantagesInit
<1>2. PICK s \in [1..Len(g) -> Scores] :
         data = [i \in 1..Len(g) |-> [row |-> i, uid |-> g[i], score |-> s[i]]]
  BY <1>1
<1>3. g \in Seq(Nat) /\ Scores \subseteq Int /\ \A i \in DOMAIN g : LengthOf[i] \in Nat \ {0}
  BY AdvantagesAssumption
<1>4. Len(g) \in Nat /\ DOMAIN g = 1..Len(g)
  BY <1>3, LenProperties
<1>5. PICK N \in Nat : N = Len(g)
  BY <1>4
<1>6. /\ data = [i \in 1..N |-> data[i]]
      /\ \A i \in 1..N : data[i].row = i /\ data[i].score = s[i]
  BY <1>2, <1>5
<1>7. \A i \in 1..N : s[i] \in Int /\ LengthOf[i] \in Int
  <2>1. s \in [1..N -> Scores]
    BY <1>5
  <2>2. \A i \in 1..N : s[i] \in Int
    BY <1>3, <2>1
  <2>3. \A i \in 1..N : LengthOf[i] \in Nat
    BY <1>3, <1>4, <1>5
  <2> QED BY <2>2, <2>3
<1>8. Shuffled(data, N)
  BY <1>6, <1>7 DEF Shuffled, Column
<1> QED BY <1>8 DEF BatchShuffled

LEMMA BatchSwaps ==
  ASSUME BatchShuffled, NEW i \in DOMAIN data, NEW j \in DOMAIN data, Swap(i, j)
  PROVE  BatchShuffled'
<1>1. PICK N \in Nat : Shuffled(data, N)
  BY DEF BatchShuffled
<1>2. DOMAIN data = 1..N /\ data = [k \in 1..N |-> data[k]]
  BY <1>1, ColumnIs DEF Shuffled, Column
<1> DEFINE at(k) == IF k = i THEN j ELSE IF k = j THEN i ELSE k
<1>3. data' = [k \in 1..N |-> data[at(k)]]
  <2>1. data' = [data EXCEPT ![i] = data[j], ![j] = data[i]]
    BY DEF Swap
  <2>2. i \in 1..N /\ j \in 1..N
    BY <1>2
  <2>3. DOMAIN data' = 1..N /\ data' = [k \in 1..N |-> data'[k]]
    BY <1>2, <2>1
  <2>4. \A k \in 1..N : data'[k] = data[at(k)]
    BY <1>2, <2>1, <2>2
  <2> QED BY <2>3, <2>4
<1>4. \A k \in 1..N : at(k) \in 1..N
  BY <1>2
<1>5. \A k, m \in 1..N : at(k) = at(m) => k = m
  BY <1>2
<1> HIDE DEF at
<1>6. \A k \in 1..N : data'[k] = data[at(k)]
  BY <1>3
<1>7. Column(data', N)
  BY <1>3 DEF Column
<1>8. Shuffled(data', N)
  BY <1>1, <1>4, <1>5, <1>6, <1>7 DEF Shuffled
<1> QED BY <1>8 DEF BatchShuffled

LEMMA BatchStays == AdvantagesSpec => []BatchShuffled
<1>1. AdvantagesInit => BatchShuffled
  BY BatchStarts
<1>2. BatchShuffled /\ [AdvantagesNext]_advantages => BatchShuffled'
  <2> SUFFICES ASSUME BatchShuffled, [AdvantagesNext]_advantages PROVE BatchShuffled'
    OBVIOUS
  <2>1. ASSUME NEW i \in DOMAIN data, NEW j \in DOMAIN data, Swap(i, j) PROVE BatchShuffled'
    BY <2>1, BatchSwaps
  <2>2. CASE Sweep
    BY <2>2 DEF Sweep, BatchShuffled, Shuffled
  <2>3. CASE UNCHANGED advantages
    BY <2>3 DEF advantages, BatchShuffled, Shuffled
  <2> QED BY <2>1, <2>2, <2>3 DEF AdvantagesNext
<1> QED BY <1>1, <1>2, PTL DEF AdvantagesSpec

\* Every row has the advantage it would have in the original order of the
\* batch, with every estimator over groups (core_algos.py; the comment of
\* _balance_batch in ray_trainer.py says that reordering does not matter).
THEOREM OrderDoesNotMatter == AdvantagesSpec => []OrderFree
<1>1. ASSUME BatchShuffled PROVE OrderFree
  <2>1. PICK N \in Nat : Shuffled(data, N)
    BY <1>1 DEF BatchShuffled
  <2> DEFINE p == [i \in 1..N |-> data[i].row]
  <2>2. Rearranged(data, Original, p, N)
    BY <2>1, OriginalIs
  <2>3. DOMAIN data = 1..N
    BY <2>1, ColumnIs DEF Shuffled
  <2>4. \A i \in 1..N : data[i].row = p[i]
    OBVIOUS
  <2> HIDE DEF p
  <2>5. ASSUME NEW i \in 1..N, NEW e \in 1..5
        PROVE  SameNumber(Estimates(data, i)[e], Estimates(Original, p[i])[e])
    <3>1. Estimates(Original, p[i]) = Estimates(data, i)
      BY <2>2, EstimatesMoved
    <3>2. PICK x, y : x = Estimates(data, i) /\ y = x[e]
      OBVIOUS
    <3>3. SameNumber(y, y)
      BY DEF SameNumber
    <3> QED BY <3>1, <3>2, <3>3
  <2>6. ASSUME NEW i \in 1..N, Size(data, i) > 1,
               NEW b \in Best(data, i), NEW z \in Best(Original, p[i])
        PROVE  SameNumber(PassK(data, i, b), PassK(Original, p[i], z))
    BY <2>2, <2>6, PassKMoved
  <2> QED BY <2>3, <2>4, <2>5, <2>6 DEF OrderFree
<1> QED BY <1>1, BatchStays, PTL

-----------------------------------------------------------------------------
(* Token advantages.                                                       *)

TokensTyped ==
  /\ gen_len \in Nat /\ Gamma \in Int /\ Lambda \in Int
  /\ \A j \in 1..gen_len : /\ tokens[j].reward \in Int /\ tokens[j].value \in Int
                           /\ tokens[j].mask \in {0, 1}

LEMMA NextOwnIs ==
  ASSUME NEW i \in Nat, After(i) # {}
  PROVE  /\ NextOwn(i) \in After(i) /\ \A k \in After(i) : NextOwn(i) <= k
         /\ NextOwn(i) \in 1..gen_len /\ NextOwn(i) > i
<1>1. After(i) \subseteq Nat /\ \A k \in After(i) : k \in 1..gen_len /\ k > i
  BY DEF After, Own
<1>2. \E j \in After(i) : \A k \in After(i) : j <= k
  BY <1>1, LeastOf
<1>3. NextOwn(i) \in After(i) /\ \A k \in After(i) : NextOwn(i) <= k
  BY <1>2 DEF NextOwn
<1> QED BY <1>1, <1>3

\* The advantage of token j from those of the tokens after it.
Level(f, j) ==
  tokens[j].reward - tokens[j].value
  + IF After(j) = {} THEN 0
    ELSE Gamma * tokens[NextOwn(j)].value + Gamma * Lambda * f[NextOwn(j)]

LEMMA LevelType ==
  ASSUME TokensTyped, NEW f \in [1..gen_len -> Int], NEW j \in 1..gen_len
  PROVE  Level(f, j) \in Int
<1>1. tokens[j].reward \in Int /\ tokens[j].value \in Int
  BY DEF TokensTyped
<1>2. CASE After(j) = {}
  BY <1>1, <1>2 DEF Level
<1>3. CASE After(j) # {}
  <2>1. NextOwn(j) \in 1..gen_len
    BY <1>3, NextOwnIs
  <2>2. PICK v \in Int, a \in Int, b \in Int, c \in Int :
          v = tokens[NextOwn(j)].value /\ a = f[NextOwn(j)] /\ b = Gamma /\ c = Lambda
    BY <2>1 DEF TokensTyped
  <2>3. b * v + b * c * a \in Int
    OBVIOUS
  <2>4. Level(f, j) = tokens[j].reward - tokens[j].value + (b * v + b * c * a)
    BY <1>3, <2>2 DEF Level
  <2> QED BY <1>1, <2>3, <2>4
<1> QED BY <1>2, <1>3

\* Only later tokens count.
LEMMA LevelSame ==
  ASSUME NEW f, NEW g, NEW j \in 1..gen_len, \A k \in 1..gen_len : k > j => f[k] = g[k]
  PROVE  Level(f, j) = Level(g, j)
<1>1. CASE After(j) = {}
  BY <1>1 DEF Level
<1>2. CASE After(j) # {}
  <2>1. NextOwn(j) \in 1..gen_len /\ NextOwn(j) > j
    BY <1>2, NextOwnIs
  <2>2. f[NextOwn(j)] = g[NextOwn(j)]
    BY <2>1
  <2> QED BY <2>2 DEF Level
<1> QED BY <1>1, <1>2

LEMMA LevelsExist ==
  ASSUME TokensTyped
  PROVE  \E f \in [1..gen_len -> Int] : \A j \in 1..gen_len : f[j] = Level(f, j)
<1> DEFINE E == {m \in Nat : m <= gen_len => \E f \in [1..gen_len -> Int] :
                   \A j \in 1..gen_len : j > gen_len - m => f[j] = Level(f, j)}
<1>0. gen_len \in Nat
  BY DEF TokensTyped
<1>1. 0 \in E
  <2>1. [j \in 1..gen_len |-> 0] \in [1..gen_len -> Int]
    OBVIOUS
  <2>2. \A j \in 1..gen_len : ~ (j > gen_len - 0)
    BY <1>0
  <2> QED BY <2>1, <2>2
<1>2. ASSUME NEW m \in Nat, m \in E PROVE m + 1 \in E
  <2> SUFFICES ASSUME m + 1 <= gen_len
               PROVE  \E f \in [1..gen_len -> Int] :
                        \A j \in 1..gen_len : j > gen_len - (m + 1) => f[j] = Level(f, j)
    OBVIOUS
  <2>1. PICK f \in [1..gen_len -> Int] : \A j \in 1..gen_len : j > gen_len - m => f[j] = Level(f, j)
    BY <1>0, <1>2
  <2>2. PICK i \in 1..gen_len : i = gen_len - m
    BY <1>0
  <2>3. PICK l \in Int : l = Level(f, i)
    BY LevelType
  <2>4. PICK h : h = [f EXCEPT ![i] = l]
    OBVIOUS
  <2>5. h \in [1..gen_len -> Int]
    BY <2>4
  <2>6. h[i] = l /\ \A k \in 1..gen_len : k # i => h[k] = f[k]
    BY <2>4
  <2>7. ASSUME NEW j \in 1..gen_len, j > gen_len - (m + 1) PROVE h[j] = Level(h, j)
    <3>1. j = i \/ j > i
      BY <1>0, <2>2, <2>7
    <3>2. \A k \in 1..gen_len : k > j => h[k] = f[k]
      BY <2>6, <3>1
    <3>3. Level(h, j) = Level(f, j)
      BY <3>2, LevelSame
    <3>4. j > i => h[j] = f[j] /\ f[j] = Level(f, j)
      BY <2>1, <2>2, <2>6
    <3> QED BY <2>3, <2>6, <3>1, <3>3, <3>4
  <2> QED BY <2>5, <2>7
<1> HIDE DEF E
<1>3. gen_len \in E
  BY <1>0, <1>1, <1>2, Induct
<1>4. PICK f \in [1..gen_len -> Int] : \A j \in 1..gen_len : j > gen_len - gen_len => f[j] = Level(f, j)
  BY <1>0, <1>3 DEF E
<1>5. \A j \in 1..gen_len : j > gen_len - gen_len
  BY <1>0
<1> QED BY <1>4, <1>5

LEMMA TextbookIs ==
  ASSUME TokensTyped
  PROVE  \E g \in [1..gen_len -> Int] :
           \A j \in 1..gen_len : g[j] = Level(g, j) /\ Textbook(j) = g[j]
<1> DEFINE Is(f) ==
             f = [j \in 1..gen_len |->
                    tokens[j].reward - tokens[j].value
                    + IF After(j) = {} THEN 0
                      ELSE Gamma * tokens[NextOwn(j)].value + Gamma * Lambda * f[NextOwn(j)]]
           F == CHOOSE f : Is(f)
<1>1. \A j : Textbook(j) = F[j]
  BY Zenon DEF Textbook
<1>2. PICK g \in [1..gen_len -> Int] : \A j \in 1..gen_len : g[j] = Level(g, j)
  BY LevelsExist
<1>3. Is(g)
  <2>1. g = [j \in 1..gen_len |-> g[j]]
    BY <1>2
  <2>2. [j \in 1..gen_len |-> g[j]] = [j \in 1..gen_len |-> Level(g, j)]
    BY <1>2
  <2>3. g = [j \in 1..gen_len |-> Level(g, j)]
    BY <2>1, <2>2
  <2> QED BY <2>3, Zenon DEF Level
<1>4. Is(F)
  BY <1>3, Zenon
<1> DEFINE f == F
<1>5. f = [j \in 1..gen_len |-> Level(f, j)]
  BY <1>4, Zenon DEF Level
<1> HIDE DEF F, f, Is
<1>6. \A j \in 1..gen_len : f[j] = Level(f, j)
  BY <1>5
<1> DEFINE E == {m \in Nat : m <= gen_len => \A j \in 1..gen_len : j > gen_len - m => f[j] = g[j]}
<1>7. gen_len \in Nat
  BY DEF TokensTyped
<1>8. 0 \in E
  BY <1>7
<1>9. ASSUME NEW m \in Nat, m \in E PROVE m + 1 \in E
  <2> SUFFICES ASSUME m + 1 <= gen_len, NEW j \in 1..gen_len, j > gen_len - (m + 1)
               PROVE  f[j] = g[j]
    OBVIOUS
  <2>1. \A k \in 1..gen_len : k > gen_len - m => f[k] = g[k]
    BY <1>7, <1>9
  <2>2. \A k \in 1..gen_len : k > j => f[k] = g[k]
    BY <1>7, <2>1
  <2>3. Level(f, j) = Level(g, j)
    BY <2>2, LevelSame
  <2> QED BY <1>2, <1>6, <2>3
<1> HIDE DEF E
<1>10. gen_len \in E
  BY <1>7, <1>8, <1>9, Induct
<1>11. \A j \in 1..gen_len : j > gen_len - gen_len => f[j] = g[j]
  BY <1>7, <1>10 DEF E
<1>12. \A j \in 1..gen_len : f[j] = g[j]
  BY <1>7, <1>11
<1>13. \A j \in 1..gen_len : Textbook(j) = g[j]
  BY <1>1, <1>12 DEF f
<1> QED BY <1>2, <1>13

LEMMA PowerIs ==
  ASSUME TokensTyped
  PROVE  /\ Power[0] = 1
         /\ \A n \in 0..gen_len : Power[n] \in Int
         /\ \A n \in 1..gen_len : Power[n] = Gamma * Power[n - 1]
<1>0. gen_len \in Nat /\ Gamma \in Int
  BY DEF TokensTyped
<1> DEFINE Is(f) == f = [n \in 0..gen_len |-> IF n = 0 THEN 1 ELSE Gamma * f[n - 1]]
           Upto(m, g) == /\ g \in [0..gen_len -> Int] /\ g[0] = 1
                         /\ \A n \in 1..gen_len : n <= m => g[n] = Gamma * g[n - 1]
           E == {m \in Nat : m <= gen_len => \E g : Upto(m, g)}
<1>1. 0 \in E
  <2>1. Upto(0, [n \in 0..gen_len |-> 1])
    BY <1>0
  <2> QED BY <2>1
<1>2. ASSUME NEW m \in Nat, m \in E PROVE m + 1 \in E
  <2> SUFFICES ASSUME m + 1 <= gen_len PROVE \E g : Upto(m + 1, g)
    OBVIOUS
  <2>1. PICK g : Upto(m, g)
    BY <1>0, <1>2
  <2>2. PICK i \in 1..gen_len : i = m + 1
    BY <1>0
  <2>3. PICK l \in Int : l = Gamma * g[m]
    BY <1>0, <2>1, <2>2
  <2>4. PICK h : h = [g EXCEPT ![i] = l]
    OBVIOUS
  <2>5. h \in [0..gen_len -> Int] /\ h[i] = l /\ \A k \in 0..gen_len : k # i => h[k] = g[k]
    BY <2>1, <2>4
  <2>6. ASSUME NEW n \in 1..gen_len, n <= m + 1 PROVE h[n] = Gamma * h[n - 1]
    <3>1. n - 1 \in 0..gen_len /\ n - 1 # i /\ n \in 0..gen_len
      BY <1>0, <2>2, <2>6
    <3>2. h[n - 1] = g[n - 1]
      BY <2>5, <3>1
    <3>3. n = i => n - 1 = m
      BY <2>2
    <3>4. n # i => n <= m
      BY <2>2, <2>6
    <3> QED BY <2>1, <2>3, <2>5, <3>1, <3>2, <3>3, <3>4
  <2>7. h[0] = 1
    <3>1. 0 \in 0..gen_len /\ 0 # i
      BY <1>0, <2>2
    <3> QED BY <2>1, <2>5, <3>1
  <2>8. Upto(m + 1, h)
    BY <2>5, <2>6, <2>7
  <2> QED BY <2>8
<1> HIDE DEF E
<1>3. gen_len \in E
  BY <1>0, <1>1, <1>2, Induct
<1>4. PICK g : Upto(gen_len, g)
  BY <1>0, <1>3 DEF E
<1>5. /\ g \in [0..gen_len -> Int] /\ g[0] = 1
      /\ \A n \in 1..gen_len : g[n] = Gamma * g[n - 1]
  BY <1>0, <1>4
<1>6. Is(g)
  <2>1. g = [n \in 0..gen_len |-> g[n]]
    BY <1>5
  <2>2. \A n \in 0..gen_len : g[n] = IF n = 0 THEN 1 ELSE Gamma * g[n - 1]
    BY <1>0, <1>5
  <2>3. [n \in 0..gen_len |-> g[n]] = [n \in 0..gen_len |-> IF n = 0 THEN 1 ELSE Gamma * g[n - 1]]
    BY <2>2
  <2> QED BY <2>1, <2>3, Zenon
<1>7. Is(Power)
  BY <1>6, Zenon DEF Power
<1>8. /\ Power[0] = 1
      /\ \A n \in 1..gen_len : Power[n] = Gamma * Power[n - 1]
  <2>1. \A n \in 0..gen_len : Power[n] = IF n = 0 THEN 1 ELSE Gamma * Power[n - 1]
    BY <1>7
  <2>2. 0 \in 0..gen_len /\ \A n \in 1..gen_len : n \in 0..gen_len /\ n # 0
    BY <1>0
  <2> QED BY <2>1, <2>2
<1> DEFINE D == {n \in Nat : n <= gen_len => Power[n] \in Int}
<1>9. 0 \in D
  BY <1>8
<1>10. ASSUME NEW n \in Nat, n \in D PROVE n + 1 \in D
  <2> SUFFICES ASSUME n + 1 <= gen_len PROVE Power[n + 1] \in Int
    OBVIOUS
  <2>1. n + 1 \in 1..gen_len /\ (n + 1) - 1 = n /\ Power[n] \in Int
    BY <1>0, <1>10
  <2>2. Power[n + 1] = Gamma * Power[n]
    BY <1>8, <2>1
  <2> QED BY <1>0, <2>1, <2>2
<1> HIDE DEF D
<1>11. \A n \in Nat : n \in D
  BY <1>9, <1>10, Induct
<1>12. \A n \in 0..gen_len : Power[n] \in Int
  BY <1>0, <1>11 DEF D
<1> QED BY <1>8, <1>12

\* The last token of the turn that token i is in, where the sweep of REINFORCE++ starts
\* anew, and the return of this turn from token i on.
Stops(i) == {j \in (i + 1)..gen_len : tokens[j].mask = 0}
TurnEnd(i) == IF Stops(i) = {} THEN gen_len ELSE (CHOOSE j \in Stops(i) : \A k \in Stops(i) : j <= k) - 1
TurnReturn(i) == SumOver(Discounted(i), gen_len, i..TurnEnd(i))
TurnEnds(i) == i = gen_len \/ tokens[i + 1].mask = 0

LEMMA TurnEndIs ==
  ASSUME TokensTyped, NEW i \in 1..gen_len
  PROVE  /\ TurnEnds(i) => TurnEnd(i) = i
         /\ ~ TurnEnds(i) => TurnEnd(i) = TurnEnd(i + 1) /\ i + 1 \in 1..gen_len
         /\ TurnEnd(i) \in i..gen_len
         /\ \A j \in (i + 1)..gen_len :
              j <= TurnEnd(i) <=> \A k \in (i + 1)..j : tokens[k].mask # 0
<1>0. gen_len \in Nat
  BY DEF TokensTyped
<1>1. ASSUME NEW k \in Nat, Stops(k) # {}
      PROVE  \E m \in Stops(k) : (\A n \in Stops(k) : m <= n) /\ TurnEnd(k) = m - 1
  <2>1. Stops(k) \subseteq Nat
    BY <1>0 DEF Stops
  <2>2. \E m \in Stops(k) : \A n \in Stops(k) : m <= n
    BY <1>1, <2>1, LeastOf
  <2> DEFINE m == CHOOSE j \in Stops(k) : \A n \in Stops(k) : j <= n
  <2>3. m \in Stops(k) /\ \A n \in Stops(k) : m <= n
    BY <2>2
  <2>4. TurnEnd(k) = m - 1
    BY <1>1 DEF TurnEnd
  <2> HIDE DEF m
  <2> QED BY <2>3, <2>4
<1>2. ASSUME TurnEnds(i) PROVE TurnEnd(i) = i
  <2>1. CASE i = gen_len
    <3>1. Stops(i) = {}
      BY <1>0, <2>1 DEF Stops
    <3> QED BY <2>1, <3>1 DEF TurnEnd
  <2>2. CASE i # gen_len
    <3>1. i + 1 \in Stops(i) /\ \A n \in Stops(i) : i + 1 <= n /\ n \in Nat
      BY <1>0, <1>2, <2>2 DEF Stops, TurnEnds
    <3>2. PICK m \in Stops(i) : (\A n \in Stops(i) : m <= n) /\ TurnEnd(i) = m - 1
      BY <1>1, <3>1
    <3>3. m = i + 1
      BY <3>1, <3>2
    <3> QED BY <3>2, <3>3
  <2> QED BY <2>1, <2>2
<1>3. ASSUME ~ TurnEnds(i) PROVE TurnEnd(i) = TurnEnd(i + 1) /\ i + 1 \in 1..gen_len
  <2>1. i # gen_len /\ tokens[i + 1].mask # 0
    BY <1>3 DEF TurnEnds
  <2>2. \A j \in (i + 1)..gen_len : j = i + 1 \/ j \in ((i + 1) + 1)..gen_len
    BY <1>0
  <2>3. \A j \in ((i + 1) + 1)..gen_len : j \in (i + 1)..gen_len
    BY <1>0
  <2>4. Stops(i) = Stops(i + 1)
    BY <2>1, <2>2, <2>3 DEF Stops
  <2>5. TurnEnd(i) = TurnEnd(i + 1)
    BY <2>4 DEF TurnEnd
  <2> QED BY <1>0, <2>1, <2>5
<1>4. TurnEnd(i) \in i..gen_len
  <2>1. CASE Stops(i) = {}
    BY <1>0, <2>1 DEF TurnEnd
  <2>2. CASE Stops(i) # {}
    <3>1. PICK m \in Stops(i) : TurnEnd(i) = m - 1
      BY <1>1, <2>2
    <3>2. m \in (i + 1)..gen_len
      BY <3>1 DEF Stops
    <3> QED BY <1>0, <3>1, <3>2
  <2> QED BY <2>1, <2>2
<1>5. ASSUME NEW j \in (i + 1)..gen_len
      PROVE  j <= TurnEnd(i) <=> \A k \in (i + 1)..j : tokens[k].mask # 0
  <2>1. CASE Stops(i) = {}
    <3>1. \A k \in (i + 1)..j : tokens[k].mask # 0
      BY <1>0, <2>1 DEF Stops
    <3>2. TurnEnd(i) = gen_len
      BY <2>1 DEF TurnEnd
    <3> QED BY <3>1, <3>2
  <2>2. CASE Stops(i) # {}
    <3>1. PICK m \in Stops(i) : (\A n \in Stops(i) : m <= n) /\ TurnEnd(i) = m - 1
      BY <1>1, <2>2
    <3>2. m \in (i + 1)..gen_len /\ tokens[m].mask = 0
      BY <3>1 DEF Stops
    <3>3. ASSUME j <= m - 1, NEW k \in (i + 1)..j PROVE tokens[k].mask # 0
      <4>1. k \in (i + 1)..gen_len /\ ~ (m <= k)
        BY <1>0, <3>2, <3>3
      <4> QED BY <3>1, <4>1 DEF Stops
    <3>4. ASSUME ~ (j <= m - 1) PROVE m \in (i + 1)..j
      BY <3>2, <3>4
    <3> QED BY <3>1, <3>2, <3>3, <3>4
  <2> QED BY <2>1, <2>2
<1> QED BY <1>2, <1>3, <1>4, <1>5

\* In a response of one turn, the turn has all own tokens that are left.
LEMMA OneTurnIs ==
  ASSUME TokensTyped, OneTurn, NEW i \in Own
  PROVE  i..TurnEnd(i) = After(i) \cup {i}
<1>0. gen_len \in Nat /\ i \in 1..gen_len /\ \A j \in 1..gen_len : j \in Own <=> tokens[j].mask = 1
  BY DEF TokensTyped, Own
<1>1. \A j \in 1..gen_len : tokens[j].mask \in 0..1
  BY DEF TokensTyped
<1>2. /\ TurnEnd(i) \in i..gen_len
      /\ \A j \in (i + 1)..gen_len :
           j <= TurnEnd(i) <=> \A k \in (i + 1)..j : tokens[k].mask # 0
  BY <1>0, TurnEndIs
<1>3. ASSUME NEW j \in (i + 1)..gen_len PROVE j <= TurnEnd(i) <=> j \in Own
  <2>1. CASE j \in Own
    <3>1. ASSUME NEW k \in (i + 1)..j PROVE tokens[k].mask # 0
      <4>1. k \in 1..j
        BY <1>0
      <4>2. k \in Own
        BY <2>1, <4>1 DEF OneTurn
      <4> QED BY <1>0, <4>1, <4>2
    <3> QED BY <1>2, <2>1, <3>1
  <2>2. CASE j \notin Own
    <3>1. tokens[j].mask = 0 /\ j \in (i + 1)..j
      BY <1>0, <1>1, <2>2
    <3> QED BY <1>2, <2>2, <3>1
  <2> QED BY <2>1, <2>2
<1>4. ASSUME NEW j PROVE j \in i..TurnEnd(i) <=> j \in After(i) \cup {i}
  <2>1. j \in i..TurnEnd(i) <=> j = i \/ (j \in (i + 1)..gen_len /\ j <= TurnEnd(i))
    BY <1>0, <1>2
  <2>2. j \in After(i) <=> j \in (i + 1)..gen_len /\ j \in Own
    BY <1>0 DEF After, Own
  <2> QED BY <1>3, <2>1, <2>2
<1> QED BY <1>4

LEMMA DiscountedIs ==
  ASSUME TokensTyped, NEW i \in 1..gen_len
  PROVE  /\ Discounted(i) \in [1..gen_len -> Int]
         /\ Discounted(i)[i] = tokens[i].reward
         /\ \A j \in 1..gen_len : j > i => Discounted(i)[j] = Gamma * Discounted(i + 1)[j]
<1>0. gen_len \in Nat /\ Gamma \in Int
  BY DEF TokensTyped
<1>1. \A j \in 1..gen_len : tokens[j].reward \in Int
  BY DEF TokensTyped
<1>2. ASSUME NEW j \in 1..gen_len, ~ (j < i) PROVE j - i \in 0..gen_len /\ Power[j - i] \in Int
  BY <1>0, <1>2, PowerIs
<1>3. \A j \in 1..gen_len : (IF j < i THEN 0 ELSE Power[j - i] * tokens[j].reward) \in Int
  BY <1>1, <1>2
<1>4. Discounted(i)[i] = Power[i - i] * tokens[i].reward
  BY DEF Discounted
<1>5. i - i = 0 /\ Power[0] = 1
  BY PowerIs
<1>6. ASSUME NEW j \in 1..gen_len, j > i PROVE Discounted(i)[j] = Gamma * Discounted(i + 1)[j]
  <2>1. ~ (j < i) /\ ~ (j < i + 1) /\ j - i \in 1..gen_len /\ (j - i) - 1 = j - (i + 1)
    BY <1>0, <1>6
  <2>2. Discounted(i)[j] = Power[j - i] * tokens[j].reward
    BY <2>1 DEF Discounted
  <2>3. Discounted(i + 1)[j] = Power[j - (i + 1)] * tokens[j].reward
    BY <2>1 DEF Discounted
  <2>4. Power[j - i] = Gamma * Power[j - (i + 1)]
    BY <2>1, PowerIs
  <2>5. j - (i + 1) \in 0..gen_len
    BY <1>0, <2>1
  <2>6. PICK q \in Int, r \in Int, c \in Int : q = Power[j - (i + 1)] /\ r = tokens[j].reward /\ c = Gamma
    BY <1>0, <1>1, <2>5, PowerIs
  <2>7. (c * q) * r = c * (q * r)
    OBVIOUS
  <2> QED BY <2>2, <2>3, <2>4, <2>6, <2>7
<1> QED BY <1>1, <1>3, <1>4, <1>5, <1>6 DEF Discounted

LEMMA TurnReturnIs ==
  ASSUME TokensTyped, NEW i \in 1..gen_len
  PROVE  /\ TurnReturn(i) \in Int
         /\ TurnReturn(i) = tokens[i].reward + Gamma * (IF TurnEnds(i) THEN 0 ELSE TurnReturn(i + 1))
<1>0. gen_len \in Nat /\ Gamma \in Int /\ tokens[i].reward \in Int
  BY DEF TokensTyped
<1>1. /\ Discounted(i) \in [1..gen_len -> Int] /\ Discounted(i)[i] = tokens[i].reward
      /\ \A j \in 1..gen_len : j > i => Discounted(i)[j] = Gamma * Discounted(i + 1)[j]
  BY DiscountedIs
<1>2. TurnReturn(i) \in Int
  BY <1>0, <1>1, SumType DEF TurnReturn
<1>3. CASE TurnEnds(i)
  <2>1. i..TurnEnd(i) = {i}
    <3>1. TurnEnd(i) = i
      BY <1>3, TurnEndIs
    <3> QED BY <3>1
  <2>2. TurnReturn(i) = Discounted(i)[i]
    BY <1>0, <1>1, <2>1, SumOne DEF TurnReturn
  <2> QED BY <1>0, <1>1, <1>2, <1>3, <2>2
<1>4. CASE ~ TurnEnds(i)
  <2>1. PICK e \in i..gen_len : e = TurnEnd(i) /\ e = TurnEnd(i + 1) /\ i + 1 \in 1..gen_len
    BY <1>4, TurnEndIs
  <2>2. e \in (i + 1)..gen_len
    BY <2>1, TurnEndIs
  <2> DEFINE S == (i + 1)..e
  <2>3. i..e = S \cup {i} /\ i \notin S
    BY <2>1, <2>2
  <2>4. \A j \in S : j \in 1..gen_len /\ j > i
    BY <1>0, <2>1
  <2> HIDE DEF S
  <2>5. SumOver(Discounted(i), gen_len, S \cup {i}) = SumOver(Discounted(i), gen_len, S) + Discounted(i)[i]
    BY ONLY <1>0, <1>1, <2>3, SumGrows, i \in 1..gen_len
  <2>6. Discounted(i + 1) \in [1..gen_len -> Int]
    BY <2>1, DiscountedIs
  <2>7. \A j \in 1..gen_len : j \in S => Discounted(i)[j] = Gamma * Discounted(i + 1)[j]
    BY <1>1, <2>4
  <2>8. SumOver(Discounted(i), gen_len, S) = Gamma * SumOver(Discounted(i + 1), gen_len, S)
    BY ONLY <1>0, <1>1, <2>6, <2>7, SumScaled
  <2>9. TurnReturn(i + 1) = SumOver(Discounted(i + 1), gen_len, S)
    BY <2>1 DEF TurnReturn, S
  <2>10. TurnReturn(i + 1) \in Int /\ Gamma * TurnReturn(i + 1) \in Int
    BY <1>0, <2>6, <2>9, SumType
  <2>11. TurnReturn(i) = SumOver(Discounted(i), gen_len, S \cup {i})
    BY <2>1, <2>3 DEF TurnReturn
  <2> QED BY <1>0, <1>1, <1>2, <1>4, <2>5, <2>8, <2>9, <2>10, <2>11
<1> QED BY <1>2, <1>3, <1>4

\* What the sweep has put out, and what it holds between two tokens: the value
\* and the advantage of the next token of the policy, the rewards of its tokens
\* from there on, and the return of a turn under way.
SweepInv ==
  /\ TokensTyped
  /\ pos \in 0..gen_len
  /\ gae = IF After(pos) = {} THEN [next |-> 0, last |-> 0]
           ELSE [next |-> tokens[NextOwn(pos)].value, last |-> Textbook(NextOwn(pos))]
  /\ suffix = SumOver(Rewarded, gen_len, After(pos))
  /\ running = IF TurnEnds(pos) THEN 0 ELSE TurnReturn(pos + 1)
  /\ DOMAIN out = 1..gen_len
  /\ \A i \in Own : i > pos =>
       /\ out[i].gae = Textbook(i)
       /\ out[i].remax = SumOver(Rewarded, gen_len, After(i) \cup {i})
       /\ out[i].rpp = TurnReturn(i)

LEMMA SweepStarts == AdvantagesInit => SweepInv
<1> SUFFICES ASSUME AdvantagesInit PROVE SweepInv
  OBVIOUS
<1>1. /\ tokens \in [1..gen_len -> [reward : Rewards, value : Values, mask : 0..1]]
      /\ pos = gen_len /\ gae = [next |-> 0, last |-> 0] /\ running = 0 /\ suffix = 0
      /\ out = [i \in 1..gen_len |-> NoOut]
  BY DEF AdvantagesInit
<1>2. /\ gen_len \in Nat /\ Gamma \in Int /\ Lambda \in Int /\ Rewards \subseteq Int /\ Values \subseteq Int
  BY AdvantagesAssumption
<1>3. TokensTyped
  <2>1. ASSUME NEW j \in 1..gen_len
        PROVE  /\ tokens[j].reward \in Int /\ tokens[j].value \in Int
               /\ tokens[j].mask \in {0, 1}
    <3>1. tokens[j] \in [reward : Rewards, value : Values, mask : 0..1]
      BY <1>1
    <3>2. tokens[j].reward \in Rewards /\ tokens[j].value \in Values /\ tokens[j].mask \in 0..1
      BY <3>1
    <3>3. \A m \in 0..1 : m \in {0, 1}
      OBVIOUS
    <3>4. tokens[j].reward \in Int /\ tokens[j].value \in Int
      BY ONLY <1>2, <3>2
    <3>5. tokens[j].mask \in {0, 1}
      BY ONLY <3>2, <3>3
    <3> QED BY ONLY <3>4, <3>5
  <2> QED BY <1>2, <2>1 DEF TokensTyped
<1>4. After(pos) = {} /\ TurnEnds(pos)
  BY <1>1, <1>2 DEF After, Own, TurnEnds
<1>5. SumOver(Rewarded, gen_len, {}) = 0
  <2>1. Rewarded \in [1..gen_len -> Int]
    BY <1>3 DEF Rewarded, TokensTyped
  <2> QED BY <1>2, <2>1, SumNone
<1>6. \A i \in Own : ~ (i > pos)
  BY <1>1, <1>2 DEF Own
<1>7. DOMAIN out = 1..gen_len
  BY <1>1
<1> QED BY <1>1, <1>2, <1>3, <1>4, <1>5, <1>6, <1>7 DEF SweepInv

\* What is said of a response does not change with the sweep.
LEMMA ResponseSame ==
  ASSUME tokens' = tokens
  PROVE  /\ TokensTyped' = TokensTyped /\ Own' = Own /\ Rewarded' = Rewarded
         /\ \A i : After(i)' = After(i) /\ NextOwn(i)' = NextOwn(i)
         /\ \A i : TurnEnds(i)' = TurnEnds(i)
         /\ \A i : Textbook(i)' = Textbook(i)
         /\ \A i : TurnReturn(i)' = TurnReturn(i)
<1>1. TokensTyped' = TokensTyped /\ Own' = Own /\ Rewarded' = Rewarded
  BY DEF TokensTyped, Own, Rewarded
<1>2. \A i : After(i)' = After(i)
  BY DEF After, Own
<1>3. \A i : NextOwn(i)' = NextOwn(i)
  BY <1>2 DEF NextOwn
<1>4. \A i : TurnEnds(i)' = TurnEnds(i)
  BY DEF TurnEnds
<1>5. \A i : Textbook(i)' = Textbook(i)
  BY <1>2, <1>3 DEF Textbook
<1>6. \A i : Discounted(i)' = Discounted(i)
  BY DEF Discounted
<1>7. \A i : TurnEnd(i)' = TurnEnd(i)
  <2> TAKE i
  <2>1. Stops(i)' = Stops(i)
    BY DEF Stops
  <2> DEFINE first == CHOOSE j \in Stops(i) : \A k \in Stops(i) : j <= k
  <2>2. first' = first
    BY <2>1
  <2>3. TurnEnd(i) = IF Stops(i) = {} THEN gen_len ELSE first - 1
    BY DEF TurnEnd
  <2>4. TurnEnd(i)' = IF Stops(i)' = {} THEN gen_len ELSE first' - 1
    BY DEF TurnEnd
  <2> HIDE DEF first
  <2> QED BY <2>1, <2>2, <2>3, <2>4
<1>8. \A i : TurnReturn(i)' = TurnReturn(i)
  BY <1>6, <1>7 DEF TurnReturn
<1> QED BY <1>1, <1>2, <1>3, <1>4, <1>5, <1>8

\* The tokens of the policy after pos - 1.
LEMMA AfterIs ==
  ASSUME TokensTyped, NEW i \in 1..gen_len
  PROVE  /\ tokens[i].mask = 1 =>
              /\ After(i - 1) = After(i) \cup {i} /\ i \notin After(i) /\ After(i - 1) # {}
              /\ NextOwn(i - 1) = i
         /\ tokens[i].mask = 0 => After(i - 1) = After(i) /\ NextOwn(i - 1) = NextOwn(i)
         /\ i \in Own <=> tokens[i].mask = 1
<1>0. gen_len \in Nat /\ tokens[i].mask \in {0, 1}
  BY DEF TokensTyped
<1>1. \A j \in Own : j > i - 1 <=> j > i \/ j = i
  BY <1>0 DEF Own
<1>2. i \in Own <=> tokens[i].mask = 1
  BY DEF Own
<1>3. ASSUME tokens[i].mask = 1
      PROVE  /\ After(i - 1) = After(i) \cup {i} /\ i \notin After(i) /\ After(i - 1) # {}
             /\ NextOwn(i - 1) = i
  <2>1. After(i - 1) = After(i) \cup {i} /\ i \notin After(i)
    BY <1>1, <1>2, <1>3 DEF After
  <2>2. i - 1 \in Nat /\ After(i - 1) # {}
    BY <1>0, <2>1
  <2>3. /\ NextOwn(i - 1) \in After(i - 1) /\ NextOwn(i - 1) <= i
        /\ NextOwn(i - 1) \in 1..gen_len /\ NextOwn(i - 1) > i - 1
    BY <2>1, <2>2, NextOwnIs
  <2> QED BY <1>0, <2>1, <2>2, <2>3
<1>4. ASSUME tokens[i].mask = 0 PROVE After(i - 1) = After(i) /\ NextOwn(i - 1) = NextOwn(i)
  <2>1. After(i - 1) = After(i)
    BY <1>1, <1>2, <1>4 DEF After
  <2> QED BY <2>1 DEF NextOwn
<1> QED BY <1>2, <1>3, <1>4

LEMMA SweepGoesOn == SweepInv /\ Sweep => SweepInv'
<1> SUFFICES ASSUME SweepInv, Sweep PROVE SweepInv'
  OBVIOUS
<1>1. /\ TokensTyped /\ pos \in 0..gen_len /\ gen_len \in Nat /\ DOMAIN out = 1..gen_len
      /\ \A i \in Own : i > pos =>
           /\ out[i].gae = Textbook(i)
           /\ out[i].remax = SumOver(Rewarded, gen_len, After(i) \cup {i})
           /\ out[i].rpp = TurnReturn(i)
  BY DEF SweepInv, TokensTyped
<1>2. /\ pos > 0 /\ gae' = SweepGae /\ running' = AfterReturn /\ suffix' = Suffix
      /\ out' = [out EXCEPT ![pos] = [gae |-> gae'.last, rpp |-> Return, remax |-> suffix']]
      /\ pos' = pos - 1 /\ tokens' = tokens
  BY DEF Sweep
<1>3. PICK i \in 1..gen_len : i = pos
  BY <1>1, <1>2
<1>4. PICK r \in Int, v \in Int : r = tokens[i].reward /\ v = tokens[i].value
  BY <1>1 DEF TokensTyped
<1>5. Gamma \in Int /\ Lambda \in Int /\ tokens[i].mask \in {0, 1}
  BY <1>1 DEF TokensTyped
<1>6. PICK g \in [1..gen_len -> Int] :
         \A j \in 1..gen_len : g[j] = Level(g, j) /\ Textbook(j) = g[j]
  BY <1>1, TextbookIs
<1>7. gae' = IF After(i - 1) = {} THEN [next |-> 0, last |-> 0]
             ELSE [next |-> tokens[NextOwn(i - 1)].value, last |-> Textbook(NextOwn(i - 1))]
  <2>1. gae = IF After(i) = {} THEN [next |-> 0, last |-> 0]
              ELSE [next |-> tokens[NextOwn(i)].value, last |-> Textbook(NextOwn(i))]
    BY <1>3 DEF SweepInv
  <2>2. CASE tokens[i].mask = 0
    <3>1. gae' = gae
      BY <1>2, <1>3, <2>2 DEF SweepGae, Token
    <3>2. After(i - 1) = After(i) /\ NextOwn(i - 1) = NextOwn(i)
      BY <1>1, <2>2, AfterIs
    <3> QED BY <2>1, <3>1, <3>2
  <2>3. CASE tokens[i].mask = 1
    <3>1. After(i - 1) # {} /\ NextOwn(i - 1) = i
      BY <1>1, <2>3, AfterIs
    <3>2. gae' = [next |-> v, last |-> (r + Gamma * gae.next - v) + Gamma * Lambda * gae.last]
      BY <1>2, <1>3, <1>4, <2>3 DEF SweepGae, Token
    <3>3. (r + Gamma * gae.next - v) + Gamma * Lambda * gae.last = Level(g, i)
      <4>1. CASE After(i) = {}
        <5>1. gae.next = 0 /\ gae.last = 0
          BY <2>1, <4>1
        <5>2. Level(g, i) = r - v + 0
          BY <1>4, <4>1 DEF Level
        <5>3. Gamma * 0 = 0 /\ Gamma * Lambda * 0 = 0
          BY <1>5
        <5> QED BY <1>4, <5>1, <5>2, <5>3
      <4>2. CASE After(i) # {}
        <5>1. NextOwn(i) \in 1..gen_len
          BY <4>2, NextOwnIs
        <5>2. gae.next = tokens[NextOwn(i)].value /\ gae.last = g[NextOwn(i)]
          BY <1>6, <2>1, <4>2, <5>1
        <5>3. PICK a \in Int, b \in Int : a = gae.next /\ b = gae.last
          BY <1>1, <1>6, <5>1, <5>2 DEF TokensTyped
        <5>4. PICK c \in Int, d \in Int : c = Gamma * a /\ d = Gamma * Lambda * b
          BY <1>5
        <5>5. Level(g, i) = r - v + (c + d)
          BY <1>4, <4>2, <5>2, <5>3, <5>4 DEF Level
        <5>6. (r + c - v) + d = r - v + (c + d)
          OBVIOUS
        <5> QED BY <5>3, <5>4, <5>5, <5>6
      <4> QED BY <4>1, <4>2
    <3>4. Level(g, i) = Textbook(i)
      BY <1>6
    <3> QED BY <1>4, <3>1, <3>2, <3>3, <3>4
  <2> QED BY <1>5, <2>2, <2>3
<1>8. Rewarded \in [1..gen_len -> Int] /\ Rewarded[i] = r
  BY <1>1, <1>4 DEF Rewarded, TokensTyped
<1>9. suffix' = SumOver(Rewarded, gen_len, After(i - 1))
  <2>1. suffix = SumOver(Rewarded, gen_len, After(i)) /\ suffix \in Int
    BY <1>1, <1>3, <1>8, SumType DEF SweepInv
  <2>2. suffix' = suffix + r * tokens[i].mask
    BY <1>2, <1>3, <1>4 DEF Suffix, Token
  <2>3. CASE tokens[i].mask = 0
    <3>1. After(i - 1) = After(i)
      BY <1>1, <2>3, AfterIs
    <3> QED BY <2>1, <2>2, <2>3, <3>1
  <2>4. CASE tokens[i].mask = 1
    <3>1. After(i - 1) = After(i) \cup {i} /\ i \notin After(i)
      BY <1>1, <2>4, AfterIs
    <3>2. PICK S : S = After(i) /\ i \notin S
      BY <3>1
    <3>3. SumOver(Rewarded, gen_len, S \cup {i}) = SumOver(Rewarded, gen_len, S) + Rewarded[i]
      BY ONLY <1>1, <1>8, <3>2, SumGrows, i \in 1..gen_len
    <3>4. suffix' = suffix + Rewarded[i]
      BY <1>8, <2>2, <2>4
    <3> QED BY <2>1, <3>1, <3>2, <3>3, <3>4
  <2> QED BY <1>5, <2>3, <2>4
<1>10. Return = TurnReturn(i)
  <2>1. running = IF TurnEnds(i) THEN 0 ELSE TurnReturn(i + 1)
    BY <1>3 DEF SweepInv
  <2>2. Return = r + Gamma * running
    BY <1>3, <1>4 DEF Return, Token
  <2>3. TurnReturn(i) = r + Gamma * (IF TurnEnds(i) THEN 0 ELSE TurnReturn(i + 1))
    BY <1>1, <1>4, TurnReturnIs
  <2> QED BY <2>1, <2>2, <2>3
<1>11. running' = IF TurnEnds(i - 1) THEN 0 ELSE TurnReturn((i - 1) + 1)
  <2>1. running' = Return * tokens[i].mask /\ Return \in Int
    BY <1>1, <1>2, <1>3, <1>10, TurnReturnIs DEF AfterReturn, Token
  <2>2. TurnEnds(i - 1) <=> tokens[i].mask = 0
    BY <1>1 DEF TurnEnds
  <2>3. (i - 1) + 1 = i
    OBVIOUS
  <2> QED BY <1>5, <1>10, <2>1, <2>2, <2>3
<1>12. ASSUME NEW j \in Own, j > i - 1
       PROVE  /\ out'[j].gae = Textbook(j)
              /\ out'[j].remax = SumOver(Rewarded, gen_len, After(j) \cup {j})
              /\ out'[j].rpp = TurnReturn(j)
  <2>1. j \in 1..gen_len
    BY DEF Own
  <2>2. CASE j = i
    <3>1. tokens[i].mask = 1
      BY <1>1, <2>2, AfterIs
    <3>2. After(i - 1) = After(i) \cup {i} /\ After(i - 1) # {} /\ NextOwn(i - 1) = i
      BY <1>1, <3>1, AfterIs
    <3>3. gae'.last = Textbook(i)
      BY <1>7, <3>2
    <3>4. out'[i] = [gae |-> gae'.last, rpp |-> Return, remax |-> suffix']
      BY <1>1, <1>2, <1>3
    <3>5. /\ out'[i].gae = gae'.last /\ out'[i].rpp = Return /\ out'[i].remax = suffix'
      BY <3>4
    <3>6. suffix' = SumOver(Rewarded, gen_len, After(i) \cup {i})
      BY <1>9, <3>2
    <3> QED BY <1>10, <2>2, <3>3, <3>5, <3>6
  <2>3. CASE j # i
    <3>1. j > pos
      BY <1>3, <1>12, <2>1, <2>3
    <3>2. out'[j] = out[j]
      BY <1>1, <1>2, <1>3, <2>1, <2>3
    <3> QED BY <1>1, <3>1, <3>2
  <2> QED BY <2>2, <2>3
<1>13. DOMAIN out' = 1..gen_len /\ pos' = i - 1 /\ pos' \in 0..gen_len
  BY <1>1, <1>2, <1>3
<1>14. /\ TokensTyped' /\ Own' = Own /\ Rewarded' = Rewarded
       /\ \A k : After(k)' = After(k) /\ NextOwn(k)' = NextOwn(k)
       /\ \A k : TurnEnds(k)' = TurnEnds(k) /\ Textbook(k)' = Textbook(k)
       /\ \A k : TurnReturn(k)' = TurnReturn(k)
  BY <1>1, <1>2, ResponseSame
<1> QED BY <1>2, <1>7, <1>9, <1>11, <1>12, <1>13, <1>14 DEF SweepInv

\* At the end of the sweep the policy's own tokens have the advantages and
\* returns of the response without the tokens it did not write (core_algos.py).
THEOREM SweepsOnlyOwn == AdvantagesSpec => []SweepsOwnTokens
<1>1. AdvantagesInit => SweepInv
  BY SweepStarts
<1>2. SweepInv /\ [AdvantagesNext]_advantages => SweepInv'
  <2> SUFFICES ASSUME SweepInv, [AdvantagesNext]_advantages PROVE SweepInv'
    OBVIOUS
  <2>1. CASE Sweep
    BY <2>1, SweepGoesOn
  <2>2. CASE UNCHANGED <<tokens, pos, gae, running, suffix, out>>
    <3>1. /\ TokensTyped' = TokensTyped /\ Own' = Own /\ Rewarded' = Rewarded
          /\ \A i : After(i)' = After(i) /\ NextOwn(i)' = NextOwn(i)
          /\ \A i : TurnEnds(i)' = TurnEnds(i) /\ Textbook(i)' = Textbook(i)
          /\ \A i : TurnReturn(i)' = TurnReturn(i)
      BY <2>2, ResponseSame
    <3> QED BY <2>2, <3>1 DEF SweepInv
  <2>3. ASSUME NEW i \in DOMAIN data, NEW j \in DOMAIN data, Swap(i, j)
        PROVE  UNCHANGED <<tokens, pos, gae, running, suffix, out>>
    BY <2>3 DEF Swap
  <2> QED BY <2>1, <2>2, <2>3 DEF AdvantagesNext, advantages
<1>3. SweepInv => SweepsOwnTokens
  <2> SUFFICES ASSUME SweepInv, pos = 0, NEW i \in Own
               PROVE  /\ out[i].gae = Textbook(i)
                      /\ out[i].remax = SumOver(Rewarded, gen_len, After(i) \cup {i})
                      /\ OneTurn => out[i].rpp = SumOver(Discounted(i), gen_len, After(i) \cup {i})
    BY DEF SweepsOwnTokens
  <2>1. i > pos
    BY DEF Own
  <2>2. out[i].rpp = SumOver(Discounted(i), gen_len, i..TurnEnd(i))
    BY <2>1 DEF SweepInv, TurnReturn
  <2>3. OneTurn => i..TurnEnd(i) = After(i) \cup {i}
    BY OneTurnIs DEF SweepInv
  <2> QED BY <2>1, <2>2, <2>3 DEF SweepInv
<1> QED BY <1>1, <1>2, <1>3, PTL DEF AdvantagesSpec

=============================================================================
