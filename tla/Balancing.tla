------------------------------- MODULE Balancing -------------------------------
\* karmarkar_karp of src/verl/utils/seqlen_balancing.py: the largest
\* differencing method that shares the rows of a batch among ranks or
\* micro-batches.  A state of the method holds K sets in decreasing order of
\* their sums; the two states of largest spread are merged, the fullest set of
\* one with the emptiest of the other, until one state is left.
EXTENDS Sums, FiniteSets

CONSTANTS
  NumItems,   \* rows to share
  K,          \* k_partitions
  Weights,    \* the functions that can give the workloads of the rows
  Equal       \* the values of equal_size

Items == 1..NumItems
Parts == 1..K

ASSUME BalancingAssumption ==
  /\ K \in Nat \ {0} /\ NumItems \in Nat /\ NumItems >= K
  /\ Weights \subseteq [Items -> Nat \ {0}]
  /\ Equal \subseteq BOOLEAN
  /\ TRUE \in Equal => NumItems % K = 0

VARIABLES
  weight,   \* seqlen_list
  equal,    \* equal_size
  states    \* states_pq

balancing == <<weight, equal, states>>

Spread(s) == s[1].sum - s[K].sum
Descending(s) == \A i, j \in Parts : i <= j => s[i].sum >= s[j].sum

\* The orders State.merge may sort the sets in: sets of equal sums can come in
\* any order here, where the code goes on to compare their sizes and items.
Shuffles == {p \in [Parts -> Parts] : \A i, j \in Parts : p[i] = p[j] => i = j}
Sorted(s) == {t \in {[i \in Parts |-> s[p[i]]] : p \in Shuffles} : Descending(t)}

Joined(a, b) == [items |-> a.items \cup b.items, sum |-> a.sum + b.sum]
\* (Faulty variant: the fullest sets of both states meet.)
Same(i) == i
Opposite(i) == K + 1 - i
Merged(s, t) == [i \in Parts |-> Joined(s[i], t[Opposite(i)])]

None == [items |-> {}, sum |-> 0]
Single(x) == [items |-> {x}, sum |-> weight[x]]

\* One state for each row.
Alone(x) == [j \in Parts |-> IF j = 1 THEN Single(x) ELSE None]

\* sorted_seqlen_list, and one state for each run of K rows of it.
\* (Faulty variant: the list is not sorted.)
AnyOrder(order) == \A i, j \in Items : order[i] = order[j] => i = j
InOrder(order) ==
  \A i, j \in Items : i < j =>
    \/ weight[order[i]] < weight[order[j]]
    \/ weight[order[i]] = weight[order[j]] /\ order[i] < order[j]
\* (Faulty variant: the last rows of the list come a place too early.)
RunShort(order, c) == [j \in Parts |-> IF c * K = NumItems /\ j = K THEN None ELSE Single(order[c * K + 1 - j])]
Run(order, c) == [j \in Parts |-> Single(order[c * K + 1 - j])]

BalancingInit ==
  /\ weight \in Weights
  /\ equal \in Equal
  /\ IF equal
     THEN \E order \in [Items -> Items] :
            InOrder(order) /\ states = {Run(order, c) : c \in 1..(NumItems \div K)}
     ELSE states = {Alone(x) : x \in Items}

\* Two states that leave the heap first.
Rest(s, t) == states \ {s, t}

Merge ==
  \E s, t \in states :
    /\ s # t
    /\ Spread(s) >= Spread(t)
    /\ \A u \in Rest(s, t) : Spread(t) >= Spread(u)
    /\ \E m \in Sorted(Merged(s, t)) : states' = Rest(s, t) \cup {m}
    /\ UNCHANGED <<weight, equal>>

BalancingSpec == BalancingInit /\ [][Merge]_balancing

(***************************************************************************)
(* Properties.                                                             *)
(***************************************************************************)
Finished == \A s, t \in states : s = t

\* Every row is in exactly one set of one state at every moment: the check that
\* closes get_seqlen_balanced_partitions never fails, and no row of a batch is
\* lost or trained on twice.
Shared ==
  /\ \A x \in Items : \E s \in states : \E i \in Parts : x \in s[i].items
  /\ \A s, t \in states : \A i, j \in Parts : \A x \in s[i].items \cap t[j].items :
       s = t /\ i = j

\* No rank and no micro-batch is left without a row when there are at least as
\* many rows as parts (the assertion "the i-th partition is empty").
NeverEmpty == Finished => \A s \in states : \A i \in Parts : s[i].items # {}

\* With equal_size every part has as many rows as any other (the assertion on
\* len(partition) * k_partitions), so the batch can be cut into equal chunks.
EqualSizes ==
  equal => \A s \in states : \A i, j \in Parts :
             Cardinality(s[i].items) = Cardinality(s[j].items)

\* All of it: "sanity check" in get_seqlen_balanced_partitions and the assertions
\* in karmarkar_karp never fail.
ValidPartition == Shared /\ NeverEmpty /\ EqualSizes

\* The sums kept of two parts differ by no more than the heaviest row weighs and,
\* with equal_size, than the heaviest row outweighs the lightest.
SpreadBounded ==
  \A s \in states : \E x, y \in Items :
    Spread(s) <= weight[x] - (IF equal THEN weight[y] ELSE 0)

\* The loads of two parts, summed over their rows, differ by no more than the
\* heaviest row weighs (with equal_size: outweighs the lightest): the sums kept
\* through the merges are those of the rows.
Load(S) == SumOver(weight, NumItems, S)
LoadsBounded ==
  \A s \in states : \A i, j \in Parts : \E x, y \in Items :
    Load(s[i].items) - Load(s[j].items) <= weight[x] - (IF equal THEN weight[y] ELSE 0)
=============================================================================
