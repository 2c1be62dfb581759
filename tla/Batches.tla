------------------------------- MODULE Batches -------------------------------
\* What DataProto does to the rows of a batch (src/verl/protocol.py), as
\* operators on sequences of rows.  A row is whatever a column holds at a
\* position; the position is all that ties the columns of a batch together.
EXTENDS Integers, Sequences, FiniteSets

\* DataProto.repeat(interleave=True): the n copies of a row stand together.
Repeat(s, n) == [i \in 1..(Len(s) * n) |-> s[((i - 1) \div n) + 1]]

\* DataProto.reorder and select_idxs: row i of the result is row idx[i].
Reorder(s, idx) == [i \in DOMAIN idx |-> s[idx[i]]]

\* DataProto.chunk: the r-th of k equal runs of rows; the caller asserts that
\* k divides the length.
Chunk(s, k, r) == SubSeq(s, (r - 1) * (Len(s) \div k) + 1, r * (Len(s) \div k))

CeilDiv(a, b) == (a + b - 1) \div b
Least(a, b) == IF a <= b THEN a ELSE b

\* DataProto.split: runs of `size` rows, the last one shorter.
Split(s, size) == [j \in 1..CeilDiv(Len(s), size) |->
                     SubSeq(s, (j - 1) * size + 1, Least(j * size, Len(s)))]

\* pad_dataproto_to_divisor: whole or partial copies of the batch, from its
\* first row, until k divides the length.
PadSize(n, k) == (k - (n % k)) % k
Pad(s, k) == [i \in 1..(Len(s) + PadSize(Len(s), k)) |-> s[((i - 1) % Len(s)) + 1]]

\* unpad_dataproto: data[:-pad_size], and the batch itself when nothing was added.
Unpad(s, pad) == SubSeq(s, 1, Len(s) - pad)

Orders(n) == {p \in [1..n -> 1..n] : \A i, j \in 1..n : p[i] = p[j] => i = j}

\* The orders rearrange_micro_batches can put n rows in when it makes k
\* micro-batches: k non-empty runs, each one ascending (the partitions are
\* sorted), in any order.
Arrangements(n, k) ==
  {p \in Orders(n) : Cardinality({i \in 1..(n - 1) : p[i] > p[i + 1]}) < k}

\* get_reverse_idx: the index map m with m[idx[i]] = i.
\* (Faulty variant: the map itself, which is right for swaps only.)
NotReversed(idx) == idx
ReverseIdx(idx) == [j \in DOMAIN idx |-> CHOOSE i \in DOMAIN idx : idx[i] = j]

\* restore_dynamic_batch: rows computed in the order idx, back in their places.
Restore(s, idx) == Reorder(s, ReverseIdx(idx))
=============================================================================
