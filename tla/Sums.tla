--------------------------------- MODULE Sums ---------------------------------
\* Sums over the rows of a batch, as torch.bincount and a loop over seqlen_list
\* take them: in the order of the rows.
EXTENDS Integers

\* The sum of f over those of the rows 1..n that are in S.
SumOver(f, n, S) ==
  LET total[k \in 0..n] == IF k = 0 THEN 0 ELSE total[k - 1] + (IF k \in S THEN f[k] ELSE 0)
  IN  total[n]
=============================================================================
