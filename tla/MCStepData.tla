----------------------------- MODULE MCStepData -----------------------------
(***************************************************************************)
(* One step and the algorithms it calls, for TLC.  They share no state: a   *)
(* run explores the rows of a step, the sharing of rows by Karmarkar and    *)
(* Karp, the advantages of groups or of tokens, or dynamic sampling, as     *)
(* part says, and the others stay at one initial state.                     *)
(***************************************************************************)
EXTENDS StepData, Balancing, Advantages, DynamicSampling

VARIABLE part

allVars == <<vars, balancing, advantages, sampling, part>>

\* At most one sample is long, so the ranks need different numbers of
\* micro-batches before they agree.
OneLong == {[s \in Samples |-> IF s = l THEN 2 ELSE 1] : l \in {0, 1, 5}}
TrainStep(d, b, a) == [n |-> 2, validate |-> FALSE, drop |-> d, remax |-> FALSE,
                       balance |-> b, async |-> a]
Validation == [TrainStep(FALSE, FALSE, FALSE) EXCEPT !.validate = TRUE]
\* REMAX with one sample for each prompt, and with two.
Remax(n, b) == [TrainStep(FALSE, b, FALSE) EXCEPT !.n = n, !.remax = TRUE]
Plain == {TrainStep(d, b, a) : d \in BOOLEAN, b \in BOOLEAN, a \in BOOLEAN}
         \cup {Validation} \cup {Remax(1, b) : b \in BOOLEAN}
RemaxOfTwo == {Remax(2, FALSE)}
UpToFour == 1..4

\* Workloads with ties, with one dominating row and unsorted ones.
Workloads == {w \in [Items -> {1, 3, 7}] : \A i \in 1..(NumItems - 2) : w[i] <= w[i + 1]}
SomeWorkloads == {w \in Workloads : w[1] = 1 /\ w[3] >= 3}

\* Groups of one to four rows.
Partitions == {<<1>>, <<1, 1, 1, 1>>, <<1, 1, 1, 2>>, <<1, 1, 2, 2>>, <<1, 2, 2, 3>>}
Lengths4 == <<1, 2, 1, 3>>

PartsInit ==
  /\ part \in {"rows", "balance", "groups", "tokens", "sampling"}
  /\ part # "rows" => /\ set = CHOOSE c \in Settings : TRUE
                      /\ len = CHOOSE l \in Lengths : TRUE
                      /\ correct = {}
  /\ Init
  /\ part # "balance" => equal = FALSE /\ weight = CHOOSE w \in Weights : TRUE
  /\ BalancingInit
  /\ part # "groups" => data = <<[row |-> 1, uid |-> 1, score |-> 0]>>
  /\ part # "tokens" => tokens = [i \in 1..gen_len |-> [reward |-> 0, value |-> 0, mask |-> 1]]
  /\ AdvantagesInit
  /\ SamplingInit

PartsNext ==
  \/ part = "rows" /\ Next /\ UNCHANGED <<balancing, advantages, sampling, part>>
  \/ part = "balance" /\ Merge /\ UNCHANGED <<vars, advantages, sampling, part>>
  \/ part = "groups" /\ (\E i, j \in DOMAIN data : i < j /\ Swap(i, j))
                     /\ UNCHANGED <<vars, balancing, sampling, part>>
  \/ part = "tokens" /\ Sweep /\ UNCHANGED <<vars, balancing, sampling, part>>
  \/ part = "sampling" /\ SamplingNext /\ UNCHANGED <<vars, balancing, advantages, part>>

PartsSpec == PartsInit /\ [][PartsNext]_allVars /\ Fairness
=============================================================================
