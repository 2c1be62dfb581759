------------------------------- MODULE StepData -------------------------------
\* The rows of one step of RayPPOTrainer.fit and of one batch of _validate
\* (src/verl/trainer/ppo/ray_trainer.py): how they are repeated, sent to the
\* workers, filtered, reordered over the ranks, cut into mini- and micro-batches
\* and put together again.  Columns of a batch meet by position only, so every
\* column here records which sample each of its rows was computed from.
EXTENDS Batches

CONSTANTS
  Total,      \* samples of a step: data.train_batch_size times rollout.n
  Tests,      \* possible numbers of rows of a validation batch
  World,      \* actor_rollout_wg.world_size
  Agents,     \* workers that generate (agent.num_workers; World when synchronous)
  Mini,       \* ppo_mini_batch_size of one rank
  MaxTokens,  \* token budget of a micro-batch
  Lengths,    \* the functions that can give the lengths of the samples
  Settings    \* the configurations of a step; n stands for rollout.n

ASSUME StepAssumption ==
  /\ {Total, World, Agents, Mini, MaxTokens} \subseteq Nat \ {0}
  /\ Tests \subseteq Nat \ {0}
  /\ Total % World = 0 /\ Total % Agents = 0
  /\ Settings \subseteq [n : 1..Total, validate : BOOLEAN, drop : BOOLEAN,
                         remax : BOOLEAN, balance : BOOLEAN, async : BOOLEAN]
  /\ \A c \in Settings : Total % c.n = 0
  /\ Lengths \subseteq [1..Total -> Nat]

Ranks == 1..World
Workers == 1..Agents
Samples == 1..Total

VARIABLES
  set,       \* the configuration
  correct,   \* the samples the reward function scores 1
  len,       \* the length of each sample
  pc,        \* what the driver does next
  sent,      \* rows of the call in progress
  back,      \* what the workers that have answered returned
  gen,       \* gen_batch_output
  batch,     \* the columns of the driver's batch
  future,    \* the rows the asynchronous reward function was given
  trained    \* the mini-batches each rank has trained on

\* Sample s is an answer to this prompt; REMAX has a greedy one to each as well.
Prompts == Total \div set.n
PromptOf(s) == ((s - 1) \div set.n) + 1
Baseline(p) == Total + p

vars == <<set, correct, len, pc, sent, back, gen, batch, future, trained>>

Init ==
  /\ set \in Settings
  /\ correct \in IF set.drop THEN SUBSET Samples ELSE {{}}
  /\ len \in Lengths
  /\ pc = "pop" /\ sent = <<>> /\ back = <<>> /\ gen = <<>>
  /\ batch = <<>> /\ future = <<>>
  /\ trained = [r \in Ranks |-> <<>>]

Rows == Len(batch["uid"])
\* A function with one more key, or with another value for it.
Put(f, key, value) == [k \in DOMAIN f \cup {key} |-> IF k = key THEN value ELSE f[k]]
With(name, column) == Put(batch, name, column)
config == <<set, correct, len>>

\* An assertion of the code does not hold: the step ends with an error.
Failed == /\ pc' = "failed"
          /\ UNCHANGED <<config, sent, back, gen, batch, future, trained>>

\* One call to a worker group: equal chunks go out, answers come in any order
\* and are concatenated in the order of the workers.
Send(rows, k, next) ==
  IF Len(rows) % k = 0
  THEN sent' = rows /\ back' = <<>> /\ pc' = next
  ELSE pc' = "failed" /\ UNCHANGED <<sent, back>>
Gather(k) == LET size == Len(sent) \div k
             IN  [i \in 1..Len(sent) |-> back[((i - 1) \div size) + 1][((i - 1) % size) + 1]]
Answered(k) == DOMAIN back = 1..k

(***************************************************************************)
(* Generation.                                                             *)
(***************************************************************************)
\* The rows sent for generation: row i of the repeated train batch becomes
\* sample i; a validation batch is padded to the number of workers.
PopTrain ==
  /\ pc = "pop" /\ ~set.validate
  /\ batch' = With("uid", [p \in 1..Prompts |-> p])
  /\ Send([i \in Samples |-> i], Agents, "generate")
  /\ UNCHANGED <<config, gen, future, trained>>

PopTest ==
  /\ pc = "pop" /\ set.validate
  /\ \E t \in Tests :
       /\ batch' = With("uid", [i \in 1..t |-> PromptOf(i)])
       /\ Send(Pad([i \in 1..t |-> i], Agents), Agents, "generate")
  /\ UNCHANGED <<config, gen, future, trained>>

Generate(a) ==
  /\ pc \in {"generate", "baseline"} /\ a \notin DOMAIN back
  /\ back' = Put(back, a, Chunk(sent, Agents, a))
  /\ UNCHANGED <<config, pc, sent, gen, batch, future, trained>>

Generated ==
  /\ pc = "generate" /\ Answered(Agents)
  /\ gen' = IF set.validate THEN Unpad(Gather(Agents), Len(sent) - Rows) ELSE Gather(Agents)
  /\ pc' = IF set.validate THEN "union" ELSE "select"
  /\ UNCHANGED <<config, sent, back, batch, future, trained>>

(***************************************************************************)
(* _drop_wrong_generations, or the plain repeat.                           *)
(***************************************************************************)
\* The positions a predicate keeps, in order.
Positions(n, Good(_)) ==
  LET S == {i \in 1..n : Good(i)}
  IN  [j \in 1..Cardinality(S) |-> CHOOSE i \in S : Cardinality({k \in S : k <= i}) = j]

\* (Faulty variants: not cut to a multiple of the ranks; cut when it is one already.)
RightOnes == Positions(Len(gen), LAMBDA i : gen[i] \in correct)
KeptUncut == RightOnes
KeptCutAlways == SubSeq(RightOnes, 1, Len(RightOnes) - (IF Len(RightOnes) > World THEN World ELSE 0)
                                      - (Len(RightOnes) % World))
Kept == SubSeq(RightOnes, 1, Len(RightOnes) - (Len(RightOnes) % World))

Select ==
  /\ pc = "select"
  /\ LET repeated == Repeat(batch["uid"], set.n) IN
       IF set.drop /\ Len(Kept) > 0
       THEN /\ batch' = With("uid", Reorder(repeated, Kept))
            /\ gen' = Reorder(gen, Kept)
       ELSE /\ batch' = With("uid", repeated)
            /\ gen' = gen
  /\ pc' = IF set.remax THEN "max" ELSE "union"
  /\ UNCHANGED <<config, sent, back, future, trained>>

\* REMAX generates a greedy answer to each prompt of gen_batch, which is not
\* repeated, and unites it with the batch, which now is.
GenerateMax ==
  /\ pc = "max"
  /\ Send([p \in 1..Prompts |-> Baseline(p)], Agents, "baseline")
  /\ UNCHANGED <<config, gen, batch, future, trained>>

UnionMax ==
  /\ pc = "baseline" /\ Answered(Agents)
  /\ IF Rows = Len(sent)
     THEN /\ batch' = With("baseline", Gather(Agents))
          /\ pc' = "union"
          /\ UNCHANGED <<config, sent, back, gen, future, trained>>
     ELSE Failed

Union ==
  /\ pc = "union"
  /\ IF Rows = Len(gen)
     THEN /\ batch' = With("response", gen)
          /\ pc' = IF set.balance /\ ~set.validate THEN "balance" ELSE "reward"
          /\ UNCHANGED <<config, sent, back, gen, future, trained>>
     ELSE Failed

(***************************************************************************)
(* _balance_batch.                                                         *)
(***************************************************************************)
\* The shares the partitioning may give the ranks: as many rows for each.
Shares == {f \in [1..Rows -> Ranks] :
             \A r \in Ranks : Cardinality({i \in 1..Rows : f[i] = r}) * World = Rows}
Shorter(i, j) == LET l(k) == len[batch["response"][k]]
                 IN  l(i) < l(j) \/ (l(i) = l(j) /\ i <= j)

\* partition[::2] + partition[1::2][::-1] of n rows sorted by length: the place
\* in the sorted order of the row that comes j-th.
ZigZag(n, j) == IF 2 * j - 1 <= n THEN 2 * j - 1 ELSE 2 * (n - j + 1)

\* The row that comes to a position when the ranks' shares are laid out.
Placed(f) ==
  LET n == Rows \div World
      Rank(i) == Cardinality({k \in 1..Rows : f[k] = f[i] /\ Shorter(k, i)})
  IN  [p \in 1..Rows |-> CHOOSE i \in 1..Rows :
         /\ f[i] = ((p - 1) \div n) + 1
         /\ Rank(i) = ZigZag(n, ((p - 1) % n) + 1)]

BalanceBatch ==
  /\ pc = "balance"
  /\ IF Rows % World = 0
     THEN /\ \E f \in Shares : batch' = [c \in DOMAIN batch |-> Reorder(batch[c], Placed(f))]
          /\ pc' = "reward"
          /\ UNCHANGED <<config, sent, back, gen, future, trained>>
     ELSE Failed

(***************************************************************************)
(* Scores, log probabilities and advantages.                               *)
(***************************************************************************)
\* A synchronous reward function scores the rows now; an asynchronous one keeps
\* the rows it was given and its scores are fetched for the advantages.
Reward ==
  /\ pc = "reward"
  /\ IF set.async /\ ~set.validate
     THEN future' = batch["response"] /\ batch' = batch
     ELSE batch' = With("score", batch["response"]) /\ future' = future
  /\ pc' = IF set.validate THEN "done" ELSE "send"
  /\ UNCHANGED <<config, sent, back, gen, trained>>

SendLogProb ==
  /\ pc = "send"
  /\ Send(batch["response"], World, "log_prob")
  /\ UNCHANGED <<config, gen, batch, future, trained>>

Greatest(S) == CHOOSE m \in S : \A k \in S : k <= m
Tokens(rows) == LET total[n \in 0..Len(rows)] == IF n = 0 THEN 0 ELSE total[n - 1] + len[rows[n]]
                IN  total[Len(rows)]
\* How many micro-batches a rank needs, and how many all ranks make: the largest.
Needed(rows) == Least(Len(rows), CeilDiv(Tokens(rows), MaxTokens))
Agreed(share) == Greatest({Needed(share[r]) : r \in Ranks})

ComputeLogProb(r) ==
  LET share == [q \in Ranks |-> Chunk(sent, World, q)]
  IN  /\ pc = "log_prob" /\ r \notin DOMAIN back
      /\ IF Agreed(share) <= Len(share[r])
         THEN /\ \E order \in Arrangements(Len(share[r]), Agreed(share)) :
                   back' = Put(back, r, Restore(Reorder(share[r], order), order))
              /\ UNCHANGED <<config, pc, sent, gen, batch, future, trained>>
         ELSE Failed

UnionLogProb ==
  /\ pc = "log_prob" /\ Answered(World)
  /\ batch' = With("old", Gather(World))
  /\ pc' = "advantage"
  /\ UNCHANGED <<config, sent, back, gen, future, trained>>

\* The rows whose scores the advantage of row i is relative to.
Peers(i) == {k \in 1..Rows : batch["uid"][k] = batch["uid"][i]}

Advantage ==
  /\ pc = "advantage"
  /\ LET scores == IF set.async THEN future ELSE batch["score"]
         group(i) == {scores[j] : j \in Peers(i)}
     IN  batch' = Put(With("group", [i \in 1..Rows |-> group(i)]), "score", scores)
  /\ pc' = "actor"
  /\ UNCHANGED <<config, sent, back, gen, future, trained>>

(***************************************************************************)
(* update_policy: the ranks train on their mini-batches together.          *)
(***************************************************************************)
SendUpdate ==
  /\ pc = "actor"
  /\ Send(batch["old"], World, "update")
  /\ UNCHANGED <<config, gen, batch, future, trained>>

MiniBatches(r) == Split(Chunk(sent, World, r), Mini)

\* A rank's next mini-batch: its number of micro-batches is agreed on with all
\* ranks, and so are the gradients, so it needs every rank at its own.
Train(r) ==
  LET j == Len(trained[r]) + 1
      share == [q \in Ranks |-> MiniBatches(q)[j]]
  IN  /\ pc = "update" /\ j <= Len(MiniBatches(r))
      /\ \A q \in Ranks : Len(trained[q]) >= j - 1 /\ Len(MiniBatches(q)) >= j
      /\ IF Agreed(share) <= Len(share[r])
         THEN /\ trained' = [trained EXCEPT ![r] =
                                Append(@, [rows |-> share[r], micro |-> Agreed(share)])]
              /\ UNCHANGED <<config, pc, sent, back, gen, batch, future>>
         ELSE Failed

Updated ==
  /\ pc = "update" /\ \A r \in Ranks : Len(trained[r]) = Len(MiniBatches(r))
  /\ pc' = "done"
  /\ UNCHANGED <<config, sent, back, gen, batch, future, trained>>

Driver == \/ PopTrain \/ PopTest \/ Generated \/ Select \/ GenerateMax \/ UnionMax
          \/ Union \/ BalanceBatch \/ Reward \/ SendLogProb \/ UnionLogProb
          \/ Advantage \/ SendUpdate \/ Updated
Next == \/ Driver
        \/ \E a \in Workers : Generate(a)
        \/ \E r \in Ranks : ComputeLogProb(r) \/ Train(r)

\* The driver and every worker go on: nothing in a step is interrupted.
Spec == Init /\ [][Next]_vars
Fairness == /\ WF_vars(Driver)
            /\ \A a \in Workers : WF_vars(Generate(a))
            /\ \A r \in Ranks : WF_vars(ComputeLogProb(r) \/ Train(r))
FairSpec == Spec /\ Fairness

(***************************************************************************)
(* Properties.                                                             *)
(***************************************************************************)
\* However the rows were repeated, padded, dropped, reordered and computed in
\* pieces, every column of a row of the batch is about the same sample, and the
\* row stands under the uid of that sample's prompt (ray_trainer.py, protocol.py);
\* its advantage is taken over every sample of that prompt in the batch and over
\* no other, wherever balancing put them.
Aligned ==
  "response" \in DOMAIN batch =>
    \A i \in 1..Rows :
      LET s == batch["response"][i] IN
        /\ \A c \in DOMAIN batch : Len(batch[c]) = Rows
        /\ batch["uid"][i] = PromptOf(s)
        /\ \A c \in DOMAIN batch \cap {"score", "old"} : batch[c][i] = s
        /\ "baseline" \in DOMAIN batch => batch["baseline"][i] = Baseline(PromptOf(s))
        /\ "group" \in DOMAIN batch =>
             batch["group"][i] =
               {u \in {batch["response"][j] : j \in 1..Rows} : PromptOf(u) = PromptOf(s)}

\* A finished step has trained on every sample it kept exactly once: all of
\* them when nothing is dropped, otherwise correct ones only, less than one row
\* per rank being cut to divide them; the ranks took the same number of
\* optimizer steps with the same number of micro-batches in each.
TrainsTheKept ==
  (pc = "done" /\ ~set.validate) =>
    LET rows(r) == {x \in (1..Len(trained[r])) \X (1..Mini) :
                      x[2] <= Len(trained[r][x[1]].rows)}
        of(r, s) == {x \in rows(r) : trained[r][x[1]].rows[x[2]] = s}
        times(s) == {y \in Ranks \X (Samples \X (1..Mini)) : y[2] \in of(y[1], s)}
        kept == {s \in Samples : times(s) # {}}
    IN  /\ \A s \in kept : Cardinality(times(s)) = 1
        /\ kept # Samples => /\ kept \subseteq correct
                             /\ Cardinality(correct \ kept) < World
        /\ \A r, q \in Ranks :
             /\ Len(trained[r]) = Len(trained[q])
             /\ \A j \in 1..Len(trained[r]) : trained[r][j].micro = trained[q][j].micro

\* "Two tensor dict must have identical batch size" (protocol.py:110): what the
\* greedy generation of REMAX returns has as many rows as the batch it joins.
UnionsFit == (pc = "baseline" /\ Answered(Agents)) => Rows = Len(sent)

\* Every step and every validation batch comes to its end: no assertion on the
\* sizes of batches fails and no rank waits for another one for ever.
StepEnds == <>(pc = "done")
=============================================================================
