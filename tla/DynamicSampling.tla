---------------------------- MODULE DynamicSampling ----------------------------
\* The step loop of RayDAPOTrainer.fit (src/recipe/dapo/dapo_ray_trainer.py):
\* prompts whose answers all score the same are filtered out, and generation
\* goes on over more batches of data until enough prompts are left for a step.
EXTENDS Integers, Sequences, FiniteSets

CONSTANTS
  GenPrompts,   \* data.gen_batch_size: prompts of one generation batch
  TrainPrompts, \* data.train_batch_size
  Rollouts,     \* rollout.n
  MaxGen,       \* filter_groups.max_num_gen_batches, 0 for no limit
  DataBatches,  \* bound: generation batches the data has in all epochs
  TotalSteps    \* total_training_steps

ASSUME SamplingAssumption ==
  /\ {GenPrompts, TrainPrompts, Rollouts} \subseteq Nat \ {0}
  /\ {MaxGen, DataBatches, TotalSteps} \subseteq Nat

VARIABLES
  stage,       \* "sampling", "updating", or "finished", "exhausted", "failed"
  step,        \* global_steps
  drawn,       \* batches taken from the dataloader
  num_gen,     \* num_gen_batches
  num_prompt,  \* num_prompt_in_batch
  pool         \* batch: the trajectories kept, each <<prompt, k, score>>

sampling == <<stage, step, drawn, num_gen, num_prompt, pool>>

SamplingInit ==
  /\ stage = "sampling" /\ step = 1
  /\ drawn = 0 /\ num_gen = 0 /\ num_prompt = 0
  /\ pool = <<>>

\* Row i of a new batch, its prompts repeated with interleaving.
PromptAt(i) == drawn * GenPrompts + ((i - 1) \div Rollouts) + 1
NewRows == 1..(GenPrompts * Rollouts)

\* A prompt is kept when its scores differ, or when it has one row only.
Varied(score, p) ==
  LET own == {i \in NewRows : PromptAt(i) = p}
  IN  Cardinality(own) = 1 \/ \E i, j \in own : score[i] # score[j]
KeptPrompts(score) == {p \in {PromptAt(i) : i \in NewRows} : Varied(score, p)}

\* The trajectories of the kept prompts, in the order of the batch.
KeptRows(score) ==
  LET S == {i \in NewRows : PromptAt(i) \in KeptPrompts(score)}
      at(j) == CHOOSE i \in S : Cardinality({k \in S : k <= i}) = j
  IN  [j \in 1..Cardinality(S) |-> <<PromptAt(at(j)), at(j), score[at(j)]>>]

Enough(n) == n >= TrainPrompts
MayGoOn == MaxGen = 0 \/ num_gen + 1 < MaxGen
\* batch[:traj_bsz].  (Faulty variant: as many rows as a step has prompts.)
CutPrompts(rows) == SubSeq(rows, 1, TrainPrompts)
Cut(rows) == SubSeq(rows, 1, IF Len(rows) < TrainPrompts * Rollouts
                             THEN Len(rows) ELSE TrainPrompts * Rollouts)

\* One generation batch, scored and filtered.
Sample ==
  /\ stage = "sampling" /\ drawn < DataBatches
  /\ \E score \in [NewRows -> 0..1] :
       LET n == num_prompt + Cardinality(KeptPrompts(score))
           all == pool \o KeptRows(score)
       IN  /\ num_prompt' = n
           /\ pool' = IF Enough(n) THEN Cut(all) ELSE all
           /\ stage' = IF Enough(n) THEN "updating" ELSE IF MayGoOn THEN "sampling" ELSE "failed"
  /\ drawn' = drawn + 1
  /\ num_gen' = num_gen + 1
  /\ UNCHANGED step

\* The update and the end of the step.
Update ==
  /\ stage = "updating"
  /\ pool' = <<>> /\ num_prompt' = 0 /\ num_gen' = 0
  /\ IF step >= TotalSteps
     THEN stage' = "finished" /\ step' = step
     ELSE stage' = "sampling" /\ step' = step + 1
  /\ UNCHANGED drawn

\* The data ends: what was sampled for the next step is dropped.
Exhausted ==
  /\ stage = "sampling" /\ drawn = DataBatches
  /\ stage' = "exhausted"
  /\ UNCHANGED <<step, drawn, num_gen, num_prompt, pool>>

SamplingNext == Sample \/ Update \/ Exhausted
SamplingSpec == SamplingInit /\ [][SamplingNext]_sampling

(***************************************************************************)
(* Properties.                                                             *)
(***************************************************************************)
\* Whatever the batches a step was put together from, it trains on exactly
\* train_batch_size prompts, on every answer to each of them, once, and no
\* group of answers all score the same: the cut at traj_bsz never splits a group.
WholeGroups ==
  stage = "updating" =>
    LET prompts == {pool[i][1] : i \in DOMAIN pool}
        group(p) == {pool[i] : i \in {j \in DOMAIN pool : pool[j][1] = p}}
    IN  /\ Cardinality(prompts) = TrainPrompts
        /\ Len(pool) = TrainPrompts * Rollouts
        /\ \A p \in prompts : Cardinality(group(p)) = Rollouts
                              /\ (Rollouts > 1 => \E x, y \in group(p) : x[3] # y[3])
=============================================================================
