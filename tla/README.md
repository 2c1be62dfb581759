# A TLA+ model of Alpha-Stabler

This directory holds TLA+ models of the parts of this repository whose
correctness depends on the order of events: ranks that meet in collectives,
processes that die and resume, curricula of steering vectors, a GPU that an
engine and a trainer share, conversations that share servers, programs that
share a sandbox, and batches whose columns meet by position. TLC checks each
model on small instances. TLAPS proves the main theorems for every value of the
constants.

The repository is a fork of verl. It trains a language model by reinforcement
learning on several ranks, monitors and projects its activations
(Alpha-Stabler), and can train steering vectors instead of weights.

Contents: 1 inventory, 2 modules, 3 runs, 4 fairness, 5 theorems,
6 disagreements between the code and its documentation, 7 what is not modelled,
8 plan, 9 how to run it. Paths are relative to the repository, `verl/...` to
its package.

## 1. Inventory

### 1.1 Components

| component | state | operations | modelled by |
|---|---|---|---|
| Alpha-Stabler controller and runtime, `verl/utils/alpha_stabler.py` | update count, warm-up moments and records, frozen bases, EMA, thresholds, counter and flag per layer; one copy per rank | `before_update`, `observe_update`, `calibrate`, `update_predictor`, `backward_hook`, `state_dict`, `load_state_dict` | `AlphaStabler`, promise `Hysteresis` |
| Actor update loop, `verl/workers/actor/dp_actor.py` | gradients under accumulation, optimizer state | `update_policy`, `compute_log_prob`, `_optimizer_step`, resets of the steering optimizer state, advance of the curriculum | in `AlphaStabler`, `SequentialVectors`, `SteeringCurriculum`, `StepData` |
| Checkpoint managers, `verl/utils/checkpoint/` | folders and files on disk, list of saved paths in memory | rotate, save, find the latest, load | `Checkpoint`, promise `Resumption` |
| PPO driver, `verl/trainer/ppo/ray_trainer.py` | step counter, dataloader position, tracker file, columns of the batch | `fit`, `_save_checkpoint`, `_load_checkpoint`, `_validate`, `_balance_batch`, `_drop_wrong_generations` | `Checkpoint`, `StepData`, and in `SequentialVectors`, `HybridEngine` |
| Steering hook, sequential mode, `verl/workers/fsdp_workers.py` (`TrainableTokenVectorHook`) | basis, active row, target norm, flags, steps | `sample_vector`, `advance_sequential_state`, `orthogonalize_basis`, `project_gradients_to_tangent` | `SequentialVectors`, promise `OneAtATime` |
| Steering hook, curricula over the steps, same class and `verl/utils/steer_coeffs.py`, `verl/utils/vllm/patch.py` | step told, rows of each rank, scale, stage activated, rows in the engine | `set_global_step`, `_activate_new_basis_block`, `_rtd_extract_alpha_and_normalize`, `maybe_activate_expanded_basis`, `sample_coefficients` | `SteeringSchedule`, `SteeringCurriculum` |
| FSDP worker modes and iterative test, `verl/workers/fsdp_workers.py`, `verl/workers/rollout/vllm_rollout/` | random states, weights in the engine, snapshot and best score of a test | `rollout_mode`, `trainer_mode`, `release`, `_iterative_test_and_modify` | `HybridEngine` |
| Activation offloading, `verl/utils/activation_offload.py` | group counters, where each group is, three streams | `tensor_push`, `tensor_pop`, `on_group_commit_forward`, `on_group_commit_backward` | `ActivationOffload` |
| Agent loop manager and servers, `verl/experimental/agent_loop/agent_loop.py` | load counts, sticky map, awake or asleep | `generate_sequences`, `wake_up`, `sleep`, `_choose_server` | `AgentLoop` |
| Tool and single-turn agent loops, `tool_agent_loop.py` and `single_turn_agent_loop.py` in the same place | state of a conversation, prompt, mask, turns | one handler per state, `run` | `AgentLoop` |
| Reward router, `verl/experimental/reward/router/naive_router.py` | count per worker | select, forward, retry, release | `RewardRouter` |
| Sandbox tool and its rate limiter, `verl/tools/sandbox_fusion_tools.py` | permits, waiting acquires, threads of a pool | acquire, execute, release | `RateLimiter`, promise `BoundedUse` |
| Sandbox scoring, `verl/utils/reward_score/sandbox_fusion/`, the dapo and prime managers, `recipe/code_sandbox/` | semaphore, results of the test cases, pool of a batch | `compute_score`, `check_correctness`, `call_sandbox_api`, `parallel_compute_score_async` | `SandboxScoring` |
| DAPO recipe, `recipe/dapo/` | prompts gathered, counters | dynamic sampling | `DynamicSampling` |
| Data protocol and dispatch, `verl/protocol.py`, `verl/single_controller/` | columns of a batch | repeat, reorder, chunk, split, pad, concat, union, dispatch | `Batches`, `StepData` |
| Length balancing, `verl/utils/seqlen_balancing.py` | states of the differencing method | partition, micro-batches, restoration of the order | `Balancing`, `StepData` |
| Advantage estimators, `verl/trainer/ppo/core_algos.py` | running sums | GAE, GRPO, RLOO, REINFORCE++, REMAX, OPO, pass@k, GPG | `Advantages` |
| Losses, text scoring, models, engines, rollout adapters, datasets, SFT, scripts | numerical, stateless or external | | not modelled, see 7 |

### 1.2 How they interact

The **driver** is one process. It calls the worker groups by RPC and waits for
all ranks, so a step is: rollout, reward, old log-probabilities, advantage,
`update_policy` on all ranks, validation if due, save if due. Between the calls it keeps a batch
whose columns belong together by position alone: it repeats, drops, balances
and unites rows, and each call splits them among the ranks and puts the answers
together again. An exception on any rank fails the driver's `ray.get`, and the
job ends.

A worker's **GPU** is shared: `rollout_mode` hands the engine what has changed
in the model and swaps in the random state of generation, `trainer_mode` puts
the engine to sleep and swaps back. Inside `update_actor` the worker may run an
*iterative test*: it generates again with the new weights, amplifies the update
while the score does not fall, and rolls back. While a micro-batch is computed,
the activations of its layers go to the host and come back on streams of their own.

The **actor ranks** run `update_policy` at the same time, each at its own
speed, and meet in collectives. Alpha-Stabler sits around it:
`before_update` does forward passes without gradient and hands the activation
shifts of actor and reference to the controller; the controller pools energies over the
ranks, updates its predictors, and sets a flag per layer; during the
micro-batches the hooks read this flag and project gradients off the frozen
basis. At the end of warm-up the controller **calibrates**: a sequence of
collectives per layer and per record, then local thresholds.

**Steering vectors** are rows of a basis in a hook, one copy per rank, and in
the rollout engine. In the sequential mode every hook has its own row, norm and
target, and all switch rows together after an optimizer step; the switch resets
the Adam moments, and the driver validates the vector that has just been finished.
In the other curricula the schedule is a function of the global step, computed
by the hook and by the engine each for itself; a hook that is *told* a step may
rescale or extend its basis there and then.

A **checkpoint** is written by all ranks of the actor, then of the critic, then
by the driver (`data.pt`), and the tracker file last. Before writing, rank 0
removes the oldest checkpoints of this process. A new process reads the tracker,
and from the folder the weights, optimizer, controller state and dataloader.

With **agent loops**, rollout is a call of the driver's manager: it wakes the
servers, which fetch the actor's weights, sends one chunk to every worker, waits
for all, and puts the servers to sleep so that training has their memory. In a
worker the conversations of a chunk are coroutines; each goes through its states
on its own and asks the worker's server manager for a server at every turn.

**Services** stand beside: a router in front of the reward models, which keeps
a count per server; the pools and the rate limiter through which a tool runs
code; and the reward managers, whose workers run the test cases of generated
programs in a sandbox, under a semaphore in a process of its own.

### 1.3 What is hard, and what makes each part correct

*Alpha-Stabler.* Concurrency: the ranks must issue the same collectives in the
same order, though each filters and records its own data (`CollectivesAligned`);
an exception on one rank must not leave the others waiting
(`NoRankWaitsForever`). Equality: decisions from pooled numbers only
(`RanksAgree`). Timing: the flag must not change in the middle of an update
(`UniformProjection`), nor may a calibration be half installed, on a rank that
raised in the middle of it least of all (`CalibrationAtomic`). History: the flag is a function of the last verdicts,
also through checkpoint and restart (`Hysteresis`, `FlagConsistent`).

*Checkpoints.* A crash between any two writes, with removal of old checkpoints
in between (`TrackerNamesCheckpoint`, `ResumesLastSave`); the step counter
across resumption (`StepsInLine`).

*Sequential curriculum.* Layers with targets of their own that must switch
together (`WaitsForAll`), optimizer state that outlives the row it belongs to
(`TrainsOneAtATime`), skipped updates (`OrthogonalRows`), what is validated
(`EvaluatesEachFinished`).

*Curricula over the steps.* Two computations of one schedule on copies that are
told the step at different moments (`SamePolicy`); rows drawn by every rank
(`RanksAgree` of `SteeringCurriculum`); a block that trains before it is
prepared (`BlockPrepared`); rows that change after their stage (`SettlesOnce`);
what a restart forgets (`LearnedScale`).

*Hybrid engine.* What is left in the engine after sleep levels, partial updates,
amplifications and roll-backs (`GeneratesWithCurrentPolicy`, `KeepsBest`); two
random streams exchanged by two handlers (`TrainingStreamApart`). Offloading:
queued copies, early reuse of memory (`ReadsOwnActivation`, `AtMostTwoGroups`).

*Agent loops.* Lists that must grow together over many turns, with different
authors and early ends (`OutputAligned`); two handlers and a server that must
agree on how much room is left (`RoomForTurns`); servers that must be awake and
up to date for the last turn of the slowest conversation (`ServersReady`); a
bounded map (`StickySession`); an end of every rollout (`RolloutEnds`).

*Services.* Permits through crashes and failed acquires (`PermitsKept`), the choice
of a worker while others retry (`LeastLoaded`), rewards of programs scored side by
side on a service that fails (`ScoresJustly`), and the end of what was asked for,
also after the workers that held the permits were killed (`EveryRequestEnds`).

*Data of a step.* Rows that change places and come back in another order
(`Aligned`, `OrderFree`), rows that are dropped (`TrainsTheKept`, `StepEnds`,
`WholeGroups`), partitions (`ValidPartition`, `LoadsBounded`), sweeps that must
skip what the policy did not write (`SweepsOwnTokens`), unions of batches of
different sizes (`UnionsFit`).

`PROJECT.json` lists every hazard with its line and the properties about it;
one without a property has a note that says why.

## 2. Modules

| module | extends / instantiates | role |
|---|---|---|
| `Hysteresis` | | what Alpha-Stabler promises of a layer's flag |
| `AlphaStabler` | instance of `Hysteresis` | controller, update loop and restart, on all ranks |
| `MCAlphaStabler` | `AlphaStabler` | sets of shifts for TLC |
| `AlphaStabler_proofs` | `AlphaStabler`, TLAPS | inductive invariant and theorems |
| `Resumption` | | what checkpointing promises a job |
| `Checkpoint` | instance of `Resumption` | driver, workers, disk, tracker |
| `Checkpoint_proofs` | `Checkpoint`, TLAPS | theorems |
| `OneAtATime` | | what the sequential curriculum promises |
| `SequentialVectors` | instance of `OneAtATime` | hooks, optimizer, trainer's validation |
| `SequentialVectors_proofs` | `SequentialVectors`, TLAPS | theorems |
| `SteeringSchedule` | | stages and supports of the curricula, as hook and engine compute them |
| `SteeringCurriculum` | `SteeringSchedule` | hooks on all ranks, engine, optimizer, restart |
| `MCSteeringCurriculum` | `SteeringCurriculum` | configurations for TLC |
| `SteeringCurriculum_proofs` | `SteeringCurriculum`, TLAPS | theorems |
| `HybridEngine` | | worker, engine, driver, iterative test |
| `ActivationOffload` | | the offloading host and the device's streams |
| `MCHybridEngine` | both | one run for the two, which share nothing |
| `Engine_proofs` | both, TLAPS | theorems |
| `AgentLoop` | | manager, servers, server choice, conversations |
| `MCAgentLoop` | `AgentLoop` | agent names for TLC |
| `AgentLoop_proofs` | `AgentLoop`, TLAPS | theorems |
| `BoundedUse` | | what the rate limiter promises |
| `RateLimiter` | instance of `BoundedUse` | pools, limiter, crashes |
| `RewardRouter` | | router, workers, retries |
| `SandboxScoring` | | programs, pools, semaphore, sandbox |
| `MCServices` | all three | one run for the three, which share nothing |
| `Services_proofs` | all three, TLAPS | theorems |
| `Batches` | | operators of the data protocol |
| `StepData` | `Batches` | the rows of a step, driver and workers |
| `Sums` | | the sum over some rows of a batch |
| `Balancing` | `Sums` | Karmarkar-Karp |
| `Advantages` | `Sums` | advantage estimators |
| `DynamicSampling` | | batches gathered for a DAPO step |
| `MCStepData` | the four | one run for a step and the algorithms it calls |
| `Data_proofs` | the four, TLAPS | theorems |

Definitions beside a mapped operator that its comment calls a faulty variant or
a mutant (and `ForceSwitchAny`, `PayloadOfActive`, `KeepAdam`,
`OrthogonalAfterSkipping` of `SequentialVectors`) are
plausible mistakes; no specification uses them. `PROJECT.json` says which
property rejects each. Its "map" gives the source lines of all other definitions.


### 2.1 AlphaStabler

`at[r]` is the place of rank r in the update. Between collectives a rank moves
alone; a collective is one joint action, enabled when *every* rank is in that
very collective, for the same layer and record. A mismatch of collectives is
therefore a deadlock of the model and a violation of `CollectivesAligned`.

| code | model |
|---|---|
| `before_update` without an observation due | `Unobserved` |
| exception in the forward passes | `PrepassError` |
| `observe_update` during warm-up; layers before a non-finite one are accumulated before it raises | `WarmUp` |
| `observe_update` after warm-up, one collective per layer | `Monitor`, `CheckLayer` |
| `calibrate`: moments, `eigh` and broadcast, a collective per record, thresholds | `PoolMoments`, `ShareBasis`, `PoolRecord`, `Thresholds` |
| forward and backward of a micro-batch, with the recomputation | `Forward`, `Backward` |
| gradient reduction and `optimizer.step` | `OptimizerStep` |
| `state_dict`, `load_state_dict` | `Save`, `Restart` |
| the driver's reaction to an exception, death of the job | `Abort`, `Crash` (external) |

Abstractions. A shift is its energies (inside the basis, in all, tokens) and
whether it is finite. Psi, the EMA and thresholds are integers in units of
1/Scale, rounded down; medians and the MAD factor 1.4826 are computed as in the
code. A basis is named after the rank whose `eigh` produced it, so that
bases of two ranks are equal only through the broadcast. `window` and
`savedWindow` are ghosts: the last verdicts, as `Hysteresis` needs them.

### 2.2 Checkpoint

`disk[s][f]` is the content of file f in the folder of step s: missing, torn,
or the version of the training state (step, and the process that trained it).
A save is `Prune`, `WriteFile` of every rank in any interleaving, and
`WorkersSaved`, for the actor and again for the critic, then `SaveData`,
`OpenTracker`, `CloseTracker`. `Crash` may come anywhere, tears the files that
were being written, and may stop the removal of a folder half-way. The three
values of `resume_mode` are the actions `ResumeAuto`, `ResumePath` and
`ResumeDisabled`; a start that raises is `Refuse`: a folder that is not whole, or, in the
first two modes, an emptied tracker, which the code reads before it asks for the mode.

Optimizer and extra state are one file, as nothing separates their writes for
the properties. The barriers of the manager are kept: before the
Alpha-Stabler's file, and at the end of the workers' call.

### 2.3 SequentialVectors

`active`, `eval_idx`, `steps`, `target`, `reached`, `done` are the fields of the
hook of every layer. `MiniBatch` is a whole optimizer step with all that
follows it in `update_policy`: clearing the state of frozen rows,
orthogonalisation, advance of all hooks, draw of the next rows, reset of Adam.
`SkippedMiniBatch` is the same with a non-finite gradient norm: no optimizer step, no
orthogonalisation, but the curriculum advances. `EndStep` is the validation and
the next step; `Resume` starts a new process after the checkpoint of a step.

A row is a member of a small set with a norm; what a gradient makes of it is
any member, so every course of training is a behaviour. `orthogonal` is what is
known by construction, and Gram-Schmidt may change a row exactly if it is not
known to be orthogonal. Ranks hold equal copies and are modelled as one (rank
0 broadcasts its basis after each step).

### 2.4 AgentLoop

A coroutine runs alone from one await to the next, so an action is what a
handler does with the answer it has waited for.

| code | model |
|---|---|
| `AgentLoopManager.generate_sequences`: wake all, send the chunks, wait, put all to sleep | `WakeUp`, `WakeServer(s)`, `Dispatch`, `Collect`, `SleepServer(s)` |
| its `ray.get` raises | `Raise` |
| the update of the actor that follows, or none after validation and REMAX baselines (external to the manager) | `Use` |
| `_handle_pending_state` | `Prepare(c)` |
| `AsyncLLMServerManager.generate` and `_choose_server`, up to the await | `Request(c)` |
| the server's answer, and the rest of `_handle_generating_state` | `Answer(c)` |
| the server raises because nothing is left of `max_model_len` | `Refuse(c)` |
| `_handle_processing_tools_state` | `ToolsAnswer(c)` |
| `_handle_interacting_state` | `UserAnswers(c)` |
| the end of `run` | `Output(c)` |
| `SingleTurnAgentLoop.run` | the same actions with `OneTurn(c)`, which ends a conversation at its first answer |
| padding in `_run_agent_loop` | `Row(c)` |

A token is its author: "prompt", "model", "tool" or "user". That suffices to say
which tokens the mask must select. A log-probability is 1 at a token of the
model and 0 where the code pads. A request id is the conversation and the
batch, since `run` draws a new one each time. The weights in a server are the
number of the step they come from. Least-used servers with equal counts are
ordered by a hash in the code: any of them is chosen. What a tool or a user
says has one token or more, at most `MaxInput`.

The exceptions that an interaction or a multi-modal
tool answer may raise, which end the batch as `Refuse` does, are not modelled.

### 2.5 HybridEngine and ActivationOffload

Parameters are versions: what matters of a weight is which update it comes from.

| code | model |
|---|---|
| `_build_rollout`: load format, sleep level, what the engine is built with, the first `trainer_mode` | `Init`, `WorkerLoadFormat`, `SleepLevel`, `BuiltWith` |
| `rollout_mode` with a merged update, with a vector-only update | `RolloutMode`: `Synchronised`, `VectorOnly` |
| `trainer_mode`, `ServerAdapter.release` | `TrainerMode`, `Release` |
| `generate_sequences` for a batch, for validation, for a test | `GenerateBatch`, `Validate`, `StartTest`, `WakeUp`, `Sample`, `Sleep` |
| loading a checkpoint, `fit`'s next step (external to the worker) | `LoadCheckpoint`, `NextStep` |
| `update_actor` | `Update` |
| `_iterative_test_and_modify`: measure, go on, restore | `Score`, `GoOn`, `RollBack` |
| `_apply_parameter_modification` | `Amplified` |

The properties quantify over the configurations that `Keeps` describes: those in which the
engine is given what it should serve. Section 6 says what happens in the others.

`ActivationOffload` has a host that only queues work, and three streams that
`Execute` it later, each in its order. `ForwardLayer` and `BackwardLayer` are
`tensor_push` and `tensor_pop`, `CommitForward` and `CommitBackward` the two
commits with their windows. Device memory is given out again as soon as
Python drops the tensor, which is what PyTorch's allocator does within one stream:
so a copy that is queued and not yet done is at risk unless a wait protects it.

### 2.6 SteeringCurriculum

`SteeringSchedule` has the functions of the step that hook and engine compute
separately: stage, active rows, support of the coefficients.

| code | model |
|---|---|
| `set_global_step`: extraction of the scale, activation of a block, expansion | `SetStep`: `Extract`, `Activate`, `Expand` |
| `rollout_mode`'s payload | `SendToEngine` |
| `generate_sequences`, `compute_log_prob`, `update_policy` | `Generate`, `OldLogProb`, `Forward`, `OptimizerStep` |
| `_validate`, `_save_checkpoint`, `_load_checkpoint`, the loop of `fit` | `Validate`, `Save`, `Restart`, `NextStep` |
| death of the job | `Crash` (external) |

A row is its norm (zero, raw, unit, or a copy of row 0), the number of times it was changed, and
the rank that drew it: two ranks hold the same row when all three are equal, so
that a random row is the same on two ranks only through the broadcast.
Hooks of the ranks have one step and one scale, as the driver tells all ranks the
same; their rows are separate.

Building the optimizer treats the rows once (`BuiltRows`), and every optimizer step does
(`Trained`): nothing in the raw phase, `Normalized` in the warm-up of `warmup_expand`,
`Orthogonalized` otherwise. `Normalized` makes each zero row the same unit vector. In that warm-up
the rows are injected in equal parts and have equal gradients, so they stay equal: they are the
unit row 0 and its copies. Orthogonalisation finds nothing in a copy beside row 0;
after the warm-up it draws such a row again (`Expand`).

### 2.7 The services

`RateLimiter`. `Submit` is `pool.execute.remote`, `Start` a thread of the pool taking
the call up and asking for a permit, `Acquire` and `Release` are the limiter's two
concurrency groups, `Finish` the end of the request to the sandbox and the
callback that gives the permit back. `Crash(p)` kills a pool with its calls, and with
the pool that owns it the limiter; an acquire that waits for the dead limiter raises
(`AcquireFails`), and one whose caller is dead is not served (`NotSent`). The promise
`BoundedUse` says how many calls may run.

`RewardRouter`. `Select` is `_select_worker`, `Body` the reading of the request,
`Answer`, `Fail` and `Retry` the three ends of an attempt.

`SandboxScoring`. A program is the set of the test cases it passes, or no code
at all. `Begin` starts a sample of the pool; `TakePermit`, `TryAgain` and
`RequestEnds` are a request of `call_sandbox_api` with its retries and its
results 1 (passed), 0 (failed), -1 (API error), -2 (runtime error) and -3 (timeout); `GiveUp` is
the timeout of the prime manager, `NextBatch` the end of a batch, at which
its processes are killed. The semaphore lives in a manager process of its
own: it does not notice that the holder or the waiter is gone, so held permits
stay taken, and a queued acquire is executed later for nobody (`GhostTakes`).
The concurrent variant of `check_correctness` is called by nobody.

### 2.8 The data of a step

`StepData` records in each column which sample each row was computed from: a
column is right when it equals the column of the prompts, row by row.

| code | model |
|---|---|
| `_get_gen_batch`, `repeat` | `PopTrain`, `PopTest` |
| `chunk` among workers, generation, `concat` | `Generate`, `Generated` |
| `_drop_wrong_generations` | `Select`, `Kept` |
| REMAX baselines and their union | `GenerateMax`, `UnionMax` |
| `union`, `_balance_batch`, the reward call | `Union`, `BalanceBatch`, `Reward` |
| `compute_log_prob` of a rank, with dynamic micro-batches | `SendLogProb`, `ComputeLogProb`, `UnionLogProb` |
| `compute_advantage` by groups | `Advantage`, `Peers` |
| `update_policy` of a rank, mini-batch by mini-batch | `SendUpdate`, `Train`, `Updated` |

The ranks agree on the number of micro-batches with a reduction (`Agreed`). The partition of a
rank's rows into micro-batches is any valid one: `Balancing` shows separately what
Karmarkar-Karp returns.

`Balancing`'s `Merge` joins the two states of largest spread; with equal sizes
the states it starts from hold one item for each part (`Run`). `Advantages` has the outcome
estimators as exact quotients, compared under any reordering (`Swap`), and the
token sweeps (`Sweep`) over integers, compared with the textbook sums: gamma and
lambda are whole numbers at which the polynomials of a mistaken and of a right
sweep take different values. `DynamicSampling` gathers prompts with varied scores: `Sample`,
`Update`, and `Exhausted` when the data ends.

The MC modules `MCHybridEngine`, `MCServices` and `MCStepData` run parts that share nothing side
by side: a disjunct of `PartsInit` starts one of them and the others stay in an
idle initial state. This is one run for several small models, and no composition.

## 3. Runs

Twelve runs. Each answers questions of its own; the last two show a
disagreement of section 6 and stop at its counterexample.

| run | instance | question |
|---|---|---|
| `alpha_faults` | 2 ranks, 1 layer, warm-up 2, persistence 2, 2 micro-batches, 6 updates, shifts zero/low/high/non-finite, save after any update, 1 crash | Do ranks, flags and projections stay right under bad data, exceptions, crashes? (`RanksAgree`, `UniformProjection`, `FlagConsistent`, `Hysteresis`) |
| `alpha_layers` | 2 ranks, 2 layers, warm-up 5, interval 2, 8 updates, 1 crash, fairness | Do per-layer and per-record collectives meet when warm-up is no multiple of the interval, and does every wait end? (`CollectivesAligned`, `CalibrationAtomic`, `NoRankWaitsForever`) |
| `checkpoint_auto` | 2 ranks, actor and critic, keep 2, every 2 steps or when the instance expires, 3 steps in all, 3 processes | Is there always the right checkpoint to resume from? (`TrackerNamesCheckpoint`, `ResumesLastSave`) |
| `checkpoint_modes` | 2 ranks, keep 1, all resume modes, 3 processes | Do counter, workers and folders stay in line however runs are started? (`StepsInLine`) |
| `sequential_train` | 2 layers, 3 vectors, 1 mini-batch a step, 8 steps, skipped updates, restarts | Does the curriculum keep its order, its synchrony and its clean starts? (`OrthogonalRows`, `EvaluatesEachFinished`, `WaitsForAll`, `TrainsOneAtATime`) |
| `agent_rollout` | 1 worker, 2 conversations, 2 servers, sticky map of 2, prompts up to 2 tokens, responses up to 4, 3 answers, 2 turns of others, 2 tokens each, 2 batches (the first for training or not; with or without a single-turn conversation), fairness | Are padded rows aligned, servers ready, sessions sticky, and does every rollout end? (`OutputAligned`, `RoomForTurns`, `ServersReady`, `StickySession`, `RolloutEnds`) |
| `engine_modes` | every configuration, 2 steps, tests of up to 2 amplifications, scores 0 and 1; offloading of 4 layers over 2 micro-batches | Are samples drawn with the current policy and with a random stream of their own, is the best kept, and does a backward pass read what its layer saved? (`GeneratesWithCurrentPolicy`, `TrainingStreamApart`, `KeepsBest`, `ReadsOwnActivation`, `AtMostTwoGroups`) |
| `steering_steps` | 2 ranks, every curriculum, bases of 3 (4 where the scale is learned), stages of 1 or 2 steps, ramps of 0 or 2, 2 mini-batches, 4 steps, 1 crash | Do ranks, rollout and training use the same vectors, and does what is finished stay? (`RanksAgree`, `SamePolicy`, `BlockPrepared`, `SettlesOnce`) |
| `services` | limiter: 4 calls, 2 pools of 2 threads, limit 2, 1 crash; router: 3 requests, 2 workers, 2 attempts; scoring: 2 batches of 2 samples with 2 cases, 1 permit, pool of 2, 2 tries, both managers; fairness | Are permits, counts and scores right through failures, and does all that was asked for end? (`PermitsKept`, `LeastLoaded`, `ScoresJustly`, `EveryRequestEnds`) |
| `step_data` | 6 samples of 3 prompts, 2 ranks, 3 generating workers, validation batches of 1 to 4 rows; 6 items in 3 parts; groups of 1 to 4 rows; 4 tokens; DAPO steps of 3 prompts; fairness | Do rows stay with their samples, is each kept row trained on, are the algorithms right, does the step end? (`Aligned`, `TrainsTheKept`, `ValidPartition`, `LoadsBounded`, `OrderFree`, `SweepsOwnTokens`, `WholeGroups`, `StepEnds`) |
| `steering_resume` | 2 ranks, raw_then_double with a learned scale, 1 mini-batch, 4 steps, 1 crash | `LearnedScale`, section 6 |
| `step_remax` | as `step_data`, REMAX with 2 samples a prompt | `UnionsFit`, section 6 |

Why these bounds suffice for the cases of interest:

* Two ranks are enough for two ranks to disagree, to be in different
  collectives, or for one to fail alone; two layers to have a "next" one.
* `alpha_faults`: 2 updates calibrate, 4 more let the flag rise (2 warnings),
  be interrupted, stand and fall again; a checkpoint can be loaded in each of
  these states. `persistence` is 2, so that a row of warnings can be broken in
  the middle. `alpha_layers` keeps 2 records of 5 warm-up updates.
* Checkpoints: three processes allow a crash, a resume from what it left, a
  crash of the resumed run inside a folder that the first one left half
  written, and a third resume. Saves of the steps 1 to 4 (a resumed run may train
  one step past the end, section 6) make the rotation act twice.
* `sequential_train`: 8 steps go through vector 0 (one step), two further
  vectors (two steps each at least), waits of one layer for the other, and steps after the
  end. `MaxContent` 2 gives a collapsed row and two rows of the same norm that
  are told apart.
* `agent_rollout`: the second batch finds the counts and the sticky map as the
  first left them, with entries that have to be evicted; the map has just the
  size of a chunk, as `StickySession` needs. Weights change between the batches, or do not. Two conversations are at different
  turns at the same time. With 4 response tokens, three answers with two
  turns between them just fit, and every limit ends some conversation.
* `engine_modes`: the second step finds what the first, its test and its
  roll-back left in the engine; two amplifications allow one that is kept and one
  that is undone. Four layers are the smallest number at which a window of the
  double buffer is neither the first nor the last; the second micro-batch starts
  while copies of the first are queued; a freed block is used again since there are three.
* `steering_steps`: 4 steps pass through two or more stages with their ramps, and the
  crash and the saved step can lie on different sides of a change.
* `services`: 4 calls and a limit of 2 keep some waiting while others release;
  one crash is one of an ordinary pool or of the limiter's owner. In the scoring the second
  batch meets ghosts and lost permits of the first, one permit makes the samples
  exclude each other, and 2 cases have one after the first failure.
* `step_data`: 3 rows a rank do not divide into mini-batches of 2; validation
  batches of 1, 2 and 4 rows are padded for three workers; one long sample makes ranks need different numbers of
  micro-batches. Weights 1, 3 and 7 make Karmarkar-Karp's order matter. 3 generation
  batches of 2 prompts overshoot the 3 needed, or fall short.

Every bound is a constant with the comment "bound" in its module (or "explored"
and "considered" for sets of configurations): `MaxStep`, `MaxCrashes`, `MaxRuns`, `MaxBatch`,
`TotalSteps`, `MaxContent`, `MaxInput`, `MicroBatches`, `Batches`, `DataBatches`; the
sets of shifts, configurations and weights are in the MC modules. Symmetry is used for
the blocks of device memory only, in a run without liveness: elsewhere
rank 0 is special, or the layer that `Promise` of `SequentialVectors` chooses, or
the owner of the limiter, or a property is about liveness.

Deadlock is checked where the end is an explicit stuttering action (`Finished` or
`Over`) or there is no end: AlphaStabler, Checkpoint, AgentLoop and
MCHybridEngine. It is off for `SequentialVectors`, `MCSteeringCurriculum`,
`MCServices` and `MCStepData`, where a run ends with nothing to do; of
the services and the step, `EveryRequestEnds` and `StepEnds` say that this is not a
deadlock.

## 4. Fairness

`FairSpec` of `AlphaStabler`: a rank that is alive and not in a collective goes
on (its own thread does nothing else); a collective that all ranks have entered
completes (NCCL and gloo); the driver's `ray.get` raises when a worker's call
raises, and the job is ended and started again. No fairness is assumed of the
order of ranks, of data, of `Save`, of `Crash` or of `Finished`. In particular
a rank is never assumed to enter a collective: `NoRankWaitsForever` holds
because the others arrive or raise.

`Spec` of `SequentialVectors`: weak fairness of `Progress`, the training loop
goes on. Its properties are safety and do not need it.

`Spec` of `AgentLoop`: weak fairness of `Manage`, the driver's own next step or
that of a replica it waits for; and of `Converse(c)` for every conversation: servers,
tools and users answer, and the event loop runs every coroutine that can go on.
Which conversation goes first, and what anybody answers, is left open.

`Fairness` of `RateLimiter`: threads go on, executing code ends because its request has
a timeout, and each of the limiter's two groups of threads serves what it has. `Submit` and
`Crash` are not fair. `ScoringFairness`: workers of a pool go on, a request ends (its
timeout), and the clock of the prime manager runs. `TryAgain` is not fair, as
the sandbox need not fail; `NextBatch` is not, nor is
`GhostTakes`: a semaphore need not favour anybody. Weak fairness of
`TakePermit` suffices although permits come and go, because a sample takes
finitely many of them. `RewardRouter` has safety properties only.

`Fairness` of `StepData`: the driver goes on, and every generating worker and
every rank answers a call in the end (or fails the step).

In the combined runs the fairness of a part that was not started asks nothing.
The other modules have safety properties only and assume no fairness.

## 5. Theorems

All proofs are checked by tlapm with Z3, Zenon and LS4 only. They assume
the named `ASSUME`s of the modules (what the code's configuration checks demand,
and that ranks and layers are finite sets), for any number of
ranks, layers, vectors, steps, crashes, restarts, workers, conversations,
servers, calls, pools, samples, test cases, tokens and items.

**AlphaStabler_proofs.** `TypeCorrect` and `FlagCorrect`. `FlagConsistent` alone
is not inductive: a restart installs predictors from the checkpoint, and
`Thresholds` installs predictors from the draft of `calibrate`. `IInv` adds that saved and
drafted predictors are consistent, that draft and phase fit (as many drafted layers as the phase
says), and that what is pooled is typed. `UpdateConsistent` is the heart: one update of
a predictor keeps counter, flag, EMA and thresholds consistent.
`CalibrationType` shows that only separated thresholds leave calibration.

`Aligned`, `Agree`, `Uniform` and `Atomic` (`CollectivesAligned`, `RanksAgree`, `UniformProjection`,
`CalibrationAtomic`) follow from one invariant, `Lockstep`. None of them is inductive:
that two ranks meet in the same collective depends on all they have decided since the last one.
`Lockstep` says that all ranks are in one *segment* of one update, the stretch between two collectives:
entering update n (idle after n - 1 updates, or before the first collective of
n), checking layer l, pooling for the calibration with equal drafts,
deciding the thresholds of layer l (each rank is before or after the same computation on the same
values, or has failed with it), or training. A rank alone cannot leave a segment; a collective
moves all at once, as what it decides on is pooled or common: the number of records is (update
count) div `monitor_interval` on every rank, whatever the shifts were. The checkpoint
must hold what all ranks had between two updates, or a restart would break it.
`ImplementsHysteresis` shows that the controller refines `Hysteresis`: the
counter of a layer is the number of warnings its window ends with (`CountsStep`), and a
calibration commits predictors that, like the windows, have seen nothing (which takes `Lockstep`:
nothing is committed over an earlier calibration).

**Checkpoint_proofs.** `TypeCorrect` and `StepsCorrect` (`StepsInLine`) hold for every
configuration and resume mode: the invariant of the second adds that while a step is saved, the workers
hold the state after that very step, which is what each of them writes.
`TrackerCorrect` and `Resumes` assume `AutoKeepsTwo`: runs resume
automatically, and `max_ckpt_to_keep` is not 1 (with 1 the property is false, section 6).
The invariant `ResumeInv` says that the step the tracker names is in none of the
folders being removed or written: it is the last of the paths saved by this
process, or older than all of them, and smaller than the step under way; and that its files are all of
one version. While a save is under way it says which files are new already.
Without the first part `Prune` could remove the tracked folder; without the
second `CloseTracker` could commit a mixture. `Resumes` shows, action by
action, that the protocol implements `Resumption`: `CloseTracker` is its `Commit`,
`OpenTracker` its `Spoil`, a load its `Restore`, and all else stutters.

**SequentialVectors_proofs.** `TypeCorrect`, `Synchronized`, `StaysOrthogonal`,
`StartsClean`, `WaitsExactly`, `OneByOne`, `ValidatesEach`. The invariant adds to the properties that the
targets of all layers exist when vector 0 is over, that all layers are at the same
vector, and that no finished row has moments.
`AllOrNone` shows that the set of switching layers is empty or everything, from
which synchrony and exact waiting follow; that no finished row has moments gives
the refinement of `OneAtATime`. `ValidatesEach` (`EvaluatesEachFinished`) holds with one mini-batch
a step, which is its hypothesis: its invariant says that the index to validate is the vector
just finished until the validation has been done, and that those finished before have been. With
several mini-batches the next one overwrites the index (section 6).

**SteeringCurriculum_proofs.** `TypeCorrect`; `KeepsOneBasis` (`RanksAgree`);
`KeepsOnePolicy` (`SamePolicy`); `PreparesBlocks` (`BlockPrepared`); `FrozenForGood`
(`SettlesOnce`), for every curriculum, schedule and number of ranks. The agreement of the ranks
is inductive with the types: each action that draws rows broadcasts before it ends.
The others need to know that to tell a hook the step again changes nothing (`Steady`: the
hook that is ready is settled at the step), since rollout, old and new
log-probabilities each tell it. `OnePolicy` then carries, from one call to the next, what each
has injected. For the blocks, `Lined` says of every row what the hook's stage has made of it
(of unit norm on every rank up to the active ones and zero beyond; all but the first zero in a raw phase), also when the
process began with a checkpoint (`Saved`) of an earlier stage. `FrozenForGood` is an action property: what could
move a finished row is a leftover moment or the treatment of a new block, and
`Dropped` says that after the first optimizer step of a stage no row below
it has moments left.

**AgentLoop_proofs.** `TypeCorrect`, `AlwaysReady`, `SpreadsEvenly`,
`AlwaysAligned`, `AlwaysRoom`, `StaysWithServer`. `Phases` ties the driver's phase to the servers and
the conversations: conversations are under way only in the phase "rollout", when
all servers are awake with the weights of the step; `AlwaysReady` follows.
`EvenStarts` is inductive with the types. `Transcripts` says of every
conversation that its transcript is a prompt followed by as many tokens as the
mask has, with 1 exactly at the model's, that the log-probabilities equal the
mask if they are calculated, and that the mask is not empty after the first
answer, without which padding would be skipped and `[-0:]` would take all.
`PartedAppend` is its lemma for one append; padding then keeps the columns of
the row aligned. `AlwaysRoom` adds that whoever asks
for an answer has a mask below the limit or has heard a user.
`StaysWithServer` (`StickySession`) assumes what the property is about, that the cache holds a
chunk (`ChunkSize <= MaxCache`). `Sessions` says that the cache has the server of every conversation
that has asked, that no conversation is in it twice, and that entries of older batches come
first (`Filed`). A request that finds the cache full thus drops an old entry, as the
conversations of one chunk cannot fill it and leave one out (`NotCrowded`, by the pigeonhole principle).

**Engine_proofs**, for `HybridEngine`: `TypeCorrect`, `AlwaysOnPolicy`, `AlwaysApart`,
`AlwaysBest`, for any set of configurations. The invariant follows the engine through its cycle:
what it lacks compared with the model while it sleeps is what the next
`rollout_mode` sends, and the saved random states are those of the two streams,
whichever is on the device. For the test it says that the backup is the model's
version that scored best so far.

For `ActivationOffload`: `TwoGroupsSuffice` and `ReadsBack` (`ReadsOwnActivation`), whatever the
number of layers and micro-batches, whatever memory is given out, and in whatever order the three
streams work. For the first the invariant says, at each place of the host, exactly which groups may be
referred to by the books of the handler; the streams do not disturb it. The second relates
three queues whose contents run behind the host. Each piece of work has a number known beforehand,
as the host queues the same program for every micro-batch: `Program` says what the
k-th item of a stream is, `SoFar` how many are queued at each place of the host.
What a wait achieves is then an inequality between the numbers that two streams have
finished (`Synced`). `HostHolds` says which copies the host has, and `Written` and `Loaded`
that a block belongs to one piece of work until the last one that needs it is done: the
item that is to fill it will, and the next layer's item is given another block. `BlocksQueued`
says so of what waits in the queues, `BlocksHeld` of what the handler's books refer to. A layer
reads what it wrote because the last write to its block, by number, is its own.

**Services_proofs.** `TypeCorrect`, `AlwaysKept` and `ImplementsBoundedUse` for the
limiter: the permits with the calls that run or have a release on the way
are what the limit says, unless the limiter is dead. `ChoosesLeastLoaded` for the
router (`LeastLoaded`): a worker that has given up no request is counted with just the requests
in flight on it, and one that has, with at least those, so the least count is no greater than theirs. `NoScoreUndeserved` for the scoring: its invariant `Underway` says that
of a sample under way all results so far are passes of cases it does pass (after
the first failure nothing is run), so that a score of 1 is deserved, and a 0
follows a failed case or a fault that is recorded.

**Data_proofs**, for `Balancing`: `PartitionsValid`, with `SharesEveryRow`, `LeavesNoPartEmpty` and
`KeepsSizesEqual`: every row is in one part of every state, and no part stays empty.
`BoundsTheSpread`: the spread of the result is at most the greatest weight (with
equal sizes: the difference of two weights). `BoundsTheLoads` (`LoadsBounded`) says the same of the
loads of the rows themselves; `Summed`, that the sums kept by the method are those of its rows, is
inductive because the sets that are joined are disjoint (`SumAdds`).

For `StepData`: `AlignsRows` (`Aligned`) and `TrainsKeptOnce` (`TrainsTheKept`). The invariant
`StepInv` says for each place of the driver (`Phase`) which samples the rows are, in one list that
all columns follow (`About`); that this list has each sample once, and misses fewer correct ones than there
are ranks (`Chosen`); and that the answers that have come back from a call are the
chunks of what was sent (`Calling`). Lemmas on `Batches` show what
repeating, reordering, chunking, padding, micro-batching and their inverses do to a list.
`TrainInvariant` adds that what a rank has trained on is a prefix of its mini-batches.
`AlignsRows` leaves out one case, which is its hypothesis: REMAX with dropped answers and several samples a
prompt. There, the union of section 6 passes its check if exactly as many answers are
kept as there are prompts, and pairs baselines with rows of other prompts.

For `DynamicSampling`: `KeepsGroupsWhole` (`WholeGroups`). `SamplingInv` says that the pool is a
sequence of runs of `Rollouts` rows, each run the answers to one prompt with different
scores, and no prompt twice; a filter that keeps or drops whole prompts and a cut at a multiple of
`Rollouts` leave it so.

For `Advantages`: `OrderDoesNotMatter` (`OrderFree`) and `SweepsOnlyOwn` (`SweepsOwnTokens`). For the
first, the rows of the batch are a permutation of the original ones (`BatchShuffled`), and
each estimator is moved along it: groups have equally many members, equal sums and equal best rows
on both sides (`SumMoved`). For the second, `SweepInv` says what the running values are
between two tokens: the value and the textbook advantage of the next token of the
policy's own, the sum of the rewards of its own tokens beyond, and the discounted return of the
current turn, which is that of the response if the model's tokens are one run (`OneTurnIs`).

Sums and lists are recursive functions here, and not RECURSIVE operators, which the prover does not take. It also
cannot instantiate a theorem that takes an operator, as the library's induction theorems do.
Where induction is needed it is over a set of numbers: the set of those at which the claim fails has a
least element (`LeastOf`), which contradicts the step (`Induct`).

Model-checked only: the four liveness properties, which the prover does not do: `NoRankWaitsForever`,
`RolloutEnds`, `EveryRequestEnds`, `StepEnds`. Every other property of a run that passes is
a theorem, under the hypotheses that were named: `AutoKeepsTwo` for checkpoints, one mini-batch for
`ValidatesEach`, a cache that holds a chunk, and the case left out of `AlignsRows`.
Proved and not run again, as the run would show less: the type invariants,
`InStep`, `CleanSlate`, `EvenStarts`, `UsesBounded`.

## 6. Where the code and its documentation disagree

Two are runs that TLC ends with a counterexample.

1. `steering_resume` / `LearnedScale`. The raw_then_double curriculum measures
   the norm of the row when the raw phase ends and goes on with the unit row and
   that scale. Whether it has done so is not in the checkpoint: a job that
   resumes later measures the unit row, and the learned scale becomes one.
2. `step_remax` / `UnionsFit`. With REMAX and more than one sample a prompt, the
   batch is repeated before the greedy baselines are united with it, and the
   union meets batches of different sizes.

The others were met while modelling. TLC does not show them; most are outside of
what the modules' properties speak of, or in a configuration the modules exclude.

*Alpha-Stabler, checkpoints, driver*

* With `max_actor_ckpt_to_keep=1` the only complete checkpoint is removed before its successor
  is written (`verl/utils/checkpoint/fsdp_checkpoint_manager.py:212`), while
  `ray_trainer.py:971` speaks of atomic usage. This is why `TrackerCorrect` assumes
  `AutoKeepsTwo`.
* The tracker is emptied when opened (`ray_trainer.py:975`); after a crash there, `int()` raises
  (`checkpoint_manager.py:190`) at every automatic start, and with `resume_path` too, which
  names its folder itself but looks for the latest one first (992).
* A run resumed at its last step trains one more (`ray_trainer.py:1316`; `ppo_trainer.yaml:131`).
* The list of saved paths is in memory only (`checkpoint_manager.py:59`): checkpoints of former processes stay.
* `resume_mode=disable` in a used folder overwrites checkpoints the tracker may
  name; `checkpoint_modes` leaves `TrackerNamesCheckpoint` out for this reason.

*Steering vectors*

* After the last vector the active index is `num_vectors` and indexes the
  gradient (`fsdp_workers.py:1479`): `IndexError` in the next optimizer step, although
  `sample_vector` is written for training to go on (comment at 1605).
* A vector that has reached its target is said to be frozen (1642). Its gradient is
  zeroed (1475), its Adam moments are not, and AdamW goes on moving it.
* `seq_max_iters`, which a launch script calls a "hard cap per vector"
  (`examples/representation/ifevalg_distill_offline_seqbasis.sh:38`), is stored
  (`fsdp_workers.py:1167`) and never read.
* With several mini-batches per step the index to validate is overwritten by
  the mini-batch after the switch, and `EvaluatesEachFinished` fails; the run
  `sequential_train` has one mini-batch per step, as in the launch scripts.
* Rollouts of the step after a switch inject the finished vector, not the new one.
* A resumed run starts the sequential curriculum at vector 0, over rows already trained
  (this is why `OneAtATime` has `Restart`).
* In the asynchronous mode rollout uses the coefficients and rows of the step before
  (`verl/utils/steer_coeffs.py:25-28`); `SamePolicy` excludes it.
* `_basis0_grad_max` (774) is not in the checkpoint: the cap on the gradient is off after a restart.
* With `alpha_then_basis` or without a curriculum, rows start at zero and leave no graph:
  backward raises (1587; comment at 751-754).
* In the warm-up of `warmup_expand` all rows are one vector: zero rows become the same unit
  vector when the optimizer is built (2830, 1301-1303, 786-801) and are trained alike. The basis has
  one direction until the warm-up ends; then all rows but the first are drawn at random.
* raw_then_double without a learned scale trains with `vector_scale` = the norm, while
  `rollout_mode` sends the configured scale.
* The first optimizer step of a stage moves rows just frozen by what is left of
  their Adam moments (`dp_actor.py:147-151` calls them frozen at once); with a ramp that step
  gives the new block no gradient. At the end of a warm-up on the
  asynchronous path every rank draws these rows for itself, without a broadcast before the old
  log-probabilities (1226); `RanksAgree` leaves that configuration out.

*Hybrid engine*

* With `off_policy_rollout` the asynchronous server loads `model_config.local_path`
  (`vllm_async_server.py:280`), the student, where `rollout.yaml:278-281` promises the teacher.
* In the hybrid asynchronous mode without `free_cache_engine` the servers are never woken
  (`agent_loop.py:759`), so they are not given the weights that the comment in `replica.py:41-43` speaks of.
* With `trainable_vector_force_sleep_level_1=False` a vector-only update never
  restores the base weights that sleep level 2 discarded (`rollout.yaml:49-51`).
* LoRA with dummy load format: the first samples of a resumed job are without the adapter.
* The iterative test with steering vectors amplifies base weights which the
  vector-only engine never receives; its generation has no "global_steps", so the hooks are
  told step 0 (`fsdp_workers.py:3531-3547`, 3944).
* The first `trainer_mode` overwrites `gen_random_states`.
* `_get_unique_tensor_key` (`activation_offload.py:35-37`) gives views of one storage
  with different layouts one key: a transposed view comes back with its shape alone.
* A forward pass in training mode without a backward pass would leave the group
  counter at its end, a `KeyError` at the next one; the repository has none.

*Agent loops and services*

* A user's tokens are appended without the length check that the tools' get, so
  that the next request may exceed `max_model_len`: the server raises and the
  batch is lost (`Refuse`; `RoomForTurns` excludes such conversations).
* When a batch fails, the servers stay awake; the job ends, so nothing trains
  beside them.
* In the SGLang adapter, `finalize` raises for the finish reason TOOL_CALL; the slice by
  `len(response_ids)` of a (1, L) tensor keeps one log-probability; the padding request
  has none at all, which fails when they are asked for and over-sampling is on.
* A request that fails or times out in all its attempts never releases its worker: the release, "free
  after request completes" (`naive_router.py:182`), is not reached. The worker seems busy for ever and
  "least-loaded" (176) passes it over; `LeastLoaded` compares with workers that gave none up.
* `enable_global_rate_limit=False` calls `None.release` (`sandbox_fusion_tools.py:78`).
* The continuous score, a "pass rate for the first N test cases", counts every
  case after the first failure as failed, since `fail_fast` is on
  (`reward_score/sandbox_fusion/__init__.py`); cases run one after the other, where
  `check_correctness` says concurrently.
* The timeout of the prime manager includes the time in the queue. A killed process
  keeps the permits it held or waited for, so a later batch can score 0 by timeout alone;
  `ScoresJustly` allows this zero as one that follows a fault.
* With `max_cases` set, the structure of `test_cases` is not checked.

*Data and algorithms*

* `_balance_batch(keep_minibatch=True)` sorts again afterwards, which mixes the
  mini-batches, and drops the tail; the flag is never set.
* `rearrange_micro_batches` promises a greatest sum of lengths per micro-batch, which
  three sequences of 3 with a limit of 5 exceed.
* RLOO in its two forms differs on groups of one: the raw score, and 0. GRPO and RLOO
  give a group of one its score, and an all-correct group of two 0.
* REINFORCE++ says "Reset after EOS" (`core_algos.py:610`) and resets at observation tokens as well;
  `SweepsOwnTokens` covers its responses of one turn only.
* A response that ends in a user's turn has its score on a masked token, and GAE and REMAX lose it
  (`tool_agent_loop.py:419-426`, `agent_loop.py:575`).
* With micro-batches of fixed size and dropped rows, rows of a short micro-batch
  weigh more (`dp_actor.py:877-902`); token-mean depends on how dynamic micro-batches are cut.
* DAPO's save when the data ends is under a step number already advanced, and without a
  last validation (`recipe/dapo/dapo_ray_trainer.py:414`).

## 7. What is not modelled, and why

* Numerical code: losses, log-probabilities, KL terms and whitening, kernels, models. It has no
  control state, and TLA+ says nothing about rounding.
* Scorers of text (`ifevalg`, `ifbench`, mathematics): thousands of lines of
  stateless functions on strings.
* Libraries and the adapters around them: FSDP, Megatron, vLLM, SGLang, Ray; their
  state is not in this repository. Vendored code is most of the tree, which is
  why the modules map a small part of its lines.
* The supervised trainers, the Megatron workers and the offline model merger:
  other users of the managers that are modelled.
* In modelled parts: the HuggingFace export and HDFS copy of a checkpoint, and
  partial `save_contents`; dictionary bases and loss-gated switching of
  `TrainableTokenVectorHook`; several ranks of the hook in the sequential mode;
  streaming rewards, position ids, and modes other than hybrid in the agent loop;
  the errors that an interaction or a multi-modal tool answer may raise, which end the batch as
  `Refuse` does; the continuous score and the concurrent test cases
  of the sandbox scorer, which nothing uses; the critic's and the reference's calls in a step,
  which add a column like the old log-probabilities; pinned memory and views in the offloading.

## 8. Plan

All modules of the first plan exist. What would add most now, in this order:

1. An abstract specification of a conversation of `AgentLoop`: its response grows up to the limit, and what was said stays.
2. `SequentialVectors` with several ranks and their gradient all-reduce.
3. Composition of `StepData` with `AgentLoop`: the order in which chunks come back.

## 9. Running it

In this directory, for instance:

    tlc -config AlphaStabler_faults.cfg MCAlphaStabler
    tlc -config Checkpoint_auto.cfg Checkpoint
    tlc -config SequentialVectors_train.cfg SequentialVectors
    tlc -config AgentLoop_rollout.cfg MCAgentLoop
    tlc -config HybridEngine_modes.cfg MCHybridEngine
    tlc -config SteeringCurriculum_steps.cfg MCSteeringCurriculum
    tlc -config Services.cfg MCServices
    tlc -config StepData_step.cfg MCStepData
    tlapm AlphaStabler_proofs.tla

The community modules (`Functions`, `FiniteSetsExt` and those they use) must be on the
path. The cfg of every run is in `PROJECT.json`.
