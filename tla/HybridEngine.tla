---------------------------- MODULE HybridEngine ----------------------------
(***************************************************************************)
(* One worker of a hybrid actor: the trained model and the rollout engine  *)
(* share its GPU and take turns.  rollout_mode hands the engine what       *)
(* changed in the model and swaps the random states; trainer_mode puts the *)
(* engine to sleep and swaps them back.  The driver generates for training *)
(* and for validation, updates the model, and may let the worker amplify   *)
(* the update for as long as a test does not get worse.                    *)
(*                                                                         *)
(* Parameters are abstracted to versions: base is the version of the       *)
(* model's own weights, adapter that of the LoRA matrices or the steering  *)
(* vectors (0 is the untrained one, which does nothing).                   *)
(***************************************************************************)
EXTENDS Naturals, FiniteSets

CONSTANTS
  Configs,               \* the configurations of the job that are explored
  MaxStep,               \* bound on the training steps
  max_test_iterations,   \* amplifications tried after an update
  Scores,                \* the scores a test can return
  Random, Gone, Teacher  \* what the engine may serve that is no version

VARIABLES
  config,               \* the configuration of the job; never changes
  pc,                   \* where the worker is
  task,                 \* what the generation under way is for
  step,                 \* updates made
  made,                 \* the newest version of any parameter
  base, adapter,        \* the versions the trained model holds
  engine,               \* what the rollout engine holds, and whether it is awake
  base_sync_done,
  sampled,              \* the versions the last samples were drawn with
  rng,                  \* the random state of the device
  torch_random_states,  \* the one saved for training
  gen_random_states,    \* the one saved for generation
  test                  \* the iterative test: measurements, best score, backup

vars == <<config, pc, task, step, made, base, adapter, engine, base_sync_done, sampled,
          rng, torch_random_states, gen_random_states, test>>
model == <<made, base, adapter>>
random == <<rng, torch_random_states, gen_random_states>>

ConfigType ==
  [mode : {"sync", "async"}, adapter : {"none", "lora", "vector"}, off_policy_rollout : BOOLEAN,
   free_cache_engine : BOOLEAN, load_format : {"dummy", "auto"}, sleep_level : {1, 2},
   force_sleep_level_1 : BOOLEAN, enable_iterative_test : BOOLEAN]

\* The worker's generate_sequences, which the iterative test calls, exists in
\* the synchronous engine only.
ASSUME ConfigAssumption ==
  Configs \subseteq {c \in ConfigType : c.enable_iterative_test => c.mode = "sync"}
ASSUME BoundsAssumption == MaxStep \in Nat /\ max_test_iterations \in Nat /\ Scores \subseteq Nat
ASSUME ContentAssumption ==
  {Random, Gone, Teacher} \cap Nat = {} /\ Cardinality({Random, Gone, Teacher}) = 3

Versions == Nat
Content == Versions \cup {Random, Gone, Teacher}
Streams == [seed : {"trainer", "generation", "engine"}, drawn : SUBSET {"training", "generation"}]
Stream(seed) == [seed |-> seed, drawn |-> {}]
NoTest == [running |-> FALSE, n |-> 0, best |-> 0, backup |-> 0, measured |-> {}]

(* Configuration the worker derives *)

\* _build_rollout loads real weights when steering vectors are trained.
WorkerLoadFormat(c) == IF c.adapter = "vector" THEN "auto" ELSE c.load_format

SleepLevel(c) ==
  IF \/ c.adapter = "vector" /\ c.force_sleep_level_1
     \/ c.mode = "sync" /\ c.off_policy_rollout
  THEN 1 ELSE c.sleep_level

\* The synchronous engine is built by the worker; the servers of the
\* asynchronous one are built from the driver's own copy of the configuration,
\* which knows no teacher.
BuiltWith(c) ==
  CASE c.mode = "sync" /\ c.off_policy_rollout -> Teacher
    [] c.mode = "sync" /\ ~c.off_policy_rollout ->
         IF WorkerLoadFormat(c) = "dummy" THEN Random ELSE 0
    [] OTHER -> IF c.load_format = "dummy" THEN Random ELSE 0

\* generate_sequences of the agent loop wakes and sleeps the engine only to free
\* its cache; the synchronous worker always switches.
Switches(c) == c.mode = "sync" \/ c.free_cache_engine

Init ==
  /\ config \in Configs
  /\ pc = "built" /\ task = "train" /\ step = 0 /\ made = 0 /\ base = 0 /\ adapter = 0
  /\ engine = [base |-> BuiltWith(config), adapter |-> 0, awake |-> TRUE]
  /\ base_sync_done = (WorkerLoadFormat(config) # "dummy")
  /\ sampled = [base |-> Random, adapter |-> 0]
  /\ rng \in {Stream("trainer"), Stream("engine")}
  /\ torch_random_states = Stream("trainer")
  /\ gen_random_states = Stream("generation")
  /\ test = NoTest

(* Switching *)

\* Level 2 discards the weights, level 1 keeps a copy of them.
Release ==
  engine' = IF config.free_cache_engine
              THEN [engine EXCEPT !.awake = FALSE,
                                  !.base = IF SleepLevel(config) = 2 THEN Gone ELSE @]
              ELSE engine

\* Mutant: the random state of training is not put back.
TrainerModeForgets ==
  /\ Release
  /\ gen_random_states' = rng
  /\ UNCHANGED <<rng, torch_random_states>>

TrainerMode ==
  /\ Release
  /\ gen_random_states' = rng
  /\ rng' = torch_random_states
  /\ UNCHANGED torch_random_states

VectorOnly == config.adapter = "vector" /\ base_sync_done

\* Mutant: a LoRA engine keeps its base weights whatever its sleep did to them.
SynchronisedAdapterOnly ==
  [awake   |-> TRUE,
   base    |-> IF \/ config.off_policy_rollout \/ VectorOnly
                  \/ config.adapter = "lora" /\ base_sync_done
               THEN engine.base ELSE base,
   adapter |-> IF config.off_policy_rollout THEN engine.adapter ELSE adapter]

\* What update_weights leaves in the engine.
Synchronised ==
  [awake   |-> TRUE,
   base    |-> IF \/ config.off_policy_rollout \/ VectorOnly
                  \/ config.adapter = "lora" /\ base_sync_done /\ SleepLevel(config) = 1
               THEN engine.base ELSE base,
   adapter |-> IF \/ config.off_policy_rollout
                  \/ config.adapter = "lora" /\ ~base_sync_done
               THEN engine.adapter ELSE adapter]

RolloutMode ==
  /\ engine' = Synchronised
  /\ base_sync_done' = TRUE
  /\ torch_random_states' = rng
  /\ rng' = gen_random_states
  /\ UNCHANGED gen_random_states

(* The driver and the worker's handlers *)

\* Leaving _build_rollout: the synchronous worker switches by itself, the
\* asynchronous one when the agent loop manager first puts the servers to sleep.
StartTraining ==
  /\ pc = "built"
  /\ pc' = "loading"
  /\ IF Switches(config) THEN TrainerMode ELSE UNCHANGED <<engine, random>>
  /\ UNCHANGED <<config, task, step, model, base_sync_done, sampled, test>>

\* A job that resumes loads its model before it generates; another has nothing
\* to load.
LoadCheckpoint ==
  /\ pc = "loading"
  /\ pc' = "ready"
  /\ \/ UNCHANGED model
     \/ /\ made' = 1
        /\ base' = IF config.adapter = "none" THEN 1 ELSE 0
        /\ adapter' = IF config.adapter = "none" THEN 0 ELSE 1
  /\ UNCHANGED <<config, task, step, engine, base_sync_done, sampled, random, test>>

WakeUp(for) ==
  /\ task' = for
  /\ pc' = "awake"
  /\ IF Switches(config) THEN RolloutMode ELSE UNCHANGED <<engine, base_sync_done, random>>
  /\ UNCHANGED <<config, step, model, sampled, test>>

GenerateBatch == pc = "ready" /\ step < MaxStep /\ WakeUp("train")

Validate == pc \in {"ready", "updated"} /\ WakeUp("validate")

\* A test runs generate_sequences inside the update.
StartTest == pc = "test" /\ WakeUp("test")

Sample ==
  /\ pc = "awake"
  /\ pc' = "sampled"
  /\ sampled' = [base |-> engine.base, adapter |-> engine.adapter]
  /\ rng' = [rng EXCEPT !.drawn = @ \cup {"generation"}]
  /\ UNCHANGED <<config, task, step, model, engine, base_sync_done, torch_random_states,
                 gen_random_states, test>>

Sleep ==
  /\ pc = "sampled"
  /\ pc' = CASE task = "train" -> "batch" [] task = "validate" -> "ready" [] task = "test" -> "score"
  /\ IF Switches(config) THEN TrainerMode ELSE UNCHANGED <<engine, random>>
  /\ UNCHANGED <<config, task, step, model, base_sync_done, sampled, test>>

Update ==
  /\ pc = "batch"
  /\ step' = step + 1
  /\ made' = made + 1
  /\ base' = IF config.adapter = "none" THEN made' ELSE base
  /\ adapter' = IF config.adapter = "none" THEN adapter ELSE made'
  /\ rng' = [rng EXCEPT !.drawn = @ \cup {"training"}]
  /\ test' = [NoTest EXCEPT !.running = config.enable_iterative_test]
  /\ pc' = IF config.enable_iterative_test THEN "test" ELSE "updated"
  /\ UNCHANGED <<config, task, engine, base_sync_done, sampled, torch_random_states,
                 gen_random_states>>

\* The driver goes on without a validation.
NextStep ==
  /\ pc = "updated"
  /\ pc' = "ready"
  /\ UNCHANGED <<config, task, step, model, engine, base_sync_done, sampled, random, test>>

(* The iterative test *)

\* actor + factor * (actor - base model).  The factor is 0 at the last step and
\* after a perfect score, and no parameter of a LoRA model has the name of one
\* of the base model: then nothing changes.
Amplified ==
  IF config.adapter = "lora" THEN UNCHANGED model
  ELSE /\ \/ made' = made + 1 /\ base' = made'
          \/ UNCHANGED <<made, base>>
       /\ UNCHANGED adapter

\* The test goes on with one more amplification, or ends.
GoOn(t) ==
  IF t.n < max_test_iterations
    THEN pc' = "test" /\ test' = [t EXCEPT !.n = @ + 1] /\ Amplified
    ELSE pc' = "updated" /\ test' = [t EXCEPT !.running = FALSE] /\ UNCHANGED model

\* Mutant: the last amplification stays although it scored less.
RollBackNothing(t) ==
  /\ pc' = "updated" /\ test' = [t EXCEPT !.running = FALSE]
  /\ UNCHANGED model

RollBack(t) ==
  /\ base' = t.backup
  /\ pc' = "updated" /\ test' = [t EXCEPT !.running = FALSE]
  /\ UNCHANGED <<made, adapter>>

Score ==
  /\ pc = "score"
  /\ \E score \in Scores :
       LET t == [test EXCEPT !.measured = @ \cup {<<sampled.base, score>>}] IN
       \/ test.n = 0 /\ GoOn([t EXCEPT !.best = score, !.backup = base])
       \/ test.n > 0 /\ score > test.best /\ GoOn([t EXCEPT !.best = score, !.backup = base])
       \/ test.n > 0 /\ score = test.best /\ GoOn(t)
       \/ test.n > 0 /\ score < test.best /\ RollBack(t)
  /\ UNCHANGED <<config, task, step, engine, base_sync_done, sampled, random>>

Next ==
  \/ StartTraining \/ LoadCheckpoint \/ GenerateBatch \/ Validate \/ StartTest
  \/ Sample \/ Sleep \/ Update \/ NextStep \/ Score

Spec == Init /\ [][Next]_vars

(* Properties *)

TypeOK ==
  /\ config \in Configs
  /\ pc \in {"built", "loading", "ready", "awake", "sampled", "batch", "test", "score", "updated"}
  /\ task \in {"train", "validate", "test"}
  /\ step \in 0..MaxStep
  /\ made \in Nat /\ base \in 0..made /\ adapter \in 0..made
  /\ engine \in [base : Content, adapter : Versions, awake : BOOLEAN]
  /\ base_sync_done \in BOOLEAN
  /\ sampled \in [base : Content, adapter : Versions]
  /\ rng \in Streams /\ torch_random_states \in Streams /\ gen_random_states \in Streams
  /\ test \in [running : BOOLEAN, n : 0..max_test_iterations, best : Scores \cup {0},
               backup : 0..made, measured : SUBSET (Content \X Scores)]

\* The configurations whose engine serves what it should.  The others: the
\* servers of an asynchronous teacher serve the student; an asynchronous engine
\* that does not free its cache is never synchronised; asynchronous servers of a
\* vector run with dummy weights never get real ones; at sleep level 2 a vector
\* run discards weights it never sends again, and in an iterative test it
\* amplifies weights it never sends; the first samples of a LoRA engine
\* with dummy weights are drawn without the adapter a resumed job has loaded.
Keeps(c) ==
  IF c.off_policy_rollout THEN c.mode = "sync"
  ELSE /\ Switches(c)
       /\ c.adapter = "vector" =>
            /\ c.mode = "async" => c.load_format # "dummy"
            /\ c.free_cache_engine => SleepLevel(c) = 1
            /\ ~c.enable_iterative_test
       /\ c.adapter = "lora" => c.load_format # "dummy"

\* Whatever the update, the sleep level and the adapter, samples are drawn with
\* the parameters the trained model holds at that moment, or with the teacher's.
GeneratesWithCurrentPolicy ==
  pc = "sampled" /\ Keeps(config) =>
    sampled = IF config.off_policy_rollout THEN [base |-> Teacher, adapter |-> 0]
              ELSE [base |-> base, adapter |-> adapter]

\* However often the worker changes modes, the random stream of training comes
\* back as training left it: generation never draws from it, nor training from
\* the one of generation.
TrainingStreamApart ==
  Switches(config) /\ pc # "built" =>
    LET awake == pc \in {"awake", "sampled"}
        training == IF awake THEN torch_random_states ELSE rng
        generation == IF awake THEN rng ELSE gen_random_states
    IN  /\ training.seed = "trainer"
        /\ "generation" \notin training.drawn
        /\ "training" \notin generation.drawn

\* An iterative test ends with parameters that were measured at the best score
\* of the test, also when equal scores were accepted and a worse one rolled back.
KeepsBest ==
  /\ pc = "updated" /\ config.enable_iterative_test
  /\ Keeps(config) /\ ~config.off_policy_rollout
  => /\ <<base, test.best>> \in test.measured
     /\ \A m \in test.measured : m[2] <= test.best
=============================================================================
