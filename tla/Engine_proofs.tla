---------------------------- MODULE Engine_proofs ----------------------------
(***************************************************************************)
(* Theorems about the worker: HybridEngine, for every set of               *)
(* configurations, every number of steps and every score, and              *)
(* ActivationOffload, for every number of layers and micro-batches and any *)
(* memory.  The invariant of HybridEngine says what each kind of engine    *)
(* holds between two synchronisations and what an iterative test has       *)
(* measured so far; that of ActivationOffload says, for each place the     *)
(* host can be at, which blocks are referred to, and for the streams which *)
(* work is queued, what it waits for and which block it was given.         *)
(***************************************************************************)
EXTENDS HybridEngine, ActivationOffload, FiniteSetTheorems, TLAPS


Awake == pc \in {"awake", "sampled"}
Testing == pc \in {"test", "score"} \/ (Awake /\ task = "test")

\* The engines whose base weights are never sent again.
KeepsItsBase ==
  \/ config.adapter = "vector"
  \/ config.adapter = "lora" /\ SleepLevel(config) = 1

TestsOnlyIfEnabled == ~config.enable_iterative_test => ~Testing /\ task # "test"

\* An adapter is trained on weights that do not change.
BaseUntouched ==
  /\ config.adapter = "lora" => base = 0 /\ test.backup = 0
  /\ config.adapter = "vector" /\ ~config.enable_iterative_test => base = 0

EngineKept ==
  Keeps(config) =>
    IF config.off_policy_rollout
    THEN engine.base = Teacher /\ engine.adapter = 0 /\ SleepLevel(config) = 1
    ELSE /\ config.adapter # "none" => base_sync_done
         /\ KeepsItsBase => engine.base = 0
         /\ Awake => engine.base = base /\ engine.adapter = adapter

SampledFromEngine ==
  pc = "sampled" => sampled = [base |-> engine.base, adapter |-> engine.adapter]

StreamsAtFirst ==
  pc = "built" => torch_random_states = Stream("trainer") /\ rng.drawn = {}

MeasuredSoFar ==
  config.enable_iterative_test /\ Keeps(config) /\ ~config.off_policy_rollout =>
    /\ pc = "score" => sampled.base = base
    /\ Testing /\ test.n = 0 => test.measured = {}
    /\ Testing /\ test.n > 0 => /\ <<test.backup, test.best>> \in test.measured
                                /\ \A m \in test.measured : m[2] <= test.best

\* Nothing is trained before the checkpoint is loaded, and no batch is drawn
\* beyond the last step.
InOrder ==
  /\ pc \in {"built", "loading"} => made = 0
  /\ pc = "batch" \/ (Awake /\ task = "train") => step < MaxStep

IInv ==
  /\ TypeOK
  /\ InOrder
  /\ TestsOnlyIfEnabled
  /\ BaseUntouched
  /\ EngineKept
  /\ SampledFromEngine
  /\ StreamsAtFirst
  /\ TrainingStreamApart
  /\ MeasuredSoFar
  /\ KeepsBest

-----------------------------------------------------------------------------
(* Facts about configurations and the two switches. *)

\* What the worker derives from its configuration.
LEMMA Derived ==
  ASSUME TypeOK
  PROVE  /\ config \in ConfigType
         /\ config.enable_iterative_test => config.mode = "sync"
         /\ SleepLevel(config) \in {1, 2}
         /\ BuiltWith(config) \in Content
         /\ Switches(config) \in BOOLEAN
<1>1. config \in ConfigType /\ (config.enable_iterative_test => config.mode = "sync")
  BY ConfigAssumption DEF TypeOK
<1>2. SleepLevel(config) \in {1, 2}
  BY <1>1 DEF SleepLevel, ConfigType
<1>3. BuiltWith(config) \in Content
  BY <1>1 DEF BuiltWith, WorkerLoadFormat, Content, Versions, ConfigType
<1>4. Switches(config) \in BOOLEAN
  BY <1>1 DEF Switches, ConfigType
<1> QED BY <1>1, <1>2, <1>3, <1>4

\* Releasing the engine keeps its adapter, and its base weights at level 1.
LEMMA Releases ==
  ASSUME TypeOK, Release
  PROVE  /\ engine' \in [base : Content, adapter : Versions, awake : BOOLEAN]
         /\ engine'.adapter = engine.adapter
         /\ \/ engine'.base = engine.base
            \/ config.free_cache_engine /\ SleepLevel(config) = 2
<1>1. Gone \in Content
  BY DEF Content
<1> QED BY <1>1 DEF TypeOK, Release

\* A synchronisation replaces what the engine holds by the current parameters,
\* or keeps it.
LEMMA Synchronises ==
  ASSUME TypeOK
  PROVE  /\ Synchronised \in [base : Content, adapter : Versions, awake : BOOLEAN]
         /\ config.off_policy_rollout =>
              Synchronised.base = engine.base /\ Synchronised.adapter = engine.adapter
         /\ Synchronised.base \in {engine.base, base}
         /\ ~config.off_policy_rollout /\ ~VectorOnly
              /\ ~(config.adapter = "lora" /\ base_sync_done /\ SleepLevel(config) = 1)
              => Synchronised.base = base
         /\ ~config.off_policy_rollout /\ ~(config.adapter = "lora" /\ ~base_sync_done)
              => Synchronised.adapter = adapter
<1>1. base \in Content /\ adapter \in Versions
  BY DEF TypeOK, Content, Versions
<1>2. Synchronised.base \in Content /\ Synchronised.adapter \in Versions
  BY <1>1 DEF TypeOK, Synchronised
<1> QED BY <1>1, <1>2 DEF TypeOK, Synchronised

\* Drawing numbers keeps a stream a stream.
LEMMA Draws ==
  ASSUME TypeOK, NEW purpose \in {"training", "generation"},
         rng' = [rng EXCEPT !.drawn = @ \cup {purpose}]
  PROVE  /\ rng' \in Streams
         /\ rng'.seed = rng.seed
         /\ rng'.drawn = rng.drawn \cup {purpose}
BY DEF TypeOK, Streams

-----------------------------------------------------------------------------
(* The invariant at the start. *)

LEMMA Starts == Init => IInv
<1> SUFFICES ASSUME Init PROVE IInv
  OBVIOUS
<1> USE DEF Init
<1>1. config \in ConfigType /\ (config.enable_iterative_test => config.mode = "sync")
  BY ConfigAssumption
<1>2. BuiltWith(config) \in Content
  BY <1>1 DEF BuiltWith, WorkerLoadFormat, Content, Versions, ConfigType
<1>3. TypeOK
  <2>1. engine \in [base : Content, adapter : Versions, awake : BOOLEAN]
    BY <1>2 DEF Versions
  <2>2. sampled \in [base : Content, adapter : Versions]
    BY DEF Content, Versions
  <2>3. rng \in Streams /\ torch_random_states \in Streams /\ gen_random_states \in Streams
    BY DEF Streams, Stream
  <2>4. test \in [running : BOOLEAN, n : 0..max_test_iterations, best : Scores \cup {0},
                  backup : 0..made, measured : SUBSET (Content \X Scores)]
    BY BoundsAssumption DEF NoTest
  <2> QED BY <2>1, <2>2, <2>3, <2>4, BoundsAssumption DEF TypeOK
<1>4. TestsOnlyIfEnabled
  BY DEF TestsOnlyIfEnabled, Testing, Awake
<1>5. BaseUntouched
  BY DEF BaseUntouched, NoTest
<1>6. EngineKept
  <2> SUFFICES ASSUME Keeps(config) PROVE EngineKept
    BY DEF EngineKept
  <2>1. CASE config.off_policy_rollout
    BY <1>1, <2>1 DEF EngineKept, Keeps, BuiltWith, SleepLevel, ConfigType
  <2>2. CASE ~config.off_policy_rollout
    <3>1. config.adapter # "none" => base_sync_done
      BY <1>1, <2>2 DEF Keeps, WorkerLoadFormat, ConfigType
    <3>2. KeepsItsBase => engine.base = 0
      BY <1>1, <2>2 DEF Keeps, KeepsItsBase, BuiltWith, WorkerLoadFormat, ConfigType
    <3> QED BY <2>2, <3>1, <3>2 DEF EngineKept, Awake
  <2> QED BY <2>1, <2>2
<1>7. SampledFromEngine /\ StreamsAtFirst /\ TrainingStreamApart
  BY DEF SampledFromEngine, StreamsAtFirst, TrainingStreamApart, Stream
<1>8. InOrder /\ MeasuredSoFar /\ KeepsBest
  BY DEF InOrder, MeasuredSoFar, KeepsBest, Testing, Awake
<1> QED BY <1>3, <1>4, <1>5, <1>6, <1>7, <1>8 DEF IInv

-----------------------------------------------------------------------------
(* The two switches preserve what they touch. *)

\* Putting the engine to sleep, wherever the worker goes from there.
LEMMA SleepKeeps ==
  ASSUME IInv, UNCHANGED <<config, step, model, base_sync_done, sampled, test, task>>,
         pc \in {"built", "sampled"}, pc' \in {"loading", "batch", "ready", "score"},
         IF Switches(config) THEN TrainerMode ELSE UNCHANGED <<engine, random>>
  PROVE  /\ engine' \in [base : Content, adapter : Versions, awake : BOOLEAN]
         /\ rng' \in Streams /\ torch_random_states' \in Streams /\ gen_random_states' \in Streams
         /\ EngineKept'
         /\ TrainingStreamApart'
<1> USE DEF IInv
<1>0. config \in ConfigType
  BY Derived
<1>1. /\ engine' \in [base : Content, adapter : Versions, awake : BOOLEAN]
      /\ rng' \in Streams /\ torch_random_states' \in Streams /\ gen_random_states' \in Streams
  <2>1. CASE Switches(config)
    BY <2>1, Releases DEF TrainerMode, TypeOK
  <2>2. CASE ~Switches(config)
    BY <2>2 DEF TypeOK, random
  <2> QED BY <2>1, <2>2
<1>2. EngineKept'
  <2> SUFFICES ASSUME Keeps(config) PROVE EngineKept'
    BY DEF EngineKept
  <2>1. ~Awake'
    BY DEF Awake
  <2>2. engine'.adapter = engine.adapter
    BY Releases DEF TrainerMode, random
  <2>3. CASE config.off_policy_rollout
    <3>1. engine'.base = engine.base
      BY <2>3, Releases DEF TrainerMode, random, EngineKept
    <3> QED BY <2>2, <2>3, <3>1 DEF EngineKept
  <2>4. CASE ~config.off_policy_rollout
    <3>1. KeepsItsBase => engine'.base = engine.base
      BY <1>0, <2>4, Releases DEF TrainerMode, random, KeepsItsBase, Keeps
    <3> QED BY <2>1, <2>4, <3>1 DEF EngineKept, KeepsItsBase
  <2> QED BY <2>3, <2>4
<1>3. TrainingStreamApart'
  <2> SUFFICES ASSUME Switches(config) PROVE TrainingStreamApart'
    BY DEF TrainingStreamApart
  <2>1. gen_random_states' = rng /\ rng' = torch_random_states
    BY DEF TrainerMode
  <2>2. CASE pc = "built"
    BY <2>1, <2>2 DEF TrainingStreamApart, StreamsAtFirst, Stream
  <2>3. CASE pc = "sampled"
    BY <2>1, <2>3 DEF TrainingStreamApart
  <2> QED BY <2>2, <2>3
<1> QED BY <1>1, <1>2, <1>3

\* Waking the engine up, whatever for.
LEMMA WakeUpKeeps ==
  ASSUME IInv, NEW for \in {"train", "validate", "test"}, WakeUp(for),
         pc \in {"ready", "updated", "test"},
         for = "test" <=> pc = "test",
         for = "train" => step < MaxStep
  PROVE  IInv'
<1> USE DEF IInv, WakeUp
<1>0. config \in ConfigType
  BY Derived
<1>1. /\ engine' \in [base : Content, adapter : Versions, awake : BOOLEAN]
      /\ base_sync_done' \in BOOLEAN
      /\ rng' \in Streams /\ torch_random_states' \in Streams /\ gen_random_states' \in Streams
  <2>1. CASE Switches(config)
    BY <2>1, Synchronises DEF RolloutMode, TypeOK
  <2>2. CASE ~Switches(config)
    BY <2>2 DEF TypeOK, random
  <2> QED BY <2>1, <2>2
<1>2. TypeOK'
  BY <1>1 DEF TypeOK, model
<1>3. TestsOnlyIfEnabled'
  BY DEF TestsOnlyIfEnabled, Testing, Awake
<1>4. BaseUntouched'
  BY DEF BaseUntouched, model
<1>5. EngineKept'
  <2> SUFFICES ASSUME Keeps(config) PROVE EngineKept'
    BY DEF EngineKept
  <2>1. CASE config.off_policy_rollout
    <3>1. Switches(config)
      BY <2>1 DEF Keeps, Switches
    <3> QED BY <2>1, <3>1, Synchronises DEF EngineKept, RolloutMode
  <2>2. CASE ~config.off_policy_rollout
    <3>1. Switches(config)
      BY <2>2 DEF Keeps
    <3>2. engine' = Synchronised /\ base_sync_done' = TRUE
      BY <3>1 DEF RolloutMode
    <3>3. config.adapter # "none" => base_sync_done
      BY <2>2 DEF EngineKept
    <3>4. engine'.adapter = adapter
      BY <2>2, <3>2, <3>3, Synchronises
    <3>5. CASE KeepsItsBase
      <4>1. engine.base = 0
        BY <2>2, <3>5 DEF EngineKept
      <4>2. base = 0
        <5>1. config.adapter = "vector" => ~config.enable_iterative_test
          BY <2>2 DEF Keeps
        <5> QED BY <5>1, <3>5 DEF BaseUntouched, KeepsItsBase
      <4>3. engine'.base = 0
        BY <4>1, <4>2, <3>2, Synchronises
      <4> QED BY <2>2, <3>2, <3>4, <4>2, <4>3 DEF EngineKept, model
    <3>6. CASE ~KeepsItsBase
      <4>1. ~VectorOnly /\ ~(config.adapter = "lora" /\ base_sync_done /\ SleepLevel(config) = 1)
        BY <3>6 DEF KeepsItsBase, VectorOnly
      <4>2. engine'.base = base
        BY <2>2, <3>2, <4>1, Synchronises
      <4>3. ~KeepsItsBase'
        BY <3>6 DEF KeepsItsBase
      <4> QED BY <2>2, <3>2, <3>4, <4>2, <4>3 DEF EngineKept, model
    <3> QED BY <3>5, <3>6
  <2> QED BY <2>1, <2>2
<1>6. SampledFromEngine' /\ StreamsAtFirst'
  BY DEF SampledFromEngine, StreamsAtFirst
<1>7. TrainingStreamApart'
  <2> SUFFICES ASSUME Switches(config) PROVE TrainingStreamApart'
    BY DEF TrainingStreamApart
  <2>1. torch_random_states' = rng /\ rng' = gen_random_states
    BY DEF RolloutMode
  <2> QED BY <2>1 DEF TrainingStreamApart
<1>8. InOrder' /\ MeasuredSoFar' /\ KeepsBest'
  BY DEF InOrder, MeasuredSoFar, KeepsBest, Testing, Awake, model
<1> QED BY <1>2, <1>3, <1>4, <1>5, <1>6, <1>7, <1>8

-----------------------------------------------------------------------------
(* The test. *)

\* What an amplification leaves of the parameters.
LEMMA Amplifies ==
  ASSUME TypeOK, BaseUntouched, Amplified
  PROVE  /\ made' \in Nat /\ base' \in 0..made' /\ adapter' \in 0..made' /\ 0..made \subseteq 0..made'
         /\ config.adapter = "lora" => base' = base
<1>1. made \in Nat /\ base \in 0..made /\ adapter \in 0..made
  BY DEF TypeOK
<1>2. CASE UNCHANGED model
  BY <1>1, <1>2 DEF model
<1>3. CASE ~UNCHANGED model /\ config.adapter # "lora"
  BY <1>1, <1>3 DEF Amplified, model
<1> QED BY <1>2, <1>3 DEF Amplified

\* Going on with a measured test, or ending it.
LEMMA GoOnKeeps ==
  ASSUME IInv, pc = "score", config.enable_iterative_test,
         UNCHANGED <<config, task, step, engine, base_sync_done, sampled, random>>,
         NEW t, GoOn(t),
         t \in [running : BOOLEAN, n : 0..max_test_iterations, best : Scores \cup {0},
                backup : 0..made, measured : SUBSET (Content \X Scores)],
         config.adapter = "lora" => t.backup = 0,
         Keeps(config) /\ ~config.off_policy_rollout =>
           /\ <<t.backup, t.best>> \in t.measured
           /\ <<base, t.best>> \in t.measured
           /\ \A m \in t.measured : m[2] <= t.best
  PROVE  IInv'
<1> USE DEF IInv
<1>1. CASE t.n < max_test_iterations
  <2>1. pc' = "test" /\ test' = [t EXCEPT !.n = @ + 1] /\ Amplified
    BY <1>1 DEF GoOn
  <2>2. /\ made' \in Nat /\ base' \in 0..made' /\ adapter' \in 0..made'
        /\ 0..made \subseteq 0..made' /\ (config.adapter = "lora" => base' = base)
    BY <2>1, Amplifies
  <2>3. t.n + 1 \in 0..max_test_iterations /\ t.n + 1 > 0
    BY <1>1, BoundsAssumption
  <2>4. test' \in [running : BOOLEAN, n : 0..max_test_iterations, best : Scores \cup {0},
                   backup : 0..made', measured : SUBSET (Content \X Scores)]
    BY <2>1, <2>2, <2>3
  <2>5. TypeOK'
    BY <2>1, <2>2, <2>4 DEF TypeOK, random
  <2>6. TestsOnlyIfEnabled'
    BY DEF TestsOnlyIfEnabled
  <2>7. BaseUntouched'
    BY <2>1, <2>2 DEF BaseUntouched
  <2>8. EngineKept'
    BY <2>1 DEF EngineKept, Awake, KeepsItsBase
  <2>9. SampledFromEngine' /\ StreamsAtFirst' /\ TrainingStreamApart'
    BY <2>1 DEF SampledFromEngine, StreamsAtFirst, TrainingStreamApart, random
  <2>10. InOrder' /\ MeasuredSoFar' /\ KeepsBest'
    BY <2>1, <2>3 DEF InOrder, MeasuredSoFar, KeepsBest, Testing, Awake
  <2> QED BY <2>5, <2>6, <2>7, <2>8, <2>9, <2>10
<1>2. CASE ~(t.n < max_test_iterations)
  <2>1. pc' = "updated" /\ test' = [t EXCEPT !.running = FALSE] /\ UNCHANGED model
    BY <1>2 DEF GoOn
  <2>2. TypeOK'
    BY <2>1 DEF TypeOK, random, model
  <2>3. TestsOnlyIfEnabled'
    BY DEF TestsOnlyIfEnabled
  <2>4. BaseUntouched'
    BY <2>1 DEF BaseUntouched, model
  <2>5. EngineKept'
    BY <2>1 DEF EngineKept, Awake, KeepsItsBase
  <2>6. SampledFromEngine' /\ StreamsAtFirst' /\ TrainingStreamApart'
    BY <2>1 DEF SampledFromEngine, StreamsAtFirst, TrainingStreamApart, random
  <2>7. InOrder' /\ MeasuredSoFar' /\ KeepsBest'
    BY <2>1 DEF InOrder, MeasuredSoFar, KeepsBest, Testing, Awake, model
  <2> QED BY <2>2, <2>3, <2>4, <2>5, <2>6, <2>7
<1> QED BY <1>1, <1>2

\* Rolling a worse amplification back.
LEMMA RollBackKeeps ==
  ASSUME IInv, pc = "score", config.enable_iterative_test,
         UNCHANGED <<config, task, step, engine, base_sync_done, sampled, random>>,
         NEW t, RollBack(t),
         t \in [running : BOOLEAN, n : 0..max_test_iterations, best : Scores \cup {0},
                backup : 0..made, measured : SUBSET (Content \X Scores)],
         config.adapter = "lora" => t.backup = 0,
         Keeps(config) /\ ~config.off_policy_rollout =>
           /\ <<t.backup, t.best>> \in t.measured
           /\ \A m \in t.measured : m[2] <= t.best
  PROVE  IInv'
<1> USE DEF IInv
<1>1. /\ pc' = "updated" /\ test' = [t EXCEPT !.running = FALSE]
      /\ base' = t.backup /\ UNCHANGED <<made, adapter>>
  BY DEF RollBack
<1>2. TypeOK'
  BY <1>1 DEF TypeOK, random
<1>3. TestsOnlyIfEnabled'
  BY DEF TestsOnlyIfEnabled
<1>4. BaseUntouched'
  BY <1>1 DEF BaseUntouched
<1>5. EngineKept'
  BY <1>1 DEF EngineKept, Awake, KeepsItsBase
<1>6. SampledFromEngine' /\ StreamsAtFirst' /\ TrainingStreamApart'
  BY <1>1 DEF SampledFromEngine, StreamsAtFirst, TrainingStreamApart, random
<1>7. InOrder' /\ MeasuredSoFar' /\ KeepsBest'
  BY <1>1 DEF InOrder, MeasuredSoFar, KeepsBest, Testing, Awake
<1> QED BY <1>2, <1>3, <1>4, <1>5, <1>6, <1>7

\* Whatever the score, the test goes on, ends or rolls back as it should.
LEMMA ScoreKeeps == ASSUME IInv, Score PROVE IInv'
<1> USE DEF IInv
<1> PICK score \in Scores :
      LET t == [test EXCEPT !.measured = @ \cup {<<sampled.base, score>>}] IN
      \/ test.n = 0 /\ GoOn([t EXCEPT !.best = score, !.backup = base])
      \/ test.n > 0 /\ score > test.best /\ GoOn([t EXCEPT !.best = score, !.backup = base])
      \/ test.n > 0 /\ score = test.best /\ GoOn(t)
      \/ test.n > 0 /\ score < test.best /\ RollBack(t)
  BY DEF Score
<1> DEFINE t == [test EXCEPT !.measured = @ \cup {<<sampled.base, score>>}]
           u == [t EXCEPT !.best = score, !.backup = base]
           TestType == [running : BOOLEAN, n : 0..max_test_iterations, best : Scores \cup {0},
                        backup : 0..made, measured : SUBSET (Content \X Scores)]
           Good == Keeps(config) /\ ~config.off_policy_rollout
<1>0. UNCHANGED <<config, task, step, engine, base_sync_done, sampled, random>> /\ pc = "score"
  BY DEF Score
<1>1. config.enable_iterative_test
  BY <1>0 DEF TestsOnlyIfEnabled, Testing, TypeOK, ConfigAssumption
<1>2. test \in TestType /\ base \in 0..made /\ sampled.base \in Content
  BY DEF TypeOK
<1>3. t \in TestType
  BY <1>2
<1>4. u \in TestType
  BY <1>2, <1>3
<1>5. (config.adapter = "lora" => t.backup = 0) /\ (config.adapter = "lora" => u.backup = 0)
  BY <1>2 DEF BaseUntouched
<1>6. t.measured = test.measured \cup {<<sampled.base, score>>} /\ u.measured = t.measured
      /\ t.best = test.best /\ t.backup = test.backup /\ u.best = score /\ u.backup = base
  BY <1>2
<1>7. score \in Nat /\ test.best \in Nat /\ \A m \in test.measured : m[2] \in Nat
  BY <1>2, BoundsAssumption
<1>8. Good => sampled.base = base
  BY <1>0, <1>1 DEF MeasuredSoFar
<1> HIDE DEF t, u, TestType
<1>9. CASE test.n = 0 /\ GoOn(u)
  <2>1. Good => test.measured = {}
    BY <1>0, <1>1, <1>9 DEF MeasuredSoFar, Testing
  <2>2. Good => /\ <<u.backup, u.best>> \in u.measured
                /\ <<base, u.best>> \in u.measured
                /\ \A m \in u.measured : m[2] <= u.best
    BY <1>6, <1>7, <1>8, <2>1
  <2> QED BY <1>0, <1>1, <1>4, <1>5, <1>9, <2>2, GoOnKeeps DEF TestType
<1>10. CASE test.n > 0
  <2>1. Good => /\ <<test.backup, test.best>> \in test.measured
                /\ \A m \in test.measured : m[2] <= test.best
    BY <1>0, <1>1, <1>10 DEF MeasuredSoFar, Testing
  <2>2. CASE score > test.best /\ GoOn(u)
    <3>1. Good => /\ <<u.backup, u.best>> \in u.measured
                  /\ <<base, u.best>> \in u.measured
                  /\ \A m \in u.measured : m[2] <= u.best
      BY <1>6, <1>7, <1>8, <2>1, <2>2
    <3> QED BY <1>0, <1>1, <1>4, <1>5, <2>2, <3>1, GoOnKeeps DEF TestType
  <2>3. CASE score = test.best /\ GoOn(t)
    <3>1. Good => /\ <<t.backup, t.best>> \in t.measured
                  /\ <<base, t.best>> \in t.measured
                  /\ \A m \in t.measured : m[2] <= t.best
      BY <1>6, <1>7, <1>8, <2>1, <2>3
    <3> QED BY <1>0, <1>1, <1>3, <1>5, <2>3, <3>1, GoOnKeeps DEF TestType
  <2>4. CASE score < test.best /\ RollBack(t)
    <3>1. Good => /\ <<t.backup, t.best>> \in t.measured
                  /\ \A m \in t.measured : m[2] <= t.best
      BY <1>6, <1>7, <1>8, <2>1, <2>4
    <3> QED BY <1>0, <1>1, <1>3, <1>5, <2>4, <3>1, RollBackKeeps DEF TestType
  <2> QED BY <1>10, <2>2, <2>3, <2>4 DEF t, u
<1> QED BY <1>2, <1>9, <1>10 DEF t, u, TestType

-----------------------------------------------------------------------------
(* The other handlers. *)

\* Leaving the build or the samples for the trainer's mode.
LEMMA StartOrSleepKeeps == ASSUME IInv, StartTraining \/ Sleep PROVE IInv'
<1> USE DEF IInv
<1>1. /\ UNCHANGED <<config, step, model, base_sync_done, sampled, test, task>>
      /\ pc \in {"built", "sampled"} /\ pc' \in {"loading", "batch", "ready", "score"}
      /\ IF Switches(config) THEN TrainerMode ELSE UNCHANGED <<engine, random>>
      /\ pc' = "score" => pc = "sampled" /\ task = "test"
      /\ pc' = "batch" => pc = "sampled" /\ task = "train"
      /\ pc' = "loading" => pc = "built"
  BY DEF StartTraining, Sleep, TypeOK
<1>2. /\ engine' \in [base : Content, adapter : Versions, awake : BOOLEAN]
      /\ rng' \in Streams /\ torch_random_states' \in Streams /\ gen_random_states' \in Streams
      /\ EngineKept' /\ TrainingStreamApart'
  BY <1>1, SleepKeeps
<1>3. TypeOK'
  BY <1>1, <1>2 DEF TypeOK, model
<1>4. TestsOnlyIfEnabled'
  BY <1>1 DEF TestsOnlyIfEnabled, Testing, Awake
<1>5. BaseUntouched'
  BY <1>1 DEF BaseUntouched, model
<1>6. SampledFromEngine' /\ StreamsAtFirst'
  BY <1>1 DEF SampledFromEngine, StreamsAtFirst
<1>7. MeasuredSoFar'
  <2> SUFFICES ASSUME config.enable_iterative_test, Keeps(config), ~config.off_policy_rollout
               PROVE  MeasuredSoFar'
    BY <1>1 DEF MeasuredSoFar
  <2>1. pc' = "score" => sampled.base = base
    BY <1>1 DEF SampledFromEngine, EngineKept, Awake
  <2>2. Testing' => Testing
    BY <1>1 DEF Testing, Awake
  <2> QED BY <1>1, <2>1, <2>2 DEF MeasuredSoFar, model
<1>8. InOrder' /\ KeepsBest'
  BY <1>1 DEF InOrder, KeepsBest, Awake, model
<1> QED BY <1>2, <1>3, <1>4, <1>5, <1>6, <1>7, <1>8

LEMMA LoadKeeps == ASSUME IInv, LoadCheckpoint PROVE IInv'
<1> USE DEF IInv, LoadCheckpoint
<1>0. config \in ConfigType
  BY Derived
<1>1. CASE UNCHANGED model
  <2>1. TypeOK'
    BY <1>1 DEF TypeOK, random, model
  <2> QED BY <1>1, <2>1 DEF InOrder, TestsOnlyIfEnabled, BaseUntouched, EngineKept, SampledFromEngine,
             StreamsAtFirst, TrainingStreamApart, MeasuredSoFar, KeepsBest, Testing, Awake,
             KeepsItsBase, random, model
<1>2. CASE ~UNCHANGED model
  <2>1. /\ made' = 1 /\ base' = IF config.adapter = "none" THEN 1 ELSE 0
        /\ adapter' = IF config.adapter = "none" THEN 0 ELSE 1
    BY <1>2
  <2>2. made = 0
    BY DEF InOrder
  <2>3. test.backup \in 0..made'
    BY <2>1, <2>2 DEF TypeOK
  <2>4. TypeOK'
    BY <2>1, <2>3 DEF TypeOK, random
  <2>5. BaseUntouched'
    BY <2>1 DEF BaseUntouched
  <2> QED BY <2>4, <2>5 DEF InOrder, TestsOnlyIfEnabled, EngineKept, SampledFromEngine,
             StreamsAtFirst, TrainingStreamApart, MeasuredSoFar, KeepsBest, Testing, Awake,
             KeepsItsBase, random
<1> QED BY <1>1, <1>2

LEMMA SampleKeeps == ASSUME IInv, Sample PROVE IInv'
<1> USE DEF IInv, Sample
<1>1. rng' \in Streams /\ rng'.seed = rng.seed /\ rng'.drawn = rng.drawn \cup {"generation"}
  BY Draws
<1>2. TypeOK'
  BY <1>1 DEF TypeOK, model
<1>3. TrainingStreamApart'
  BY <1>1 DEF TrainingStreamApart
<1>4. BaseUntouched'
  BY DEF BaseUntouched, model
<1> QED BY <1>2, <1>3, <1>4 DEF InOrder, TestsOnlyIfEnabled, EngineKept, SampledFromEngine,
           StreamsAtFirst, MeasuredSoFar, KeepsBest, Testing, Awake, KeepsItsBase, model

LEMMA UpdateKeeps == ASSUME IInv, Update PROVE IInv'
<1> USE DEF IInv, Update
<1>0. config \in ConfigType
  BY Derived
<1>1. rng' \in Streams /\ rng'.seed = rng.seed /\ rng'.drawn = rng.drawn \cup {"training"}
  BY Draws
<1>2. test' = [NoTest EXCEPT !.running = config.enable_iterative_test]
  OBVIOUS
<1>3. made' \in Nat /\ base' \in 0..made' /\ adapter' \in 0..made' /\ step' \in 0..MaxStep
  BY BoundsAssumption DEF TypeOK, InOrder
<1>4. test' \in [running : BOOLEAN, n : 0..max_test_iterations, best : Scores \cup {0},
                 backup : 0..made', measured : SUBSET (Content \X Scores)]
  BY <1>0, <1>2, <1>3, BoundsAssumption DEF NoTest, ConfigType
<1>5. TypeOK'
  BY <1>1, <1>3, <1>4 DEF TypeOK
<1>6. TestsOnlyIfEnabled'
  BY DEF InOrder, TestsOnlyIfEnabled, Testing, Awake
<1>7. BaseUntouched'
  BY <1>2 DEF BaseUntouched, NoTest
<1>8. TrainingStreamApart'
  BY <1>1 DEF TrainingStreamApart
<1>9. MeasuredSoFar' /\ KeepsBest'
  BY <1>2 DEF MeasuredSoFar, KeepsBest, NoTest
<1> QED BY <1>5, <1>6, <1>7, <1>8, <1>9 DEF InOrder, EngineKept, SampledFromEngine,
           StreamsAtFirst, Awake, KeepsItsBase

LEMMA NextStepKeeps == ASSUME IInv, NextStep PROVE IInv'
<1> USE DEF IInv, NextStep
<1>1. TypeOK'
  BY DEF TypeOK, random, model
<1> QED BY <1>1 DEF InOrder, TestsOnlyIfEnabled, BaseUntouched, EngineKept, SampledFromEngine,
           StreamsAtFirst, TrainingStreamApart, MeasuredSoFar, KeepsBest, Testing, Awake,
           KeepsItsBase, random, model

LEMMA StutterKeeps == ASSUME IInv, UNCHANGED vars PROVE IInv'
BY DEF vars, IInv, InOrder, TypeOK, TestsOnlyIfEnabled, BaseUntouched, EngineKept, SampledFromEngine,
       StreamsAtFirst, TrainingStreamApart, MeasuredSoFar, KeepsBest, Testing, Awake,
       KeepsItsBase, random, model

-----------------------------------------------------------------------------
(* Theorems. *)

LEMMA Inductive == IInv /\ [Next]_vars => IInv'
<1> SUFFICES ASSUME IInv, [Next]_vars PROVE IInv'
  OBVIOUS
<1>1. CASE StartTraining \/ Sleep BY <1>1, StartOrSleepKeeps
<1>2. CASE LoadCheckpoint BY <1>2, LoadKeeps
<1>3. CASE GenerateBatch BY <1>3, WakeUpKeeps DEF GenerateBatch
<1>4. CASE Validate BY <1>4, WakeUpKeeps DEF Validate
<1>5. CASE StartTest BY <1>5, WakeUpKeeps DEF StartTest
<1>6. CASE Sample BY <1>6, SampleKeeps
<1>7. CASE Update BY <1>7, UpdateKeeps
<1>8. CASE NextStep BY <1>8, NextStepKeeps
<1>9. CASE Score BY <1>9, ScoreKeeps
<1>10. CASE UNCHANGED vars BY <1>10, StutterKeeps
<1> QED BY <1>1, <1>2, <1>3, <1>4, <1>5, <1>6, <1>7, <1>8, <1>9, <1>10 DEF Next

LEMMA Invariant == Spec => []IInv
BY Starts, Inductive, PTL DEF Spec

\* The parameters a worker serves, draws and backs up are versions the training
\* has made, for every configuration (the amplifications of the iterative test
\* and the weights of a discarded engine among them).
THEOREM TypeCorrect == Spec => []TypeOK
BY Invariant, PTL DEF IInv

\* A worker never draws a sample with parameters other than the current ones,
\* in every configuration that Keeps names.
THEOREM AlwaysOnPolicy == Spec => []GeneratesWithCurrentPolicy
<1>1. IInv => GeneratesWithCurrentPolicy
  BY DEF IInv, EngineKept, SampledFromEngine, GeneratesWithCurrentPolicy, Awake
<1> QED BY <1>1, Invariant, PTL

\* The random stream of training and that of generation never mix.
THEOREM AlwaysApart == Spec => []TrainingStreamApart
BY Invariant, PTL DEF IInv

\* An iterative test ends with the best parameters it measured, for any number
\* of amplifications and any scores.
THEOREM AlwaysBest == Spec => []KeepsBest
BY Invariant, PTL DEF IInv

-----------------------------------------------------------------------------
(* Activation offloading: the blocks of device memory.                     *)

USE OffloadAssumption

\* With one group less than layers the window of a group is the layer after it.
LEMMA WindowIsNext == \A i \in Offloadable : Window(i) = i + 1
<1> SUFFICES ASSUME NEW i \in Offloadable PROVE Window(i) = i + 1
  OBVIOUS
<1> DEFINE n == NumLayers - 1
<1>1. n \in Nat /\ n >= 2 /\ NumLayers = n + 1 /\ i \in Nat
  BY DEF Offloadable, num_offload_group
<1>2. (n + 1) \div n = 1 /\ (n + 1) % n = 1
  BY <1>1, SMT
<1> QED BY <1>1, <1>2 DEF Window, num_offload_group

-----------------------------------------------------------------------------
(* The inductive invariant.                                                *)

Typed ==
  /\ pc_host \in {"forward", "commit", "reload", "backward", "done"}
  /\ layer \in Groups
  /\ state \in [Groups -> Slots \cup {NoSlot, OnHost}]
  /\ buf \in [Groups -> Slots \cup {NoSlot}]

\* No block is kept for group g.
Unkept(g) == state[g] \notin Slots /\ buf[g] = NoSlot

Before == IF layer = 0 THEN 0 ELSE layer - 1

Forwards ==
  /\ current_group = layer /\ offloaded_group_count = Before
  /\ layer > 0 => state[layer - 1] \notin Slots

\* The group before is still being copied to the host.
AtForward == Forwards /\ \A g \in Groups : g # layer - 1 => Unkept(g)
AtCommit ==
  /\ Forwards
  /\ \A g \in Groups : g \notin {layer - 1, layer} => Unkept(g)
  /\ state[layer] \in Slots
  /\ buf[layer] = IF layer < num_offload_group THEN state[layer] ELSE NoSlot

\* The group of the layer is back, or was never sent.
AtReload ==
  /\ current_group = layer + 1
  /\ offloaded_group_count = IF layer = 0 THEN 1 ELSE layer
  /\ \A g \in Groups : buf[g] = NoSlot /\ (g # layer => Unkept(g))

\* The one of the layer to follow is on its way too.
AtBackward ==
  /\ current_group = layer
  /\ offloaded_group_count = IF layer = 1 THEN 1 ELSE Before
  /\ \A g \in Groups : buf[g] = NoSlot /\ (g \notin {layer - 1, layer} => Unkept(g))

OffloadIInv ==
  /\ Typed
  /\ pc_host = "forward" => AtForward
  /\ pc_host = "commit" => AtCommit
  /\ pc_host = "reload" => AtReload
  /\ pc_host = "backward" => AtBackward
  /\ pc_host = "done" => \A g \in Groups : Unkept(g)

LEMMA Numbers ==
  /\ NumLayers \in Nat /\ NumLayers >= 3 /\ num_offload_group = NumLayers - 1
  /\ \A g \in Groups : g \in Nat /\ g < NumLayers
  /\ \A g \in Nat : g < NumLayers => g \in Groups
  /\ \A g : g \in Offloadable <=> g \in Nat /\ g < NumLayers - 1
BY DEF Groups, Offloadable, num_offload_group

LEMMA NoSlotIsNone == NoSlot \notin Slots /\ OnHost \notin Slots
BY DEF Slots

LEMMA OffloadStarts == OffloadInit => OffloadIInv
BY Numbers, NoSlotIsNone
   DEF OffloadInit, OffloadIInv, Typed, AtForward, Forwards, Before, Unkept

LEMMA StepForwardLayer == OffloadIInv /\ ForwardLayer => OffloadIInv'
<1> SUFFICES ASSUME OffloadIInv, ForwardLayer PROVE OffloadIInv'
  OBVIOUS
<1> USE Numbers, NoSlotIsNone
<1>1. Typed /\ AtForward /\ layer' = layer /\ pc_host' = "commit"
  BY DEF OffloadIInv, ForwardLayer
<1>2. current_group = layer /\ layer \in Groups
  BY <1>1 DEF AtForward, Forwards, Typed
<1>3. PICK s \in ComputeSlots \ Live :
        /\ state' = [state EXCEPT ![layer] = s]
        /\ buf' = IF layer < num_offload_group THEN [buf EXCEPT ![layer] = s] ELSE buf
  BY <1>2 DEF ForwardLayer
<1>4. s \in Slots
  BY <1>3 DEF Slots
<1>5. Typed'
  BY <1>1, <1>3, <1>4 DEF Typed
<1>6. \A g \in Groups : g # layer => state'[g] = state[g] /\ buf'[g] = buf[g]
  BY <1>1, <1>3 DEF Typed
<1>7. state'[layer] = s
      /\ buf'[layer] = IF layer < num_offload_group THEN s ELSE NoSlot
  BY <1>1, <1>2, <1>3 DEF Typed, AtForward, Unkept
<1>8. Forwards'
  BY <1>1, <1>2, <1>6 DEF AtForward, Forwards, Before, ForwardLayer
<1>9. AtCommit'
  BY <1>1, <1>4, <1>6, <1>7, <1>8 DEF AtCommit, AtForward, Unkept, num_offload_group
<1> QED BY <1>1, <1>5, <1>9 DEF OffloadIInv

\* Which groups are sent when a layer commits: its own, unless it is the last.
LEMMA SentAtCommit ==
  ASSUME OffloadIInv, pc_host = "commit"
  PROVE  /\ AtWindow <=> layer > 0
         /\ NextGroups = IF layer < num_offload_group THEN {layer} ELSE {}
<1> USE Numbers
<1>1. /\ layer \in Nat /\ layer < NumLayers /\ current_group = layer
      /\ offloaded_group_count = Before
  BY DEF OffloadIInv, AtCommit, Forwards, Typed
<1>2. Before \in Offloadable
  BY <1>1 DEF Before
<1>3. Window(offloaded_group_count) = Before + 1
  BY <1>1, <1>2, WindowIsNext
<1>4. AtWindow <=> layer > 0
  BY <1>1, <1>3 DEF AtWindow, Before
<1> QED BY <1>1, <1>4 DEF NextGroups, Before

LEMMA StepCommitForward == OffloadIInv /\ CommitForward => OffloadIInv'
<1> SUFFICES ASSUME OffloadIInv, CommitForward PROVE OffloadIInv'
  OBVIOUS
<1> USE Numbers, NoSlotIsNone
<1>1. Typed /\ AtCommit /\ pc_host = "commit"
  BY DEF OffloadIInv, CommitForward
<1>2. /\ layer \in Groups /\ current_group = layer /\ offloaded_group_count = Before
      /\ AtWindow <=> layer > 0
      /\ NextGroups = IF layer < num_offload_group THEN {layer} ELSE {}
  BY <1>1, SentAtCommit DEF AtCommit, Forwards, Typed
<1>3. /\ current_group' = layer + 1
      /\ offloaded_group_count' = layer
      /\ buf' = IF layer > 0 THEN [buf EXCEPT ![layer - 1] = NoSlot] ELSE buf
      /\ state' = [g \in Groups |-> IF g \in NextGroups THEN OnHost ELSE state[g]]
  BY <1>2 DEF CommitForward, Before
<1>4. Typed'
  <2>1. state' \in [Groups -> Slots \cup {NoSlot, OnHost}] /\ buf' \in [Groups -> Slots \cup {NoSlot}]
    BY <1>1, <1>3 DEF Typed
  <2>2. layer' \in Groups /\ pc_host' \in {"forward", "reload"}
    BY <1>2 DEF CommitForward
  <2> QED BY <2>1, <2>2 DEF Typed
<1>5. \A g \in Groups : g # layer => Unkept(g)'
  <2> SUFFICES ASSUME NEW g \in Groups, g # layer PROVE Unkept(g)'
    OBVIOUS
  <2>1. state'[g] = state[g] /\ state[g] \notin Slots
    BY <1>1, <1>2, <1>3 DEF AtCommit, Forwards, Unkept
  <2>2. buf'[g] = NoSlot
    BY <1>1, <1>2, <1>3 DEF AtCommit, Unkept, Typed
  <2> QED BY <2>1, <2>2 DEF Unkept
<1>6. CASE layer = NumLayers - 1
  <2>1. pc_host' = "reload" /\ layer' = layer
    BY <1>6 DEF CommitForward
  <2>2. buf'[layer] = NoSlot
    BY <1>1, <1>2, <1>3, <1>6 DEF AtCommit, Typed
  <2>3. AtReload'
    BY <1>2, <1>3, <1>5, <1>6, <2>1, <2>2 DEF AtReload, Unkept
  <2> QED BY <1>4, <2>1, <2>3 DEF OffloadIInv
<1>7. CASE layer # NumLayers - 1
  <2>1. pc_host' = "forward" /\ layer' = layer + 1
    BY <1>7 DEF CommitForward
  <2>2. state'[layer] = OnHost
    BY <1>2, <1>3, <1>7
  <2>3. Forwards'
    BY <1>2, <1>3, <2>1, <2>2 DEF Forwards, Before
  <2>4. AtForward'
    BY <1>2, <1>5, <2>1, <2>3 DEF AtForward
  <2> QED BY <1>4, <2>1, <2>4 DEF OffloadIInv
<1> QED BY <1>6, <1>7

\* Which group is fetched when a layer's backward pass begins: the one of the
\* layer to follow.
LEMMA FetchedAtReload ==
  ASSUME OffloadIInv, pc_host = "reload"
  PROVE  /\ current_group - 1 = layer
         /\ Reloads(layer) <=> layer > 0
         /\ layer > 0 => offloaded_group_count = layer
         /\ layer = 0 => offloaded_group_count = 1
<1> USE Numbers
<1>1. /\ layer \in Nat /\ layer < NumLayers /\ current_group = layer + 1
      /\ offloaded_group_count = IF layer = 0 THEN 1 ELSE layer
  BY DEF OffloadIInv, AtReload, Typed
<1>2. offloaded_group_count - 1 \in Offloadable
  BY <1>1
<1>3. Window(offloaded_group_count - 1) = offloaded_group_count
  BY <1>1, <1>2, WindowIsNext
<1> QED BY <1>1, <1>3 DEF Reloads

LEMMA StepCommitBackward == OffloadIInv /\ CommitBackward => OffloadIInv'
<1> SUFFICES ASSUME OffloadIInv, CommitBackward PROVE OffloadIInv'
  OBVIOUS
<1> USE Numbers, NoSlotIsNone
<1>1. Typed /\ AtReload /\ pc_host = "reload"
  BY DEF OffloadIInv, CommitBackward
<1>2. /\ layer \in Groups /\ current_group' = layer /\ layer' = layer
      /\ buf' = buf /\ pc_host' = "backward"
  BY <1>1, FetchedAtReload DEF Typed, CommitBackward
<1>3. CASE layer = 0
  <2>1. state' = state /\ offloaded_group_count' = 0
    BY <1>1, <1>3, FetchedAtReload DEF CommitBackward
  <2>2. Typed' /\ AtBackward'
    BY <1>1, <1>2, <1>3, <2>1 DEF Typed, AtReload, AtBackward, Before, Unkept
  <2> QED BY <1>2, <2>2 DEF OffloadIInv
<1>4. CASE layer > 0
  <2>1. PICK t \in ReloadSlots : state' = [state EXCEPT ![layer - 1] = t]
    BY <1>1, <1>4, FetchedAtReload DEF CommitBackward
  <2>2. offloaded_group_count' = IF layer = 1 THEN 1 ELSE layer - 1
    BY <1>1, <1>2, <1>4, FetchedAtReload DEF CommitBackward
  <2>3. t \in Slots
    BY DEF Slots
  <2>4. Typed'
    BY <1>1, <1>2, <2>1, <2>3 DEF Typed
  <2>5. \A g \in Groups : g \notin {layer - 1, layer} => Unkept(g)'
    BY <1>1, <1>2, <2>1 DEF AtReload, Unkept, Typed
  <2>6. AtBackward'
    BY <1>1, <1>2, <1>4, <2>2, <2>5 DEF AtReload, AtBackward, Before
  <2> QED BY <1>2, <2>4, <2>6 DEF OffloadIInv
<1> QED BY <1>2, <1>3, <1>4

LEMMA StepBackwardLayer == OffloadIInv /\ BackwardLayer => OffloadIInv'
<1> SUFFICES ASSUME OffloadIInv, BackwardLayer PROVE OffloadIInv'
  OBVIOUS
<1> USE Numbers, NoSlotIsNone
<1>1. Typed /\ AtBackward /\ pc_host = "backward"
  BY DEF OffloadIInv, BackwardLayer
<1>2. /\ layer \in Groups /\ current_group = layer
      /\ current_group' = current_group /\ offloaded_group_count' = offloaded_group_count
      /\ state' = [state EXCEPT ![layer] = NoSlot]
      /\ buf' = [buf EXCEPT ![layer] = NoSlot]
  BY <1>1 DEF Typed, AtBackward, BackwardLayer
<1>3. Typed'
  BY <1>1, <1>2 DEF Typed, BackwardLayer
<1>4. \A g \in Groups : buf'[g] = NoSlot /\ (g # layer - 1 => Unkept(g)')
  BY <1>1, <1>2 DEF Typed, AtBackward, Unkept
<1>5. CASE layer > 0
  <2>1. layer' = layer - 1 /\ pc_host' = "reload"
    BY <1>5 DEF BackwardLayer
  <2>2. AtReload'
    BY <1>1, <1>2, <1>4, <1>5, <2>1 DEF AtReload, AtBackward, Before
  <2> QED BY <1>3, <2>1, <2>2 DEF OffloadIInv
<1>6. CASE layer = 0
  <2>1. layer' = 0 /\ pc_host' \in {"forward", "done"}
    BY <1>6 DEF BackwardLayer
  <2>2. \A g \in Groups : Unkept(g)'
    BY <1>2, <1>4, <1>6
  <2>3. Forwards'
    BY <1>1, <1>2, <1>6, <2>1 DEF Forwards, AtBackward, Before
  <2> QED BY <1>3, <2>1, <2>2, <2>3 DEF OffloadIInv, AtForward
<1> QED BY <1>2, <1>5, <1>6

\* What the streams do does not touch the bookkeeping.
LEMMA StepOther ==
  OffloadIInv /\ (Drained \/ (\E d \in Device : Execute(d)) \/ UNCHANGED offload) => OffloadIInv'
BY DEF Drained, Execute, offload, book, OffloadIInv, Typed, AtForward, AtCommit, AtReload,
       AtBackward, Forwards, Before, Unkept

LEMMA OffloadInvariant == OffloadSpec => []OffloadIInv
<1>1. OffloadIInv /\ [OffloadNext]_offload => OffloadIInv'
  BY StepForwardLayer, StepCommitForward, StepCommitBackward, StepBackwardLayer, StepOther
     DEF OffloadNext
<1> QED BY <1>1, OffloadStarts, PTL DEF OffloadSpec

-----------------------------------------------------------------------------
(* The theorem.                                                            *)

LEMMA AtMost ==
  ASSUME NEW x, NEW y, Live \subseteq {x, y}
  PROVE  Cardinality(Live) <= 2
<1>1. IsFiniteSet({x}) /\ Cardinality({x}) = 1
  BY FS_Singleton
<1>2. IsFiniteSet({x, y}) /\ Cardinality({x, y}) <= 2
  <2>1. {x, y} = {x} \cup {y}
    OBVIOUS
  <2>2. /\ IsFiniteSet({x} \cup {y})
        /\ Cardinality({x} \cup {y}) = IF y \in {x} THEN Cardinality({x}) ELSE Cardinality({x}) + 1
    BY <1>1, FS_AddElement
  <2> QED BY <1>1, <2>1, <2>2
<1>3. Cardinality(Live) <= Cardinality({x, y}) /\ Cardinality(Live) \in Nat
  BY <1>2, FS_Subset, FS_CardinalityType
<1> QED BY <1>2, <1>3, FS_CardinalityType

LEMMA FewKept == OffloadIInv => AtMostTwoGroups
<1> SUFFICES ASSUME OffloadIInv PROVE \E x, y : Live \subseteq {x, y}
  BY AtMost DEF AtMostTwoGroups
<1> USE Numbers, NoSlotIsNone
<1>1. \A t \in Live : \E g \in Groups : state[g] = t \/ buf[g] = t
  BY DEF Live
<1>2. \A t \in Live : t \in Slots
  BY DEF Live
<1>3. CASE pc_host = "forward"
  <2>1. ASSUME NEW t \in Live PROVE t = buf[layer - 1]
    <3>1. PICK g \in Groups : state[g] = t \/ buf[g] = t
      BY <1>1
    <3>2. t \in Slots
      BY <1>2
    <3> QED BY <1>3, <3>1, <3>2 DEF OffloadIInv, Typed, AtForward, Forwards, Unkept
  <2> QED BY <2>1
<1>4. CASE pc_host = "commit"
  <2>1. Live \subseteq {buf[layer - 1], state[layer]}
    BY <1>1, <1>2, <1>4 DEF OffloadIInv, Typed, AtCommit, Forwards, Unkept
  <2> QED BY <2>1
<1>5. CASE pc_host = "reload"
  <2>1. Live \subseteq {state[layer]}
    BY <1>1, <1>2, <1>5 DEF OffloadIInv, AtReload, Unkept
  <2> QED BY <2>1
<1>6. CASE pc_host = "backward"
  <2>1. Live \subseteq {state[layer - 1], state[layer]}
    BY <1>1, <1>2, <1>6 DEF OffloadIInv, AtBackward, Unkept
  <2> QED BY <2>1
<1>7. CASE pc_host = "done"
  BY <1>1, <1>2, <1>7 DEF OffloadIInv, Unkept
<1> QED BY <1>3, <1>4, <1>5, <1>6, <1>7 DEF OffloadIInv, Typed

\* "at most two activation groups in GPU memory" (enable_activation_offloading),
\* for every number of layers and micro-batches and any memory.
THEOREM TwoGroupsSuffice == OffloadSpec => []AtMostTwoGroups
BY OffloadInvariant, FewKept, PTL
-----------------------------------------------------------------------------
(* The streams.  Work is numbered from 1 as it is queued on its stream.     *)
(* Every micro-batch queues the same work, so a number says what its work   *)
(* is, in which micro-batch and for which layer (Program); the host queues  *)
(* it in this order (SoFar), a wait orders it with another stream (Synced), *)
(* and a block is given to one piece of work until the last one that needs  *)
(* it is done (BlocksQueued, BlocksHeld).                                   *)

IssuedIn(q, d) == finished[d] + Len(q[d])
ItemIn(q, d, k) == q[d][k - finished[d]]
Issued(d) == IssuedIn(queue, d)
Item(d, k) == ItemIn(queue, d, k)
Pending(d) == (finished[d] + 1)..Issued(d)

Micros == Nat \ {0}
Last == NumLayers - 1
\* Work of a micro-batch on the three streams.
C == 4 * NumLayers - 1
D == 2 * NumLayers - 1
H == 2 * NumLayers - 2
Base(m, n) == (m - 1) * n

\* The numbers of the write and the read of layer i, and of the copies of group g.
Wrote(m, i) == Base(m, C) + (IF i = 0 THEN 1 ELSE 2 * i)
Reads(m, i) == Base(m, C) + C - 2 * i
Saved(m, g) == Base(m, D) + 2 * g + 2
Loads(m, g) == Base(m, H) + H - 2 * g

Work ==
  [op : {"write", "read"}, slot : Slots, value : Micros \X Groups]
  \cup [op : {"save", "load"}, slot : Slots, group : Groups]
  \cup [op : {"wait"}, on : Device, upto : Nat]
StreamsTyped ==
  /\ micro \in Micros
  /\ queue \in [Device -> Seq(Work)]
  /\ finished \in [Device -> Nat]
  /\ DOMAIN content = Slots /\ DOMAIN host = Groups

Waits(x, d, k) == x.op = "wait" /\ x.on = d /\ x.upto = k
\* What the compute stream has of the h2d stream before a layer reads.
LoadedBefore(m, i) == IF i = 0 THEN Loads(m, 0) ELSE Loads(m, i) + 1

ComputeItem(k, x, m, i) ==
  \/ k = Wrote(m, i) /\ x.op = "write" /\ x.value = <<m, i>> /\ x.slot \in ComputeSlots
  \/ i > 0 /\ k = Wrote(m, i) + 1 /\ Waits(x, "d2h", Saved(m, i) - 1)
  \/ k = Reads(m, i) - 1 /\ Waits(x, "h2d", LoadedBefore(m, i))
  \/ k = Reads(m, i) /\ x.op = "read" /\ x.value = <<m, i>>
D2hItem(k, x, m, i) ==
  \/ k = Saved(m, i) - 1 /\ Waits(x, "compute", Wrote(m, i))
  \/ i < Last /\ k = Saved(m, i) /\ x.op = "save" /\ x.group = i
H2dItem(k, x, m, g) ==
  \/ k = Loads(m, g) - 1 /\ Waits(x, "compute", Reads(m, g + 1) - 2)
  \/ k = Loads(m, g) /\ x.op = "load" /\ x.group = g /\ x.slot \in ReloadSlots

Program ==
  /\ \A k \in Pending("compute") : \E m \in Micros, i \in Groups :
       ComputeItem(k, Item("compute", k), m, i)
  /\ \A k \in Pending("d2h") : \E m \in Micros, i \in Groups : D2hItem(k, Item("d2h", k), m, i)
  /\ \A k \in Pending("h2d") : \E m \in Micros, g \in Offloadable : H2dItem(k, Item("h2d", k), m, g)

\* How much is queued wherever the host is.
Queues(c, d, h) == Issued("compute") = c /\ Issued("d2h") = d /\ Issued("h2d") = h
SoFar ==
  /\ pc_host = "forward" =>
       Queues(Base(micro, C) + (IF layer = 0 THEN 0 ELSE 2 * layer - 1),
              Base(micro, D) + 2 * layer, Base(micro, H))
  /\ pc_host = "commit" => Queues(Wrote(micro, layer), Base(micro, D) + 2 * layer, Base(micro, H))
  /\ pc_host = "reload" => Queues(Reads(micro, layer) - 2, Base(micro, D) + D, Loads(micro, layer))
  /\ pc_host = "backward" =>
       Queues(Reads(micro, layer) - 1, Base(micro, D) + D,
              IF layer = 0 THEN Loads(micro, 0) ELSE Loads(micro, layer) + 2)
  /\ pc_host = "done" => Queues(Base(micro, C) + C, Base(micro, D) + D, Base(micro, H) + H)

\* What a stream has waited for.
Synced ==
  \A m \in Micros, i \in Groups :
    /\ i > 0 /\ finished["compute"] >= Wrote(m, i) + 1 => finished["d2h"] >= Saved(m, i) - 1
    /\ finished["compute"] >= Reads(m, i) - 1 => finished["h2d"] >= LoadedBefore(m, i)
    /\ finished["d2h"] >= Saved(m, i) - 1 => finished["compute"] >= Wrote(m, i)
    /\ i < Last /\ finished["h2d"] >= Loads(m, i) - 1 => finished["compute"] >= Reads(m, i + 1) - 2

HostHolds ==
  \A m \in Micros, g \in Offloadable :
    Saved(m, g) <= finished["d2h"] /\ finished["d2h"] < Saved(m + 1, g) => host[g] = <<m, g>>

\* Block s is the one layer i writes in micro-batch m, and the next layer does not.
Written(s, m, i) ==
  /\ s \in ComputeSlots /\ Wrote(m, i) <= Issued("compute")
  /\ finished["compute"] >= Wrote(m, i) => content[s] = <<m, i>>
  /\ Wrote(m, i) \in Pending("compute") => Item("compute", Wrote(m, i)).slot = s
  /\ i < Last /\ Wrote(m, i + 1) \in Pending("compute") => Item("compute", Wrote(m, i + 1)).slot # s
\* Block s is the one group i is copied back to, and the next group is not.
Loaded(s, m, i) ==
  /\ s \in ReloadSlots /\ Loads(m, i) <= Issued("h2d")
  /\ finished["h2d"] >= Loads(m, i) => content[s] = <<m, i>>
  /\ Loads(m, i) \in Pending("h2d") => Item("h2d", Loads(m, i)).slot = s
  /\ i > 0 /\ Loads(m, i - 1) \in Pending("h2d") => Item("h2d", Loads(m, i - 1)).slot # s
Given(s, m, i) == IF i = Last THEN Written(s, m, i) ELSE Loaded(s, m, i)

BlocksQueued ==
  /\ \A m \in Micros, i \in Groups :
       Reads(m, i) \in Pending("compute") => Given(Item("compute", Reads(m, i)).slot, m, i)
  /\ \A m \in Micros, g \in Offloadable :
       Saved(m, g) \in Pending("d2h") => Written(Item("d2h", Saved(m, g)).slot, m, g)
BlocksHeld ==
  /\ pc_host = "forward" /\ layer > 0 /\ Saved(micro, layer - 1) \in Pending("d2h") =>
       Item("d2h", Saved(micro, layer - 1)).slot = buf[layer - 1]
  /\ pc_host = "commit" => Written(state[layer], micro, layer)
  /\ pc_host \in {"reload", "backward"} => Given(state[layer], micro, layer)
  /\ pc_host = "backward" /\ layer > 0 => Given(state[layer - 1], micro, layer - 1)

Coordinated == Program /\ SoFar /\ Synced /\ HostHolds /\ BlocksQueued /\ BlocksHeld

-----------------------------------------------------------------------------
(* Arithmetic of the numbers.                                              *)

LEMMA BaseFacts ==
  ASSUME NEW n \in Nat, NEW m \in Micros
  PROVE  /\ Base(m, n) \in Nat /\ Base(m + 1, n) = Base(m, n) + n /\ Base(1, n) = 0
         /\ \A k \in Micros : m < k => Base(m, n) + n <= Base(k, n)
<1>1. \A a \in Nat, b \in Nat : a * b \in Nat
  OBVIOUS
<1>2. Base(m, n) \in Nat
  <2>1. m - 1 \in Nat
    BY DEF Micros
  <2> QED BY <1>1, <2>1 DEF Base
<1>3. Base(m + 1, n) = Base(m, n) + n
  BY DEF Base, Micros
<1>4. Base(1, n) = 0
  BY DEF Base
<1>5. ASSUME NEW k \in Micros, m < k
      PROVE  Base(m, n) + n <= Base(k, n)
  <2>1. k - 1 - m \in Nat
    BY <1>5 DEF Micros
  <2>2. (k - 1) * n = (k - 1 - m) * n + m * n
    BY DEF Micros
  <2>3. m * n = (m - 1) * n + n
    BY DEF Micros
  <2>4. (k - 1 - m) * n \in Nat
    BY <1>1, <2>1
  <2>5. (m - 1) * n \in Nat /\ (k - 1) * n \in Int
    BY <1>2, <2>2, <2>3, <2>4 DEF Base
  <2> QED BY <2>2, <2>3, <2>4, <2>5 DEF Base
<1> QED BY <1>2, <1>3, <1>4, <1>5

LEMMA SameMicro ==
  ASSUME NEW n \in Nat, NEW m \in Micros, NEW k \in Micros, NEW a \in 1..n, NEW b \in 1..n,
         Base(m, n) + a = Base(k, n) + b
  PROVE  m = k /\ a = b
<1>1. Base(m, n) \in Nat /\ Base(k, n) \in Nat
  BY BaseFacts
<1>2. ~(m < k)
  <2> SUFFICES ASSUME m < k PROVE FALSE
    OBVIOUS
  <2>1. Base(m, n) + n <= Base(k, n)
    BY BaseFacts
  <2> QED BY <1>1, <2>1
<1>3. ~(k < m)
  <2> SUFFICES ASSUME k < m PROVE FALSE
    OBVIOUS
  <2>1. Base(k, n) + n <= Base(m, n)
    BY BaseFacts
  <2> QED BY <1>1, <2>1
<1>4. m = k
  BY <1>2, <1>3 DEF Micros
<1> QED BY <1>1, <1>4

\* The numbers of a micro-batch, on each stream.
OwnWrite(i) == IF i = 0 THEN 1 ELSE 2 * i
OwnRead(i) == C - 2 * i
OwnSave(g) == 2 * g + 2
OwnLoad(g) == H - 2 * g

LEMMA Sizes ==
  /\ C \in Nat /\ D \in Nat /\ H \in Nat /\ Last \in Nat /\ NumLayers \in Nat /\ NumLayers >= 3
  /\ C = 4 * Last + 3 /\ D = 2 * Last + 1 /\ H = 2 * Last /\ NumLayers = Last + 1 /\ Last >= 2
  /\ num_offload_group = Last
  /\ \A i : i \in Groups <=> i \in Nat /\ i <= Last
  /\ \A i : i \in Offloadable <=> i \in Nat /\ i < Last
BY Numbers DEF C, D, H, Last, Groups

LEMMA Owned ==
  ASSUME NEW i \in Groups
  PROVE  /\ OwnWrite(i) \in 1..(2 * Last) /\ OwnRead(i) \in (2 * Last + 3)..C
         /\ i > 0 => OwnWrite(i) + 1 \in 3..(2 * Last + 1) /\ OwnWrite(i) = 2 * i
         /\ OwnSave(i) \in 2..(2 * Last + 2)
         /\ i < Last => OwnSave(i) \in 2..(2 * Last) /\ OwnLoad(i) \in 2..H
         /\ OwnLoad(i) \in 0..H
<1> USE Sizes
<1>1. i \in Nat /\ i <= Last
  OBVIOUS
<1>2. /\ OwnWrite(i) \in 1..(2 * Last)
      /\ i > 0 => OwnWrite(i) + 1 \in 3..(2 * Last + 1) /\ OwnWrite(i) = 2 * i
  BY <1>1 DEF OwnWrite
<1>3. OwnRead(i) \in (2 * Last + 3)..C
  BY <1>1 DEF OwnRead
<1>4. OwnSave(i) \in 2..(2 * Last + 2) /\ (i < Last => OwnSave(i) \in 2..(2 * Last))
  BY <1>1 DEF OwnSave
<1>5. OwnLoad(i) \in 0..H /\ (i < Last => OwnLoad(i) \in 2..H)
  BY <1>1 DEF OwnLoad
<1> QED BY <1>2, <1>3, <1>4, <1>5

LEMMA Numbered ==
  ASSUME NEW m \in Micros, NEW i \in Groups
  PROVE  /\ Wrote(m, i) = Base(m, C) + OwnWrite(i) /\ Reads(m, i) = Base(m, C) + OwnRead(i)
         /\ Saved(m, i) = Base(m, D) + OwnSave(i) /\ Loads(m, i) = Base(m, H) + OwnLoad(i)
         /\ Base(m, C) \in Nat /\ Base(m, D) \in Nat /\ Base(m, H) \in Nat
         /\ Wrote(m, i) \in Nat /\ Reads(m, i) \in Nat /\ Saved(m, i) \in Nat /\ Loads(m, i) \in Nat
<1>1. Base(m, C) \in Nat /\ Base(m, D) \in Nat /\ Base(m, H) \in Nat
  BY Sizes, BaseFacts
<1>2. OwnWrite(i) \in Nat /\ OwnRead(i) \in Nat /\ OwnSave(i) \in Nat /\ OwnLoad(i) \in Nat
  BY Owned, Sizes
<1>3. /\ Wrote(m, i) = Base(m, C) + OwnWrite(i) /\ Reads(m, i) = Base(m, C) + OwnRead(i)
      /\ Saved(m, i) = Base(m, D) + OwnSave(i) /\ Loads(m, i) = Base(m, H) + OwnLoad(i)
  BY <1>1, <1>2, Sizes DEF Wrote, Reads, Saved, Loads, OwnWrite, OwnRead, OwnSave, OwnLoad
<1> QED BY <1>1, <1>2, <1>3

\* No number of the compute stream is given twice.
LEMMA ComputeApart ==
  ASSUME NEW m \in Micros, NEW i \in Groups, NEW k \in Micros, NEW j \in Groups
  PROVE  /\ Wrote(m, i) = Wrote(k, j) => m = k /\ i = j
         /\ Reads(m, i) = Reads(k, j) => m = k /\ i = j
         /\ j > 0 => Wrote(m, i) # Wrote(k, j) + 1
         /\ i > 0 /\ j > 0 /\ Wrote(m, i) + 1 = Wrote(k, j) + 1 => m = k /\ i = j
         /\ Wrote(m, i) # Reads(k, j) - 1 /\ Wrote(m, i) # Reads(k, j)
         /\ i > 0 => Wrote(m, i) + 1 # Reads(k, j) - 1 /\ Wrote(m, i) + 1 # Reads(k, j)
         /\ Reads(m, i) # Reads(k, j) - 1
         /\ Reads(m, i) - 1 = Reads(k, j) - 1 => m = k /\ i = j
<1> USE Sizes
<1>1. /\ Wrote(m, i) = Base(m, C) + OwnWrite(i) /\ Reads(m, i) = Base(m, C) + OwnRead(i)
      /\ Wrote(k, j) = Base(k, C) + OwnWrite(j) /\ Reads(k, j) = Base(k, C) + OwnRead(j)
      /\ Base(m, C) \in Nat /\ Base(k, C) \in Nat
  BY Numbered
<1>2. \A a \in 1..C, b \in 1..C : Base(m, C) + a = Base(k, C) + b => m = k /\ a = b
  BY SameMicro
<1>3. /\ OwnWrite(i) \in 1..C /\ OwnWrite(j) \in 1..C /\ OwnRead(i) \in 1..C /\ OwnRead(j) \in 1..C
      /\ OwnRead(i) - 1 \in 1..C /\ OwnRead(j) - 1 \in 1..C
      /\ OwnWrite(i) + 1 \in 1..C /\ OwnWrite(j) + 1 \in 1..C
  BY Owned
<1>4. /\ OwnWrite(i) = OwnWrite(j) => i = j
      /\ OwnRead(i) = OwnRead(j) => i = j
      /\ j > 0 => OwnWrite(i) # OwnWrite(j) + 1
  BY DEF OwnWrite, OwnRead
<1>5. /\ OwnWrite(i) # OwnRead(j) - 1 /\ OwnWrite(i) # OwnRead(j)
      /\ OwnWrite(i) + 1 # OwnRead(j) /\ OwnWrite(i) + 1 # OwnRead(j) - 1
  BY Owned
<1>6. OwnRead(i) # OwnRead(j) - 1
  BY DEF OwnRead
<1>7. /\ Wrote(m, i) = Wrote(k, j) => m = k /\ i = j
      /\ Reads(m, i) = Reads(k, j) => m = k /\ i = j
  BY <1>1, <1>2, <1>3, <1>4
<1>8. j > 0 => Wrote(m, i) # Wrote(k, j) + 1
  <2>1. Wrote(k, j) + 1 = Base(k, C) + (OwnWrite(j) + 1)
    BY <1>1, <1>3
  <2> QED BY <1>1, <1>2, <1>3, <1>4, <2>1
<1>9. /\ Wrote(m, i) # Reads(k, j) - 1 /\ Wrote(m, i) # Reads(k, j)
      /\ Wrote(m, i) + 1 # Reads(k, j) - 1 /\ Wrote(m, i) + 1 # Reads(k, j)
  <2>1. /\ Wrote(m, i) + 1 = Base(m, C) + (OwnWrite(i) + 1)
        /\ Reads(k, j) - 1 = Base(k, C) + (OwnRead(j) - 1)
    BY <1>1, <1>3
  <2> QED BY <1>1, <1>2, <1>3, <1>5, <2>1
<1>10. Reads(m, i) # Reads(k, j) - 1
  <2>1. Reads(k, j) - 1 = Base(k, C) + (OwnRead(j) - 1)
    BY <1>1, <1>3
  <2> QED BY <1>1, <1>2, <1>3, <1>6, <2>1
<1>11. /\ Wrote(m, i) + 1 = Wrote(k, j) + 1 => Wrote(m, i) = Wrote(k, j)
       /\ Reads(m, i) - 1 = Reads(k, j) - 1 => Reads(m, i) = Reads(k, j)
  BY <1>1, <1>3
<1> QED BY <1>7, <1>8, <1>9, <1>10, <1>11

LEMMA CopiesApart ==
  ASSUME NEW m \in Micros, NEW i \in Groups, NEW k \in Micros, NEW j \in Groups
  PROVE  /\ i < Last /\ j < Last /\ Saved(m, i) = Saved(k, j) => m = k /\ i = j
         /\ Saved(m, i) - 1 = Saved(k, j) - 1 => m = k /\ i = j
         /\ i < Last => Saved(m, i) # Saved(k, j) - 1
         /\ i < Last /\ j < Last /\ Loads(m, i) = Loads(k, j) => m = k /\ i = j
         /\ i < Last /\ j < Last => Loads(m, i) # Loads(k, j) - 1
<1> USE Sizes
<1>1. /\ Saved(m, i) = Base(m, D) + OwnSave(i) /\ Loads(m, i) = Base(m, H) + OwnLoad(i)
      /\ Saved(k, j) = Base(k, D) + OwnSave(j) /\ Loads(k, j) = Base(k, H) + OwnLoad(j)
      /\ Base(m, D) \in Nat /\ Base(k, D) \in Nat /\ Base(m, H) \in Nat /\ Base(k, H) \in Nat
  BY Numbered
<1>2. \A a \in 1..D, b \in 1..D : Base(m, D) + a = Base(k, D) + b => m = k /\ a = b
  BY SameMicro
<1>3. \A a \in 1..H, b \in 1..H : Base(m, H) + a = Base(k, H) + b => m = k /\ a = b
  BY SameMicro
<1>4. /\ OwnSave(i) - 1 \in 1..D /\ OwnSave(j) - 1 \in 1..D
      /\ i < Last => OwnSave(i) \in 1..D /\ OwnLoad(i) \in 1..H
      /\ j < Last => OwnSave(j) \in 1..D /\ OwnLoad(j) \in 1..H /\ OwnLoad(j) - 1 \in 1..H
      /\ OwnSave(i) \in Int /\ OwnSave(j) \in Int /\ OwnLoad(i) \in Int /\ OwnLoad(j) \in Int
  BY Owned
<1>5. /\ OwnSave(i) = OwnSave(j) => i = j
      /\ OwnLoad(i) = OwnLoad(j) => i = j
      /\ OwnSave(i) - 1 = OwnSave(j) - 1 => i = j
      /\ OwnSave(i) # OwnSave(j) - 1 /\ OwnLoad(i) # OwnLoad(j) - 1
  BY DEF OwnSave, OwnLoad
<1>6. /\ Saved(k, j) - 1 = Base(k, D) + (OwnSave(j) - 1)
      /\ Saved(m, i) - 1 = Base(m, D) + (OwnSave(i) - 1)
      /\ Loads(k, j) - 1 = Base(k, H) + (OwnLoad(j) - 1)
  BY <1>1, <1>4
<1>7. /\ i < Last /\ j < Last /\ Saved(m, i) = Saved(k, j) => m = k /\ i = j
      /\ Saved(m, i) - 1 = Saved(k, j) - 1 => m = k /\ i = j
      /\ i < Last => Saved(m, i) # Saved(k, j) - 1
  BY <1>1, <1>2, <1>4, <1>5, <1>6
<1>8. /\ i < Last /\ j < Last /\ Loads(m, i) = Loads(k, j) => m = k /\ i = j
      /\ i < Last /\ j < Last => Loads(m, i) # Loads(k, j) - 1
  BY <1>1, <1>3, <1>4, <1>5, <1>6
<1> QED BY <1>7, <1>8

-----------------------------------------------------------------------------
(* What a number says of the work, and how queues change.                  *)

LEMMA OnCompute ==
  ASSUME Program, NEW m \in Micros, NEW i \in Groups
  PROVE  /\ Wrote(m, i) \in Pending("compute") =>
              LET x == Item("compute", Wrote(m, i))
              IN  x.op = "write" /\ x.value = <<m, i>> /\ x.slot \in ComputeSlots
         /\ i > 0 /\ Wrote(m, i) + 1 \in Pending("compute") =>
              Waits(Item("compute", Wrote(m, i) + 1), "d2h", Saved(m, i) - 1)
         /\ Reads(m, i) - 1 \in Pending("compute") =>
              Waits(Item("compute", Reads(m, i) - 1), "h2d", LoadedBefore(m, i))
         /\ Reads(m, i) \in Pending("compute") =>
              LET x == Item("compute", Reads(m, i)) IN x.op = "read" /\ x.value = <<m, i>>
<1>1. ASSUME NEW k, k \in Pending("compute")
      PROVE  \E n \in Micros, j \in Groups : ComputeItem(k, Item("compute", k), n, j)
  BY <1>1 DEF Program
<1>2. ASSUME Wrote(m, i) \in Pending("compute")
      PROVE  LET x == Item("compute", Wrote(m, i))
             IN  x.op = "write" /\ x.value = <<m, i>> /\ x.slot \in ComputeSlots
  <2>1. PICK n \in Micros, j \in Groups :
          ComputeItem(Wrote(m, i), Item("compute", Wrote(m, i)), n, j)
    BY <1>1, <1>2
  <2> QED BY <2>1, ComputeApart DEF ComputeItem
<1>3. ASSUME i > 0, Wrote(m, i) + 1 \in Pending("compute")
      PROVE  Waits(Item("compute", Wrote(m, i) + 1), "d2h", Saved(m, i) - 1)
  <2>1. PICK n \in Micros, j \in Groups :
          ComputeItem(Wrote(m, i) + 1, Item("compute", Wrote(m, i) + 1), n, j)
    BY <1>1, <1>3
  <2> QED BY <1>3, <2>1, ComputeApart DEF ComputeItem
<1>4. ASSUME Reads(m, i) - 1 \in Pending("compute")
      PROVE  Waits(Item("compute", Reads(m, i) - 1), "h2d", LoadedBefore(m, i))
  <2>1. PICK n \in Micros, j \in Groups :
          ComputeItem(Reads(m, i) - 1, Item("compute", Reads(m, i) - 1), n, j)
    BY <1>1, <1>4
  <2> QED BY <2>1, ComputeApart DEF ComputeItem
<1>5. ASSUME Reads(m, i) \in Pending("compute")
      PROVE  LET x == Item("compute", Reads(m, i)) IN x.op = "read" /\ x.value = <<m, i>>
  <2>1. PICK n \in Micros, j \in Groups :
          ComputeItem(Reads(m, i), Item("compute", Reads(m, i)), n, j)
    BY <1>1, <1>5
  <2> QED BY <2>1, ComputeApart DEF ComputeItem
<1> QED BY <1>2, <1>3, <1>4, <1>5

LEMMA OnD2h ==
  ASSUME Program, NEW m \in Micros, NEW i \in Groups
  PROVE  /\ Saved(m, i) - 1 \in Pending("d2h") =>
              Waits(Item("d2h", Saved(m, i) - 1), "compute", Wrote(m, i))
         /\ i < Last /\ Saved(m, i) \in Pending("d2h") =>
              Item("d2h", Saved(m, i)).op = "save" /\ Item("d2h", Saved(m, i)).group = i
<1>1. ASSUME Saved(m, i) - 1 \in Pending("d2h")
      PROVE  Waits(Item("d2h", Saved(m, i) - 1), "compute", Wrote(m, i))
  <2>1. PICK n \in Micros, j \in Groups :
          D2hItem(Saved(m, i) - 1, Item("d2h", Saved(m, i) - 1), n, j)
    BY <1>1 DEF Program
  <2> QED BY <2>1, CopiesApart DEF D2hItem
<1>2. ASSUME i < Last, Saved(m, i) \in Pending("d2h")
      PROVE  Item("d2h", Saved(m, i)).op = "save" /\ Item("d2h", Saved(m, i)).group = i
  <2>1. PICK n \in Micros, j \in Groups : D2hItem(Saved(m, i), Item("d2h", Saved(m, i)), n, j)
    BY <1>2 DEF Program
  <2> QED BY <1>2, <2>1, CopiesApart DEF D2hItem
<1> QED BY <1>1, <1>2

LEMMA OnH2d ==
  ASSUME Program, NEW m \in Micros, NEW g \in Offloadable
  PROVE  /\ Loads(m, g) - 1 \in Pending("h2d") =>
              Waits(Item("h2d", Loads(m, g) - 1), "compute", Reads(m, g + 1) - 2)
         /\ Loads(m, g) \in Pending("h2d") =>
              LET x == Item("h2d", Loads(m, g))
              IN  x.op = "load" /\ x.group = g /\ x.slot \in ReloadSlots
<1>0. /\ g \in Groups /\ g < Last
      /\ \A j \in Offloadable : j \in Groups /\ j < Last
  BY Sizes
<1>1. ASSUME Loads(m, g) - 1 \in Pending("h2d")
      PROVE  Waits(Item("h2d", Loads(m, g) - 1), "compute", Reads(m, g + 1) - 2)
  <2>1. PICK n \in Micros, j \in Offloadable :
          H2dItem(Loads(m, g) - 1, Item("h2d", Loads(m, g) - 1), n, j)
    BY <1>1 DEF Program
  <2>2. /\ Loads(m, g) - 1 # Loads(n, j)
        /\ Loads(m, g) - 1 = Loads(n, j) - 1 => m = n /\ g = j
    <3>1. Loads(m, g) \in Nat /\ Loads(n, j) \in Nat
      BY <1>0, Numbered
    <3> QED BY <1>0, <3>1, CopiesApart
  <2> QED BY <2>1, <2>2 DEF H2dItem
<1>2. ASSUME Loads(m, g) \in Pending("h2d")
      PROVE  LET x == Item("h2d", Loads(m, g))
             IN  x.op = "load" /\ x.group = g /\ x.slot \in ReloadSlots
  <2>1. PICK n \in Micros, j \in Offloadable : H2dItem(Loads(m, g), Item("h2d", Loads(m, g)), n, j)
    BY <1>2 DEF Program
  <2> QED BY <1>0, <2>1, CopiesApart DEF H2dItem
<1> QED BY <1>1, <1>2

\* Work is queued behind the work there.
LEMMA QueuedAt ==
  ASSUME finished \in [Device -> Nat], NEW q \in [Device -> Seq(Work)], NEW d \in Device, NEW x \in Work
  PROVE  /\ Queued(q, d, x) \in [Device -> Seq(Work)]
         /\ IssuedIn(Queued(q, d, x), d) = IssuedIn(q, d) + 1
         /\ \A e \in Device : e # d => IssuedIn(Queued(q, d, x), e) = IssuedIn(q, e)
         /\ \A e \in Device : IssuedIn(q, e) \in Nat
         /\ \A e \in Device : \A k \in (finished[e] + 1)..IssuedIn(q, e) :
              ItemIn(Queued(q, d, x), e, k) = ItemIn(q, e, k)
         /\ ItemIn(Queued(q, d, x), d, IssuedIn(q, d) + 1) = x
<1> DEFINE r == Queued(q, d, x)
<1>1. r = [q EXCEPT ![d] = Append(q[d], x)]
  BY DEF Queued
<1>2. r[d] = Append(q[d], x) /\ \A e \in Device : e # d => r[e] = q[e]
  BY <1>1
<1>3. \A e \in Device : q[e] \in Seq(Work) /\ Len(q[e]) \in Nat /\ finished[e] \in Nat
  OBVIOUS
<1>4. /\ Append(q[d], x) \in Seq(Work) /\ Len(Append(q[d], x)) = Len(q[d]) + 1
      /\ \A j \in 1..Len(q[d]) : Append(q[d], x)[j] = q[d][j]
      /\ Append(q[d], x)[Len(q[d]) + 1] = x
  BY <1>3
<1>5. r \in [Device -> Seq(Work)]
  BY <1>1, <1>4
<1> HIDE DEF r
<1>6. /\ IssuedIn(r, d) = IssuedIn(q, d) + 1
      /\ \A e \in Device : e # d => IssuedIn(r, e) = IssuedIn(q, e)
      /\ \A e \in Device : IssuedIn(q, e) \in Nat
  <2>1. IssuedIn(r, d) = finished[d] + (Len(q[d]) + 1)
    BY <1>2, <1>4 DEF IssuedIn
  <2>2. IssuedIn(r, d) = IssuedIn(q, d) + 1
    BY <1>3, <2>1 DEF IssuedIn
  <2>3. \A e \in Device : e # d => IssuedIn(r, e) = IssuedIn(q, e)
    BY <1>2 DEF IssuedIn
  <2>4. \A e \in Device : IssuedIn(q, e) \in Nat
    BY <1>3 DEF IssuedIn
  <2> QED BY <2>2, <2>3, <2>4
<1>7. ASSUME NEW e \in Device, NEW k \in (finished[e] + 1)..IssuedIn(q, e)
      PROVE  ItemIn(r, e, k) = ItemIn(q, e, k)
  <2>1. k - finished[e] \in 1..Len(q[e])
    BY <1>3 DEF IssuedIn
  <2> QED BY <1>2, <1>4, <2>1 DEF ItemIn
<1>8. ItemIn(r, d, IssuedIn(q, d) + 1) = x
  <2> SUFFICES ASSUME NEW k \in Nat, k = IssuedIn(q, d) + 1
               PROVE  ItemIn(r, d, k) = x
    BY <1>6
  <2>1. k - finished[d] = Len(q[d]) + 1
    BY <1>3 DEF IssuedIn
  <2> QED BY <1>2, <1>4, <2>1 DEF ItemIn
<1> QED BY <1>5, <1>6, <1>7, <1>8 DEF r

LEMMA NextPosition ==
  ASSUME NEW f \in Nat, NEW n \in Nat, NEW k \in (f + 1 + 1)..(f + n)
  PROVE  k - (f + 1) \in 1..(n - 1) /\ (k - (f + 1)) + 1 = k - f
OBVIOUS

\* A stream finishes its first work.
LEMMA Executed ==
  ASSUME StreamsTyped, NEW d \in Device, Execute(d)
  PROVE  /\ finished[d] + 1 \in Pending(d) /\ Head(queue[d]) = Item(d, finished[d] + 1)
         /\ finished' \in [Device -> Nat] /\ queue' \in [Device -> Seq(Work)]
         /\ finished'[d] = finished[d] + 1
         /\ \A e \in Device : e # d => finished'[e] = finished[e]
         /\ \A e \in Device : Issued(e)' = Issued(e)
         /\ \A e \in Device : \A k : k \in Pending(e)' =>
              k \in Pending(e) /\ Item(e, k)' = Item(e, k) /\ k # finished[e] + (IF e = d THEN 1 ELSE 0)
<1>1. /\ queue[d] # <<>> /\ queue' = [queue EXCEPT ![d] = Tail(queue[d])]
      /\ finished' = [finished EXCEPT ![d] = finished[d] + 1]
  BY DEF Execute
<1>2. \A e \in Device : queue[e] \in Seq(Work) /\ Len(queue[e]) \in Nat /\ finished[e] \in Nat
  BY DEF StreamsTyped
<1>3. /\ Len(queue[d]) >= 1 /\ Head(queue[d]) = queue[d][1] /\ Tail(queue[d]) \in Seq(Work)
      /\ Len(Tail(queue[d])) = Len(queue[d]) - 1
      /\ \A j \in 1..(Len(queue[d]) - 1) : Tail(queue[d])[j] = queue[d][j + 1]
  BY <1>1, <1>2
<1>4. /\ queue' \in [Device -> Seq(Work)] /\ queue'[d] = Tail(queue[d])
      /\ \A e \in Device : e # d => queue'[e] = queue[e]
      /\ finished' \in [Device -> Nat] /\ finished'[d] = finished[d] + 1
      /\ \A e \in Device : e # d => finished'[e] = finished[e]
  BY <1>1, <1>2, <1>3 DEF StreamsTyped
<1>5. finished[d] + 1 \in Pending(d) /\ Head(queue[d]) = Item(d, finished[d] + 1)
  <2>1. finished[d] + 1 - finished[d] = 1
    BY <1>2
  <2> QED BY <1>2, <1>3, <2>1 DEF Pending, Issued, IssuedIn, Item, ItemIn
<1>6. \A e \in Device : Issued(e)' = Issued(e)
  <2>1. Issued(d)' = (finished[d] + 1) + (Len(queue[d]) - 1)
    BY <1>3, <1>4 DEF Issued, IssuedIn
  <2>2. Issued(d)' = Issued(d)
    <3>1. Issued(d) = finished[d] + Len(queue[d])
      BY DEF Issued, IssuedIn
    <3>2. finished[d] \in Nat /\ Len(queue[d]) \in Nat
      BY <1>2
    <3> QED BY <2>1, <3>1, <3>2
  <2>3. \A e \in Device : e # d => Issued(e)' = Issued(e)
    BY <1>4 DEF Issued, IssuedIn
  <2> QED BY <2>2, <2>3
<1>7. ASSUME NEW e \in Device, NEW k, k \in Pending(e)'
      PROVE  k \in Pending(e) /\ Item(e, k)' = Item(e, k) /\ k # finished[e] + (IF e = d THEN 1 ELSE 0)
  <2>1. k \in (finished'[e] + 1)..Issued(e)
    BY <1>6, <1>7 DEF Pending
  <2>2. CASE e = d
    <3>1. k \in Pending(d) /\ k # finished[d] + 1
      BY <1>2, <1>4, <2>1, <2>2 DEF Pending, Issued, IssuedIn
    <3>2. /\ k - finished'[d] \in 1..(Len(queue[d]) - 1)
          /\ (k - finished'[d]) + 1 = k - finished[d]
      <4>1. /\ finished'[d] = finished[d] + 1 /\ finished[d] \in Nat /\ Len(queue[d]) \in Nat
            /\ k \in (finished[d] + 1 + 1)..(finished[d] + Len(queue[d]))
        BY <1>2, <1>4, <2>1, <2>2 DEF Issued, IssuedIn
      <4>2. /\ k - (finished[d] + 1) \in 1..(Len(queue[d]) - 1)
            /\ (k - (finished[d] + 1)) + 1 = k - finished[d]
        BY <4>1, NextPosition
      <4> QED BY <4>1, <4>2
    <3>3. Item(d, k)' = Item(d, k)
      BY <1>3, <1>4, <3>2 DEF Item, ItemIn
    <3> QED BY <2>2, <3>1, <3>3
  <2>3. CASE e # d
    <3>1. k \in Pending(e) /\ k # finished[e]
      BY <1>2, <1>4, <2>1, <2>3 DEF Pending, Issued, IssuedIn
    <3> QED BY <1>4, <2>3, <3>1 DEF Item, ItemIn
  <2> QED BY <2>2, <2>3
<1> QED BY <1>4, <1>5, <1>6, <1>7

-----------------------------------------------------------------------------
(* A block keeps what it holds while a stream goes on.                     *)

LEMMA WaitMet ==
  ASSUME NEW d \in Device, Execute(d), StreamsTyped, NEW e, NEW k,
         Waits(Item(d, finished[d] + 1), e, k)
  PROVE  finished[e] >= k /\ content' = content /\ host' = host
<1>1. Head(queue[d]) = Item(d, finished[d] + 1)
  BY Executed
<1> QED BY <1>1 DEF Execute, Waits

\* What work of each stream does to the blocks and to the host's copies.
LEMMA Effect ==
  ASSUME NEW d \in Device, Execute(d), StreamsTyped, NEW x, x = Item(d, finished[d] + 1)
  PROVE  /\ x.op = "write" => content' = [content EXCEPT ![x.slot] = x.value] /\ host' = host
         /\ x.op = "load" => content' = [content EXCEPT ![x.slot] = host[x.group]] /\ host' = host
         /\ x.op = "save" => content' = content /\ host' = [host EXCEPT ![x.group] = content[x.slot]]
         /\ x.op = "read" => content' = content /\ host' = host
<1>1. Head(queue[d]) = x
  BY Executed
<1> QED BY <1>1 DEF Execute

LEMMA WrittenStays ==
  ASSUME StreamsTyped, Program, NEW d \in Device, Execute(d),
         NEW s, NEW m \in Micros, NEW i \in Groups, Written(s, m, i),
         \A n \in Micros, j \in Groups :
           d = "compute" /\ Wrote(n, j) = finished["compute"] + 1 /\ Wrote(m, i) < Wrote(n, j) =>
             Item("compute", Wrote(n, j)).slot # s
  PROVE  Written(s, m, i)'
<1> DEFINE k == finished[d] + 1
           x == Item(d, k)
<1>0. /\ k \in Pending(d) /\ finished[d] \in Nat /\ finished["compute"] \in Nat
      /\ finished'[d] = k /\ (d # "compute" => finished'["compute"] = finished["compute"])
  BY Executed DEF StreamsTyped, Device
<1>1. s \in ComputeSlots /\ s \in DOMAIN content
  BY DEF Written, StreamsTyped, Slots
<1>2. /\ Wrote(m, i) <= Issued("compute")'
      /\ Wrote(m, i) \in Pending("compute")' => Item("compute", Wrote(m, i))'.slot = s
      /\ i < Last /\ Wrote(m, i + 1) \in Pending("compute")' => Item("compute", Wrote(m, i + 1))'.slot # s
  <2>1. Issued("compute")' = Issued("compute") /\ (Wrote(m, i) <= Issued("compute"))'
    BY Executed DEF Written, Device, Wrote, Base
  <2> QED BY <2>1, Executed DEF Written, Device
<1>3. ASSUME finished'["compute"] >= Wrote(m, i)
      PROVE  content'[s] = <<m, i>>
  <2>0. Wrote(m, i) \in Nat
    BY Numbered
  <2>1. CASE d = "compute"
    <3>1. PICK n \in Micros, j \in Groups : ComputeItem(k, x, n, j)
      BY <1>0, <2>1 DEF Program
    <3>2. CASE Wrote(m, i) = k
      <4>1. x.op = "write" /\ x.value = <<m, i>> /\ x.slot = s
        BY <1>0, <2>1, <3>2, OnCompute DEF Written
      <4> QED BY <1>1, <4>1, Effect
    <3>3. CASE Wrote(m, i) # k
      <4>1. Wrote(m, i) <= finished["compute"] /\ Wrote(m, i) < k
        BY <1>0, <1>3, <2>0, <2>1, <3>3
      <4>2. content[s] = <<m, i>>
        BY <1>0, <2>0, <4>1 DEF Written
      <4>3. CASE x.op = "write"
        <5>1. k = Wrote(n, j)
          BY <3>1, <4>3 DEF ComputeItem, Waits
        <5>2. x.slot # s
          BY <2>1, <4>1, <5>1
        <5> QED BY <1>1, <4>2, <4>3, <5>2, Effect
      <4>4. CASE x.op # "write"
        <5>1. x.op \in {"wait", "read"}
          BY <3>1, <4>4 DEF ComputeItem, Waits
        <5>2. content' = content
          BY <3>1, <4>4, <5>1, Effect, WaitMet DEF ComputeItem
        <5> QED BY <4>2, <5>2
      <4> QED BY <4>3, <4>4
    <3> QED BY <3>2, <3>3
  <2>2. CASE d # "compute"
    <3>1. content[s] = <<m, i>>
      BY <1>0, <1>3, <2>2 DEF Written
    <3>2. CASE d = "d2h"
      <4>1. PICK n \in Micros, j \in Groups : D2hItem(k, x, n, j)
        BY <1>0, <3>2 DEF Program
      <4>2. content' = content
        BY <4>1, Effect, WaitMet DEF D2hItem
      <4> QED BY <3>1, <4>2
    <3>3. CASE d = "h2d"
      <4>1. PICK n \in Micros, j \in Offloadable : H2dItem(k, x, n, j)
        BY <1>0, <3>3 DEF Program
      <4>2. content' = content \/ \E y : content' = [content EXCEPT ![x.slot] = y] /\ x.slot \in ReloadSlots
        BY <4>1, Effect, WaitMet DEF H2dItem
      <4> QED BY <1>1, <3>1, <4>2, OffloadAssumption
    <3> QED BY <2>2, <3>2, <3>3 DEF Device
  <2> QED BY <2>1, <2>2
<1> QED BY <1>1, <1>2, <1>3 DEF Written

LEMMA LoadedStays ==
  ASSUME StreamsTyped, Program, NEW d \in Device, Execute(d),
         NEW s, NEW m \in Micros, NEW i \in Offloadable, Loaded(s, m, i),
         d = "h2d" /\ Loads(m, i) = finished["h2d"] + 1 => host[i] = <<m, i>>,
         \A n \in Micros, j \in Offloadable :
           d = "h2d" /\ Loads(n, j) = finished["h2d"] + 1 /\ Loads(m, i) < Loads(n, j) =>
             Item("h2d", Loads(n, j)).slot # s
  PROVE  Loaded(s, m, i)'
<1> DEFINE k == finished[d] + 1
           x == Item(d, k)
<1>0. /\ k \in Pending(d) /\ finished[d] \in Nat /\ finished["h2d"] \in Nat
      /\ finished'[d] = k /\ (d # "h2d" => finished'["h2d"] = finished["h2d"])
  BY Executed DEF StreamsTyped, Device
<1>1. s \in ReloadSlots /\ s \in DOMAIN content
  BY DEF Loaded, StreamsTyped, Slots
<1>2. /\ Loads(m, i) <= Issued("h2d")'
      /\ Loads(m, i) \in Pending("h2d")' => Item("h2d", Loads(m, i))'.slot = s
      /\ i > 0 /\ Loads(m, i - 1) \in Pending("h2d")' => Item("h2d", Loads(m, i - 1))'.slot # s
  <2>1. Issued("h2d")' = Issued("h2d") /\ (Loads(m, i) <= Issued("h2d"))'
    BY Executed DEF Loaded, Device, Loads, Base
  <2> QED BY <2>1, Executed DEF Loaded, Device
<1>3. ASSUME finished'["h2d"] >= Loads(m, i)
      PROVE  content'[s] = <<m, i>>
  <2>0. Loads(m, i) \in Nat
    BY Numbered, Sizes
  <2>1. CASE d = "h2d"
    <3>1. PICK n \in Micros, j \in Offloadable : H2dItem(k, x, n, j)
      BY <1>0, <2>1 DEF Program
    <3>2. CASE Loads(m, i) = k
      <4>1. x.op = "load" /\ x.group = i /\ x.slot = s
        BY <1>0, <2>1, <3>2, OnH2d DEF Loaded
      <4>2. host[i] = <<m, i>>
        BY <2>1, <3>2
      <4> QED BY <1>1, <4>1, <4>2, Effect
    <3>3. CASE Loads(m, i) # k
      <4>1. Loads(m, i) <= finished["h2d"] /\ Loads(m, i) < k
        BY <1>0, <1>3, <2>0, <2>1, <3>3
      <4>2. content[s] = <<m, i>>
        BY <1>0, <2>0, <4>1 DEF Loaded
      <4>3. CASE x.op = "load"
        <5>1. k = Loads(n, j)
          BY <3>1, <4>3 DEF H2dItem, Waits
        <5>2. x.slot # s
          BY <2>1, <4>1, <5>1
        <5> QED BY <1>1, <4>2, <4>3, <5>2, Effect
      <4>4. CASE x.op # "load"
        <5>1. content' = content
          BY <3>1, <4>4, WaitMet DEF H2dItem
        <5> QED BY <4>2, <5>1
      <4> QED BY <4>3, <4>4
    <3> QED BY <3>2, <3>3
  <2>2. CASE d # "h2d"
    <3>1. content[s] = <<m, i>>
      BY <1>0, <1>3, <2>2 DEF Loaded
    <3>2. CASE d = "d2h"
      <4>1. PICK n \in Micros, j \in Groups : D2hItem(k, x, n, j)
        BY <1>0, <3>2 DEF Program
      <4>2. content' = content
        BY <4>1, Effect, WaitMet DEF D2hItem
      <4> QED BY <3>1, <4>2
    <3>3. CASE d = "compute"
      <4>1. PICK n \in Micros, j \in Groups : ComputeItem(k, x, n, j)
        BY <1>0, <3>3 DEF Program
      <4>2. content' = content \/ \E y : content' = [content EXCEPT ![x.slot] = y] /\ x.slot \in ComputeSlots
        BY <4>1, Effect, WaitMet DEF ComputeItem
      <4> QED BY <1>1, <3>1, <4>2, OffloadAssumption
    <3> QED BY <2>2, <3>2, <3>3 DEF Device
  <2> QED BY <2>1, <2>2
<1> QED BY <1>1, <1>2, <1>3 DEF Loaded

-----------------------------------------------------------------------------
(* The order of the numbers.                                               *)

LEMMA WriteOrder ==
  ASSUME NEW m \in Micros, NEW i \in Groups, NEW n \in Micros, NEW j \in Groups,
         Wrote(m, i) < Wrote(n, j)
  PROVE  /\ i = Last => Reads(m, i) < Wrote(n, j)
         /\ i < Last => (n = m /\ j = i + 1) \/ Wrote(m, i + 1) + 1 < Wrote(n, j)
<1> USE Sizes
<1>1. /\ Wrote(m, i) = Base(m, C) + OwnWrite(i) /\ Reads(m, i) = Base(m, C) + OwnRead(i)
      /\ Wrote(n, j) = Base(n, C) + OwnWrite(j)
      /\ i < Last => i + 1 \in Groups /\ Wrote(m, i + 1) = Base(m, C) + OwnWrite(i + 1)
      /\ Base(m, C) \in Nat /\ Base(n, C) \in Nat
  BY Numbered
<1>2. /\ OwnWrite(i) \in 1..C /\ OwnWrite(j) \in 1..(2 * Last) /\ OwnRead(i) \in 1..C
      /\ i < Last => OwnWrite(i + 1) \in 1..(2 * Last) /\ OwnWrite(i + 1) = 2 * i + 2
  BY <1>1, Owned
<1>3. CASE m = n
  <2>1. OwnWrite(i) < OwnWrite(j)
    BY <1>1, <1>2, <1>3
  <2>2. i < j
    BY <2>1 DEF OwnWrite
  <2>3. j > 0 /\ OwnWrite(j) = 2 * j
    BY <2>2 DEF OwnWrite
  <2> QED BY <1>1, <1>2, <1>3, <2>2, <2>3
<1>4. CASE m < n
  <2>1. Base(m, C) + C <= Base(n, C)
    BY <1>4, BaseFacts
  <2> QED BY <1>1, <1>2, <2>1
<1>5. CASE n < m
  <2>1. Base(n, C) + C <= Base(m, C)
    BY <1>5, BaseFacts
  <2> QED BY <1>1, <1>2, <2>1
<1> QED BY <1>3, <1>4, <1>5 DEF Micros

LEMMA LoadOrder ==
  ASSUME NEW m \in Micros, NEW i \in Offloadable, NEW n \in Micros, NEW j \in Offloadable,
         Loads(m, i) < Loads(n, j)
  PROVE  \/ n = m /\ i > 0 /\ j = i - 1
         \/ Reads(m, i) <= Reads(n, j + 1) - 2 /\ (i > 0 => Loads(m, i) + 2 < Loads(n, j))
<1> USE Sizes
<1>1. i \in Groups /\ j \in Groups /\ j + 1 \in Groups /\ i < Last /\ j < Last
  OBVIOUS
<1>2. /\ Loads(m, i) = Base(m, H) + OwnLoad(i) /\ Loads(n, j) = Base(n, H) + OwnLoad(j)
      /\ Reads(m, i) = Base(m, C) + OwnRead(i) /\ Reads(n, j + 1) = Base(n, C) + OwnRead(j + 1)
      /\ Base(m, H) \in Nat /\ Base(n, H) \in Nat /\ Base(m, C) \in Nat /\ Base(n, C) \in Nat
  BY <1>1, Numbered
<1>3. /\ OwnLoad(i) = H - 2 * i /\ OwnLoad(j) = H - 2 * j
      /\ OwnRead(i) = C - 2 * i /\ OwnRead(j + 1) = C - 2 * (j + 1)
  BY DEF OwnLoad, OwnRead
<1>4. CASE m = n
  BY <1>1, <1>2, <1>3, <1>4
<1>5. CASE m < n
  <2>1. Base(m, C) + C <= Base(n, C) /\ Base(m, H) + H <= Base(n, H)
    BY <1>5, BaseFacts
  <2>2. Reads(m, i) <= Base(m, C) + C /\ Reads(n, j + 1) - 2 >= Base(n, C)
    BY <1>1, <1>2, <1>3
  <2>3. Reads(m, i) \in Int /\ Reads(n, j + 1) \in Int
    BY <1>1, <1>2, <1>3
  <2>4. Reads(m, i) <= Reads(n, j + 1) - 2
    BY <1>2, <2>1, <2>2, <2>3
  <2>5. i > 0 => Loads(m, i) + 2 < Loads(n, j)
    BY <1>1, <1>2, <1>3, <2>1
  <2> QED BY <2>4, <2>5
<1>6. CASE n < m
  <2>1. Base(n, H) + H <= Base(m, H)
    BY <1>6, BaseFacts
  <2> QED BY <1>1, <1>2, <1>3, <2>1
<1> QED BY <1>4, <1>5, <1>6 DEF Micros

-----------------------------------------------------------------------------
(* A stream goes on: nothing of the invariant is lost.                     *)

LEMMA ExecuteSynced ==
  ASSUME StreamsTyped, Coordinated, NEW d \in Device, Execute(d)
  PROVE  Synced'
<1> DEFINE k == finished[d] + 1
           x == Item(d, k)
<1>0. /\ k \in Pending(d) /\ finished'[d] = k /\ finished' \in [Device -> Nat]
      /\ \A e \in Device : finished[e] \in Nat /\ (e # d => finished'[e] = finished[e])
      /\ \A e \in Device : finished'[e] \in Nat /\ finished'[e] >= finished[e]
      /\ {"compute", "d2h", "h2d"} = Device
  BY Executed DEF StreamsTyped, Device
<1> SUFFICES ASSUME NEW m \in Micros, NEW i \in Groups
    PROVE  /\ i > 0 /\ finished'["compute"] >= Wrote(m, i) + 1 => finished'["d2h"] >= Saved(m, i) - 1
           /\ finished'["compute"] >= Reads(m, i) - 1 => finished'["h2d"] >= LoadedBefore(m, i)
           /\ finished'["d2h"] >= Saved(m, i) - 1 => finished'["compute"] >= Wrote(m, i)
           /\ i < Last /\ finished'["h2d"] >= Loads(m, i) - 1 => finished'["compute"] >= Reads(m, i + 1) - 2
  BY DEF Synced
<1> USE Sizes
<1>1. /\ Wrote(m, i) \in Nat /\ Reads(m, i) \in Nat /\ Saved(m, i) \in Nat /\ Loads(m, i) \in Nat
      /\ Loads(m, 0) \in Nat /\ LoadedBefore(m, i) \in Nat
      /\ i < Last => Reads(m, i + 1) \in Nat
  BY Numbered DEF LoadedBefore
<1>2. ASSUME i > 0, finished'["compute"] >= Wrote(m, i) + 1
      PROVE  finished'["d2h"] >= Saved(m, i) - 1
  <2>1. CASE finished["compute"] >= Wrote(m, i) + 1
    <3>1. finished["d2h"] >= Saved(m, i) - 1
      BY <1>2, <2>1 DEF Coordinated, Synced
    <3> QED BY <1>0, <1>1, <3>1
  <2>2. CASE ~(finished["compute"] >= Wrote(m, i) + 1)
    <3>1. d = "compute" /\ k = Wrote(m, i) + 1
      BY <1>0, <1>1, <1>2, <2>2
    <3>2. finished["d2h"] >= Saved(m, i) - 1
      BY <1>0, <1>2, <3>1, OnCompute, WaitMet DEF Coordinated
    <3> QED BY <1>0, <1>1, <3>2
  <2> QED BY <2>1, <2>2
<1>3. ASSUME finished'["compute"] >= Reads(m, i) - 1
      PROVE  finished'["h2d"] >= LoadedBefore(m, i)
  <2>1. CASE finished["compute"] >= Reads(m, i) - 1
    <3>1. finished["h2d"] >= LoadedBefore(m, i)
      BY <2>1 DEF Coordinated, Synced
    <3> QED BY <1>0, <1>1, <3>1
  <2>2. CASE ~(finished["compute"] >= Reads(m, i) - 1)
    <3>1. d = "compute" /\ k = Reads(m, i) - 1
      BY <1>0, <1>1, <1>3, <2>2
    <3>2. finished["h2d"] >= LoadedBefore(m, i)
      BY <1>0, <3>1, OnCompute, WaitMet DEF Coordinated
    <3> QED BY <1>0, <1>1, <3>2
  <2> QED BY <2>1, <2>2
<1>4. ASSUME finished'["d2h"] >= Saved(m, i) - 1
      PROVE  finished'["compute"] >= Wrote(m, i)
  <2>1. CASE finished["d2h"] >= Saved(m, i) - 1
    <3>1. finished["compute"] >= Wrote(m, i)
      BY <2>1 DEF Coordinated, Synced
    <3> QED BY <1>0, <1>1, <3>1
  <2>2. CASE ~(finished["d2h"] >= Saved(m, i) - 1)
    <3>1. d = "d2h" /\ k = Saved(m, i) - 1
      BY <1>0, <1>1, <1>4, <2>2
    <3>2. finished["compute"] >= Wrote(m, i)
      BY <1>0, <3>1, OnD2h, WaitMet DEF Coordinated
    <3> QED BY <1>0, <1>1, <3>2
  <2> QED BY <2>1, <2>2
<1>5. ASSUME i < Last, finished'["h2d"] >= Loads(m, i) - 1
      PROVE  finished'["compute"] >= Reads(m, i + 1) - 2
  <2>1. CASE finished["h2d"] >= Loads(m, i) - 1
    <3>1. finished["compute"] >= Reads(m, i + 1) - 2
      BY <1>5, <2>1 DEF Coordinated, Synced
    <3> QED BY <1>0, <1>1, <1>5, <3>1
  <2>2. CASE ~(finished["h2d"] >= Loads(m, i) - 1)
    <3>1. d = "h2d" /\ k = Loads(m, i) - 1
      BY <1>0, <1>1, <1>5, <2>2
    <3>2. i \in Offloadable
      BY <1>5
    <3>3. finished["compute"] >= Reads(m, i + 1) - 2
      BY <1>0, <3>1, <3>2, OnH2d, WaitMet DEF Coordinated
    <3> QED BY <1>0, <1>1, <1>5, <3>3
  <2> QED BY <2>1, <2>2
<1> QED BY <1>2, <1>3, <1>4, <1>5

\* A load finds the copy of its own micro-batch on the host: the save has been waited
\* for, and the next micro-batch's save waits for what follows the load.
LEMMA LoadFinds ==
  ASSUME StreamsTyped, Coordinated, NEW m \in Micros, NEW g \in Offloadable,
         Loads(m, g) = finished["h2d"] + 1
  PROVE  host[g] = <<m, g>>
<1> USE Sizes
<1>0. g \in Groups /\ g < Last /\ g + 1 \in Groups /\ Last \in Groups /\ 0 \in Groups /\ m + 1 \in Micros
      /\ finished["compute"] \in Nat /\ finished["d2h"] \in Nat /\ finished["h2d"] \in Nat
  <2>1. m + 1 \in Micros
    BY DEF Micros
  <2>2. finished["compute"] \in Nat /\ finished["d2h"] \in Nat /\ finished["h2d"] \in Nat
    BY DEF StreamsTyped, Device
  <2> QED BY <2>1, <2>2
<1>1. /\ Wrote(m, Last) = Base(m, C) + 2 * Last /\ Reads(m, g + 1) = Base(m, C) + C - 2 * (g + 1)
      /\ Reads(m, 0) = Base(m, C) + C
      /\ Wrote(m + 1, g) >= Base(m, C) + C + 1 /\ Wrote(m + 1, g) \in Nat
      /\ Base(m, C) \in Nat
  <2>1. Base(m + 1, C) = Base(m, C) + C /\ Base(m, C) \in Nat
    BY BaseFacts
  <2>2. Wrote(m + 1, g) = Base(m + 1, C) + OwnWrite(g) /\ OwnWrite(g) \in 1..(2 * Last)
    BY <1>0, Numbered, Owned
  <2> QED BY <1>0, <2>1, <2>2 DEF Wrote, Reads
<1>2. /\ Saved(m, g) = Base(m, D) + 2 * g + 2 /\ Saved(m, Last) = Base(m, D) + 2 * Last + 2
      /\ Base(m, D) \in Nat /\ Saved(m + 1, g) \in Nat
  BY <1>0, BaseFacts, Numbered DEF Saved
<1>3. Loads(m, g) = Base(m, H) + H - 2 * g /\ Loads(m, 0) = Base(m, H) + H /\ Base(m, H) \in Nat
  BY <1>0, BaseFacts DEF Loads
<1>4. finished["d2h"] >= Saved(m, g)
  <2>1. finished["compute"] >= Reads(m, g + 1) - 2
    BY <1>0, <1>3 DEF Coordinated, Synced
  <2>2. finished["compute"] >= Wrote(m, Last) + 1
    BY <1>0, <1>1, <2>1
  <2>3. finished["d2h"] >= Saved(m, Last) - 1
    BY <1>0, <2>2 DEF Coordinated, Synced
  <2> QED BY <1>0, <1>2, <2>3
<1>5. finished["d2h"] < Saved(m + 1, g)
  <2> SUFFICES ASSUME finished["d2h"] >= Saved(m + 1, g) - 1 PROVE FALSE
    BY <1>0, <1>2
  <2>1. finished["compute"] >= Wrote(m + 1, g)
    BY <1>0 DEF Coordinated, Synced
  <2>2. finished["compute"] >= Reads(m, 0) - 1
    BY <1>0, <1>1, <2>1
  <2>3. finished["h2d"] >= Loads(m, 0)
    BY <1>0, <2>2 DEF Coordinated, Synced, LoadedBefore
  <2> QED BY <1>0, <1>3, <2>3
<1> QED BY <1>2, <1>4, <1>5 DEF Coordinated, HostHolds

LEMMA ExecuteHostHolds ==
  ASSUME StreamsTyped, Coordinated, NEW d \in Device, Execute(d)
  PROVE  HostHolds'
<1> DEFINE k == finished[d] + 1
           x == Item(d, k)
<1> USE Sizes
<1>0. /\ k \in Pending(d) /\ finished'[d] = k /\ finished[d] \in Nat
      /\ d # "d2h" => finished'["d2h"] = finished["d2h"]
      /\ Program
  BY Executed DEF StreamsTyped, Device, Coordinated
<1> SUFFICES ASSUME NEW m \in Micros, NEW g \in Offloadable,
                    Saved(m, g) <= finished'["d2h"], finished'["d2h"] < Saved(m + 1, g)
             PROVE  host'[g] = <<m, g>>
  BY DEF HostHolds
<1>1. g \in Groups /\ g < Last /\ Saved(m, g) \in Nat /\ m + 1 \in Micros /\ Saved(m + 1, g) \in Nat
  BY Numbered DEF Micros
<1>2. CASE d = "compute"
  <2>1. PICK n \in Micros, j \in Groups : ComputeItem(k, x, n, j)
    BY <1>0, <1>2 DEF Program
  <2>2. host' = host
    BY <2>1, Effect, WaitMet DEF ComputeItem
  <2> QED BY <1>0, <1>2, <2>2 DEF Coordinated, HostHolds
<1>3. CASE d = "h2d"
  <2>1. PICK n \in Micros, j \in Offloadable : H2dItem(k, x, n, j)
    BY <1>0, <1>3 DEF Program
  <2>2. host' = host
    BY <2>1, Effect, WaitMet DEF H2dItem
  <2> QED BY <1>0, <1>3, <2>2 DEF Coordinated, HostHolds
<1>4. CASE d = "d2h"
  <2>1. PICK n \in Micros, j \in Groups : D2hItem(k, x, n, j)
    BY <1>0, <1>4 DEF Program
  <2>2. CASE k = Saved(n, j) - 1 /\ Waits(x, "compute", Wrote(n, j))
    <3>1. host' = host /\ k # Saved(m, g)
      <4>1. host' = host
        BY <2>2, WaitMet
      <4>2. k # Saved(m, g)
        BY <1>1, <2>2, CopiesApart
      <4> QED BY <4>1, <4>2
    <3>2. Saved(m, g) <= finished["d2h"] /\ finished["d2h"] < Saved(m + 1, g)
      BY <1>0, <1>1, <1>4, <3>1
    <3> QED BY <3>1, <3>2 DEF Coordinated, HostHolds
  <2>3. CASE j < Last /\ k = Saved(n, j) /\ x.op = "save" /\ x.group = j
    <3>1. host' = [host EXCEPT ![j] = content[x.slot]]
      BY <2>3, Effect
    <3>2. CASE j = g
      <4>1. Written(x.slot, n, j)
        BY <1>0, <1>4, <2>3 DEF Coordinated, BlocksQueued
      <4>2. finished["compute"] >= Wrote(n, j)
        <5>1. finished["d2h"] >= Saved(n, j) - 1
          BY <1>0, <1>4, <2>3
        <5> QED BY <5>1 DEF Coordinated, Synced
      <4>3. host'[g] = <<n, g>>
        BY <3>1, <3>2, <4>1, <4>2, <1>1 DEF Written, StreamsTyped
      <4>4. n = m
        <5>1. /\ Saved(n, g) = Base(n, D) + OwnSave(g) /\ Saved(m, g) = Base(m, D) + OwnSave(g)
              /\ Saved(m + 1, g) = Base(m + 1, D) + OwnSave(g) /\ Base(m + 1, D) = Base(m, D) + D
              /\ Base(m, D) \in Nat /\ Base(n, D) \in Nat /\ OwnSave(g) \in Nat
          BY <1>1, Numbered, BaseFacts, Owned
        <5>2. Base(m, D) <= Base(n, D) /\ Base(n, D) < Base(m, D) + D
          BY <1>0, <1>4, <2>3, <3>2, <5>1
        <5>3. m < n => Base(m, D) + D <= Base(n, D)
          BY BaseFacts
        <5>4. n < m => Base(n, D) + D <= Base(m, D)
          BY BaseFacts
        <5> QED BY <5>1, <5>2, <5>3, <5>4 DEF Micros
      <4> QED BY <4>3, <4>4
    <3>3. CASE j # g
      <4>1. k # Saved(m, g)
        BY <1>1, <2>3, <3>3, CopiesApart
      <4>2. Saved(m, g) <= finished["d2h"] /\ finished["d2h"] < Saved(m + 1, g)
        BY <1>0, <1>1, <1>4, <4>1
      <4>3. host[g] = <<m, g>>
        BY <4>2 DEF Coordinated, HostHolds
      <4> QED BY <1>1, <3>1, <3>3, <4>3 DEF StreamsTyped
    <3> QED BY <3>2, <3>3
  <2> QED BY <2>1, <2>2, <2>3 DEF D2hItem
<1> QED BY <1>2, <1>3, <1>4 DEF Device

LEMMA ExecuteBlocksQueued ==
  ASSUME StreamsTyped, Coordinated, NEW d \in Device, Execute(d)
  PROVE  BlocksQueued'
<1> DEFINE k == finished[d] + 1
<1> USE Sizes
<1>0. /\ finished["compute"] \in Nat /\ finished["d2h"] \in Nat /\ finished["h2d"] \in Nat
      /\ finished[d] \in Nat /\ Program /\ {"compute", "d2h", "h2d"} = Device
      /\ \A e \in Device : \A l : l \in Pending(e)' =>
           l \in Pending(e) /\ Item(e, l)' = Item(e, l) /\ l # finished[e] + (IF e = d THEN 1 ELSE 0)
  BY Executed DEF StreamsTyped, Device, Coordinated
<1>1. ASSUME NEW m \in Micros, NEW i \in Groups, Reads(m, i) \in Pending("compute")'
      PROVE  Given(Item("compute", Reads(m, i)).slot, m, i)'
  <2>0. PICK s : s = Item("compute", Reads(m, i)).slot
    OBVIOUS
  <2>1. /\ Reads(m, i) \in Pending("compute") /\ Item("compute", Reads(m, i))' = Item("compute", Reads(m, i))
        /\ d = "compute" => Reads(m, i) # finished["compute"] + 1
    BY <1>0, <1>1
  <2>2. Given(s, m, i)
    BY <2>0, <2>1 DEF Coordinated, BlocksQueued
  <2>3. /\ Reads(m, i) \in Nat /\ Reads(m, i) > finished["compute"]
        /\ d = "compute" => Reads(m, i) > finished["compute"] + 1
    BY <1>0, <2>1, Numbered DEF Pending
  <2>4. Given(s, m, i)'
    <3>1. CASE i = Last
      <4>1. Written(s, m, i)
        BY <2>2, <3>1 DEF Given
      <4>2. ASSUME NEW n \in Micros, NEW j \in Groups,
                   d = "compute", Wrote(n, j) = finished["compute"] + 1, Wrote(m, i) < Wrote(n, j)
            PROVE  FALSE
        <5>1. Reads(m, i) < Wrote(n, j)
          BY <3>1, <4>2, WriteOrder
        <5> QED BY <1>0, <2>3, <4>2, <5>1
      <4>3. Written(s, m, i)'
        BY <1>0, <4>1, <4>2, WrittenStays
      <4> QED BY <3>1, <4>3 DEF Given
    <3>2. CASE i # Last
      <4>0. i \in Offloadable
        BY <3>2
      <4>1. Loaded(s, m, i)
        BY <2>2, <3>2 DEF Given
      <4>2. d = "h2d" /\ Loads(m, i) = finished["h2d"] + 1 => host[i] = <<m, i>>
        BY <4>0, LoadFinds
      <4>3. ASSUME NEW n \in Micros, NEW j \in Offloadable,
                   d = "h2d", Loads(n, j) = finished["h2d"] + 1, Loads(m, i) < Loads(n, j)
            PROVE  Item("h2d", Loads(n, j)).slot # s
        <5>1. CASE n = m /\ i > 0 /\ j = i - 1
          <6>1. Loads(m, i - 1) \in Pending("h2d")
            BY <1>0, <4>3, <5>1, Executed
          <6> QED BY <4>1, <5>1, <6>1 DEF Loaded
        <5>2. CASE Reads(m, i) <= Reads(n, j + 1) - 2
          <6>1. finished["h2d"] >= Loads(n, j) - 1 /\ j \in Groups /\ j < Last /\ j + 1 \in Groups
            BY <1>0, <4>3
          <6>2. finished["compute"] >= Reads(n, j + 1) - 2 /\ Reads(n, j + 1) \in Nat
            BY <6>1, Numbered DEF Coordinated, Synced
          <6> QED BY <1>0, <2>3, <5>2, <6>2
        <5> QED BY <4>0, <4>3, <5>1, <5>2, LoadOrder
      <4>4. Loaded(s, m, i)'
        BY <1>0, <4>0, <4>1, <4>2, <4>3, LoadedStays
      <4> QED BY <3>2, <4>4 DEF Given
    <3> QED BY <3>1, <3>2
  <2> QED BY <2>0, <2>1, <2>4
<1>2. ASSUME NEW m \in Micros, NEW g \in Offloadable, Saved(m, g) \in Pending("d2h")'
      PROVE  Written(Item("d2h", Saved(m, g)).slot, m, g)'
  <2>9. PICK s : s = Item("d2h", Saved(m, g)).slot
    OBVIOUS
  <2>0. g \in Groups /\ g < Last /\ g + 1 \in Groups
    OBVIOUS
  <2>1. Saved(m, g) \in Pending("d2h") /\ Item("d2h", Saved(m, g))' = Item("d2h", Saved(m, g))
    BY <1>0, <1>2
  <2>2. Written(s, m, g)
    BY <2>1, <2>9 DEF Coordinated, BlocksQueued
  <2>3. Saved(m, g) \in Nat /\ Saved(m, g) > finished["d2h"]
    BY <1>0, <2>0, <2>1, Numbered DEF Pending
  <2>5. ASSUME NEW n \in Micros, NEW j \in Groups,
               d = "compute", Wrote(n, j) = finished["compute"] + 1, Wrote(m, g) < Wrote(n, j)
        PROVE  Item("compute", Wrote(n, j)).slot # s
    <3>1. CASE n = m /\ j = g + 1
      <4>1. Wrote(m, g + 1) \in Pending("compute")
        BY <1>0, <2>5, <3>1, Executed
      <4> QED BY <2>0, <2>2, <3>1, <4>1 DEF Written
    <3>2. CASE Wrote(m, g + 1) + 1 < Wrote(n, j)
      <4>1. Wrote(m, g + 1) \in Nat /\ Saved(m, g + 1) = Saved(m, g) + 2
        BY <2>0, <2>3, Numbered, BaseFacts DEF Saved
      <4>2. finished["compute"] >= Wrote(m, g + 1) + 1
        BY <1>0, <2>5, <3>2, <4>1
      <4>3. finished["d2h"] >= Saved(m, g + 1) - 1
        BY <2>0, <4>2 DEF Coordinated, Synced
      <4> QED BY <1>0, <2>3, <4>1, <4>3
    <3> QED BY <2>0, <2>5, <3>1, <3>2, WriteOrder
  <2>6. Written(s, m, g)'
    BY <1>0, <2>0, <2>2, <2>5, WrittenStays
  <2> QED BY <2>1, <2>6, <2>9
<1> QED BY <1>1, <1>2 DEF BlocksQueued

\* The block of a layer that has been given one stays so, if no later work of the stream
\* that fills blocks of its kind is queued.
LEMMA GivenStays ==
  ASSUME StreamsTyped, Coordinated, NEW d \in Device, Execute(d),
         NEW s, NEW m \in Micros, NEW i \in Groups, Given(s, m, i),
         i = Last => Issued("compute") <= Reads(m, i),
         i < Last => \/ Issued("h2d") <= Loads(m, i)
                     \/ i > 0 /\ Issued("h2d") <= Loads(m, i) + 2
  PROVE  Given(s, m, i)'
<1> USE Sizes
<1>0. /\ finished["compute"] \in Nat /\ finished["h2d"] \in Nat /\ Program
      /\ Issued("compute") \in Nat /\ Issued("h2d") \in Nat
      /\ d = "compute" => finished["compute"] + 1 \in Pending("compute")
      /\ d = "h2d" => finished["h2d"] + 1 \in Pending("h2d")
  <2>1. /\ d = "compute" => finished["compute"] + 1 \in Pending("compute")
        /\ d = "h2d" => finished["h2d"] + 1 \in Pending("h2d")
    BY Executed
  <2>2. /\ finished["compute"] \in Nat /\ finished["h2d"] \in Nat
        /\ queue["compute"] \in Seq(Work) /\ queue["h2d"] \in Seq(Work)
    BY DEF StreamsTyped, Device
  <2>3. Issued("compute") \in Nat /\ Issued("h2d") \in Nat
    BY <2>2 DEF Issued, IssuedIn
  <2> QED BY <2>1, <2>2, <2>3 DEF Coordinated
<1>1. CASE i = Last
  <2>1. ASSUME NEW n \in Micros, NEW j \in Groups,
               d = "compute", Wrote(n, j) = finished["compute"] + 1, Wrote(m, i) < Wrote(n, j)
        PROVE  FALSE
    <3>1. Reads(m, i) < Wrote(n, j) /\ Reads(m, i) \in Nat
      BY <1>1, <2>1, WriteOrder, Numbered
    <3>2. Wrote(n, j) <= Issued("compute")
      BY <1>0, <2>1 DEF Pending
    <3> QED BY <1>0, <1>1, <2>1, <3>1, <3>2
  <2>2. Written(s, m, i)'
    BY <1>0, <1>1, <2>1, WrittenStays DEF Given
  <2> QED BY <1>1, <2>2 DEF Given
<1>2. CASE i # Last
  <2>0. i \in Offloadable /\ Loads(m, i) \in Nat
    BY <1>2, Numbered
  <2>1. d = "h2d" /\ Loads(m, i) = finished["h2d"] + 1 => host[i] = <<m, i>>
    BY <2>0, LoadFinds
  <2>2. Loaded(s, m, i)
    BY <1>2 DEF Given
  <2>3. ASSUME NEW n \in Micros, NEW j \in Offloadable,
               d = "h2d", Loads(n, j) = finished["h2d"] + 1, Loads(m, i) < Loads(n, j)
        PROVE  Item("h2d", Loads(n, j)).slot # s
    <3>1. Loads(n, j) \in Pending("h2d") /\ Loads(n, j) <= Issued("h2d") /\ Loads(n, j) \in Nat
      BY <1>0, <2>3 DEF Pending
    <3>2. i > 0 /\ ~(Loads(m, i) + 2 < Loads(n, j))
      BY <1>0, <2>0, <2>3, <3>1
    <3>3. n = m /\ j = i - 1
      BY <2>0, <2>3, <3>2, LoadOrder
    <3> QED BY <2>2, <3>1, <3>2, <3>3 DEF Loaded
  <2>4. Loaded(s, m, i)'
    BY <1>0, <2>0, <2>1, <2>2, <2>3, LoadedStays
  <2> QED BY <1>2, <2>4 DEF Given
<1> QED BY <1>1, <1>2

LEMMA ExecuteBlocksHeld ==
  ASSUME StreamsTyped, Coordinated, layer \in Groups, NEW d \in Device, Execute(d)
  PROVE  BlocksHeld'
<1> USE Sizes
<1>0. UNCHANGED <<pc_host, micro, layer, state, buf>>
  BY DEF Execute, book
<1>1. PICK i \in Groups, m \in Micros : i = layer /\ m = micro
  BY DEF StreamsTyped
<1>2. Reads(m, i) \in Nat /\ Loads(m, i) \in Nat /\ Wrote(m, i) \in Nat /\ Loads(m, 0) \in Nat
  BY Numbered
<1>3. ASSUME pc_host = "forward", layer > 0, NEW k, k = Saved(m, i - 1), k \in Pending("d2h")'
      PROVE  Item("d2h", k)'.slot = buf[layer - 1]
  <2>1. k \in Pending("d2h") /\ Item("d2h", k)' = Item("d2h", k)
    BY <1>3, Executed DEF Device
  <2> QED BY <1>1, <1>3, <2>1 DEF Coordinated, BlocksHeld
<1>4. ASSUME pc_host = "commit"
      PROVE  Written(state[layer], micro, layer)'
  <2>1. PICK s : s = state[layer]
    OBVIOUS
  <2>2. Written(s, m, i) /\ Issued("compute") = Wrote(m, i)
    BY <1>1, <1>4, <2>1 DEF Coordinated, BlocksHeld, SoFar, Queues
  <2>3. ASSUME NEW n \in Micros, NEW j \in Groups,
               d = "compute", Wrote(n, j) = finished["compute"] + 1, Wrote(m, i) < Wrote(n, j)
        PROVE  FALSE
    <3>1. Wrote(n, j) \in Pending("compute")
      BY <2>3, Executed
    <3> QED BY <1>2, <2>2, <2>3, <3>1 DEF Pending
  <2>4. Written(s, m, i)'
    BY <2>2, <2>3, WrittenStays DEF Coordinated
  <2> QED BY <1>0, <1>1, <2>1, <2>4
<1>5. ASSUME pc_host \in {"reload", "backward"}
      PROVE  Given(state[layer], micro, layer)'
  <2>1. PICK s : s = state[layer]
    OBVIOUS
  <2>2. Given(s, m, i)
    BY <1>1, <1>5, <2>1 DEF Coordinated, BlocksHeld
  <2>3. /\ Issued("compute") <= Reads(m, i)
        /\ Issued("h2d") <= Loads(m, i) \/ (i > 0 /\ Issued("h2d") <= Loads(m, i) + 2)
    BY <1>1, <1>2, <1>5 DEF Coordinated, SoFar, Queues
  <2>4. Given(s, m, i)'
    BY <2>2, <2>3, GivenStays
  <2> QED BY <1>0, <1>1, <2>1, <2>4
<1>6. ASSUME pc_host = "backward", layer > 0
      PROVE  Given(state[layer - 1], micro, layer - 1)'
  <2>0. i > 0 /\ i - 1 \in Groups /\ i - 1 < Last
    BY <1>1, <1>6
  <2>1. PICK s, h : s = state[layer - 1] /\ h = i - 1 /\ i > 0 /\ h \in Groups /\ h < Last
    BY <2>0
  <2>2. Given(s, m, h)
    BY <1>1, <1>6, <2>1 DEF Coordinated, BlocksHeld
  <2>3. Issued("h2d") <= Loads(m, h)
    <3>1. Issued("h2d") = Loads(m, i) + 2
      BY <1>1, <1>6 DEF Coordinated, SoFar, Queues
    <3>2. Loads(m, h) = Loads(m, i) + 2 /\ Loads(m, h) \in Nat
      BY <1>2, <2>1, Numbered, BaseFacts DEF Loads
    <3> QED BY <3>1, <3>2
  <2>4. Given(s, m, h)'
    BY <2>1, <2>2, <2>3, GivenStays
  <2> QED BY <1>0, <1>1, <2>1, <2>4
<1>7. pc_host' = "forward" /\ layer' > 0 /\ (Saved(micro, layer - 1) \in Pending("d2h"))' =>
        Item("d2h", Saved(micro, layer - 1))'.slot = buf'[layer' - 1]
  <2>1. PICK k : k = Saved(m, i - 1)
    OBVIOUS
  <2>2. Saved(micro, layer - 1)' = k
    BY <1>0, <1>1, <2>1
  <2> QED BY <1>0, <1>3, <2>1, <2>2
<1> QED BY <1>0, <1>4, <1>5, <1>6, <1>7 DEF BlocksHeld

LEMMA ExecuteTyped ==
  ASSUME StreamsTyped, Program, NEW d \in Device, Execute(d)
  PROVE  StreamsTyped'
<1>1. queue' \in [Device -> Seq(Work)] /\ finished' \in [Device -> Nat] /\ micro' = micro
  BY Executed DEF Execute
<1>2. DOMAIN content' = DOMAIN content
  BY DEF Execute
<1>3. DOMAIN host' = DOMAIN host
  BY DEF Execute
<1> QED BY <1>1, <1>2, <1>3 DEF StreamsTyped

LEMMA ExecuteProgram ==
  ASSUME StreamsTyped, Program, NEW d \in Device, Execute(d)
  PROVE  Program'
<1>1. \A e \in Device : \A k : k \in Pending(e)' => k \in Pending(e) /\ Item(e, k)' = Item(e, k)
  BY Executed
<1>2. ASSUME NEW k, k \in Pending("compute")'
      PROVE  \E m \in Micros, i \in Groups : ComputeItem(k, Item("compute", k)', m, i)
  BY <1>1, <1>2 DEF Program, Device
<1>3. ASSUME NEW k, k \in Pending("d2h")'
      PROVE  \E m \in Micros, i \in Groups : D2hItem(k, Item("d2h", k)', m, i)
  BY <1>1, <1>3 DEF Program, Device
<1>4. ASSUME NEW k, k \in Pending("h2d")'
      PROVE  \E m \in Micros, g \in Offloadable : H2dItem(k, Item("h2d", k)', m, g)
  BY <1>1, <1>4 DEF Program, Device
<1> QED BY <1>2, <1>3, <1>4 DEF Program, ComputeItem, D2hItem, H2dItem, Waits

LEMMA StreamsExecute ==
  ASSUME StreamsTyped, Coordinated, layer \in Groups, NEW d \in Device, Execute(d)
  PROVE  StreamsTyped' /\ Coordinated'
<1>1. Program
  BY DEF Coordinated
<1>2. SoFar'
  <2>1. UNCHANGED <<pc_host, micro, layer>> /\ \A e \in Device : Issued(e)' = Issued(e)
    BY Executed DEF Execute
  <2> QED BY <2>1 DEF Coordinated, SoFar, Queues, Device, Wrote, Reads, Loads, Base
<1> QED BY <1>1, <1>2, ExecuteTyped, ExecuteProgram, ExecuteSynced, ExecuteHostHolds,
           ExecuteBlocksQueued, ExecuteBlocksHeld DEF Coordinated

-----------------------------------------------------------------------------
(* The host queues work.                                                   *)

Queueing ==
  /\ UNCHANGED <<finished, content, host>>
  /\ \A e \in Device :
       /\ Issued(e)' \in Nat /\ Issued(e) <= Issued(e)'
       /\ \A k \in Pending(e) : Item(e, k)' = Item(e, k)

LEMMA IssuedIsNat ==
  ASSUME StreamsTyped, NEW e \in Device
  PROVE  /\ Issued(e) \in Nat /\ finished[e] \in Nat /\ finished[e] <= Issued(e)
         /\ \A k : k \in Pending(e) <=> k \in Nat /\ finished[e] < k /\ k <= Issued(e)
<1>1. finished[e] \in Nat /\ queue[e] \in Seq(Work)
  BY DEF StreamsTyped
<1>2. Len(queue[e]) \in Nat
  BY <1>1
<1> QED BY <1>1, <1>2 DEF Issued, IssuedIn, Pending

LEMMA StillPending ==
  ASSUME StreamsTyped, Queueing, NEW e \in Device, NEW k
  PROVE  k \in Pending(e)' <=>
           k \in Pending(e) \/ (k \in Nat /\ Issued(e) < k /\ k <= Issued(e)')
<1>1. finished'[e] = finished[e] /\ Issued(e)' \in Nat /\ Issued(e) <= Issued(e)'
  BY DEF Queueing
<1>2. k \in Pending(e)' <=> k \in (finished[e] + 1)..Issued(e)'
  BY <1>1 DEF Pending
<1> QED BY <1>1, <1>2, IssuedIsNat

LEMMA WrittenQueueing ==
  ASSUME StreamsTyped, Queueing, NEW s, NEW m \in Micros, NEW i \in Groups, Written(s, m, i),
         i < Last /\ Issued("compute") < Wrote(m, i + 1) /\ Wrote(m, i + 1) <= Issued("compute")' =>
           Item("compute", Wrote(m, i + 1))'.slot # s
  PROVE  Written(s, m, i)'
<1> USE Sizes
<1>1. /\ finished' = finished /\ content' = content /\ "compute" \in Device
      /\ Issued("compute") <= Issued("compute")' /\ Issued("compute")' \in Nat
      /\ Issued("compute") \in Nat
      /\ \A k \in Pending("compute") : Item("compute", k)' = Item("compute", k)
  BY IssuedIsNat DEF Queueing, Device
<1>2. /\ s \in ComputeSlots /\ Wrote(m, i) <= Issued("compute") /\ Wrote(m, i) \in Nat
      /\ finished["compute"] >= Wrote(m, i) => content[s] = <<m, i>>
      /\ Wrote(m, i) \in Pending("compute") => Item("compute", Wrote(m, i)).slot = s
      /\ i < Last /\ Wrote(m, i + 1) \in Pending("compute") => Item("compute", Wrote(m, i + 1)).slot # s
  BY Numbered DEF Written
<1>3. Wrote(m, i) \in Pending("compute")' => Wrote(m, i) \in Pending("compute")
  BY <1>1, <1>2, StillPending
<1>4. i < Last /\ Wrote(m, i + 1) \in Pending("compute")' =>
        Item("compute", Wrote(m, i + 1))'.slot # s
  BY <1>1, <1>2, StillPending
<1>5. Wrote(m, i) <= Issued("compute")'
  BY <1>1, <1>2
<1> QED BY <1>1, <1>2, <1>3, <1>4, <1>5 DEF Written

LEMMA LoadedQueueing ==
  ASSUME StreamsTyped, Queueing, NEW s, NEW m \in Micros, NEW i \in Groups, Loaded(s, m, i),
         i > 0 /\ Issued("h2d") < Loads(m, i - 1) /\ Loads(m, i - 1) <= Issued("h2d")' =>
           Item("h2d", Loads(m, i - 1))'.slot # s
  PROVE  Loaded(s, m, i)'
<1> USE Sizes
<1>1. /\ finished' = finished /\ content' = content /\ "h2d" \in Device
      /\ Issued("h2d") <= Issued("h2d")' /\ Issued("h2d")' \in Nat
      /\ Issued("h2d") \in Nat
      /\ \A k \in Pending("h2d") : Item("h2d", k)' = Item("h2d", k)
  BY IssuedIsNat DEF Queueing, Device
<1>2. /\ s \in ReloadSlots /\ Loads(m, i) <= Issued("h2d") /\ Loads(m, i) \in Nat
      /\ finished["h2d"] >= Loads(m, i) => content[s] = <<m, i>>
      /\ Loads(m, i) \in Pending("h2d") => Item("h2d", Loads(m, i)).slot = s
      /\ i > 0 /\ Loads(m, i - 1) \in Pending("h2d") => Item("h2d", Loads(m, i - 1)).slot # s
  BY Numbered DEF Loaded
<1>3. Loads(m, i) \in Pending("h2d")' => Loads(m, i) \in Pending("h2d")
  BY <1>1, <1>2, StillPending
<1>4. i > 0 /\ Loads(m, i - 1) \in Pending("h2d")' =>
        Item("h2d", Loads(m, i - 1))'.slot # s
  BY <1>1, <1>2, StillPending
<1>5. Loads(m, i) <= Issued("h2d")'
  BY <1>1, <1>2
<1> QED BY <1>1, <1>2, <1>3, <1>4, <1>5 DEF Loaded

\* What the host's steps have in common: streams and copies are where they were, and so
\* are the blocks of the queued work, if what is new of it is as it should be.
LEMMA HostStep ==
  ASSUME StreamsTyped, Coordinated, Queueing,
         \A k \in Pending("compute")' : k > Issued("compute") =>
           \E m \in Micros, i \in Groups : ComputeItem(k, Item("compute", k)', m, i),
         \A k \in Pending("d2h")' : k > Issued("d2h") =>
           \E m \in Micros, i \in Groups : D2hItem(k, Item("d2h", k)', m, i),
         \A k \in Pending("h2d")' : k > Issued("h2d") =>
           \E m \in Micros, g \in Offloadable : H2dItem(k, Item("h2d", k)', m, g)
  PROVE  Program' /\ Synced' /\ HostHolds'
<1>0. {"compute", "d2h", "h2d"} = Device
  BY DEF Device
<1>1. \A e \in Device : \A k : k \in Pending(e)' =>
        k > Issued(e) \/ (k \in Pending(e) /\ Item(e, k)' = Item(e, k))
  BY StillPending DEF Queueing
<1>2. ASSUME NEW k, k \in Pending("compute")'
      PROVE  \E m \in Micros, i \in Groups : ComputeItem(k, Item("compute", k)', m, i)
  BY <1>0, <1>1, <1>2 DEF Coordinated, Program
<1>3. ASSUME NEW k, k \in Pending("d2h")'
      PROVE  \E m \in Micros, i \in Groups : D2hItem(k, Item("d2h", k)', m, i)
  BY <1>0, <1>1, <1>3 DEF Coordinated, Program
<1>4. ASSUME NEW k, k \in Pending("h2d")'
      PROVE  \E m \in Micros, g \in Offloadable : H2dItem(k, Item("h2d", k)', m, g)
  BY <1>0, <1>1, <1>4 DEF Coordinated, Program
<1>5. Program'
  BY <1>2, <1>3, <1>4 DEF Program, ComputeItem, D2hItem, H2dItem, Waits
<1>6. Synced' /\ HostHolds'
  BY DEF Coordinated, Synced, HostHolds, Queueing, LoadedBefore
<1> QED BY <1>5, <1>6

-----------------------------------------------------------------------------
(* What the host's calls queue.                                            *)

Programs == [Device -> Seq(Work)]
Grows(q, r) ==
  /\ r \in Programs
  /\ \A e \in Device :
       /\ IssuedIn(q, e) \in Nat /\ IssuedIn(r, e) \in Nat
       /\ finished[e] <= IssuedIn(q, e) /\ IssuedIn(q, e) <= IssuedIn(r, e)
       /\ \A k \in (finished[e] + 1)..IssuedIn(q, e) : ItemIn(r, e, k) = ItemIn(q, e, k)

LEMMA GrowsByOne ==
  ASSUME finished \in [Device -> Nat], NEW q \in Programs, NEW d \in Device, NEW x \in Work,
         NEW r, r = Queued(q, d, x)
  PROVE  /\ Grows(q, r)
         /\ IssuedIn(r, d) = IssuedIn(q, d) + 1 /\ ItemIn(r, d, IssuedIn(q, d) + 1) = x
         /\ \A e \in Device : e # d => IssuedIn(r, e) = IssuedIn(q, e)
<1>1. q \in [Device -> Seq(Work)]
  BY DEF Programs
<1>2. /\ r \in [Device -> Seq(Work)]
      /\ IssuedIn(r, d) = IssuedIn(q, d) + 1 /\ ItemIn(r, d, IssuedIn(q, d) + 1) = x
      /\ \A e \in Device : e # d => IssuedIn(r, e) = IssuedIn(q, e)
      /\ \A e \in Device : IssuedIn(q, e) \in Nat
      /\ \A e \in Device : \A k \in (finished[e] + 1)..IssuedIn(q, e) : ItemIn(r, e, k) = ItemIn(q, e, k)
  BY <1>1, QueuedAt
<1>3. \A e \in Device : finished[e] <= IssuedIn(q, e)
  <2> SUFFICES ASSUME NEW e \in Device PROVE finished[e] <= finished[e] + Len(q[e])
    BY DEF IssuedIn
  <2>1. Len(q[e]) \in Nat /\ finished[e] \in Nat
    BY <1>1
  <2> QED BY <2>1
<1> QED BY <1>2, <1>3 DEF Grows, Programs

LEMMA GrowsOn ==
  ASSUME finished \in [Device -> Nat], NEW q, NEW r, NEW s, Grows(q, r), Grows(r, s)
  PROVE  Grows(q, s)
<1> SUFFICES ASSUME NEW e \in Device
             PROVE  /\ IssuedIn(q, e) <= IssuedIn(s, e)
                    /\ \A k \in (finished[e] + 1)..IssuedIn(q, e) : ItemIn(s, e, k) = ItemIn(q, e, k)
  BY DEF Grows
<1>1. /\ IssuedIn(q, e) \in Nat /\ IssuedIn(r, e) \in Nat /\ IssuedIn(s, e) \in Nat
      /\ IssuedIn(q, e) <= IssuedIn(r, e) /\ IssuedIn(r, e) <= IssuedIn(s, e)
      /\ finished[e] \in Nat
      /\ \A k \in (finished[e] + 1)..IssuedIn(q, e) : ItemIn(r, e, k) = ItemIn(q, e, k)
      /\ \A k \in (finished[e] + 1)..IssuedIn(r, e) : ItemIn(s, e, k) = ItemIn(r, e, k)
  BY DEF Grows
<1>2. IssuedIn(q, e) <= IssuedIn(s, e)
  BY <1>1
<1>3. ASSUME NEW k \in (finished[e] + 1)..IssuedIn(q, e)
      PROVE  ItemIn(s, e, k) = ItemIn(q, e, k)
  <2>1. k \in (finished[e] + 1)..IssuedIn(r, e)
    BY <1>1
  <2> QED BY <1>1, <2>1
<1> QED BY <1>2, <1>3

\* What has been added stays where it is.
LEMMA AddedStays ==
  ASSUME finished \in [Device -> Nat], NEW q, NEW r, NEW s, Grows(q, r), Grows(r, s), NEW e \in Device,
         IssuedIn(r, e) = IssuedIn(q, e) + 1
  PROVE  ItemIn(s, e, IssuedIn(q, e) + 1) = ItemIn(r, e, IssuedIn(q, e) + 1)
<1>1. /\ IssuedIn(q, e) \in Nat /\ finished[e] \in Nat /\ finished[e] <= IssuedIn(q, e)
      /\ \A k \in (finished[e] + 1)..IssuedIn(r, e) : ItemIn(s, e, k) = ItemIn(r, e, k)
  BY DEF Grows
<1>2. IssuedIn(q, e) + 1 \in (finished[e] + 1)..IssuedIn(r, e)
  BY <1>1
<1> QED BY <1>1, <1>2

LEMMA Waiting ==
  ASSUME finished \in [Device -> Nat], NEW q \in Programs, NEW d \in Device, NEW e \in Device,
         NEW r, r = WaitFor(q, d, e)
  PROVE  /\ Grows(q, r)
         /\ IssuedIn(r, d) = IssuedIn(q, d) + 1
         /\ Waits(ItemIn(r, d, IssuedIn(q, d) + 1), e, IssuedIn(q, e))
         /\ \A f \in Device : f # d => IssuedIn(r, f) = IssuedIn(q, f)
<1> DEFINE x == [op |-> "wait", on |-> e, upto |-> IssuedIn(q, e)]
<1>1. IssuedIn(q, e) \in Nat
  <2>1. Len(q[e]) \in Nat /\ finished[e] \in Nat
    BY DEF Programs
  <2> QED BY <2>1 DEF IssuedIn
<1>2. x \in Work /\ r = Queued(q, d, x) /\ Waits(x, e, IssuedIn(q, e))
  BY <1>1 DEF Work, WaitFor, IssuedIn, Waits
<1> HIDE DEF x
<1> QED BY <1>2, GrowsByOne

\* Two streams wait for one another.
LEMMA Meeting ==
  ASSUME finished \in [Device -> Nat], NEW q \in Programs, NEW a \in Device, NEW b \in Device, a # b,
         NEW r, r = WaitFor(WaitFor(q, a, b), b, a)
  PROVE  /\ Grows(q, r)
         /\ IssuedIn(r, a) = IssuedIn(q, a) + 1 /\ IssuedIn(r, b) = IssuedIn(q, b) + 1
         /\ Waits(ItemIn(r, a, IssuedIn(q, a) + 1), b, IssuedIn(q, b))
         /\ Waits(ItemIn(r, b, IssuedIn(q, b) + 1), a, IssuedIn(q, a) + 1)
         /\ \A f \in Device : f \notin {a, b} => IssuedIn(r, f) = IssuedIn(q, f)
<1>1. PICK p : p = WaitFor(q, a, b)
  OBVIOUS
<1>2. /\ Grows(q, p) /\ IssuedIn(p, a) = IssuedIn(q, a) + 1
      /\ Waits(ItemIn(p, a, IssuedIn(q, a) + 1), b, IssuedIn(q, b))
      /\ \A f \in Device : f # a => IssuedIn(p, f) = IssuedIn(q, f)
  BY <1>1, Waiting
<1>3. p \in Programs /\ r = WaitFor(p, b, a)
  BY <1>1, <1>2 DEF Grows
<1>4. /\ Grows(p, r) /\ IssuedIn(r, b) = IssuedIn(p, b) + 1
      /\ Waits(ItemIn(r, b, IssuedIn(p, b) + 1), a, IssuedIn(p, a))
      /\ \A f \in Device : f # b => IssuedIn(r, f) = IssuedIn(p, f)
  BY <1>3, Waiting
<1>5. Grows(q, r) /\ ItemIn(r, a, IssuedIn(q, a) + 1) = ItemIn(p, a, IssuedIn(q, a) + 1)
  BY <1>2, <1>4, GrowsOn, AddedStays
<1> QED BY <1>2, <1>4, <1>5

\* The queues of a step of the host, seen from the step before.
LEMMA AfterHost ==
  ASSUME StreamsTyped, UNCHANGED <<finished, content, host>>, Grows(queue, queue'), micro' \in Micros
  PROVE  /\ Queueing /\ StreamsTyped'
         /\ \A e \in Device : Issued(e)' = IssuedIn(queue', e) /\ Issued(e) = IssuedIn(queue, e)
         /\ \A e \in Device : \A k : Item(e, k)' = ItemIn(queue', e, k)
<1>1. /\ \A e \in Device : Issued(e)' = IssuedIn(queue', e) /\ Issued(e) = IssuedIn(queue, e)
      /\ \A e \in Device : \A k : Item(e, k)' = ItemIn(queue', e, k) /\ Item(e, k) = ItemIn(queue, e, k)
  BY DEF Issued, IssuedIn, Item, ItemIn
<1>2. Queueing
  BY <1>1 DEF Grows, Queueing, Pending
<1>3. StreamsTyped'
  BY DEF StreamsTyped, Grows, Programs
<1> QED BY <1>1, <1>2, <1>3

LEMMA GivenQueueing ==
  ASSUME StreamsTyped, Queueing, NEW s, NEW m \in Micros, NEW i \in Groups, Given(s, m, i),
         i > 0 /\ i < Last /\ Issued("h2d") < Loads(m, i - 1) /\ Loads(m, i - 1) <= Issued("h2d")' =>
           Item("h2d", Loads(m, i - 1))'.slot # s
  PROVE  Given(s, m, i)'
<1> USE Sizes
<1>1. CASE i = Last
  <2>1. Written(s, m, i)'
    BY <1>1, WrittenQueueing DEF Given
  <2> QED BY <1>1, <2>1 DEF Given
<1>2. CASE i # Last
  <2>1. Loaded(s, m, i)'
    BY <1>2, LoadedQueueing DEF Given
  <2> QED BY <1>2, <2>1 DEF Given
<1> QED BY <1>1, <1>2

LEMMA BlocksStayQueued ==
  ASSUME StreamsTyped, Coordinated, Queueing,
         \A m \in Micros, i \in Groups :
           Reads(m, i) > Issued("compute") /\ Reads(m, i) <= Issued("compute")' =>
             Given(Item("compute", Reads(m, i)).slot, m, i)',
         \A m \in Micros, g \in Offloadable :
           Saved(m, g) > Issued("d2h") /\ Saved(m, g) <= Issued("d2h")' =>
             Written(Item("d2h", Saved(m, g)).slot, m, g)',
         \A m \in Micros, g \in Offloadable :
           Saved(m, g) \in Pending("d2h") /\ Issued("compute") < Wrote(m, g + 1)
           /\ Wrote(m, g + 1) <= Issued("compute")' =>
                Item("compute", Wrote(m, g + 1))'.slot # Item("d2h", Saved(m, g)).slot,
         \A m \in Micros, i \in Groups :
           Reads(m, i) \in Pending("compute") /\ i > 0 /\ i < Last
           /\ Issued("h2d") < Loads(m, i - 1) /\ Loads(m, i - 1) <= Issued("h2d")' =>
                Item("h2d", Loads(m, i - 1))'.slot # Item("compute", Reads(m, i)).slot
  PROVE  BlocksQueued'
<1>0. "compute" \in Device /\ "d2h" \in Device
  BY DEF Device
<1>1. ASSUME NEW m \in Micros, NEW i \in Groups, Reads(m, i) \in Pending("compute")'
      PROVE  Given(Item("compute", Reads(m, i)).slot, m, i)'
  <2>1. CASE Reads(m, i) \in Pending("compute")
    <3>1. PICK s : s = Item("compute", Reads(m, i)).slot
      OBVIOUS
    <3>2. Given(s, m, i)
      BY <2>1, <3>1 DEF Coordinated, BlocksQueued
    <3>3. Given(s, m, i)'
      BY <2>1, <3>1, <3>2, GivenQueueing
    <3>4. Item("compute", Reads(m, i))' = Item("compute", Reads(m, i))
      BY <1>0, <2>1 DEF Queueing
    <3> QED BY <3>1, <3>3, <3>4
  <2>2. CASE Reads(m, i) \notin Pending("compute")
    BY <1>0, <1>1, <2>2, StillPending
  <2> QED BY <2>1, <2>2
<1>2. ASSUME NEW m \in Micros, NEW g \in Offloadable, Saved(m, g) \in Pending("d2h")'
      PROVE  Written(Item("d2h", Saved(m, g)).slot, m, g)'
  <2>1. CASE Saved(m, g) \in Pending("d2h")
    <3>1. PICK s : s = Item("d2h", Saved(m, g)).slot
      OBVIOUS
    <3>2. Written(s, m, g) /\ g \in Groups
      BY <2>1, <3>1, Sizes DEF Coordinated, BlocksQueued
    <3>3. Written(s, m, g)'
      BY <2>1, <3>1, <3>2, WrittenQueueing
    <3>4. Item("d2h", Saved(m, g))' = Item("d2h", Saved(m, g))
      BY <1>0, <2>1 DEF Queueing
    <3> QED BY <3>1, <3>3, <3>4
  <2>2. CASE Saved(m, g) \notin Pending("d2h")
    BY <1>0, <1>2, <2>2, StillPending
  <2> QED BY <2>1, <2>2
<1> QED BY <1>1, <1>2 DEF BlocksQueued

\* Only what is queued is pending.
LEMMA PendingThen ==
  ASSUME StreamsTyped, Queueing, NEW e \in Device, NEW k, k \in Pending(e)'
  PROVE  k \in Nat /\ k <= Issued(e)'
<1>1. k \in Pending(e) \/ (k \in Nat /\ Issued(e) < k /\ k <= Issued(e)')
  BY StillPending
<1>2. Issued(e) \in Nat /\ Issued(e)' \in Nat /\ Issued(e) <= Issued(e)'
  BY IssuedIsNat DEF Queueing
<1>3. k \in Pending(e) => k \in Nat /\ k <= Issued(e)
  BY IssuedIsNat
<1> QED BY <1>1, <1>2, <1>3

-----------------------------------------------------------------------------
(* The host's steps.                                                       *)

LEMMA StreamsStart == OffloadInit => StreamsTyped /\ Coordinated
<1> SUFFICES ASSUME OffloadInit PROVE StreamsTyped /\ Coordinated
  OBVIOUS
<1> USE Sizes
<1>1. /\ pc_host = "forward" /\ micro = 1 /\ layer = 0 /\ micro \in Micros
      /\ queue = [d \in Device |-> <<>>] /\ finished = [d \in Device |-> 0]
      /\ content = [s \in Slots |-> Nothing] /\ host = [g \in Groups |-> Nothing]
  BY DEF OffloadInit, Micros
<1>2. StreamsTyped
  BY <1>1 DEF StreamsTyped
<1>3. \A d \in Device : Issued(d) = 0 /\ finished[d] = 0 /\ \A k : k \notin Pending(d)
  <2>1. \A d \in Device : Issued(d) = 0 /\ finished[d] = 0
    BY <1>1 DEF Issued, IssuedIn
  <2> QED BY <1>2, <2>1, IssuedIsNat
<1>4. Program /\ BlocksQueued /\ BlocksHeld
  BY <1>1, <1>3 DEF Program, BlocksQueued, BlocksHeld, Device
<1>5. SoFar
  <2>1. Base(1, C) = 0 /\ Base(1, D) = 0 /\ Base(1, H) = 0
    BY DEF Base
  <2>2. Queues(0, 0, 0)
    BY <1>3 DEF Queues, Device
  <2> QED BY <1>1, <2>1, <2>2 DEF SoFar
<1>6. finished["compute"] = 0 /\ finished["d2h"] = 0 /\ finished["h2d"] = 0
  BY <1>3 DEF Device
<1>7. \A m \in Micros, i \in Groups :
        /\ Wrote(m, i) > 0 /\ Reads(m, i) - 1 > 0 /\ Saved(m, i) - 1 > 0
        /\ i < Last => Loads(m, i) - 1 > 0
  <2> SUFFICES ASSUME NEW m \in Micros, NEW i \in Groups
               PROVE  /\ Wrote(m, i) > 0 /\ Reads(m, i) - 1 > 0 /\ Saved(m, i) - 1 > 0
                      /\ i < Last => Loads(m, i) - 1 > 0
    OBVIOUS
  <2>1. /\ Wrote(m, i) = Base(m, C) + OwnWrite(i) /\ Reads(m, i) = Base(m, C) + OwnRead(i)
        /\ Saved(m, i) = Base(m, D) + OwnSave(i) /\ Loads(m, i) = Base(m, H) + OwnLoad(i)
        /\ Base(m, C) \in Nat /\ Base(m, D) \in Nat /\ Base(m, H) \in Nat
    BY Numbered
  <2>2. /\ OwnWrite(i) \in 1..(2 * Last) /\ OwnRead(i) \in (2 * Last + 3)..C
        /\ OwnSave(i) \in 2..(2 * Last + 2) /\ (i < Last => OwnLoad(i) \in 2..H)
    BY Owned
  <2> QED BY <2>1, <2>2
<1>8. Synced
  <2> SUFFICES ASSUME NEW m \in Micros, NEW i \in Groups
      PROVE  /\ ~(finished["compute"] >= Wrote(m, i) + 1)
             /\ ~(finished["compute"] >= Reads(m, i) - 1)
             /\ ~(finished["d2h"] >= Saved(m, i) - 1)
             /\ ~(i < Last /\ finished["h2d"] >= Loads(m, i) - 1)
    BY DEF Synced
  <2> QED BY <1>6, <1>7, Numbered
<1>9. HostHolds
  <2> SUFFICES ASSUME NEW m \in Micros, NEW g \in Offloadable PROVE ~(Saved(m, g) <= finished["d2h"])
    BY DEF HostHolds
  <2> QED BY <1>6, <1>7, Numbered
<1> QED BY <1>2, <1>4, <1>5, <1>8, <1>9 DEF Coordinated

LEMMA StreamsForwardLayer ==
  ASSUME OffloadIInv, StreamsTyped, Coordinated, ForwardLayer
  PROVE  StreamsTyped' /\ Coordinated'
<1> USE Sizes, NoSlotIsNone
<1>1. /\ pc_host = "forward" /\ current_group = layer /\ layer \in Groups /\ micro \in Micros
      /\ state \in [Groups -> Slots \cup {NoSlot, OnHost}] /\ buf \in [Groups -> Slots \cup {NoSlot}]
      /\ finished \in [Device -> Nat] /\ queue \in Programs
      /\ "compute" \in Device /\ "d2h" \in Device /\ "h2d" \in Device
  BY DEF OffloadIInv, ForwardLayer, AtForward, Forwards, Typed, StreamsTyped, Programs, Device
<1>0. PICK m \in Micros, i \in Groups : m = micro /\ i = layer
  BY <1>1
<1>2. PICK c, d, h :
        m = micro /\ i = layer /\ c = Issued("compute") /\ d = Issued("d2h") /\ h = Issued("h2d")
  BY <1>0
<1>3. PICK s \in ComputeSlots \ Live :
        /\ queue' = Queued(queue, "compute", Write(s, <<m, i>>))
        /\ state' = [state EXCEPT ![i] = s]
  BY <1>1, <1>2 DEF ForwardLayer, Own
<1>4. PICK x : x = Write(s, <<m, i>>)
  OBVIOUS
<1>5. x \in Work /\ x.op = "write" /\ x.slot = s /\ x.value = <<m, i>>
  BY <1>4 DEF Write, Work, Slots
<1>6. /\ pc_host' = "commit" /\ micro' = m /\ layer' = i
      /\ UNCHANGED <<finished, content, host>>
  BY <1>2 DEF ForwardLayer, device
<1>7. /\ Grows(queue, queue')
      /\ IssuedIn(queue', "compute") = IssuedIn(queue, "compute") + 1
      /\ ItemIn(queue', "compute", IssuedIn(queue, "compute") + 1) = x
      /\ IssuedIn(queue', "d2h") = IssuedIn(queue, "d2h") /\ IssuedIn(queue', "h2d") = IssuedIn(queue, "h2d")
  BY <1>1, <1>3, <1>4, <1>5, GrowsByOne
<1>8. /\ Queueing /\ StreamsTyped'
      /\ \A e \in Device : Issued(e)' = IssuedIn(queue', e) /\ Issued(e) = IssuedIn(queue, e)
      /\ \A e \in Device : \A k : Item(e, k)' = ItemIn(queue', e, k)
  BY <1>2, <1>6, <1>7, AfterHost
<1>9. /\ Issued("compute")' = c + 1 /\ Issued("d2h")' = d /\ Issued("h2d")' = h
      /\ Item("compute", c + 1)' = x
      /\ c \in Nat /\ d \in Nat /\ h \in Nat
  BY <1>1, <1>2, <1>7, <1>8, IssuedIsNat
\* The work is the write of the layer.
<1>10. /\ c + 1 = Wrote(m, i) /\ d = Base(m, D) + 2 * i /\ h = Base(m, H)
       /\ Base(m, C) \in Nat
  <2>1. /\ c = Base(m, C) + (IF i = 0 THEN 0 ELSE 2 * i - 1)
        /\ d = Base(m, D) + 2 * i /\ h = Base(m, H)
    BY <1>1, <1>2 DEF Coordinated, SoFar, Queues
  <2>2. Base(m, C) \in Nat
    BY BaseFacts
  <2> QED BY <2>1, <2>2 DEF Wrote
<1>11. SoFar'
  BY <1>6, <1>9, <1>10 DEF SoFar, Queues, Wrote, Base
<1>12. Program' /\ Synced' /\ HostHolds'
  <2>1. ComputeItem(c + 1, x, m, i)
    BY <1>3, <1>5, <1>10 DEF ComputeItem
  <2>2. /\ \A k : k \in Pending("compute")' /\ k > c => k = c + 1
        /\ \A k : k \in Pending("d2h")' => ~(k > d)
        /\ \A k : k \in Pending("h2d")' => ~(k > h)
    <3>1. /\ \A k : k \in Pending("compute")' => k \in Nat /\ k <= c + 1
          /\ \A k : k \in Pending("d2h")' => k \in Nat /\ k <= d
          /\ \A k : k \in Pending("h2d")' => k \in Nat /\ k <= h
      BY <1>1, <1>8, <1>9, PendingThen
    <3> QED BY <1>9, <3>1
  <2> QED BY <1>2, <1>8, <1>9, <2>1, <2>2, HostStep
<1>13. BlocksQueued'
  <2>1. ASSUME NEW n \in Micros, NEW j \in Groups,
               Reads(n, j) > Issued("compute"), Reads(n, j) <= Issued("compute")'
        PROVE  FALSE
    <3>1. Reads(n, j) = Wrote(m, i)
      BY <1>2, <1>9, <1>10, <2>1, Numbered
    <3> QED BY <3>1, ComputeApart
  <2>2. ASSUME NEW n \in Micros, NEW g \in Offloadable, Saved(n, g) \in Pending("d2h"),
               Issued("compute") < Wrote(n, g + 1), Wrote(n, g + 1) <= Issued("compute")'
        PROVE  Item("compute", Wrote(n, g + 1))'.slot # Item("d2h", Saved(n, g)).slot
    <3>1. g + 1 \in Groups /\ g \in Groups
      OBVIOUS
    <3>2. Wrote(n, g + 1) = c + 1
      BY <1>2, <1>9, <2>2, <3>1, Numbered
    <3>3. n = m /\ i = g + 1
      BY <1>10, <3>1, <3>2, ComputeApart
    <3>4. Item("d2h", Saved(n, g)).slot = buf[g]
      BY <1>1, <1>2, <2>2, <3>3 DEF Coordinated, BlocksHeld
    <3>5. buf[g] # s
      <4>1. Written(buf[g], n, g)
        BY <2>2, <3>4 DEF Coordinated, BlocksQueued
      <4>2. buf[g] \in Live
        BY <4>1, <3>1 DEF Written, Live, Slots
      <4> QED BY <1>3, <4>2
    <3>6. Item("compute", Wrote(n, g + 1))' = Item("compute", c + 1)'
      <4>1. PICK k : k = Wrote(n, g + 1)
        OBVIOUS
      <4> QED BY <3>2, <4>1
    <3> QED BY <1>5, <1>9, <3>4, <3>5, <3>6
  <2>3. ASSUME NEW n \in Micros, NEW g \in Groups
        PROVE  /\ ~(Saved(n, g) > Issued("d2h") /\ Saved(n, g) <= Issued("d2h")')
               /\ ~(Issued("h2d") < Loads(n, g) /\ Loads(n, g) <= Issued("h2d")')
    BY <1>2, <1>9, Numbered
  <2>4. \A g \in Groups : g > 0 => g - 1 \in Groups
    OBVIOUS
  <2>5. \A g \in Offloadable : g \in Groups
    OBVIOUS
  <2>6. \A n \in Micros, j \in Groups :
          Reads(n, j) > Issued("compute") /\ Reads(n, j) <= Issued("compute")' =>
            Given(Item("compute", Reads(n, j)).slot, n, j)'
    BY <2>1
  <2>7. \A n \in Micros, g \in Offloadable :
          Saved(n, g) > Issued("d2h") /\ Saved(n, g) <= Issued("d2h")' =>
            Written(Item("d2h", Saved(n, g)).slot, n, g)'
    BY <2>3, <2>5
  <2>8. \A n \in Micros, g \in Offloadable :
          Saved(n, g) \in Pending("d2h") /\ Issued("compute") < Wrote(n, g + 1)
          /\ Wrote(n, g + 1) <= Issued("compute")' =>
               Item("compute", Wrote(n, g + 1))'.slot # Item("d2h", Saved(n, g)).slot
    BY <2>2
  <2>9. \A n \in Micros, j \in Groups :
          Reads(n, j) \in Pending("compute") /\ j > 0 /\ j < Last
          /\ Issued("h2d") < Loads(n, j - 1) /\ Loads(n, j - 1) <= Issued("h2d")' =>
               Item("h2d", Loads(n, j - 1))'.slot # Item("compute", Reads(n, j)).slot
    BY <2>3, <2>4
  <2> QED BY <1>8, <2>6, <2>7, <2>8, <2>9, BlocksStayQueued
<1>14. BlocksHeld'
  <2>1. Written(s, m, i)'
    <3>1. s \in ComputeSlots /\ Wrote(m, i) <= Issued("compute")'
      BY <1>3, <1>9, <1>10
    <3>2. ~(finished'["compute"] >= Wrote(m, i))
      BY <1>1, <1>2, <1>6, <1>9, <1>10, IssuedIsNat
    <3>3. Item("compute", Wrote(m, i))'.slot = s
      BY <1>5, <1>9, <1>10
    <3>4. i < Last => Wrote(m, i + 1) \notin Pending("compute")'
      <4>1. i < Last => Wrote(m, i + 1) > Wrote(m, i)
        BY <1>10 DEF Wrote
      <4>2. \A k : k \in Pending("compute")' => k \in Nat /\ k <= c + 1
        BY <1>1, <1>8, <1>9, PendingThen
      <4> QED BY <1>9, <1>10, <4>1, <4>2
    <3> QED BY <3>1, <3>2, <3>3, <3>4 DEF Written
  <2>2. state'[layer'] = s /\ micro' = m /\ layer' = i /\ pc_host' = "commit"
    BY <1>1, <1>3, <1>6
  <2>3. Written(state[layer], micro, layer)'
    BY <2>1, <2>2
  <2> QED BY <2>2, <2>3 DEF BlocksHeld
<1> QED BY <1>8, <1>11, <1>12, <1>13, <1>14 DEF Coordinated

\* The group of a layer is sent behind a wait for its write; the layer after waits for
\* what was sent before.
LEMMA CommitQueues ==
  ASSUME OffloadIInv, StreamsTyped, CommitForward, NEW m \in Micros, NEW i \in Groups,
         m = micro, i = layer, NEW c, NEW d, NEW h,
         c = Issued("compute"), d = Issued("d2h"), h = Issued("h2d"), NEW s, s = state[i]
  PROVE  /\ Queueing /\ StreamsTyped' /\ c \in Nat /\ d \in Nat /\ h \in Nat
         /\ Issued("compute")' = (IF i = 0 THEN c ELSE c + 1)
         /\ Issued("d2h")' = (IF i = Last THEN d + 1 ELSE d + 2) /\ Issued("h2d")' = h
         /\ Waits(Item("d2h", d + 1)', "compute", c)
         /\ i > 0 => Waits(Item("compute", c + 1)', "d2h", d + 1)
         /\ i < Last => LET x == Item("d2h", d + 2)' IN x.op = "save" /\ x.group = i /\ x.slot = s
<1> USE Sizes, NoSlotIsNone
<1>1. /\ pc_host = "commit" /\ current_group = layer /\ offloaded_group_count = Before
      /\ state[i] \in Slots /\ finished \in [Device -> Nat] /\ queue \in Programs
      /\ "compute" \in Device /\ "d2h" \in Device /\ "h2d" \in Device
      /\ AtWindow <=> i > 0
      /\ NextGroups = IF i < Last THEN {i} ELSE {}
  BY SentAtCommit
     DEF OffloadIInv, CommitForward, AtCommit, Forwards, Typed, StreamsTyped, Programs, Device
<1>2. UNCHANGED <<finished, content, host>> /\ micro' = m
  BY DEF CommitForward, device
<1>3. PICK x : x = Save(s, i)
  OBVIOUS
<1>4. x \in Work /\ x.op = "save" /\ x.group = i /\ x.slot = s
  BY <1>1, <1>3 DEF Save, Work
<1>5. /\ c = IssuedIn(queue, "compute") /\ d = IssuedIn(queue, "d2h") /\ h = IssuedIn(queue, "h2d")
      /\ c \in Nat /\ d \in Nat /\ h \in Nat
  BY <1>1, IssuedIsNat DEF Issued
<1>6. /\ Grows(queue, queue')
      /\ IssuedIn(queue', "compute") = (IF i = 0 THEN c ELSE c + 1)
      /\ IssuedIn(queue', "d2h") = (IF i = Last THEN d + 1 ELSE d + 2)
      /\ IssuedIn(queue', "h2d") = h
      /\ Waits(ItemIn(queue', "d2h", d + 1), "compute", c)
      /\ i > 0 => Waits(ItemIn(queue', "compute", c + 1), "d2h", d + 1)
      /\ i < Last => ItemIn(queue', "d2h", d + 2) = x
  <2>1. CASE i = 0
    <3>1. PICK q : q = WaitFor(queue, "d2h", "compute")
      OBVIOUS
    <3>2. queue' = Queued(q, "d2h", x)
      BY <1>1, <1>3, <2>1, <3>1 DEF CommitForward, Kickstart, Offload
    <3>3. /\ Grows(queue, q) /\ IssuedIn(q, "d2h") = d + 1 /\ IssuedIn(q, "compute") = c
          /\ IssuedIn(q, "h2d") = h /\ Waits(ItemIn(q, "d2h", d + 1), "compute", c)
      BY <1>1, <1>5, <3>1, Waiting
    <3>4. q \in Programs
      BY <3>3 DEF Grows
    <3>5. /\ Grows(q, queue') /\ IssuedIn(queue', "d2h") = (d + 1) + 1
          /\ IssuedIn(queue', "compute") = c /\ IssuedIn(queue', "h2d") = h
          /\ ItemIn(queue', "d2h", (d + 1) + 1) = x
      BY <1>1, <1>4, <3>2, <3>3, <3>4, GrowsByOne
    <3>6. Grows(queue, queue') /\ ItemIn(queue', "d2h", d + 1) = ItemIn(q, "d2h", d + 1)
      BY <1>1, <1>5, <3>3, <3>5, GrowsOn, AddedStays
    <3>7. (d + 1) + 1 = d + 2
      BY <1>5
    <3> QED BY <2>1, <3>3, <3>5, <3>6, <3>7
  <2>2. CASE i > 0
    <3>1. PICK q : q = Meet(queue)
      OBVIOUS
    <3>2. queue' = IF i < Last THEN Queued(q, "d2h", x) ELSE q
      <4>1. offloaded_group_count + 1 = i /\ current_group # 0
        BY <1>1, <2>2 DEF Before
      <4> QED BY <1>1, <1>3, <2>2, <3>1, <4>1 DEF CommitForward, Kickstart, Offload
    <3>3. /\ Grows(queue, q) /\ IssuedIn(q, "d2h") = d + 1 /\ IssuedIn(q, "compute") = c + 1
          /\ IssuedIn(q, "h2d") = h /\ Waits(ItemIn(q, "d2h", d + 1), "compute", c)
          /\ Waits(ItemIn(q, "compute", c + 1), "d2h", d + 1)
      BY <1>1, <1>5, <3>1, Meeting DEF Meet
    <3>4. CASE i = Last
      BY <2>2, <3>2, <3>3, <3>4
    <3>5. CASE i # Last
      <4>1. q \in Programs
        BY <3>3 DEF Grows
      <4>2. i < Last
        BY <3>5
      <4>3. /\ Grows(q, queue') /\ IssuedIn(queue', "d2h") = (d + 1) + 1
            /\ IssuedIn(queue', "compute") = c + 1 /\ IssuedIn(queue', "h2d") = h
            /\ ItemIn(queue', "d2h", (d + 1) + 1) = x
        BY <1>1, <1>4, <3>2, <3>3, <4>1, <4>2, GrowsByOne
      <4>4. /\ Grows(queue, queue') /\ ItemIn(queue', "d2h", d + 1) = ItemIn(q, "d2h", d + 1)
            /\ ItemIn(queue', "compute", c + 1) = ItemIn(q, "compute", c + 1)
        BY <1>1, <1>5, <3>3, <4>3, GrowsOn, AddedStays
      <4>5. (d + 1) + 1 = d + 2
        BY <1>5
      <4> QED BY <2>2, <3>3, <3>5, <4>3, <4>4, <4>5
    <3> QED BY <3>4, <3>5
  <2> QED BY <2>1, <2>2
<1>7. /\ Queueing /\ StreamsTyped'
      /\ \A e \in Device : Issued(e)' = IssuedIn(queue', e)
      /\ \A e \in Device : \A k : Item(e, k)' = ItemIn(queue', e, k)
  BY <1>2, <1>6, AfterHost
<1> QED BY <1>1, <1>4, <1>5, <1>6, <1>7

LEMMA StreamsCommitForward ==
  ASSUME OffloadIInv, StreamsTyped, Coordinated, CommitForward
  PROVE  StreamsTyped' /\ Coordinated'
<1> USE Sizes, NoSlotIsNone
<1>1. /\ pc_host = "commit" /\ layer \in Groups /\ micro \in Micros
      /\ "compute" \in Device /\ "d2h" \in Device /\ "h2d" \in Device
  BY DEF OffloadIInv, CommitForward, Typed, StreamsTyped, Device
<1>0. PICK m \in Micros, i \in Groups : m = micro /\ i = layer
  BY <1>1
<1>2. PICK c, d, h, s :
        /\ m = micro /\ i = layer /\ c = Issued("compute") /\ d = Issued("d2h") /\ h = Issued("h2d")
        /\ s = state[i]
  BY <1>0
<1>3. /\ Queueing /\ StreamsTyped' /\ c \in Nat /\ d \in Nat /\ h \in Nat
      /\ Issued("compute")' = (IF i = 0 THEN c ELSE c + 1)
      /\ Issued("d2h")' = (IF i = Last THEN d + 1 ELSE d + 2) /\ Issued("h2d")' = h
      /\ Waits(Item("d2h", d + 1)', "compute", c)
      /\ i > 0 => Waits(Item("compute", c + 1)', "d2h", d + 1)
      /\ i < Last => LET x == Item("d2h", d + 2)' IN x.op = "save" /\ x.group = i /\ x.slot = s
  BY <1>2, CommitQueues
<1>4. /\ c = Wrote(m, i) /\ d = Base(m, D) + 2 * i /\ h = Base(m, H)
      /\ Base(m, C) \in Nat /\ Base(m, D) \in Nat
      /\ Wrote(m, i) = Base(m, C) + (IF i = 0 THEN 1 ELSE 2 * i)
      /\ d + 1 = Saved(m, i) - 1 /\ d + 2 = Saved(m, i)
  <2>1. c = Wrote(m, i) /\ d = Base(m, D) + 2 * i /\ h = Base(m, H)
    BY <1>1, <1>2 DEF Coordinated, SoFar, Queues
  <2>2. Base(m, C) \in Nat /\ Base(m, D) \in Nat
    BY BaseFacts
  <2> QED BY <2>1, <2>2 DEF Wrote, Saved
<1>5. /\ micro' = m
      /\ IF i = Last THEN pc_host' = "reload" /\ layer' = i ELSE pc_host' = "forward" /\ layer' = i + 1
  BY <1>2 DEF CommitForward
<1>6. SoFar'
  <2>1. CASE i = Last
    <3>1. /\ Issued("compute")' = Reads(m, i) - 2 /\ Issued("d2h")' = Base(m, D) + D
          /\ Issued("h2d")' = Loads(m, i)
      BY <1>3, <1>4, <2>1 DEF Reads, Loads
    <3> QED BY <1>5, <2>1, <3>1 DEF SoFar, Queues, Reads, Loads, Base
  <2>2. CASE i # Last
    <3>1. /\ Issued("compute")' = Base(m, C) + 2 * (i + 1) - 1
          /\ Issued("d2h")' = Base(m, D) + 2 * (i + 1) /\ Issued("h2d")' = Base(m, H)
      BY <1>3, <1>4, <2>2
    <3> QED BY <1>5, <2>2, <3>1 DEF SoFar, Queues, Base
  <2> QED BY <2>1, <2>2
<1>7. /\ \A k : k \in Pending("compute")' => k \in Nat /\ (k > c => i > 0 /\ k = c + 1)
      /\ \A k : k \in Pending("d2h")' => k \in Nat /\ (k > d => k = d + 1 \/ (i < Last /\ k = d + 2))
      /\ \A k : k \in Pending("h2d")' => ~(k > h)
  <2>1. /\ \A k : k \in Pending("compute")' => k \in Nat /\ k <= (IF i = 0 THEN c ELSE c + 1)
        /\ \A k : k \in Pending("d2h")' => k \in Nat /\ k <= (IF i = Last THEN d + 1 ELSE d + 2)
        /\ \A k : k \in Pending("h2d")' => k \in Nat /\ k <= h
    BY <1>1, <1>3, PendingThen
  <2>2. c \in Nat /\ d \in Nat /\ i \in Nat /\ Last \in Nat /\ i <= Last
    BY <1>3
  <2>3. ASSUME NEW k \in Nat, k <= (IF i = 0 THEN c ELSE c + 1), k > c
        PROVE  i > 0 /\ k = c + 1
    <3>1. CASE i = 0
      BY <2>2, <2>3, <3>1
    <3>2. CASE i # 0
      BY <2>2, <2>3, <3>2
    <3> QED BY <3>1, <3>2
  <2>4. ASSUME NEW k \in Nat, k <= (IF i = Last THEN d + 1 ELSE d + 2), k > d
        PROVE  k = d + 1 \/ (i < Last /\ k = d + 2)
    <3>1. CASE i = Last
      <4>1. k <= d + 1
        BY <2>4, <3>1
      <4> QED BY <2>2, <2>4, <4>1
    <3>2. CASE i # Last
      <4>1. k <= d + 2 /\ i < Last
        BY <2>2, <2>4, <3>2
      <4> QED BY <2>2, <2>4, <4>1
    <3> QED BY <3>1, <3>2
  <2>5. \A k \in Nat : k <= h => ~(k > h)
    BY <1>3
  <2> QED BY <2>1, <2>3, <2>4, <2>5
<1>8. Program' /\ Synced' /\ HostHolds'
  <2>1. i > 0 => ComputeItem(c + 1, Item("compute", c + 1)', m, i)
    BY <1>3, <1>4 DEF ComputeItem
  <2>2. D2hItem(d + 1, Item("d2h", d + 1)', m, i) /\ (i < Last => D2hItem(d + 2, Item("d2h", d + 2)', m, i))
    BY <1>3, <1>4 DEF D2hItem
  <2>3. \A k \in Pending("compute")' : k > Issued("compute") =>
          \E n \in Micros, j \in Groups : ComputeItem(k, Item("compute", k)', n, j)
    BY <1>2, <1>7, <2>1
  <2>4. \A k \in Pending("d2h")' : k > Issued("d2h") =>
          \E n \in Micros, j \in Groups : D2hItem(k, Item("d2h", k)', n, j)
    BY <1>2, <1>7, <2>2
  <2>5. \A k \in Pending("h2d")' : ~(k > Issued("h2d"))
    BY <1>2, <1>7
  <2> QED BY <1>3, <2>3, <2>4, <2>5, HostStep
<1>9. \A n \in Micros, j \in Groups :
        /\ ~(Reads(n, j) > Issued("compute") /\ Reads(n, j) <= Issued("compute")')
        /\ ~(Wrote(n, j) > Issued("compute") /\ Wrote(n, j) <= Issued("compute")')
        /\ ~(Loads(n, j) > Issued("h2d") /\ Loads(n, j) <= Issued("h2d")')
  <2> SUFFICES ASSUME NEW n \in Micros, NEW j \in Groups
      PROVE  /\ ~(Reads(n, j) > c /\ Reads(n, j) <= Issued("compute")')
             /\ ~(Wrote(n, j) > c /\ Wrote(n, j) <= Issued("compute")')
             /\ ~(Loads(n, j) > h /\ Loads(n, j) <= h)
    BY <1>2, <1>3
  <2>1. Reads(n, j) \in Nat /\ Wrote(n, j) \in Nat /\ Loads(n, j) \in Nat
    BY Numbered
  <2>2. i > 0 => Reads(n, j) # c + 1 /\ Wrote(n, j) # c + 1
    <3>1. i > 0 => Wrote(m, i) + 1 # Reads(n, j) /\ Wrote(n, j) # Wrote(m, i) + 1
      BY ComputeApart
    <3> QED BY <1>4, <3>1
  <2> QED BY <1>3, <2>1, <2>2
<1>10. ASSUME NEW t, NEW n \in Micros, NEW j \in Groups, Written(t, n, j)
       PROVE  Written(t, n, j)'
  <2>1. j < Last => j + 1 \in Groups
    OBVIOUS
  <2> QED BY <1>3, <1>9, <1>10, <2>1, WrittenQueueing
<1>11. Written(s, m, i)
  BY <1>1, <1>2 DEF Coordinated, BlocksHeld
<1>12. BlocksQueued'
  <2>1. \A n \in Micros, j \in Groups :
          Reads(n, j) > Issued("compute") /\ Reads(n, j) <= Issued("compute")' =>
            Given(Item("compute", Reads(n, j)).slot, n, j)'
    BY <1>9
  <2>2. ASSUME NEW n \in Micros, NEW g \in Offloadable, Saved(n, g) > Issued("d2h"),
               Saved(n, g) <= Issued("d2h")'
        PROVE  Written(Item("d2h", Saved(n, g)).slot, n, g)'
    <3>1. g \in Groups /\ g < Last
      OBVIOUS
    <3>2. Saved(n, g) = d + 1 \/ (i < Last /\ Saved(n, g) = d + 2)
      <4>1. Saved(n, g) \in Nat /\ Saved(n, g) > d /\ Saved(n, g) <= (IF i = Last THEN d + 1 ELSE d + 2)
        BY <1>2, <1>3, <2>2, <3>1, Numbered
      <4>2. d \in Nat /\ i \in Nat /\ Last \in Nat /\ i <= Last
        BY <1>3
      <4>3. CASE i = Last
        <5>1. Saved(n, g) <= d + 1
          BY <4>1, <4>3
        <5> QED BY <4>1, <4>2, <5>1
      <4>4. CASE i # Last
        <5>1. Saved(n, g) <= d + 2 /\ i < Last
          BY <4>1, <4>2, <4>4
        <5> QED BY <4>1, <4>2, <5>1
      <4> QED BY <4>3, <4>4
    <3>3. Saved(n, g) # Saved(m, i) - 1
      BY <3>1, CopiesApart
    <3>4. i < Last /\ n = m /\ g = i
      BY <1>4, <3>1, <3>2, <3>3, CopiesApart
    <3>5. Item("d2h", d + 2)'.slot = s
      BY <1>3, <3>4
    <3>6. Item("d2h", Saved(n, g))' = Item("d2h", d + 2)'
      <4>1. PICK k : k = Saved(n, g)
        OBVIOUS
      <4> QED BY <1>4, <3>4, <4>1
    <3>7. Written(s, n, g)'
      BY <1>10, <1>11, <3>4
    <3> QED BY <3>5, <3>6, <3>7
  <2>3. \A n \in Micros, g \in Offloadable :
          Saved(n, g) \in Pending("d2h") /\ Issued("compute") < Wrote(n, g + 1)
          /\ Wrote(n, g + 1) <= Issued("compute")' =>
               Item("compute", Wrote(n, g + 1))'.slot # Item("d2h", Saved(n, g)).slot
    <3>1. \A g \in Offloadable : g + 1 \in Groups
      OBVIOUS
    <3>2. \A n \in Micros, j \in Groups :
            ~(Issued("compute") < Wrote(n, j) /\ Wrote(n, j) <= Issued("compute")')
      BY <1>9
    <3> QED BY <3>1, <3>2
  <2>4. \A n \in Micros, j \in Groups :
          Reads(n, j) \in Pending("compute") /\ j > 0 /\ j < Last
          /\ Issued("h2d") < Loads(n, j - 1) /\ Loads(n, j - 1) <= Issued("h2d")' =>
               Item("h2d", Loads(n, j - 1))'.slot # Item("compute", Reads(n, j)).slot
    <3>1. \A j \in Groups : j > 0 => j - 1 \in Groups
      OBVIOUS
    <3>2. \A n \in Micros, j \in Groups :
            ~(Issued("h2d") < Loads(n, j) /\ Loads(n, j) <= Issued("h2d")')
      BY <1>9
    <3> QED BY <3>1, <3>2
  <2> QED BY <1>3, <2>1, <2>2, <2>3, <2>4, BlocksStayQueued
<1>13. BlocksHeld'
  <2>1. Written(s, m, i)'
    BY <1>10, <1>11
  <2>2. CASE i = Last
    <3>1. state'[layer'] = s /\ pc_host' = "reload" /\ layer' = i /\ micro' = m
      <4>1. NextGroups = {}
        BY <1>1, <1>2, <2>2, SentAtCommit
      <4> QED BY <1>2, <1>5, <2>2, <4>1 DEF CommitForward
    <3>2. Given(s, m, i)'
      BY <2>1, <2>2 DEF Given
    <3>3. Given(state[layer], micro, layer)'
      BY <3>1, <3>2
    <3> QED BY <3>1, <3>3 DEF BlocksHeld
  <2>3. CASE i # Last
    <3>1. pc_host' = "forward" /\ layer' = i + 1 /\ micro' = m /\ i < Last
      BY <1>5, <2>3
    <3>2. buf'[i] = s
      <4>1. /\ buf[i] = s /\ offloaded_group_count = Before /\ (AtWindow <=> i > 0)
            /\ buf \in [Groups -> Slots \cup {NoSlot}]
        BY <1>1, <1>2, <3>1, SentAtCommit DEF OffloadIInv, AtCommit, Forwards, Typed
      <4>2. i > 0 => offloaded_group_count # i
        BY <1>2, <4>1 DEF Before
      <4> QED BY <4>1, <4>2 DEF CommitForward
    <3>3. Item("d2h", d + 2)'.slot = s
      BY <1>3, <3>1
    <3>4. PICK k : k = Saved(m, i)
      OBVIOUS
    <3>5. Saved(micro, layer - 1)' = k
      <4>1. (i + 1) - 1 = i
        OBVIOUS
      <4> QED BY <3>1, <3>4, <4>1 DEF Saved, Base
    <3>6. Item("d2h", k)'.slot = s
      BY <1>4, <3>3, <3>4
    <3>7. Item("d2h", Saved(micro, layer - 1))' = Item("d2h", k)'
      BY <3>5 DEF Item, ItemIn
    <3>8. buf'[layer' - 1] = s
      <4>1. (i + 1) - 1 = i
        OBVIOUS
      <4> QED BY <3>1, <3>2, <4>1
    <3> QED BY <3>1, <3>6, <3>7, <3>8 DEF BlocksHeld
  <2> QED BY <2>2, <2>3
<1> QED BY <1>3, <1>6, <1>8, <1>12, <1>13 DEF Coordinated

\* The group of the layer to follow is fetched behind what the backward pass has done
\* so far, and a layer waits for the copy begun a layer earlier.
LEMMA ReloadQueues ==
  ASSUME OffloadIInv, StreamsTyped, CommitBackward, NEW m \in Micros, NEW i \in Groups,
         m = micro, i = layer, NEW c, NEW d, NEW h,
         c = Issued("compute"), d = Issued("d2h"), h = Issued("h2d")
  PROVE  /\ Queueing /\ StreamsTyped' /\ c \in Nat /\ d \in Nat /\ h \in Nat
         /\ Issued("compute")' = c + 1 /\ Issued("d2h")' = d
         /\ i = 0 => /\ Issued("h2d")' = h /\ state' = state
                     /\ Waits(Item("compute", c + 1)', "h2d", h)
         /\ i > 0 => /\ Issued("h2d")' = h + 2
                     /\ Waits(Item("compute", c + 1)', "h2d", h + 1)
                     /\ Waits(Item("h2d", h + 1)', "compute", c)
                     /\ \E t \in ReloadSlots \ Live :
                          /\ LET x == Item("h2d", h + 2)' IN x.op = "load" /\ x.group = i - 1 /\ x.slot = t
                          /\ state' = [state EXCEPT ![i - 1] = t]
<1> USE Sizes, NoSlotIsNone
<1>1. /\ pc_host = "reload" /\ current_group - 1 = i /\ (Reloads(i) <=> i > 0)
      /\ i > 0 => offloaded_group_count = i
      /\ finished \in [Device -> Nat] /\ queue \in Programs
      /\ "compute" \in Device /\ "d2h" \in Device /\ "h2d" \in Device
  BY FetchedAtReload DEF CommitBackward, StreamsTyped, Programs, Device
<1>2. UNCHANGED <<finished, content, host>> /\ micro' = m
  BY DEF CommitBackward, device
<1>3. /\ c = IssuedIn(queue, "compute") /\ d = IssuedIn(queue, "d2h") /\ h = IssuedIn(queue, "h2d")
      /\ c \in Nat /\ d \in Nat /\ h \in Nat
  BY <1>1, IssuedIsNat DEF Issued
<1>4. CASE i = 0
  <2>1. queue' = WaitFor(queue, "compute", "h2d") /\ state' = state
    BY <1>1, <1>4 DEF CommitBackward, AfterReload
  <2>2. /\ Grows(queue, queue') /\ IssuedIn(queue', "compute") = c + 1
        /\ IssuedIn(queue', "d2h") = d /\ IssuedIn(queue', "h2d") = h
        /\ Waits(ItemIn(queue', "compute", c + 1), "h2d", h)
    BY <1>1, <1>3, <2>1, Waiting
  <2>3. /\ Queueing /\ StreamsTyped'
        /\ \A e \in Device : Issued(e)' = IssuedIn(queue', e)
        /\ \A e \in Device : \A k : Item(e, k)' = ItemIn(queue', e, k)
    BY <1>2, <2>2, AfterHost
  <2> QED BY <1>1, <1>3, <1>4, <2>1, <2>2, <2>3
<1>5. CASE i > 0
  <2>1. PICK t \in ReloadSlots \ Live :
          /\ queue' = Queued(BeforeReload(queue), "h2d", Load(t, i - 1))
          /\ state' = [state EXCEPT ![i - 1] = t]
    BY <1>1, <1>5 DEF CommitBackward, AfterReload
  <2>2. PICK q, x : q = BeforeReload(queue) /\ x = Load(t, i - 1)
    OBVIOUS
  <2>3. x \in Work /\ x.op = "load" /\ x.group = i - 1 /\ x.slot = t
    BY <1>5, <2>2 DEF Load, Work, Slots
  <2>4. /\ Grows(queue, q) /\ IssuedIn(q, "h2d") = h + 1 /\ IssuedIn(q, "compute") = c + 1
        /\ IssuedIn(q, "d2h") = d /\ Waits(ItemIn(q, "h2d", h + 1), "compute", c)
        /\ Waits(ItemIn(q, "compute", c + 1), "h2d", h + 1)
    BY <1>1, <1>3, <2>2, Meeting DEF BeforeReload
  <2>5. q \in Programs
    BY <2>4 DEF Grows
  <2>6. /\ Grows(q, queue') /\ IssuedIn(queue', "h2d") = (h + 1) + 1
        /\ IssuedIn(queue', "compute") = c + 1 /\ IssuedIn(queue', "d2h") = d
        /\ ItemIn(queue', "h2d", (h + 1) + 1) = x
    BY <1>1, <2>1, <2>2, <2>3, <2>4, <2>5, GrowsByOne
  <2>7. /\ Grows(queue, queue') /\ ItemIn(queue', "h2d", h + 1) = ItemIn(q, "h2d", h + 1)
        /\ ItemIn(queue', "compute", c + 1) = ItemIn(q, "compute", c + 1)
    BY <1>1, <1>3, <2>4, <2>6, GrowsOn, AddedStays
  <2>8. (h + 1) + 1 = h + 2
    BY <1>3
  <2>9. /\ Queueing /\ StreamsTyped'
        /\ \A e \in Device : Issued(e)' = IssuedIn(queue', e)
        /\ \A e \in Device : \A k : Item(e, k)' = ItemIn(queue', e, k)
    BY <1>2, <2>7, AfterHost
  <2>10. /\ Issued("compute")' = c + 1 /\ Issued("d2h")' = d /\ Issued("h2d")' = h + 2
         /\ Waits(Item("compute", c + 1)', "h2d", h + 1) /\ Waits(Item("h2d", h + 1)', "compute", c)
         /\ Item("h2d", h + 2)' = x
    BY <1>1, <2>4, <2>6, <2>7, <2>8, <2>9
  <2>11. LET y == Item("h2d", h + 2)' IN y.op = "load" /\ y.group = i - 1 /\ y.slot = t
    BY <2>3, <2>10
  <2>12. \E u \in ReloadSlots \ Live :
           /\ LET y == Item("h2d", h + 2)' IN y.op = "load" /\ y.group = i - 1 /\ y.slot = u
           /\ state' = [state EXCEPT ![i - 1] = u]
    BY <2>1, <2>11
  <2>13. i # 0
    BY <1>5
  <2> HIDE Sizes, NoSlotIsNone
  <2> QED BY <1>3, <2>9, <2>10, <2>12, <2>13
<1> QED BY <1>4, <1>5

LEMMA StreamsCommitBackward ==
  ASSUME OffloadIInv, StreamsTyped, Coordinated, CommitBackward
  PROVE  StreamsTyped' /\ Coordinated'
<1> USE Sizes, NoSlotIsNone
<1>1. /\ pc_host = "reload" /\ layer \in Groups /\ micro \in Micros
      /\ "compute" \in Device /\ "d2h" \in Device /\ "h2d" \in Device
      /\ state \in [Groups -> Slots \cup {NoSlot, OnHost}]
  BY DEF OffloadIInv, CommitBackward, Typed, StreamsTyped, Device
<1>0. PICK m \in Micros, i \in Groups : m = micro /\ i = layer
  BY <1>1
<1>2. PICK c, d, h, s :
        /\ m = micro /\ i = layer /\ c = Issued("compute") /\ d = Issued("d2h") /\ h = Issued("h2d")
        /\ s = state[i]
  BY <1>0
<1>3. /\ Queueing /\ StreamsTyped' /\ c \in Nat /\ d \in Nat /\ h \in Nat
      /\ Issued("compute")' = c + 1 /\ Issued("d2h")' = d
      /\ i = 0 => /\ Issued("h2d")' = h /\ state' = state
                  /\ Waits(Item("compute", c + 1)', "h2d", h)
      /\ i > 0 => /\ Issued("h2d")' = h + 2
                  /\ Waits(Item("compute", c + 1)', "h2d", h + 1)
                  /\ Waits(Item("h2d", h + 1)', "compute", c)
  BY <1>2, ReloadQueues
<1>4. PICK t : i > 0 =>
        /\ t \in ReloadSlots \ Live /\ state' = [state EXCEPT ![i - 1] = t]
        /\ LET x == Item("h2d", h + 2)' IN x.op = "load" /\ x.group = i - 1 /\ x.slot = t
  BY <1>2, ReloadQueues
<1>5. /\ c + 1 = Reads(m, i) - 1 /\ d = Base(m, D) + D /\ h = Loads(m, i)
      /\ i > 0 => /\ i - 1 \in Groups /\ i - 1 \in Offloadable
                  /\ h + 1 = Loads(m, i - 1) - 1 /\ h + 2 = Loads(m, i - 1)
                  /\ c = Reads(m, (i - 1) + 1) - 2
  <2>1. c = Reads(m, i) - 2 /\ d = Base(m, D) + D /\ h = Loads(m, i)
    BY <1>1, <1>2 DEF Coordinated, SoFar, Queues
  <2>2. Reads(m, i) \in Nat /\ Loads(m, i) \in Nat /\ Base(m, H) \in Nat
    BY Numbered
  <2>3. i > 0 => i - 1 \in Groups /\ i - 1 \in Offloadable /\ (i - 1) + 1 = i
    OBVIOUS
  <2>4. i > 0 => Loads(m, i - 1) = Loads(m, i) + 2
    BY <2>2 DEF Loads
  <2> QED BY <2>1, <2>2, <2>3, <2>4
<1>6. micro' = m /\ layer' = i /\ pc_host' = "backward" /\ buf' = buf /\ UNCHANGED <<finished, content, host>>
  BY <1>2 DEF CommitBackward, device
<1>7. SoFar'
  <2>1. Issued("compute")' = Reads(m, i) - 1 /\ Issued("d2h")' = Base(m, D) + D
        /\ Issued("h2d")' = (IF i = 0 THEN Loads(m, 0) ELSE Loads(m, i) + 2)
    BY <1>3, <1>5
  <2> QED BY <1>6, <2>1 DEF SoFar, Queues, Reads, Loads, Base
<1>8. /\ \A k : k \in Pending("compute")' => k \in Nat /\ (k > c => k = c + 1)
      /\ \A k : k \in Pending("d2h")' => ~(k > d)
      /\ i = 0 => \A k : k \in Pending("h2d")' => ~(k > h)
      /\ i > 0 => \A k : k \in Pending("h2d")' => (k > h => k = h + 1 \/ k = h + 2)
  <2>1. /\ \A k : k \in Pending("compute")' => k \in Nat /\ k <= c + 1
        /\ \A k : k \in Pending("d2h")' => k \in Nat /\ k <= d
        /\ i = 0 => \A k : k \in Pending("h2d")' => k \in Nat /\ k <= h
        /\ i > 0 => \A k : k \in Pending("h2d")' => k \in Nat /\ k <= h + 2
    BY <1>1, <1>3, PendingThen
  <2> QED BY <1>3, <2>1
<1>9. Program' /\ Synced' /\ HostHolds'
  <2>1. ComputeItem(c + 1, Item("compute", c + 1)', m, i)
    BY <1>3, <1>5 DEF ComputeItem, LoadedBefore
  <2>2. i > 0 => H2dItem(h + 1, Item("h2d", h + 1)', m, i - 1) /\ H2dItem(h + 2, Item("h2d", h + 2)', m, i - 1)
    BY <1>3, <1>4, <1>5 DEF H2dItem
  <2>3. \A k \in Pending("compute")' : k > Issued("compute") =>
          \E n \in Micros, j \in Groups : ComputeItem(k, Item("compute", k)', n, j)
    BY <1>2, <1>8, <2>1
  <2>4. \A k \in Pending("d2h")' : ~(k > Issued("d2h"))
    BY <1>2, <1>8
  <2>5. \A k \in Pending("h2d")' : k > Issued("h2d") =>
          \E n \in Micros, g \in Offloadable : H2dItem(k, Item("h2d", k)', n, g)
    BY <1>2, <1>5, <1>8, <2>2
  <2> QED BY <1>3, <2>3, <2>4, <2>5, HostStep
<1>10. \A n \in Micros, j \in Groups :
         /\ ~(Reads(n, j) > Issued("compute") /\ Reads(n, j) <= Issued("compute")')
         /\ ~(Wrote(n, j) > Issued("compute") /\ Wrote(n, j) <= Issued("compute")')
         /\ ~(Saved(n, j) > Issued("d2h") /\ Saved(n, j) <= Issued("d2h")')
  <2> SUFFICES ASSUME NEW n \in Micros, NEW j \in Groups
      PROVE  /\ ~(Reads(n, j) > c /\ Reads(n, j) <= c + 1)
             /\ ~(Wrote(n, j) > c /\ Wrote(n, j) <= c + 1)
             /\ ~(Saved(n, j) > d /\ Saved(n, j) <= d)
    BY <1>2, <1>3
  <2>1. Reads(n, j) \in Nat /\ Wrote(n, j) \in Nat /\ Saved(n, j) \in Nat
    BY Numbered
  <2>2. Reads(n, j) # c + 1 /\ Wrote(n, j) # c + 1
    BY <1>5, ComputeApart
  <2> QED BY <1>3, <2>1, <2>2
\* The only new load is that of the group before.
<1>11. \A n \in Micros, j \in Groups :
         Loads(n, j) > h /\ Loads(n, j) <= Issued("h2d")' /\ j < Last => i > 0 /\ n = m /\ j = i - 1
  <2> SUFFICES ASSUME NEW n \in Micros, NEW j \in Groups,
                      Loads(n, j) > h, Loads(n, j) <= Issued("h2d")', j < Last
               PROVE  i > 0 /\ n = m /\ j = i - 1
    OBVIOUS
  <2>1. Loads(n, j) \in Nat
    BY Numbered
  <2>2. i > 0
    BY <1>3, <2>1
  <2>3. Loads(n, j) = h + 1 \/ Loads(n, j) = h + 2
    BY <1>3, <2>1, <2>2
  <2>4. i - 1 < Last
    BY <2>2
  <2> QED BY <1>5, <2>2, <2>3, <2>4, CopiesApart
<1>12. Given(s, m, i)
  BY <1>1, <1>2 DEF Coordinated, BlocksHeld
<1>13. Given(s, m, i)'
  <2>1. CASE i = Last
    BY <1>3, <1>12, <2>1, GivenQueueing
  <2>2. CASE i # Last
    <3>1. s \in ReloadSlots
      BY <1>12, <2>2 DEF Given, Loaded
    <3>2. s \in Live
      BY <1>2, <3>1 DEF Live, Slots
    <3>3. i > 0 => Item("h2d", Loads(m, i - 1))'.slot # s
      <4>1. i > 0 => Item("h2d", h + 2)'.slot # s
        BY <1>4, <3>2
      <4>2. PICK k : k = Loads(m, i - 1)
        OBVIOUS
      <4> QED BY <1>5, <4>1, <4>2
    <3> QED BY <1>3, <1>12, <3>3, GivenQueueing
  <2> QED BY <2>1, <2>2
<1>14. i > 0 => Loaded(t, m, i - 1)'
  <2> SUFFICES ASSUME i > 0 PROVE Loaded(t, m, i - 1)'
    OBVIOUS
  <2>0. PICK g \in Groups : g = i - 1
    BY <1>5
  <2>1. t \in ReloadSlots /\ Loads(m, g) <= Issued("h2d")'
    BY <1>3, <1>4, <1>5, <2>0
  <2>2. ~(finished'["h2d"] >= Loads(m, g))
    <3>1. finished'["h2d"] = finished["h2d"] /\ finished["h2d"] <= h /\ finished["h2d"] \in Nat
      BY <1>1, <1>2, <1>6, IssuedIsNat
    <3> QED BY <1>3, <1>5, <2>0, <3>1
  <2>3. Item("h2d", Loads(m, g))'.slot = t
    <3>1. Item("h2d", h + 2)'.slot = t
      BY <1>4
    <3>2. PICK k : k = Loads(m, g)
      OBVIOUS
    <3> QED BY <1>5, <2>0, <3>1, <3>2
  <2>4. g > 0 => Loads(m, g - 1) \notin Pending("h2d")'
    <3>1. g > 0 => Loads(m, g - 1) > Loads(m, g)
      <4>1. Base(m, H) \in Nat
        BY Numbered
      <4> QED BY <4>1 DEF Loads
    <3>2. \A k : k \in Pending("h2d")' => k \in Nat /\ k <= h + 2
      BY <1>1, <1>3, PendingThen
    <3> QED BY <1>3, <1>5, <2>0, <3>1, <3>2
  <2>5. Loaded(t, m, g)'
    BY <2>1, <2>2, <2>3, <2>4 DEF Loaded
  <2> QED BY <2>0, <2>5
<1>15. BlocksQueued'
  <2>1. \A n \in Micros, j \in Groups :
          Reads(n, j) > Issued("compute") /\ Reads(n, j) <= Issued("compute")' =>
            Given(Item("compute", Reads(n, j)).slot, n, j)'
    BY <1>10
  <2>2. \A n \in Micros, g \in Offloadable :
          Saved(n, g) > Issued("d2h") /\ Saved(n, g) <= Issued("d2h")' =>
            Written(Item("d2h", Saved(n, g)).slot, n, g)'
    BY <1>10
  <2>3. \A n \in Micros, g \in Offloadable :
          Saved(n, g) \in Pending("d2h") /\ Issued("compute") < Wrote(n, g + 1)
          /\ Wrote(n, g + 1) <= Issued("compute")' =>
               Item("compute", Wrote(n, g + 1))'.slot # Item("d2h", Saved(n, g)).slot
    <3>1. \A g \in Offloadable : g + 1 \in Groups
      OBVIOUS
    <3>2. \A n \in Micros, j \in Groups :
            ~(Issued("compute") < Wrote(n, j) /\ Wrote(n, j) <= Issued("compute")')
      BY <1>10
    <3> QED BY <3>1, <3>2
  <2>4. \A n \in Micros, j \in Groups :
          Reads(n, j) \in Pending("compute") /\ j > 0 /\ j < Last
          /\ Issued("h2d") < Loads(n, j - 1) /\ Loads(n, j - 1) <= Issued("h2d")' =>
               Item("h2d", Loads(n, j - 1))'.slot # Item("compute", Reads(n, j)).slot
    <3> SUFFICES ASSUME NEW n \in Micros, NEW j \in Groups, Reads(n, j) \in Pending("compute"),
                        j > 0, j < Last,
                        Issued("h2d") < Loads(n, j - 1), Loads(n, j - 1) <= Issued("h2d")'
                 PROVE  FALSE
      OBVIOUS
    <3>1. j - 1 \in Groups /\ j - 1 < Last
      OBVIOUS
    <3>2. n = m /\ j - 1 = i - 1 /\ i > 0
      <4>1. h < Loads(n, j - 1) /\ Loads(n, j - 1) \in Nat
        BY <1>2, <3>1, Numbered
      <4> QED BY <1>3, <1>11, <3>1, <4>1
    <3>3. j = i
      BY <3>2
    <3>4. Reads(m, i) <= c /\ Reads(m, i) \in Nat
      BY <1>1, <1>2, <3>2, <3>3, IssuedIsNat
    <3> QED BY <1>3, <1>5, <3>4
  <2> QED BY <1>3, <2>1, <2>2, <2>3, <2>4, BlocksStayQueued
<1>16. BlocksHeld'
  <2>1. state'[i] = s
    BY <1>1, <1>2, <1>3, <1>4, <1>5
  <2>2. Given(state[layer], micro, layer)'
    BY <1>6, <1>13, <2>1
  <2>3. i > 0 => state'[i - 1] = t
    BY <1>1, <1>4, <1>5
  <2>4. i > 0 => Given(t, m, i - 1)'
    BY <1>14 DEF Given
  <2>5. layer' > 0 => Given(state[layer - 1], micro, layer - 1)'
    BY <1>6, <2>3, <2>4
  <2> QED BY <1>6, <2>2, <2>5 DEF BlocksHeld
<1> QED BY <1>3, <1>7, <1>9, <1>15, <1>16 DEF Coordinated

LEMMA StreamsBackwardLayer ==
  ASSUME OffloadIInv, StreamsTyped, Coordinated, BackwardLayer
  PROVE  StreamsTyped' /\ Coordinated'
<1> USE Sizes, NoSlotIsNone
<1>1. /\ pc_host = "backward" /\ layer \in Groups /\ micro \in Micros /\ current_group = layer
      /\ "compute" \in Device /\ "d2h" \in Device /\ "h2d" \in Device
      /\ state \in [Groups -> Slots \cup {NoSlot, OnHost}]
      /\ finished \in [Device -> Nat] /\ queue \in Programs
  BY DEF OffloadIInv, BackwardLayer, AtBackward, Typed, StreamsTyped, Device, Programs
<1>0. PICK m \in Micros, i \in Groups : m = micro /\ i = layer
  BY <1>1
<1>2. PICK c, d, h, s, x :
        /\ m = micro /\ i = layer /\ c = Issued("compute") /\ d = Issued("d2h") /\ h = Issued("h2d")
        /\ s = state[i] /\ x = Read(s, <<m, i>>)
  BY <1>0
<1>3. /\ s \in Slots /\ queue' = Queued(queue, "compute", x) /\ state' = [state EXCEPT ![i] = NoSlot]
      /\ UNCHANGED <<finished, content, host>>
      /\ IF i > 0 THEN pc_host' = "reload" /\ layer' = i - 1 /\ micro' = m
         ELSE \/ pc_host' = "forward" /\ layer' = 0 /\ micro' = m + 1
              \/ pc_host' = "done" /\ layer' = i /\ micro' = m
  BY <1>1, <1>2 DEF BackwardLayer, device, Own
<1>4. x \in Work /\ x.op = "read" /\ x.slot = s /\ x.value = <<m, i>>
  BY <1>2, <1>3 DEF Read, Work
<1>5. /\ Grows(queue, queue')
      /\ IssuedIn(queue', "compute") = IssuedIn(queue, "compute") + 1
      /\ ItemIn(queue', "compute", IssuedIn(queue, "compute") + 1) = x
      /\ IssuedIn(queue', "d2h") = IssuedIn(queue, "d2h") /\ IssuedIn(queue', "h2d") = IssuedIn(queue, "h2d")
  BY <1>1, <1>3, <1>4, GrowsByOne
<1>6. /\ Queueing /\ StreamsTyped'
      /\ \A e \in Device : Issued(e)' = IssuedIn(queue', e) /\ Issued(e) = IssuedIn(queue, e)
      /\ \A e \in Device : \A k : Item(e, k)' = ItemIn(queue', e, k)
  <2>1. micro' \in Micros
    BY <1>3 DEF Micros
  <2> QED BY <1>3, <1>5, <2>1, AfterHost
<1>7. /\ Issued("compute")' = c + 1 /\ Issued("d2h")' = d /\ Issued("h2d")' = h
      /\ Item("compute", c + 1)' = x
      /\ c \in Nat /\ d \in Nat /\ h \in Nat
  BY <1>1, <1>2, <1>5, <1>6, IssuedIsNat
<1>8. /\ c + 1 = Reads(m, i) /\ d = Base(m, D) + D
      /\ h = (IF i = 0 THEN Loads(m, 0) ELSE Loads(m, i) + 2)
      /\ Base(m, C) \in Nat /\ Base(m, H) \in Nat /\ Reads(m, i) \in Nat
  <2>1. /\ c = Reads(m, i) - 1 /\ d = Base(m, D) + D
        /\ h = (IF i = 0 THEN Loads(m, 0) ELSE Loads(m, i) + 2)
    BY <1>1, <1>2 DEF Coordinated, SoFar, Queues
  <2>2. Base(m, C) \in Nat /\ Base(m, H) \in Nat /\ Reads(m, i) \in Nat
    BY Numbered
  <2> QED BY <2>1, <2>2
<1>9. SoFar'
  <2>1. CASE i > 0
    <3>1. /\ Issued("compute")' = Reads(m, i - 1) - 2 /\ Issued("h2d")' = Loads(m, i - 1)
      BY <1>7, <1>8, <2>1 DEF Reads, Loads
    <3>2. pc_host' = "reload" /\ layer' = i - 1 /\ micro' = m
      BY <1>3, <2>1
    <3> QED BY <1>7, <1>8, <3>1, <3>2 DEF SoFar, Queues, Reads, Loads, Base
  <2>2. CASE i = 0
    <3>1. /\ Issued("compute")' = Base(m, C) + C /\ Issued("d2h")' = Base(m, D) + D
          /\ Issued("h2d")' = Base(m, H) + H
      BY <1>7, <1>8, <2>2 DEF Reads, Loads
    <3>2. CASE pc_host' = "forward" /\ layer' = 0 /\ micro' = m + 1
      <4>1. /\ Base(m + 1, C) = Base(m, C) + C /\ Base(m + 1, D) = Base(m, D) + D
            /\ Base(m + 1, H) = Base(m, H) + H /\ Base(m, D) \in Nat
        BY BaseFacts
      <4>2. /\ Issued("compute")' = Base(m + 1, C) + 0 /\ Issued("d2h")' = Base(m + 1, D) + 2 * 0
            /\ Issued("h2d")' = Base(m + 1, H)
        BY <1>8, <3>1, <4>1
      <4> QED BY <3>2, <4>2 DEF SoFar, Queues, Base
    <3>3. CASE pc_host' = "done" /\ layer' = i /\ micro' = m
      BY <3>1, <3>3 DEF SoFar, Queues, Base
    <3> QED BY <1>3, <2>2, <3>2, <3>3
  <2> QED BY <2>1, <2>2
<1>10. /\ \A k : k \in Pending("compute")' => k \in Nat /\ (k > c => k = c + 1)
       /\ \A k : k \in Pending("d2h")' => ~(k > d)
       /\ \A k : k \in Pending("h2d")' => ~(k > h)
  <2>1. /\ \A k : k \in Pending("compute")' => k \in Nat /\ k <= c + 1
        /\ \A k : k \in Pending("d2h")' => k \in Nat /\ k <= d
        /\ \A k : k \in Pending("h2d")' => k \in Nat /\ k <= h
    BY <1>1, <1>6, <1>7, PendingThen
  <2> QED BY <1>7, <2>1
<1>11. Program' /\ Synced' /\ HostHolds'
  <2>1. ComputeItem(c + 1, Item("compute", c + 1)', m, i)
    BY <1>4, <1>7, <1>8 DEF ComputeItem
  <2>2. \A k \in Pending("compute")' : k > Issued("compute") =>
          \E n \in Micros, j \in Groups : ComputeItem(k, Item("compute", k)', n, j)
    BY <1>2, <1>10, <2>1
  <2>3. /\ \A k \in Pending("d2h")' : ~(k > Issued("d2h"))
        /\ \A k \in Pending("h2d")' : ~(k > Issued("h2d"))
    BY <1>2, <1>10
  <2> QED BY <1>6, <2>2, <2>3, HostStep
<1>12. \A n \in Micros, j \in Groups :
         /\ ~(Wrote(n, j) > Issued("compute") /\ Wrote(n, j) <= Issued("compute")')
         /\ ~(Saved(n, j) > Issued("d2h") /\ Saved(n, j) <= Issued("d2h")')
         /\ ~(Loads(n, j) > Issued("h2d") /\ Loads(n, j) <= Issued("h2d")')
  <2> SUFFICES ASSUME NEW n \in Micros, NEW j \in Groups
      PROVE  /\ ~(Wrote(n, j) > c /\ Wrote(n, j) <= c + 1)
             /\ ~(Saved(n, j) > d /\ Saved(n, j) <= d)
             /\ ~(Loads(n, j) > h /\ Loads(n, j) <= h)
    BY <1>2, <1>7
  <2>1. Wrote(n, j) \in Nat /\ Saved(n, j) \in Nat /\ Loads(n, j) \in Nat
    BY Numbered
  <2>2. Wrote(n, j) # c + 1
    BY <1>8, ComputeApart
  <2> QED BY <1>7, <2>1, <2>2
<1>13. \A j \in Groups : j > 0 => j - 1 \in Groups
  OBVIOUS
<1>14. ASSUME NEW r, NEW n \in Micros, NEW j \in Groups, Given(r, n, j)
       PROVE  Given(r, n, j)'
  BY <1>6, <1>12, <1>13, <1>14, GivenQueueing
<1>15. Given(s, m, i)
  BY <1>1, <1>2 DEF Coordinated, BlocksHeld
<1>16. BlocksQueued'
  <2>1. ASSUME NEW n \in Micros, NEW j \in Groups,
               Reads(n, j) > Issued("compute"), Reads(n, j) <= Issued("compute")'
        PROVE  Given(Item("compute", Reads(n, j)).slot, n, j)'
    <3>1. Reads(n, j) = c + 1
      BY <1>2, <1>7, <2>1, Numbered
    <3>2. n = m /\ j = i
      BY <1>8, <3>1, ComputeApart
    <3>3. Item("compute", Reads(n, j))'.slot = s
      <4>1. PICK k : k = Reads(n, j)
        OBVIOUS
      <4> QED BY <1>4, <1>7, <3>1, <4>1
    <3> QED BY <1>14, <1>15, <3>2, <3>3
  <2>2. \A n \in Micros, g \in Offloadable :
          Saved(n, g) > Issued("d2h") /\ Saved(n, g) <= Issued("d2h")' =>
            Written(Item("d2h", Saved(n, g)).slot, n, g)'
    BY <1>12
  <2>3. \A n \in Micros, g \in Offloadable :
          Saved(n, g) \in Pending("d2h") /\ Issued("compute") < Wrote(n, g + 1)
          /\ Wrote(n, g + 1) <= Issued("compute")' =>
               Item("compute", Wrote(n, g + 1))'.slot # Item("d2h", Saved(n, g)).slot
    <3>1. \A g \in Offloadable : g + 1 \in Groups
      OBVIOUS
    <3>2. \A n \in Micros, j \in Groups :
            ~(Issued("compute") < Wrote(n, j) /\ Wrote(n, j) <= Issued("compute")')
      BY <1>12
    <3> QED BY <3>1, <3>2
  <2>4. \A n \in Micros, j \in Groups :
          Reads(n, j) \in Pending("compute") /\ j > 0 /\ j < Last
          /\ Issued("h2d") < Loads(n, j - 1) /\ Loads(n, j - 1) <= Issued("h2d")' =>
               Item("h2d", Loads(n, j - 1))'.slot # Item("compute", Reads(n, j)).slot
    <3>1. \A n \in Micros, j \in Groups :
            ~(Issued("h2d") < Loads(n, j) /\ Loads(n, j) <= Issued("h2d")')
      BY <1>12
    <3> QED BY <1>13, <3>1
  <2> QED BY <1>6, <2>1, <2>2, <2>3, <2>4, BlocksStayQueued
<1>17. BlocksHeld'
  <2>1. CASE i > 0
    <3>1. PICK r, g : r = state[i - 1] /\ g = i - 1
      OBVIOUS
    <3>2. g \in Groups /\ g # i
      BY <1>13, <2>1, <3>1
    <3>3. Given(r, m, g)
      BY <1>1, <1>2, <2>1, <3>1 DEF Coordinated, BlocksHeld
    <3>4. Given(r, m, g)'
      BY <1>14, <3>2, <3>3
    <3>5. state'[g] = r /\ pc_host' = "reload" /\ layer' = g /\ micro' = m
      BY <1>1, <1>3, <2>1, <3>1, <3>2
    <3>6. Given(state[layer], micro, layer)'
      BY <3>4, <3>5
    <3> QED BY <3>5, <3>6 DEF BlocksHeld
  <2>2. CASE i = 0
    BY <1>3, <2>2 DEF BlocksHeld
  <2> QED BY <2>1, <2>2
<1> QED BY <1>6, <1>9, <1>11, <1>16, <1>17 DEF Coordinated

\* The device goes on, or nothing does.
LEMMA StreamsOther ==
  ASSUME OffloadIInv, StreamsTyped, Coordinated,
         Drained \/ (\E d \in Device : Execute(d)) \/ UNCHANGED offload
  PROVE  StreamsTyped' /\ Coordinated'
<1>1. CASE \E d \in Device : Execute(d)
  BY <1>1, StreamsExecute DEF OffloadIInv, Typed
<1>2. CASE Drained \/ UNCHANGED offload
  <2>1. UNCHANGED <<pc_host, micro, layer, state, buf, queue, finished, content, host>>
    BY <1>2 DEF Drained, offload, book, device
  <2>2. StreamsTyped'
    BY <2>1 DEF StreamsTyped
  <2>3. Program' /\ SoFar'
    BY <2>1 DEF Coordinated, Program, SoFar, Queues, Pending, Issued, IssuedIn, Item, ItemIn
  <2>4. Synced' /\ HostHolds'
    BY <2>1 DEF Coordinated, Synced, HostHolds
  <2>5. \A d : /\ Issued(d)' = Issued(d) /\ Pending(d)' = Pending(d)
               /\ \A k : Item(d, k)' = Item(d, k)
    BY <2>1 DEF Pending, Issued, IssuedIn, Item, ItemIn
  <2>6. \A s : \A m, i : Given(s, m, i)' = Given(s, m, i) /\ Written(s, m, i)' = Written(s, m, i)
    BY <2>1, <2>5 DEF Given, Written, Loaded
  <2>7. BlocksQueued'
    <3>1. \A m \in Micros, i \in Groups :
            Reads(m, i) \in Pending("compute")' => Given(Item("compute", Reads(m, i)).slot, m, i)'
      BY <2>5, <2>6 DEF Coordinated, BlocksQueued
    <3>2. \A m \in Micros, g \in Offloadable :
            Saved(m, g) \in Pending("d2h")' => Written(Item("d2h", Saved(m, g)).slot, m, g)'
      BY <2>5, <2>6 DEF Coordinated, BlocksQueued
    <3> QED BY <3>1, <3>2 DEF BlocksQueued
  <2>8. BlocksHeld'
    BY <2>1, <2>5, <2>6 DEF Coordinated, BlocksHeld
  <2> QED BY <2>2, <2>3, <2>4, <2>7, <2>8 DEF Coordinated
<1> QED BY <1>1, <1>2

LEMMA StreamsInvariant == OffloadSpec => [](OffloadIInv /\ StreamsTyped /\ Coordinated)
<1>1. OffloadIInv /\ StreamsTyped /\ Coordinated /\ [OffloadNext]_offload => StreamsTyped' /\ Coordinated'
  BY StreamsForwardLayer, StreamsCommitForward, StreamsCommitBackward, StreamsBackwardLayer,
     StreamsOther DEF OffloadNext
<1>2. OffloadInit => StreamsTyped /\ Coordinated
  BY StreamsStart
<1> QED BY <1>1, <1>2, OffloadInvariant, PTL DEF OffloadSpec

LEMMA ReadInTime == StreamsTyped /\ Coordinated => ReadsOwnActivation
<1> SUFFICES ASSUME StreamsTyped, Coordinated, queue["compute"] # <<>>, Head(queue["compute"]).op = "read"
             PROVE  LET x == Head(queue["compute"]) IN content[x.slot] = x.value
  BY DEF ReadsOwnActivation
<1> DEFINE k == finished["compute"] + 1
<1>0. "compute" \in Device /\ "h2d" \in Device
  BY DEF Device
<1>1. /\ k \in Pending("compute") /\ Head(queue["compute"]) = Item("compute", k)
      /\ finished["compute"] \in Nat /\ finished["h2d"] \in Nat
  <2>1. /\ queue["compute"] \in Seq(Work) /\ finished["compute"] \in Nat /\ finished["h2d"] \in Nat
    BY <1>0 DEF StreamsTyped
  <2>2. Len(queue["compute"]) >= 1 /\ Len(queue["compute"]) \in Nat /\ Head(queue["compute"]) = queue["compute"][1]
    BY <2>1
  <2>3. (finished["compute"] + 1) - finished["compute"] = 1
    BY <2>1
  <2> QED BY <2>1, <2>2, <2>3 DEF Pending, Issued, IssuedIn, Item, ItemIn
<1>2. PICK m \in Micros, i \in Groups : k = Reads(m, i) /\ Item("compute", k).value = <<m, i>>
  BY <1>1 DEF Coordinated, Program, ComputeItem, Waits
<1>3. PICK s : s = Item("compute", k).slot
  OBVIOUS
<1>4. Given(s, m, i)
  BY <1>1, <1>2, <1>3 DEF Coordinated, BlocksQueued
<1>5. content[s] = <<m, i>>
  <2>1. CASE i = Last
    <3>1. Wrote(m, i) <= finished["compute"]
      <4>1. /\ Wrote(m, i) = Base(m, C) + OwnWrite(i) /\ Reads(m, i) = Base(m, C) + OwnRead(i)
            /\ Base(m, C) \in Nat /\ OwnWrite(i) \in 1..(2 * Last) /\ OwnRead(i) \in (2 * Last + 3)..C
        BY Numbered, Owned
      <4> QED BY <1>1, <1>2, <4>1, Sizes
    <3>2. Wrote(m, i) \in Nat
      BY Numbered
    <3> QED BY <1>1, <1>4, <2>1, <3>1, <3>2 DEF Given, Written
  <2>2. CASE i # Last
    <3>1. finished["compute"] >= Reads(m, i) - 1
      BY <1>1, <1>2
    <3>2. finished["h2d"] >= LoadedBefore(m, i)
      BY <3>1 DEF Coordinated, Synced
    <3>3. finished["h2d"] >= Loads(m, i)
      BY <1>1, <3>2, Numbered DEF LoadedBefore
    <3> QED BY <1>4, <2>2, <3>3 DEF Given, Loaded
  <2> QED BY <2>1, <2>2
<1> QED BY <1>1, <1>2, <1>3, <1>5

\* No backward pass reads what it did not save: for every number of layers and micro-
\* batches, any memory of either kind and whatever order the three streams run in.
THEOREM ReadsBack == OffloadSpec => []ReadsOwnActivation
BY StreamsInvariant, ReadInTime, PTL
=============================================================================
