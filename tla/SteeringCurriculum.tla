------------------------- MODULE SteeringCurriculum -------------------------
(***************************************************************************)
(* A basis of steering vectors that grows while it is trained.  Every rank *)
(* holds the basis in a hook; the driver generates with the copy its       *)
(* rollout engine was sent, recomputes the log-probabilities and updates   *)
(* with the hooks.  A hook that is told a new step may rescale, extend or  *)
(* orthogonalise its basis on the spot.                                    *)
(*                                                                         *)
(* A row is abstracted to its norm, the number of changes it went through  *)
(* and the rank that drew its numbers: equal records are equal vectors.  A *)
(* unit row is also orthogonal to the rows before it; a copy is the unit   *)
(* row 0 once more.                                                        *)
(***************************************************************************)
EXTENDS SteeringSchedule, Integers, FiniteSets

CONSTANTS Rank, Root,   \* the ranks, and the one the others copy
          Configs,      \* the configurations explored
          MiniBatches,  \* optimizer steps in a step of the driver
          MaxStep,      \* bound on the steps
          MaxCrashes    \* bound on the crashes of the job

VARIABLES config,    \* the configuration of the job; never changes
          pc,        \* what the driver does next
          step,      \* its global step
          batch,     \* mini-batches done in this step
          hook,      \* the hooks: step, rows of every rank, scale, and what was done once
          moments,   \* the rows whose Adam moments are not zero
          engine,    \* what the rollout engine was sent
          injected,  \* the vectors of this step's rollout, old and new log-probabilities
          stepped,   \* the stage of the last optimizer step
          ckpt,      \* the last checkpoint
          crashes

vars == <<config, pc, step, batch, hook, moments, engine, injected, stepped, ckpt, crashes>>

ConfigType ==
  [curriculum : Curricula, num_vectors : Nat \ {0, 1}, learnable_alpha : BOOLEAN,
   warmup_steps : Nat, secondary_freeze_steps : Nat, mode : {"sync", "async"}, bypass : BOOLEAN]

ASSUME RankAssumption == Root \in Rank
ASSUME ConfigAssumption == \A c \in Configs : c \in ConfigType
ASSUME BoundsAssumption == MiniBatches \in Nat \ {0} /\ MaxStep \in Nat /\ MaxCrashes \in Nat

Row == [norm : {"zero", "raw", "unit", "copy"}, version : Nat, by : Rank]
Zero == [norm |-> "zero", version |-> 0, by |-> Root]
Fresh(row, r) == [norm |-> "unit", version |-> row.version + 1, by |-> r]
Changed(row) == [row EXCEPT !.version = @ + 1]

(* Treatments of a whole basis *)

\* _normalize_basis_rows, each row by itself: a zero row becomes e_0, every one the same.
Normalized(rows) ==
  [i \in Rows(config) |->
    IF rows[i].norm = "zero"
    THEN [Zero EXCEPT !.norm = IF i = 0 THEN "unit" ELSE "copy"] ELSE rows[i]]

\* Gram-Schmidt after the rows in moved have moved, by rank r at step s: these become
\* unit rows; a row that has nothing beside the rows before it is drawn again after a
\* warm-up, and is zero otherwise; any other changes if one before it moved.
Orthogonalized(rows, moved, s, r) ==
  [i \in Rows(config) |->
    CASE i \in moved -> [Changed(rows[i]) EXCEPT !.norm = "unit"]
      [] i \notin moved /\ rows[i].norm \in {"zero", "copy"} ->
           IF WarmupCompleted(config, s) THEN Fresh(rows[i], r)
           ELSE [rows[i] EXCEPT !.norm = "zero"]
      [] OTHER -> IF \E j \in moved : j < i THEN Changed(rows[i]) ELSE rows[i]]

\* The scale of the injected vector: configured, trained, or the norm of a row.
Configured == <<"configured", 0>>
One == <<"one", 0>>

(* What a hook does when it is told the step *)

\* Every rank copies the rows of Root.
Broadcast(h) == [h EXCEPT !.rows = [r \in Rank |-> h.rows[Root]]]

NormOf(row) ==
  CASE row.norm = "zero" -> Configured
    [] row.norm \in {"unit", "copy"} -> One
    [] row.norm = "raw" -> <<"norm", row.version>>

\* _rtd_extract_alpha_and_normalize: the norm of basis[0] becomes the scale.
Extract(h) ==
  LET b == Broadcast(h)
      first == b.rows[Root][0]
      unit == IF first.norm = "unit" THEN first ELSE Fresh(first, Root)
  IN  IF /\ config.curriculum = "raw_then_double" /\ ~h.switched
         /\ h.step >= StageSteps(config)
      THEN [b EXCEPT !.rows = [r \in Rank |-> [b.rows[r] EXCEPT ![0] = unit]],
                     !.scale = NormOf(first), !.switched = TRUE]
      ELSE h

\* A row of a new block: a random unit vector if it is zero.
Filled(row, r) == IF row.norm = "zero" THEN Fresh(row, r) ELSE row

\* Mutant: every rank keeps the vectors it has drawn.
UnifiedNot(h) == h
Unified(h) == Broadcast(h)

\* _activate_new_basis_block, once per stage: the zero rows of the new block
\* become random unit vectors, those of Root on every rank.
Activate(h) ==
  LET stage == Stage(config, h.step)
      block == PrevActive(config, h.step)..(Active(config, h.step) - 1)
      filled == [h EXCEPT !.rows = [r \in Rank |-> [i \in Rows(config) |->
                   IF i \in block THEN Filled(@[r][i], r) ELSE @[r][i]]]]
  IN  IF /\ config.curriculum \in Doubling /\ ~InRawPhase(config, h.step)
         /\ stage > h.last_stage
      THEN [(IF filled = h THEN h ELSE Unified(filled)) EXCEPT !.last_stage = stage]
      ELSE h

\* maybe_activate_expanded_basis, once after the warm-up, on every rank by itself: the
\* rows the warm-up has kept equal come apart.
Expand(h) ==
  IF WarmupCompleted(config, h.step) /\ ~h.expanded
  THEN [h EXCEPT !.rows = [r \in Rank |-> Orthogonalized(h.rows[r], {}, h.step, r)],
                  !.expanded = TRUE]
  ELSE h

SetStep(h, s) == Expand(Activate(Extract([h EXCEPT !.step = s])))

(* What is injected *)

\* normalize(sum of c * basis) * scale, or basis[0] as it is in the raw phase.  The
\* coefficients are drawn with the step as seed; one row alone always has 1.
Combination(rows, scale, s, raw) ==
  IF raw THEN [part |-> {<<0, rows[0]>>}, scale |-> One, seed |-> 0]
  ELSE [part |-> {<<i, rows[i]>> : i \in Support(config, s)}, scale |-> scale,
        seed |-> IF Cardinality(Support(config, s)) = 1 THEN 0 ELSE s]

\* sample_vector of a hook, and its counterpart in the engine, which asks
\* stage_info for the raw phase.
HookVector(h, r) == Combination(h.rows[r], h.scale, h.step, InRawPhase(config, h.step))
EngineVector(e) == Combination(e.rows, e.scale, e.step, StageInfo(config, e.step).in_raw_phase)

\* Rows that add up to zero are injected without a gradient; a raw row has one.
HasGradient(h) == InRawPhase(config, h.step) \/ \E i \in Support(config, h.step) : h.rows[Root][i].norm # "zero"

NoVectors == [roll |-> {}, old |-> {}, new |-> {}]
NewRows == [i \in Rows(config) |-> Zero]

\* __init__ of the hooks, the orthogonalisation when the optimizer is built, which
\* leaves zero rows alone unless a warm-up is ahead, and the step the actor sets.
BuiltRows == IF InWarmup(config, 0) THEN Normalized(NewRows) ELSE NewRows
NewHook ==
  SetStep([step |-> 0, rows |-> [r \in Rank |-> BuiltRows], scale |-> Configured,
           switched |-> FALSE, last_stage |-> -1, expanded |-> FALSE], 0)

NoEngine == [rows |-> NewRows, scale |-> Configured, step |-> 0]

Init ==
  /\ config \in Configs
  /\ pc = "generate" /\ step = 1 /\ batch = 0
  /\ hook = NewHook
  /\ moments = {}
  /\ engine = NoEngine
  /\ injected = NoVectors
  /\ stepped = 0
  /\ ckpt = [step |-> 0, rows |-> NewRows, scale |-> Configured, moments |-> {}]
  /\ crashes = 0

(* The steps of the driver *)

\* rollout_mode: the ranks copy Root, the engine gets its rows.  It gets a learned
\* scale from the hook, another from the configuration.
SendToEngine(h) ==
  /\ hook' = Broadcast(h)
  /\ engine' = [rows |-> h.rows[Root], step |-> h.step,
                scale |-> IF config.learnable_alpha THEN h.scale ELSE Configured]

\* Mutant: the synchronous worker is not told the step either.
ToldNothing(h) == h

\* Only the synchronous worker is told the step when it generates.
Told(h) == IF config.mode = "sync" THEN SetStep(h, step) ELSE h

Generate ==
  /\ pc = "generate" /\ step <= MaxStep
  /\ SendToEngine(Told(hook))
  /\ injected' = [NoVectors EXCEPT !.roll = {EngineVector(engine')}]
  /\ pc' = "log_prob" /\ batch' = 0
  /\ UNCHANGED <<config, step, moments, stepped, ckpt, crashes>>

\* In bypass mode the old log-probabilities are those of the rollout.
OldLogProb ==
  /\ pc = "log_prob"
  /\ IF config.bypass
     THEN injected' = [injected EXCEPT !.old = injected.roll] /\ UNCHANGED hook
     ELSE /\ hook' = SetStep(hook, step)
          /\ injected' = [injected EXCEPT !.old = {HookVector(hook', r) : r \in Rank}]
  /\ pc' = "forward"
  /\ UNCHANGED <<config, step, batch, moments, engine, stepped, ckpt, crashes>>

\* The forward pass of a mini-batch.  Without a gradient, backward raises.
Forward ==
  /\ pc = "forward"
  /\ hook' = SetStep(hook, step)
  /\ injected' = IF batch = 0 THEN [injected EXCEPT !.new = {HookVector(hook', r) : r \in Rank}]
                 ELSE injected
  /\ pc' = IF HasGradient(hook') THEN "optimize" ELSE "failed"
  /\ UNCHANGED <<config, step, batch, moments, engine, stepped, ckpt, crashes>>

\* The rows an optimizer step moves: those with a gradient, those with moments left.
Moved == (Support(config, hook.step) \ Frozen(config, hook.step)) \cup moments

\* Moving, then orthogonalize_basis: in the raw phase basis[0] keeps its norm; in the
\* warm-up equal rows have equal gradients and stay equal.
Trained(rows, r) ==
  LET raw == [i \in Rows(config) |-> IF i \in Moved THEN [Changed(rows[i]) EXCEPT !.norm = "raw"]
                                     ELSE rows[i]]
      warm == [i \in Rows(config) |-> IF i \in Moved THEN Changed(rows[i]) ELSE rows[i]]
  IN  IF InRawPhase(config, hook.step) THEN raw
      ELSE IF InWarmup(config, hook.step) THEN Normalized(warm)
      ELSE Orthogonalized(rows, Moved, hook.step, r)

\* The scale trains while it is learnable, not frozen and part of the vector.
NextScale ==
  IF /\ config.learnable_alpha /\ ~AlphaFrozen(config, hook.step)
     /\ ~InRawPhase(config, hook.step)
  THEN <<"trained", hook.scale[2] + 1>> ELSE hook.scale

\* Mutant: the moments of frozen rows are left to run out.
MomentsKept == Moved

\* _reset_frozen_basis_optimizer_state, after the step.
MomentsLeft == Moved \ Frozen(config, hook.step)

\* A gradient that is not finite is dropped.
OptimizerStep ==
  /\ pc = "optimize"
  /\ \/ /\ hook' = Broadcast([hook EXCEPT !.rows = [r \in Rank |-> Trained(hook.rows[r], r)],
                                         !.scale = NextScale])
        /\ moments' = MomentsLeft
        /\ stepped' = Stage(config, hook.step)
     \/ UNCHANGED <<hook, moments, stepped>>
  /\ batch' = batch + 1
  /\ pc' = IF batch' < MiniBatches THEN "forward" ELSE "trained"
  /\ UNCHANGED <<config, step, engine, injected, ckpt, crashes>>

Validate ==
  /\ pc = "trained"
  /\ SendToEngine(Told(hook))
  /\ pc' = "validated"
  /\ UNCHANGED <<config, step, batch, moments, injected, stepped, ckpt, crashes>>

Save ==
  /\ pc \in {"trained", "validated"}
  /\ ckpt' = [step |-> step, rows |-> hook.rows[Root], scale |-> hook.scale, moments |-> moments]
  /\ pc' = "saved"
  /\ UNCHANGED <<config, step, batch, hook, moments, engine, injected, stepped, crashes>>

NextStep ==
  /\ pc \in {"trained", "validated", "saved"}
  /\ step' = step + 1
  /\ pc' = "generate"
  /\ UNCHANGED <<config, batch, hook, moments, engine, injected, stepped, ckpt, crashes>>

Crash ==
  /\ pc # "down" /\ crashes < MaxCrashes
  /\ pc' = "down" /\ crashes' = crashes + 1
  /\ UNCHANGED <<config, step, batch, hook, moments, engine, injected, stepped, ckpt>>

\* New processes build new hooks and load the rows, a learned scale and the
\* moments; what the hooks did once is not saved.
Restart ==
  /\ pc = "down"
  /\ hook' = IF ckpt.step = 0 THEN NewHook
             ELSE [NewHook EXCEPT !.rows = [r \in Rank |-> ckpt.rows],
                                  !.scale = IF config.learnable_alpha THEN ckpt.scale ELSE Configured]
  /\ moments' = ckpt.moments
  /\ step' = ckpt.step + 1
  /\ pc' = "generate" /\ batch' = 0
  /\ engine' = NoEngine /\ injected' = NoVectors
  /\ stepped' = 0
  /\ UNCHANGED <<config, ckpt, crashes>>

Next == \/ Generate \/ OldLogProb \/ Forward \/ OptimizerStep \/ Validate \/ Save \/ NextStep
        \/ Crash \/ Restart

Spec == Init /\ [][Next]_vars

(* Properties *)

\* Every rank holds the basis of Root, although each draws vectors of its own.  An
\* asynchronous warm-up that ends draws without a broadcast before the old
\* log-probabilities.
RanksAgree ==
  ~(config.mode = "async" /\ config.curriculum = "warmup_expand") =>
    \A r \in Rank : hook.rows[r] = hook.rows[Root]

\* Rollout, old log-probabilities and the first new ones of a step are computed with
\* the same vector on every rank, through extractions, new blocks, ramps and
\* restarts.  An asynchronous engine still has the step before, and an
\* engine without learned scale has the configured one where the raw phase of a hook
\* measured another.
SamePolicy ==
  pc = "optimize" /\ batch = 0 =>
    /\ ~config.bypass => injected.old = injected.new
    /\ config.mode = "sync" /\ (config.learnable_alpha \/ config.curriculum # "raw_then_double")
       => injected.roll = injected.new

\* When a basis trains, the rows of the current stage are orthonormal on every
\* rank and the later ones zero: nothing is injected that was not prepared.
BlockPrepared ==
  pc = "optimize" /\ config.curriculum \in Doubling /\ ~InRawPhase(config, step) =>
    \A r \in Rank, i \in Rows(config) :
      hook.rows[r][i].norm = IF i < Active(config, step) THEN "unit" ELSE "zero"

\* A frozen row has left its last moments behind after the first optimizer step
\* of the stage: from then on it does not change.
SettlesOnce ==
  [][\A i \in Rows(config) :
       /\ config.curriculum \in Doubling /\ pc # "down"
       /\ i < PrevActive(config, hook.step) /\ stepped = Stage(config, hook.step)
       => hook'.rows[Root][i] = hook.rows[Root][i]]_vars

\* "alpha := norm of basis[0], frozen from then on": once the raw phase is over, the
\* scale is the norm it has reached (or the configured one if it learned nothing).
LearnedScale == hook.switched => hook.scale # One
=============================================================================
