-------------------------- MODULE SequentialVectors -------------------------
(***************************************************************************)
(* The sequential_orthogonal curriculum: every steered layer owns a basis  *)
(* of vectors and trains them one at a time.  TrainableTokenVectorHook     *)
(* (verl/workers/fsdp_workers.py) keeps the state of a layer; the actor    *)
(* (verl/workers/actor/dp_actor.py) steps the optimizer, advances all the  *)
(* hooks and resets the Adam state; the trainer (verl/trainer/ppo/         *)
(* ray_trainer.py) validates when a vector has just been finished.         *)
(*                                                                         *)
(* The ranks hold equal copies (gradients are averaged, and rank 0 sends   *)
(* its basis after every step), so one copy is modelled.  A row of a basis *)
(* is a member of Contents: all that matters of it is whether it changed,  *)
(* how long it is (Norm) and which rows it is orthogonal to.  What a       *)
(* gradient makes of a row is any content.                                 *)
(***************************************************************************)
EXTENDS Integers, Sequences, FiniteSets

CONSTANTS
  Layers,        \* the layers that carry a hook
  NumVectors,    \* num_vectors
  seq_raw_steps, \* budget of vector 0
  MinSteps,      \* max(seq_loss_patience, 10): steps before a norm counts
  MiniBatches,   \* optimizer steps of one update_policy
  TotalSteps,    \* bound: training steps of the run
  MaxContent     \* bound: Contents

ASSUME SequentialAssumption ==
  /\ Layers # {} /\ IsFiniteSet(Layers)
  /\ NumVectors \in Nat /\ NumVectors > 1
  /\ seq_raw_steps \in Nat /\ MinSteps \in Nat \ {0}
  /\ MiniBatches \in Nat \ {0} /\ TotalSteps \in Nat \ {0}
  /\ MaxContent \in Nat \ {0}

VARIABLES
  active,    \* _seq_active_idx
  eval_idx,  \* _seq_eval_idx
  steps,     \* _seq_steps_on_current
  target,    \* _seq_target_norm, NoTarget for None
  reached,   \* _seq_reached_target
  done,      \* _seq_done
  basis,     \* basis_vectors
  orthogonal,\* rows known to be orthogonal to all earlier rows
  momentum,  \* rows whose Adam moments are not zero
  unstepped, \* is Adam's step counter zero?
  phase,     \* of the run: "update", "validate", "crashed" or "ended"
  batch,     \* mini-batches done in this training step
  step,      \* global_steps
  switched,  \* actor/seq_vector_switched of this training step
  evaluated  \* rows injected in the validations a switch asked for, since the
             \* last start (a ghost)

curriculum == <<active, eval_idx, steps, target, reached, done>>
parameters == <<basis, orthogonal, momentum, unstepped>>
trainer == <<phase, batch, step, switched, evaluated>>
vars == <<curriculum, parameters, trainer>>

-----------------------------------------------------------------------------
Rows == 0..(NumVectors - 1)
Contents == 0..MaxContent
NoTarget == -1

\* Several contents have the same norm; 0 is the collapsed row.
Norm(c) == (c + 1) \div 2

\* A row drawn by _sample_orthogonal_restart_vector, of length vector_scale.
Drawn == {c \in Contents : Norm(c) = 1}

\* The row that sample_vector injects when training, clamped to the last one;
\* orthogonalize_basis works on the rows up to it.
TrainedRow(l) == IF done[l] THEN NumVectors - 1 ELSE active[l]

\* The row that the rollout engine injects: seq_eval_payload.
PayloadOfActive(l) == TrainedRow(l)
PayloadRow(l) == IF eval_idx[l] < NumVectors THEN eval_idx[l] ELSE NumVectors - 1

-----------------------------------------------------------------------------
(* The optimizer step. *)

\* Rows AdamW moves: the active one, whose gradient is not masked unless it has
\* reached its target, and every row with moments left, gradient or not.
Moved(l) ==
  momentum[l] \cup {r \in Rows : r = active[l] /\ ~reached[l]}

\* Gram-Schmidt changes a row that is not orthogonal to an earlier one, or has
\* an earlier one that moves.
Disturbed(l) ==
  {s \in 0..TrainedRow(l) : \E r \in 0..s : r \in Moved(l) \/ r \notin orthogonal[l]}

Changed(l) == Moved(l) \cup Disturbed(l)

\* All the bases a step can end with.
SteppedBases ==
  LET cells == {c \in Layers \X Rows : c[2] \in Changed(c[1])}
  IN  {[l \in Layers |->
          [r \in Rows |-> IF <<l, r>> \in cells THEN new[<<l, r>>] ELSE basis[l][r]]]
        : new \in [cells -> Contents]}

OrthogonalAfterSkipping(l) ==
  {s \in orthogonal[l] : \A r \in 0..s : r \notin Moved(l)} \cup 0..(active[l] - 1)
OrthogonalAfter(l) ==
  {s \in orthogonal[l] : \A r \in 0..s : r \notin Moved(l)} \cup 0..TrainedRow(l)

\* Of the moments, those of the frozen rows are cleared: all but the active row.
MomentumAfter(l) == Moved(l) \cap {active[l]}

\* project_gradients_to_tangent indexes row _seq_active_idx of a frozen hook,
\* which is beyond the basis when all vectors are done.
OutOfRange == \E l \in Layers : reached[l] /\ active[l] >= NumVectors

-----------------------------------------------------------------------------
(* _advance_trainable_vector_sequential, on the basis the step has left. *)

ForceSwitchAny ==
  LET targeted == {l \in Layers : target[l] # NoTarget}
  IN  /\ \A l \in Layers : active[l] # 0 \/ done[l]
      /\ \E l \in targeted : reached[l]
ForceSwitch ==
  LET targeted == {l \in Layers : target[l] # NoTarget}
  IN  /\ \A l \in Layers : active[l] # 0 \/ done[l]
      /\ targeted # {}
      /\ \A l \in targeted : reached[l]

BudgetSpent(l) == steps[l] + 1 >= (IF seq_raw_steps > 1 THEN seq_raw_steps ELSE 1)

Switches(l) ==
  /\ ~done[l]
  /\ IF active[l] = 0 THEN BudgetSpent(l) ELSE ForceSwitch

Switching == {l \in Layers : Switches(l)}

\* Those of them that have a next vector to draw.
Drawing == {l \in Switching : active[l] + 1 < NumVectors}

ReachesNow(l, b) ==
  /\ active[l] # 0 /\ ~done[l]
  /\ target[l] # NoTarget
  /\ steps[l] + 1 >= MinSteps
  /\ Norm(b[l][active[l]]) >= target[l]

\* advance_sequential_state and _seq_activate_next_vector, of every hook.
Advance(b) ==
  /\ eval_idx' = [l \in Layers |-> IF done[l] THEN eval_idx[l] ELSE active[l]]
  /\ active' = [l \in Layers |-> IF l \in Switching THEN active[l] + 1 ELSE active[l]]
  /\ done' = [l \in Layers |-> done[l] \/ (l \in Switching /\ active[l] + 1 >= NumVectors)]
  /\ steps' = [l \in Layers |-> IF l \in Drawing THEN 0
                                 ELSE IF done[l] THEN steps[l] ELSE steps[l] + 1]
  /\ target' = [l \in Layers |-> IF l \in Switching /\ active[l] = 0 THEN Norm(b[l][0])
                                  ELSE target[l]]
  /\ reached' = [l \in Layers |-> l \notin Drawing /\ (reached[l] \/ ReachesNow(l, b))]

\* The basis with the next vectors drawn, orthogonal to the rows before them.
WithDrawn(b, drawn) ==
  [l \in Layers |-> IF l \in Drawing THEN [b[l] EXCEPT ![active[l] + 1] = drawn[l]] ELSE b[l]]

WithOrthogonal(o) ==
  [l \in Layers |-> IF l \in Drawing THEN o[l] \cup {active[l] + 1} ELSE o[l]]

\* _maybe_reset_steer_optimizer_on_switch, where a new vector has been drawn.
KeepAdam(m, u) == momentum' = m /\ unstepped' = u
ResetAdam(m, u) ==
  /\ momentum' = [l \in Layers |-> IF l \in Drawing THEN {} ELSE m[l]]
  /\ unstepped' = [l \in Layers |-> l \in Drawing \/ u[l]]

-----------------------------------------------------------------------------
Init ==
  /\ active = [l \in Layers |-> 0]
  /\ eval_idx = [l \in Layers |-> 0]
  /\ steps = [l \in Layers |-> 0]
  /\ target = [l \in Layers |-> NoTarget]
  /\ reached = [l \in Layers |-> FALSE]
  /\ done = [l \in Layers |-> FALSE]
  /\ basis = [l \in Layers |-> [r \in Rows |-> 0]]
  /\ orthogonal = [l \in Layers |-> Rows]
  /\ momentum = [l \in Layers |-> {}]
  /\ unstepped = [l \in Layers |-> TRUE]
  /\ phase = "update" /\ batch = 0 /\ step = 1 /\ switched = FALSE
  /\ evaluated = <<>>

EndBatch ==
  /\ batch' = batch + 1
  /\ switched' = (switched \/ Switching # {})
  /\ phase' = IF batch + 1 = MiniBatches THEN "validate" ELSE "update"
  /\ UNCHANGED <<step, evaluated>>

\* A mini-batch whose gradient norm is finite.
MiniBatch ==
  /\ phase = "update" /\ ~OutOfRange
  /\ \E b \in SteppedBases : \E drawn \in [Drawing -> Drawn] :
       /\ Advance(b)
       /\ basis' = WithDrawn(b, drawn)
  /\ orthogonal' = WithOrthogonal([l \in Layers |-> OrthogonalAfter(l)])
  /\ ResetAdam([l \in Layers |-> MomentumAfter(l)], [l \in Layers |-> FALSE])
  /\ EndBatch

\* A mini-batch whose gradient norm is not finite: the optimizer does not step,
\* the curriculum advances all the same.
SkippedMiniBatch ==
  /\ phase = "update" /\ ~OutOfRange
  /\ \E drawn \in [Drawing -> Drawn] :
       /\ Advance(basis)
       /\ basis' = WithDrawn(basis, drawn)
  /\ orthogonal' = WithOrthogonal(orthogonal)
  /\ ResetAdam(momentum, unstepped)
  /\ EndBatch

\* The projection of the gradients raises, and the run with it.
Crash ==
  /\ phase = "update" /\ OutOfRange
  /\ phase' = "crashed"
  /\ UNCHANGED <<curriculum, parameters, batch, step, switched, evaluated>>

\* The trainer validates if a vector was finished in this step (and at other
\* times, which change nothing here), and goes to the next step.
EndStep ==
  /\ phase = "validate"
  /\ \E l \in Layers :
       evaluated' = IF switched THEN Append(evaluated, PayloadRow(l)) ELSE evaluated
  /\ phase' = IF step = TotalSteps THEN "ended" ELSE "update"
  /\ step' = IF step = TotalSteps THEN step ELSE step + 1
  /\ batch' = 0 /\ switched' = FALSE
  /\ UNCHANGED <<curriculum, parameters>>

\* The run is stopped after the checkpoint of a step and started again.  The
\* basis and the optimizer's state come back, the hooks start as in __init__.
Resume ==
  /\ phase = "update" /\ batch = 0 /\ step > 1
  /\ active' = [l \in Layers |-> 0]
  /\ eval_idx' = [l \in Layers |-> 0]
  /\ steps' = [l \in Layers |-> 0]
  /\ target' = [l \in Layers |-> NoTarget]
  /\ reached' = [l \in Layers |-> FALSE]
  /\ done' = [l \in Layers |-> FALSE]
  /\ evaluated' = <<>>
  /\ UNCHANGED <<parameters, phase, batch, step, switched>>

Progress == MiniBatch \/ SkippedMiniBatch \/ Crash \/ EndStep

Next == Progress \/ Resume

Spec == Init /\ [][Next]_vars /\ WF_vars(Progress)

-----------------------------------------------------------------------------
TypeOK ==
  /\ active \in [Layers -> 0..NumVectors]
  /\ eval_idx \in [Layers -> Rows]
  /\ steps \in [Layers -> Nat]
  /\ target \in [Layers -> {NoTarget} \cup Nat]
  /\ reached \in [Layers -> BOOLEAN]
  /\ done \in [Layers -> BOOLEAN]
  /\ basis \in [Layers -> [Rows -> Contents]]
  /\ orthogonal \in [Layers -> SUBSET Rows]
  /\ momentum \in [Layers -> SUBSET Rows]
  /\ unstepped \in [Layers -> BOOLEAN]
  /\ phase \in {"update", "validate", "crashed", "ended"}
  /\ batch \in 0..MiniBatches
  /\ step \in 1..TotalSteps
  /\ switched \in BOOLEAN
  /\ evaluated \in Seq(Rows)

\* All layers train the same vector, for the same number of steps: the switch
\* is synchronized although each layer has a target norm of its own.
InStep ==
  \A l, m \in Layers :
    /\ active[l] = active[m] /\ done[l] = done[m] /\ steps[l] = steps[m]
    /\ eval_idx[l] = eval_idx[m]

\* The vectors a layer has trained, and the one it trains, are orthogonal to
\* each other whenever a batch or a rollout uses them; a collapsed row is too.
OrthogonalRows ==
  \A l \in Layers : \A r \in 0..TrainedRow(l) :
    r \in orthogonal[l] \/ basis[l][r] = 0

\* A new vector starts from a clean optimizer slate: no moments are left of the
\* vector before it, neither in its own row nor in the finished ones.
CleanSlate ==
  \A l \in Layers : (active[l] > 0 /\ steps[l] = 0) => momentum[l] = {} /\ unstepped[l]

\* Every vector finished since the last start is validated once, in order, before
\* the next training step: the validation injects it, not the vector drawn after it.
EvaluatesEachFinished ==
  (phase \in {"update", "ended"} /\ batch = 0) =>
    \A l \in Layers : evaluated = [i \in 1..active[l] |-> i - 1]

\* The layers wait for each other, and no longer than they must: a mini-batch
\* ends the turn of a vector (vector 0 apart) if, and only if, that vector had
\* reached the target norm of its layer on every layer before.
WaitsForAll ==
  [][batch' = batch + 1 =>
       \A l \in Layers : (active[l] > 0 /\ ~done[l]) =>
         (active'[l] # active[l] <=> \A m \in Layers : reached[m])]_vars

\* One vector after the other, the finished ones at rest.
Promise == INSTANCE OneAtATime
  WITH current <- active[CHOOSE l \in Layers : TRUE], basis <- basis
TrainsOneAtATime == Promise!Spec
=============================================================================
