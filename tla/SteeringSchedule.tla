-------------------------- MODULE SteeringSchedule --------------------------
(***************************************************************************)
(* The curricula of a basis of steering vectors, computed twice in the     *)
(* code: by the training hook, which decides what is trained and when, and *)
(* by steer_coeffs, which decides which vectors are combined.  c is the    *)
(* configuration of the basis, s a global step.                            *)
(***************************************************************************)
EXTENDS Naturals, FiniteSetsExt

Doubling == {"progressive_double", "raw_then_double"}
Curricula == Doubling \cup {"warmup_expand", "alpha_then_basis", "none"}

Rows(c) == 0..(c.num_vectors - 1)
StageSteps(c) == Max({1, c.warmup_steps})

(* The training hook *)

NumStages(c) == Min({n \in 1..c.num_vectors : 2^(n - 1) >= c.num_vectors})

Stage(c, s) == Min({s \div StageSteps(c), NumStages(c) - 1})
Active(c, s) == Min({2^Stage(c, s), c.num_vectors})

\* Mutant: the block of a stage starts where it ends.
PrevActiveNow(c, s) == IF Stage(c, s) = 0 THEN 0 ELSE Active(c, s)
PrevActive(c, s) == IF Stage(c, s) = 0 THEN 0 ELSE Min({2^(Stage(c, s) - 1), c.num_vectors})
InRawPhase(c, s) == c.curriculum = "raw_then_double" /\ s < StageSteps(c)

\* The warm-up of warmup_expand, step 0 included, and what comes after it.
InWarmup(c, s) == c.curriculum = "warmup_expand" /\ s <= c.warmup_steps
WarmupCompleted(c, s) == c.curriculum = "warmup_expand" /\ s > c.warmup_steps

AlphaFrozen(c, s) ==
  \/ c.curriculum = "alpha_then_basis" /\ s >= c.warmup_steps
  \/ c.curriculum \in Doubling /\ Stage(c, s) >= 1

\* The rows that do not train at a step: their gradients and, after an optimizer
\* step, their moments are zero.
Frozen(c, s) ==
  IF c.curriculum \in Doubling
  THEN IF InRawPhase(c, s) THEN Rows(c) \ {0}
       ELSE {i \in Rows(c) : i < PrevActive(c, s) \/ i >= Active(c, s)}
  ELSE IF c.curriculum = "alpha_then_basis" /\ s < c.warmup_steps THEN Rows(c) \ {0}
  ELSE {}

(* steer_coeffs *)

\* stage_info: the doubling stage with the rows it combines and where its block
\* starts, the steps since it began, and whether basis[0] is injected raw.
StageInfo(c, s) ==
  LET LastStage == Min({n \in 0..c.num_vectors : 2^n >= c.num_vectors})
      stage == Min({s \div StageSteps(c), LastStage})
  IN  [stage |-> stage,
       active |-> Min({2^stage, c.num_vectors}),
       prev_active |-> IF stage = 0 THEN 0 ELSE Min({2^(stage - 1), c.num_vectors}),
       ramp_starts |-> stage >= 1 /\ c.secondary_freeze_steps > 0 /\ s = stage * StageSteps(c),
       in_raw_phase |-> c.curriculum = "raw_then_double" /\ s < StageSteps(c)]

\* sample_coefficients: the rows with a coefficient above zero.  At the first step
\* of a ramp all the weight is still on the old rows.
Support(c, s) ==
  IF c.curriculum \in Doubling
  THEN LET info == StageInfo(c, s) IN
       IF info.ramp_starts THEN 0..(info.prev_active - 1) ELSE 0..(info.active - 1)
  ELSE IF /\ c.curriculum = "alpha_then_basis"
          /\ \/ s < c.warmup_steps
             \/ s = c.warmup_steps /\ c.secondary_freeze_steps > 0
       THEN {0}
  ELSE Rows(c)
=============================================================================
