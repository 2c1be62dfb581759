------------------------ MODULE MCSteeringCurriculum ------------------------
(***************************************************************************)
(* Instances of SteeringCurriculum for TLC: every curriculum and mode, with *)
(* bases of three vectors, and of four where the scale is learned in the    *)
(* synchronous mode, stages of one and two steps (a stage has one at least) *)
(* and ramps of none and two.                                               *)
(***************************************************************************)
EXTENDS SteeringCurriculum

OfSize(sizes) ==
  [curriculum : Curricula, num_vectors : sizes, learnable_alpha : BOOLEAN,
   warmup_steps : {0, 2}, secondary_freeze_steps : {0, 2}, mode : {"sync", "async"},
   bypass : BOOLEAN]

Learned == {c \in OfSize({4}) : c.learnable_alpha /\ c.mode = "sync" /\ ~c.bypass}

AllConfigs == OfSize({3}) \cup Learned

\* Runs of raw_then_double that train a raw vector first.
RawConfigs == {c \in Learned : c.curriculum = "raw_then_double" /\ c.warmup_steps = 2}
=============================================================================
