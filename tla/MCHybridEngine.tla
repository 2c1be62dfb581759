--------------------------- MODULE MCHybridEngine ---------------------------
(***************************************************************************)
(* Instances for TLC of two parts of a training worker that share nothing: *)
(* HybridEngine in every configuration the worker accepts, and the         *)
(* offloading of activations.  A run explores one or the other.            *)
(***************************************************************************)
EXTENDS HybridEngine, ActivationOffload, TLC

CONSTANTS a1, a2, a3, b1, b2

VARIABLE part

AllConfigs == {c \in ConfigType : c.enable_iterative_test => c.mode = "sync"}

\* Blocks of memory are alike.
Blocks == Permutations(ComputeSlots) \cup Permutations(ReloadSlots)

allVars == <<vars, offload, part>>

PartsInit ==
  /\ Init /\ OffloadInit
  /\ part \in {"engine", "offload"}
  /\ part = "offload" => config = CHOOSE c \in Configs : TRUE

PartsNext ==
  \/ part = "engine" /\ Next /\ UNCHANGED <<offload, part>>
  \/ part = "offload" /\ OffloadNext /\ UNCHANGED <<vars, part>>

PartsSpec == PartsInit /\ [][PartsNext]_allVars
=============================================================================
