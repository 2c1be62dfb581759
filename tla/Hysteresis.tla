----------------------------- MODULE Hysteresis -----------------------------
(***************************************************************************)
(* What the Alpha-Stabler promises of each monitored layer, without ranks, *)
(* counters, moving averages or thresholds: the control flag of a layer is *)
(* a function of the verdicts of its last monitored updates.               *)
(*                                                                         *)
(* A verdict is what one monitored update says of a layer:                 *)
(*   "warn"     the smoothed intrusion is above the warning threshold,     *)
(*   "low"      it is below the release threshold,                         *)
(*   "mid"      it is between the two,                                     *)
(*   "invalid"  the shift energy could not be used.                        *)
(* AlphaStabler implements this module (property Hysteresis of             *)
(* AlphaStabler).                                                          *)
(***************************************************************************)
EXTENDS Integers, Sequences

CONSTANTS
  Layers,       \* the monitored layers
  persistence   \* consecutive warnings that raise the flag

VARIABLES
  window,       \* window[l]: the last (at most) persistence verdicts of layer l
  active,       \* active[l]: the control flag of layer l
  saved         \* the pair of both in the checkpoint a restart resumes from

vars == <<window, active, saved>>

Verdicts == {"warn", "low", "mid", "invalid"}

Recent(w, v) == \* the window after verdict v
  IF Len(w) < persistence THEN Append(w, v) ELSE Append(Tail(w), v)

AllWarnings(w) ==
  /\ Len(w) = persistence
  /\ \A i \in 1..Len(w) : w[i] = "warn"

Init ==
  /\ window = [l \in Layers |-> <<>>]
  /\ active = [l \in Layers |-> FALSE]
  /\ saved = [window |-> window, active |-> active]

Observe(l, v) ==
  /\ window' = [window EXCEPT ![l] = Recent(@, v)]
  /\ active' = [active EXCEPT ![l] = (v # "low") /\ (@ \/ AllWarnings(window'[l]))]
  /\ UNCHANGED saved

Save ==
  /\ saved' = [window |-> window, active |-> active]
  /\ UNCHANGED <<window, active>>

Restart ==
  /\ window' = saved.window
  /\ active' = saved.active
  /\ UNCHANGED saved

Next ==
  \/ \E l \in Layers, v \in Verdicts : Observe(l, v)
  \/ Save
  \/ Restart

Spec == Init /\ [][Next]_vars
=============================================================================
