----------------------------- MODULE OneAtATime -----------------------------
(***************************************************************************)
(* What the sequential curriculum promises: all layers train the same      *)
(* vector of their basis, one after the other, and the vectors before it   *)
(* are finished: nothing changes them any more.  A restart of the run      *)
(* begins with the first vector again.                                     *)
(***************************************************************************)
EXTENDS Naturals

CONSTANTS Layers, NumVectors, Contents

VARIABLES
  current, \* the vector that every layer trains
  basis    \* basis[l][r]: vector r of layer l

Rows == 0..(NumVectors - 1)

Bases == [Layers -> [Rows -> Contents]]

FinishedKept ==
  /\ basis' \in Bases
  /\ \A l \in Layers : \A r \in Rows : r < current => basis'[l][r] = basis[l][r]

Init == current = 0 /\ basis \in Bases

Train == FinishedKept /\ UNCHANGED current

Finish ==
  /\ current < NumVectors
  /\ FinishedKept
  /\ current' = current + 1

Restart == current' = 0 /\ UNCHANGED basis

Next == Train \/ Finish \/ Restart

Spec == Init /\ [][Next]_<<current, basis>>
=============================================================================
