---------------------- MODULE SequentialVectors_proofs ----------------------
(***************************************************************************)
(* Proofs about the sequential curriculum, for every number of layers,     *)
(* vectors, mini-batches and steps: the types, the synchronized switch,    *)
(* the orthogonality of the rows, the clean optimizer slate, and that the  *)
(* layers train one vector after the other while the finished ones stay as *)
(* they are (the refinement of OneAtATime).                                *)
(***************************************************************************)
EXTENDS SequentialVectors, TLAPS

\* The rows whose turn is now or later.
Unfinished(l) == {r \in Rows : r >= active[l]}

\* How the parts of a hook's state hang together: done means that the index is
\* beyond the basis, and that the last vector is still marked as frozen; from
\* vector 1 on there is a target; no finished row has moments (after a restart
\* rows beyond the active one may have some).
Linked ==
  \A l \in Layers :
    /\ done[l] <=> active[l] = NumVectors
    /\ done[l] => reached[l]
    /\ active[l] > 0 => target[l] # NoTarget
    /\ ~done[l] => momentum[l] \subseteq Unfinished(l)

\* OrthogonalRows without its exception for collapsed rows: they count as
\* orthogonal from the start, and the rows up to the active one stay so.
Orthogonalized == \A l \in Layers : 0..TrainedRow(l) \subseteq orthogonal[l]

\* A mini-batch only runs while one is left.
BatchLeft == phase = "update" => batch < MiniBatches

IInv == TypeOK /\ BatchLeft /\ InStep /\ Linked /\ CleanSlate /\ Orthogonalized

-----------------------------------------------------------------------------
(* One mini-batch. *)

\* A mini-batch only runs while no hook is done.
LEMMA StillTraining ==
  ASSUME TypeOK, Linked, ~OutOfRange
  PROVE  \A l \in Layers : ~done[l] /\ active[l] \in Rows
<1>1. \A l \in Layers : ~done[l]
  BY SequentialAssumption DEF Linked, OutOfRange
<1>2. \A l \in Layers : active[l] \in 0..NumVectors /\ active[l] # NumVectors
  BY <1>1 DEF TypeOK, Linked
<1>3. \A l \in Layers : active[l] \in Rows
  BY <1>2, SequentialAssumption DEF Rows
<1> QED BY <1>1, <1>3

\* The layers switch together or not at all, and they draw together.
LEMMA AllOrNone ==
  ASSUME InStep
  PROVE  /\ Switching \in {{}, Layers}
         /\ Drawing \in {{}, Layers}
<1>1. \A l, m \in Layers : Switches(l) => Switches(m)
  BY DEF InStep, Switches, BudgetSpent
<1>2. \A l, m \in Layers : active[l] = active[m]
  BY DEF InStep
<1>3. Switching \in {{}, Layers}
  BY <1>1 DEF Switching
<1>4. Drawing \in {{}, Layers}
  BY <1>2, <1>3 DEF Drawing
<1> QED BY <1>3, <1>4

\* What the optimizer moves disturbs no finished row.
LEMMA OnlyUnfinishedChange ==
  ASSUME IInv, ~OutOfRange, NEW l \in Layers
  PROVE  Changed(l) \subseteq Unfinished(l)
<1>1. ~done[l] /\ active[l] \in Rows
  BY StillTraining DEF IInv
<1>2. TrainedRow(l) = active[l]
  BY <1>1 DEF TrainedRow
<1>3. Moved(l) \subseteq Unfinished(l)
  <2>1. active[l] \in Unfinished(l)
    BY <1>1, SequentialAssumption DEF Unfinished, Rows
  <2> QED BY <1>1, <2>1 DEF Moved, IInv, Linked
<1>4. 0..active[l] \subseteq orthogonal[l]
  BY <1>2 DEF IInv, Orthogonalized
<1>5. ASSUME NEW s \in 0..active[l], NEW r \in 0..s, r \in Moved(l) \/ r \notin orthogonal[l]
      PROVE  s = active[l]
  <2>1. active[l] \in Nat /\ s \in Nat /\ r \in Nat /\ s <= active[l] /\ r <= s
    BY <1>1, <1>5, SequentialAssumption DEF Rows
  <2>2. r \in 0..active[l]
    BY <2>1
  <2>3. r \in Moved(l)
    BY <2>2, <1>4, <1>5
  <2>4. r >= active[l]
    BY <2>3, <1>3 DEF Unfinished
  <2> QED BY <2>1, <2>4
<1>6. Disturbed(l) \subseteq {active[l]}
  BY <1>2, <1>5 DEF Disturbed
<1>7. {active[l]} \subseteq Unfinished(l)
  BY <1>1, SequentialAssumption DEF Unfinished, Rows
<1> QED BY <1>3, <1>6, <1>7 DEF Changed

\* The optimizer leaves the finished rows as they were.
LEMMA SteppedKeepsFinished ==
  ASSUME IInv, ~OutOfRange, NEW b \in SteppedBases
  PROVE  /\ b \in [Layers -> [Rows -> Contents]]
         /\ \A l \in Layers : \A r \in Rows : r < active[l] => b[l][r] = basis[l][r]
<1> DEFINE cells == {c \in Layers \X Rows : c[2] \in Changed(c[1])}
<1>1. PICK new \in [cells -> Contents] :
        b = [l \in Layers |->
               [r \in Rows |-> IF <<l, r>> \in cells THEN new[<<l, r>>] ELSE basis[l][r]]]
  BY DEF SteppedBases
<1>2. ASSUME NEW l \in Layers, NEW r \in Rows
      PROVE  b[l][r] = IF <<l, r>> \in cells THEN new[<<l, r>>] ELSE basis[l][r]
  BY <1>1
<1>3. \A l \in Layers : \A r \in Rows : basis[l][r] \in Contents
  BY DEF IInv, TypeOK
<1>4. b \in [Layers -> [Rows -> Contents]]
  BY <1>1, <1>3
<1>5. ASSUME NEW l \in Layers, NEW r \in Rows, r < active[l]
      PROVE  <<l, r>> \notin cells
  <2>1. active[l] \in Int /\ r \in Int /\ ~(r >= active[l])
    BY <1>5, StillTraining, SequentialAssumption DEF Rows, IInv
  <2>2. r \notin Changed(l)
    BY <2>1, OnlyUnfinishedChange DEF Unfinished
  <2> QED BY <2>2
<1>6. \A l \in Layers : \A r \in Rows : r < active[l] => b[l][r] = basis[l][r]
  BY <1>2, <1>5
<1> QED BY <1>4, <1>6

\* Arithmetic of the end of the basis.
LEMMA LastOne ==
  ASSUME NEW a \in Int, NEW n \in Int, a + 1 >= n, a < n
  PROVE  n - 1 = a
  OBVIOUS

\* What the two kinds of mini-batch share: the curriculum advances on a basis b
\* that differs from the old one in unfinished rows only.  All the invariant
\* needs of the optimizer is said of the values o, m and u it has left.
LEMMA BatchTypes ==
  ASSUME IInv, ~OutOfRange, phase = "update",
         NEW b \in [Layers -> [Rows -> Contents]],
         NEW o \in [Layers -> SUBSET Rows],
         NEW m \in [Layers -> SUBSET Rows],
         NEW u \in [Layers -> BOOLEAN],
         NEW drawn \in [Drawing -> Drawn],
         Advance(b), basis' = WithDrawn(b, drawn),
         orthogonal' = WithOrthogonal(o), ResetAdam(m, u), EndBatch
  PROVE  TypeOK' /\ BatchLeft'
<1>1. \A l \in Layers : ~done[l] /\ active[l] \in Rows
  BY StillTraining DEF IInv
<1>2. \A l \in Layers : active[l] \in Int /\ 0 <= active[l] /\ active[l] < NumVectors
  BY <1>1, SequentialAssumption DEF Rows
<1>3. NumVectors \in Nat
  BY SequentialAssumption
<1>4. active' \in [Layers -> 0..NumVectors]
  BY <1>2, <1>3 DEF Advance
<1>5. eval_idx' \in [Layers -> Rows]
  BY <1>1 DEF Advance
<1>6. steps' \in [Layers -> Nat]
  BY DEF Advance, IInv, TypeOK
<1>7. target' \in [Layers -> {NoTarget} \cup Nat]
  <2>1. \A l \in Layers : b[l][0] \in Contents
    BY <1>3, SequentialAssumption DEF Rows
  <2>2. \A c \in Contents : Norm(c) \in Nat
    BY SequentialAssumption DEF Contents, Norm
  <2> QED BY <2>1, <2>2 DEF Advance, IInv, TypeOK
<1>8. reached' \in [Layers -> BOOLEAN] /\ done' \in [Layers -> BOOLEAN]
  BY DEF Advance, IInv, TypeOK
<1>9. \A l \in Drawing : l \in Layers /\ active[l] + 1 \in Rows
  BY <1>2, <1>3 DEF Drawing, Switching, Rows
<1>10. basis' \in [Layers -> [Rows -> Contents]]
  <2>1. \A l \in Drawing : drawn[l] \in Contents
    BY DEF Drawn
  <2>2. \A l \in Drawing : [b[l] EXCEPT ![active[l] + 1] = drawn[l]] \in [Rows -> Contents]
    BY <1>9, <2>1
  <2> QED BY <2>2 DEF WithDrawn
<1>11. orthogonal' \in [Layers -> SUBSET Rows]
  BY <1>9 DEF WithOrthogonal
<1>12. momentum' \in [Layers -> SUBSET Rows] /\ unstepped' \in [Layers -> BOOLEAN]
  BY DEF ResetAdam
<1>13. /\ batch' \in 0..MiniBatches
       /\ phase' \in {"update", "validate", "crashed", "ended"}
       /\ switched' \in BOOLEAN
       /\ step' \in 1..TotalSteps /\ evaluated' \in Seq(Rows)
  BY SequentialAssumption DEF EndBatch, IInv, TypeOK, BatchLeft
<1>14. BatchLeft'
  BY SequentialAssumption DEF EndBatch, IInv, TypeOK, BatchLeft
<1>15. TypeOK'
  BY <1>4, <1>5, <1>6, <1>7, <1>8, <1>10, <1>11, <1>12, <1>13 DEF TypeOK
<1> QED BY <1>14, <1>15

LEMMA BatchInvariant ==
  ASSUME IInv, ~OutOfRange, phase = "update",
         NEW b \in [Layers -> [Rows -> Contents]],
         NEW o \in [Layers -> SUBSET Rows],
         NEW m \in [Layers -> SUBSET Rows],
         NEW u \in [Layers -> BOOLEAN],
         NEW drawn \in [Drawing -> Drawn],
         \A l \in Layers : 0..active[l] \subseteq o[l],
         \A l \in Layers : m[l] \subseteq Unfinished(l),
         Advance(b), basis' = WithDrawn(b, drawn),
         orthogonal' = WithOrthogonal(o), ResetAdam(m, u), EndBatch
  PROVE  IInv'
<1>1. TypeOK' /\ BatchLeft'
  BY BatchTypes
<1>2. \A l \in Layers : ~done[l] /\ active[l] \in Rows
  BY StillTraining DEF IInv
<1>3. /\ NumVectors \in Nat
      /\ \A l \in Layers : active[l] \in Int /\ 0 <= active[l] /\ active[l] < NumVectors
      /\ \A l \in Layers : steps[l] \in Nat
  BY <1>2, SequentialAssumption DEF Rows, IInv, TypeOK
<1>4. Switching \in {{}, Layers} /\ Drawing \in {{}, Layers}
  BY AllOrNone DEF IInv
<1>5. InStep'
  <2>1. \A l, k \in Layers : active[l] = active[k] /\ steps[l] = steps[k]
    BY DEF IInv, InStep
  <2>2. ASSUME NEW l \in Layers, NEW k \in Layers
        PROVE  active'[l] = active'[k] /\ steps'[l] = steps'[k]
    BY <1>2, <1>4, <2>1 DEF Advance
  <2>3. ASSUME NEW l \in Layers, NEW k \in Layers
        PROVE  done'[l] = done'[k] /\ eval_idx'[l] = eval_idx'[k]
    BY <1>2, <1>4, <2>1 DEF Advance
  <2> QED BY <2>2, <2>3 DEF InStep
<1>6. ASSUME NEW l \in Layers, l \in Drawing
      PROVE  /\ l \in Switching /\ active'[l] = active[l] + 1 /\ active[l] + 1 < NumVectors
             /\ ~done'[l] /\ ~reached'[l] /\ momentum'[l] = {}
             /\ steps'[l] = 0 /\ unstepped'[l]
             /\ orthogonal'[l] = o[l] \cup {active[l] + 1}
  <2>1. l \in Switching /\ active[l] + 1 < NumVectors
    BY <1>6 DEF Drawing
  <2>2. ~(active[l] + 1 >= NumVectors)
    BY <2>1, <1>3
  <2>3. active'[l] = active[l] + 1 /\ ~done'[l] /\ ~reached'[l] /\ steps'[l] = 0
    BY <2>1, <2>2, <1>2, <1>6 DEF Advance
  <2>4. momentum'[l] = {} /\ unstepped'[l]
    BY <1>6 DEF ResetAdam
  <2>5. orthogonal'[l] = o[l] \cup {active[l] + 1}
    BY <1>6 DEF WithOrthogonal
  <2> QED BY <2>1, <2>3, <2>4, <2>5
<1>7. ASSUME NEW l \in Layers, l \notin Drawing
      PROVE  /\ steps'[l] = steps[l] + 1 /\ momentum'[l] = m[l] /\ orthogonal'[l] = o[l]
             /\ done'[l] <=> l \in Switching
             /\ reached[l] => reached'[l]
             /\ l \in Switching => active'[l] = NumVectors /\ active[l] > 0
             /\ l \notin Switching => active'[l] = active[l]
  <2>1. steps'[l] = steps[l] + 1 /\ (reached[l] => reached'[l])
    BY <1>2, <1>7 DEF Advance
  <2>2. momentum'[l] = m[l] /\ orthogonal'[l] = o[l]
    BY <1>7 DEF ResetAdam, WithOrthogonal
  <2>3. ASSUME l \in Switching
        PROVE  active[l] + 1 = NumVectors
    BY <1>3, <1>7, <2>3 DEF Drawing
  <2>4. done'[l] <=> l \in Switching
    <3>1. done'[l] <=> (l \in Switching /\ active[l] + 1 >= NumVectors)
      BY <1>2 DEF Advance
    <3>2. l \in Switching => active[l] + 1 >= NumVectors
      BY <1>3, <2>3
    <3> QED BY <3>1, <3>2
  <2>5. l \in Switching => active'[l] = NumVectors /\ active[l] > 0
    BY <1>3, <2>3, SequentialAssumption DEF Advance
  <2>6. l \notin Switching => active'[l] = active[l]
    BY DEF Advance
  <2> QED BY <2>1, <2>2, <2>4, <2>5, <2>6
<1>8. ASSUME NEW l \in Layers, l \in Switching, active[l] > 0
      PROVE  reached[l]
  <2>1. target[l] # NoTarget
    BY <1>8 DEF IInv, Linked
  <2>2. ForceSwitch
    BY <1>3, <1>8 DEF Switching, Switches
  <2> QED BY <2>1, <2>2 DEF ForceSwitch
<1>9. ASSUME NEW l \in Layers, active'[l] > 0
      PROVE  target'[l] # NoTarget
  <2>1. \A c \in Contents : Norm(c) # NoTarget
    BY SequentialAssumption DEF Contents, Norm, NoTarget
  <2>2. b[l][0] \in Contents
    BY SequentialAssumption DEF Rows
  <2>3. CASE l \in Switching /\ active[l] = 0
    BY <2>1, <2>2, <2>3 DEF Advance
  <2>4. CASE ~(l \in Switching /\ active[l] = 0)
    <3>1. active[l] > 0
      BY <2>4, <1>3, <1>9 DEF Advance
    <3>2. target[l] # NoTarget
      BY <3>1 DEF IInv, Linked
    <3> QED BY <2>4, <3>2 DEF Advance
  <2> QED BY <2>3, <2>4
<1>10. Linked'
  <2>1. ASSUME NEW l \in Layers
        PROVE  /\ done'[l] <=> active'[l] = NumVectors
               /\ done'[l] => reached'[l]
               /\ ~done'[l] => momentum'[l] \subseteq Unfinished(l)'
    <3>1. CASE l \in Drawing
      BY <1>3, <1>6, <3>1
    <3>2. CASE l \notin Drawing /\ l \in Switching
      BY <1>7, <1>8, <3>2
    <3>3. CASE l \notin Drawing /\ l \notin Switching
      <4>1. active'[l] = active[l] /\ momentum'[l] = m[l] /\ ~done'[l]
        BY <1>7, <3>3
      <4>2. Unfinished(l)' = Unfinished(l)
        BY <4>1 DEF Unfinished
      <4> QED BY <1>3, <4>1, <4>2
    <3> QED BY <3>1, <3>2, <3>3
  <2> QED BY <1>9, <2>1 DEF Linked
<1>11. CleanSlate'
  <2>1. ASSUME NEW l \in Layers, steps'[l] = 0
        PROVE  momentum'[l] = {} /\ unstepped'[l]
    BY <1>3, <1>6, <1>7, <2>1
  <2> QED BY <2>1 DEF CleanSlate
<1>12. Orthogonalized'
  <2>1. ASSUME NEW l \in Layers
        PROVE  0..TrainedRow(l)' \subseteq orthogonal'[l]
    <3>1. CASE l \in Drawing
      <4>1. TrainedRow(l)' = active[l] + 1
        BY <1>6, <3>1 DEF TrainedRow
      <4>2. 0..(active[l] + 1) = (0..active[l]) \cup {active[l] + 1}
        BY <1>3
      <4> QED BY <1>6, <3>1, <4>1, <4>2
    <3>2. CASE l \notin Drawing
      <4>1. TrainedRow(l)' = active[l]
        <5>1. CASE l \in Switching
          <6>1. done'[l]
            BY <1>7, <3>2, <5>1
          <6>2. TrainedRow(l)' = NumVectors - 1
            BY <6>1 DEF TrainedRow
          <6>3. active[l] + 1 >= NumVectors
            BY <1>3, <3>2, <5>1 DEF Drawing
          <6>4. active[l] \in Int /\ NumVectors \in Int /\ active[l] < NumVectors
            BY <1>3
          <6>5. NumVectors - 1 = active[l]
            BY <6>3, <6>4, LastOne
          <6> QED BY <6>2, <6>5
        <5>2. CASE l \notin Switching
          BY <1>7, <3>2, <5>2 DEF TrainedRow
        <5> QED BY <5>1, <5>2
      <4> QED BY <1>7, <3>2, <4>1
    <3> QED BY <3>1, <3>2
  <2> QED BY <2>1 DEF Orthogonalized
<1> QED BY <1>1, <1>5, <1>10, <1>11, <1>12 DEF IInv

\* Seen from OneAtATime, a mini-batch trains the current vector, and it may
\* finish it.
LEMMA BatchRefines ==
  ASSUME IInv, ~OutOfRange, phase = "update",
         NEW b \in [Layers -> [Rows -> Contents]],
         \A l \in Layers : \A r \in Rows : r < active[l] => b[l][r] = basis[l][r],
         NEW drawn \in [Drawing -> Drawn],
         Advance(b), basis' = WithDrawn(b, drawn),
         basis' \in [Layers -> [Rows -> Contents]]
  PROVE  Promise!Next
<1> DEFINE first == CHOOSE l \in Layers : TRUE
<1>1. first \in Layers
  BY SequentialAssumption
<1>2. \A l \in Layers : active[l] = active[first]
  BY <1>1 DEF IInv, InStep
<1>3. active[first] \in Int /\ 0 <= active[first] /\ active[first] < NumVectors
  BY <1>1, StillTraining, SequentialAssumption DEF IInv, Rows
<1>4. Promise!Rows = Rows /\ Promise!Bases = [Layers -> [Rows -> Contents]]
  BY DEF Promise!Rows, Promise!Bases, Rows
<1>5. CASE Switching = {}
  <2>1. active'[first] = active[first]
    BY <1>1, <1>5 DEF Advance
  <2>2. Drawing = {}
    BY <1>5 DEF Drawing
  <2>3. ASSUME NEW l \in Layers, NEW r \in Rows, r < active[first]
        PROVE  basis'[l][r] = basis[l][r]
    <3>1. basis'[l] = b[l]
      BY <2>2 DEF WithDrawn
    <3>2. r < active[l]
      BY <1>2, <2>3
    <3> QED BY <3>1, <3>2
  <2>4. Promise!FinishedKept
    BY <1>4, <2>3 DEF Promise!FinishedKept
  <2> QED BY <2>1, <2>4 DEF Promise!Next, Promise!Train
<1>6. CASE Switching = Layers
  <2>1. active'[first] = active[first] + 1
    BY <1>1, <1>6 DEF Advance
  <2>2. ASSUME NEW l \in Layers, NEW r \in Rows, r < active[first]
        PROVE  basis'[l][r] = basis[l][r]
    <3>1. r < active[l] /\ r # active[l] + 1
      <4>1. r \in Int /\ r # active[first] + 1
        BY <1>3, <2>2 DEF Rows
      <4> QED BY <1>2, <2>2, <4>1
    <3>2. b[l] \in [Rows -> Contents] /\ b[l][r] = basis[l][r]
      BY <3>1
    <3>3. basis'[l] = IF l \in Drawing THEN [b[l] EXCEPT ![active[l] + 1] = drawn[l]]
                      ELSE b[l]
      BY DEF WithDrawn
    <3>4. basis'[l][r] = b[l][r]
      BY <3>1, <3>2, <3>3
    <3> QED BY <3>2, <3>4
  <2>3. Promise!FinishedKept
    BY <1>4, <2>2 DEF Promise!FinishedKept
  <2> QED BY <1>3, <2>1, <2>3 DEF Promise!Next, Promise!Finish
<1> QED BY <1>5, <1>6, AllOrNone DEF IInv

\* A finite gradient norm: the optimizer steps.
LEMMA MiniBatchStep ==
  ASSUME IInv, MiniBatch
  PROVE  IInv' /\ Promise!Next
<1> DEFINE o == [l \in Layers |-> OrthogonalAfter(l)]
           m == [l \in Layers |-> MomentumAfter(l)]
           u == [l \in Layers |-> FALSE]
<1>1. ~OutOfRange /\ phase = "update"
  BY DEF MiniBatch
<1>2. PICK b \in SteppedBases : \E drawn \in [Drawing -> Drawn] :
        Advance(b) /\ basis' = WithDrawn(b, drawn)
  BY DEF MiniBatch
<1>3. PICK drawn \in [Drawing -> Drawn] : Advance(b) /\ basis' = WithDrawn(b, drawn)
  BY <1>2
<1>4. /\ b \in [Layers -> [Rows -> Contents]]
      /\ \A l \in Layers : \A r \in Rows : r < active[l] => b[l][r] = basis[l][r]
  BY <1>1, SteppedKeepsFinished
<1>5. \A l \in Layers : active[l] \in Rows /\ TrainedRow(l) = active[l]
  BY <1>1, StillTraining DEF IInv, TrainedRow
<1>6. \A l \in Layers : 0..TrainedRow(l) \subseteq Rows
  BY <1>5, SequentialAssumption DEF Rows
<1>7. o \in [Layers -> SUBSET Rows] /\ \A l \in Layers : 0..active[l] \subseteq o[l]
  <2>1. \A l \in Layers : orthogonal[l] \subseteq Rows
    BY DEF IInv, TypeOK
  <2>2. \A l \in Layers : OrthogonalAfter(l) \in SUBSET Rows
    BY <1>6, <2>1 DEF OrthogonalAfter
  <2>3. \A l \in Layers : 0..active[l] \subseteq OrthogonalAfter(l)
    BY <1>5 DEF OrthogonalAfter
  <2> QED BY <2>2, <2>3
<1>8. m \in [Layers -> SUBSET Rows] /\ \A l \in Layers : m[l] \subseteq Unfinished(l)
  BY <1>5, SequentialAssumption DEF MomentumAfter, Unfinished, Rows
<1>9. u \in [Layers -> BOOLEAN]
  OBVIOUS
<1>10. orthogonal' = WithOrthogonal(o) /\ ResetAdam(m, u) /\ EndBatch
  BY DEF MiniBatch
<1> HIDE DEF o, m, u
<1>11. TypeOK' /\ IInv'
  BY <1>1, <1>3, <1>4, <1>7, <1>8, <1>9, <1>10, BatchInvariant DEF IInv
<1>12. basis' \in [Layers -> [Rows -> Contents]]
  BY <1>11 DEF TypeOK
<1>13. Promise!Next
  BY <1>1, <1>3, <1>4, <1>12, BatchRefines
<1> QED BY <1>11, <1>13

\* A gradient norm that is not finite: only the curriculum moves.
LEMMA SkippedMiniBatchStep ==
  ASSUME IInv, SkippedMiniBatch
  PROVE  IInv' /\ Promise!Next
<1>1. ~OutOfRange /\ phase = "update"
  BY DEF SkippedMiniBatch
<1>2. PICK drawn \in [Drawing -> Drawn] : Advance(basis) /\ basis' = WithDrawn(basis, drawn)
  BY DEF SkippedMiniBatch
<1>3. \A l \in Layers : ~done[l] /\ TrainedRow(l) = active[l]
  BY <1>1, StillTraining DEF IInv, TrainedRow
<1>4. /\ basis \in [Layers -> [Rows -> Contents]]
      /\ orthogonal \in [Layers -> SUBSET Rows]
      /\ momentum \in [Layers -> SUBSET Rows]
      /\ unstepped \in [Layers -> BOOLEAN]
  BY DEF IInv, TypeOK
<1>5. \A l \in Layers : 0..active[l] \subseteq orthogonal[l]
  BY <1>3 DEF IInv, Orthogonalized
<1>6. \A l \in Layers : momentum[l] \subseteq Unfinished(l)
  BY <1>3 DEF IInv, Linked
<1>7. orthogonal' = WithOrthogonal(orthogonal) /\ ResetAdam(momentum, unstepped) /\ EndBatch
  BY DEF SkippedMiniBatch
<1>8. TypeOK' /\ IInv'
  BY <1>1, <1>2, <1>4, <1>5, <1>6, <1>7, BatchInvariant DEF IInv
<1>9. basis' \in [Layers -> [Rows -> Contents]]
  BY <1>8 DEF TypeOK
<1>10. Promise!Next
  BY <1>1, <1>2, <1>4, <1>9, BatchRefines
<1> QED BY <1>8, <1>10

-----------------------------------------------------------------------------
(* The invariant, and what follows from it. *)

LEMMA InitIInv == Init => IInv
<1> SUFFICES ASSUME Init PROVE IInv
  OBVIOUS
<1> USE SequentialAssumption DEF Init
<1>1. TypeOK
  <2>1. 0 \in Rows /\ 0 \in Contents /\ 0 \in 0..NumVectors
    BY DEF Rows, Contents
  <2>2. /\ 0 \in 0..MiniBatches /\ 1 \in 1..TotalSteps
        /\ evaluated \in Seq(Rows)
    OBVIOUS
  <2>3. basis \in [Layers -> [Rows -> Contents]]
    BY <2>1
  <2>4. /\ active \in [Layers -> 0..NumVectors] /\ eval_idx \in [Layers -> Rows]
        /\ steps \in [Layers -> Nat] /\ target \in [Layers -> {NoTarget} \cup Nat]
    BY <2>1
  <2>5. /\ reached \in [Layers -> BOOLEAN] /\ done \in [Layers -> BOOLEAN]
        /\ orthogonal \in [Layers -> SUBSET Rows]
        /\ momentum \in [Layers -> SUBSET Rows] /\ unstepped \in [Layers -> BOOLEAN]
    OBVIOUS
  <2> QED BY <2>2, <2>3, <2>4, <2>5 DEF TypeOK
<1>2. BatchLeft /\ InStep /\ CleanSlate
  BY DEF BatchLeft, InStep, CleanSlate
<1>3. Linked
  BY DEF Linked
<1>4. Orthogonalized
  BY DEF Orthogonalized, TrainedRow, Rows
<1> QED BY <1>1, <1>2, <1>3, <1>4 DEF IInv

\* The steps that leave the hooks and their parameters alone.
LEMMA TrainerStep ==
  ASSUME IInv, UNCHANGED <<curriculum, parameters>>,
         phase' \in {"update", "validate", "crashed", "ended"},
         batch' \in 0..MiniBatches, step' \in 1..TotalSteps,
         switched' \in BOOLEAN, evaluated' \in Seq(Rows), BatchLeft'
  PROVE  IInv'
<1>1. /\ UNCHANGED <<active, eval_idx, steps, target, reached, done>>
      /\ UNCHANGED <<basis, orthogonal, momentum, unstepped>>
  BY DEF curriculum, parameters
<1>2. TypeOK'
  BY <1>1 DEF IInv, TypeOK
<1>3. InStep' /\ CleanSlate' /\ Linked'
  BY <1>1 DEF IInv, InStep, CleanSlate, Linked, Unfinished
<1>4. Orthogonalized'
  BY <1>1 DEF IInv, Orthogonalized, TrainedRow
<1> QED BY <1>2, <1>3, <1>4 DEF IInv

LEMMA EvaluatedRows ==
  ASSUME TypeOK, EndStep
  PROVE  evaluated' \in Seq(Rows)
<1>1. \A l \in Layers : PayloadRow(l) \in Rows
  BY SequentialAssumption DEF TypeOK, PayloadRow, Rows
<1>2. evaluated \in Seq(Rows)
  BY DEF TypeOK
<1>3. PICK l \in Layers :
        evaluated' = IF switched THEN Append(evaluated, PayloadRow(l)) ELSE evaluated
  BY DEF EndStep
<1> QED BY <1>1, <1>2, <1>3

\* A restart resets the hooks of all layers alike and keeps the parameters.
LEMMA ResumeStep ==
  ASSUME IInv, Resume
  PROVE  IInv' /\ Promise!Next
<1>1. /\ active' = [l \in Layers |-> 0] /\ eval_idx' = [l \in Layers |-> 0]
      /\ steps' = [l \in Layers |-> 0] /\ target' = [l \in Layers |-> NoTarget]
      /\ reached' = [l \in Layers |-> FALSE] /\ done' = [l \in Layers |-> FALSE]
  BY DEF Resume
<1>2. /\ UNCHANGED <<basis, orthogonal, momentum, unstepped>>
      /\ UNCHANGED <<phase, batch, step, switched>> /\ evaluated' = <<>>
  BY DEF Resume, parameters
<1>3. 0 \in Rows /\ 0 \in 0..NumVectors /\ 0 # NumVectors
  BY SequentialAssumption DEF Rows
<1>4. TypeOK'
  <2>1. /\ active' \in [Layers -> 0..NumVectors] /\ eval_idx' \in [Layers -> Rows]
        /\ steps' \in [Layers -> Nat] /\ target' \in [Layers -> {NoTarget} \cup Nat]
    BY <1>1, <1>3
  <2>2. reached' \in [Layers -> BOOLEAN] /\ done' \in [Layers -> BOOLEAN]
    BY <1>1
  <2>3. evaluated' \in Seq(Rows)
    BY <1>2
  <2> QED BY <1>2, <2>1, <2>2, <2>3 DEF IInv, TypeOK
<1>5. BatchLeft' /\ InStep' /\ CleanSlate'
  BY <1>1, <1>2 DEF IInv, BatchLeft, InStep, CleanSlate
<1>6. Linked'
  <2>1. \A l \in Layers : momentum[l] \subseteq Rows /\ Rows \subseteq Unfinished(l)'
    BY <1>1, SequentialAssumption DEF IInv, TypeOK, Unfinished, Rows
  <2>2. \A l \in Layers : momentum'[l] \subseteq Unfinished(l)'
    BY <1>2, <2>1
  <2> QED BY <1>1, <1>3, <2>2 DEF Linked
<1>7. Orthogonalized'
  <2>1. ASSUME NEW l \in Layers
        PROVE  0 \in orthogonal[l]
    <3>1. TrainedRow(l) \in Nat
      BY SequentialAssumption DEF TrainedRow, IInv, TypeOK
    <3> QED BY <3>1 DEF IInv, Orthogonalized
  <2>2. \A l \in Layers : TrainedRow(l)' = 0
    BY <1>1 DEF TrainedRow
  <2> QED BY <1>2, <2>1, <2>2 DEF Orthogonalized
<1>8. Promise!Restart
  BY <1>1, <1>2, SequentialAssumption DEF Promise!Restart
<1> QED BY <1>4, <1>5, <1>6, <1>7, <1>8 DEF IInv, Promise!Next

LEMMA NextStep ==
  ASSUME IInv, [Next]_vars
  PROVE  /\ IInv'
         /\ Promise!Next \/ UNCHANGED <<active[CHOOSE l \in Layers : TRUE], basis>>
<1>1. CASE MiniBatch
  BY <1>1, MiniBatchStep
<1>2. CASE SkippedMiniBatch
  BY <1>2, SkippedMiniBatchStep
<1>3. CASE Crash
  <2>1. IInv'
    BY <1>3, TrainerStep DEF Crash, IInv, TypeOK, BatchLeft
  <2> QED BY <1>3, <2>1 DEF Crash, curriculum, parameters
<1>4. CASE EndStep
  <2>1. UNCHANGED <<curriculum, parameters>>
    BY <1>4 DEF EndStep
  <2>2. /\ phase' \in {"update", "validate", "crashed", "ended"}
        /\ switched' \in BOOLEAN
    BY <1>4 DEF EndStep
  <2>6. batch' \in 0..MiniBatches /\ BatchLeft'
    <3>1. batch' = 0
      BY <1>4 DEF EndStep
    <3> QED BY <3>1, SequentialAssumption DEF BatchLeft
  <2>3. step' \in 1..TotalSteps
    BY <1>4, SequentialAssumption DEF EndStep, IInv, TypeOK
  <2>4. evaluated' \in Seq(Rows)
    BY <1>4, EvaluatedRows DEF IInv
  <2>5. IInv'
    BY <2>1, <2>2, <2>3, <2>4, <2>6, TrainerStep
  <2> QED BY <2>1, <2>5 DEF curriculum, parameters
<1>6. CASE Resume
  BY <1>6, ResumeStep
<1>5. CASE UNCHANGED vars
  <2>1. UNCHANGED <<curriculum, parameters>> /\ UNCHANGED <<phase, batch, step, switched, evaluated>>
    BY <1>5 DEF vars, trainer
  <2>2. IInv'
    BY <2>1, TrainerStep DEF IInv, TypeOK, BatchLeft
  <2> QED BY <2>1, <2>2 DEF curriculum, parameters
<1> QED BY <1>1, <1>2, <1>3, <1>4, <1>5, <1>6 DEF Next, Progress

\* IInv is an inductive invariant of the run.
THEOREM Inductive == Spec => []IInv
<1>1. Init => IInv
  BY InitIInv
<1>2. IInv /\ [Next]_vars => IInv'
  BY NextStep
<1> QED BY <1>1, <1>2, PTL DEF Spec

\* Every variable keeps its type: no index of a hook leaves the basis but the
\* one of a finished curriculum.
THEOREM TypeCorrect == Spec => []TypeOK
<1>1. IInv => TypeOK
  BY DEF IInv
<1> QED BY <1>1, Inductive, PTL

\* The layers train the same vector for the same number of steps, whatever the
\* norms of their vectors do.
THEOREM Synchronized == Spec => []InStep
<1>1. IInv => InStep
  BY DEF IInv
<1> QED BY <1>1, Inductive, PTL

\* The vectors trained so far are orthogonal to each other between mini-batches.
THEOREM StaysOrthogonal == Spec => []OrthogonalRows
<1>1. IInv => OrthogonalRows
  BY DEF IInv, Orthogonalized, OrthogonalRows
<1> QED BY <1>1, Inductive, PTL

\* A new vector starts with no moments and a step counter of zero.
THEOREM StartsClean == Spec => []CleanSlate
<1>1. IInv => CleanSlate
  BY DEF IInv
<1> QED BY <1>1, Inductive, PTL

\* The curriculum implements OneAtATime: a finished vector never changes again.
THEOREM OneByOne == Spec => TrainsOneAtATime
<1>1. Init => Promise!Init
  <2> SUFFICES ASSUME Init PROVE Promise!Init
    OBVIOUS
  <2>1. active[CHOOSE l \in Layers : TRUE] = 0
    BY SequentialAssumption DEF Init
  <2>2. basis \in [Layers -> [Rows -> Contents]]
    BY InitIInv DEF IInv, TypeOK
  <2> QED BY <2>1, <2>2 DEF Promise!Init, Promise!Bases, Promise!Rows, Rows
<1>2. IInv /\ [Next]_vars
        => [Promise!Next]_<<active[CHOOSE l \in Layers : TRUE], basis>>
  BY NextStep
<1> QED BY <1>1, <1>2, Inductive, PTL DEF Spec, TrainsOneAtATime, Promise!Spec

\* Behind ForceSwitch: past vector 0 it holds exactly when all have reached.
LEMMA ForcedByAll ==
  ASSUME IInv, NEW l \in Layers, active[l] > 0, ~done[l]
  PROVE  ForceSwitch <=> \A m \in Layers : reached[m]
<1>1. \A m \in Layers : active[m] > 0 /\ active[m] # 0
  BY DEF IInv, InStep, TypeOK
<1>2. \A m \in Layers : target[m] # NoTarget
  BY <1>1 DEF IInv, Linked
<1>3. {m \in Layers : target[m] # NoTarget} = Layers
  BY <1>2
<1> QED BY <1>1, <1>3 DEF ForceSwitch

LEMMA TurnEnds ==
  ASSUME IInv, [Next]_vars, batch' = batch + 1,
         NEW l \in Layers, active[l] > 0, ~done[l]
  PROVE  active'[l] # active[l] <=> \A m \in Layers : reached[m]
<1>1. active[l] \in Nat /\ batch \in Nat /\ batch # batch + 1 /\ batch + 1 # 0
  BY SequentialAssumption DEF IInv, TypeOK
<1>2. PICK b : Advance(b)
  <2>1. CASE MiniBatch
    BY <2>1 DEF MiniBatch
  <2>2. CASE SkippedMiniBatch
    BY <2>2 DEF SkippedMiniBatch
  <2>3. ~Crash /\ ~EndStep /\ ~Resume /\ ~UNCHANGED vars
    BY <1>1 DEF Crash, EndStep, Resume, vars, trainer
  <2> QED BY <2>1, <2>2, <2>3 DEF Next, Progress
<1>3. active'[l] = IF l \in Switching THEN active[l] + 1 ELSE active[l]
  BY <1>2 DEF Advance
<1>4. l \in Switching <=> ForceSwitch
  BY <1>1 DEF Switching, Switches
<1> QED BY <1>1, <1>3, <1>4, ForcedByAll

\* No layer runs ahead of a slower one, and none waits once all have reached.
THEOREM WaitsExactly == Spec => WaitsForAll
<1>1. IInv /\ [Next]_vars =>
        [batch' = batch + 1 =>
           \A l \in Layers : (active[l] > 0 /\ ~done[l]) =>
             (active'[l] # active[l] <=> \A m \in Layers : reached[m])]_vars
  BY TurnEnds
<1> QED BY <1>1, Inductive, PTL DEF Spec, WaitsForAll

-----------------------------------------------------------------------------
(* What is validated, when a training step is one mini-batch. *)

Upto(n) == [i \in 1..n |-> i - 1]

\* Between a switch and its validation the finished vector is the last but one
\* row begun, and the one the hooks name to the engine.
Validates ==
  MiniBatches = 1 =>
    /\ phase = "update" => batch = 0 /\ ~switched
    /\ phase \in {"update", "ended"} => \A l \in Layers : evaluated = Upto(active[l])
    /\ phase = "validate" =>
         \A l \in Layers :
           IF switched
           THEN active[l] > 0 /\ evaluated = Upto(active[l] - 1) /\ eval_idx[l] = active[l] - 1
           ELSE evaluated = Upto(active[l])

LEMMA UptoZero == Upto(0) = <<>>
BY DEF Upto

LEMMA UptoNext ==
  ASSUME NEW n \in Nat
  PROVE  Append(Upto(n), n) = Upto(n + 1)
<1>1. Upto(n) \in Seq(Nat) /\ Len(Upto(n)) = n
  BY DEF Upto
<1>2. /\ Len(Append(Upto(n), n)) = n + 1
      /\ \A i \in 1..(n + 1) : Append(Upto(n), n)[i] = i - 1
  BY <1>1 DEF Upto
<1>3. Append(Upto(n), n) \in Seq(Nat)
  BY <1>1
<1>4. Upto(n + 1) \in Seq(Nat) /\ Len(Upto(n + 1)) = n + 1
      /\ \A i \in 1..(n + 1) : Upto(n + 1)[i] = i - 1
  BY DEF Upto
<1>5. \A s \in Seq(Nat), t \in Seq(Nat) :
        Len(s) = Len(t) /\ (\A i \in 1..Len(s) : s[i] = t[i]) => s = t
  OBVIOUS
<1> HIDE DEF Upto
<1>6. /\ Len(Append(Upto(n), n)) = Len(Upto(n + 1))
      /\ \A i \in 1..Len(Append(Upto(n), n)) : Append(Upto(n), n)[i] = Upto(n + 1)[i]
  BY <1>2, <1>4
<1> QED BY <1>3, <1>4, <1>5, <1>6

\* A mini-batch that ends the turn of a vector leaves it as the one to validate.
LEMMA BatchValidates ==
  ASSUME IInv, Validates, MiniBatch \/ SkippedMiniBatch
  PROVE  Validates'
<1> SUFFICES ASSUME MiniBatches = 1 PROVE Validates'
  BY DEF Validates
<1>1. ~OutOfRange /\ phase = "update" /\ EndBatch
  BY DEF MiniBatch, SkippedMiniBatch
<1>2. PICK b : Advance(b)
  BY DEF MiniBatch, SkippedMiniBatch
<1>3. batch = 0 /\ ~switched /\ \A l \in Layers : evaluated = Upto(active[l])
  BY <1>1 DEF Validates
<1>4. /\ phase' = "validate" /\ evaluated' = evaluated
      /\ switched' <=> Switching # {}
  <2>1. batch + 1 = MiniBatches
    BY <1>3
  <2>2. switched' = (switched \/ Switching # {}) /\ evaluated' = evaluated
    BY <1>1 DEF EndBatch
  <2>3. phase' = "validate"
    BY <1>1, <2>1 DEF EndBatch
  <2> QED BY <1>3, <2>2, <2>3
<1>5. ASSUME NEW l \in Layers
      PROVE  /\ active[l] \in Nat
             /\ active'[l] = IF Switching # {} THEN active[l] + 1 ELSE active[l]
             /\ eval_idx'[l] = active[l]
  <2>1. ~done[l] /\ active[l] \in Rows
    BY <1>1, StillTraining DEF IInv
  <2>2. Switching \in {{}, Layers}
    BY AllOrNone DEF IInv
  <2> QED BY <1>2, <2>1, <2>2 DEF Advance, Rows
<1>6. ASSUME NEW l \in Layers
      PROVE  IF switched'
             THEN active'[l] > 0 /\ evaluated' = Upto(active'[l] - 1) /\ eval_idx'[l] = active'[l] - 1
             ELSE evaluated' = Upto(active'[l])
  BY <1>3, <1>4, <1>5
<1> QED BY <1>4, <1>6 DEF Validates

\* The validation injects the vector just finished, on whichever layer one looks.
LEMMA EndStepValidates ==
  ASSUME IInv, Validates, EndStep
  PROVE  Validates'
<1> SUFFICES ASSUME MiniBatches = 1 PROVE Validates'
  BY DEF Validates
<1>1. /\ phase = "validate" /\ phase' \in {"update", "ended"} /\ batch' = 0 /\ ~switched'
      /\ active' = active
  BY DEF EndStep, curriculum
<1>2. PICK m \in Layers :
        evaluated' = IF switched THEN Append(evaluated, PayloadRow(m)) ELSE evaluated
  BY DEF EndStep
<1>3. ASSUME NEW l \in Layers
      PROVE  evaluated' = Upto(active[l])
  <2>1. active[l] = active[m] /\ active[m] \in 0..NumVectors /\ NumVectors \in Nat
    BY SequentialAssumption DEF IInv, InStep, TypeOK
  <2>2. CASE switched
    <3>1. active[m] > 0 /\ evaluated = Upto(active[m] - 1) /\ eval_idx[m] = active[m] - 1
      BY <1>1, <2>2 DEF Validates
    <3>2. PayloadRow(m) = active[m] - 1 /\ active[m] - 1 \in Nat
      BY <2>1, <3>1 DEF PayloadRow
    <3>3. evaluated' = Upto((active[m] - 1) + 1)
      BY <1>2, <2>2, <3>1, <3>2, UptoNext
    <3>4. (active[m] - 1) + 1 = active[m]
      BY <2>1
    <3> QED BY <2>1, <3>3, <3>4
  <2>3. CASE ~switched
    BY <1>1, <1>2, <2>3 DEF Validates
  <2> QED BY <2>2, <2>3
<1> QED BY <1>1, <1>3 DEF Validates

LEMMA NextValidates ==
  ASSUME IInv, Validates, [Next]_vars
  PROVE  Validates'
<1>1. CASE MiniBatch \/ SkippedMiniBatch
  BY <1>1, BatchValidates
<1>2. CASE Crash
  BY <1>2 DEF Crash, Validates
<1>3. CASE EndStep
  BY <1>3, EndStepValidates
<1>4. CASE Resume
  <2>1. /\ phase' = phase /\ phase = "update" /\ batch' = batch /\ switched' = switched
        /\ evaluated' = <<>> /\ \A l \in Layers : active'[l] = 0
    BY <1>4 DEF Resume
  <2> QED BY <2>1, UptoZero DEF Validates
<1>5. CASE UNCHANGED vars
  BY <1>5 DEF vars, trainer, curriculum, Validates
<1> QED BY <1>1, <1>2, <1>3, <1>4, <1>5 DEF Next, Progress

\* When a training step is one mini-batch, every vector finished since the last start
\* is validated once, in order and before the next training step, for any number of
\* layers, vectors and steps, through skipped updates and restarts.
THEOREM ValidatesEach == Spec => [](MiniBatches = 1 => EvaluatesEachFinished)
<1>1. Init => Validates
  <2> SUFFICES ASSUME Init PROVE Validates
    OBVIOUS
  <2>1. /\ phase = "update" /\ batch = 0 /\ ~switched /\ evaluated = <<>>
        /\ \A l \in Layers : active[l] = 0
    BY DEF Init
  <2> QED BY <2>1, UptoZero DEF Validates
<1>2. IInv /\ Validates /\ [Next]_vars => Validates'
  BY NextValidates
<1>3. Validates => (MiniBatches = 1 => EvaluatesEachFinished)
  BY DEF Validates, EvaluatesEachFinished, Upto
<1> QED BY <1>1, <1>2, <1>3, Inductive, PTL DEF Spec
=============================================================================
