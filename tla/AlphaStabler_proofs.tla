------------------------- MODULE AlphaStabler_proofs -------------------------
(***************************************************************************)
(* Theorems about AlphaStabler, for every number of ranks and layers and   *)
(* every configuration that AlphaStablerConfig accepts.                    *)
(***************************************************************************)
EXTENDS AlphaStabler, TLAPS

USE DEF Idle, Failed, Train, Place, Invalid

(* Sequences of predictors and psi values stay well typed.                 *)

LEMMA ObservationType ==
  ASSUME NEW e PROVE Observation(e) \subseteq (0..Scale) \cup {Invalid}
  BY DEF Observation, Psi

LEMMA UpdateType ==
  ASSUME NEW p \in Predictor, NEW psi \in (0..Scale) \cup {Invalid}
  PROVE  UpdatePredictor(p, psi) \in Predictor
<1>1. CASE psi = Invalid
  BY <1>1 DEF UpdatePredictor, Predictor
<1>2. CASE psi # Invalid
  <2>1. Smooth(p.ema, psi) \in Int
    BY <1>2, ConfigAssumption, BoundAssumption DEF Smooth, Predictor
  <2> DEFINE ema == Smooth(p.ema, psi)
             count == IF ema > p.warning THEN p.count + 1 ELSE 0
             flag == (p.active \/ count >= persistence) /\ ~(ema < p.release)
  <2>2. count \in Nat
    BY DEF Predictor
  <2>3. flag \in BOOLEAN
    BY <2>1, <2>2, ConfigAssumption DEF Predictor
  <2>4. UpdatePredictor(p, psi) = [p EXCEPT !.ema = ema, !.count = count, !.active = flag]
    BY <1>2 DEF UpdatePredictor
  <2>5. QED
    <3> HIDE DEF ema, count, flag
    <3>1. ema \in Int
      BY <2>1 DEF ema
    <3>2. QED
    BY <3>1, <2>2, <2>3, <2>4 DEF Predictor
<1>3. QED BY <1>1, <1>2

\* An update keeps counter, flag, EMA and thresholds consistent: a counter that
\* reaches persistence raises the flag, and the release that could lower it again
\* needs an EMA below the lower of the two thresholds.
LEMMA UpdateConsistent ==
  ASSUME NEW p \in Predictor, Consistent(p), NEW psi \in (0..Scale) \cup {Invalid}
  PROVE  Consistent(UpdatePredictor(p, psi))
<1>1. CASE psi = Invalid
  <2>1. UpdatePredictor(p, psi) = [p EXCEPT !.count = 0]
    BY <1>1 DEF UpdatePredictor
  <2>2. QED BY <2>1, ConfigAssumption DEF Predictor, Consistent
<1>2. CASE psi # Invalid
  <2> DEFINE ema == Smooth(p.ema, psi)
             count == IF ema > p.warning THEN p.count + 1 ELSE 0
             flag == (p.active \/ count >= persistence) /\ ~(ema < p.release)
  <2>1. ema \in Int
    BY <1>2, ConfigAssumption, BoundAssumption DEF Smooth, Predictor
  <2>2. UpdatePredictor(p, psi) = [p EXCEPT !.ema = ema, !.count = count, !.active = flag]
    BY <1>2 DEF UpdatePredictor
  <2> HIDE DEF ema
  <2>3. count > 0 => ema > p.warning
    BY <2>1 DEF Predictor
  <2>4. count >= persistence => flag
    BY <2>1, <2>3, ConfigAssumption, BoundAssumption DEF Predictor, Consistent
  <2>5. flag => ema >= p.release
    BY <2>1 DEF Predictor
  <2> HIDE DEF count, flag
  <2>6. LET q == UpdatePredictor(p, psi)
        IN q.release = p.release /\ q.warning = p.warning /\ q.ema = ema /\ q.count = count /\ q.active = flag
    BY <2>2 DEF Predictor
  <2>7. QED BY <2>3, <2>4, <2>5, <2>6 DEF Consistent
<1>3. QED BY <1>1, <1>2

LEMMA MediansType ==
  ASSUME NEW s, \A i \in DOMAIN s : s[i] \in Int
  PROVE  Medians(s) \subseteq Int
<1>1. ASSUME NEW k PROVE Ordered(s, k) \subseteq Int
  BY DEF Ordered, Range
<1>2. SUFFICES ASSUME NEW lo \in Ordered(s, (Len(s) + 1) \div 2),
                      NEW hi \in Ordered(s, Len(s) \div 2 + 1)
               PROVE  (lo + hi) \div 2 \in Int
  BY DEF Medians
<1>3. lo \in Int /\ hi \in Int
  BY <1>1
<1>4. QED BY <1>3

LEMMA CalibrationType ==
  ASSUME NEW values \in Seq(Nat), NEW p \in Calibrations(values)
  PROVE  p \in Predictor /\ p.count = 0 /\ p.active = FALSE
         /\ 0 < p.release /\ p.release < p.warning /\ p.warning < Scale
<1>1. Medians(values) \subseteq Int
  BY MediansType
<1>2. ASSUME NEW m \in Int PROVE Medians(Deviations(values, m)) \subseteq Int
  <2>1. \A i \in DOMAIN Deviations(values, m) : Deviations(values, m)[i] \in Int
    BY DEF Deviations
  <2>2. QED BY <2>1, MediansType
<1>3. PICK m \in Medians(values) : p \in {Fresh(m, d) : d \in Medians(Deviations(values, m))}
  BY DEF Calibrations
<1>31. PICK d \in Medians(Deviations(values, m)) : p = Fresh(m, d)
  BY <1>3
<1>4. m \in Int /\ d \in Int
  BY <1>1, <1>2, <1>3, <1>31
<1>5. Fresh(m, d) \in Predictor /\ Fresh(m, d).count = 0 /\ Fresh(m, d).active = FALSE
  BY <1>4, ConfigAssumption DEF Fresh, Predictor
<1>6. QED BY <1>31, <1>5 DEF Calibrations

-----------------------------------------------------------------------------
(* The inductive invariant: types, the lengths the calibration goes        *)
(* through, and the consistency of every predictor, kept, saved or drafted.*)

RankShape(r) ==
  /\ Len(predictor[r]) = Len(bases[r])
  /\ Len(ckpt[r].predictor) = Len(ckpt[r].bases)
  /\ at[r].phase \in {"moments", "basis"} =>
       /\ at[r].layer \in Layers
       /\ Len(draft[r].bases) = at[r].layer - 1
       /\ Len(draft[r].predictors) = at[r].layer - 1
  /\ at[r].phase \in {"record", "thresholds"} =>
       /\ at[r].layer \in Layers
       /\ Len(draft[r].bases) = at[r].layer
       /\ Len(draft[r].predictors) = at[r].layer - 1
  /\ at[r].phase \in {"idle", "forward", "backward", "reduce", "check"} =>
       draft[r] = NoDraft

Shape == \A r \in Rank : RankShape(r)

AllConsistent ==
  \A r \in Rank :
    /\ \A l \in 1..Len(predictor[r]) : Consistent(predictor[r][l])
    /\ \A l \in 1..Len(ckpt[r].predictor) : Consistent(ckpt[r].predictor[l])
    /\ \A l \in 1..Len(draft[r].predictors) : Consistent(draft[r].predictors[l])

IInv == TypeOK /\ Shape /\ AllConsistent

LEMMA LayersFacts == 1 \in Layers /\ NumLayers \in Layers /\ Layers \subseteq Nat
  BY BoundAssumption DEF Layers

LEMMA ProjectionType ==
  ASSUME TypeOK, Shape, NEW r \in Rank
  PROVE  Projection(r) \in [Layers -> Rank \cup {NoBasis}]
<1> SUFFICES ASSUME NEW l \in Layers, Calibrated(r) PROVE bases[r][l] \in Rank
  BY DEF Projection
<1>1. bases[r] \in Seq(Rank) /\ Len(bases[r]) = NumLayers
  BY BoundAssumption DEF TypeOK, PerLayer, Calibrated
<1>2. QED BY <1>1 DEF Layers

LEMMA InitInductive == Init => IInv
<1> SUFFICES ASSUME Init PROVE IInv
  OBVIOUS
<1> USE DEF Init, NewController, NewRecords, NoDraft
<1>1. TypeOK
  BY BoundAssumption DEF TypeOK, PerLayer, Dict, Phases, Blocked
<1>2. Shape
  BY DEF Shape, RankShape
<1>3. AllConsistent
  BY DEF AllConsistent
<1>4. QED BY <1>1, <1>2, <1>3 DEF IInv

-----------------------------------------------------------------------------
(* Each action preserves it.                                               *)

LEMMA StartInductive ==
  ASSUME IInv, NEW r \in Rank, Unobserved(r) \/ PrepassError(r) \/ Monitor(r)
  PROVE  IInv'
<1> USE DEF IInv, CanStart, CountUpdate
<1>1. TypeOK'
  <2>1. CASE Unobserved(r)
    BY <2>1 DEF Unobserved, TypeOK, Phases, controller, training, ghosts
  <2>2. CASE PrepassError(r)
    BY <2>2 DEF PrepassError, TypeOK, Phases, controller, training, ghosts
  <2>3. CASE Monitor(r)
    BY <2>3 DEF Monitor, TypeOK, Phases, Blocked, controller, training, ghosts
  <2>4. QED BY <2>1, <2>2, <2>3
<1>2. Shape'
  <2>1. CASE Unobserved(r)
    BY <2>1 DEF Unobserved, TypeOK, Shape, RankShape, controller, training, ghosts
  <2>2. CASE PrepassError(r)
    BY <2>2 DEF PrepassError, TypeOK, Shape, RankShape, controller, training, ghosts
  <2>3. CASE Monitor(r)
    BY <2>3 DEF Monitor, TypeOK, Shape, RankShape, controller, training, ghosts
  <2>4. QED BY <2>1, <2>2, <2>3
<1>3. AllConsistent'
  BY DEF AllConsistent, Unobserved, PrepassError, Monitor, controller, training, ghosts
<1>4. QED BY <1>1, <1>2, <1>3

LEMMA WarmUpInductive ==
  ASSUME IInv, NEW r \in Rank, WarmUp(r)
  PROVE  IInv'
<1> USE DEF IInv, CanStart, CountUpdate
<1> DEFINE Accumulated(shift, l) == \A k \in 1..l : shift[k].finite
           Goto(shift) == IF ~Accumulated(shift, NumLayers) THEN Failed
                          ELSE IF step[r] + 1 = warmup_steps THEN Place("moments", 1, 0)
                          ELSE Train
<1>1. PICK shift \in [Layers -> Shifts] :
        /\ moments' = [moments EXCEPT ![r] = [l \in Layers |->
             IF Accumulated(shift, l) THEN moments[r][l] + shift[l].tokens ELSE moments[r][l]]]
        /\ records' = [records EXCEPT ![r] = [l \in Layers |->
             IF Accumulated(shift, l) THEN Keep(records[r][l], shift[l], step[r] + 1)
             ELSE records[r][l]]]
        /\ at' = [at EXCEPT ![r] = Goto(shift)]
  BY DEF WarmUp
<1>2. moments'[r] \in [Layers -> Nat] /\ records'[r] \in [Layers -> Seq(Energies)]
  <2>1. \A l \in Layers : shift[l] \in Energies
    BY BoundAssumption
  <2>2. ASSUME NEW l \in Layers PROVE Keep(records[r][l], shift[l], step[r] + 1) \in Seq(Energies)
    BY <2>1 DEF Keep, TypeOK
  <2>3. \A l \in Layers : shift[l].tokens \in Nat /\ moments[r][l] \in Nat
    BY <2>1 DEF TypeOK, Energies
  <2> HIDE DEF Accumulated
  <2>4. moments'[r] \in [Layers -> Nat]
    BY <1>1, <2>3 DEF TypeOK
  <2>5. records'[r] \in [Layers -> Seq(Energies)]
    BY <1>1, <2>2 DEF TypeOK
  <2>6. QED BY <2>4, <2>5
<1>3. TypeOK'
  BY <1>1, <1>2, SMTT(20) DEF WarmUp, TypeOK, Phases, Blocked, training, ghosts
<1>4. Shape'
  <2>1. at[r].phase = "idle" /\ draft[r] = NoDraft
    BY DEF WarmUp, Shape, RankShape
  <2>2. at'[r] \in {Failed, Train, Place("moments", 1, 0)}
    BY <1>1 DEF TypeOK
  <2>3. at' = [at EXCEPT ![r] = at'[r]]
    BY <1>1 DEF TypeOK
  <2>4. UNCHANGED <<predictor, bases, ckpt, draft>>
    BY DEF WarmUp
  <2>5. RankShape(r)'
    <3>1. at'[r] = at[r]' /\ draft'[r] = NoDraft
      BY <2>1, <2>4
    <3>2. CASE at'[r] = Place("moments", 1, 0)
      BY <2>4, <3>1, <3>2, LayersFacts DEF Shape, RankShape, NoDraft
    <3>3. CASE at'[r] \in {Failed, Train}
      BY <2>4, <3>1, <3>3 DEF Shape, RankShape
    <3>4. QED BY <2>2, <3>2, <3>3
  <2>6. ASSUME NEW q \in Rank, q # r PROVE RankShape(q)'
    BY <2>3, <2>4, <2>6 DEF Shape, RankShape, TypeOK
  <2>7. QED BY <2>5, <2>6 DEF Shape
<1>5. AllConsistent'
  BY DEF AllConsistent, WarmUp, training, ghosts
<1>6. QED BY <1>3, <1>4, <1>5

LEMMA CheckInductive ==
  ASSUME IInv, NEW l \in Layers, CheckLayer(l)
  PROVE  IInv'
<1> USE DEF IInv
<1>0. PICK shift \in [Rank -> Shifts] : \E psi \in Observation(Pool(shift)) :
        /\ predictor' = [r \in Rank |-> [predictor[r] EXCEPT ![l] = UpdatePredictor(@, psi)]]
        /\ window' = [window EXCEPT ![l] =
                        Promise!Recent(@, Verdict(predictor'[Root][l], psi))]
  BY DEF CheckLayer
<1>1. PICK psi \in Observation(Pool(shift)) :
        /\ predictor' = [r \in Rank |-> [predictor[r] EXCEPT ![l] = UpdatePredictor(@, psi)]]
        /\ window' = [window EXCEPT ![l] =
                        Promise!Recent(@, Verdict(predictor'[Root][l], psi))]
  BY <1>0
<1>2. psi \in (0..Scale) \cup {Invalid}
  BY <1>1, ObservationType
<1>3. \A r \in Rank : \A k \in 1..Len(predictor[r]) : UpdatePredictor(predictor[r][k], psi) \in Predictor
  BY <1>2, UpdateType, SMTT(20) DEF TypeOK, PerLayer
<1>4. \A r \in Rank : /\ predictor'[r] \in PerLayer(Predictor)
                       /\ Len(predictor'[r]) = Len(predictor[r])
  <2> SUFFICES ASSUME NEW r \in Rank
               PROVE  /\ predictor'[r] \in PerLayer(Predictor)
                      /\ Len(predictor'[r]) = Len(predictor[r])
    OBVIOUS
  <2>1. predictor'[r] = [predictor[r] EXCEPT ![l] = UpdatePredictor(predictor[r][l], psi)]
    BY <1>1
  <2>2. predictor[r] \in Seq(Predictor)
    BY DEF TypeOK, PerLayer
  <2>3. predictor'[r] \in Seq(Predictor) /\ Len(predictor'[r]) = Len(predictor[r])
    <3> DEFINE v == UpdatePredictor(predictor[r][l], psi)
    <3>1. l \in 1..Len(predictor[r]) => v \in Predictor
      BY <1>3
    <3> HIDE DEF v
    <3>2. predictor'[r] = [predictor[r] EXCEPT ![l] = v]
      BY <2>1 DEF v
    <3>3. DOMAIN predictor'[r] = 1..Len(predictor[r]) /\ Len(predictor[r]) \in Nat
      BY <2>2, <3>2
    <3>4. \A i \in 1..Len(predictor[r]) : predictor'[r][i] \in Predictor
      BY <2>2, <3>1, <3>2
    <3>5. predictor'[r] \in [1..Len(predictor[r]) -> Predictor]
      BY <2>2, <3>2, <3>3, <3>4
    <3>6. QED BY <3>3, <3>5
  <2>4. QED BY <2>3 DEF TypeOK, PerLayer
<1>5. window' \in [Layers -> Seq(Promise!Verdicts)]
  <2>1. Verdict(predictor'[Root][l], psi) \in Promise!Verdicts
    BY DEF Verdict, Promise!Verdicts
  <2>2. \A w \in Seq(Promise!Verdicts), v \in Promise!Verdicts :
          Promise!Recent(w, v) \in Seq(Promise!Verdicts)
    <3> SUFFICES ASSUME NEW w \in Seq(Promise!Verdicts), NEW v \in Promise!Verdicts
                 PROVE  Promise!Recent(w, v) \in Seq(Promise!Verdicts)
      OBVIOUS
    <3>1. CASE Len(w) < persistence
      BY <3>1 DEF Promise!Recent
    <3>2. CASE ~(Len(w) < persistence)
      <4>1. w # <<>>
        BY <3>2, ConfigAssumption
      <4>2. QED BY <3>2, <4>1 DEF Promise!Recent
    <3>3. QED BY <3>1, <3>2
  <2>3. QED BY <1>1, <2>1, <2>2 DEF TypeOK
<1>6. TypeOK'
  BY <1>1, <1>4, <1>5 DEF CheckLayer, TypeOK, Phases, Blocked, training, Layers
<1>7. Shape'
  BY <1>4, LayersFacts DEF CheckLayer, AllAt, Shape, RankShape, training
<1>8. AllConsistent'
  <2>1. ASSUME NEW r \in Rank, NEW k \in 1..Len(predictor'[r])
        PROVE  Consistent(predictor'[r][k])
    <3>1. k \in 1..Len(predictor[r]) /\ predictor[r][k] \in Predictor /\ Consistent(predictor[r][k])
      BY <1>4, <2>1, SMTT(20) DEF AllConsistent, TypeOK, PerLayer
    <3>2. predictor'[r][k] \in {predictor[r][k], UpdatePredictor(predictor[r][k], psi)}
      BY <1>1, <3>1 DEF TypeOK, PerLayer
    <3>3. QED BY <1>2, <3>1, <3>2, UpdateConsistent
  <2>2. UNCHANGED <<ckpt, draft>>
    BY DEF CheckLayer
  <2>3. QED BY <2>1, <2>2 DEF AllConsistent
<1>9. QED BY <1>6, <1>7, <1>8

LEMMA CalibrationStepInductive ==
  ASSUME IInv, NEW l \in Layers,
         PoolMoments(l) \/ ShareBasis(l) \/ \E i \in 1..warmup_steps : PoolRecord(l, i)
  PROVE  IInv'
<1> USE DEF IInv
<1>1. CASE PoolMoments(l)
  <2>1. TypeOK'
    BY <1>1, LayersFacts DEF PoolMoments, TypeOK, Phases, Blocked, controller, training, ghosts
  <2>2. Shape'
    BY <1>1, LayersFacts DEF PoolMoments, AllAt, Shape, RankShape, controller, training
  <2>3. AllConsistent'
    BY <1>1 DEF PoolMoments, AllConsistent, controller
  <2>4. QED BY <2>1, <2>2, <2>3
<1>2. CASE ShareBasis(l)
  <2>0. \A r \in Rank : /\ draft'[r] \in [bases : Seq(Rank), predictors : Seq(Predictor), values : Seq(Nat)]
                         /\ Len(draft'[r].bases) = Len(draft[r].bases) + 1
                         /\ draft'[r].predictors = draft[r].predictors
    <3> SUFFICES ASSUME NEW r \in Rank
                 PROVE  /\ draft'[r] \in [bases : Seq(Rank), predictors : Seq(Predictor), values : Seq(Nat)]
                        /\ Len(draft'[r].bases) = Len(draft[r].bases) + 1
                        /\ draft'[r].predictors = draft[r].predictors
      OBVIOUS
    <3>1. draft'[r] = [draft[r] EXCEPT !.bases = Append(draft[r].bases, Root), !.values = <<>>]
      BY <1>2 DEF ShareBasis, SharedBasis
    <3>2. draft[r] \in [bases : Seq(Rank), predictors : Seq(Predictor), values : Seq(Nat)]
      BY DEF TypeOK
    <3>3. Append(draft[r].bases, Root) \in Seq(Rank)
          /\ Len(Append(draft[r].bases, Root)) = Len(draft[r].bases) + 1
      BY <3>2, RankAssumption
    <3> DEFINE b == Append(draft[r].bases, Root)
    <3> HIDE DEF b
    <3>4. draft'[r] = [draft[r] EXCEPT !.bases = b, !.values = <<>>] /\ b \in Seq(Rank)
          /\ Len(b) = Len(draft[r].bases) + 1
      BY <3>1, <3>3 DEF b
    <3>5. <<>> \in Seq(Nat)
      OBVIOUS
    <3>6. draft'[r].bases = b /\ draft'[r].predictors = draft[r].predictors /\ draft'[r].values = <<>>
      BY <3>2, <3>4
    <3>7. draft'[r] \in [bases : Seq(Rank), predictors : Seq(Predictor), values : Seq(Nat)]
      BY <3>2, <3>4, <3>5
    <3>8. QED BY <3>4, <3>6, <3>7
  <2>1. TypeOK'
    <3>1. draft' \in [Rank -> [bases : Seq(Rank), predictors : Seq(Predictor), values : Seq(Nat)]]
      BY <1>2, <2>0 DEF ShareBasis
    <3>2. at' \in [Rank -> [phase : Phases, layer : Nat, idx : Nat]]
      BY <1>2, LayersFacts DEF ShareBasis, Phases, Blocked
    <3>3. QED BY <1>2, <3>1, <3>2 DEF ShareBasis, TypeOK, controller, training, ghosts
  <2>2. Shape'
    <3> SUFFICES ASSUME NEW r \in Rank PROVE RankShape(r)'
      BY DEF Shape
    <3>1. at[r] = Place("basis", l, 0) /\ at'[r] \in {Place("thresholds", l, 0), Place("record", l, 1)}
      BY <1>2 DEF ShareBasis, AllAt
    <3>2. Len(draft'[r].bases) = l /\ Len(draft'[r].predictors) = l - 1
      <4>1. at[r].phase = "basis" /\ at[r].layer = l
        BY <3>1
      <4>2. Len(draft[r].bases) = l - 1 /\ Len(draft[r].predictors) = l - 1
        BY <4>1 DEF Shape, RankShape
      <4>3. QED BY <2>0, <4>2, LayersFacts, SMTT(20)
    <3>3. UNCHANGED <<predictor, bases, ckpt>>
      BY <1>2 DEF ShareBasis, controller
    <3>4. QED BY <3>1, <3>2, <3>3 DEF Shape, RankShape
  <2>3. AllConsistent'
    <3>1. ASSUME NEW r \in Rank PROVE draft'[r].predictors = draft[r].predictors
      BY <2>0
    <3>2. UNCHANGED <<predictor, ckpt>>
      BY <1>2 DEF ShareBasis, controller
    <3>3. QED BY <3>1, <3>2 DEF AllConsistent
  <2>4. QED BY <2>1, <2>2, <2>3
<1>3. ASSUME NEW i \in 1..warmup_steps, PoolRecord(l, i)
      PROVE  IInv'
  <2>1. PICK psi \in Observation(Pool([r \in Rank |-> records[r][l][i]])) :
          draft' = [r \in Rank |-> [draft[r] EXCEPT
                      !.values = IF psi = Invalid THEN @ ELSE Append(@, psi)]]
    BY <1>3 DEF PoolRecord
  <2>2. psi \in (0..Scale) \cup {Invalid}
    BY <2>1, ObservationType
  <2>3. \A r \in Rank : /\ draft'[r] \in [bases : Seq(Rank), predictors : Seq(Predictor), values : Seq(Nat)]
                         /\ draft'[r].bases = draft[r].bases
                         /\ draft'[r].predictors = draft[r].predictors
    <3> SUFFICES ASSUME NEW r \in Rank
                 PROVE  /\ draft'[r] \in [bases : Seq(Rank), predictors : Seq(Predictor), values : Seq(Nat)]
                        /\ draft'[r].bases = draft[r].bases
                        /\ draft'[r].predictors = draft[r].predictors
      OBVIOUS
    <3> DEFINE values == IF psi = Invalid THEN draft[r].values ELSE Append(draft[r].values, psi)
    <3>1. draft'[r] = [draft[r] EXCEPT !.values = values]
      BY <2>1
    <3>2. draft[r] \in [bases : Seq(Rank), predictors : Seq(Predictor), values : Seq(Nat)]
      BY DEF TypeOK
    <3>3. values \in Seq(Nat)
      BY <2>2, <3>2, BoundAssumption
    <3> HIDE DEF values
    <3>4. QED BY <3>1, <3>2, <3>3
  <2>4. TypeOK'
    <3>1. draft' \in [Rank -> [bases : Seq(Rank), predictors : Seq(Predictor), values : Seq(Nat)]]
      BY <2>1, <2>3
    <3>2. at' \in [Rank -> [phase : Phases, layer : Nat, idx : Nat]]
      BY <1>3, LayersFacts, ConfigAssumption DEF PoolRecord, Phases, Blocked
    <3>3. QED BY <1>3, <3>1, <3>2 DEF PoolRecord, TypeOK, controller, training, ghosts
  <2>5. Shape'
    <3> SUFFICES ASSUME NEW r \in Rank PROVE RankShape(r)'
      BY DEF Shape
    <3>1. at[r] = Place("record", l, i) /\ at'[r] \in {Place("thresholds", l, 0), Place("record", l, i + 1)}
      BY <1>3 DEF PoolRecord, AllAt
    <3>2. UNCHANGED <<predictor, bases, ckpt>>
      BY <1>3 DEF PoolRecord, controller
    <3>3. QED BY <2>3, <3>1, <3>2, SMTT(20) DEF Shape, RankShape
  <2>6. AllConsistent'
    BY <1>3, <2>3 DEF PoolRecord, AllConsistent, controller
  <2>7. QED BY <2>4, <2>5, <2>6
<1>4. QED BY <1>1, <1>2, <1>3

\* Until the last layer a rank goes on with the bases it has; then with the draft's.
LEMMA InstalledBases ==
  ASSUME TypeOK, NEW r \in Rank, NEW l \in Layers
  PROVE  /\ l < NumLayers => [bases EXCEPT ![r] = Installed(r, l)] = bases
         /\ ~(l < NumLayers) => Installed(r, l) = draft[r].bases
<1>1. CASE l < NumLayers
  <2>1. Installed(r, l) = bases[r] /\ bases = [q \in Rank |-> bases[q]]
    BY <1>1, LayersFacts, BoundAssumption DEF Installed, TypeOK
  <2>2. QED BY <1>1, <2>1
<1>2. CASE ~(l < NumLayers)
  BY <1>2, BoundAssumption DEF Installed, Layers
<1>3. QED BY <1>1, <1>2

LEMMA ThresholdsInductive ==
  ASSUME IInv, NEW r \in Rank, NEW l \in Layers, Thresholds(r, l)
  PROVE  IInv'
<1> USE DEF IInv
<1> DEFINE Drafts == [bases : Seq(Rank), predictors : Seq(Predictor), values : Seq(Nat)]
<1>1. at[r] = Place("thresholds", l, 0) /\ draft[r] \in Drafts
      /\ Len(draft[r].bases) = l /\ Len(draft[r].predictors) = l - 1
  BY SMTT(20) DEF Thresholds, TypeOK, Shape, RankShape
<1>2. CASE Calibrations(draft[r].values) = {}
  <2>1. at' = [at EXCEPT ![r] = Failed] /\ UNCHANGED <<controller, draft>>
    BY <1>2 DEF Thresholds
  <2>2. UNCHANGED <<job, training, ckpt, crashes, ghosts>>
    BY DEF Thresholds
  <2>3. TypeOK'
    BY <2>1, <2>2 DEF TypeOK, Phases, controller, training, ghosts
  <2>4. Shape' /\ AllConsistent'
    BY <2>1, <2>2 DEF TypeOK, Shape, RankShape, AllConsistent, controller
  <2>5. QED BY <2>3, <2>4
<1>3. CASE Calibrations(draft[r].values) # {}
  <2> DEFINE fresh == CHOOSE p \in Calibrations(draft[r].values) : TRUE
             predictors == Append(draft[r].predictors, fresh)
  <2>1. fresh \in Predictor /\ Consistent(fresh)
    <3>1. fresh \in Calibrations(draft[r].values)
      BY <1>3
    <3> HIDE DEF fresh
    <3>2. /\ fresh \in Predictor /\ fresh.count = 0 /\ fresh.active = FALSE
          /\ 0 < fresh.release /\ fresh.release < fresh.warning /\ fresh.warning < Scale
      BY <1>1, <3>1, CalibrationType
    <3>3. QED BY <3>2, ConfigAssumption DEF Consistent
  <2> HIDE DEF fresh
  <2>2. /\ predictors \in Seq(Predictor) /\ Len(predictors) = l
        /\ \A k \in 1..Len(predictors) : Consistent(predictors[k])
    BY <1>1, <2>1, LayersFacts DEF AllConsistent
  <2>3. CASE l < NumLayers
    <3>1. /\ draft' = [draft EXCEPT ![r].predictors = predictors]
          /\ at' = [at EXCEPT ![r] = Place("moments", l + 1, 0)]
          /\ UNCHANGED <<job, controller, training, ckpt, crashes, ghosts>>
      BY <1>3, <2>3, InstalledBases DEF Thresholds, controller, fresh, IInv
    <3> HIDE DEF predictors
    <3>2. draft'[r] \in Drafts /\ draft'[r].bases = draft[r].bases /\ draft'[r].predictors = predictors
      BY <1>1, <2>2, <3>1 DEF TypeOK
    <3>3. l + 1 \in Layers
      BY <2>3, BoundAssumption DEF Layers
    <3>4. TypeOK'
      <4>1. draft' \in [Rank -> Drafts]
        BY <3>1, <3>2 DEF TypeOK
      <4>2. at' \in [Rank -> [phase : Phases, layer : Nat, idx : Nat]]
        BY <3>1, <3>3, LayersFacts DEF TypeOK, Phases, Blocked
      <4>3. QED BY <3>1, <4>1, <4>2 DEF TypeOK, controller, training, ghosts
    <3>5. Shape'
      <4>1. RankShape(r)'
        <5>1. at'[r] = Place("moments", l + 1, 0) /\ UNCHANGED <<predictor, bases, ckpt>>
          BY <3>1 DEF TypeOK, controller
        <5>2. l \in Nat /\ Len(draft'[r].bases) = l /\ Len(draft'[r].predictors) = l
          BY <1>1, <2>2, <3>2, LayersFacts
        <5>3. at'[r].phase = "moments" /\ at'[r].layer = l + 1
          BY <5>1
        <5>4. Len(predictor'[r]) = Len(bases'[r]) /\ Len(ckpt'[r].predictor) = Len(ckpt'[r].bases)
          BY <5>1 DEF Shape, RankShape
        <5> HIDE DEF Drafts
        <5>5. QED BY <3>3, <5>2, <5>3, <5>4 DEF RankShape
      <4>2. ASSUME NEW q \in Rank, q # r PROVE RankShape(q)'
        BY <3>1, <4>2 DEF TypeOK, Shape, RankShape, controller
      <4>3. QED BY <4>1, <4>2 DEF Shape
    <3>6. AllConsistent'
      BY <2>2, <3>1, <3>2 DEF TypeOK, AllConsistent, controller
    <3>7. QED BY <3>4, <3>5, <3>6
  <2>4. CASE ~(l < NumLayers)
    <3>1. l = NumLayers
      BY <2>4, BoundAssumption DEF Layers
    <3>2. /\ bases' = [bases EXCEPT ![r] = draft[r].bases]
          /\ predictor' = [predictor EXCEPT ![r] = predictors]
          /\ records' = [records EXCEPT ![r] = [k \in Layers |-> <<>>]]
          /\ moments' = [moments EXCEPT ![r] = [k \in Layers |-> 0]]
          /\ draft' = [draft EXCEPT ![r] = NoDraft]
          /\ at' = [at EXCEPT ![r] = Train]
          /\ UNCHANGED <<job, step, training, ckpt, crashes, ghosts>>
      BY <1>3, <2>4, InstalledBases DEF Thresholds, fresh
    <3> HIDE DEF predictors
    <3>3. TypeOK'
      <4>1. bases' \in [Rank -> PerLayer(Rank)] /\ predictor' \in [Rank -> PerLayer(Predictor)]
        BY <1>1, <2>2, <3>1, <3>2 DEF TypeOK, PerLayer
      <4>2. NoDraft \in Drafts
        BY DEF NoDraft
      <4>3. draft' \in [Rank -> Drafts]
        BY <3>2, <4>2 DEF TypeOK
      <4>4. at' \in [Rank -> [phase : Phases, layer : Nat, idx : Nat]]
        BY <3>2 DEF TypeOK, Phases
      <4>5. records' \in [Rank -> [Layers -> Seq(Energies)]] /\ moments' \in [Rank -> [Layers -> Nat]]
        BY <3>2 DEF TypeOK
      <4>6. QED BY <3>2, <4>1, <4>3, <4>4, <4>5 DEF TypeOK, training, ghosts
    <3>4. Shape'
      <4>1. RankShape(r)'
        <5>1. at'[r] = Train /\ draft'[r] = NoDraft /\ ckpt' = ckpt
              /\ bases'[r] = draft[r].bases /\ predictor'[r] = predictors
          BY <3>2 DEF TypeOK
        <5>2. Len(predictor'[r]) = Len(bases'[r])
          BY <1>1, <2>2, <5>1
        <5>3. QED BY <5>1, <5>2 DEF Shape, RankShape
      <4>2. ASSUME NEW q \in Rank, q # r PROVE RankShape(q)'
        BY <3>2, <4>2 DEF TypeOK, Shape, RankShape
      <4>3. QED BY <4>1, <4>2 DEF Shape
    <3>5. AllConsistent'
      <4>1. predictor'[r] = predictors /\ draft'[r].predictors = <<>> /\ ckpt' = ckpt
        BY <3>2 DEF TypeOK, NoDraft
      <4>2. \A q \in Rank : q # r => predictor'[q] = predictor[q] /\ draft'[q] = draft[q]
        BY <3>2 DEF TypeOK
      <4>3. QED BY <2>2, <4>1, <4>2 DEF AllConsistent
    <3>6. QED BY <3>3, <3>4, <3>5
  <2>5. QED BY <2>3, <2>4
<1>4. QED BY <1>2, <1>3

LEMMA TrainInductive ==
  ASSUME IInv, NEW r \in Rank, Forward(r) \/ Backward(r)
  PROVE  IInv'
<1> USE DEF IInv
<1>1. CASE Forward(r)
  <2>1. TypeOK'
    <3>1. at' \in [Rank -> [phase : Phases, layer : Nat, idx : Nat]]
      <4>0. at[r] \in [phase : Phases, layer : Nat, idx : Nat] /\ "backward" \in Phases
        BY DEF TypeOK, Phases
      <4>1. [at[r] EXCEPT !.phase = "backward"] \in [phase : Phases, layer : Nat, idx : Nat]
        BY <4>0
      <4>2. at' = [at EXCEPT ![r] = [at[r] EXCEPT !.phase = "backward"]]
        BY <1>1 DEF Forward
      <4>3. QED BY <4>1, <4>2 DEF TypeOK
    <3>2. {Projection(r)} \in SUBSET [Layers -> Rank \cup {NoBasis}]
      BY ProjectionType
    <3>3. hooked' \in [Rank -> SUBSET [Layers -> Rank \cup {NoBasis}]]
      BY <1>1, <3>2 DEF Forward, TypeOK
    <3>4. QED BY <1>1, <3>1, <3>3 DEF Forward, TypeOK, controller, ghosts
  <2>2. Shape' /\ AllConsistent'
    BY <1>1, SMTT(20) DEF Forward, TypeOK, Shape, RankShape, AllConsistent, controller
  <2>3. QED BY <2>1, <2>2
<1>2. CASE Backward(r)
  <2>1. at[r].idx \in Nat /\ at[r].idx + 1 \in Nat
    BY DEF TypeOK
  <2>2. AfterMicroBatch(at[r].idx) \in [phase : {"reduce", "forward"}, layer : Nat, idx : Nat]
    BY <2>1 DEF AfterMicroBatch
  <2>3. TypeOK'
    <3>1. at' = [at EXCEPT ![r] = AfterMicroBatch(at[r].idx)]
          /\ used' = [used EXCEPT ![r] = @ \cup hooked[r] \cup {Projection(r)}]
          /\ hooked' = [hooked EXCEPT ![r] = {}]
      BY <1>2 DEF Backward
    <3>2. at' \in [Rank -> [phase : Phases, layer : Nat, idx : Nat]]
      BY <2>2, <3>1 DEF TypeOK, Phases
    <3>3. used'[r] \in SUBSET [Layers -> Rank \cup {NoBasis}]
      BY <3>1, ProjectionType DEF TypeOK
    <3>4. used' \in [Rank -> SUBSET [Layers -> Rank \cup {NoBasis}]]
          /\ hooked' \in [Rank -> SUBSET [Layers -> Rank \cup {NoBasis}]]
      BY <3>1, <3>3 DEF TypeOK
    <3>5. QED BY <1>2, <3>2, <3>4 DEF Backward, TypeOK, controller, ghosts
  <2>4. Shape' /\ AllConsistent'
    BY <1>2, <2>2 DEF Backward, TypeOK, Shape, RankShape, AllConsistent, controller
  <2>5. QED BY <2>3, <2>4
<1>3. QED BY <1>1, <1>2

LEMMA JobInductive ==
  ASSUME IInv, OptimizerStep \/ Save \/ Abort \/ Crash \/ Restart \/ Finished
  PROVE  IInv'
<1> USE DEF IInv
<1>1. CASE OptimizerStep
  <2>1. TypeOK'
    BY <1>1 DEF OptimizerStep, TypeOK, Phases, controller, ghosts
  <2>2. Shape' /\ AllConsistent'
    BY <1>1 DEF OptimizerStep, AllAt, Shape, RankShape, AllConsistent, controller
  <2>3. QED BY <2>1, <2>2
<1>2. CASE Save
  <2>1. TypeOK'
    BY <1>2 DEF Save, StateDict, TypeOK, Dict, controller, training
  <2>2. Shape' /\ AllConsistent'
    BY <1>2 DEF Save, StateDict, Shape, RankShape, AllConsistent, controller
  <2>3. QED BY <2>1, <2>2
<1>3. CASE Abort
  BY <1>3 DEF Abort, TypeOK, Shape, RankShape, AllConsistent, controller, training, ghosts
<1>4. CASE Crash
  BY <1>4, BoundAssumption DEF Crash, TypeOK, Shape, RankShape, AllConsistent, controller, training, ghosts
<1>5. CASE Restart
  <2>1. TypeOK'
    BY <1>5, SMTT(20) DEF Restart, TypeOK, Dict, Phases, NoDraft
  <2>2. Shape' /\ AllConsistent'
    BY <1>5 DEF Restart, Shape, RankShape, AllConsistent, NoDraft
  <2>3. QED BY <2>1, <2>2
<1>6. CASE Finished
  BY <1>6 DEF Finished, vars, TypeOK, Shape, RankShape, AllConsistent, controller, training, ghosts
<1>7. QED BY <1>1, <1>2, <1>3, <1>4, <1>5, <1>6

LEMMA StepInductive == IInv /\ [Next]_vars => IInv'
<1> SUFFICES ASSUME IInv, [Next]_vars PROVE IInv'
  OBVIOUS
<1>1. ASSUME NEW r \in Rank, RankStep(r) PROVE IInv'
  BY <1>1, StartInductive, WarmUpInductive, TrainInductive, ThresholdsInductive DEF RankStep, StartUpdate
<1>2. ASSUME NEW l \in Layers, Collective(l) PROVE IInv'
  BY <1>2, CheckInductive, CalibrationStepInductive DEF Collective
<1>3. CASE UNCHANGED vars
  BY <1>3 DEF vars, IInv, TypeOK, Shape, RankShape, AllConsistent, controller, training, ghosts
<1>4. QED BY <1>1, <1>2, <1>3, JobInductive DEF Next

\* The inductive invariant holds in every reachable state.
THEOREM Inductive == Spec => []IInv
  BY InitInductive, StepInductive, PTL DEF Spec

\* Every variable keeps its type, whatever the ranks, layers, shifts and bounds.
THEOREM TypeCorrect == Spec => []TypeOK
<1>1. IInv => TypeOK
  BY DEF IInv
<1>2. QED BY <1>1, Inductive, PTL

\* On every rank and layer the counter and the flag stay consistent with the EMA
\* and the thresholds stay separated, for every EMA coefficient, persistence and
\* pair of MAD factors that the configuration accepts.
THEOREM FlagCorrect == Spec => []FlagConsistent
<1>1. IInv => FlagConsistent
  BY DEF IInv, AllConsistent, FlagConsistent
<1>2. QED BY <1>1, Inductive, PTL

-----------------------------------------------------------------------------
(* The ranks in lockstep: between two collectives they are in the same     *)
(* segment of the same update, with the same calibration.                  *)

\* The monitored updates, and how many records a rank keeps between two updates.
Monitored(n) == n > warmup_steps /\ Checked(n)
KeptAt(n) == IF n < warmup_steps THEN n \div monitor_interval ELSE 0

Keeps(r, k) == \A l \in Layers : Len(records[r][l]) = k
Holds(r, n, b, p) == step[r] = n /\ bases[r] = b /\ predictor[r] = p
Training(r) == at[r].phase \in {"forward", "backward"} \/ at[r] = Place("reduce", 0, 0)

\* The calibration b, p after n updates.
Settled(n, b, p) == IF n < warmup_steps THEN b = <<>> /\ p = <<>>
                    ELSE Len(b) = NumLayers /\ Len(p) = NumLayers

Dropped(r, b, p) == at[r] = Failed /\ bases[r] = b /\ predictor[r] = p

\* Before update n, and in it until the first collective.
Ready(r, n, b, p) == at[r] = Idle /\ Holds(r, n - 1, b, p) /\ Keeps(r, KeptAt(n - 1))

Entered(r, n, b, p) ==
  /\ Holds(r, n, b, p)
  /\ \/ at[r] = Place("moments", 1, 0) /\ n = warmup_steps /\ draft[r] = NoDraft
        /\ Keeps(r, warmup_steps \div monitor_interval)
     \/ at[r] = Place("check", 1, 0) /\ Monitored(n) /\ Keeps(r, 0)
     \/ Training(r) /\ ~Monitored(n) /\ n # warmup_steps /\ Keeps(r, KeptAt(n))

\* The segments of an update.
Entering(n, b, p) ==
  /\ Settled(n - 1, b, p)
  /\ \A r \in Rank : Dropped(r, b, p) \/ Ready(r, n, b, p) \/ Entered(r, n, b, p)

Checking(n, b, p, l) ==
  /\ Monitored(n) /\ Settled(n, b, p)
  /\ \A r \in Rank : at[r] = Place("check", l, 0) /\ Holds(r, n, b, p) /\ Keeps(r, 0)

Updating(n, b, p) ==
  /\ Settled(n, b, p)
  /\ \A r \in Rank : Training(r) /\ Holds(r, n, b, p) /\ Keeps(r, KeptAt(n))

\* Calibration: a rank without a calibration of its own yet, with draft d.
Drafting(r, d) ==
  /\ draft[r] = d /\ Holds(r, warmup_steps, <<>>, <<>>)
  /\ Keeps(r, warmup_steps \div monitor_interval)

Pooling(q, d) ==
  /\ q.phase \in {"basis", "record"}
  /\ \A r \in Rank : at[r] = q /\ Drafting(r, d)

\* The predictors after the thresholds of one more layer.
Extended(d) == Append(d.predictors, CHOOSE p \in Calibrations(d.values) : TRUE)

DecidingAt(r, l, d) ==
  \/ Dropped(r, <<>>, <<>>)
  \/ at[r] = Place("thresholds", l, 0) /\ Drafting(r, d)
  \/ l < NumLayers /\ at[r] = Place("moments", l + 1, 0)
     /\ Drafting(r, [d EXCEPT !.predictors = Extended(d)])
  \/ l = NumLayers /\ Training(r) /\ Holds(r, warmup_steps, d.bases, Extended(d)) /\ Keeps(r, 0)

Deciding(l, d) == Len(d.bases) = l /\ \A r \in Rank : DecidingAt(r, l, d)

Updates == Nat \ {0}

InStep ==
  \/ \E n \in Updates : \E b, p : Entering(n, b, p)
  \/ \E n \in Updates, l \in Layers : \E b, p : Checking(n, b, p, l)
  \/ \E n \in Updates : \E b, p : Updating(n, b, p)
  \/ \E q, d : Pooling(q, d)
  \/ \E l \in Layers : \E d : Deciding(l, d)

Saved(n, b, p) ==
  /\ Settled(n, b, p)
  /\ \A r \in Rank : /\ ckpt[r].step = n /\ ckpt[r].bases = b /\ ckpt[r].predictor = p
                     /\ \A l \in Layers : Len(ckpt[r].records[l]) = KeptAt(n)

CkptAgrees == \E n \in Nat : \E b, p : Saved(n, b, p)

\* The projections of the update under way are those of the rank's predictors.
OwnProjection ==
  \A r \in Rank :
    /\ used[r] \subseteq (IF Training(r) THEN {Projection(r)} ELSE {})
    /\ hooked[r] \subseteq (IF at[r].phase = "backward" THEN {Projection(r)} ELSE {})

Lockstep == (job = "up" => InStep) /\ CkptAgrees /\ OwnProjection

LEMMA DivFacts ==
  ASSUME NEW m \in Nat \ {0}
  PROVE  /\ 0 \div m = 0
         /\ \A n \in Updates : n \div m = IF n % m = 0 THEN ((n - 1) \div m) + 1 ELSE (n - 1) \div m
  BY DEF Updates

LEMMA WarmUpFacts == warmup_steps \in Updates /\ monitor_interval \in Nat \ {0}
  BY ConfigAssumption DEF Updates

\* A rank that a step leaves alone stays in its segment.
Alone(r) ==
  /\ at'[r] = at[r] /\ step'[r] = step[r] /\ bases'[r] = bases[r]
  /\ predictor'[r] = predictor[r] /\ records'[r] = records[r] /\ draft'[r] = draft[r]

LEMMA AloneFacts ==
  ASSUME NEW r \in Rank, Alone(r)
  PROVE  /\ \A n, b, p : /\ Dropped(r, b, p) => Dropped(r, b, p)'
                         /\ Ready(r, n, b, p) => Ready(r, n, b, p)'
                         /\ Entered(r, n, b, p) => Entered(r, n, b, p)'
         /\ \A l, d : DecidingAt(r, l, d) => DecidingAt(r, l, d)'
<1> USE DEF Alone, Dropped, Ready, Entered, DecidingAt, Drafting, Holds, Keeps, Training
<1>1. ASSUME NEW n, NEW b, NEW p
      PROVE  /\ Dropped(r, b, p) => Dropped(r, b, p)'
             /\ Ready(r, n, b, p) => Ready(r, n, b, p)'
             /\ Entered(r, n, b, p) => Entered(r, n, b, p)'
  OBVIOUS
<1>2. ASSUME NEW l, NEW d PROVE DecidingAt(r, l, d) => DecidingAt(r, l, d)'
  OBVIOUS
<1>3. QED BY <1>1, <1>2

\* Which segment a rank's place tells of.
LEMMA Segments ==
  ASSUME InStep, NEW r \in Rank
  PROVE  /\ at[r] = Idle => \E n \in Updates : \E b, p : Entering(n, b, p) /\ Ready(r, n, b, p)
         /\ Training(r) => \/ \E n \in Updates : \E b, p : Entering(n, b, p) /\ Entered(r, n, b, p)
                           \/ \E n \in Updates : \E b, p : Updating(n, b, p)
                           \/ \E d : Deciding(NumLayers, d)
         /\ \A l : at[r] = Place("thresholds", l, 0) => \E d : Deciding(l, d) /\ Drafting(r, d)
         /\ at[r].phase \in {"basis", "record"} => \E d : Pooling(at[r], d)
<1>1. CASE \E n \in Updates : \E b, p : Entering(n, b, p)
  <2>1. PICK n \in Updates : \E b, p : Entering(n, b, p)
    BY <1>1
  <2>2. PICK b, p : Entering(n, b, p)
    BY <2>1
  <2>3. Dropped(r, b, p) \/ Ready(r, n, b, p) \/ Entered(r, n, b, p)
    BY <2>2 DEF Entering
  <2>4. CASE Dropped(r, b, p)
    BY <2>4 DEF Dropped, Training
  <2>5. CASE Ready(r, n, b, p)
    BY <2>2, <2>5 DEF Ready, Training
  <2>6. CASE Entered(r, n, b, p)
    BY <2>2, <2>6 DEF Entered, Training
  <2>7. QED BY <2>3, <2>4, <2>5, <2>6
<1>2. CASE \E n \in Updates, l \in Layers : \E b, p : Checking(n, b, p, l)
  <2>1. PICK l \in Layers : at[r] = Place("check", l, 0)
    BY <1>2 DEF Checking
  <2>2. QED BY <2>1 DEF Training
<1>3. CASE \E n \in Updates : \E b, p : Updating(n, b, p)
  BY <1>3 DEF Updating, Training
<1>4. CASE \E q, d : Pooling(q, d)
  BY <1>4 DEF Pooling, Training
<1>5. CASE \E l \in Layers : \E d : Deciding(l, d)
  <2>1. PICK l \in Layers : \E d : Deciding(l, d)
    BY <1>5
  <2>2. PICK d : Deciding(l, d)
    BY <2>1
  <2>3. DecidingAt(r, l, d)
    BY <2>2 DEF Deciding
  <2>4. QED BY <2>2, <2>3 DEF DecidingAt, Dropped, Training
<1>6. QED BY <1>1, <1>2, <1>3, <1>4, <1>5 DEF InStep

\* What an action of rank r alone has to show of r.
LEMMA OneEnters ==
  ASSUME NEW r \in Rank, \A q \in Rank : q # r => Alone(q),
         NEW n \in Updates, NEW b, NEW p, Entering(n, b, p),
         Dropped(r, b, p)' \/ Entered(r, n, b, p)'
  PROVE  InStep'
<1>1. ASSUME NEW q \in Rank
      PROVE  Dropped(q, b, p)' \/ Ready(q, n, b, p)' \/ Entered(q, n, b, p)'
  <2>1. Dropped(q, b, p) \/ Ready(q, n, b, p) \/ Entered(q, n, b, p)
    BY DEF Entering
  <2>2. QED BY <2>1, AloneFacts
<1>2. Entering(n, b, p)'
  BY <1>1 DEF Entering, Settled
<1>3. QED BY <1>2 DEF InStep

LEMMA OneDecides ==
  ASSUME NEW r \in Rank, \A q \in Rank : q # r => Alone(q),
         NEW l \in Layers, NEW d, Deciding(l, d), DecidingAt(r, l, d)'
  PROVE  InStep'
<1>1. ASSUME NEW q \in Rank PROVE DecidingAt(q, l, d)'
  BY AloneFacts DEF Deciding
<1>2. Deciding(l, d)'
  BY <1>1 DEF Deciding
<1>3. QED BY <1>2 DEF InStep

LEMMA StartInStep ==
  ASSUME IInv, InStep, NEW r \in Rank, Unobserved(r) \/ PrepassError(r) \/ Monitor(r)
  PROVE  InStep'
<1>1. at[r] = Idle
  BY DEF Unobserved, PrepassError, Monitor, CanStart
<1>2. PICK n \in Updates : \E b, p : Entering(n, b, p) /\ Ready(r, n, b, p)
  BY <1>1, Segments
<1>3. PICK b, p : Entering(n, b, p) /\ Ready(r, n, b, p)
  BY <1>2
<1>4. \A q \in Rank : q # r => Alone(q)
  BY DEF Unobserved, PrepassError, Monitor, CountUpdate, Alone, IInv, TypeOK, controller
<1>5. /\ step[r] + 1 = n /\ n - 1 \in Nat /\ bases[r] = b /\ predictor[r] = p
      /\ Keeps(r, KeptAt(n - 1)) /\ (n > warmup_steps => KeptAt(n - 1) = 0 /\ KeptAt(n) = 0)
      /\ (n > warmup_steps => b # <<>>)
  <2>1. step[r] = n - 1 /\ bases[r] = b /\ predictor[r] = p /\ Keeps(r, KeptAt(n - 1))
    BY <1>3 DEF Ready, Holds
  <2>2. n > warmup_steps => ~(n - 1 < warmup_steps) /\ ~(n < warmup_steps)
    BY WarmUpFacts DEF Updates
  <2>3. n > warmup_steps => Len(b) = NumLayers /\ NumLayers > 0
    BY <1>3, <2>2, BoundAssumption DEF Entering, Settled
  <2>4. QED BY <2>1, <2>2, <2>3 DEF KeptAt, Updates
<1>6. CASE PrepassError(r)
  <2>1. Dropped(r, b, p)'
    BY <1>5, <1>6 DEF PrepassError, Dropped, IInv, TypeOK, controller
  <2>2. QED BY <1>3, <1>4, <2>1, OneEnters
<1>7. CASE Unobserved(r)
  <2>1. n > warmup_steps /\ ~Checked(n)
    BY <1>5, <1>7, WarmUpFacts DEF Unobserved, NeedsObservation, Updates
  <2>2. at'[r] = Train /\ step'[r] = n /\ UNCHANGED <<bases, predictor, records>>
    BY <1>5, <1>7 DEF Unobserved, CountUpdate, IInv, TypeOK
  <2>3. Entered(r, n, b, p)'
    BY <1>5, <2>1, <2>2, WarmUpFacts DEF Entered, Holds, Training, Keeps, Monitored, Updates
  <2>4. QED BY <1>3, <1>4, <2>3, OneEnters
<1>8. CASE Monitor(r)
  <2>1. n > warmup_steps /\ Checked(n) /\ Calibrated(r)
    BY <1>5, <1>8 DEF Monitor, Calibrated
  <2>2. at'[r] = Place("check", 1, 0) /\ step'[r] = n /\ UNCHANGED <<bases, predictor, records>>
    BY <1>5, <1>8, <2>1 DEF Monitor, CountUpdate, IInv, TypeOK
  <2>3. Entered(r, n, b, p)'
    BY <1>5, <2>1, <2>2 DEF Entered, Holds, Keeps, Monitored
  <2>4. QED BY <1>3, <1>4, <2>3, OneEnters
<1>9. QED BY <1>6, <1>7, <1>8

LEMMA WarmUpInStep ==
  ASSUME IInv, InStep, NEW r \in Rank, WarmUp(r)
  PROVE  InStep'
<1> DEFINE Accumulated(shift, l) == \A k \in 1..l : shift[k].finite
<1>1. at[r] = Idle /\ step[r] + 1 <= warmup_steps
  BY DEF WarmUp, CanStart
<1>2. PICK n \in Updates : \E b, p : Entering(n, b, p) /\ Ready(r, n, b, p)
  BY <1>1, Segments
<1>3. PICK b, p : Entering(n, b, p) /\ Ready(r, n, b, p)
  BY <1>2
<1>4. \A q \in Rank : q # r => Alone(q)
  BY DEF WarmUp, CountUpdate, Alone, IInv, TypeOK
<1>5. PICK shift \in [Layers -> Shifts] :
        /\ records' = [records EXCEPT ![r] = [l \in Layers |->
             IF Accumulated(shift, l) THEN Keep(records[r][l], shift[l], step[r] + 1)
             ELSE records[r][l]]]
        /\ at' = [at EXCEPT ![r] =
             IF ~Accumulated(shift, NumLayers) THEN Failed
             ELSE IF step[r] + 1 = warmup_steps THEN Place("moments", 1, 0) ELSE Train]
  BY DEF WarmUp
<1>6. /\ n = step[r] + 1 /\ n - 1 \in Nat /\ n - 1 < warmup_steps /\ step'[r] = n
      /\ bases'[r] = b /\ predictor'[r] = p /\ draft'[r] = NoDraft
      /\ Keeps(r, (n - 1) \div monitor_interval)
  <2>1. step[r] = n - 1 /\ bases[r] = b /\ predictor[r] = p /\ Keeps(r, KeptAt(n - 1))
    BY <1>3 DEF Ready, Holds
  <2>2. n = step[r] + 1 /\ n - 1 \in Nat /\ n - 1 < warmup_steps
    BY <1>1, <2>1, WarmUpFacts DEF Updates
  <2>3. step'[r] = n /\ UNCHANGED <<bases, predictor, draft>>
    BY <2>2 DEF WarmUp, CountUpdate, IInv, TypeOK
  <2>4. draft[r] = NoDraft
    BY <1>1 DEF IInv, Shape, RankShape
  <2>5. QED BY <2>1, <2>2, <2>3, <2>4 DEF KeptAt
<1>7. CASE ~Accumulated(shift, NumLayers)
  <2>1. Dropped(r, b, p)'
    BY <1>5, <1>6, <1>7 DEF Dropped, IInv, TypeOK
  <2>2. QED BY <1>3, <1>4, <2>1, OneEnters
<1>8. CASE Accumulated(shift, NumLayers)
  <2>1. ASSUME NEW l \in Layers PROVE Len(records'[r][l]) = n \div monitor_interval
    <3>1. Accumulated(shift, l)
      <4>1. 1..l \subseteq 1..NumLayers
        BY <2>1, BoundAssumption DEF Layers
      <4>2. QED BY <1>8, <4>1
    <3> HIDE DEF Accumulated
    <3>2. records'[r][l] = Keep(records[r][l], shift[l], n)
      BY <1>5, <1>6, <3>1 DEF IInv, TypeOK
    <3>3. Len(records[r][l]) = (n - 1) \div monitor_interval /\ records[r][l] \in Seq(Energies)
      BY <1>6 DEF Keeps, IInv, TypeOK
    <3>4. shift[l] \in Energies
      BY BoundAssumption
    <3>5. Len(records'[r][l]) = IF Checked(n) THEN ((n - 1) \div monitor_interval) + 1
                                ELSE (n - 1) \div monitor_interval
      BY <3>2, <3>3, <3>4 DEF Keep
    <3>6. QED BY <3>5, DivFacts, WarmUpFacts DEF Checked
  <2>2. Keeps(r, n \div monitor_interval)'
    BY <2>1 DEF Keeps
  <2>3. at'[r] = IF n = warmup_steps THEN Place("moments", 1, 0) ELSE Train
    BY <1>5, <1>6, <1>8 DEF IInv, TypeOK
  <2>4. n # warmup_steps => KeptAt(n) = n \div monitor_interval /\ ~Monitored(n)
    BY <1>6, WarmUpFacts DEF KeptAt, Monitored, Updates
  <2>5. Entered(r, n, b, p)'
    BY <1>6, <2>2, <2>3, <2>4 DEF Entered, Holds, Training, Keeps
  <2>6. QED BY <1>3, <1>4, <2>5, OneEnters
<1>9. QED BY <1>7, <1>8

LEMMA SettledOn ==
  ASSUME NEW n \in Updates, NEW b, NEW p, n # warmup_steps, Settled(n - 1, b, p)
  PROVE  Settled(n, b, p)
  BY WarmUpFacts DEF Settled, Updates

\* All ranks wait in the check of layer l.
LEMMA AtCheck ==
  ASSUME InStep, NEW l \in Layers, AllAt(Place("check", l, 0))
  PROVE  \E n \in Updates : \E b, p : Checking(n, b, p, l)
<1>1. CASE \E n \in Updates : \E b, p : Entering(n, b, p)
  <2>1. PICK n \in Updates : \E b, p : Entering(n, b, p)
    BY <1>1
  <2>2. PICK b, p : Entering(n, b, p)
    BY <2>1
  <2>3. ASSUME NEW r \in Rank
        PROVE  l = 1 /\ Monitored(n) /\ Holds(r, n, b, p) /\ Keeps(r, 0)
    BY <2>2 DEF AllAt, Entering, Dropped, Ready, Entered, Training
  <2>4. Settled(n, b, p)
    BY <2>2, <2>3, SettledOn, RankAssumption, WarmUpFacts DEF Entering, Monitored, Updates
  <2>5. Checking(n, b, p, l)
    BY <2>3, <2>4, RankAssumption DEF AllAt, Checking
  <2>6. QED BY <2>5
<1>2. CASE \E n \in Updates, k \in Layers : \E b, p : Checking(n, b, p, k)
  <2>1. PICK n \in Updates, k \in Layers : \E b, p : Checking(n, b, p, k)
    BY <1>2
  <2>2. PICK b, p : Checking(n, b, p, k)
    BY <2>1
  <2>3. k = l
    BY <2>2, RankAssumption DEF AllAt, Checking
  <2>4. QED BY <2>2, <2>3
<1>3. at[Root] = Place("check", l, 0)
  BY RankAssumption DEF AllAt
<1>4. \A n, b, p : ~Updating(n, b, p)
  BY <1>3, RankAssumption DEF Updating, Training
<1>5. \A q, d : ~Pooling(q, d)
  BY <1>3, RankAssumption DEF Pooling
<1>6. \A k, d : ~Deciding(k, d)
  BY <1>3, RankAssumption DEF Deciding, DecidingAt, Dropped, Training
<1>7. QED BY <1>1, <1>2, <1>4, <1>5, <1>6 DEF InStep

LEMMA CheckInStep ==
  ASSUME IInv, IInv', InStep, NEW l \in Layers, CheckLayer(l)
  PROVE  InStep'
<1>1. PICK n \in Updates : \E b, p : Checking(n, b, p, l)
  BY AtCheck DEF CheckLayer
<1>2. PICK b, p : Checking(n, b, p, l)
  BY <1>1
<1>3. \E psi : predictor' = [r \in Rank |-> [predictor[r] EXCEPT ![l] = UpdatePredictor(@, psi)]]
  BY DEF CheckLayer
<1>4. PICK psi : predictor' = [r \in Rank |-> [predictor[r] EXCEPT ![l] = UpdatePredictor(@, psi)]]
  BY <1>3
<1> DEFINE next == [p EXCEPT ![l] = UpdatePredictor(p[l], psi)]
<1>5. /\ at' = [r \in Rank |-> IF l = NumLayers THEN Train ELSE Place("check", l + 1, 0)]
      /\ UNCHANGED <<step, records, bases>>
  BY DEF CheckLayer
<1>6. ASSUME NEW r \in Rank
      PROVE  Holds(r, n, b, next)' /\ Keeps(r, 0)' /\ Len(next) = NumLayers
  <2>1. step[r] = n /\ bases[r] = b /\ predictor[r] = p /\ Keeps(r, 0)
    BY <1>2 DEF Checking, Holds
  <2>2. predictor'[r] = next
    BY <1>4, <2>1
  <2>3. Len(predictor'[r]) = Len(bases'[r])
    BY DEF IInv, Shape, RankShape
  <2>4. Len(b) = NumLayers
    BY <1>2, WarmUpFacts DEF Checking, Settled, Monitored, Updates
  <2>5. QED BY <1>5, <2>1, <2>2, <2>3, <2>4 DEF Holds, Keeps
<1> HIDE DEF next
<1>7. Settled(n, b, next)
  BY <1>2, <1>6, RankAssumption, WarmUpFacts DEF Checking, Monitored, Settled, Updates
<1>8. CASE l = NumLayers
  <2>1. KeptAt(n) = 0
    BY <1>2, WarmUpFacts DEF Checking, Monitored, KeptAt, Updates
  <2>2. Updating(n, b, next)'
    BY <1>5, <1>6, <1>7, <1>8, <2>1 DEF Updating, Training, Settled
  <2>3. QED BY <2>2 DEF InStep
<1>9. CASE l # NumLayers
  <2>1. l + 1 \in Layers
    BY <1>9, BoundAssumption DEF Layers
  <2>2. Checking(n, b, next, l + 1)'
    BY <1>2, <1>5, <1>6, <1>7, <1>9 DEF Checking, Settled
  <2>3. QED BY <2>1, <2>2 DEF InStep
<1>10. QED BY <1>8, <1>9

\* All ranks wait with their moments of layer l.
LEMMA AtMoments ==
  ASSUME InStep, NEW l \in Layers, AllAt(Place("moments", l, 0))
  PROVE  \E d : \A r \in Rank : Drafting(r, d)
<1>1. at[Root] = Place("moments", l, 0)
  BY RankAssumption DEF AllAt
<1>2. CASE \E n \in Updates : \E b, p : Entering(n, b, p)
  <2>1. PICK n \in Updates : \E b, p : Entering(n, b, p)
    BY <1>2
  <2>2. PICK b, p : Entering(n, b, p)
    BY <2>1
  <2>3. ASSUME NEW r \in Rank
        PROVE  /\ n = warmup_steps /\ draft[r] = NoDraft /\ Holds(r, n, b, p)
               /\ Keeps(r, warmup_steps \div monitor_interval)
    BY <2>2 DEF AllAt, Entering, Dropped, Ready, Entered, Training
  <2>4. b = <<>> /\ p = <<>>
    BY <2>2, <2>3, RankAssumption, WarmUpFacts DEF Entering, Settled, Updates
  <2>5. \A r \in Rank : Drafting(r, NoDraft)
    BY <2>3, <2>4 DEF Drafting
  <2>6. QED BY <2>5
<1>3. CASE \E k \in Layers : \E d : Deciding(k, d)
  <2>1. PICK k \in Layers : \E d : Deciding(k, d)
    BY <1>3
  <2>2. PICK d : Deciding(k, d)
    BY <2>1
  <2>3. ASSUME NEW r \in Rank
        PROVE  Drafting(r, [d EXCEPT !.predictors = Extended(d)])
    BY <2>2 DEF AllAt, Deciding, DecidingAt, Dropped, Training
  <2>4. QED BY <2>3
<1>4. \A n, b, p : ~Updating(n, b, p)
  BY <1>1, RankAssumption DEF Updating, Training
<1>5. \A n, b, p, k : ~Checking(n, b, p, k)
  BY <1>1, RankAssumption DEF Checking
<1>6. \A q, d : ~Pooling(q, d)
  BY <1>1, RankAssumption DEF Pooling
<1>7. QED BY <1>2, <1>3, <1>4, <1>5, <1>6 DEF InStep

LEMMA MomentsInStep ==
  ASSUME InStep, NEW l \in Layers, PoolMoments(l)
  PROVE  InStep'
<1>1. PICK d : \A r \in Rank : Drafting(r, d)
  BY AtMoments DEF PoolMoments
<1>2. UNCHANGED <<draft, step, bases, predictor, records>>
  BY DEF PoolMoments, controller
<1>3. \A r \in Rank : Drafting(r, d)'
  BY <1>1, <1>2 DEF Drafting, Holds, Keeps
<1>4. CASE \A r \in Rank : at'[r] = Failed
  <2>1. \A r \in Rank : Dropped(r, <<>>, <<>>)'
    BY <1>3, <1>4 DEF Dropped, Drafting, Holds
  <2>2. Entering(warmup_steps, <<>>, <<>>)'
    BY <2>1, WarmUpFacts DEF Entering, Settled, Updates
  <2>3. QED BY <2>2, WarmUpFacts DEF InStep
<1>5. CASE \A r \in Rank : at'[r] = Place("basis", l, 0)
  <2>1. Pooling(Place("basis", l, 0), d)'
    BY <1>3, <1>5 DEF Pooling
  <2>2. QED BY <2>1 DEF InStep
<1>6. QED BY <1>4, <1>5 DEF PoolMoments

LEMMA BasisInStep ==
  ASSUME IInv, IInv', InStep, NEW l \in Layers, ShareBasis(l)
  PROVE  InStep'
<1>1. at[Root] = Place("basis", l, 0)
  BY RankAssumption DEF ShareBasis, AllAt
<1>2. PICK d : Pooling(at[Root], d)
  BY <1>1, Segments, RankAssumption
<1> DEFINE next == [d EXCEPT !.bases = Append(d.bases, Root), !.values = <<>>]
<1>3. ASSUME NEW r \in Rank
      PROVE  Drafting(r, next)'
  <2>1. draft[r] = d /\ Holds(r, warmup_steps, <<>>, <<>>)
        /\ Keeps(r, warmup_steps \div monitor_interval)
    BY <1>2 DEF Pooling, Drafting
  <2>2. draft'[r] = next
    BY <2>1 DEF ShareBasis, SharedBasis
  <2>3. UNCHANGED <<step, bases, predictor, records>>
    BY DEF ShareBasis, controller
  <2>4. QED BY <2>1, <2>2, <2>3 DEF Drafting, Holds, Keeps
<1> HIDE DEF next
<1>4. CASE \A r \in Rank : at'[r] = Place("thresholds", l, 0)
  <2>1. Len(next.bases) = l
    BY <1>3, <1>4, RankAssumption DEF IInv, Shape, RankShape, Drafting
  <2>2. Deciding(l, next)'
    BY <1>3, <1>4, <2>1 DEF Deciding, DecidingAt
  <2>3. QED BY <2>2 DEF InStep
<1>5. CASE \A r \in Rank : at'[r] = Place("record", l, 1)
  <2>1. Pooling(Place("record", l, 1), next)'
    BY <1>3, <1>5 DEF Pooling
  <2>2. QED BY <2>1 DEF InStep
<1>6. QED
  <2>1. \A r \in Rank : Len(records[r][l]) = warmup_steps \div monitor_interval
    BY <1>2 DEF Pooling, Drafting, Keeps
  <2>2. \A r \in Rank : records[r][l] = <<>> <=> warmup_steps \div monitor_interval = 0
    <3>1. \A r \in Rank : records[r][l] \in Seq(Energies)
      BY DEF IInv, TypeOK
    <3>2. QED BY <2>1, <3>1
  <2>3. QED BY <1>4, <1>5, <2>2 DEF ShareBasis

LEMMA RecordInStep ==
  ASSUME IInv', InStep, NEW l \in Layers, NEW i \in 1..warmup_steps, PoolRecord(l, i)
  PROVE  InStep'
<1>1. at[Root] = Place("record", l, i)
  BY RankAssumption DEF PoolRecord, AllAt
<1>2. PICK d : Pooling(at[Root], d)
  BY <1>1, Segments, RankAssumption
<1>3. PICK psi : draft' = [r \in Rank |-> [draft[r] EXCEPT
                   !.values = IF psi = Invalid THEN @ ELSE Append(@, psi)]]
  BY DEF PoolRecord
<1> DEFINE next == [d EXCEPT !.values = IF psi = Invalid THEN @ ELSE Append(@, psi)]
<1>4. ASSUME NEW r \in Rank PROVE Drafting(r, next)'
  <2>1. draft[r] = d /\ Holds(r, warmup_steps, <<>>, <<>>)
        /\ Keeps(r, warmup_steps \div monitor_interval)
    BY <1>2 DEF Pooling, Drafting
  <2>2. draft'[r] = next
    BY <1>3, <2>1
  <2>3. UNCHANGED <<step, bases, predictor, records>>
    BY DEF PoolRecord, controller
  <2>4. QED BY <2>1, <2>2, <2>3 DEF Drafting, Holds, Keeps
<1> HIDE DEF next
<1>5. CASE \A r \in Rank : at'[r] = Place("thresholds", l, 0)
  <2>1. Len(next.bases) = l
    BY <1>4, <1>5, RankAssumption DEF IInv, Shape, RankShape, Drafting
  <2>2. Deciding(l, next)'
    BY <1>4, <1>5, <2>1 DEF Deciding, DecidingAt
  <2>3. QED BY <2>2 DEF InStep
<1>6. CASE \A r \in Rank : at'[r] = Place("record", l, i + 1)
  <2>1. Pooling(Place("record", l, i + 1), next)'
    BY <1>4, <1>6 DEF Pooling
  <2>2. QED BY <2>1 DEF InStep
<1>7. QED
  <2>1. \A r \in Rank : Len(records[r][l]) = warmup_steps \div monitor_interval
    BY <1>2 DEF Pooling, Drafting, Keeps
  <2>2. QED BY <1>5, <1>6, <2>1 DEF PoolRecord

LEMMA ThresholdsAlone ==
  ASSUME IInv, NEW r \in Rank, NEW l \in Layers, Thresholds(r, l)
  PROVE  \A q \in Rank : q # r => Alone(q)
<1>1. CASE Calibrations(draft[r].values) = {}
  <2>1. at' = [at EXCEPT ![r] = Failed] /\ UNCHANGED <<controller, draft>>
    BY <1>1 DEF Thresholds
  <2>2. QED BY <2>1 DEF Alone, IInv, TypeOK, controller
<1>2. CASE Calibrations(draft[r].values) # {} /\ l < NumLayers
  <2>1. /\ draft' = [draft EXCEPT ![r].predictors = Extended(draft[r])]
        /\ at' = [at EXCEPT ![r] = Place("moments", l + 1, 0)]
        /\ UNCHANGED controller
    BY <1>2, InstalledBases DEF Thresholds, Extended, controller, IInv
  <2>2. QED BY <2>1 DEF Alone, IInv, TypeOK, controller
<1>3. CASE Calibrations(draft[r].values) # {} /\ ~(l < NumLayers)
  <2>1. /\ bases' = [bases EXCEPT ![r] = draft[r].bases]
        /\ predictor' = [predictor EXCEPT ![r] = Extended(draft[r])]
        /\ records' = [records EXCEPT ![r] = [k \in Layers |-> <<>>]]
        /\ at' = [at EXCEPT ![r] = Train]
        /\ UNCHANGED step
    BY <1>3, InstalledBases DEF Thresholds, Extended, IInv
  <2>2. draft' = [draft EXCEPT ![r] = NoDraft]
    BY <1>3 DEF Thresholds
  <2>3. QED BY <2>1, <2>2 DEF Alone, IInv, TypeOK
<1>4. QED BY <1>1, <1>2, <1>3

LEMMA ThresholdsInStep ==
  ASSUME IInv, InStep, NEW r \in Rank, NEW l \in Layers, Thresholds(r, l)
  PROVE  InStep'
<1>1. at[r] = Place("thresholds", l, 0)
  BY DEF Thresholds
<1>2. PICK d : Deciding(l, d) /\ Drafting(r, d)
  BY <1>1, Segments
<1>3. \A q \in Rank : q # r => Alone(q)
  BY ThresholdsAlone
<1>4. /\ draft[r] = d /\ step[r] = warmup_steps /\ bases[r] = <<>> /\ predictor[r] = <<>>
      /\ Keeps(r, warmup_steps \div monitor_interval)
  BY <1>2 DEF Drafting, Holds
<1>5. CASE Calibrations(d.values) = {}
  <2>1. at'[r] = Failed /\ UNCHANGED <<bases, predictor>>
    BY <1>4, <1>5 DEF Thresholds, IInv, TypeOK, controller
  <2>2. DecidingAt(r, l, d)'
    BY <1>4, <2>1 DEF DecidingAt, Dropped
  <2>3. QED BY <1>2, <1>3, <2>2, OneDecides
<1>6. CASE Calibrations(d.values) # {} /\ l < NumLayers
  <2>1. at'[r] = Place("moments", l + 1, 0) /\ UNCHANGED <<step, bases, predictor, records>>
    BY <1>4, <1>6, InstalledBases DEF Thresholds, IInv, TypeOK, controller
  <2>2. draft'[r] = [d EXCEPT !.predictors = Extended(d)]
    <3>1. draft' = [draft EXCEPT ![r].predictors = Extended(d)]
      BY <1>4, <1>6 DEF Thresholds, Extended
    <3>2. QED BY <1>4, <3>1 DEF IInv, TypeOK
  <2>3. Drafting(r, [d EXCEPT !.predictors = Extended(d)])'
    BY <1>4, <2>1, <2>2 DEF Drafting, Holds, Keeps
  <2>4. DecidingAt(r, l, d)'
    BY <1>6, <2>1, <2>3 DEF DecidingAt
  <2>5. QED BY <1>2, <1>3, <2>4, OneDecides
<1>7. CASE Calibrations(d.values) # {} /\ ~(l < NumLayers)
  <2>1. l = NumLayers
    BY <1>7, BoundAssumption DEF Layers
  <2>2. /\ bases' = [bases EXCEPT ![r] = draft[r].bases]
        /\ predictor' = [predictor EXCEPT ![r] = Extended(d)]
        /\ records' = [records EXCEPT ![r] = [k \in Layers |-> <<>>]]
        /\ at' = [at EXCEPT ![r] = Train]
        /\ UNCHANGED step
    BY <1>4, <1>7, InstalledBases DEF Thresholds, Extended, IInv
  <2>3. /\ bases'[r] = d.bases /\ predictor'[r] = Extended(d) /\ at'[r] = Train
        /\ step'[r] = warmup_steps /\ records'[r] = [k \in Layers |-> <<>>]
    BY <1>4, <2>2 DEF IInv, TypeOK
  <2>4. DecidingAt(r, l, d)'
    BY <2>1, <2>3 DEF DecidingAt, Holds, Keeps, Training
  <2>5. QED BY <1>2, <1>3, <2>4, OneDecides
<1>8. QED BY <1>5, <1>6, <1>7

LEMMA TrainInStep ==
  ASSUME IInv, InStep, NEW r \in Rank, Forward(r) \/ Backward(r)
  PROVE  InStep'
<1>1. at[r].phase \in {"forward", "backward"}
  BY DEF Forward, Backward
<1>2. Training(r)'
  <2>1. CASE Forward(r)
    <3>1. at' = [at EXCEPT ![r] = [at[r] EXCEPT !.phase = "backward"]]
      BY <2>1 DEF Forward
    <3>2. QED BY <3>1 DEF Training, IInv, TypeOK
  <2>2. CASE Backward(r)
    <3>1. at'[r] = AfterMicroBatch(at[r].idx)
      BY <2>2 DEF Backward, IInv, TypeOK
    <3>2. QED BY <3>1 DEF AfterMicroBatch, Training
  <2>3. QED BY <2>1, <2>2
<1>3. \A q \in Rank : q # r => Alone(q)
  BY DEF Forward, Backward, Alone, IInv, TypeOK, controller
<1>4. UNCHANGED <<step, bases, predictor, records, draft>>
  BY DEF Forward, Backward, controller
<1>5. ASSUME NEW n \in Updates, NEW b, NEW p, Entering(n, b, p), Entered(r, n, b, p)
      PROVE  InStep'
  <2>1. Entered(r, n, b, p)'
    BY <1>1, <1>2, <1>4, <1>5 DEF Entered, Holds, Keeps
  <2>2. QED BY <1>3, <1>5, <2>1, OneEnters
<1>6. ASSUME NEW n \in Updates, NEW b, NEW p, Updating(n, b, p) PROVE InStep'
  <2>1. ASSUME NEW q \in Rank
        PROVE  Training(q)' /\ Holds(q, n, b, p)' /\ Keeps(q, KeptAt(n))'
    <3>1. Training(q) /\ Holds(q, n, b, p) /\ Keeps(q, KeptAt(n))
      BY <1>6 DEF Updating
    <3>2. Training(q)'
      BY <1>2, <1>3, <3>1 DEF Alone, Training
    <3>3. QED BY <1>4, <3>1, <3>2 DEF Holds, Keeps, KeptAt
  <2>2. Updating(n, b, p)'
    BY <1>6, <2>1 DEF Updating, Settled
  <2>3. QED BY <2>2 DEF InStep
<1>7. ASSUME NEW d, Deciding(NumLayers, d) PROVE InStep'
  <2>1. DecidingAt(r, NumLayers, d)
    BY <1>7 DEF Deciding
  <2>2. DecidingAt(r, NumLayers, d)'
    BY <1>1, <1>2, <1>4, <2>1 DEF DecidingAt, Dropped, Holds, Keeps
  <2>3. QED BY <1>3, <1>7, <2>2, OneDecides, LayersFacts
<1>8. Training(r)
  BY <1>1 DEF Training
<1>9. QED BY <1>5, <1>6, <1>7, <1>8, Segments

\* All ranks wait to reduce the gradients.
LEMMA AtReduce ==
  ASSUME IInv, InStep, AllAt(Place("reduce", 0, 0))
  PROVE  \E n \in Updates : \E b, p : Updating(n, b, p)
<1>1. at[Root] = Place("reduce", 0, 0) /\ Training(Root)
  BY RankAssumption DEF AllAt, Training
<1>2. ASSUME NEW n \in Updates, NEW b, NEW p, Entering(n, b, p)
      PROVE  Updating(n, b, p)
  <2>1. ASSUME NEW r \in Rank
        PROVE  Training(r) /\ n # warmup_steps /\ Holds(r, n, b, p) /\ Keeps(r, KeptAt(n))
    BY <1>2 DEF AllAt, Entering, Dropped, Ready, Entered, Training
  <2>2. Settled(n, b, p)
    BY <1>2, <2>1, SettledOn, RankAssumption DEF Entering
  <2>3. QED BY <2>1, <2>2 DEF Updating
<1>3. ASSUME NEW d, Deciding(NumLayers, d)
      PROVE  Updating(warmup_steps, d.bases, Extended(d))
  <2>1. ASSUME NEW r \in Rank
        PROVE  Training(r) /\ Holds(r, warmup_steps, d.bases, Extended(d)) /\ Keeps(r, 0)
    BY <1>3 DEF AllAt, Deciding, DecidingAt, Dropped, Training
  <2>2. Len(d.bases) = NumLayers /\ Len(Extended(d)) = NumLayers
    BY <1>3, <2>1, RankAssumption DEF Deciding, Holds, IInv, Shape, RankShape
  <2>3. KeptAt(warmup_steps) = 0 /\ ~(warmup_steps < warmup_steps)
    BY WarmUpFacts DEF KeptAt, Updates
  <2>4. QED BY <2>1, <2>2, <2>3 DEF Updating, Settled
<1>4. QED BY <1>1, <1>2, <1>3, Segments, RankAssumption, WarmUpFacts

LEMMA OptimizerInStep ==
  ASSUME IInv, InStep, OptimizerStep
  PROVE  InStep'
<1>1. PICK n \in Updates : \E b, p : Updating(n, b, p)
  BY AtReduce DEF OptimizerStep
<1>2. PICK b, p : Updating(n, b, p)
  BY <1>1
<1>3. n + 1 \in Updates /\ (n + 1) - 1 = n
  BY DEF Updates
<1>4. ASSUME NEW r \in Rank PROVE Ready(r, n + 1, b, p)'
  <2>1. Holds(r, n, b, p) /\ Keeps(r, KeptAt(n))
    BY <1>2 DEF Updating
  <2>2. at'[r] = Idle /\ UNCHANGED <<step, bases, predictor, records>>
    BY DEF OptimizerStep, controller
  <2>3. QED BY <1>3, <2>1, <2>2 DEF Ready, Holds, Keeps, KeptAt
<1>5. Entering(n + 1, b, p)'
  BY <1>2, <1>3, <1>4 DEF Entering, Updating, Settled
<1>6. QED BY <1>3, <1>5 DEF InStep

LEMMA SaveAgrees ==
  ASSUME InStep, Save
  PROVE  CkptAgrees'
<1>1. at[Root] = Idle /\ \A r \in Rank : at[r] = Idle
  BY RankAssumption DEF Save, AllIdle, AllAt
<1>2. PICK n \in Updates : \E b, p : Entering(n, b, p)
  BY <1>1, Segments, RankAssumption
<1>3. PICK b, p : Entering(n, b, p)
  BY <1>2
<1>4. ASSUME NEW r \in Rank PROVE Ready(r, n, b, p)
  BY <1>1, <1>3 DEF Entering, Dropped, Entered, Training
<1>5. Saved(n - 1, b, p)'
  BY <1>3, <1>4 DEF Save, StateDict, Entering, Settled, Ready, Holds, Keeps, KeptAt, Saved
<1>6. QED BY <1>5 DEF CkptAgrees, Updates

LEMMA RestartInStep ==
  ASSUME CkptAgrees, Restart
  PROVE  InStep'
<1>1. PICK n \in Nat : \E b, p : Saved(n, b, p)
  BY DEF CkptAgrees
<1>2. PICK b, p : Saved(n, b, p)
  BY <1>1
<1>3. n + 1 \in Updates /\ (n + 1) - 1 = n
  BY DEF Updates
<1>4. \A r \in Rank : Ready(r, n + 1, b, p)'
  BY <1>2, <1>3 DEF Restart, Saved, Ready, Holds, Keeps, KeptAt
<1>5. Entering(n + 1, b, p)'
  BY <1>2, <1>3, <1>4 DEF Entering, Saved, Settled
<1>6. QED BY <1>3, <1>5 DEF InStep

\* A projection changes with the rank's calibration, and a rank that calibrates or
\* checks is not in the middle of an update.
LEMMA ProjectionKept ==
  ASSUME NEW r \in Rank, bases'[r] = bases[r], predictor'[r] = predictor[r]
  PROVE  Projection(r)' = Projection(r)
  BY DEF Projection, Calibrated

LEMMA OwnKept ==
  ASSUME OwnProjection, UNCHANGED training,
         \A r \in Rank :
           \/ at'[r] = at[r] /\ bases'[r] = bases[r] /\ predictor'[r] = predictor[r]
           \/ ~Training(r)
  PROVE  OwnProjection'
<1> SUFFICES ASSUME NEW r \in Rank
             PROVE  /\ used'[r] \subseteq (IF Training(r)' THEN {Projection(r)'} ELSE {})
                    /\ hooked'[r] \subseteq (IF at'[r].phase = "backward" THEN {Projection(r)'} ELSE {})
  BY DEF OwnProjection
<1>1. CASE at'[r] = at[r] /\ bases'[r] = bases[r] /\ predictor'[r] = predictor[r]
  BY <1>1, ProjectionKept DEF OwnProjection, Training, training
<1>2. CASE ~Training(r)
  BY <1>2 DEF OwnProjection, Training, training
<1>3. QED BY <1>1, <1>2

LEMMA OwnTrain ==
  ASSUME IInv, OwnProjection, NEW r \in Rank, Forward(r) \/ Backward(r)
  PROVE  OwnProjection'
<1>1. UNCHANGED <<bases, predictor>>
  BY DEF Forward, Backward, controller
<1>2. \A q \in Rank : Projection(q)' = Projection(q)
  BY <1>1, ProjectionKept
<1>3. Training(r) /\ used[r] \subseteq {Projection(r)}
  BY DEF Forward, Backward, Training, OwnProjection
<1>4. ASSUME NEW q \in Rank, q # r
      PROVE  at'[q] = at[q] /\ used'[q] = used[q] /\ hooked'[q] = hooked[q]
  BY <1>4 DEF Forward, Backward, IInv, TypeOK
<1>5. CASE Forward(r)
  <2>1. at' = [at EXCEPT ![r] = [at[r] EXCEPT !.phase = "backward"]] /\ used' = used
    BY <1>5 DEF Forward
  <2>2. at'[r].phase = "backward"
    BY <2>1 DEF IInv, TypeOK
  <2>3. hooked'[r] = {Projection(r)}
    BY <1>5 DEF Forward, IInv, TypeOK
  <2>4. QED BY <1>2, <1>3, <1>4, <2>1, <2>2, <2>3 DEF OwnProjection, Training
<1>6. CASE Backward(r)
  <2>1. at'[r] = AfterMicroBatch(at[r].idx)
        /\ used'[r] = used[r] \cup hooked[r] \cup {Projection(r)} /\ hooked'[r] = {}
    BY <1>6 DEF Backward, IInv, TypeOK
  <2>2. Training(r)'
    BY <2>1 DEF AfterMicroBatch, Training
  <2>3. hooked[r] \subseteq {Projection(r)}
    BY DEF OwnProjection
  <2>4. QED BY <1>2, <1>3, <1>4, <2>1, <2>2, <2>3 DEF OwnProjection, Training
<1>7. QED BY <1>5, <1>6

LEMMA LockstepInit == Init => Lockstep
<1> SUFFICES ASSUME Init PROVE Lockstep
  OBVIOUS
<1>1. 1 \in Updates /\ 1 - 1 = 0 /\ KeptAt(0) = 0 /\ Settled(0, <<>>, <<>>)
  BY WarmUpFacts, DivFacts DEF KeptAt, Settled, Updates
<1>2. \A r \in Rank : Ready(r, 1, <<>>, <<>>)
  BY <1>1 DEF Init, NewController, NewRecords, Ready, Holds, Keeps
<1>3. Entering(1, <<>>, <<>>)
  BY <1>1, <1>2 DEF Entering
<1>4. Saved(0, <<>>, <<>>)
  BY <1>1 DEF Init, NewController, NewRecords, Saved
<1>5. OwnProjection
  BY DEF Init, OwnProjection
<1>6. QED BY <1>1, <1>3, <1>4, <1>5 DEF Lockstep, InStep, CkptAgrees

LEMMA InStepStutters == ASSUME InStep, UNCHANGED <<at, controller, draft>> PROVE InStep'
<1>1. UNCHANGED <<at, step, bases, predictor, records, draft>>
  BY DEF controller
<1>2. \A n, b, p : /\ Entering(n, b, p)' <=> Entering(n, b, p)
                   /\ Updating(n, b, p)' <=> Updating(n, b, p)
                   /\ \A l : Checking(n, b, p, l)' <=> Checking(n, b, p, l)
  BY <1>1 DEF Entering, Updating, Checking, Settled, Dropped, Ready, Entered, Holds, Keeps, Training
<1>3. \A q, d : Pooling(q, d)' <=> Pooling(q, d)
  BY <1>1 DEF Pooling, Drafting, Holds, Keeps
<1>4. \A l, d : Deciding(l, d)' <=> Deciding(l, d)
  BY <1>1 DEF Deciding, DecidingAt, Dropped, Drafting, Holds, Keeps, Training
<1>5. (\E n \in Updates : \E b, p : Entering(n, b, p)) => InStep'
  <2> SUFFICES ASSUME NEW n \in Updates, NEW b, NEW p, Entering(n, b, p) PROVE InStep'
    OBVIOUS
  <2>1. Entering(n, b, p)'
    BY <1>2
  <2>2. QED BY <2>1 DEF InStep
<1>6. (\E n \in Updates, l \in Layers : \E b, p : Checking(n, b, p, l)) => InStep'
  BY <1>2, Zenon DEF InStep
<1>7. (\E n \in Updates : \E b, p : Updating(n, b, p)) => InStep'
  BY <1>2, ZenonT(30) DEF InStep
<1>8. (\E q, d : Pooling(q, d)) => InStep'
  BY <1>3, Zenon DEF InStep
<1>9. (\E l \in Layers : \E d : Deciding(l, d)) => InStep'
  BY <1>4, Zenon DEF InStep
<1>10. QED BY <1>5, <1>6, <1>7, <1>8, <1>9 DEF InStep

LEMMA CkptKept == ASSUME CkptAgrees, ckpt' = ckpt PROVE CkptAgrees'
  BY DEF CkptAgrees, Saved, Settled

LEMMA LockstepStep == IInv /\ Lockstep /\ [Next]_vars => Lockstep'
<1> SUFFICES ASSUME IInv, Lockstep, [Next]_vars PROVE Lockstep'
  OBVIOUS
<1>0. IInv'
  BY StepInductive
<1>1. ASSUME NEW r \in Rank, StartUpdate(r) PROVE Lockstep'
  <2>1. job = "up" /\ at[r] = Idle
    BY <1>1 DEF StartUpdate, Unobserved, PrepassError, WarmUp, Monitor, CanStart
  <2>2. InStep'
    BY <1>1, <2>1, StartInStep, WarmUpInStep DEF Lockstep, StartUpdate
  <2>3. ckpt' = ckpt /\ UNCHANGED training /\ UNCHANGED <<bases, predictor>>
    BY <1>1 DEF StartUpdate, Unobserved, PrepassError, WarmUp, Monitor, controller
  <2>4. \A q \in Rank : q # r => at'[q] = at[q]
    BY <1>1 DEF StartUpdate, Unobserved, PrepassError, WarmUp, Monitor, IInv, TypeOK
  <2>5. ~Training(r)
    BY <2>1 DEF Training
  <2>6. OwnProjection'
    BY <2>3, <2>4, <2>5, OwnKept DEF Lockstep
  <2>7. QED BY <2>2, <2>3, <2>6, CkptKept DEF Lockstep
<1>2. ASSUME NEW r \in Rank, NEW l \in Layers, Thresholds(r, l) PROVE Lockstep'
  <2>1. job = "up" /\ at[r] = Place("thresholds", l, 0) /\ ckpt' = ckpt /\ UNCHANGED training
    BY <1>2 DEF Thresholds
  <2>2. InStep'
    BY <1>2, <2>1, ThresholdsInStep DEF Lockstep
  <2>3. \A q \in Rank : q # r => /\ at'[q] = at[q] /\ bases'[q] = bases[q]
                                 /\ predictor'[q] = predictor[q]
    <3>1. \A q \in Rank : q # r => Alone(q)
      BY <1>2, ThresholdsAlone
    <3>2. QED BY <3>1 DEF Alone
  <2>4. ~Training(r)
    BY <2>1 DEF Training
  <2>5. OwnProjection'
    BY <2>1, <2>3, <2>4, OwnKept DEF Lockstep
  <2>6. QED BY <2>1, <2>2, <2>5, CkptKept DEF Lockstep
<1>3. ASSUME NEW r \in Rank, Forward(r) \/ Backward(r) PROVE Lockstep'
  <2>1. job = "up" /\ ckpt' = ckpt
    BY <1>3 DEF Forward, Backward
  <2>2. QED BY <1>3, <2>1, TrainInStep, OwnTrain, CkptKept DEF Lockstep
<1>4. ASSUME NEW l \in Layers, Collective(l) PROVE Lockstep'
  <2>1. job = "up" /\ ckpt' = ckpt /\ UNCHANGED training /\ \A r \in Rank : ~Training(r)
    <3>1. CASE CheckLayer(l)
      BY <3>1 DEF CheckLayer, AllAt, Training
    <3>2. CASE PoolMoments(l)
      BY <3>2 DEF PoolMoments, AllAt, Training
    <3>3. CASE ShareBasis(l)
      <4>1. job = "up" /\ AllAt(Place("basis", l, 0)) /\ UNCHANGED <<training, ckpt>>
        BY <3>3 DEF ShareBasis
      <4>2. QED BY <4>1 DEF AllAt, Training
    <3>4. CASE \E i \in 1..warmup_steps : PoolRecord(l, i)
      BY <3>4 DEF PoolRecord, AllAt, Training
    <3>5. QED BY <1>4, <3>1, <3>2, <3>3, <3>4 DEF Collective
  <2>2. InStep'
    BY <1>0, <1>4, <2>1, CheckInStep, MomentsInStep, BasisInStep, RecordInStep DEF Lockstep, Collective
  <2>3. QED BY <2>1, <2>2, OwnKept, CkptKept DEF Lockstep
<1>5. CASE OptimizerStep
  <2>1. job = "up" /\ ckpt' = ckpt /\ used' = [r \in Rank |-> {}] /\ hooked' = hooked
        /\ \A r \in Rank : at[r] = Place("reduce", 0, 0)
    BY <1>5 DEF OptimizerStep, AllAt
  <2>2. OwnProjection'
    BY <2>1 DEF Lockstep, OwnProjection
  <2>3. QED BY <1>5, <2>1, <2>2, OptimizerInStep, CkptKept DEF Lockstep
<1>6. CASE Save
  <2>1. job = "up" /\ UNCHANGED <<job, at, controller, draft, training>>
    BY <1>6 DEF Save
  <2>2. UNCHANGED <<bases, predictor, at>>
    BY <2>1 DEF controller
  <2>3. QED BY <1>6, <2>1, <2>2, SaveAgrees, InStepStutters, OwnKept DEF Lockstep
<1>7. CASE Abort \/ Crash
  <2>1. job' = "down" /\ UNCHANGED <<at, controller, training, ckpt>>
    BY <1>7 DEF Abort, Crash
  <2>2. UNCHANGED <<bases, predictor, at>>
    BY <2>1 DEF controller
  <2>3. QED BY <2>1, <2>2, OwnKept, CkptKept DEF Lockstep
<1>8. CASE Restart
  <2>1. ckpt' = ckpt /\ hooked' = [r \in Rank |-> {}] /\ used' = [r \in Rank |-> {}]
    BY <1>8 DEF Restart
  <2>2. OwnProjection'
    BY <2>1 DEF OwnProjection
  <2>3. QED BY <1>8, <2>1, <2>2, RestartInStep, CkptKept DEF Lockstep
<1>9. CASE UNCHANGED vars
  <2>1. UNCHANGED <<job, at, controller, draft, training, ckpt>>
    BY <1>9 DEF vars
  <2>2. UNCHANGED <<bases, predictor, at>>
    BY <2>1 DEF controller
  <2>3. QED BY <2>1, <2>2, InStepStutters, OwnKept, CkptKept DEF Lockstep
<1>10. QED BY <1>1, <1>2, <1>3, <1>4, <1>5, <1>6, <1>7, <1>8, <1>9 DEF Next, RankStep, Finished

\* At every moment of a running job all ranks are in the same segment of the same
\* update, with what belongs to it; what was saved is what they all had between two.
THEOREM LockstepCorrect == Spec => [](IInv /\ Lockstep)
<1>1. Init => IInv /\ Lockstep
  BY InitInductive, LockstepInit
<1>2. IInv /\ Lockstep /\ [Next]_vars => (IInv /\ Lockstep)'
  BY StepInductive, LockstepStep
<1>3. QED BY <1>1, <1>2, PTL DEF Spec

-----------------------------------------------------------------------------
(* What lockstep means for the ranks.                                      *)

\* No rank ever meets another one in a different collective, for any number of
\* ranks and layers: pooled quantities decide every branch that leads to one.
THEOREM Aligned == Spec => []CollectivesAligned
<1> DEFINE Waits(r) == at[r].phase \in Blocked \cup {"reduce"}
<1>1. ASSUME InStep, NEW r \in Rank, NEW s \in Rank, Waits(r), Waits(s) PROVE at[r] = at[s]
  <2>1. ASSUME NEW n \in Updates, NEW b, NEW p, Entering(n, b, p) PROVE at[r] = at[s]
    <3>1. Entered(r, n, b, p) /\ Entered(s, n, b, p)
      BY <1>1, <2>1 DEF Entering, Dropped, Ready, Blocked
    <3>2. warmup_steps \in Nat /\ n \in Nat
      BY WarmUpFacts DEF Updates
    <3>3. QED BY <1>1, <3>1, <3>2 DEF Entered, Training, Monitored, Blocked
  <2>2. ASSUME NEW n \in Updates, NEW b, NEW p, Updating(n, b, p) PROVE at[r] = at[s]
    BY <1>1, <2>2 DEF Updating, Training, Blocked
  <2>3. ASSUME NEW l \in Layers, NEW d, Deciding(l, d) PROVE at[r] = at[s]
    <3>1. DecidingAt(r, l, d) /\ DecidingAt(s, l, d)
      BY <2>3 DEF Deciding
    <3>2. l \in Nat /\ NumLayers \in Nat
      BY LayersFacts
    <3>3. QED BY <1>1, <3>1, <3>2 DEF DecidingAt, Dropped, Training, Blocked
  <2>4. QED BY <1>1, <2>1, <2>2, <2>3 DEF InStep, Checking, Pooling
<1>2. IInv /\ Lockstep => CollectivesAligned
  BY <1>1 DEF Lockstep, CollectivesAligned
<1>3. QED BY <1>2, LockstepCorrect, PTL

\* Two ranks that both train, or both hold a calibration, hold the same one; and
\* where they stand tells how many updates they have counted.
LEMMA InStepAgrees ==
  ASSUME InStep, NEW r \in Rank, NEW s \in Rank
  PROVE  /\ Calibrated(r) /\ Calibrated(s) => bases[r] = bases[s] /\ predictor[r] = predictor[s]
         /\ Training(r) /\ Training(s) => bases[r] = bases[s] /\ predictor[r] = predictor[s]
         /\ at[r] = at[s] /\ at[r] # Failed => step[r] = step[s]
<1>1. ASSUME NEW n \in Updates, NEW b, NEW p, Entering(n, b, p)
      PROVE  /\ bases[r] = bases[s] /\ predictor[r] = predictor[s]
             /\ at[r] = at[s] /\ at[r] # Failed => step[r] = step[s]
  <2>1. \A q \in {r, s} : Dropped(q, b, p) \/ Ready(q, n, b, p) \/ Entered(q, n, b, p)
    BY <1>1 DEF Entering
  <2>2. \A q \in {r, s} : /\ bases[q] = b /\ predictor[q] = p
                          /\ at[q] = Failed \/ (at[q] = Idle /\ step[q] = n - 1)
                             \/ (at[q] \notin {Failed, Idle} /\ step[q] = n)
    BY <2>1 DEF Dropped, Ready, Entered, Holds, Training
  <2>3. QED BY <2>2
<1>2. ASSUME NEW n \in Updates, NEW b, NEW p, NEW l \in Layers, Updating(n, b, p) \/ Checking(n, b, p, l)
      PROVE  bases[r] = bases[s] /\ predictor[r] = predictor[s] /\ step[r] = step[s]
  BY <1>2 DEF Updating, Checking, Holds
<1>3. ASSUME NEW q, NEW d, Pooling(q, d)
      PROVE  bases[r] = bases[s] /\ predictor[r] = predictor[s] /\ step[r] = step[s]
  BY <1>3 DEF Pooling, Drafting, Holds
<1>4. ASSUME NEW l \in Layers, NEW d, Deciding(l, d)
      PROVE  /\ Calibrated(r) /\ Calibrated(s) => bases[r] = bases[s] /\ predictor[r] = predictor[s]
             /\ Training(r) /\ Training(s) => bases[r] = bases[s] /\ predictor[r] = predictor[s]
             /\ at[r] = at[s] /\ at[r] # Failed => step[r] = step[s]
  <2>1. DecidingAt(r, l, d) /\ DecidingAt(s, l, d)
    BY <1>4 DEF Deciding
  <2>2. QED BY <2>1 DEF DecidingAt, Dropped, Drafting, Holds, Training, Calibrated
<1>5. QED BY <1>1, <1>2, <1>3, <1>4, LayersFacts DEF InStep

\* Every rank decides alike, for any number of ranks: the calibration, the EMA, the
\* counters and the flags of two calibrated ranks are equal at every moment.
THEOREM Agree == Spec => []RanksAgree
<1>1. IInv /\ Lockstep => RanksAgree
  BY InStepAgrees DEF Lockstep, RanksAgree
<1>2. QED BY <1>1, LockstepCorrect, PTL

\* The gradients of one update go through one projection of every layer, on every
\* rank and micro-batch, in the forward pass and in its recomputation.
THEOREM Uniform == Spec => []UniformProjection
<1>1. ASSUME InStep, OwnProjection, NEW r \in Rank, NEW s \in Rank,
             NEW p \in used[r] \cup hooked[r], NEW q \in used[s] \cup hooked[s]
      PROVE  p = q
  <2>1. Training(r) /\ p = Projection(r) /\ Training(s) /\ q = Projection(s)
    BY <1>1 DEF OwnProjection, Training
  <2>2. bases[r] = bases[s] /\ predictor[r] = predictor[s]
    BY <1>1, <2>1, InStepAgrees
  <2>3. QED BY <2>1, <2>2 DEF Projection, Calibrated
<1>2. IInv /\ Lockstep => UniformProjection
  BY <1>1 DEF Lockstep, UniformProjection
<1>3. QED BY <1>2, LockstepCorrect, PTL

\* The calibration is there as a whole or not at all, on a rank that raised in the
\* middle of it too; between two updates it is there from the last warm-up update
\* on, and every layer has the same number of records.
THEOREM Atomic == Spec => []CalibrationAtomic
<1>1. ASSUME IInv, InStep, NEW r \in Rank, at[r] = Idle
      PROVE  IF step[r] < warmup_steps
             THEN /\ bases[r] = <<>> /\ predictor[r] = <<>>
                  /\ \A l \in Layers : Len(records[r][l]) = step[r] \div monitor_interval
             ELSE /\ Len(bases[r]) = NumLayers /\ Len(predictor[r]) = NumLayers
                  /\ \A l \in Layers : records[r][l] = <<>>
  <2>1. PICK n \in Updates : \E b, p : Entering(n, b, p) /\ Ready(r, n, b, p)
    BY <1>1, Segments
  <2>2. PICK b, p : Entering(n, b, p) /\ Ready(r, n, b, p)
    BY <2>1
  <2>3. /\ step[r] = n - 1 /\ bases[r] = b /\ predictor[r] = p
        /\ \A l \in Layers : Len(records[r][l]) = KeptAt(n - 1)
    BY <2>2 DEF Ready, Holds, Keeps
  <2>4. Settled(n - 1, b, p)
    BY <2>2 DEF Entering
  <2>5. \A l \in Layers : records[r][l] \in Seq(Energies)
    BY <1>1 DEF IInv, TypeOK
  <2>6. \A l \in Layers : Len(records[r][l]) = 0 => records[r][l] = <<>>
    BY <2>5
  <2>7. QED BY <2>3, <2>4, <2>6 DEF Settled, KeptAt
<1>2. ASSUME IInv, NEW r \in Rank
      PROVE  Len(bases[r]) = Len(predictor[r]) /\ Len(bases[r]) \in {0, NumLayers}
  BY <1>1, <1>2 DEF IInv, TypeOK, PerLayer, Shape, RankShape
<1>3. IInv /\ Lockstep => CalibrationAtomic
  BY <1>1, <1>2 DEF Lockstep, CalibrationAtomic
<1>4. QED BY <1>3, LockstepCorrect, PTL

-----------------------------------------------------------------------------
(* The refinement of Hysteresis.                                           *)

\* The last k verdicts of a window are warnings.
Trails(w, k) == Len(w) >= k /\ \A j \in 0..(k - 1) : w[Len(w) - j] = "warn"

\* A counter says how many warnings a window ends with.
Counts(w, c) == Len(w) <= persistence /\ \A k \in 1..persistence : c >= k <=> Trails(w, k)

\* The windows follow the predictors of a rank, and are empty without them.
Follows(w, p) == \A l \in Layers : IF p = <<>> THEN w[l] = <<>> ELSE Counts(w[l], p[l].count)

Untouched(p) == \A k \in 1..Len(p) : p[k].count = 0 /\ p[k].active = FALSE

WindowInv ==
  /\ Follows(window, predictor[Root])
  /\ Follows(savedWindow, ckpt[Root].predictor)
  /\ Untouched(draft[Root].predictors)

Flags(p) == [l \in Layers |-> p # <<>> /\ p[l].active]

Verdicts == Promise!Verdicts

LEMMA RecentFacts ==
  ASSUME NEW w \in Seq(Verdicts), Len(w) <= persistence, NEW v \in Verdicts
  PROVE  LET next == Promise!Recent(w, v)
         IN /\ next \in Seq(Verdicts) /\ Len(next) <= persistence /\ Len(next) >= 1
            /\ Len(next) = IF Len(w) < persistence THEN Len(w) + 1 ELSE Len(w)
            /\ next[Len(next)] = v
            /\ \A j \in 1..(Len(next) - 1) : next[Len(next) - j] = w[Len(w) - (j - 1)]
<1> DEFINE next == Promise!Recent(w, v)
<1>1. persistence \in Nat \ {0}
  BY ConfigAssumption
<1>2. CASE Len(w) < persistence
  <2>1. next = Append(w, v)
    BY <1>2 DEF Promise!Recent
  <2>2. QED BY <1>1, <1>2, <2>1
<1>3. CASE ~(Len(w) < persistence)
  <2>1. next = Append(Tail(w), v) /\ w # <<>> /\ Len(w) = persistence
    BY <1>1, <1>3 DEF Promise!Recent
  <2>2. Tail(w) \in Seq(Verdicts) /\ Len(Tail(w)) = Len(w) - 1
        /\ \A i \in 1..(Len(w) - 1) : Tail(w)[i] = w[i + 1]
    BY <2>1
  <2> DEFINE t == Tail(w)
  <2> HIDE DEF t
  <2>3. next = Append(t, v) /\ t \in Seq(Verdicts) /\ Len(t) = Len(w) - 1
        /\ \A i \in 1..(Len(w) - 1) : t[i] = w[i + 1]
    BY <2>1, <2>2 DEF t
  <2>4. Len(next) = Len(w) /\ next[Len(next)] = v /\ next \in Seq(Verdicts)
        /\ \A i \in 1..(Len(w) - 1) : next[i] = w[i + 1]
    BY <2>3
  <2> HIDE DEF next
  <2>5. ASSUME NEW j \in 1..(Len(next) - 1) PROVE next[Len(next) - j] = w[Len(w) - (j - 1)]
    <3>1. Len(w) - j \in 1..(Len(w) - 1) /\ (Len(w) - j) + 1 = Len(w) - (j - 1)
      BY <2>4
    <3>2. QED BY <2>4, <3>1
  <2>6. QED BY <1>1, <1>3, <2>1, <2>4, <2>5 DEF next
<1>4. QED BY <1>2, <1>3

\* Counting warnings in a row is counting those the window ends with.
LEMMA CountsStep ==
  ASSUME NEW w \in Seq(Verdicts), NEW v \in Verdicts, NEW c \in Nat, Counts(w, c)
  PROVE  Counts(Promise!Recent(w, v), IF v = "warn" THEN c + 1 ELSE 0)
<1> DEFINE next == Promise!Recent(w, v)
           after == IF v = "warn" THEN c + 1 ELSE 0
<1>1. persistence \in Nat \ {0} /\ Len(w) <= persistence
  BY ConfigAssumption DEF Counts
<1>2. /\ next \in Seq(Verdicts) /\ Len(next) <= persistence /\ Len(next) >= 1
      /\ Len(next) = IF Len(w) < persistence THEN Len(w) + 1 ELSE Len(w)
      /\ next[Len(next)] = v
      /\ \A j \in 1..(Len(next) - 1) : next[Len(next) - j] = w[Len(w) - (j - 1)]
  BY <1>1, RecentFacts
<1> HIDE DEF next
<1>3. ASSUME NEW k \in 1..persistence
      PROVE  Trails(next, k) <=> v = "warn" /\ (k = 1 \/ Trails(w, k - 1))
  <2>1. Trails(next, k) => v = "warn" /\ (k = 1 \/ Trails(w, k - 1))
    <3> SUFFICES ASSUME Trails(next, k) PROVE v = "warn" /\ (k = 1 \/ Trails(w, k - 1))
      OBVIOUS
    <3>1. Len(next) >= k /\ \A j \in 0..(k - 1) : next[Len(next) - j] = "warn"
      BY DEF Trails
    <3>2. 0 \in 0..(k - 1) /\ Len(next) - 0 = Len(next)
      BY <1>2
    <3>3. v = "warn"
      BY <1>2, <3>1, <3>2
    <3>4. CASE k # 1
      <4>1. Len(w) >= k - 1
        BY <1>1, <1>2, <3>1
      <4>2. ASSUME NEW j \in 0..((k - 1) - 1) PROVE w[Len(w) - j] = "warn"
        <5>1. j + 1 \in 1..(Len(next) - 1) /\ j + 1 \in 0..(k - 1) /\ (j + 1) - 1 = j
          BY <1>2, <3>1
        <5>2. QED BY <1>2, <3>1, <5>1
      <4>3. QED BY <3>3, <4>1, <4>2 DEF Trails
    <3>5. QED BY <3>3, <3>4
  <2>2. ASSUME v = "warn", k = 1 \/ Trails(w, k - 1) PROVE Trails(next, k)
    <3>1. Len(next) >= k
      BY <1>1, <1>2, <2>2 DEF Trails
    <3>2. ASSUME NEW j \in 0..(k - 1) PROVE next[Len(next) - j] = "warn"
      <4>1. CASE j = 0
        BY <1>2, <2>2, <4>1
      <4>2. CASE j # 0
        <5>1. j \in 1..(Len(next) - 1) /\ j - 1 \in 0..((k - 1) - 1) /\ k # 1
          BY <1>2, <3>1, <4>2
        <5>2. next[Len(next) - j] = w[Len(w) - (j - 1)]
          BY <1>2, <5>1
        <5>3. w[Len(w) - (j - 1)] = "warn"
          BY <2>2, <5>1 DEF Trails
        <5>4. QED BY <5>2, <5>3
      <4>3. QED BY <4>1, <4>2
    <3>3. QED BY <3>1, <3>2 DEF Trails
  <2>3. QED BY <2>1, <2>2
<1>4. ASSUME NEW k \in 1..persistence PROVE after >= k <=> Trails(next, k)
  <2>1. CASE k = 1
    BY <1>3, <2>1
  <2>2. CASE k # 1
    <3>1. k - 1 \in 1..persistence
      BY <1>1, <2>2
    <3>2. c >= k - 1 <=> Trails(w, k - 1)
      BY <3>1 DEF Counts
    <3>3. after >= k <=> v = "warn" /\ c >= k - 1
      BY <2>2
    <3> HIDE DEF after
    <3>4. QED BY <1>3, <2>2, <3>2, <3>3
  <2>3. QED BY <2>1, <2>2
<1>5. QED BY <1>2, <1>4 DEF Counts, next

LEMMA RaisedByRow ==
  ASSUME NEW w \in Seq(Verdicts), NEW c \in Nat, Counts(w, c)
  PROVE  Promise!AllWarnings(w) <=> c >= persistence
<1>1. persistence \in 1..persistence /\ persistence \in Nat
  BY ConfigAssumption
<1>2. c >= persistence <=> Trails(w, persistence)
  BY <1>1 DEF Counts
<1>3. Trails(w, persistence) => Promise!AllWarnings(w)
  <2> SUFFICES ASSUME Trails(w, persistence) PROVE Promise!AllWarnings(w)
    OBVIOUS
  <2>1. Len(w) = persistence
    BY <1>1 DEF Trails, Counts
  <2>2. ASSUME NEW i \in 1..Len(w) PROVE w[i] = "warn"
    <3>1. Len(w) - i \in 0..(persistence - 1) /\ Len(w) - (Len(w) - i) = i
      BY <1>1, <2>1
    <3>2. QED BY <3>1 DEF Trails
  <2>3. QED BY <2>1, <2>2 DEF Promise!AllWarnings
<1>4. Promise!AllWarnings(w) => Trails(w, persistence)
  <2> SUFFICES ASSUME Promise!AllWarnings(w) PROVE Trails(w, persistence)
    OBVIOUS
  <2>1. Len(w) = persistence /\ \A i \in 1..Len(w) : w[i] = "warn"
    BY DEF Promise!AllWarnings
  <2>2. ASSUME NEW j \in 0..(persistence - 1) PROVE w[Len(w) - j] = "warn"
    <3>1. Len(w) - j \in 1..Len(w)
      BY <1>1, <2>1
    <3>2. QED BY <2>1, <3>1
  <2>3. QED BY <1>1, <2>1, <2>2 DEF Trails
<1>5. QED BY <1>2, <1>3, <1>4

\* What an observation makes of one predictor, in terms of its verdict.
LEMMA UpdateVerdict ==
  ASSUME NEW p \in Predictor, Consistent(p), NEW psi \in (0..Scale) \cup {Invalid}
  PROVE  LET q == UpdatePredictor(p, psi)
             v == Verdict(q, psi)
         IN /\ v \in Verdicts
            /\ q.count = IF v = "warn" THEN p.count + 1 ELSE 0
            /\ q.active <=> v # "low" /\ (p.active \/ q.count >= persistence)
<1>1. CASE psi = Invalid
  BY <1>1, ConfigAssumption DEF UpdatePredictor, Verdict, Predictor, Promise!Verdicts, Verdicts
<1>2. CASE psi # Invalid
  <2> DEFINE ema == Smooth(p.ema, psi)
             count == IF ema > p.warning THEN p.count + 1 ELSE 0
             q == [p EXCEPT !.ema = ema, !.count = count,
                            !.active = (@ \/ count >= persistence) /\ ~(ema < p.release)]
  <2>1. UpdatePredictor(p, psi) = q
    BY <1>2 DEF UpdatePredictor
  <2>2. /\ p.warning \in Int /\ p.release \in Int /\ p.release < p.warning /\ p.count \in Nat
        /\ persistence \in Nat \ {0}
    BY ConfigAssumption DEF Predictor, Consistent
  <2>3. UpdatePredictor(p, psi) \in Predictor
    BY UpdateType
  <2>4. q.ema = ema /\ q.count = count /\ q.warning = p.warning /\ q.release = p.release
        /\ (q.active <=> (p.active \/ count >= persistence) /\ ~(ema < p.release))
    BY DEF Predictor
  <2>5. ema \in Int
    BY <2>1, <2>3, <2>4 DEF Predictor
  <2> HIDE DEF q, ema
  <2>6. Verdict(q, psi) = IF ema > p.warning THEN "warn" ELSE IF ema < p.release THEN "low" ELSE "mid"
    BY <1>2, <2>4 DEF Verdict
  <2>7. QED BY <2>1, <2>2, <2>4, <2>5, <2>6 DEF Promise!Verdicts, Verdicts
<1>3. QED BY <1>1, <1>2

\* The step of Hysteresis a check of layer l is.
LEMMA CheckObserves ==
  ASSUME IInv, IInv', InStep, WindowInv, NEW l \in Layers, CheckLayer(l)
  PROVE  /\ Follows(window, predictor[Root])'
         /\ \E v \in Verdicts : Promise!Observe(l, v)
<1>0. PICK shift \in [Rank -> Shifts] : \E psi \in Observation(Pool(shift)) :
        /\ predictor' = [r \in Rank |-> [predictor[r] EXCEPT ![l] = UpdatePredictor(@, psi)]]
        /\ window' = [window EXCEPT ![l] =
                        Promise!Recent(@, Verdict(predictor'[Root][l], psi))]
  BY DEF CheckLayer
<1>1. PICK psi \in Observation(Pool(shift)) :
        /\ predictor' = [r \in Rank |-> [predictor[r] EXCEPT ![l] = UpdatePredictor(@, psi)]]
        /\ window' = [window EXCEPT ![l] =
                        Promise!Recent(@, Verdict(predictor'[Root][l], psi))]
  BY <1>0
<1>2. psi \in (0..Scale) \cup {Invalid}
  BY <1>1, ObservationType
<1> DEFINE p == predictor[Root]
           q == UpdatePredictor(p[l], psi)
           v == Verdict(q, psi)
<1>3. /\ p \in Seq(Predictor) /\ Len(p) = NumLayers /\ p # <<>>
      /\ \A k \in Layers : p[k] \in Predictor /\ Consistent(p[k])
  <2>1. PICK n \in Updates : \E b, c : Checking(n, b, c, l)
    BY AtCheck DEF CheckLayer
  <2>2. Len(p) = NumLayers
    BY <2>1, RankAssumption, WarmUpFacts DEF Checking, Settled, Monitored, Holds, Updates
  <2>3. p \in Seq(Predictor)
    BY RankAssumption DEF IInv, TypeOK, PerLayer
  <2>4. QED BY <2>2, <2>3, RankAssumption, BoundAssumption DEF IInv, AllConsistent, Layers
<1>4. /\ v \in Verdicts
      /\ q.count = IF v = "warn" THEN p[l].count + 1 ELSE 0
      /\ q.active <=> v # "low" /\ (p[l].active \/ q.count >= persistence)
  BY <1>2, <1>3, UpdateVerdict
<1>5. /\ predictor'[Root] = [p EXCEPT ![l] = q] /\ predictor'[Root][l] = q
      /\ \A k \in Layers : k # l => predictor'[Root][k] = p[k]
  <2>1. predictor'[Root] = [p EXCEPT ![l] = q]
    BY <1>1, RankAssumption
  <2>2. DOMAIN p = Layers
    BY <1>3 DEF Layers
  <2> HIDE DEF q, p
  <2>3. QED BY <2>1, <2>2
<1>6. window' = [window EXCEPT ![l] = Promise!Recent(window[l], v)]
  BY <1>1, <1>5
<1>7. Counts(window[l], p[l].count) /\ window[l] \in Seq(Verdicts) /\ p[l].count \in Nat
  BY <1>3 DEF WindowInv, Follows, IInv, TypeOK, Predictor, Verdicts
<1>8. window'[l] = Promise!Recent(window[l], v) /\ \A k \in Layers : k # l => window'[k] = window[k]
  BY <1>6 DEF IInv, TypeOK
<1> HIDE DEF q, v
<1>9. Counts(window'[l], q.count)
  BY <1>4, <1>7, <1>8, CountsStep
<1>10. predictor'[Root] # <<>>
  BY <1>3, <1>5, BoundAssumption
<1>11. Follows(window, predictor[Root])'
  BY <1>3, <1>5, <1>8, <1>9, <1>10 DEF WindowInv, Follows
<1>12. v # "low" /\ (p[l].active \/ q.count >= persistence)
         <=> v # "low" /\ (p[l].active \/ Promise!AllWarnings(window'[l]))
  <2>1. window'[l] \in Seq(Verdicts) /\ q.count \in Nat
    <3>1. Len(window[l]) <= persistence
      BY <1>7 DEF Counts
    <3>2. Promise!Recent(window[l], v) \in Seq(Verdicts)
      BY <1>4, <1>7, <3>1, RecentFacts
    <3>3. q.count \in Nat
      BY <1>4, <1>7
    <3>4. QED BY <1>8, <3>2, <3>3
  <2>2. QED BY <1>9, <2>1, RaisedByRow
<1>13. Flags(predictor[Root])' = [Flags(predictor[Root]) EXCEPT
          ![l] = v # "low" /\ (@ \/ Promise!AllWarnings(window'[l]))]
  <2>1. \A k \in Layers : k # l => (predictor'[Root] # <<>> /\ predictor'[Root][k].active)
                                      = (p # <<>> /\ p[k].active)
    BY <1>3, <1>5, <1>10
  <2>2. (predictor'[Root] # <<>> /\ predictor'[Root][l].active)
          = (v # "low" /\ ((p # <<>> /\ p[l].active) \/ Promise!AllWarnings(window'[l])))
    BY <1>3, <1>4, <1>5, <1>10, <1>12
  <2>3. QED BY <2>1, <2>2 DEF Flags
<1>14. UNCHANGED <<savedWindow, ckpt>>
  BY DEF CheckLayer
<1>15. PICK u \in Verdicts : u = v
  BY <1>4
<1>16. Promise!Observe(l, u)
  BY <1>6, <1>13, <1>14, <1>15 DEF Promise!Observe, Flags
<1>17. QED BY <1>11, <1>16

\* A step that leaves the predictors and the windows alone, and drafts predictors
\* nothing was observed with yet.
LEMMA WindowKept ==
  ASSUME WindowInv, UNCHANGED <<window, savedWindow, ckpt>>,
         predictor'[Root] = predictor[Root], Untouched(draft[Root].predictors)'
  PROVE  WindowInv' /\ Flags(predictor[Root])' = Flags(predictor[Root])
  BY DEF WindowInv, Follows, Counts, Trails, Flags

\* The predictors a calibration commits have seen nothing, like the windows.
LEMMA CommitObserves ==
  ASSUME IInv, InStep, WindowInv, NEW r \in Rank, NEW l \in Layers, Thresholds(r, l)
  PROVE  WindowInv' /\ Flags(predictor[Root])' = Flags(predictor[Root])
<1>1. UNCHANGED <<window, savedWindow, ckpt>>
  BY DEF Thresholds, ghosts
<1>2. CASE r # Root
  <2>1. Alone(Root)
    BY <1>2, ThresholdsAlone, RankAssumption
  <2>2. predictor'[Root] = predictor[Root] /\ Untouched(draft[Root].predictors)'
    BY <2>1 DEF Alone, WindowInv, Untouched
  <2>3. QED BY <1>1, <2>2, WindowKept
<1>3. CASE r = Root
  <2>1. at[Root] = Place("thresholds", l, 0)
    BY <1>3 DEF Thresholds
  <2>2. predictor[Root] = <<>>
    BY <2>1, Segments, RankAssumption DEF Drafting, Holds
  <2> DEFINE drafts == draft[Root].predictors
             fresh == CHOOSE p \in Calibrations(draft[Root].values) : TRUE
             predictors == Append(drafts, fresh)
  <2>3. drafts \in Seq(Predictor) /\ Untouched(drafts)
    BY RankAssumption DEF IInv, TypeOK, WindowInv
  <2>4. CASE Calibrations(draft[Root].values) = {}
    <3>1. UNCHANGED <<predictor, draft>>
      BY <1>3, <2>4 DEF Thresholds, controller
    <3>2. QED BY <1>1, <3>1, WindowKept DEF WindowInv, Untouched
  <2>5. CASE Calibrations(draft[Root].values) # {}
    <3>1. fresh.count = 0 /\ fresh.active = FALSE
      <4>1. fresh \in Calibrations(draft[Root].values)
        BY <2>5
      <4>2. draft[Root].values \in Seq(Nat)
        BY RankAssumption DEF IInv, TypeOK
      <4> HIDE DEF fresh
      <4>3. QED BY <4>1, <4>2, CalibrationType
    <3> HIDE DEF fresh
    <3>2. Untouched(predictors) /\ Len(predictors) = Len(drafts) + 1
      BY <2>3, <3>1 DEF Untouched
    <3>3. CASE l < NumLayers
      <4>1. draft' = [draft EXCEPT ![Root].predictors = predictors] /\ UNCHANGED controller
        BY <1>3, <2>5, <3>3, InstalledBases DEF Thresholds, fresh, controller, IInv
      <4> HIDE DEF predictors
      <4>2. draft'[Root].predictors = predictors
        BY <4>1, RankAssumption DEF IInv, TypeOK
      <4>3. predictor' = predictor /\ Untouched(draft[Root].predictors)'
        BY <3>2, <4>1, <4>2 DEF controller, Untouched
      <4>4. QED BY <1>1, <4>3, WindowKept
    <3>4. CASE ~(l < NumLayers)
      <4>1. predictor' = [predictor EXCEPT ![Root] = predictors]
            /\ draft' = [draft EXCEPT ![Root] = NoDraft]
        BY <1>3, <2>5, <3>4 DEF Thresholds, fresh
      <4>2. Len(drafts) = l - 1 /\ l = NumLayers
        <5>1. RankShape(Root) /\ at[Root].phase = "thresholds" /\ at[Root].layer = l
          BY <2>1, RankAssumption DEF IInv, Shape
        <5>2. Len(drafts) = l - 1
          BY <5>1 DEF RankShape
        <5>3. l = NumLayers
          BY <3>4, BoundAssumption DEF Layers
        <5>4. QED BY <5>2, <5>3
      <4>3. Layers = 1..Len(predictors) /\ predictors # <<>>
        BY <3>2, <4>2, BoundAssumption DEF Layers
      <4> HIDE DEF predictors
      <4>4. predictor'[Root] = predictors /\ draft'[Root] = NoDraft
        BY <4>1, RankAssumption DEF IInv, TypeOK
      <4>5. Follows(window, predictor[Root])'
        <5> SUFFICES ASSUME NEW k \in Layers PROVE Counts(window[k], 0)
          BY <1>1, <3>2, <4>3, <4>4 DEF Follows, Counts, Trails, Untouched
        <5>1. window[k] = <<>>
          BY <2>2 DEF WindowInv, Follows
        <5>2. QED BY <5>1, ConfigAssumption DEF Counts, Trails
      <4>6. Untouched(draft[Root].predictors)'
        BY <4>4 DEF NoDraft, Untouched
      <4>7. Follows(savedWindow, ckpt[Root].predictor)'
        BY <1>1 DEF WindowInv, Follows, Counts, Trails
      <4>8. Flags(predictor[Root])' = Flags(predictor[Root])
        <5>1. \A k \in Layers : (predictor'[Root] # <<>> /\ predictor'[Root][k].active)
                                  = (predictor[Root] # <<>> /\ predictor[Root][k].active)
          BY <2>2, <3>2, <4>3, <4>4 DEF Untouched
        <5>2. QED BY <5>1 DEF Flags
      <4>9. QED BY <4>5, <4>6, <4>7, <4>8 DEF WindowInv
    <3>5. QED BY <3>3, <3>4
  <2>6. QED BY <2>4, <2>5
<1>4. QED BY <1>2, <1>3

LEMMA CalibrationObserves ==
  ASSUME IInv, WindowInv, NEW l \in Layers,
         PoolMoments(l) \/ ShareBasis(l) \/ \E i \in 1..warmup_steps : PoolRecord(l, i)
  PROVE  WindowInv' /\ Flags(predictor[Root])' = Flags(predictor[Root])
<1>1. UNCHANGED <<window, savedWindow, ckpt, predictor>>
  BY DEF PoolMoments, ShareBasis, PoolRecord, controller, ghosts
<1>2. draft'[Root].predictors = draft[Root].predictors
  <2>1. CASE PoolMoments(l)
    BY <2>1 DEF PoolMoments
  <2>2. CASE ShareBasis(l)
    <3> DEFINE b == Append(draft[Root].bases, Root)
    <3>1. draft'[Root] = [draft[Root] EXCEPT !.bases = b, !.values = <<>>]
      BY <2>2, RankAssumption DEF ShareBasis, SharedBasis
    <3> HIDE DEF b
    <3>2. QED BY <3>1, RankAssumption DEF IInv, TypeOK
  <2>3. CASE \E i \in 1..warmup_steps : PoolRecord(l, i)
    <3>1. PICK psi : draft' = [r \in Rank |-> [draft[r] EXCEPT
                       !.values = IF psi = Invalid THEN @ ELSE Append(@, psi)]]
      BY <2>3 DEF PoolRecord
    <3> DEFINE values == IF psi = Invalid THEN draft[Root].values ELSE Append(draft[Root].values, psi)
    <3>2. draft'[Root] = [draft[Root] EXCEPT !.values = values]
      BY <3>1, RankAssumption
    <3> HIDE DEF values
    <3>3. QED BY <3>2, RankAssumption DEF IInv, TypeOK
  <2>4. QED BY <2>1, <2>2, <2>3
<1>3. QED BY <1>1, <1>2, WindowKept DEF WindowInv, Untouched

LEMMA RankObserves ==
  ASSUME IInv, WindowInv, NEW r \in Rank, StartUpdate(r) \/ Forward(r) \/ Backward(r)
  PROVE  WindowInv' /\ Flags(predictor[Root])' = Flags(predictor[Root])
<1>1. UNCHANGED <<window, savedWindow, ckpt, predictor, draft>>
  BY DEF StartUpdate, Unobserved, PrepassError, WarmUp, Monitor, Forward, Backward, controller, ghosts
<1>2. QED BY <1>1, WindowKept DEF WindowInv, Untouched

LEMMA WindowInit == Init => WindowInv /\ Promise!Init
<1> SUFFICES ASSUME Init PROVE WindowInv /\ Promise!Init
  OBVIOUS
<1>1. predictor[Root] = <<>> /\ ckpt[Root].predictor = <<>> /\ draft[Root].predictors = <<>>
  BY RankAssumption DEF Init, NewController, NoDraft
<1>2. window = [k \in Layers |-> <<>>] /\ savedWindow = window
  BY DEF Init
<1>3. WindowInv
  BY <1>1, <1>2 DEF WindowInv, Follows, Untouched
<1>4. Promise!Init
  BY <1>1, <1>2 DEF Promise!Init
<1>5. QED BY <1>3, <1>4

\* What Hysteresis sees of a state: the windows, the flags and what was saved.
Seen == <<window, Flags(predictor[Root]), [window |-> savedWindow, active |-> Flags(ckpt[Root].predictor)]>>

LEMMA WindowStep ==
  ASSUME IInv, Lockstep, WindowInv, [Next]_vars
  PROVE  WindowInv' /\ (Promise!Next \/ UNCHANGED Seen)
<1>0. IInv'
  BY StepInductive
<1>1. ASSUME WindowInv' /\ Flags(predictor[Root])' = Flags(predictor[Root]),
             UNCHANGED <<window, savedWindow, ckpt>>
      PROVE  WindowInv' /\ UNCHANGED Seen
  BY <1>1 DEF Seen, Flags
<1>2. ASSUME NEW r \in Rank, StartUpdate(r) \/ Forward(r) \/ Backward(r)
      PROVE  WindowInv' /\ UNCHANGED Seen
  <2>1. UNCHANGED <<window, savedWindow, ckpt>>
    BY <1>2 DEF StartUpdate, Unobserved, PrepassError, WarmUp, Monitor, Forward, Backward, ghosts
  <2>2. QED BY <1>1, <1>2, <2>1, RankObserves
<1>3. ASSUME NEW r \in Rank, NEW l \in Layers, Thresholds(r, l)
      PROVE  WindowInv' /\ UNCHANGED Seen
  <2>1. UNCHANGED <<window, savedWindow, ckpt>> /\ job = "up"
    BY <1>3 DEF Thresholds, ghosts
  <2>2. QED BY <1>1, <1>3, <2>1, CommitObserves DEF Lockstep
<1>4. ASSUME NEW l \in Layers,
             PoolMoments(l) \/ ShareBasis(l) \/ \E i \in 1..warmup_steps : PoolRecord(l, i)
      PROVE  WindowInv' /\ UNCHANGED Seen
  <2>1. UNCHANGED <<window, savedWindow, ckpt>>
    BY <1>4 DEF PoolMoments, ShareBasis, PoolRecord, ghosts
  <2>2. QED BY <1>1, <1>4, <2>1, CalibrationObserves
<1>5. ASSUME NEW l \in Layers, CheckLayer(l)
      PROVE  WindowInv' /\ Promise!Next
  <2>1. Follows(window, predictor[Root])' /\ \E v \in Verdicts : Promise!Observe(l, v)
    BY <1>0, <1>5, CheckObserves DEF Lockstep, CheckLayer
  <2>2. UNCHANGED <<savedWindow, ckpt, draft>>
    BY <1>5 DEF CheckLayer
  <2>3. WindowInv'
    BY <2>1, <2>2 DEF WindowInv, Follows, Counts, Trails, Untouched
  <2>4. QED BY <2>1, <2>3 DEF Promise!Next, Verdicts
<1>6. ASSUME OptimizerStep \/ Abort \/ Crash \/ UNCHANGED vars
      PROVE  WindowInv' /\ UNCHANGED Seen
  <2>1. UNCHANGED <<window, savedWindow, ckpt, predictor, draft>>
    BY <1>6 DEF OptimizerStep, Abort, Crash, vars, controller, ghosts
  <2>2. QED BY <1>1, <2>1, WindowKept DEF WindowInv, Untouched
<1>7. ASSUME Save PROVE WindowInv' /\ Promise!Next
  <2>1. /\ UNCHANGED <<window, predictor, draft>> /\ savedWindow' = window
        /\ ckpt'[Root].predictor = predictor[Root]
    BY <1>7, RankAssumption DEF Save, StateDict, controller
  <2>2. WindowInv'
    BY <2>1 DEF WindowInv, Follows, Counts, Trails, Untouched
  <2>3. Promise!Save
    BY <2>1 DEF Promise!Save
  <2>4. QED BY <2>2, <2>3 DEF Promise!Next
<1>8. ASSUME Restart PROVE WindowInv' /\ Promise!Next
  <2>1. /\ UNCHANGED <<savedWindow, ckpt>> /\ window' = savedWindow
        /\ predictor'[Root] = ckpt[Root].predictor /\ draft'[Root] = NoDraft
    BY <1>8, RankAssumption DEF Restart
  <2>2. WindowInv'
    <3>1. Follows(window, predictor[Root])' /\ Follows(savedWindow, ckpt[Root].predictor)'
      BY <2>1 DEF WindowInv, Follows, Counts, Trails
    <3>2. draft'[Root].predictors = <<>>
      BY <2>1 DEF NoDraft
    <3>3. QED BY <3>1, <3>2 DEF WindowInv, Untouched
  <2>3. Promise!Restart
    BY <2>1 DEF Promise!Restart
  <2>4. QED BY <2>2, <2>3 DEF Promise!Next
<1>9. QED BY <1>2, <1>3, <1>4, <1>5, <1>6, <1>7, <1>8 DEF Next, RankStep, Collective, Finished

\* The controller of every layer implements Hysteresis, for any ranks, thresholds,
\* EMA coefficient and persistence: the flag is a function of the last verdicts.
THEOREM ImplementsHysteresis == Spec => Hysteresis
<1>1. Init => (IInv /\ Lockstep /\ WindowInv) /\ Promise!Init
  BY InitInductive, LockstepInit, WindowInit
<1>2. IInv /\ Lockstep /\ WindowInv /\ [Next]_vars => (IInv /\ Lockstep /\ WindowInv)'
  BY StepInductive, LockstepStep, WindowStep
<1>3. IInv /\ Lockstep /\ WindowInv /\ [Next]_vars => [Promise!Next]_Seen
  BY WindowStep
<1>4. QED BY <1>1, <1>2, <1>3, PTL DEF Spec, Hysteresis, Promise!Spec, Promise!vars, Seen, Flags
=============================================================================
