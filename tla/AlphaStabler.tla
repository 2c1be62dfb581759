---------------------------- MODULE AlphaStabler ----------------------------
(***************************************************************************)
(* The Alpha-Stabler controller of verl/utils/alpha_stabler.py, one copy   *)
(* per data-parallel rank, inside the FSDP actor's update loop             *)
(* (verl/workers/actor/dp_actor.py update_policy) and under the checkpoint *)
(* and restart of the FSDP worker (verl/workers/fsdp_workers.py).          *)
(*                                                                         *)
(* A rank runs alone between two collectives.  A collective is one joint   *)
(* action of all ranks, enabled when every rank stands in that very        *)
(* collective: a rank whose phase is in Blocked waits in it.               *)
(*                                                                         *)
(* Reals are integers: psi, the EMA and the thresholds are in units of     *)
(* 1/Scale, and one unit stands for config.epsilon.  An activation shift   *)
(* is the triple of energies the code reduces it to, plus whether it is    *)
(* finite; a principal basis is the rank whose eigendecomposition          *)
(* produced it.                                                            *)
(***************************************************************************)
EXTENDS Integers, Sequences, FiniteSets, Functions

CONSTANTS
  Rank,             \* the data-parallel ranks
  Root,             \* rank 0, the source of the broadcast
  NumLayers,        \* the monitored layers are 1..NumLayers
  warmup_steps, monitor_interval, persistence, release_mad, warning_mad,
  control,          \* config.control: FALSE only monitors
  BetaNum, BetaDen, \* config.ema_beta = BetaNum / BetaDen
  Scale,            \* psi = 1 is Scale units
  MinShift,         \* config.min_shift_energy
  Shifts,           \* the shifts one rank can observe at one layer
  MicroBatches,     \* micro-batches of one optimizer update
  SaveFreq,         \* updates between two checkpoints
  MaxStep,          \* bound: updates of a training run
  MaxCrashes        \* bound: crashes that no exception explains

Layers == 1..NumLayers

Energies == [inside : Nat, total : Nat, tokens : Nat, finite : BOOLEAN]

ASSUME RankAssumption == Root \in Rank /\ IsFiniteSet(Rank)
ASSUME ConfigAssumption ==
  /\ monitor_interval \in Nat \ {0}
  /\ warmup_steps \in Nat /\ warmup_steps >= monitor_interval
  /\ persistence \in Nat \ {0}
  /\ release_mad \in Nat /\ warning_mad \in Nat /\ release_mad < warning_mad
  /\ BetaNum \in Nat /\ BetaDen \in Nat /\ BetaNum < BetaDen
  /\ control \in BOOLEAN
  /\ MinShift \in Nat
ASSUME BoundAssumption ==
  /\ NumLayers \in Nat \ {0}
  /\ Scale \in Nat \ {0}
  /\ Shifts \subseteq Energies
  /\ MicroBatches \in Nat \ {0}
  /\ SaveFreq \in Nat \ {0}
  /\ MaxStep \in Nat
  /\ MaxCrashes \in Nat

VARIABLES
  job,        \* "up", or "down" between a crash and the restart
  at,         \* at[r]: where rank r is in the update
  step,       \* step[r]: updates counted by the controller
  moments,    \* moments[r][l]: reference tokens accumulated for the PCA
  records,    \* records[r][l]: shifts kept during warm-up
  bases,      \* bases[r]: the frozen basis of every layer, <<>> before calibration
  predictor,  \* predictor[r]: EMA, thresholds, counter and flag of every layer
  draft,      \* draft[r]: the locals of calibrate()
  hooked,     \* hooked[r]: projection captured by the forward hooks of a micro-batch
  used,       \* used[r]: the projections the gradients of this update went through
  ckpt,       \* ckpt[r]: state dict in the checkpoint a restart resumes from
  crashes,    \* unexplained crashes so far
  window,     \* ghost: the last verdicts on each layer (see Hysteresis)
  savedWindow \* ghost: window when ckpt was saved

controller == <<step, moments, records, bases, predictor>>
training == <<hooked, used>>
ghosts == <<window, savedWindow>>
vars == <<job, at, controller, draft, training, ckpt, crashes, ghosts>>

-----------------------------------------------------------------------------
(* Phases of a rank.  idx is the record or the micro-batch in progress.    *)

Place(phase, layer, idx) == [phase |-> phase, layer |-> layer, idx |-> idx]

Idle == Place("idle", 0, 0)
Failed == Place("failed", 0, 0)
Train == Place("forward", 0, 1)

Blocked == {"moments", "basis", "record", "check"} \* inside a collective

AllAt(p) == \A r \in Rank : at[r] = p
AllIdle == AllAt(Idle)

-----------------------------------------------------------------------------
(* Energies and statistics.                                                *)

NoBasis == "none"
Invalid == -1  \* the observation of an energy that _valid rejects

\* distributed_sum of the energies that the ranks contribute.
Pool(e) == [inside |-> SumFunction([r \in Rank |-> e[r].inside]),
            total  |-> SumFunction([r \in Rank |-> e[r].total]),
            tokens |-> SumFunction([r \in Rank |-> e[r].tokens]),
            finite |-> \A r \in Rank : e[r].finite]

Valid(e) == e.finite /\ e.tokens > 0 /\ e.total > MinShift * e.tokens

\* psi = inside / total, in units of 1/Scale (rounded down).
Psi(e) == {p \in 0..Scale : /\ p * e.total <= Scale * e.inside
                            /\ Scale * e.inside < (p + 1) * e.total}

Observation(e) == IF Valid(e) THEN Psi(e) ELSE {Invalid}

Smooth(ema, psi) == (BetaNum * ema + (BetaDen - BetaNum) * psi) \div BetaDen

\* Faulty variants of UpdatePredictor: a release decided on the EMA before the
\* update, a row of warnings that survives an unusable observation.
UpdateReleasesLate(p, psi) ==
  IF psi = Invalid THEN [p EXCEPT !.count = 0]
  ELSE LET ema == Smooth(p.ema, psi)
           count == IF ema > p.warning THEN p.count + 1 ELSE 0
       IN [p EXCEPT !.ema = ema, !.count = count,
                    !.active = (@ \/ count >= persistence) /\ ~(p.ema < p.release)]
UpdateIgnoresInvalid(p, psi) ==
  IF psi = Invalid THEN p
  ELSE LET ema == Smooth(p.ema, psi)
           count == IF ema > p.warning THEN p.count + 1 ELSE 0
       IN [p EXCEPT !.ema = ema, !.count = count,
                    !.active = (@ \/ count >= persistence) /\ ~(ema < p.release)]

\* update_predictor, and the reset of the counter when the energy is rejected.
UpdatePredictor(p, psi) ==
  IF psi = Invalid
  THEN [p EXCEPT !.count = 0]
  ELSE LET ema == Smooth(p.ema, psi)
           count == IF ema > p.warning THEN p.count + 1 ELSE 0
       IN [p EXCEPT !.ema = ema, !.count = count,
                    !.active = (@ \/ count >= persistence) /\ ~(ema < p.release)]

\* The k-th smallest element of a sequence, and the median(s) of one.
Ordered(s, k) == {v \in Range(s) : /\ Cardinality({i \in DOMAIN s : s[i] < v}) < k
                                   /\ Cardinality({i \in DOMAIN s : s[i] <= v}) >= k}
Medians(s) == {(lo + hi) \div 2 : lo \in Ordered(s, (Len(s) + 1) \div 2),
                                  hi \in Ordered(s, Len(s) \div 2 + 1)}
Deviations(s, m) == [i \in DOMAIN s |-> IF s[i] < m THEN m - s[i] ELSE s[i] - m]

\* A predictor fresh from calibration: median m, median absolute deviation d.
Fresh(m, d) ==
  LET scale == (14826 * d) \div 10000 + 1
  IN [ema |-> m, warning |-> m + warning_mad * scale,
      release |-> m + release_mad * scale, count |-> 0, active |-> FALSE]

\* The predictors calibrate() accepts for the psi values of a layer: none when
\* there is no value or when the thresholds are not separated.
Calibrations(values) ==
  {p \in UNION {{Fresh(m, d) : d \in Medians(Deviations(values, m))} : m \in Medians(values)} :
    0 < p.release /\ p.release < p.warning /\ p.warning < Scale}

-----------------------------------------------------------------------------
(* The update loop: before_update and observe_update.                      *)

Calibrated(r) == bases[r] # <<>>

Checked(s) == s % monitor_interval = 0

NeedsObservation(r) == step[r] + 1 <= warmup_steps \/ Checked(step[r] + 1)

CanStart(r) == job = "up" /\ at[r] = Idle /\ step[r] < MaxStep

CountUpdate(r) == step' = [step EXCEPT ![r] = @ + 1]

\* No observation this time: only the update is counted.
Unobserved(r) ==
  /\ CanStart(r) /\ ~NeedsObservation(r)
  /\ CountUpdate(r)
  /\ at' = [at EXCEPT ![r] = Train]
  /\ UNCHANGED <<job, moments, records, bases, predictor, draft, training, ckpt, crashes, ghosts>>

\* The detached forward passes raise before the controller is called.
PrepassError(r) ==
  /\ CanStart(r) /\ NeedsObservation(r)
  /\ at' = [at EXCEPT ![r] = Failed]
  /\ UNCHANGED <<job, controller, draft, training, ckpt, crashes, ghosts>>

\* The warm-up records of a layer after an update: every rank keeps the shift of a
\* monitored update, whatever it is.  (Faulty variant: only if it is usable.)
KeepUsable(kept, shift, s) ==
  IF Checked(s) /\ Valid(shift) THEN Append(kept, shift) ELSE kept
Keep(kept, shift, s) == IF Checked(s) THEN Append(kept, shift) ELSE kept

\* A warm-up update.  The layers before the first non-finite one are already
\* accumulated when the rank raises.
WarmUp(r) ==
  /\ CanStart(r) /\ step[r] + 1 <= warmup_steps
  /\ CountUpdate(r)
  /\ \E shift \in [Layers -> Shifts] :
       LET Accumulated(l) == \A k \in 1..l : shift[k].finite
       IN /\ moments' = [moments EXCEPT ![r] =
               [l \in Layers |-> IF Accumulated(l) THEN @[l] + shift[l].tokens ELSE @[l]]]
          /\ records' = [records EXCEPT ![r] =
               [l \in Layers |-> IF Accumulated(l)
                                 THEN Keep(@[l], shift[l], step[r] + 1) ELSE @[l]]]
          /\ at' = [at EXCEPT ![r] =
               IF ~Accumulated(NumLayers) THEN Failed
               ELSE IF step[r] + 1 = warmup_steps THEN Place("moments", 1, 0) ELSE Train]
  /\ UNCHANGED <<job, bases, predictor, draft, training, ckpt, crashes, ghosts>>

\* A monitored update after warm-up: the rank enters the collective of layer 1.
Monitor(r) ==
  /\ CanStart(r) /\ step[r] + 1 > warmup_steps /\ Checked(step[r] + 1)
  /\ CountUpdate(r)
  /\ at' = [at EXCEPT ![r] = IF Calibrated(r) THEN Place("check", 1, 0) ELSE Failed]
  /\ UNCHANGED <<job, moments, records, bases, predictor, draft, training, ckpt, crashes, ghosts>>

\* What the verdict on a layer is, from the predictor after the check.
Verdict(p, psi) ==
  IF psi = Invalid THEN "invalid"
  ELSE IF p.ema > p.warning THEN "warn"
  ELSE IF p.ema < p.release THEN "low" ELSE "mid"

Promise == INSTANCE Hysteresis WITH
  active <- [l \in Layers |-> predictor[Root] # <<>> /\ predictor[Root][l].active],
  saved <- [window |-> savedWindow,
            active |-> [l \in Layers |-> ckpt[Root].predictor # <<>>
                                         /\ ckpt[Root].predictor[l].active]]

\* The ranks pool the shift energies of layer l and all decide on the sum.
CheckLayer(l) ==
  /\ job = "up" /\ AllAt(Place("check", l, 0))
  /\ \E shift \in [Rank -> Shifts] : \E psi \in Observation(Pool(shift)) :
       /\ predictor' = [r \in Rank |-> [predictor[r] EXCEPT ![l] = UpdatePredictor(@, psi)]]
       /\ window' = [window EXCEPT ![l] =
                       Promise!Recent(@, Verdict(predictor'[Root][l], psi))]
  /\ at' = [r \in Rank |-> IF l = NumLayers THEN Train ELSE Place("check", l + 1, 0)]
  /\ UNCHANGED <<job, step, moments, records, bases, draft, training, ckpt, crashes, savedWindow>>

-----------------------------------------------------------------------------
(* calibrate(): per layer, the pooled moments, the broadcast of the basis, *)
(* one pooled energy per record, then the thresholds on each rank alone.   *)

NoDraft == [bases |-> <<>>, predictors |-> <<>>, values |-> <<>>]

PoolMoments(l) ==
  /\ job = "up" /\ AllAt(Place("moments", l, 0))
  /\ at' = [r \in Rank |-> IF SumFunction([s \in Rank |-> moments[s][l]]) < 2
                           THEN Failed ELSE Place("basis", l, 0)]
  /\ UNCHANGED <<job, controller, draft, training, ckpt, crashes, ghosts>>

\* The basis a rank goes on with: Root's after the broadcast.  (Faulty variant: the
\* one of its own eigendecomposition.)
OwnBasis(r) == r
SharedBasis(r) == Root

\* Each rank has decomposed the covariance for itself and takes part in the broadcast.
ShareBasis(l) ==
  /\ job = "up" /\ AllAt(Place("basis", l, 0))
  /\ draft' = [r \in Rank |-> [draft[r] EXCEPT !.bases = Append(@, SharedBasis(r)), !.values = <<>>]]
  /\ at' = [r \in Rank |-> IF records[r][l] = <<>> THEN Place("thresholds", l, 0)
                           ELSE Place("record", l, 1)]
  /\ UNCHANGED <<job, controller, training, ckpt, crashes, ghosts>>

PoolRecord(l, i) ==
  /\ job = "up" /\ AllAt(Place("record", l, i))
  /\ \E psi \in Observation(Pool([r \in Rank |-> records[r][l][i]])) :
       draft' = [r \in Rank |-> [draft[r] EXCEPT
                   !.values = IF psi = Invalid THEN @ ELSE Append(@, psi)]]
  /\ at' = [r \in Rank |-> IF i = Len(records[r][l]) THEN Place("thresholds", l, 0)
                           ELSE Place("record", l, i + 1)]
  /\ UNCHANGED <<job, controller, training, ckpt, crashes, ghosts>>

\* The bases a rank holds after the thresholds of layer l: those of all layers,
\* once the last has been accepted.  (Faulty variant: the loop over the layers
\* installs each as it goes.)
InstalledSoFar(r, l) == draft[r].bases
Installed(r, l) == IF l = NumLayers THEN draft[r].bases ELSE bases[r]

\* One rank computes the thresholds of layer l: it raises, goes on to the next
\* layer, or commits the calibration of all layers at once.
Thresholds(r, l) ==
  /\ job = "up" /\ at[r] = Place("thresholds", l, 0)
  /\ IF Calibrations(draft[r].values) = {}
     THEN /\ at' = [at EXCEPT ![r] = Failed]
          /\ UNCHANGED <<controller, draft>>
     ELSE LET fresh == CHOOSE p \in Calibrations(draft[r].values) : TRUE
              predictors == Append(draft[r].predictors, fresh)
          IN /\ bases' = [bases EXCEPT ![r] = Installed(r, l)]
             /\ IF l < NumLayers
                THEN /\ draft' = [draft EXCEPT ![r].predictors = predictors]
                     /\ at' = [at EXCEPT ![r] = Place("moments", l + 1, 0)]
                     /\ UNCHANGED <<step, predictor, moments, records>>
                ELSE /\ predictor' = [predictor EXCEPT ![r] = predictors]
                     /\ records' = [records EXCEPT ![r] = [k \in Layers |-> <<>>]]
                     /\ moments' = [moments EXCEPT ![r] = [k \in Layers |-> 0]]
                     /\ draft' = [draft EXCEPT ![r] = NoDraft]
                     /\ at' = [at EXCEPT ![r] = Train]
                     /\ UNCHANGED step
  /\ UNCHANGED <<job, training, ckpt, crashes, ghosts>>

-----------------------------------------------------------------------------
(* The gradient accumulation of one update.                                *)

\* What the forward hooks of rank r project out of the gradients, per layer.
Projection(r) == [l \in Layers |->
  IF control /\ Calibrated(r) /\ predictor[r][l].active THEN bases[r][l] ELSE NoBasis]

Forward(r) ==
  /\ job = "up" /\ at[r].phase = "forward"
  /\ hooked' = [hooked EXCEPT ![r] = {Projection(r)}]
  /\ at' = [at EXCEPT ![r].phase = "backward"]
  /\ UNCHANGED <<job, controller, draft, used, ckpt, crashes, ghosts>>

\* Where a rank goes after micro-batch i.  (Faulty variant: the controller observes
\* every micro-batch instead of every update.)
ObserveAgain(i) ==
  IF i = MicroBatches THEN Place("reduce", 0, 0)
  ELSE IF \A r \in Rank : Calibrated(r) THEN Place("check", 1, 0) ELSE Place("forward", 0, i + 1)
AfterMicroBatch(i) ==
  IF i = MicroBatches THEN Place("reduce", 0, 0) ELSE Place("forward", 0, i + 1)

\* backward runs the hooks the forward registered, and those of the forward that
\* activation checkpointing recomputes.
Backward(r) ==
  /\ job = "up" /\ at[r].phase = "backward"
  /\ used' = [used EXCEPT ![r] = @ \cup hooked[r] \cup {Projection(r)}]
  /\ hooked' = [hooked EXCEPT ![r] = {}]
  /\ at' = [at EXCEPT ![r] = AfterMicroBatch(at[r].idx)]
  /\ UNCHANGED <<job, controller, draft, ckpt, crashes, ghosts>>

\* The gradients are reduced over the ranks and the optimizer steps (or skips a
\* non-finite gradient: the controller does not see the difference).
OptimizerStep ==
  /\ job = "up" /\ AllAt(Place("reduce", 0, 0))
  /\ used' = [r \in Rank |-> {}]
  /\ at' = [r \in Rank |-> Idle]
  /\ UNCHANGED <<job, controller, draft, hooked, ckpt, crashes, ghosts>>

-----------------------------------------------------------------------------
(* Checkpoint, crash and restart.                                          *)

\* What a rank saves.
NewRecords == [l \in Layers |-> <<>>]
StateDict(r) == [step |-> step[r], bases |-> bases[r], predictor |-> predictor[r],
                 moments |-> moments[r], records |-> records[r]]

NewController == [step |-> 0, bases |-> <<>>, predictor |-> <<>>,
                  moments |-> [l \in Layers |-> 0], records |-> NewRecords]

\* Every rank saves its own file between two updates.
Save ==
  /\ job = "up" /\ AllIdle
  /\ \A r \in Rank : step[r] % SaveFreq = 0
  /\ ckpt' = [r \in Rank |-> StateDict(r)]
  /\ savedWindow' = window
  /\ UNCHANGED <<job, at, controller, draft, training, crashes, window>>

\* When the driver gives up.  (Faulty variant: when every rank has raised.)
EveryRankFailed == \A r \in Rank : at[r] = Failed
JobFails == \E r \in Rank : at[r] = Failed

\* A rank raised: the driver's call fails and the job ends.
Abort ==
  /\ job = "up" /\ JobFails
  /\ job' = "down"
  /\ UNCHANGED <<at, controller, draft, training, ckpt, crashes, ghosts>>

Crash ==
  /\ job = "up" /\ crashes < MaxCrashes
  /\ job' = "down" /\ crashes' = crashes + 1
  /\ UNCHANGED <<at, controller, draft, training, ckpt, ghosts>>

\* New processes build their controllers and load the checkpoint (NewController
\* when there is none).
Restart ==
  /\ job = "down"
  /\ job' = "up"
  /\ at' = [r \in Rank |-> Idle]
  /\ step' = [r \in Rank |-> ckpt[r].step]
  /\ bases' = [r \in Rank |-> ckpt[r].bases]
  /\ predictor' = [r \in Rank |-> ckpt[r].predictor]
  /\ moments' = [r \in Rank |-> ckpt[r].moments]
  /\ records' = [r \in Rank |-> ckpt[r].records]
  /\ draft' = [r \in Rank |-> NoDraft]
  /\ hooked' = [r \in Rank |-> {}] /\ used' = [r \in Rank |-> {}]
  /\ window' = savedWindow
  /\ UNCHANGED <<ckpt, crashes, savedWindow>>

Finished == \* the run ends after its last update
  /\ job = "up" /\ AllIdle /\ \A r \in Rank : step[r] = MaxStep
  /\ UNCHANGED vars

-----------------------------------------------------------------------------
Init ==
  /\ job = "up"
  /\ at = [r \in Rank |-> Idle]
  /\ step = [r \in Rank |-> 0]
  /\ moments = [r \in Rank |-> NewController.moments]
  /\ records = [r \in Rank |-> NewController.records]
  /\ bases = [r \in Rank |-> <<>>]
  /\ predictor = [r \in Rank |-> <<>>]
  /\ draft = [r \in Rank |-> NoDraft]
  /\ hooked = [r \in Rank |-> {}]
  /\ used = [r \in Rank |-> {}]
  /\ ckpt = [r \in Rank |-> NewController]
  /\ crashes = 0
  /\ window = [l \in Layers |-> <<>>]
  /\ savedWindow = [l \in Layers |-> <<>>]

StartUpdate(r) == Unobserved(r) \/ PrepassError(r) \/ WarmUp(r) \/ Monitor(r)

Collective(l) ==
  \/ CheckLayer(l) \/ PoolMoments(l) \/ ShareBasis(l)
  \/ \E i \in 1..warmup_steps : PoolRecord(l, i)

RankStep(r) ==
  \/ StartUpdate(r) \/ Forward(r) \/ Backward(r)
  \/ \E l \in Layers : Thresholds(r, l)

Next ==
  \/ \E r \in Rank : RankStep(r)
  \/ \E l \in Layers : Collective(l)
  \/ OptimizerStep \/ Save \/ Abort \/ Crash \/ Restart \/ Finished

Spec == Init /\ [][Next]_vars

\* A live rank keeps executing, a collective all ranks have entered completes,
\* and the driver sees the exception of a failed rank.
FairSpec ==
  /\ Spec
  /\ \A r \in Rank : WF_vars(RankStep(r))
  /\ WF_vars(\E l \in Layers : Collective(l))
  /\ WF_vars(OptimizerStep) /\ WF_vars(Abort) /\ WF_vars(Restart)

-----------------------------------------------------------------------------
(* Properties.                                                             *)

Predictor == [ema : Int, warning : Int, release : Int, count : Nat, active : BOOLEAN]
Consistent(p) ==
  /\ 0 < p.release /\ p.release < p.warning /\ p.warning < Scale
  /\ p.count > 0 => p.ema > p.warning
  /\ p.count >= persistence => p.active
  /\ p.active => p.ema >= p.release
PerLayer(S) == {s \in Seq(S) : Len(s) \in {0, NumLayers}}
Dict == [step : Nat, bases : PerLayer(Rank), predictor : PerLayer(Predictor),
         moments : [Layers -> Nat], records : [Layers -> Seq(Energies)]]
Phases == Blocked \cup {"idle", "failed", "forward", "backward", "reduce", "thresholds"}

\* The type invariant.
TypeOK ==
  /\ job \in {"up", "down"}
  /\ at \in [Rank -> [phase : Phases, layer : Nat, idx : Nat]]
  /\ step \in [Rank -> Nat]
  /\ moments \in [Rank -> [Layers -> Nat]]
  /\ records \in [Rank -> [Layers -> Seq(Energies)]]
  /\ bases \in [Rank -> PerLayer(Rank)]
  /\ predictor \in [Rank -> PerLayer(Predictor)]
  /\ draft \in [Rank -> [bases : Seq(Rank), predictors : Seq(Predictor), values : Seq(Nat)]]
  /\ hooked \in [Rank -> SUBSET [Layers -> Rank \cup {NoBasis}]]
  /\ used \in [Rank -> SUBSET [Layers -> Rank \cup {NoBasis}]]
  /\ ckpt \in [Rank -> Dict]
  /\ crashes \in 0..MaxCrashes
  /\ window \in [Layers -> Seq(Promise!Verdicts)]
  /\ savedWindow \in [Layers -> Seq(Promise!Verdicts)]

\* Two ranks that wait in a collective (the gradient reduction included) wait in
\* the same one, for the same layer and the same warm-up record: no all_reduce
\* or broadcast ever meets a different one.  The code relies on it at every
\* distributed_sum, and keeps "all ranks' record positions aligned" for it.
CollectivesAligned ==
  job = "up" => \A r, s \in Rank :
    (at[r].phase \in Blocked \cup {"reduce"} /\ at[s].phase \in Blocked \cup {"reduce"})
      => at[r] = at[s]

\* Ranks that hold a calibration hold the same one, with the same EMA, counter
\* and flag on every layer, and ranks at the same place of the loop have counted
\* the same updates: pooled energies make every rank decide alike.
RanksAgree ==
  job = "up" => \A r, s \in Rank :
    /\ Calibrated(r) /\ Calibrated(s) => bases[r] = bases[s] /\ predictor[r] = predictor[s]
    /\ at[r] = at[s] /\ at[r] # Failed => step[r] = step[s]

\* Every micro-batch of an update, on every rank, in the forward and in the
\* recomputation, goes through the same projection of every layer.
UniformProjection ==
  job = "up" => \A r, s \in Rank : \A p \in used[r] \cup hooked[r], q \in used[s] \cup hooked[s] :
    p = q

\* Calibration is all or nothing and on time: wherever a rank is, in the middle of
\* calibrate() or stopped by what a layer raised there included, it holds the bases
\* and predictors of every layer or of none; and between two updates it holds them
\* exactly from the last warm-up update on, and before it one record per monitored
\* update on every layer, also across a checkpoint saved during warm-up.
CalibrationAtomic ==
  job = "up" => \A r \in Rank :
    /\ Len(bases[r]) = Len(predictor[r]) /\ Len(bases[r]) \in {0, NumLayers}
    /\ at[r] = Idle =>
         IF step[r] < warmup_steps
         THEN /\ bases[r] = <<>> /\ predictor[r] = <<>>
              /\ \A l \in Layers : Len(records[r][l]) = step[r] \div monitor_interval
         ELSE /\ Len(bases[r]) = NumLayers /\ Len(predictor[r]) = NumLayers
              /\ \A l \in Layers : records[r][l] = <<>>

\* The counter and the flag of a predictor are consistent with its EMA: a counter
\* that has reached persistence has raised the flag and the flag is not lowered
\* while it stands, an EMA below the release threshold has lowered the flag, and
\* the warning threshold stays above the release threshold.
FlagConsistent ==
  \A r \in Rank : \A l \in 1..Len(predictor[r]) : Consistent(predictor[r][l])

\* The flag of every layer is the one its last verdicts call for (Hysteresis):
\* raised by persistence warnings in a row, an unusable observation breaking the
\* row, lowered only below the release threshold, and brought back as it was by
\* a restart.
Hysteresis == Promise!Spec

\* A rank that waits in a collective gets out of it, or the job ends: the others
\* arrive, or one of them has raised and the driver aborts the job.
NoRankWaitsForever ==
  \A r \in Rank : at[r].phase \in Blocked \cup {"reduce"} ~>
                    (at[r].phase \notin Blocked \cup {"reduce"} \/ job = "down")
=============================================================================
