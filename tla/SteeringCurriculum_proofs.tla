---------------------- MODULE SteeringCurriculum_proofs ----------------------
(***************************************************************************)
(* Theorems about SteeringCurriculum, for every set of configurations, any *)
(* number of ranks, vectors and steps and any number of crashes: the ranks *)
(* keep one basis, a step has one policy, a block is prepared before it    *)
(* trains, and a frozen row stays as it is.                                *)
(***************************************************************************)
EXTENDS SteeringCurriculum, FiniteSetTheorems, WellFoundedInduction, TLAPS

-----------------------------------------------------------------------------
(* Numbers.                                                                *)

Below == {p \in Nat \X Nat : p[1] < p[2]}

\* A set of numbers has a least one.
LEMMA Least ==
  ASSUME NEW T \in SUBSET Nat, T # {}
  PROVE  \E x \in T : \A y \in T : x <= y
<1>1. IsWellFoundedOn(Below, Nat)
  BY NatLessThanWellFounded, Zenon DEF OpToRel, Below
<1>2. PICK x \in T : \A y \in T : ~ (<<y, x>> \in Below)
  BY <1>1, WFMin
<1>3. ASSUME NEW y \in T PROVE x <= y
  <2>1. <<y, x>> \in Nat \X Nat /\ <<y, x>>[1] = y /\ <<y, x>>[2] = x
    OBVIOUS
  <2>2. ~(y < x)
    BY <1>2, <2>1 DEF Below
  <2> QED BY <2>2
<1> QED BY <1>3

\* 2^n is the number of subsets of 1..n, and there is always one more.
LEMMA Doubles ==
  ASSUME NEW n \in Nat
  PROVE  2^n \in Nat /\ 2^n < 2^(n + 1)
<1>1. IsFiniteSet(1..n) /\ Cardinality(1..n) = n
  BY FS_Interval
<1>2. IsFiniteSet(1..(n + 1)) /\ Cardinality(1..(n + 1)) = n + 1
  BY FS_Interval
<1>3. IsFiniteSet(SUBSET (1..n)) /\ Cardinality(SUBSET (1..n)) = 2^n
  BY <1>1, FS_SUBSET
<1>4. IsFiniteSet(SUBSET (1..(n + 1))) /\ Cardinality(SUBSET (1..(n + 1))) = 2^(n + 1)
  BY <1>2, FS_SUBSET
<1>5. SUBSET (1..n) \subseteq SUBSET (1..(n + 1))
  OBVIOUS
<1>6. SUBSET (1..n) # SUBSET (1..(n + 1))
  <2>1. 1..(n + 1) \in SUBSET (1..(n + 1)) /\ 1..(n + 1) \notin SUBSET (1..n)
    OBVIOUS
  <2> QED BY <2>1
<1> DEFINE A == SUBSET (1..n)
           B == SUBSET (1..(n + 1))
<1>7. Cardinality(A) <= Cardinality(B) /\ Cardinality(A) # Cardinality(B)
      /\ Cardinality(A) \in Nat /\ Cardinality(B) \in Nat
  <2>1. A \in SUBSET B /\ A # B /\ IsFiniteSet(A) /\ IsFiniteSet(B)
    BY <1>3, <1>4, <1>5, <1>6
  <2> HIDE DEF A, B
  <2> QED BY <2>1, FS_Subset, FS_CardinalityType
<1> QED BY <1>3, <1>4, <1>7

LEMMA One2 == 2^0 = 1
BY Z3

LEMMA Exceeds == \A n \in Nat : n < 2^n
<1> DEFINE T == {n \in Nat : ~(n < 2^n)}
<1> SUFFICES ASSUME T # {} PROVE FALSE
  OBVIOUS
<1>1. PICK n \in T : \A m \in T : n <= m
  BY Least
<1>2. 0 \notin T
  BY One2
<1>3. n - 1 \in Nat /\ n - 1 \notin T
  <2>1. T \subseteq Nat
    OBVIOUS
  <2> HIDE DEF T
  <2> QED BY <1>1, <1>2, <2>1
<1>4. 2^(n - 1) \in Nat /\ 2^n \in Nat /\ 2^(n - 1) < 2^n
  <2>1. n = (n - 1) + 1
    BY <1>1
  <2> QED BY <1>1, <1>3, <2>1, Doubles
<1> QED BY <1>1, <1>3, <1>4

LEMMA MinIs ==
  ASSUME NEW T \in SUBSET Nat, T # {}
  PROVE  Min(T) \in T /\ \A y \in T : Min(T) <= y
BY Least DEF Min

LEMMA MinTwo == ASSUME NEW a \in Nat, NEW b \in Nat PROVE Min({a, b}) = IF a <= b THEN a ELSE b
BY DEF Min

LEMMA MaxTwo == ASSUME NEW a \in Nat, NEW b \in Nat PROVE Max({a, b}) = IF a >= b THEN a ELSE b
BY DEF Max

-----------------------------------------------------------------------------
(* The schedule.                                                           *)

\* The stages: how many there are, in both places that compute it.
LEMMA Stages ==
  ASSUME NEW c \in ConfigType
  PROVE  /\ NumStages(c) \in Nat /\ NumStages(c) >= 2
         /\ Min({n \in 0..c.num_vectors : 2^n >= c.num_vectors}) = NumStages(c) - 1
<1> DEFINE N == c.num_vectors
           S == {n \in 1..N : 2^(n - 1) >= N}
           T == {n \in 0..N : 2^n >= N}
<1>1. N \in Nat /\ N >= 2
  BY DEF ConfigType
<1>2. N - 1 \in Nat /\ N - 1 < 2^(N - 1) /\ 2^(N - 1) \in Nat
  BY <1>1, Exceeds, Doubles
<1>3. N \in S /\ S \in SUBSET Nat
  BY <1>1, <1>2
<1>4. N - 1 \in T /\ T \in SUBSET Nat
  BY <1>1, <1>2
<1>5. Min(S) \in S /\ \A y \in S : Min(S) <= y
  BY <1>3, MinIs
<1>6. Min(T) \in T /\ \A y \in T : Min(T) <= y
  BY <1>4, MinIs
<1>7. Min(S) # 1
  <2>1. 1 \notin S
    BY <1>1, One2
  <2> QED BY <1>5, <2>1
<1>8. Min(T) <= N - 1
  BY <1>4, <1>6
<1>9. Min(S) - 1 \in T
  BY <1>1, <1>5
<1>10. Min(T) + 1 \in S
  <2>1. Min(T) + 1 \in 1..N /\ (Min(T) + 1) - 1 = Min(T)
    BY <1>1, <1>6, <1>8
  <2> QED BY <1>6, <2>1
<1>11. Min(S) \in Nat /\ Min(T) \in Nat
  BY <1>3, <1>4, <1>5, <1>6
<1>12. Min(T) = Min(S) - 1
  <2>1. Min(T) <= Min(S) - 1
    BY <1>6, <1>9
  <2>2. Min(S) <= Min(T) + 1
    BY <1>5, <1>10
  <2> QED BY <1>11, <2>1, <2>2
<1>13. Min(S) >= 2
  BY <1>5, <1>7, <1>11
<1> QED BY <1>11, <1>12, <1>13 DEF NumStages

LEMMA Quotient ==
  ASSUME NEW s \in Nat, NEW k \in Nat, k >= 1
  PROVE  /\ s \div k \in Nat
         /\ s < k => s \div k = 0
         /\ s >= k => s \div k >= 1
         /\ (s + 1) \div k \in {s \div k, s \div k + 1}
OBVIOUS

LEMMA StageSteps1 ==
  ASSUME NEW c \in ConfigType
  PROVE  StageSteps(c) \in Nat /\ StageSteps(c) >= 1
BY MaxTwo DEF StageSteps, ConfigType

\* A stage follows the other, and the first lasts as long as the raw phase.
LEMMA StageFacts ==
  ASSUME NEW c \in ConfigType, NEW s \in Nat
  PROVE  /\ Stage(c, s) \in Nat
         /\ s < StageSteps(c) <=> Stage(c, s) = 0
         /\ Stage(c, s + 1) \in {Stage(c, s), Stage(c, s) + 1}
<1> DEFINE k == StageSteps(c)
           n == NumStages(c) - 1
<1>1. k \in Nat /\ k >= 1 /\ n \in Nat /\ n >= 1
  <2>1. k \in Nat /\ k >= 1
    BY StageSteps1
  <2>2. NumStages(c) \in Nat /\ NumStages(c) >= 2
    BY Stages
  <2> QED BY <2>1, <2>2
<1>2. /\ s \div k \in Nat /\ (s + 1) \div k \in Nat
      /\ s < k => s \div k = 0
      /\ s >= k => s \div k >= 1
      /\ (s + 1) \div k \in {s \div k, s \div k + 1}
  BY <1>1, Quotient
<1> HIDE DEF k, n
<1> DEFINE q == s \div k
           r == (s + 1) \div k
<1>3. /\ Stage(c, s) = IF q <= n THEN q ELSE n
      /\ Stage(c, s + 1) = IF r <= n THEN r ELSE n
  BY <1>1, <1>2, MinTwo DEF Stage, k, n
<1> HIDE DEF q, r
<1>4. q \in Nat /\ r \in {q, q + 1} /\ (s < k => q = 0) /\ (s >= k => q >= 1)
  BY <1>2 DEF q, r
<1>5. (s < k <=> Stage(c, s) = 0) /\ Stage(c, s) \in Nat
  BY <1>1, <1>3, <1>4
<1>6. Stage(c, s + 1) \in {Stage(c, s), Stage(c, s) + 1}
  BY <1>1, <1>3, <1>4
<1> QED BY <1>5, <1>6 DEF k

\* The rows of a stage go on from those of the stage before.
LEMMA Blocks ==
  ASSUME NEW c \in ConfigType, NEW s \in Nat
  PROVE  /\ Active(c, s) \in 1..c.num_vectors
         /\ PrevActive(c, s) \in 0..Active(c, s)
         /\ Stage(c, s) = 0 => PrevActive(c, s) = 0 /\ Active(c, s) = 1
         /\ StageInfo(c, s).active = Active(c, s)
         /\ StageInfo(c, s).prev_active = PrevActive(c, s)
         /\ StageInfo(c, s).in_raw_phase = InRawPhase(c, s)
<1> DEFINE k == Stage(c, s)
           N == c.num_vectors
<1>1. k \in Nat /\ N \in Nat /\ N >= 2
  BY StageFacts DEF ConfigType
<1>2. 2^k \in Nat /\ 2^k >= 1 /\ (k # 0 => 2^(k - 1) \in Nat /\ 2^(k - 1) >= 1 /\ 2^(k - 1) < 2^k)
  <2>1. ASSUME k # 0 PROVE k - 1 \in Nat /\ k = (k - 1) + 1
    BY <1>1, <2>1
  <2> QED BY <1>1, <2>1, Doubles, Exceeds
<1>3. k = 0 => 2^k = 1
  BY One2
<1> HIDE DEF k
<1>4. Active(c, s) = IF 2^k <= N THEN 2^k ELSE N
  BY <1>1, <1>2, MinTwo DEF Active, k
<1>5. PrevActive(c, s) = IF k = 0 THEN 0 ELSE IF 2^(k - 1) <= N THEN 2^(k - 1) ELSE N
  BY <1>1, <1>2, MinTwo DEF PrevActive, k
<1>6. /\ StageInfo(c, s).active = Active(c, s)
      /\ StageInfo(c, s).prev_active = PrevActive(c, s)
      /\ StageInfo(c, s).in_raw_phase = InRawPhase(c, s)
  BY Stages DEF StageInfo, Stage, Active, PrevActive, InRawPhase
<1>7. Active(c, s) \in 1..N /\ PrevActive(c, s) \in 0..Active(c, s)
  BY <1>1, <1>2, <1>4, <1>5
<1> QED BY <1>1, <1>3, <1>4, <1>5, <1>6, <1>7 DEF k

LEMMA NextBlock ==
  ASSUME NEW c \in ConfigType, NEW s \in Nat, NEW t \in Nat
  PROVE  /\ Stage(c, t) = Stage(c, s) => Active(c, t) = Active(c, s) /\ PrevActive(c, t) = PrevActive(c, s)
         /\ Stage(c, t) = Stage(c, s) + 1 => PrevActive(c, t) = Active(c, s)
<1>1. Stage(c, s) \in Nat /\ (Stage(c, s) + 1) - 1 = Stage(c, s) /\ Stage(c, s) + 1 # 0
  BY StageFacts
<1> QED BY <1>1 DEF Active, PrevActive

LEMMA SupportIs ==
  ASSUME NEW c \in ConfigType, NEW s \in Nat
  PROVE  /\ Support(c, s) \subseteq Rows(c)
         /\ c.curriculum \in Doubling => Support(c, s) \subseteq 0..(Active(c, s) - 1)
<1>1. /\ Active(c, s) \in 1..c.num_vectors /\ PrevActive(c, s) \in 0..Active(c, s)
      /\ StageInfo(c, s).active = Active(c, s) /\ StageInfo(c, s).prev_active = PrevActive(c, s)
  BY Blocks
<1>2. c.num_vectors \in Nat /\ c.num_vectors >= 2
  BY DEF ConfigType
<1>3. CASE c.curriculum \in Doubling
  <2>1. Support(c, s) \in {0..(PrevActive(c, s) - 1), 0..(Active(c, s) - 1)}
    BY <1>1, <1>3 DEF Support
  <2> QED BY <1>1, <1>2, <2>1 DEF Rows
<1>4. CASE c.curriculum \notin Doubling
  <2>1. Support(c, s) \in {{0}, Rows(c)}
    BY <1>4 DEF Support
  <2> QED BY <1>2, <1>4, <2>1 DEF Rows
<1> QED BY <1>3, <1>4

-----------------------------------------------------------------------------
(* What a hook does when it is told a step.                                *)

Scales == {"configured", "one", "norm", "trained"} \X Nat
Basis == [Rows(config) -> Row]
Hooks == [step : Nat, rows : [Rank -> Basis], scale : Scales, switched : BOOLEAN,
          last_stage : Int, expanded : BOOLEAN]

\* What is still to be done at the step the hook is at.
Measures(h) == /\ config.curriculum = "raw_then_double" /\ ~h.switched
               /\ h.step >= StageSteps(config)
Activates(h) == /\ config.curriculum \in Doubling /\ ~InRawPhase(config, h.step)
                /\ Stage(config, h.step) > h.last_stage
Expands(h) == WarmupCompleted(config, h.step) /\ ~h.expanded

Settled(h, s) == h.step = s /\ ~Measures(h) /\ ~Activates(h) /\ ~Expands(h)

Agree(h) == \A r \in Rank : h.rows[r] = h.rows[Root]

LEMMA ZeroIsRow ==
  ASSUME config \in ConfigType
  PROVE 0 \in Rows(config) /\ Rows(config) \subseteq Nat
BY DEF Rows, ConfigType

LEMMA FreshIs ==
  ASSUME NEW row \in Row, NEW r \in Rank
  PROVE  Fresh(row, r) \in Row /\ Fresh(row, r).norm = "unit"
BY DEF Fresh, Row

LEMMA ChangedIs ==
  ASSUME NEW row \in Row
  PROVE  /\ Changed(row) \in Row /\ Changed(row).norm = row.norm
         /\ \A norm \in {"zero", "raw", "unit", "copy"} :
              /\ [Changed(row) EXCEPT !.norm = norm] \in Row
              /\ [Changed(row) EXCEPT !.norm = norm].norm = norm
              /\ [row EXCEPT !.norm = norm] \in Row
              /\ row.norm = norm => [row EXCEPT !.norm = norm] = row
<1>1. row.version + 1 \in Nat
  BY DEF Row
<1>2. Changed(row) = [norm |-> row.norm, version |-> row.version + 1, by |-> row.by]
  BY DEF Changed, Row
<1> QED BY <1>1, <1>2 DEF Row

\* Both treatments of a basis leave a basis.
LEMMA NormalizedIs ==
  ASSUME config \in ConfigType, NEW rows \in Basis
  PROVE  Normalized(rows) \in Basis
<1>1. ASSUME NEW i \in Rows(config)
      PROVE  /\ rows[i] \in Row
             /\ [Zero EXCEPT !.norm = IF i = 0 THEN "unit" ELSE "copy"] \in Row
  BY RankAssumption DEF Basis, Zero, Row
<1> QED BY <1>1 DEF Normalized, Basis

LEMMA OrthogonalizedIs ==
  ASSUME config \in ConfigType, NEW rows \in Basis, NEW moved, NEW s, NEW r \in Rank
  PROVE  Orthogonalized(rows, moved, s, r) \in Basis
<1>1. ASSUME NEW i \in Rows(config) PROVE Orthogonalized(rows, moved, s, r)[i] \in Row
  <2> DEFINE row == rows[i]
  <2>1. row \in Row
    BY DEF Basis
  <2>2. Orthogonalized(rows, moved, s, r)[i] \in
          {row, Fresh(row, r), Changed(row), [Changed(row) EXCEPT !.norm = "unit"],
           [row EXCEPT !.norm = "zero"]}
    BY DEF Orthogonalized
  <2> HIDE DEF row
  <2>3. Fresh(row, r) \in Row
    BY <2>1, FreshIs
  <2>4. /\ Changed(row) \in Row /\ [Changed(row) EXCEPT !.norm = "unit"] \in Row
        /\ [row EXCEPT !.norm = "zero"] \in Row
    BY <2>1, ChangedIs
  <2> QED BY <2>1, <2>2, <2>3, <2>4
<1> QED BY <1>1 DEF Orthogonalized, Basis

LEMMA BroadcastIs ==
  ASSUME NEW h \in Hooks
  PROVE  /\ Broadcast(h) \in Hooks /\ Agree(Broadcast(h))
         /\ Broadcast(h).rows = [r \in Rank |-> h.rows[Root]]
         /\ Broadcast(h).step = h.step /\ Broadcast(h).scale = h.scale
         /\ Broadcast(h).switched = h.switched /\ Broadcast(h).expanded = h.expanded
         /\ Broadcast(h).last_stage = h.last_stage
BY RankAssumption DEF Broadcast, Hooks, Agree

LEMMA NormIs == ASSUME NEW row \in Row PROVE NormOf(row) \in Scales
BY DEF NormOf, Row, Scales, Configured, One

LEMMA ExtractIs ==
  ASSUME config \in ConfigType, NEW h \in Hooks
  PROVE  LET e == Extract(h) IN
         /\ e \in Hooks
         /\ e.step = h.step /\ e.last_stage = h.last_stage /\ e.expanded = h.expanded
         /\ ~Measures(h) => e = h
         /\ Measures(h) =>
              /\ e.switched /\ Agree(e) /\ e.rows[Root][0].norm = "unit"
              /\ h.rows[Root][0].norm = "unit" => e.rows[Root][0] = h.rows[Root][0]
              /\ \A i \in Rows(config) : i # 0 => e.rows[Root][i] = h.rows[Root][i]
<1> DEFINE b == Broadcast(h)
           first == b.rows[Root][0]
           unit == IF first.norm = "unit" THEN first ELSE Fresh(first, Root)
           rows == [r \in Rank |-> [b.rows[r] EXCEPT ![0] = unit]]
           e == Extract(h)
<1>1. CASE ~Measures(h)
  <2>1. e = h
    BY <1>1 DEF Extract, Measures
  <2> QED BY <1>1, <2>1
<1>2. CASE Measures(h)
  <2>1. b \in Hooks /\ b.step = h.step /\ b.last_stage = h.last_stage /\ b.expanded = h.expanded
        /\ b.rows = [r \in Rank |-> h.rows[Root]]
    BY BroadcastIs
  <2>2. h.rows[Root] \in Basis
    BY RankAssumption DEF Hooks
  <2>3. first = h.rows[Root][0] /\ first \in Row
    BY <2>1, <2>2, RankAssumption, ZeroIsRow DEF Basis
  <2>4. unit \in Row /\ unit.norm = "unit"
    BY <2>3, FreshIs, RankAssumption
  <2>5. e = [b EXCEPT !.rows = rows, !.scale = NormOf(first), !.switched = TRUE]
    BY <1>2 DEF Extract, Measures
  <2>6. NormOf(first) \in Scales
    BY <2>3, NormIs
  <2> HIDE DEF unit, first, b, e
  <2>7. \A r \in Rank : rows[r] = [h.rows[Root] EXCEPT ![0] = unit]
    BY <2>1
  <2>8. [h.rows[Root] EXCEPT ![0] = unit] \in Basis
    BY <2>2, <2>4 DEF Basis
  <2>9. rows \in [Rank -> Basis]
    BY <2>7, <2>8
  <2> HIDE DEF rows
  <2>10. /\ e \in Hooks /\ e.rows = rows /\ e.switched
         /\ e.step = h.step /\ e.last_stage = h.last_stage /\ e.expanded = h.expanded
    BY <2>1, <2>5, <2>6, <2>9 DEF Hooks
  <2>11. Agree(e)
    BY <2>7, <2>10, RankAssumption DEF Agree
  <2>12. e.rows[Root] = [h.rows[Root] EXCEPT ![0] = unit]
    BY <2>7, <2>10, RankAssumption
  <2>13. e.rows[Root][0] = unit /\ \A i \in Rows(config) : i # 0 => e.rows[Root][i] = h.rows[Root][i]
    BY <2>2, <2>12, ZeroIsRow DEF Basis
  <2>14. h.rows[Root][0].norm = "unit" => unit = h.rows[Root][0]
    BY <2>3 DEF unit
  <2> QED BY <1>2, <2>4, <2>10, <2>11, <2>13, <2>14 DEF e
<1> QED BY <1>1, <1>2

\* The rows of the block of a step.
Block(s) == PrevActive(config, s)..(Active(config, s) - 1)

\* A rank's row of the new basis is filled if it is zero and in the block.
FilledFrom(new, old, s) ==
  \A i \in Rows(config) :
    IF i \in Block(s) /\ old[i].norm = "zero" THEN new[i].norm = "unit" ELSE new[i] = old[i]

LEMMA ActivateIs ==
  ASSUME config \in ConfigType, NEW h \in Hooks
  PROVE  LET a == Activate(h) IN
         /\ a \in Hooks
         /\ a.step = h.step /\ a.switched = h.switched /\ a.expanded = h.expanded /\ a.scale = h.scale
         /\ ~Activates(h) => a = h
         /\ Agree(h) => Agree(a)
         /\ Activates(h) =>
              /\ a.last_stage = Stage(config, h.step)
              /\ FilledFrom(a.rows[Root], h.rows[Root], h.step)
              /\ \A r \in Rank : \E q \in Rank : FilledFrom(a.rows[r], h.rows[q], h.step)
<1> DEFINE rows == [r \in Rank |-> [i \in Rows(config) |->
                      IF i \in Block(h.step) THEN Filled(h.rows[r][i], r) ELSE h.rows[r][i]]]
           filled == [h EXCEPT !.rows = rows]
           a == Activate(h)
<1>1. CASE ~Activates(h)
  <2>1. a = h
    BY <1>1 DEF Activate, Activates
  <2> QED BY <1>1, <2>1
<1>2. CASE Activates(h)
  <2>1. a = [(IF filled = h THEN h ELSE Unified(filled)) EXCEPT !.last_stage = Stage(config, h.step)]
    <3>1. filled = [h EXCEPT !.rows = [r \in Rank |-> [i \in Rows(config) |->
                     IF i \in PrevActive(config, h.step)..(Active(config, h.step) - 1)
                     THEN Filled(@[r][i], r) ELSE @[r][i]]]]
      BY DEF Block, Hooks
    <3> QED BY <1>2, <3>1, Zenon DEF Activate, Activates
  <2>2. ASSUME NEW r \in Rank PROVE h.rows[r] \in Basis /\ \A i \in Rows(config) : h.rows[r][i] \in Row
    BY DEF Hooks, Basis
  <2>3. ASSUME NEW r \in Rank PROVE rows[r] \in Basis /\ FilledFrom(rows[r], h.rows[r], h.step)
    <3>1. ASSUME NEW i \in Rows(config)
          PROVE  /\ rows[r][i] \in Row
                 /\ IF i \in Block(h.step) /\ h.rows[r][i].norm = "zero" THEN rows[r][i].norm = "unit"
                    ELSE rows[r][i] = h.rows[r][i]
      <4>1. h.rows[r][i] \in Row
        BY <2>2
      <4>2. rows[r][i] = IF i \in Block(h.step) THEN Filled(h.rows[r][i], r) ELSE h.rows[r][i]
        OBVIOUS
      <4> QED BY <4>1, <4>2, FreshIs DEF Filled
    <3>2. rows[r] = [i \in Rows(config) |-> rows[r][i]]
      OBVIOUS
    <3> QED BY <3>1, <3>2 DEF Basis, FilledFrom
  <2>4. h.step \in Nat /\ Stage(config, h.step) \in Int
    BY StageFacts DEF Hooks
  <2>5. rows \in [Rank -> Basis]
    <3>1. rows = [r \in Rank |-> rows[r]]
      OBVIOUS
    <3> HIDE DEF rows
    <3> QED BY <2>3, <3>1
  <2> HIDE DEF rows
  <2>6. /\ filled \in Hooks /\ filled.rows = rows /\ filled.step = h.step /\ filled.scale = h.scale
        /\ filled.switched = h.switched /\ filled.expanded = h.expanded
    BY <2>5 DEF Hooks
  <2> HIDE DEF filled
  <2>7. CASE filled = h
    <3>1. a = [h EXCEPT !.last_stage = Stage(config, h.step)] /\ rows = h.rows
      BY <2>1, <2>6, <2>7
    <3> HIDE DEF a
    <3>2. /\ a \in Hooks /\ a.rows = h.rows /\ a.step = h.step /\ a.scale = h.scale
          /\ a.switched = h.switched /\ a.expanded = h.expanded
          /\ a.last_stage = Stage(config, h.step)
      BY <2>4, <3>1 DEF Hooks
    <3>3. Agree(h) => Agree(a)
      BY <3>2 DEF Agree
    <3>4. \A r \in Rank : FilledFrom(a.rows[r], h.rows[r], h.step)
      BY <2>3, <3>1, <3>2
    <3> QED BY <1>2, <3>2, <3>3, <3>4, RankAssumption DEF a
  <2>8. CASE filled # h
    <3>1. a = [Broadcast(filled) EXCEPT !.last_stage = Stage(config, h.step)]
      BY <2>1, <2>8 DEF Unified
    <3> HIDE DEF a
    <3>2. /\ Broadcast(filled) \in Hooks /\ Broadcast(filled).rows = [r \in Rank |-> rows[Root]]
          /\ Broadcast(filled).step = h.step /\ Broadcast(filled).scale = h.scale
          /\ Broadcast(filled).switched = h.switched /\ Broadcast(filled).expanded = h.expanded
      BY <2>6, BroadcastIs
    <3>3. /\ a \in Hooks /\ a.rows = [r \in Rank |-> rows[Root]] /\ a.step = h.step /\ a.scale = h.scale
          /\ a.switched = h.switched /\ a.expanded = h.expanded
          /\ a.last_stage = Stage(config, h.step)
      BY <2>4, <3>1, <3>2 DEF Hooks
    <3>4. Agree(a) /\ a.rows[Root] = rows[Root] /\ \A r \in Rank : a.rows[r] = rows[Root]
      BY <3>3, RankAssumption DEF Agree
    <3>5. FilledFrom(rows[Root], h.rows[Root], h.step)
      BY <2>3, RankAssumption
    <3> QED BY <1>2, <3>3, <3>4, <3>5, RankAssumption DEF a
  <2> QED BY <2>7, <2>8
<1> QED BY <1>1, <1>2

LEMMA ExpandIs ==
  ASSUME config \in ConfigType, NEW h \in Hooks
  PROVE  LET x == Expand(h) IN
         /\ x \in Hooks
         /\ x.step = h.step /\ x.switched = h.switched /\ x.last_stage = h.last_stage /\ x.scale = h.scale
         /\ ~Expands(h) => x = h
         /\ Expands(h) => x.expanded
<1>1. CASE ~Expands(h)
  BY <1>1 DEF Expand, Expands
<1>2. CASE Expands(h)
  <2> DEFINE rows == [r \in Rank |-> Orthogonalized(h.rows[r], {}, h.step, r)]
  <2>1. ASSUME NEW r \in Rank PROVE Orthogonalized(h.rows[r], {}, h.step, r) \in Basis
    <3>1. h.rows[r] \in Basis
      BY DEF Hooks
    <3> QED BY <3>1, OrthogonalizedIs
  <2>2. rows \in [Rank -> Basis]
    BY <2>1
  <2>3. Expand(h) = [h EXCEPT !.rows = rows, !.expanded = TRUE]
    BY <1>2 DEF Expand, Expands
  <2> HIDE DEF rows
  <2> QED BY <1>2, <2>2, <2>3 DEF Hooks
<1> QED BY <1>1, <1>2

\* The hook between the parts of SetStep.
At(h, s) == [h EXCEPT !.step = s]

LEMMA AtIs ==
  ASSUME NEW h \in Hooks, NEW s \in Nat
  PROVE  /\ At(h, s) \in Hooks /\ At(h, s).step = s /\ At(h, s).rows = h.rows
         /\ At(h, s).scale = h.scale /\ At(h, s).switched = h.switched
         /\ At(h, s).last_stage = h.last_stage /\ At(h, s).expanded = h.expanded
         /\ h.step = s => At(h, s) = h
BY DEF At, Hooks

\* A hook that has been told a step has nothing left to do at it.
LEMMA SetStepSettles ==
  ASSUME config \in ConfigType, NEW h \in Hooks, NEW s \in Nat
  PROVE  /\ SetStep(h, s) \in Hooks /\ Settled(SetStep(h, s), s)
         /\ Agree(h) /\ ~Expands(At(h, s)) => Agree(SetStep(h, s))
<1> DEFINE a == At(h, s)
           e == Extract(a)
           b == Activate(e)
           x == Expand(b)
<1>1. a \in Hooks /\ a.step = s /\ a.rows = h.rows /\ a.expanded = h.expanded
  BY AtIs
<1> HIDE DEF a
<1>2. /\ e \in Hooks /\ e.step = s /\ e.expanded = a.expanded
      /\ ~Measures(a) => e = a
      /\ Measures(a) => e.switched /\ Agree(e)
  BY <1>1, ExtractIs
<1> HIDE DEF e
<1>3. ~Measures(e)
  BY <1>1, <1>2 DEF Measures
<1>4. /\ b \in Hooks /\ b.step = s /\ b.switched = e.switched /\ b.expanded = e.expanded
      /\ ~Activates(e) => b = e
      /\ Agree(e) => Agree(b)
      /\ Activates(e) => b.last_stage = Stage(config, e.step)
  BY <1>2, ActivateIs
<1> HIDE DEF b
<1>5. ~Activates(b) /\ ~Measures(b)
  <2>1. Stage(config, s) \in Nat
    BY StageFacts
  <2> QED BY <1>2, <1>3, <1>4, <2>1 DEF Activates, Measures
<1>6. /\ x \in Hooks /\ x.step = s /\ x.switched = b.switched /\ x.last_stage = b.last_stage
      /\ ~Expands(b) => x = b
      /\ Expands(b) => x.expanded
  BY <1>4, ExpandIs
<1> HIDE DEF x
<1>7. Settled(x, s)
  BY <1>4, <1>5, <1>6 DEF Settled, Measures, Activates, Expands
<1>8. SetStep(h, s) = x
  BY DEF SetStep, At, x, b, e, a
<1>9. Agree(h) /\ ~Expands(a) => Agree(x)
  <2> SUFFICES ASSUME Agree(h), ~Expands(a) PROVE Agree(x)
    OBVIOUS
  <2>1. Agree(a)
    BY <1>1 DEF Agree
  <2>2. Agree(b)
    BY <1>2, <1>4, <2>1
  <2>3. ~Expands(b)
    BY <1>1, <1>2, <1>4 DEF Expands
  <2> QED BY <1>6, <2>2, <2>3
<1> QED BY <1>6, <1>7, <1>8, <1>9 DEF a

\* Being told the same step again changes nothing.
LEMMA SettledStays ==
  ASSUME config \in ConfigType, NEW h \in Hooks, NEW s \in Nat, Settled(h, s)
  PROVE  SetStep(h, s) = h
<1>1. At(h, s) = h /\ ~Measures(h) /\ ~Activates(h) /\ ~Expands(h)
  BY AtIs DEF Settled
<1>2. Extract(h) = h
  BY <1>1, ExtractIs
<1>3. Activate(h) = h
  BY <1>1, ActivateIs
<1>4. Expand(h) = h
  BY <1>1, ExpandIs
<1> QED BY <1>1, <1>2, <1>3, <1>4 DEF SetStep, At

\* The scale changes only where a raw vector is measured.
LEMMA SetStepScale ==
  ASSUME config \in ConfigType, NEW h \in Hooks, NEW s \in Nat,
         config.curriculum # "raw_then_double"
  PROVE  SetStep(h, s).scale = h.scale
<1> DEFINE a == At(h, s)
<1>1. a \in Hooks /\ a.scale = h.scale
  BY AtIs
<1>2. ~Measures(a)
  BY DEF Measures
<1>3. Extract(a) = a
  BY <1>1, <1>2, ExtractIs
<1>4. Activate(a) \in Hooks /\ Activate(a).scale = h.scale
  BY <1>1, ActivateIs
<1>5. Expand(Activate(a)).scale = h.scale
  BY <1>4, ExpandIs
<1> QED BY <1>3, <1>5 DEF SetStep, At

-----------------------------------------------------------------------------
(* The basis of a doubling curriculum at a step.                           *)

\* The rows of the stage are unit vectors and the later ones zero; in the raw phase
\* only basis[0] may be anything else than zero.
PreparedRow(row, i, s) ==
  IF InRawPhase(config, s) THEN i # 0 => row.norm = "zero"
  ELSE row.norm = IF i < Active(config, s) THEN "unit" ELSE "zero"

Prepared(rows, s) == \A r \in Rank : \A i \in Rows(config) : PreparedRow(rows[r][i], i, s)

\* A hook whose rows are those of step s, and that will act when a new stage comes.
InLine(h, s) ==
  config.curriculum \in Doubling =>
    /\ Prepared(h.rows, s)
    /\ IF InRawPhase(config, s) THEN h.last_stage = -1 /\ ~h.switched
       ELSE h.last_stage <= Stage(config, s)

\* How a stage goes on from the step before.
LEMMA OneStep ==
  ASSUME NEW c \in ConfigType, NEW p \in Nat, NEW s \in {p, p + 1}
  PROVE  /\ s \in Nat /\ Stage(c, p) \in Nat /\ Stage(c, s) \in {Stage(c, p), Stage(c, p) + 1}
         /\ InRawPhase(c, s) => InRawPhase(c, p)
         /\ c.curriculum = "raw_then_double" =>
              /\ InRawPhase(c, s) <=> Stage(c, s) = 0
              /\ InRawPhase(c, s) <=> s < StageSteps(c)
         /\ Active(c, p) \in 1..c.num_vectors /\ Active(c, s) \in 1..c.num_vectors
         /\ Stage(c, s) = Stage(c, p) => Active(c, s) = Active(c, p) /\ PrevActive(c, s) = PrevActive(c, p)
         /\ Stage(c, s) = Stage(c, p) + 1 => PrevActive(c, s) = Active(c, p)
         /\ Stage(c, p) = 0 => Active(c, p) = 1 /\ PrevActive(c, p) = 0
         /\ PrevActive(c, s) \in 0..Active(c, s)
         /\ PrevActive(c, p) \in 0..Active(c, p)
<1>1. s \in Nat
  OBVIOUS
<1>2. StageSteps(c) \in Nat
  BY StageSteps1
<1>3. Stage(c, s) \in {Stage(c, p), Stage(c, p) + 1}
  BY StageFacts
<1>4. InRawPhase(c, s) => InRawPhase(c, p)
  BY <1>2 DEF InRawPhase
<1>5. c.curriculum = "raw_then_double" =>
        /\ InRawPhase(c, s) <=> Stage(c, s) = 0
        /\ InRawPhase(c, s) <=> s < StageSteps(c)
  BY <1>1, StageFacts DEF InRawPhase
<1> QED BY <1>1, <1>3, <1>4, <1>5, StageFacts, Blocks, NextBlock

LEMMA SetStepInLine ==
  ASSUME config \in ConfigType, NEW h \in Hooks, NEW p \in Nat, NEW s \in {p, p + 1}, InLine(h, p)
  PROVE  InLine(SetStep(h, s), s)
<1> SUFFICES ASSUME config.curriculum \in Doubling
             PROVE  InLine(SetStep(h, s), s)
  BY DEF InLine
<1> DEFINE a == At(h, s)
           e == Extract(a)
           b == Activate(e)
<1> USE DEF Doubling
<1>0. /\ Stage(config, p) \in Nat /\ Stage(config, s) \in {Stage(config, p), Stage(config, p) + 1}
      /\ InRawPhase(config, s) => InRawPhase(config, p)
      /\ Active(config, p) \in Nat /\ Active(config, p) >= 1
      /\ Active(config, s) \in Nat /\ PrevActive(config, s) \in 0..Active(config, s)
      /\ Stage(config, s) = Stage(config, p) => Active(config, s) = Active(config, p)
      /\ Stage(config, s) = Stage(config, p) + 1 => PrevActive(config, s) = Active(config, p)
  <2>1. config.num_vectors \in Nat
    BY DEF ConfigType
  <2>2. Active(config, p) \in 1..config.num_vectors /\ Active(config, s) \in 1..config.num_vectors
    BY OneStep
  <2>3. /\ Stage(config, p) \in Nat /\ Stage(config, s) \in {Stage(config, p), Stage(config, p) + 1}
        /\ InRawPhase(config, s) => InRawPhase(config, p)
        /\ PrevActive(config, s) \in 0..Active(config, s)
    BY OneStep, SMTT(30)
  <2>4. /\ Stage(config, s) = Stage(config, p) => Active(config, s) = Active(config, p)
        /\ Stage(config, s) = Stage(config, p) + 1 => PrevActive(config, s) = Active(config, p)
    BY OneStep
  <2> QED BY <2>1, <2>2, <2>3, <2>4
<1>1. /\ s \in Nat /\ a \in Hooks /\ a.step = s /\ a.rows = h.rows
      /\ a.switched = h.switched /\ a.last_stage = h.last_stage
  BY AtIs
<1> HIDE DEF a
<1>2. /\ e \in Hooks /\ e.step = s /\ e.last_stage = h.last_stage
      /\ ~Measures(a) => e = a
      /\ Measures(a) =>
           /\ e.switched /\ Agree(e) /\ e.rows[Root][0].norm = "unit"
           /\ a.rows[Root][0].norm = "unit" => e.rows[Root][0] = a.rows[Root][0]
           /\ \A i \in Rows(config) : i # 0 => e.rows[Root][i] = a.rows[Root][i]
  BY <1>1, ExtractIs
<1> HIDE DEF e
<1>3. /\ b \in Hooks /\ b.step = s /\ b.switched = e.switched
      /\ ~Activates(e) => b = e
      /\ Activates(e) =>
           /\ b.last_stage = Stage(config, s)
           /\ \A r \in Rank : \E q \in Rank : FilledFrom(b.rows[r], e.rows[q], s)
  BY <1>2, ActivateIs
<1> HIDE DEF b
<1>4. SetStep(h, s) = b
  <2>1. ~Expands(b)
    BY DEF Expands, WarmupCompleted
  <2>2. Expand(b) = b
    BY <1>3, <2>1, ExpandIs
  <2> QED BY <2>2 DEF SetStep, At, b, e, a
<1>5. /\ Prepared(h.rows, p)
      /\ IF InRawPhase(config, p) THEN h.last_stage = -1 /\ ~h.switched
         ELSE h.last_stage <= Stage(config, p)
  BY DEF InLine
<1>6. CASE InRawPhase(config, s)
  <2>0. InRawPhase(config, p) /\ StageSteps(config) \in Nat
    BY <1>0, <1>6, StageSteps1
  <2>1. InRawPhase(config, p) /\ s < StageSteps(config) /\ StageSteps(config) \in Nat
    BY <1>6, <2>0 DEF InRawPhase
  <2>2. ~Measures(a)
    BY <1>1, <2>1 DEF Measures
  <2>3. ~Activates(e)
    BY <1>2, <1>6 DEF Activates
  <2>4. b.rows = h.rows /\ b.last_stage = -1 /\ ~b.switched
    BY <1>1, <1>2, <1>3, <1>5, <2>1, <2>2, <2>3
  <2> QED BY <1>4, <1>5, <1>6, <2>1, <2>4 DEF InLine, Prepared, PreparedRow
<1>7. CASE ~InRawPhase(config, s)
  <2>1. /\ Stage(config, p) \in Nat /\ Stage(config, s) \in {Stage(config, p), Stage(config, p) + 1}
        /\ Active(config, p) \in Nat /\ Active(config, s) \in Nat
        /\ PrevActive(config, s) \in 0..Active(config, s)
    BY <1>0
  \* The rows of the earlier stages are ready, and if basis[0] was raw it has been measured.
  <2>2. ASSUME NEW r \in Rank, NEW i \in Rows(config)
        PROVE  IF InRawPhase(config, p)
               THEN e.rows[r][i].norm = IF i = 0 THEN "unit" ELSE "zero"
               ELSE e.rows[r][i].norm = IF i < Active(config, p) THEN "unit" ELSE "zero"
    <3>1. Active(config, p) \in Nat /\ Active(config, p) >= 1 /\ i \in Nat
      BY <1>0, ZeroIsRow
    <3>2. PreparedRow(h.rows[r][i], i, p) /\ PreparedRow(h.rows[Root][i], i, p)
          /\ PreparedRow(h.rows[Root][0], 0, p)
      BY <1>5, RankAssumption, ZeroIsRow DEF Prepared
    <3>3. CASE Measures(a)
      <4>1. e.rows[r] = e.rows[Root]
        BY <1>2, <3>3 DEF Agree
      <4>2. i = 0 => e.rows[r][i].norm = "unit"
        BY <1>2, <3>3, <4>1
      <4>3. i # 0 => e.rows[r][i] = h.rows[Root][i]
        BY <1>1, <1>2, <3>3, <4>1
      <4> QED BY <3>1, <3>2, <4>2, <4>3 DEF PreparedRow
    <3>4. CASE ~Measures(a)
      <4>1. e.rows = h.rows
        BY <1>1, <1>2, <3>4
      <4>2. ~InRawPhase(config, p)
        <5> SUFFICES ASSUME InRawPhase(config, p) PROVE FALSE
          OBVIOUS
        <5>1. config.curriculum = "raw_then_double" /\ ~h.switched
          BY <1>5 DEF InRawPhase
        <5>2. StageSteps(config) \in Nat /\ s >= StageSteps(config)
          BY <1>1, <1>7, <5>1, StageSteps1 DEF InRawPhase
        <5> QED BY <1>1, <3>4, <5>1, <5>2 DEF Measures
      <4> QED BY <3>2, <4>1, <4>2 DEF PreparedRow
    <3> QED BY <3>3, <3>4
  <2>3. CASE ~Activates(e)
    <3>1. Stage(config, s) <= h.last_stage /\ h.last_stage \in Int
      BY <1>2, <1>7, <2>1, <2>3 DEF Activates, Hooks
    <3>2. ~InRawPhase(config, p) /\ Stage(config, s) = Stage(config, p)
      BY <1>5, <2>1, <3>1
    <3>3. Active(config, s) = Active(config, p)
      BY <3>2, OneStep
    <3>4. Prepared(b.rows, s)
      BY <1>3, <1>7, <2>2, <2>3, <3>2, <3>3 DEF Prepared, PreparedRow
    <3>5. b.last_stage <= Stage(config, s)
      BY <1>2, <1>3, <1>5, <2>3, <3>2
    <3> QED BY <1>4, <1>7, <3>4, <3>5 DEF InLine
  <2>4. CASE Activates(e)
    <3>1. ASSUME NEW r \in Rank, NEW i \in Rows(config)
          PROVE  b.rows[r][i].norm = IF i < Active(config, s) THEN "unit" ELSE "zero"
      <4>1. PICK q \in Rank : FilledFrom(b.rows[r], e.rows[q], s)
        BY <1>3, <2>4
      <4>2. IF i \in Block(s) /\ e.rows[q][i].norm = "zero" THEN b.rows[r][i].norm = "unit"
            ELSE b.rows[r][i] = e.rows[q][i]
        BY <4>1 DEF FilledFrom
      <4>3. i \in Nat /\ (i \in Block(s) <=> i >= PrevActive(config, s) /\ i < Active(config, s))
        BY <2>1, ZeroIsRow DEF Block
      <4>4. CASE InRawPhase(config, p)
        <5>1. Stage(config, p) = 0 /\ Stage(config, s) # 0
          BY <1>7, <4>4, OneStep DEF InRawPhase
        <5>2. PrevActive(config, s) = 1
          BY <2>1, <5>1, OneStep, SMTT(30)
        <5> QED BY <2>1, <2>2, <4>2, <4>3, <4>4, <5>2
      <4>5. CASE ~InRawPhase(config, p)
        <5>1. \/ Active(config, s) = Active(config, p)
              \/ PrevActive(config, s) = Active(config, p)
          BY <1>0
        <5> QED BY <2>1, <2>2, <4>2, <4>3, <4>5, <5>1
      <4> QED BY <4>4, <4>5
    <3>2. b.last_stage <= Stage(config, s)
      BY <1>3, <2>1, <2>4
    <3> QED BY <1>4, <1>7, <3>1, <3>2 DEF InLine, Prepared, PreparedRow
  <2> QED BY <2>3, <2>4
<1> QED BY <1>6, <1>7

-----------------------------------------------------------------------------
(* A new hook.                                                             *)

Unset == [step |-> 0, rows |-> [r \in Rank |-> BuiltRows], scale |-> Configured,
          switched |-> FALSE, last_stage |-> -1, expanded |-> FALSE]

LEMMA NewRowsIs ==
  ASSUME config \in ConfigType
  PROVE  /\ NewRows \in Basis /\ BuiltRows \in Basis /\ Unset \in Hooks /\ Configured \in Scales
         /\ \A i \in Rows(config) : NewRows[i].norm = "zero"
         /\ config.curriculum \in Doubling => BuiltRows = NewRows
<1>1. NewRows \in Basis /\ \A i \in Rows(config) : NewRows[i].norm = "zero"
  BY RankAssumption DEF NewRows, Basis, Zero, Row
<1>2. BuiltRows \in Basis
  BY <1>1, NormalizedIs DEF BuiltRows
<1>3. config.curriculum \in Doubling => BuiltRows = NewRows
  BY DEF BuiltRows, InWarmup, Doubling
<1>4. Configured \in Scales
  BY DEF Scales, Configured
<1> QED BY <1>1, <1>2, <1>3, <1>4 DEF Unset, Hooks

LEMMA NewHookIs ==
  ASSUME config \in ConfigType
  PROVE  /\ NewHook \in Hooks /\ NewHook.step = 0 /\ NewHook.scale = Configured
         /\ Agree(NewHook) /\ InLine(NewHook, 0)
<1> DEFINE b == Activate(Unset)
<1>1. /\ Unset \in Hooks /\ Unset.step = 0 /\ Unset.scale = Configured /\ Unset.last_stage = -1
      /\ ~Unset.switched /\ Unset.rows = [r \in Rank |-> BuiltRows]
  BY NewRowsIs DEF Unset
<1>2. /\ StageSteps(config) \in Nat /\ StageSteps(config) >= 1 /\ Stage(config, 0) = 0
      /\ Active(config, 0) = 1 /\ PrevActive(config, 0) = 0
  <2>1. StageSteps(config) \in Nat /\ StageSteps(config) >= 1
    BY StageSteps1
  <2>2. Stage(config, 0) = 0
    BY <2>1, StageFacts
  <2> QED BY <2>1, <2>2, Blocks
<1>3. ~Measures(Unset)
  BY <1>1, <1>2 DEF Measures
<1>4. Extract(Unset) = Unset
  BY <1>1, <1>3, ExtractIs
<1>5. /\ b \in Hooks /\ b.step = 0 /\ b.scale = Configured /\ ~b.switched /\ Agree(b)
      /\ ~Activates(Unset) => b = Unset
      /\ Activates(Unset) =>
           /\ b.last_stage = 0
           /\ \A r \in Rank : \E q \in Rank : FilledFrom(b.rows[r], BuiltRows, 0)
  <2>1. Agree(Unset)
    BY <1>1, RankAssumption DEF Agree
  <2>2. \A q \in Rank : Unset.rows[q] = BuiltRows
    BY <1>1
  <2> QED BY <1>1, <1>2, <2>1, <2>2, ActivateIs
<1> HIDE DEF b
<1>6. ~Expands(b)
  BY <1>5 DEF Expands, WarmupCompleted, ConfigType
<1>7. NewHook = b
  <2>1. At(Unset, 0) = Unset
    BY <1>1, AtIs
  <2>2. Expand(b) = b
    BY <1>5, <1>6, ExpandIs
  <2> QED BY <1>4, <2>1, <2>2 DEF NewHook, SetStep, At, Unset, b
<1>8. InLine(b, 0)
  <2> SUFFICES ASSUME config.curriculum \in Doubling
               PROVE  /\ Prepared(b.rows, 0)
                      /\ IF InRawPhase(config, 0) THEN b.last_stage = -1 /\ ~b.switched
                         ELSE b.last_stage <= Stage(config, 0)
    BY DEF InLine
  <2>0. BuiltRows = NewRows
    BY NewRowsIs
  <2>1. CASE InRawPhase(config, 0)
    <3>1. ~Activates(Unset)
      BY <1>1, <2>1 DEF Activates
    <3>2. b = Unset
      BY <1>5, <3>1
    <3> QED BY <1>1, <2>0, <2>1, <3>2, NewRowsIs DEF Prepared, PreparedRow
  <2>2. CASE ~InRawPhase(config, 0)
    <3>1. Activates(Unset)
      BY <1>1, <1>2, <2>2 DEF Activates
    <3>2. ASSUME NEW r \in Rank, NEW i \in Rows(config)
          PROVE  b.rows[r][i].norm = IF i < Active(config, 0) THEN "unit" ELSE "zero"
      <4>1. FilledFrom(b.rows[r], NewRows, 0)
        BY <1>5, <2>0, <3>1
      <4>2. i \in Nat /\ NewRows[i].norm = "zero"
        BY NewRowsIs, ZeroIsRow
      <4>3. i \in Block(0) <=> i < 1
        BY <1>2, <4>2 DEF Block
      <4> QED BY <1>2, <4>1, <4>2, <4>3 DEF FilledFrom
    <3> QED BY <1>2, <1>5, <2>2, <3>1, <3>2 DEF Prepared, PreparedRow
  <2> QED BY <2>1, <2>2
<1> QED BY <1>5, <1>7, <1>8

\* A hook that goes on from the rows of a checkpoint.
LEMMA LoadedIs ==
  ASSUME config \in ConfigType, NEW rows \in Basis, NEW scale \in Scales
  PROVE  LET h == [NewHook EXCEPT !.rows = [r \in Rank |-> rows], !.scale = scale] IN
         /\ h \in Hooks /\ h.step = 0 /\ h.scale = scale /\ Agree(h)
         /\ h.rows = [r \in Rank |-> rows]
         /\ h.last_stage = NewHook.last_stage /\ h.switched = NewHook.switched
BY NewHookIs, RankAssumption DEF Hooks, Agree

-----------------------------------------------------------------------------
(* Types.                                                                  *)

Places == {"generate", "log_prob", "forward", "optimize", "trained", "validated", "saved",
           "failed", "down"}

Typed ==
  /\ config \in ConfigType
  /\ pc \in Places
  /\ step \in Nat \ {0} /\ batch \in Nat /\ stepped \in Nat
  /\ hook \in Hooks
  /\ moments \in SUBSET Rows(config)
  /\ injected = [roll |-> injected.roll, old |-> injected.old, new |-> injected.new]
  /\ ckpt \in [step : Nat, rows : Basis, scale : Scales, moments : SUBSET Rows(config)]

\* The rows an optimizer step leaves.
Left == [i \in Rank |-> Trained(hook.rows[i], i)]
Optimized == Broadcast([hook EXCEPT !.rows = Left, !.scale = NextScale])

LEMMA TrainedIs ==
  ASSUME Typed
  PROVE  /\ Moved \subseteq Rows(config)
         /\ \A r \in Rank : Trained(hook.rows[r], r) \in Basis
         /\ Optimized \in Hooks /\ Agree(Optimized)
         /\ Optimized.rows = [r \in Rank |-> Trained(hook.rows[Root], Root)]
         /\ Optimized.step = hook.step /\ Optimized.switched = hook.switched
         /\ Optimized.expanded = hook.expanded /\ Optimized.last_stage = hook.last_stage
         /\ Optimized.scale = NextScale
<1>1. hook.step \in Nat /\ hook.scale \in Scales /\ hook \in Hooks
  BY DEF Typed, Hooks
<1>2. Moved \subseteq Rows(config)
  BY <1>1, SupportIs DEF Typed, Moved
<1>3. ASSUME NEW r \in Rank PROVE Trained(hook.rows[r], r) \in Basis
  <2> DEFINE rows == hook.rows[r]
             raw == [i \in Rows(config) |-> IF i \in Moved THEN [Changed(rows[i]) EXCEPT !.norm = "raw"]
                                            ELSE rows[i]]
             warm == [i \in Rows(config) |-> IF i \in Moved THEN Changed(rows[i]) ELSE rows[i]]
  <2>1. rows \in Basis /\ config \in ConfigType
    BY <1>1 DEF Hooks, Typed
  <2>2. Trained(rows, r) \in {raw, Normalized(warm), Orthogonalized(rows, Moved, hook.step, r)}
    BY DEF Trained
  <2> HIDE DEF rows
  <2>3. \A i \in Rows(config) : rows[i] \in Row
    BY <2>1 DEF Basis
  <2>4. raw \in Basis /\ warm \in Basis
    BY <2>3, ChangedIs DEF Basis
  <2>5. Trained(rows, r) \in Basis
    BY <2>1, <2>2, <2>4, NormalizedIs, OrthogonalizedIs
  <2> QED BY <2>5 DEF rows
<1>4. NextScale \in Scales
  <2>1. hook.scale[2] \in Nat
    BY <1>1 DEF Scales
  <2>2. <<"trained", hook.scale[2] + 1>> \in Scales
    BY <2>1 DEF Scales
  <2> QED BY <1>1, <2>2 DEF NextScale
<1> DEFINE h == [hook EXCEPT !.rows = Left, !.scale = NextScale]
<1>5. Left \in [Rank -> Basis] /\ Left[Root] = Trained(hook.rows[Root], Root)
  BY <1>3, RankAssumption DEF Left
<1>6. /\ h \in Hooks /\ h.rows = Left /\ h.step = hook.step /\ h.switched = hook.switched
      /\ h.expanded = hook.expanded /\ h.last_stage = hook.last_stage /\ h.scale = NextScale
  BY <1>1, <1>4, <1>5 DEF Hooks
<1> HIDE DEF h
<1>7. Optimized = Broadcast(h)
  BY DEF Optimized, h
<1> QED BY <1>2, <1>3, <1>5, <1>6, <1>7, BroadcastIs

LEMMA ToldIs ==
  ASSUME Typed
  PROVE  /\ Told(hook) \in Hooks
         /\ SetStep(hook, step) \in Hooks /\ Settled(SetStep(hook, step), step)
         /\ config.mode = "sync" => Told(hook) = SetStep(hook, step)
         /\ config.mode # "sync" => Told(hook) = hook
BY SetStepSettles DEF Typed, Told

LEMMA SentIs ==
  ASSUME Typed, NEW h \in Hooks, SendToEngine(h)
  PROVE  /\ hook' \in Hooks /\ Agree(hook')
         /\ hook' = Broadcast(h) /\ hook'.rows = [r \in Rank |-> h.rows[Root]]
         /\ hook'.step = h.step /\ hook'.scale = h.scale /\ hook'.switched = h.switched
         /\ hook'.expanded = h.expanded /\ hook'.last_stage = h.last_stage
BY BroadcastIs DEF SendToEngine

LEMMA ConfigStays ==
  [Next]_vars => /\ config' = config /\ Basis' = Basis /\ Hooks' = Hooks
                 /\ Rows(config)' = Rows(config)
                 /\ \A h, s : Settled(h, s)' = Settled(h, s)
<1> SUFFICES ASSUME [Next]_vars PROVE config' = config
  BY DEF Basis, Hooks, Rows, Settled, Measures, Activates, Expands
<1> QED
  BY DEF Next, vars, Generate, OldLogProb, Forward, OptimizerStep, Validate, Save, NextStep, Crash,
         Restart

LEMMA TypedInit == Init => Typed
<1> SUFFICES ASSUME Init PROVE Typed
  OBVIOUS
<1>1. config \in ConfigType
  BY ConfigAssumption DEF Init
<1>2. hook \in Hooks
  BY <1>1, NewHookIs DEF Init
<1>3. ckpt \in [step : Nat, rows : Basis, scale : Scales, moments : SUBSET Rows(config)]
  BY <1>1, NewRowsIs DEF Init
<1> QED BY <1>1, <1>2, <1>3 DEF Init, Typed, Places, NoVectors

LEMMA TypedNext == Typed /\ [Next]_vars => Typed'
<1> SUFFICES ASSUME Typed, [Next]_vars PROVE Typed'
  OBVIOUS
<1>0. config' = config /\ Basis' = Basis /\ Hooks' = Hooks /\ Rows(config)' = Rows(config)
  BY ConfigStays
<1> USE <1>0
<1>1. CASE Generate \/ Validate
  <2>1. SendToEngine(Told(hook)) /\ Told(hook) \in Hooks
    BY <1>1, ToldIs DEF Generate, Validate
  <2>2. hook' \in Hooks
    BY <2>1, SentIs
  <2> QED BY <1>1, <2>2 DEF Generate, Validate, Typed, Places, NoVectors
<1>2. CASE OldLogProb \/ Forward
  <2>1. hook' \in Hooks
    BY <1>2, ToldIs DEF OldLogProb, Forward, Typed
  <2>2. injected' = [roll |-> injected'.roll, old |-> injected'.old, new |-> injected'.new]
    BY <1>2 DEF OldLogProb, Forward, Typed
  <2>3. pc' \in Places
    BY <1>2 DEF OldLogProb, Forward, Places
  <2> QED BY <1>2, <2>1, <2>2, <2>3 DEF OldLogProb, Forward, Typed
<1>3. CASE OptimizerStep
  <2>1. hook' \in Hooks /\ moments' \in SUBSET Rows(config) /\ stepped' \in Nat
    <3>1. CASE hook' = Optimized /\ moments' = MomentsLeft /\ stepped' = Stage(config, hook.step)
      <4>1. hook.step \in Nat
        BY DEF Typed, Hooks
      <4>2. stepped' \in Nat
        BY <3>1, <4>1, StageFacts DEF Typed
      <4> QED BY <3>1, <4>2, TrainedIs DEF MomentsLeft
    <3>2. CASE UNCHANGED <<hook, moments, stepped>>
      BY <3>2 DEF Typed
    <3> QED BY <1>3, <3>1, <3>2 DEF OptimizerStep, Optimized, Left
  <2> QED BY <1>3, <2>1 DEF OptimizerStep, Typed, Places
<1>4. CASE Save
  <2>1. hook.rows[Root] \in Basis /\ hook.scale \in Scales
    BY RankAssumption DEF Typed, Hooks
  <2> QED BY <1>4, <2>1 DEF Save, Typed, Places
<1>5. CASE NextStep \/ Crash
  BY <1>5 DEF NextStep, Crash, Typed, Places
<1>6. CASE Restart
  <2>1. hook' \in Hooks
    <3>1. NewHook \in Hooks
      BY NewHookIs DEF Typed
    <3>2. ckpt.rows \in Basis /\ ckpt.scale \in Scales /\ Configured \in Scales
      BY NewRowsIs DEF Typed
    <3>3. \A scale \in Scales : [NewHook EXCEPT !.rows = [r \in Rank |-> ckpt.rows], !.scale = scale] \in Hooks
      BY <3>2, LoadedIs DEF Typed
    <3> QED BY <1>6, <3>1, <3>2, <3>3 DEF Restart
  <2> QED BY <1>6, <2>1 DEF Restart, Typed, Places, NoVectors
<1>7. CASE UNCHANGED vars
  BY <1>7 DEF vars, Typed
<1> QED BY <1>1, <1>2, <1>3, <1>4, <1>5, <1>6, <1>7 DEF Next

\* The types of the variables: hooks, checkpoint and moments fit the configuration.
THEOREM TypeCorrect == Spec => []Typed
BY TypedInit, TypedNext, PTL DEF Spec

-----------------------------------------------------------------------------
(* One basis on all ranks, and one policy in a step.                       *)

\* Where a hook has been told the step already.
Ready ==
  \/ pc \in {"optimize", "trained", "validated", "saved", "failed"}
  \/ pc = "forward" /\ (batch > 0 \/ ~config.bypass)
  \/ config.mode = "sync" /\ pc \in {"log_prob", "forward"}

Steady ==
  /\ Ready => Settled(hook, step)
  /\ pc = "log_prob" => batch = 0

LEMMA SettledLike ==
  ASSUME NEW g, NEW h, NEW s, Settled(h, s), g.step = h.step, g.switched = h.switched,
         g.last_stage = h.last_stage, g.expanded = h.expanded
  PROVE  Settled(g, s)
BY DEF Settled, Measures, Activates, Expands

LEMMA SteadyNext == Typed /\ Steady /\ [Next]_vars => Steady'
<1> SUFFICES ASSUME Typed, Steady, [Next]_vars PROVE Steady'
  OBVIOUS
<1>0. (pc = "log_prob" => batch = 0)'
  BY DEF Steady, Next, vars, Generate, OldLogProb, Forward, OptimizerStep, Validate, Save, NextStep,
         Crash, Restart
<1> SUFFICES ASSUME Ready' PROVE Settled(hook', step')
  BY <1>0, ConfigStays DEF Steady, Settled, Measures, Activates, Expands
<1>1. CASE Generate
  <2>1. config.mode = "sync" /\ step' = step /\ SendToEngine(Told(hook))
    BY <1>1 DEF Generate, Ready
  <2>2. Told(hook) \in Hooks /\ Settled(Told(hook), step)
    BY <2>1, ToldIs
  <2> QED BY <2>1, <2>2, SentIs, SettledLike
<1>2. CASE OldLogProb \/ Forward
  <2>1. step' = step /\ (hook' = SetStep(hook, step) \/ (OldLogProb /\ config.bypass /\ hook' = hook))
    BY <1>2 DEF OldLogProb, Forward
  <2>2. CASE hook' = SetStep(hook, step)
    BY <2>1, <2>2, ToldIs
  <2>3. CASE OldLogProb /\ config.bypass /\ hook' = hook
    <3>1. Ready
      BY <2>3 DEF Ready, OldLogProb, Steady
    <3> QED BY <2>1, <2>3, <3>1 DEF Steady
  <2> QED BY <2>1, <2>2, <2>3
<1>3. CASE OptimizerStep
  <2>1. Settled(hook, step) /\ step' = step
    BY <1>3 DEF OptimizerStep, Ready, Steady
  <2>2. hook' = Optimized \/ hook' = hook
    BY <1>3 DEF OptimizerStep, Optimized, Left
  <2> QED BY <2>1, <2>2, TrainedIs, SettledLike
<1>4. CASE Validate
  <2>1. step' = step /\ SendToEngine(Told(hook)) /\ Settled(hook, step)
    BY <1>4 DEF Validate, Ready, Steady
  <2>2. Told(hook) \in Hooks /\ Settled(Told(hook), step)
    BY <2>1, ToldIs DEF Typed
  <2> QED BY <2>1, <2>2, SentIs, SettledLike
<1>5. CASE Save
  BY <1>5 DEF Save, Ready, Steady
<1>6. CASE NextStep \/ Crash \/ Restart
  BY <1>6 DEF NextStep, Crash, Restart, Ready
<1>7. CASE UNCHANGED vars
  BY <1>7 DEF vars, Ready, Steady
<1> QED BY <1>1, <1>2, <1>3, <1>4, <1>5, <1>6, <1>7 DEF Next

LEMMA SteadyInit == Init => Steady
BY DEF Init, Steady, Ready

LEMMA AgreeNext == Typed /\ Steady /\ RanksAgree /\ [Next]_vars => RanksAgree'
<1> SUFFICES ASSUME Typed, Steady, RanksAgree, [Next]_vars,
                    ~(config.mode = "async" /\ config.curriculum = "warmup_expand")
             PROVE  Agree(hook')
  BY ConfigStays DEF RanksAgree, Agree
<1>1. Agree(hook) /\ config \in ConfigType /\ hook \in Hooks /\ step \in Nat
  BY DEF RanksAgree, Agree, Typed
<1>2. CASE Generate \/ Validate
  <2>1. SendToEngine(Told(hook)) /\ Told(hook) \in Hooks
    BY <1>2, ToldIs DEF Generate, Validate
  <2> QED BY <2>1, SentIs
<1>3. CASE OldLogProb \/ Forward
  <2>1. hook' = SetStep(hook, step) \/ hook' = hook
    BY <1>3 DEF OldLogProb, Forward
  <2>2. CASE config.mode = "sync"
    <3>1. Settled(hook, step)
      BY <1>3, <2>2 DEF OldLogProb, Forward, Steady, Ready
    <3>2. SetStep(hook, step) = hook
      BY <1>1, <3>1, SettledStays
    <3> QED BY <1>1, <2>1, <3>2
  <2>3. CASE config.curriculum # "warmup_expand"
    <3>1. ~Expands(At(hook, step))
      BY <2>3 DEF Expands, WarmupCompleted
    <3> QED BY <1>1, <2>1, <3>1, SetStepSettles
  <2> QED BY <1>1, <2>2, <2>3 DEF ConfigType
<1>4. CASE OptimizerStep
  <2>1. hook' = Optimized \/ hook' = hook
    BY <1>4 DEF OptimizerStep, Optimized, Left
  <2> QED BY <1>1, <2>1, TrainedIs
<1>5. CASE Restart
  <2>1. Agree(NewHook)
    BY <1>1, NewHookIs
  <2>2. ckpt.rows \in Basis /\ ckpt.scale \in Scales /\ Configured \in Scales
    BY NewRowsIs DEF Typed
  <2>3. \A scale \in Scales : Agree([NewHook EXCEPT !.rows = [r \in Rank |-> ckpt.rows], !.scale = scale])
    BY <1>1, <2>2, LoadedIs
  <2> QED BY <1>5, <2>1, <2>2, <2>3 DEF Restart
<1>6. CASE Save \/ NextStep \/ Crash \/ UNCHANGED vars
  BY <1>1, <1>6 DEF Save, NextStep, Crash, vars
<1> QED BY <1>2, <1>3, <1>4, <1>5, <1>6 DEF Next

LEMMA AgreeInit == Init => RanksAgree
BY NewHookIs, ConfigAssumption DEF Init, RanksAgree, Agree

\* A basis that is extended, rescaled or orthogonalised by each rank on its own is
\* one basis: what a rank draws is replaced by what Root drew before it is used.
THEOREM KeepsOneBasis == Spec => []RanksAgree
<1>1. Init => Typed /\ Steady /\ RanksAgree
  BY TypedInit, SteadyInit, AgreeInit
<1>2. Typed /\ Steady /\ RanksAgree /\ [Next]_vars => (Typed /\ Steady /\ RanksAgree)'
  BY TypedNext, SteadyNext, AgreeNext
<1> QED BY <1>1, <1>2, PTL DEF Spec

Vectors(h) == {HookVector(h, r) : r \in Rank}

\* The scale that is not learned is the configured one wherever it is not measured, and
\* what has been injected in this step is what the hooks inject now.
OnePolicy ==
  /\ ~config.learnable_alpha /\ config.curriculum # "raw_then_double" => hook.scale = Configured
  /\ batch = 0 =>
       /\ ~config.bypass /\ pc \in {"forward", "optimize"} => injected.old = Vectors(hook)
       /\ pc = "optimize" => injected.new = Vectors(hook)
       /\ /\ config.mode = "sync" /\ (config.learnable_alpha \/ config.curriculum # "raw_then_double")
          /\ pc \in {"log_prob", "forward", "optimize"}
          => injected.roll = Vectors(hook)

LEMMA VectorsStay == [Next]_vars => \A h : Vectors(h)' = Vectors(h)
BY ConfigStays DEF Vectors, HookVector, Combination

\* The engine injects what the hooks do, once it was sent a hook that was told the step.
LEMMA SameInjection ==
  ASSUME Typed, NEW h \in Hooks, SendToEngine(h), config' = config,
         config.learnable_alpha \/ h.scale = Configured
  PROVE  {EngineVector(engine')} = Vectors(hook')
<1>1. /\ hook'.rows = [r \in Rank |-> h.rows[Root]] /\ hook'.step = h.step /\ hook'.scale = h.scale
  BY SentIs
<1>2. engine'.rows = h.rows[Root] /\ engine'.step = h.step /\ engine'.scale = h.scale
  BY DEF SendToEngine
<1>3. StageInfo(config, h.step).in_raw_phase = InRawPhase(config, h.step)
  BY DEF StageInfo, InRawPhase
<1>4. \A r \in Rank : HookVector(hook', r) = EngineVector(engine')
  BY <1>1, <1>2, <1>3 DEF HookVector, EngineVector
<1> QED BY <1>4, RankAssumption DEF Vectors

LEMMA PolicyNext == Typed /\ Steady /\ OnePolicy /\ [Next]_vars => OnePolicy'
<1> SUFFICES ASSUME Typed, Steady, OnePolicy, [Next]_vars PROVE OnePolicy'
  OBVIOUS
<1>0. config' = config /\ \A h : Vectors(h)' = Vectors(h)
  BY ConfigStays, VectorsStay
<1>1. ASSUME ~config.learnable_alpha, config.curriculum # "raw_then_double"
      PROVE  hook'.scale = Configured
  <2>1. hook.scale = Configured /\ hook \in Hooks /\ config \in ConfigType /\ step \in Nat
    BY <1>1 DEF OnePolicy, Typed
  <2>2. SetStep(hook, step).scale = Configured /\ Told(hook).scale = Configured
    BY <1>1, <2>1, SetStepScale DEF Told
  <2>3. CASE Generate \/ Validate
    <3>1. SendToEngine(Told(hook)) /\ Told(hook) \in Hooks
      BY <2>3, ToldIs DEF Generate, Validate
    <3> QED BY <2>2, <3>1, SentIs
  <2>4. CASE OldLogProb \/ Forward
    BY <2>1, <2>2, <2>4 DEF OldLogProb, Forward
  <2>5. CASE OptimizerStep
    <3>1. hook' = Optimized \/ hook' = hook
      BY <2>5 DEF OptimizerStep, Optimized, Left
    <3>2. NextScale = Configured
      BY <1>1, <2>1 DEF NextScale
    <3> QED BY <2>1, <3>1, <3>2, TrainedIs
  <2>6. CASE Restart
    <3>1. NewHook.scale = Configured /\ NewHook \in Hooks
      BY <2>1, NewHookIs
    <3> QED BY <1>1, <2>6, <3>1 DEF Restart, Hooks
  <2>7. CASE Save \/ NextStep \/ Crash \/ UNCHANGED vars
    BY <2>1, <2>7 DEF Save, NextStep, Crash, vars
  <2> QED BY <2>3, <2>4, <2>5, <2>6, <2>7 DEF Next
<1> DEFINE SameAsEngine == config.mode = "sync"
                           /\ (config.learnable_alpha \/ config.curriculum # "raw_then_double")
<1>2. ASSUME batch' = 0
      PROVE  /\ ~config.bypass /\ pc' \in {"forward", "optimize"} => injected'.old = Vectors(hook')
             /\ pc' = "optimize" => injected'.new = Vectors(hook')
             /\ SameAsEngine /\ pc' \in {"log_prob", "forward", "optimize"}
                => injected'.roll = Vectors(hook')
  <2>1. CASE Generate
    <3>1. SendToEngine(Told(hook)) /\ pc' = "log_prob"
          /\ injected' = [NoVectors EXCEPT !.roll = {EngineVector(engine')}]
      BY <2>1 DEF Generate
    <3>2. injected'.roll = {EngineVector(engine')}
      BY <3>1 DEF NoVectors
    <3>3. Told(hook) \in Hooks
      BY ToldIs
    <3>4. SameAsEngine => (config.learnable_alpha \/ Told(hook).scale = Configured)
      BY SetStepScale DEF OnePolicy, Typed, Told
    <3>5. SameAsEngine => {EngineVector(engine')} = Vectors(hook')
      BY <1>0, <3>1, <3>3, <3>4, SameInjection
    <3> QED BY <3>1, <3>2, <3>5
  <2>2. CASE OldLogProb
    <3>1. pc' = "forward" /\ batch = 0 /\ pc = "log_prob"
      BY <1>2, <2>2 DEF OldLogProb
    <3>2. injected'.roll = injected.roll
      BY <2>2 DEF OldLogProb, Typed
    <3>3. ~config.bypass => injected'.old = Vectors(hook')
      BY <2>2 DEF OldLogProb, Typed, Vectors
    <3>4. SameAsEngine => hook' = hook
      <4>1. SameAsEngine => Settled(hook, step)
        BY <3>1 DEF Steady, Ready
      <4>2. SameAsEngine => SetStep(hook, step) = hook
        BY <4>1, SettledStays DEF Typed
      <4> QED BY <2>2, <4>2 DEF OldLogProb
    <3>5. SameAsEngine => injected.roll = Vectors(hook)
      BY <3>1 DEF OnePolicy
    <3> QED BY <3>1, <3>2, <3>3, <3>4, <3>5
  <2>3. CASE Forward
    <3>1. pc' \in {"optimize", "failed"} /\ batch = 0 /\ pc = "forward" /\ hook' = SetStep(hook, step)
      BY <1>2, <2>3 DEF Forward
    <3>2. injected' = [injected EXCEPT !.new = Vectors(hook')]
      BY <2>3, <3>1 DEF Forward, Vectors
    <3>3. injected'.new = Vectors(hook') /\ injected'.old = injected.old /\ injected'.roll = injected.roll
      BY <3>2 DEF Typed
    <3>4. ~config.bypass \/ config.mode = "sync" => hook' = hook
      <4>1. ~config.bypass \/ config.mode = "sync" => Settled(hook, step)
        BY <3>1 DEF Steady, Ready
      <4> QED BY <3>1, <4>1, SettledStays DEF Typed
    <3>5. /\ ~config.bypass => injected.old = Vectors(hook)
          /\ SameAsEngine => injected.roll = Vectors(hook)
      BY <3>1 DEF OnePolicy
    <3> QED BY <3>1, <3>3, <3>4, <3>5
  <2>4. CASE OptimizerStep
    BY <1>2, <2>4 DEF OptimizerStep, Typed
  <2>5. CASE Validate \/ Save \/ NextStep \/ Crash \/ Restart
    BY <2>5 DEF Validate, Save, NextStep, Crash, Restart
  <2>6. CASE UNCHANGED vars
    BY <1>2, <2>6 DEF vars, OnePolicy
  <2> QED BY <2>1, <2>2, <2>3, <2>4, <2>5, <2>6 DEF Next
<1>3. Vectors(hook)' = Vectors(hook')
  BY <1>0 DEF Vectors, HookVector, Combination
<1> QED BY <1>0, <1>1, <1>2, <1>3 DEF OnePolicy

LEMMA PolicyInit == Init => OnePolicy
BY NewHookIs, ConfigAssumption DEF Init, OnePolicy

\* Old and new log-probabilities of a step are computed with the same vector on every
\* rank, and so is the rollout in the synchronous mode: a hook that is told a step
\* twice acts once, through extractions, new blocks, ramps and restarts.
THEOREM KeepsOnePolicy == Spec => []SamePolicy
<1>1. Init => Typed /\ Steady /\ OnePolicy
  BY TypedInit, SteadyInit, PolicyInit
<1>2. Typed /\ Steady /\ OnePolicy /\ [Next]_vars => (Typed /\ Steady /\ OnePolicy)'
  BY TypedNext, SteadyNext, PolicyNext
<1>3. OnePolicy => SamePolicy
  BY DEF OnePolicy, SamePolicy
<1> QED BY <1>1, <1>2, <1>3, PTL DEF Spec

-----------------------------------------------------------------------------
(* A block is prepared before it trains.                                   *)

LEMMA ActiveGrows ==
  ASSUME config \in ConfigType, NEW p \in Nat, NEW s \in {p, p + 1}
  PROVE  /\ Active(config, p) \in Nat /\ Active(config, p) >= 1 /\ Active(config, s) \in Nat
         /\ PrevActive(config, p) \in Nat /\ PrevActive(config, p) <= Active(config, p)
         /\ PrevActive(config, s) \in Nat /\ PrevActive(config, s) <= Active(config, s)
         /\ Active(config, p) <= Active(config, s)
         /\ PrevActive(config, p) <= PrevActive(config, s)
<1>1. config.num_vectors \in Nat
  BY DEF ConfigType
<1>2. Active(config, p) \in 1..config.num_vectors /\ Active(config, s) \in 1..config.num_vectors
  BY OneStep
<1>3. PrevActive(config, s) \in 0..Active(config, s) /\ PrevActive(config, p) \in 0..Active(config, p)
  BY OneStep
<1>4. \/ Active(config, s) = Active(config, p) /\ PrevActive(config, s) = PrevActive(config, p)
      \/ PrevActive(config, s) = Active(config, p)
  BY OneStep
<1> QED BY <1>1, <1>2, <1>3, <1>4

\* A basis that all ranks copied is as ready as the one copied.
LEMMA InLineLike ==
  ASSUME NEW h \in Hooks, NEW g, NEW s, InLine(h, s),
         g.rows = [r \in Rank |-> h.rows[Root]], g.switched = h.switched, g.last_stage = h.last_stage
  PROVE  InLine(g, s)
BY RankAssumption DEF InLine, Prepared

\* The rows that may have moments: those of the stages so far.
Within(m, s) == config.curriculum \in Doubling => \A i \in m : i < Active(config, s)

\* p is the step the hook's rows are those of: the one under way, or the one before.
LinedAt(p) ==
  /\ p \in {step - 1, step} /\ hook.step \in {0, p}
  /\ pc = "generate" => p = step - 1
  /\ InLine(hook, p) /\ Within(moments, p)

Lined == pc # "down" => \E p \in Nat : LinedAt(p)

Saved ==
  IF ckpt.step = 0 THEN ckpt.moments = {}
  ELSE /\ config.curriculum \in Doubling =>
            \A i \in Rows(config) : PreparedRow(ckpt.rows[i], i, ckpt.step)
       /\ Within(ckpt.moments, ckpt.step)

LEMMA LinedReady == Typed /\ Steady /\ Lined /\ Ready => hook.step = step /\ LinedAt(step)
BY DEF Typed, Steady, Lined, LinedAt, Ready, Settled

LEMMA MovedIs ==
  ASSUME Typed, Steady, Lined, pc = "optimize", config.curriculum \in Doubling
  PROVE  \A i \in Moved : i \in Nat /\ i < Active(config, step)
<1>1. hook.step = step /\ LinedAt(step) /\ step \in Nat /\ config \in ConfigType
  BY LinedReady DEF Ready, Typed
<1>2. Active(config, step) \in Nat
  BY <1>1, ActiveGrows
<1>3. Support(config, step) \subseteq 0..(Active(config, step) - 1)
  BY <1>1, SupportIs
<1>4. \A i \in moments : i \in Nat /\ i < Active(config, step)
  BY <1>1, ZeroIsRow DEF LinedAt, Within, Typed
<1> QED BY <1>1, <1>2, <1>3, <1>4 DEF Moved

\* An optimizer step keeps the rows of the stage orthonormal and the others zero.
LEMMA OptimizedInLine ==
  ASSUME Typed, Steady, Lined, pc = "optimize"
  PROVE  InLine(Optimized, step) /\ Within(MomentsLeft, step)
<1> SUFFICES ASSUME config.curriculum \in Doubling PROVE InLine(Optimized, step) /\ Within(MomentsLeft, step)
  BY DEF InLine, Within
<1>1. hook.step = step /\ LinedAt(step) /\ step \in Nat /\ config \in ConfigType /\ hook \in Hooks
  BY LinedReady DEF Ready, Typed
<1>2. \A i \in Moved : i \in Nat /\ i < Active(config, step)
  BY MovedIs
<1>3. Within(MomentsLeft, step)
  BY <1>2 DEF Within, MomentsLeft
<1>4. /\ Optimized.rows = [r \in Rank |-> Trained(hook.rows[Root], Root)]
      /\ Optimized.switched = hook.switched /\ Optimized.last_stage = hook.last_stage
  BY TrainedIs
<1>5. ASSUME NEW i \in Rows(config)
      PROVE  PreparedRow(Trained(hook.rows[Root], Root)[i], i, step)
  <2> DEFINE row == hook.rows[Root][i]
             new == Trained(hook.rows[Root], Root)[i]
  <2>1. row \in Row /\ PreparedRow(row, i, step) /\ i \in Nat
    BY <1>1, RankAssumption, ZeroIsRow DEF Hooks, Basis, LinedAt, InLine, Prepared
  <2>2. ~WarmupCompleted(config, step) /\ ~InWarmup(config, step)
    BY DEF WarmupCompleted, InWarmup, Doubling
  <2>3. CASE InRawPhase(config, step)
    <3>1. new = IF i \in Moved THEN [Changed(row) EXCEPT !.norm = "raw"] ELSE row
      BY <1>1, <2>3 DEF Trained
    <3>2. Active(config, step) = 1
      <4>1. Stage(config, step) = 0
        BY <1>1, <2>3, StageFacts DEF InRawPhase
      <4> QED BY <1>1, <4>1, Blocks
    <3>3. i \in Moved => i = 0
      BY <1>2, <2>1, <3>2
    <3> HIDE DEF new
    <3>4. PreparedRow(new, i, step)
      BY <2>1, <2>3, <3>1, <3>3 DEF PreparedRow
    <3> QED BY <3>4 DEF new
  <2>4. CASE ~InRawPhase(config, step)
    <3>0. new = Orthogonalized(hook.rows[Root], Moved, step, Root)[i] /\ row.norm # "copy"
      BY <1>1, <2>1, <2>2, <2>4 DEF Trained, PreparedRow
    <3>1. i \in Moved => new = [Changed(row) EXCEPT !.norm = "unit"]
      BY <3>0 DEF Orthogonalized
    <3>2. i \notin Moved =>
            \/ new = row \/ new = Changed(row)
            \/ row.norm = "zero" /\ new = [row EXCEPT !.norm = "zero"]
      BY <2>2, <3>0 DEF Orthogonalized
    <3> HIDE DEF new, row
    <3>3. i \in Moved => new.norm = "unit" /\ i < Active(config, step)
      <4>1. [Changed(row) EXCEPT !.norm = "unit"].norm = "unit"
        BY <2>1, ChangedIs
      <4> QED BY <1>2, <3>1, <4>1
    <3>4. i \notin Moved => new.norm = row.norm
      BY <2>1, <3>2, ChangedIs
    <3>5. PreparedRow(new, i, step)
      BY <2>1, <2>4, <3>3, <3>4 DEF PreparedRow
    <3> QED BY <3>5 DEF new
  <2> QED BY <2>3, <2>4
<1>6. Prepared(Optimized.rows, step)
  BY <1>4, <1>5 DEF Prepared
<1> QED BY <1>1, <1>3, <1>4, <1>6 DEF LinedAt, InLine

LEMMA ToldInLine ==
  ASSUME Typed, NEW p \in Nat, LinedAt(p)
  PROVE  InLine(SetStep(hook, step), step) /\ Within(moments, step)
<1>1. step \in {p, p + 1} /\ hook \in Hooks /\ config \in ConfigType /\ step \in Nat
  BY DEF LinedAt, Typed
<1>2. InLine(SetStep(hook, step), step)
  BY <1>1, SetStepInLine DEF LinedAt
<1>3. moments \subseteq Nat
  BY <1>1, ZeroIsRow DEF Typed
<1>4. Active(config, p) <= Active(config, step) /\ Active(config, p) \in Nat /\ Active(config, step) \in Nat
  BY <1>1, ActiveGrows
<1> QED BY <1>2, <1>3, <1>4 DEF LinedAt, Within

LEMMA LinedNext == Typed /\ Steady /\ Lined /\ Saved /\ [Next]_vars => Lined'
<1> SUFFICES ASSUME Typed, Steady, Lined, Saved, [Next]_vars, pc' # "down"
             PROVE  \E p \in Nat : /\ p \in {step' - 1, step'} /\ hook'.step \in {0, p}
                                   /\ pc' = "generate" => p = step' - 1
                                   /\ InLine(hook', p) /\ Within(moments', p)
  BY ConfigStays DEF Lined, LinedAt, InLine, Prepared, PreparedRow, Within
<1>0. config \in ConfigType /\ hook \in Hooks /\ step \in Nat /\ step >= 1
  BY DEF Typed
<1>1. CASE Generate \/ Validate
  <2>1. SendToEngine(Told(hook)) /\ Told(hook) \in Hooks /\ step' = step /\ moments' = moments
        /\ pc' # "generate"
    BY <1>1, ToldIs DEF Generate, Validate
  <2>2. PICK p \in Nat : LinedAt(p)
    BY <1>1 DEF Generate, Validate, Lined
  <2>3. CASE config.mode = "sync"
    <3>1. Told(hook) = SetStep(hook, step) /\ SetStep(hook, step).step = step
      BY <2>3, ToldIs DEF Settled
    <3>2. InLine(Told(hook), step) /\ Within(moments, step)
      BY <2>2, <3>1, ToldInLine
    <3>3. InLine(hook', step) /\ hook'.step = step
      BY <2>1, <3>1, <3>2, SentIs, InLineLike
    <3> QED BY <1>0, <2>1, <3>2, <3>3
  <2>4. CASE config.mode # "sync"
    <3>1. Told(hook) = hook
      BY <2>4, ToldIs
    <3>2. InLine(hook', p) /\ hook'.step = hook.step
      BY <2>1, <2>2, <3>1, SentIs, InLineLike DEF LinedAt
    <3> QED BY <2>1, <2>2, <3>2 DEF LinedAt
  <2> QED BY <2>3, <2>4
<1>2. CASE OldLogProb \/ Forward
  <2>1. step' = step /\ moments' = moments /\ pc' # "generate"
        /\ (hook' = SetStep(hook, step) \/ hook' = hook)
    BY <1>2 DEF OldLogProb, Forward
  <2>2. PICK p \in Nat : LinedAt(p)
    BY <1>2 DEF OldLogProb, Forward, Lined
  <2>3. CASE hook' = SetStep(hook, step)
    <3>1. hook'.step = step
      BY <2>3, ToldIs DEF Settled
    <3>2. InLine(hook', step) /\ Within(moments', step)
      BY <2>1, <2>2, <2>3, ToldInLine
    <3> QED BY <1>0, <2>1, <3>1, <3>2
  <2>4. CASE hook' = hook
    BY <2>1, <2>2, <2>4 DEF LinedAt
  <2> QED BY <2>1, <2>3, <2>4
<1>3. CASE OptimizerStep
  <2>1. hook.step = step /\ LinedAt(step) /\ step' = step /\ pc' # "generate" /\ pc = "optimize"
    BY <1>3, LinedReady DEF OptimizerStep, Ready
  <2>2. InLine(hook', step) /\ Within(moments', step) /\ hook'.step = step
    <3>1. CASE hook' = Optimized /\ moments' = MomentsLeft
      BY <2>1, <3>1, OptimizedInLine, TrainedIs
    <3>2. CASE hook' = hook /\ moments' = moments
      BY <2>1, <3>2 DEF LinedAt
    <3> QED BY <1>3, <3>1, <3>2 DEF OptimizerStep, Optimized, Left
  <2> QED BY <1>0, <2>1, <2>2
<1>4. CASE Save
  <2>1. UNCHANGED <<hook, moments, step>> /\ pc' # "generate"
    BY <1>4 DEF Save
  <2>2. PICK p \in Nat : LinedAt(p)
    BY <1>4 DEF Save, Lined
  <2> QED BY <2>1, <2>2 DEF LinedAt
<1>5. CASE NextStep
  <2>1. LinedAt(step) /\ step' = step + 1 /\ UNCHANGED <<hook, moments>>
    BY <1>5, LinedReady DEF NextStep, Ready
  <2>2. step = step' - 1
    BY <1>0, <2>1
  <2> QED BY <1>0, <2>1, <2>2 DEF LinedAt
<1>6. CASE Restart
  <2>1. step' = ckpt.step + 1 /\ moments' = ckpt.moments /\ ckpt.step \in Nat /\ pc' = "generate"
    BY <1>6 DEF Restart, Typed
  <2>2. InLine(hook', ckpt.step) /\ Within(ckpt.moments, ckpt.step) /\ hook'.step = 0
    <3>1. CASE ckpt.step = 0
      BY <1>0, <1>6, <3>1, NewHookIs DEF Restart, Saved, Within
    <3>2. CASE ckpt.step # 0
      <4>1. ckpt.rows \in Basis /\ ckpt.scale \in Scales /\ Configured \in Scales
        BY <1>0, NewRowsIs DEF Typed
      <4>2. PICK scale \in Scales : hook' = [NewHook EXCEPT !.rows = [r \in Rank |-> ckpt.rows],
                                                            !.scale = scale]
        BY <1>6, <3>2, <4>1 DEF Restart
      <4>3. /\ hook'.rows = [r \in Rank |-> ckpt.rows] /\ hook'.step = 0
            /\ hook'.last_stage = NewHook.last_stage /\ hook'.switched = NewHook.switched
        BY <1>0, <4>1, <4>2, LoadedIs
      <4>4. config.curriculum \in Doubling => Prepared(hook'.rows, ckpt.step)
        BY <3>2, <4>3 DEF Saved, Prepared
      <4>5. config.curriculum \in Doubling =>
              IF InRawPhase(config, ckpt.step) THEN NewHook.last_stage = -1 /\ ~NewHook.switched
              ELSE NewHook.last_stage <= Stage(config, ckpt.step)
        <5>1. StageSteps(config) \in Nat /\ StageSteps(config) >= 1 /\ Stage(config, 0) = 0
              /\ Stage(config, ckpt.step) \in Nat
          <6>1. StageSteps(config) \in Nat /\ StageSteps(config) >= 1
            BY <1>0, StageSteps1
          <6> QED BY <1>0, <2>1, <6>1, StageFacts
        <5>2. InRawPhase(config, ckpt.step) => InRawPhase(config, 0)
          BY <2>1, <5>1 DEF InRawPhase
        <5>3. config.curriculum \in Doubling =>
                IF InRawPhase(config, 0) THEN NewHook.last_stage = -1 /\ ~NewHook.switched
                ELSE NewHook.last_stage <= 0
          BY <1>0, <5>1, NewHookIs DEF InLine
        <5>4. NewHook.last_stage \in Int
          BY <1>0, NewHookIs DEF Hooks
        <5> QED BY <5>1, <5>2, <5>3, <5>4
      <4> QED BY <3>2, <4>3, <4>4, <4>5 DEF InLine, Saved
    <3> QED BY <3>1, <3>2
  <2>3. ckpt.step = step' - 1
    BY <2>1
  <2> QED BY <2>1, <2>2, <2>3
<1>7. CASE Crash
  BY <1>7 DEF Crash
<1>8. CASE UNCHANGED vars
  BY <1>8 DEF vars, Lined, LinedAt
<1> QED BY <1>1, <1>2, <1>3, <1>4, <1>5, <1>6, <1>7, <1>8 DEF Next

LEMMA SavedNext == Typed /\ Steady /\ Lined /\ Saved /\ [Next]_vars => Saved'
<1> SUFFICES ASSUME Typed, Steady, Lined, Saved, [Next]_vars PROVE Saved'
  OBVIOUS
<1>0. config' = config /\ Rows(config)' = Rows(config)
  BY ConfigStays
<1>1. CASE Save
  <2>1. LinedAt(step) /\ step \in Nat \ {0}
    BY <1>1, LinedReady DEF Save, Ready, Typed
  <2>2. ckpt'.step = step /\ ckpt'.rows = hook.rows[Root] /\ ckpt'.moments = moments
    BY <1>1 DEF Save
  <2> QED BY <1>0, <2>1, <2>2, RankAssumption
          DEF Saved, LinedAt, InLine, Prepared, PreparedRow, Within
<1>2. CASE ckpt' = ckpt
  BY <1>0, <1>2 DEF Saved, PreparedRow, Within
<1> QED BY <1>1, <1>2 DEF Next, vars, Generate, OldLogProb, Forward, OptimizerStep, Validate, NextStep,
           Crash, Restart

LEMMA LinedInit == Init => Lined /\ Saved
<1> SUFFICES ASSUME Init PROVE LinedAt(0) /\ Saved
  BY DEF Lined
<1> QED BY NewHookIs, ConfigAssumption DEF Init, LinedAt, Saved, Within

Prepares == Typed /\ Steady /\ Lined /\ Saved

LEMMA PreparesInductive == (Init => Prepares) /\ (Prepares /\ [Next]_vars => Prepares')
BY TypedInit, SteadyInit, LinedInit, TypedNext, SteadyNext, LinedNext, SavedNext DEF Prepares

\* Nothing trains and nothing is injected that was not prepared: the rows of a stage are
\* orthonormal on every rank when it begins, and those to come are zero, whatever
\* checkpoint the process began with.
THEOREM PreparesBlocks == Spec => []BlockPrepared
<1>1. Prepares => BlockPrepared
  <2> SUFFICES ASSUME Prepares, pc = "optimize", config.curriculum \in Doubling,
                      ~InRawPhase(config, step), NEW r \in Rank, NEW i \in Rows(config)
               PROVE  hook.rows[r][i].norm = IF i < Active(config, step) THEN "unit" ELSE "zero"
    BY DEF BlockPrepared
  <2>1. LinedAt(step)
    BY LinedReady DEF Prepares, Ready
  <2> QED BY <2>1 DEF LinedAt, InLine, Prepared, PreparedRow
<1> QED BY <1>1, PreparesInductive, PTL DEF Spec

-----------------------------------------------------------------------------
(* A frozen row stays as it is.                                            *)

\* After an optimizer step of a stage only its own rows have moments.
Dropped ==
  pc # "down" /\ config.curriculum \in Doubling =>
    /\ stepped <= Stage(config, hook.step)
    /\ stepped > 0 /\ stepped = Stage(config, hook.step) =>
         \A i \in moments : i >= PrevActive(config, hook.step)

\* A new block begins where the old ones end, and what is measured again is left as it
\* is if it has been measured before.
LEMMA OldRowsKept ==
  ASSUME config \in ConfigType, config.curriculum \in Doubling, NEW h \in Hooks,
         NEW p \in Nat, NEW s \in {p, p + 1}, InLine(h, p),
         NEW i \in Rows(config), i < PrevActive(config, p)
  PROVE  SetStep(h, s).rows[Root][i] = h.rows[Root][i]
<1> DEFINE a == At(h, s)
           e == Extract(a)
           b == Activate(e)
<1>1. /\ PrevActive(config, p) \in Nat /\ PrevActive(config, s) \in Nat /\ Active(config, p) \in Nat
      /\ PrevActive(config, p) <= PrevActive(config, s)
      /\ PrevActive(config, p) <= Active(config, p) /\ i \in Nat /\ s \in Nat
      /\ Active(config, s) \in Nat
  BY ActiveGrows, ZeroIsRow
<1>2. Stage(config, p) # 0 /\ ~InRawPhase(config, p)
  <2>1. Stage(config, p) # 0
    BY <1>1, Blocks
  <2> QED BY <2>1, StageFacts DEF InRawPhase
<1>3. h.rows[Root][0].norm = "unit"
  <2>1. PreparedRow(h.rows[Root][0], 0, p)
    BY RankAssumption, ZeroIsRow DEF InLine, Prepared
  <2>2. 0 < Active(config, p)
    BY <1>1
  <2> QED BY <1>2, <2>1, <2>2 DEF PreparedRow
<1>4. a \in Hooks /\ a.rows = h.rows /\ a.step = s
  BY <1>1, AtIs
<1> HIDE DEF a
<1>5. e \in Hooks /\ e.step = s /\ e.rows[Root][i] = h.rows[Root][i]
  <2>1. /\ e \in Hooks /\ e.step = s
        /\ ~Measures(a) => e = a
        /\ Measures(a) =>
             /\ a.rows[Root][0].norm = "unit" => e.rows[Root][0] = a.rows[Root][0]
             /\ i # 0 => e.rows[Root][i] = a.rows[Root][i]
    BY <1>4, ExtractIs
  <2> QED BY <1>3, <1>4, <2>1
<1> HIDE DEF e
<1>6. b \in Hooks /\ b.rows[Root][i] = h.rows[Root][i]
  <2>1. /\ b \in Hooks
        /\ ~Activates(e) => b = e
        /\ Activates(e) => FilledFrom(b.rows[Root], e.rows[Root], s)
    BY <1>5, ActivateIs
  <2>2. i \notin Block(s)
    BY <1>1 DEF Block
  <2> QED BY <1>5, <2>1, <2>2 DEF FilledFrom
<1> HIDE DEF b
<1>7. Expand(b) = b
  <2>1. ~Expands(b)
    BY DEF Expands, WarmupCompleted, Doubling
  <2> QED BY <1>6, <2>1, ExpandIs
<1> QED BY <1>6, <1>7 DEF SetStep, At, b, e, a

LEMMA StageZero == ASSUME config \in ConfigType PROVE Stage(config, 0) = 0 /\ PrevActive(config, 0) = 0
<1>1. StageSteps(config) \in Nat /\ StageSteps(config) >= 1
  BY StageSteps1
<1>2. Stage(config, 0) = 0
  BY <1>1, StageFacts
<1> QED BY <1>2, Blocks

\* What is left to move in a stage that has been stepped in.
LEMMA MovedLater ==
  ASSUME Typed, Steady, Lined, pc = "optimize", config.curriculum \in Doubling
  PROVE  \A i \in MomentsLeft : i >= PrevActive(config, step)
<1>1. hook.step = step /\ step \in Nat /\ config \in ConfigType
  BY LinedReady DEF Ready, Typed
<1>2. \A i \in Moved : i \in Rows(config) /\ i \in Nat
  BY MovedIs, TrainedIs
<1>3. PrevActive(config, step) \in Nat
  BY <1>1, ActiveGrows
<1>4. CASE InRawPhase(config, step)
  <2>1. PrevActive(config, step) = 0
    <3>1. Stage(config, step) = 0
      BY <1>1, <1>4, StageFacts DEF InRawPhase
    <3> QED BY <1>1, <3>1, Blocks
  <2> QED BY <1>2, <2>1 DEF MomentsLeft
<1>5. CASE ~InRawPhase(config, step)
  <2>1. \A i \in Rows(config) : i \notin Frozen(config, step) => ~(i < PrevActive(config, step))
    BY <1>5 DEF Frozen
  <2> QED BY <1>1, <1>2, <1>3, <2>1 DEF MomentsLeft
<1> QED BY <1>4, <1>5

LEMMA DroppedNext == Prepares /\ Dropped /\ [Next]_vars => Dropped'
<1> SUFFICES ASSUME Prepares, Dropped, [Next]_vars, pc' # "down", config.curriculum \in Doubling
             PROVE  /\ stepped' <= Stage(config, hook'.step)
                    /\ stepped' > 0 /\ stepped' = Stage(config, hook'.step) =>
                         \A i \in moments' : i >= PrevActive(config, hook'.step)
  BY ConfigStays DEF Dropped
<1>0. Typed /\ Steady /\ Lined /\ config \in ConfigType /\ hook \in Hooks /\ step \in Nat /\ stepped \in Nat
  BY DEF Prepares, Typed
\* Being told a step leads to the stage under way or the one that follows.
<1>1. ASSUME pc # "down", UNCHANGED <<stepped, moments>>, hook'.step \in {hook.step, step}
      PROVE  /\ stepped' <= Stage(config, hook'.step)
             /\ stepped' > 0 /\ stepped' = Stage(config, hook'.step) =>
                  \A i \in moments' : i >= PrevActive(config, hook'.step)
  <2>1. PICK p \in Nat : LinedAt(p)
    BY <1>0, <1>1 DEF Lined
  <2>2. CASE hook'.step = hook.step
    BY <1>1, <2>2 DEF Dropped
  <2>3. CASE hook'.step = step /\ hook.step = p
    <3>1. step \in {p, p + 1}
      BY <1>0, <2>1 DEF LinedAt
    <3>2. /\ Stage(config, p) \in Nat /\ Stage(config, step) \in {Stage(config, p), Stage(config, p) + 1}
          /\ Stage(config, step) = Stage(config, p) => PrevActive(config, step) = PrevActive(config, p)
      BY <1>0, <3>1, OneStep
    <3>3. /\ stepped <= Stage(config, p)
          /\ stepped > 0 /\ stepped = Stage(config, p) =>
               \A i \in moments : i >= PrevActive(config, p)
      BY <1>1, <2>3 DEF Dropped
    <3> QED BY <1>0, <1>1, <2>3, <3>2, <3>3
  <2>4. CASE hook'.step = step /\ hook.step = 0
    <3>1. stepped = 0
      BY <1>0, <1>1, <2>4, StageZero DEF Dropped
    <3>2. Stage(config, step) \in Nat
      BY <1>0, StageFacts
    <3> QED BY <1>1, <2>4, <3>1, <3>2
  <2> QED BY <1>1, <2>1, <2>2, <2>3, <2>4 DEF LinedAt
<1>2. CASE Generate \/ Validate
  <2>1. SendToEngine(Told(hook)) /\ Told(hook) \in Hooks /\ UNCHANGED <<stepped, moments>> /\ pc # "down"
    BY <1>0, <1>2, ToldIs DEF Generate, Validate
  <2>2. hook'.step = Told(hook).step
    BY <1>0, <2>1, SentIs
  <2>3. Told(hook).step \in {hook.step, step}
    BY <1>0, ToldIs DEF Settled
  <2> QED BY <1>1, <2>1, <2>2, <2>3
<1>3. CASE OldLogProb \/ Forward
  <2>1. UNCHANGED <<stepped, moments>> /\ pc # "down" /\ (hook' = SetStep(hook, step) \/ hook' = hook)
    BY <1>3 DEF OldLogProb, Forward
  <2>2. hook'.step \in {hook.step, step}
    BY <1>0, <2>1, ToldIs DEF Settled
  <2> QED BY <1>1, <2>1, <2>2
<1>4. CASE OptimizerStep
  <2>1. hook.step = step /\ pc = "optimize"
    BY <1>0, <1>4, LinedReady DEF OptimizerStep, Ready
  <2>2. CASE hook' = Optimized /\ moments' = MomentsLeft /\ stepped' = Stage(config, hook.step)
    <3>1. hook'.step = step
      BY <1>0, <2>1, <2>2, TrainedIs
    <3>2. \A i \in moments' : i >= PrevActive(config, step)
      BY <1>0, <2>1, <2>2, MovedLater
    <3>3. Stage(config, step) \in Nat
      BY <1>0, StageFacts
    <3> QED BY <2>1, <2>2, <3>1, <3>2, <3>3
  <2>3. CASE UNCHANGED <<hook, moments, stepped>>
    BY <1>1, <2>1, <2>3
  <2> QED BY <1>4, <2>2, <2>3 DEF OptimizerStep, Optimized, Left
<1>5. CASE Restart
  <2>1. stepped' = 0 /\ hook'.step \in Nat
    BY <1>0, <1>5, TypedNext, ConfigStays DEF Restart, Typed, Hooks
  <2>2. Stage(config, hook'.step) \in Nat
    BY <1>0, <2>1, StageFacts
  <2> QED BY <2>1, <2>2
<1>6. CASE Save \/ NextStep \/ Crash \/ UNCHANGED vars
  <2>1. UNCHANGED <<stepped, moments, hook>> /\ pc # "down"
    BY <1>6 DEF Save, NextStep, Crash, vars
  <2> QED BY <1>1, <2>1
<1> QED BY <1>2, <1>3, <1>4, <1>5, <1>6 DEF Next

LEMMA DroppedInit == Init => Dropped
<1> SUFFICES ASSUME Init PROVE Dropped
  OBVIOUS
<1>1. hook.step = 0 /\ config \in ConfigType /\ stepped = 0
  BY NewHookIs, ConfigAssumption DEF Init
<1> QED BY <1>1, StageZero DEF Dropped

\* No step of the system changes a row that is frozen for good.
Settles(i) ==
  /\ config.curriculum \in Doubling /\ pc # "down"
  /\ i < PrevActive(config, hook.step) /\ stepped = Stage(config, hook.step)
  => hook'.rows[Root][i] = hook.rows[Root][i]

LEMMA SettlesNext ==
  ASSUME Prepares, Dropped, [Next]_vars, NEW i \in Rows(config)
  PROVE  Settles(i)
<1> SUFFICES ASSUME config.curriculum \in Doubling, pc # "down",
                    i < PrevActive(config, hook.step), stepped = Stage(config, hook.step)
             PROVE  hook'.rows[Root][i] = hook.rows[Root][i]
  BY DEF Settles
<1>0. Typed /\ Steady /\ Lined /\ config \in ConfigType /\ hook \in Hooks /\ step \in Nat /\ i \in Nat
  BY ZeroIsRow DEF Prepares, Typed
\* The row is one of an earlier stage, and the hook has been told a step.
<1>1. PICK p \in Nat : LinedAt(p) /\ hook.step = p
  <2>1. PICK p \in Nat : LinedAt(p)
    BY <1>0 DEF Lined
  <2>2. hook.step # 0
    BY <1>0, StageZero
  <2> QED BY <2>1, <2>2 DEF LinedAt
<1>2. SetStep(hook, step).rows[Root][i] = hook.rows[Root][i]
  <2>1. step \in {p, p + 1} /\ InLine(hook, p)
    BY <1>0, <1>1 DEF LinedAt
  <2> QED BY <1>0, <1>1, <2>1, OldRowsKept
<1>3. CASE Generate \/ Validate
  <2>1. SendToEngine(Told(hook)) /\ Told(hook) \in Hooks
    BY <1>0, <1>3, ToldIs DEF Generate, Validate
  <2>2. hook'.rows[Root] = Told(hook).rows[Root]
    BY <1>0, <2>1, RankAssumption, SentIs
  <2> QED BY <1>2, <2>2 DEF Told
<1>4. CASE OldLogProb \/ Forward
  BY <1>2, <1>4 DEF OldLogProb, Forward
<1>5. CASE OptimizerStep
  <2>1. hook.step = step /\ pc = "optimize" /\ LinedAt(step)
    BY <1>0, <1>5, LinedReady DEF OptimizerStep, Ready
  <2>2. PrevActive(config, step) \in Nat /\ Active(config, step) \in Nat
        /\ PrevActive(config, step) <= Active(config, step)
    BY <1>0, ActiveGrows
  <2>3. stepped > 0 /\ ~InRawPhase(config, step)
    <3>1. Stage(config, step) \in Nat /\ Stage(config, step) # 0
      BY <1>0, <2>1, <2>2, StageFacts, Blocks
    <3> QED BY <1>0, <2>1, <3>1, StageFacts DEF InRawPhase
  <2>4. \A j \in Moved : j \in Nat /\ j >= PrevActive(config, step)
    <3>1. \A j \in moments : j >= PrevActive(config, step)
      BY <2>1, <2>3 DEF Dropped
    <3>2. \A j \in Moved : j \in Nat /\ j \in Rows(config)
      BY <1>0, <2>1, MovedIs, TrainedIs
    <3>3. \A j \in Rows(config) : j < PrevActive(config, step) => j \in Frozen(config, step)
      BY <2>3 DEF Frozen
    <3> QED BY <2>1, <2>2, <3>1, <3>2, <3>3 DEF Moved
  <2>5. hook.rows[Root][i].norm = "unit"
    <3>1. PreparedRow(hook.rows[Root][i], i, step)
      BY <2>1, RankAssumption DEF LinedAt, InLine, Prepared
    <3> QED BY <1>0, <2>1, <2>2, <2>3, <3>1 DEF PreparedRow
  <2>6. i \notin Moved /\ ~\E j \in Moved : j < i
    BY <1>0, <2>1, <2>2, <2>4
  <2>7. Trained(hook.rows[Root], Root)[i] = hook.rows[Root][i]
    <3>1. ~InWarmup(config, hook.step)
      BY DEF InWarmup, Doubling
    <3>2. Trained(hook.rows[Root], Root) = Orthogonalized(hook.rows[Root], Moved, step, Root)
      BY <2>1, <2>3, <3>1 DEF Trained
    <3> QED BY <2>5, <2>6, <3>2 DEF Orthogonalized
  <2>8. Optimized.rows[Root] = Trained(hook.rows[Root], Root)
    BY <1>0, RankAssumption, TrainedIs
  <2> QED BY <1>5, <2>7, <2>8 DEF OptimizerStep, Optimized, Left
<1>6. CASE Save \/ NextStep \/ Crash \/ UNCHANGED vars
  BY <1>6 DEF Save, NextStep, Crash, vars
<1>7. CASE Restart
  BY <1>7 DEF Restart
<1> QED BY <1>3, <1>4, <1>5, <1>6, <1>7 DEF Next

\* A frozen row is given up by the optimizer: once a stage has made its first step, no
\* leftover moment and no orthogonalisation moves a row of the stages before.
THEOREM FrozenForGood == Spec => SettlesOnce
<1>1. Init => Prepares /\ Dropped
  BY PreparesInductive, DroppedInit
<1>2. Prepares /\ Dropped /\ [Next]_vars => (Prepares /\ Dropped)'
  BY PreparesInductive, DroppedNext
<1>3. Prepares /\ Dropped /\ [Next]_vars => [\A i \in Rows(config) : Settles(i)]_vars
  BY SettlesNext
<1> QED BY <1>1, <1>2, <1>3, PTL DEF Spec, SettlesOnce, Settles

=============================================================================
