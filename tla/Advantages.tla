------------------------------ MODULE Advantages ------------------------------
\* The advantage estimators of src/verl/trainer/ppo/core_algos.py.  The outcome
\* estimators compare the score of a row with those of the rows of its group,
\* which balancing has scattered over the batch; the token estimators sweep a
\* response from its end and meet tokens the policy did not write (tool and user
\* turns), where response_mask is 0.  Numbers are exact: a quotient is the pair
\* <<numerator, denominator>> of integers, and standard deviations, which only
\* scale a whole group, are left out.
EXTENDS Sums, Sequences, FiniteSets

CONSTANTS
  Groups,     \* group (uid) of each row: sequences of equal length
  Scores,     \* outcome rewards
  LengthOf,   \* response length of a row, by the row
  gen_len,    \* tokens of a response
  Rewards, Values,   \* token rewards and critic values
  Gamma, Lambda      \* whole numbers: the estimators are polynomials in them

ASSUME AdvantagesAssumption ==
  /\ Groups \subseteq Seq(Nat)
  /\ \A g \in Groups : \A i \in DOMAIN g : LengthOf[i] \in Nat \ {0}
  /\ gen_len \in Nat
  /\ Scores \cup Rewards \cup Values \cup {Gamma, Lambda} \subseteq Int

VARIABLES
  data,      \* the batch: rows in the order balancing left them
  tokens,    \* one response: reward, value and mask of each token
  pos,       \* the token the sweep has reached; 0 at the end
  gae,       \* nextvalues and lastgaelam
  running,   \* running_return of REINFORCE++
  suffix,    \* the cumulative sum of REMAX
  out        \* what the sweep has put out for each token

advantages == <<data, tokens, pos, gae, running, suffix, out>>

(***************************************************************************)
(* Outcome estimators.                                                     *)
(***************************************************************************)
Times(a, q) == <<a * q[1], q[2]>>
Minus(p, q) == <<p[1] * q[2] - q[1] * p[2], p[2] * q[2]>>
SameNumber(p, q) == p[1] * q[2] = q[1] * p[2]

At(batch) == DOMAIN batch
\* (Faulty variant of the group: the neighbours, as if rows were still in order.)
GroupInOrder(batch, i) == {j \in At(batch) : (j - 1) \div 2 = (i - 1) \div 2}
Group(batch, i) == {j \in At(batch) : batch[j].uid = batch[i].uid}
Size(batch, i) == Cardinality(Group(batch, i))
ScoreIn(batch) == [i \in At(batch) |-> batch[i].score]
Score(batch, i) == <<batch[i].score, 1>>
SumIn(batch, f, i) == SumOver(f, Len(batch), Group(batch, i))
Sum(batch, i) == SumIn(batch, ScoreIn(batch), i)

\* id2mean: the mean of a group, and 0 for a row that is alone in its group.
Mean(batch, i) == IF Size(batch, i) = 1 THEN <<0, 1>> ELSE <<Sum(batch, i), Size(batch, i)>>

GRPO(batch, i) == Minus(Score(batch, i), Mean(batch, i))

\* alpha is the size of the batch over its number of scores that are not 0.
GPG(batch, i) ==
  LET nonzero == Cardinality({j \in At(batch) : batch[j].score # 0})
      m == IF nonzero = 0 THEN 1 ELSE nonzero
      a == GRPO(batch, i)
  IN  <<Len(batch) * a[1], m * a[2]>>

\* The leave-one-out baseline, as scaled score minus scaled mean.
RLOO(batch, i) ==
  LET n == Size(batch, i)
      a == Minus(Times(n, Score(batch, i)), Times(n, Mean(batch, i)))
  IN  IF n > 1 THEN <<a[1], a[2] * (n - 1)>> ELSE Score(batch, i)

RLOOVectorized(batch, i) ==
  LET c == Size(batch, i)
  IN  IF c > 1 THEN <<c * batch[i].score - Sum(batch, i), c - 1>> ELSE <<0, 1>>

LengthsIn(batch) == [i \in At(batch) |-> LengthOf[batch[i].row]]
\* The baseline of OPO weighs the scores of a group by their lengths.
OPO(batch, i) ==
  LET weighed == [j \in At(batch) |-> LengthsIn(batch)[j] * batch[j].score]
      baseline == <<SumIn(batch, weighed, i), SumIn(batch, LengthsIn(batch), i)>>
  IN  IF Size(batch, i) = 1 THEN Score(batch, i) ELSE Minus(Score(batch, i), baseline)

\* Only one best row of a group has an advantage, over the second best score;
\* which of several best ones topk names first is left open.
Best(batch, i) == {j \in Group(batch, i) : \A k \in Group(batch, i) : batch[k].score <= batch[j].score}
PassK(batch, i, best) ==
  LET others == Group(batch, i) \ {best}
      second == CHOOSE j \in others : \A k \in others : batch[k].score <= batch[j].score
  IN  IF i = best THEN <<batch[i].score - batch[second].score, 1>> ELSE <<0, 1>>

Estimates(batch, i) == <<GRPO(batch, i), GPG(batch, i), RLOO(batch, i),
                         RLOOVectorized(batch, i), OPO(batch, i)>>

\* _balance_batch and the micro-batches reorder the rows: any two may swap.
Swap(i, j) == /\ data' = [data EXCEPT ![i] = data[j], ![j] = data[i]]
              /\ UNCHANGED <<tokens, pos, gae, running, suffix, out>>

(***************************************************************************)
(* Token estimators: one sweep from the last token to the first.           *)
(***************************************************************************)
Token == tokens[pos]

\* (Faulty variant: the mask is not looked at.)
SweepAll == [next |-> Token.value,
             last |-> Token.reward + Gamma * gae.next - Token.value + Gamma * Lambda * gae.last]
\* nextvalues and lastgaelam stay as they were over a masked token.
SweepGae ==
  LET delta == Token.reward + Gamma * gae.next - Token.value
      last == delta + Gamma * Lambda * gae.last
  IN  IF Token.mask = 1 THEN [next |-> Token.value, last |-> last] ELSE gae

Return == Token.reward + Gamma * running
\* "Reset after EOS".
AfterReturn == Return * Token.mask

Suffix == suffix + Token.reward * Token.mask

Sweep ==
  /\ pos > 0
  /\ gae' = SweepGae
  /\ running' = AfterReturn
  /\ suffix' = Suffix
  /\ out' = [out EXCEPT ![pos] = [gae |-> gae'.last, rpp |-> Return, remax |-> suffix']]
  /\ pos' = pos - 1
  /\ UNCHANGED <<data, tokens>>

NoOut == [gae |-> 0, rpp |-> 0, remax |-> 0]

AdvantagesInit ==
  /\ \E g \in Groups : \E s \in [1..Len(g) -> Scores] :
       data = [i \in 1..Len(g) |-> [row |-> i, uid |-> g[i], score |-> s[i]]]
  /\ tokens \in [1..gen_len -> [reward : Rewards, value : Values, mask : 0..1]]
  /\ pos = gen_len
  /\ gae = [next |-> 0, last |-> 0] /\ running = 0 /\ suffix = 0
  /\ out = [i \in 1..gen_len |-> NoOut]

AdvantagesNext == (\E i, j \in DOMAIN data : i < j /\ Swap(i, j)) \/ Sweep
AdvantagesSpec == AdvantagesInit /\ [][AdvantagesNext]_advantages

(***************************************************************************)
(* Properties.                                                             *)
(***************************************************************************)
\* The batch before anything was reordered.
Original == [i \in DOMAIN data |-> CHOOSE r \in {data[j] : j \in DOMAIN data} : r.row = i]

\* "This usually changes the order of data in the batch, which won't affect the
\* advantage calculation (since it's based on uid)": every row has the advantage
\* it would have had in the original order, with each estimator, and with pass@k
\* whichever best row is taken as long as only one is best.
OrderFree ==
  \A i \in DOMAIN data :
    LET i0 == data[i].row IN
      /\ \A e \in 1..5 : SameNumber(Estimates(data, i)[e], Estimates(Original, i0)[e])
      /\ Size(data, i) > 1 =>
           \A b \in Best(data, i), b0 \in Best(Original, i0) :
             SameNumber(PassK(data, i, b), PassK(Original, i0, b0))

Own == {i \in 1..gen_len : tokens[i].mask = 1}
After(i) == {j \in Own : j > i}
NextOwn(i) == CHOOSE j \in After(i) : \A k \in After(i) : j <= k
\* Textbook GAE over the policy's own tokens, as if there were no others.
Textbook(i) ==
  LET f[j \in 1..gen_len] ==
        tokens[j].reward - tokens[j].value
        + IF After(j) = {} THEN 0
          ELSE Gamma * tokens[NextOwn(j)].value + Gamma * Lambda * f[NextOwn(j)]
  IN  f[i]

Rewarded == [j \in 1..gen_len |-> tokens[j].reward]
Power[n \in 0..gen_len] == IF n = 0 THEN 1 ELSE Gamma * Power[n - 1]
Discounted(i) == [j \in 1..gen_len |-> IF j < i THEN 0 ELSE Power[j - i] * tokens[j].reward]
\* A response of one turn: the policy's own tokens, and padding after its last.
OneTurn == \A i \in Own : 1..i \subseteq Own

\* "skip values and TD-error on observation tokens": at the policy's own tokens
\* GAE is what it is for the response without the observations, wherever tool
\* and user turns stand in it; the return of REMAX is the sum of the rewards of
\* the policy's own tokens from there on.  "Reset after EOS": the return of
\* REINFORCE++ is the discounted sum of the same rewards in a response of one turn,
\* whatever stands in the padding; nothing is said of it over observations.
SweepsOwnTokens ==
  pos = 0 => \A i \in Own :
    /\ out[i].gae = Textbook(i)
    /\ out[i].remax = SumOver(Rewarded, gen_len, After(i) \cup {i})
    /\ OneTurn => out[i].rpp = SumOver(Discounted(i), gen_len, After(i) \cup {i})
=============================================================================
