--------------------------- MODULE Services_proofs ---------------------------
(***************************************************************************)
(* Proofs about the rate limiter, the reward router and the scoring of     *)
(* programs, for any calls, pools, requests, workers, samples and cases:   *)
(* no permit is lost or doubled, so that at most Limit calls run, the      *)
(* router takes the least-loaded worker, and no score is undeserved.       *)
(***************************************************************************)
EXTENDS RateLimiter, RewardRouter, SandboxScoring, FiniteSetTheorems, TLAPS

-----------------------------------------------------------------------------
(* The rate limiter *)

Running == In("running")

\* The running calls are finitely many.
LEMMA RunningFinite == IsFiniteSet(Running) /\ Cardinality(Running) \in Nat
BY FiniteAssumption, FS_Subset, FS_CardinalityType DEF In, Running

\* A call that was and is not running changes nothing about those that are.
LEMMA SameRunning ==
  ASSUME TypeOK, NEW c \in Call, NEW s, s # "running", state[c] # "running",
         state' = [state EXCEPT ![c] = s]
  PROVE  Running' = Running
BY DEF TypeOK, In, Running

\* The head of the waiting acquires is a call.
LEMMA HeadIsCall ==
  ASSUME TypeOK, acquires # <<>>
  PROVE  Head(acquires) \in Call /\ Tail(acquires) \in Seq(Call)
BY DEF TypeOK

\* A crash takes the running calls of its pool away.
LEMMA CrashRunning ==
  ASSUME TypeOK, NEW p \in Pool, Crash(p)
  PROVE  LET gone == {c \in Running : PoolOf[c] = p} IN
         /\ Running' = Running \ gone
         /\ IsFiniteSet(gone)
         /\ lost' = lost + Cardinality(gone)
         /\ Cardinality(Running') = Cardinality(Running) - Cardinality(gone)
<1> DEFINE gone == {c \in Running : PoolOf[c] = p}
<1>1. Running' = Running \ gone
  BY DEF TypeOK, In, Running, Crash
<1>2. IsFiniteSet(gone) /\ IsFiniteSet(Running \ gone)
  BY RunningFinite, FS_Subset
<1>3. Cardinality(Running) = Cardinality(Running \ gone) + Cardinality(gone)
  <2>1. (Running \ gone) \cup gone = Running /\ (Running \ gone) \cap gone = {}
    OBVIOUS
  <2> HIDE DEF gone
  <2>2. Cardinality((Running \ gone) \cap gone) = 0
    BY <2>1, FS_EmptySet
  <2>3. /\ Cardinality(Running \ gone) \in Nat /\ Cardinality(gone) \in Nat
        /\ Cardinality((Running \ gone) \cup gone) =
             Cardinality(Running \ gone) + Cardinality(gone) - Cardinality((Running \ gone) \cap gone)
    BY <1>2, FS_Union, FS_CardinalityType
  <2>4. Cardinality((Running \ gone) \cup gone) = Cardinality(Running)
    BY <2>1
  <2> QED BY <2>2, <2>3, <2>4
<1>4. lost' = lost + Cardinality(gone)
  BY DEF Crash, Running
<1>5. Cardinality(gone) \in Nat /\ Cardinality(Running \ gone) \in Nat
  BY <1>2, FS_CardinalityType
<1> QED BY <1>1, <1>2, <1>3, <1>4, <1>5

\* Types are kept by every step; only a permit that is left is taken.
LEMMA TypeStep == TypeOK /\ [Next]_vars => TypeOK'
<1> SUFFICES ASSUME TypeOK, [Next]_vars PROVE TypeOK'
  OBVIOUS
<1>1. ASSUME NEW c \in Call, Submit(c) PROVE TypeOK'
  BY <1>1 DEF TypeOK, Submit
<1>2. ASSUME NEW c \in Call, Start(c) PROVE TypeOK'
  BY <1>2 DEF TypeOK, Start
<1>3. ASSUME NEW c \in Call, Finish(c) PROVE TypeOK'
  BY <1>3 DEF TypeOK, Finish, Released
<1>4. ASSUME NEW c \in Call, AcquireFails(c) PROVE TypeOK'
  BY <1>4 DEF TypeOK, AcquireFails
<1>5. CASE Acquire
  <2>1. Head(acquires) \in Call /\ Tail(acquires) \in Seq(Call)
    BY <1>5, HeadIsCall DEF Acquire
  <2> QED BY <1>5, <2>1 DEF TypeOK, Acquire, PermitLeft
<1>6. CASE Release
  BY <1>6 DEF TypeOK, Release
<1>7. ASSUME NEW p \in Pool, Crash(p) PROVE TypeOK'
  <2> DEFINE gone == {c \in Running : PoolOf[c] = p}
  <2>1. IsFiniteSet(gone) /\ lost' = lost + Cardinality(gone)
    BY <1>7, CrashRunning
  <2>2. Cardinality(gone) \in Nat
    BY <2>1, FS_CardinalityType
  <2> HIDE DEF gone
  <2>3. lost' \in Nat
    BY <2>1, <2>2 DEF TypeOK
  <2> QED BY <1>7, <2>3 DEF TypeOK, Crash
<1>8. CASE NotSent
  BY <1>8, HeadIsCall DEF TypeOK, NotSent
<1>9. CASE UNCHANGED vars
  BY <1>9 DEF TypeOK, vars
<1> QED BY <1>1, <1>2, <1>3, <1>4, <1>5, <1>6, <1>7, <1>8, <1>9 DEF Next

\* No step loses or doubles a permit.
LEMMA PermitsStep == TypeOK /\ PermitsKept /\ [Next]_vars => PermitsKept'
<1> SUFFICES ASSUME TypeOK, PermitsKept, [Next]_vars PROVE PermitsKept'
  OBVIOUS
<1> USE DEF Running
<1>1. ASSUME NEW c \in Call, Submit(c) \/ Start(c) \/ AcquireFails(c) PROVE PermitsKept'
  <2>1. PICK s : s # "running" /\ state' = [state EXCEPT ![c] = s]
    BY <1>1 DEF Submit, Start, AcquireFails
  <2>2. state[c] # "running"
    BY <1>1 DEF Submit, Start, AcquireFails
  <2>3. Running' = Running
    BY <2>1, <2>2, SameRunning
  <2> QED BY <1>1, <2>3 DEF PermitsKept, LimiterAlive, Submit, Start, AcquireFails
<1>2. ASSUME NEW c \in Call, Finish(c) PROVE PermitsKept'
  <2>1. c \in Running /\ Running' = Running \ {c}
    BY <1>2 DEF Finish, In, TypeOK
  <2>2. Cardinality(Running') = Cardinality(Running) - 1
    BY <2>1, RunningFinite, FS_RemoveElement
  <2>3. /\ LimiterAlive' = LimiterAlive /\ permits' = permits /\ lost' = lost
        /\ LimiterAlive => releases' = releases + 1
    BY <1>2 DEF Finish, Released, LimiterAlive
  <2>4. permits \in Nat /\ releases \in Nat /\ lost \in Nat /\ Cardinality(Running) \in Nat
    BY RunningFinite DEF TypeOK
  <2> HIDE DEF Running
  <2> QED BY <2>2, <2>3, <2>4, BoundAssumption DEF PermitsKept, Running
<1>3. CASE Acquire
  <2> DEFINE h == Head(acquires)
  <2>1. h \in Call
    BY <1>3, HeadIsCall DEF Acquire
  <2>2. CASE state[h] = "waiting"
    <3>1. h \notin Running /\ Running' = Running \cup {h}
      BY <1>3, <2>1, <2>2 DEF Acquire, In, TypeOK
    <3>2. Cardinality(Running') = Cardinality(Running) + 1
      BY <3>1, RunningFinite, FS_AddElement
    <3> QED BY <1>3, <2>2, <3>2, RunningFinite
        DEF PermitsKept, LimiterAlive, Acquire, PermitLeft, TypeOK
  <2>3. CASE state[h] # "waiting"
    <3>1. Running' = Running
      BY <1>3, <2>3 DEF Acquire, In
    <3>2. /\ LimiterAlive' = LimiterAlive /\ permits' = permits - 1 /\ lost' = lost + 1
          /\ releases' = releases
      BY <1>3, <2>3 DEF Acquire, LimiterAlive
    <3>3. permits \in Nat /\ releases \in Nat /\ lost \in Nat /\ Cardinality(Running) \in Nat
      BY RunningFinite DEF TypeOK
    <3> HIDE DEF Running
    <3> QED BY <3>1, <3>2, <3>3, BoundAssumption DEF PermitsKept, Running
  <2> QED BY <2>2, <2>3
<1>4. CASE Release
  <2>1. Running' = Running
    BY <1>4 DEF Release, In
  <2> QED BY <1>4, <2>1, RunningFinite DEF PermitsKept, LimiterAlive, Release, TypeOK
<1>5. ASSUME NEW p \in Pool, Crash(p) PROVE PermitsKept'
  <2> DEFINE gone == {c \in Running : PoolOf[c] = p}
  <2>1. LimiterAlive' => LimiterAlive
    BY <1>5 DEF LimiterAlive, Crash
  <2>2. /\ lost' = lost + Cardinality(gone)
        /\ Cardinality(Running') = Cardinality(Running) - Cardinality(gone)
        /\ Cardinality(gone) \in Nat
    BY <1>5, CrashRunning, FS_CardinalityType
  <2>3. permits' = permits /\ releases' = releases
    BY <1>5 DEF Crash
  <2> HIDE DEF gone, Running
  <2> QED BY <2>1, <2>2, <2>3, RunningFinite DEF PermitsKept, TypeOK, Running
<1>6. CASE NotSent
  BY <1>6 DEF PermitsKept, LimiterAlive, In, NotSent
<1>7. CASE UNCHANGED vars
  BY <1>7 DEF PermitsKept, LimiterAlive, In, vars
<1> QED BY <1>1, <1>2, <1>3, <1>4, <1>5, <1>6, <1>7 DEF Next

\* At first every permit is free.
LEMMA LimiterInit == Init => TypeOK /\ PermitsKept
<1> SUFFICES ASSUME Init PROVE TypeOK /\ PermitsKept
  OBVIOUS
<1>1. In("running") = {}
  BY DEF Init, In
<1>2. Cardinality(In("running")) = 0
  BY <1>1, FS_EmptySet
<1> QED BY <1>2, BoundAssumption DEF Init, TypeOK, PermitsKept

\* The types of the limiter; the semaphore stays a natural number.
THEOREM TypeCorrect == Spec => []TypeOK
BY LimiterInit, TypeStep, PTL DEF Spec

\* Every permit is free, held, about to be released or lost with a pool.
THEOREM AlwaysKept == Spec => []PermitsKept
<1>1. TypeOK /\ PermitsKept /\ [Next]_vars => TypeOK' /\ PermitsKept'
  BY TypeStep, PermitsStep
<1> QED BY LimiterInit, <1>1, PTL DEF Spec

\* Seen from BoundedUse, a step lets one call in, some out, or stutters.
LEMMA BoundedStep ==
  TypeOK /\ PermitsKept /\ [Next]_vars => [Bounded!Next]_Running
<1> SUFFICES ASSUME TypeOK, PermitsKept, [Next]_vars
             PROVE  [Bounded!Next]_Running
  OBVIOUS
<1>1. ASSUME NEW c \in Call, Submit(c) \/ Start(c) \/ AcquireFails(c) PROVE Running' = Running
  <2>1. PICK s : s # "running" /\ state' = [state EXCEPT ![c] = s]
    BY <1>1 DEF Submit, Start, AcquireFails
  <2>2. state[c] # "running"
    BY <1>1 DEF Submit, Start, AcquireFails
  <2> QED BY <2>1, <2>2, SameRunning
<1>2. ASSUME NEW c \in Call, Finish(c) PROVE Bounded!Leave
  <2>1. {c} \in SUBSET Running /\ Running' = Running \ {c}
    BY <1>2 DEF Finish, In, TypeOK, Running
  <2> QED BY <2>1 DEF Bounded!Leave, Running
<1>3. ASSUME Acquire PROVE Running' = Running \/ \E c \in Call : Bounded!Enter(c)
  <2> DEFINE h == Head(acquires)
  <2>1. h \in Call
    BY <1>3, HeadIsCall DEF Acquire
  <2>2. CASE state[h] = "waiting"
    <3>1. h \notin Running /\ Running' = Running \cup {h}
      BY <1>3, <2>1, <2>2 DEF Acquire, In, TypeOK, Running
    <3>2. Cardinality(Running) < Limit
      BY <1>3, RunningFinite, BoundAssumption DEF Acquire, PermitLeft, PermitsKept, TypeOK, Running
    <3>3. PICK c \in Call : c \notin Running /\ Running' = Running \cup {c}
      BY <2>1, <3>1
    <3>4. Bounded!Enter(c)
      BY <3>2, <3>3 DEF Bounded!Enter, Running, Bounded!Cardinality, Cardinality
    <3> QED BY <3>4
  <2>3. CASE state[h] # "waiting"
    BY <1>3, <2>3 DEF Acquire, In, Running
  <2> QED BY <2>2, <2>3
<1>4. ASSUME Release \/ NotSent PROVE Running' = Running
  BY <1>4 DEF Release, NotSent, In, Running
<1>5. ASSUME NEW p \in Pool, Crash(p) PROVE Bounded!Leave
  <2>1. Running' = Running \ {c \in Running : PoolOf[c] = p}
    BY <1>5, CrashRunning
  <2>2. {c \in Running : PoolOf[c] = p} \in SUBSET Running
    OBVIOUS
  <2> QED BY <2>1, <2>2 DEF Bounded!Leave, Running
<1>6. ASSUME UNCHANGED vars PROVE Running' = Running
  BY <1>6 DEF In, vars, Running
<1> QED BY <1>1, <1>2, <1>3, <1>4, <1>5, <1>6 DEF Next, Bounded!Next

\* At most Limit calls use the sandbox at a time, whatever crashes.
THEOREM ImplementsBoundedUse == Spec => UsesBounded
<1>1. Init => Bounded!Init
  BY DEF Init, Bounded!Init, In
<1>2. TypeOK /\ PermitsKept /\ [Next]_vars => [Bounded!Next]_(In("running"))
  BY BoundedStep DEF Running
<1>3. Spec => []TypeOK /\ []PermitsKept
  BY TypeCorrect, AlwaysKept
<1> QED BY <1>1, <1>2, <1>3, PTL DEF Spec, UsesBounded, Bounded!Spec

-----------------------------------------------------------------------------
(* The reward router *)

Phases == {"new", "body", "sent", "asleep", "answered", "raised"}

\* Types, and a request that was routed has a worker.
Routed ==
  /\ counts \in [Worker -> Nat]
  /\ phase \in [Request -> Phases]
  /\ worker \in [Request -> Worker \cup {NoWorker}]
  /\ \A q \in Request : phase[q] # "new" => worker[q] \in Worker

\* The requests of a worker that count: open ones and failed ones.
Counted(w) == {q \in Request : worker[q] = w /\ phase[q] \in {"body", "sent", "asleep", "raised"}}

\* They are finitely many, and either open or failed.
LEMMA CountedSplit ==
  ASSUME NEW w
  PROVE  /\ IsFiniteSet(Counted(w)) /\ Cardinality(Counted(w)) \in Nat
         /\ Cardinality(Counted(w)) = Cardinality(OpenOn(w)) + Cardinality(RaisedOn(w))
<1>1. IsFiniteSet(Counted(w)) /\ IsFiniteSet(OpenOn(w)) /\ IsFiniteSet(RaisedOn(w))
  BY RouterAssumption, FS_Subset DEF Counted, OpenOn, RaisedOn
<1>2. Counted(w) = OpenOn(w) \cup RaisedOn(w) /\ OpenOn(w) \cap RaisedOn(w) = {}
  BY DEF Counted, OpenOn, RaisedOn
<1>3. Cardinality(OpenOn(w) \cap RaisedOn(w)) = 0
  BY <1>2, FS_EmptySet
<1>4. /\ Cardinality(OpenOn(w)) \in Nat /\ Cardinality(RaisedOn(w)) \in Nat
      /\ Cardinality(OpenOn(w) \cup RaisedOn(w)) =
           Cardinality(OpenOn(w)) + Cardinality(RaisedOn(w)) - Cardinality(OpenOn(w) \cap RaisedOn(w))
  BY <1>1, FS_Union, FS_CardinalityType
<1> QED BY <1>1, <1>2, <1>3, <1>4

CountsRight == \A w \in Worker : counts[w] = Cardinality(Counted(w))

\* Routing a request counts it, an answer counts it out, nothing else matters.
LEMMA RouterStep == Routed /\ CountsRight /\ [RouterNext]_routerVars => Routed' /\ CountsRight'
<1> SUFFICES ASSUME Routed, CountsRight, [RouterNext]_routerVars
             PROVE  Routed' /\ CountsRight'
  OBVIOUS
<1>1. ASSUME NEW q \in Request, Select(q) PROVE Routed' /\ CountsRight'
  <2>1. PICK w \in Worker : /\ worker' = [worker EXCEPT ![q] = w]
                            /\ counts' = [counts EXCEPT ![w] = @ + 1]
    BY <1>1 DEF Select
  <2>2. phase[q] = "new" /\ phase' = [phase EXCEPT ![q] = "body"]
    BY <1>1 DEF Select
  <2>3. Routed'
    BY <2>1, <2>2 DEF Routed, Phases
  <2>4. q \notin Counted(w) /\ Counted(w)' = Counted(w) \cup {q}
    BY <2>1, <2>2 DEF Routed, Counted
  <2>5. \A v \in Worker \ {w} : Counted(v)' = Counted(v)
    BY <2>1, <2>2 DEF Routed, Counted
  <2>6. Cardinality(Counted(w)') = Cardinality(Counted(w)) + 1
    BY <2>4, CountedSplit, FS_AddElement
  <2> QED BY <2>1, <2>3, <2>5, <2>6 DEF Routed, CountsRight
<1>2. ASSUME NEW q \in Request, Body(q) \/ Retry(q) \/ Fail(q) PROVE Routed' /\ CountsRight'
  <2>1. PICK s \in {"sent", "raised", "asleep"} : phase' = [phase EXCEPT ![q] = s]
    BY <1>2 DEF Body, Retry, Fail
  <2>2. phase[q] \in {"body", "sent", "asleep"} /\ UNCHANGED <<worker, counts>>
    BY <1>2 DEF Body, Retry, Fail, AfterFailure
  <2>3. Routed'
    BY <2>1, <2>2 DEF Routed, Phases
  <2>4. \A v \in Worker : Counted(v)' = Counted(v)
    BY <2>1, <2>2 DEF Routed, Counted
  <2> QED BY <2>2, <2>3, <2>4 DEF CountsRight
<1>3. ASSUME NEW q \in Request, Answer(q) PROVE Routed' /\ CountsRight'
  <2> DEFINE w == worker[q]
  <2>1. phase[q] = "sent" /\ w \in Worker /\ UNCHANGED worker
        /\ phase' = [phase EXCEPT ![q] = "answered"]
    BY <1>3 DEF Answer, Routed
  <2>2. q \in Counted(w) /\ Counted(w)' = Counted(w) \ {q}
    BY <2>1 DEF Routed, Counted
  <2>3. \A v \in Worker \ {w} : Counted(v)' = Counted(v)
    BY <2>1 DEF Routed, Counted
  <2>4. Cardinality(Counted(w)') = Cardinality(Counted(w)) - 1
    BY <2>2, CountedSplit, FS_RemoveElement
  <2>5. counts[w] # 0
    BY <2>1, <2>2, CountedSplit, FS_EmptySet DEF CountsRight
  <2>6. counts' = [counts EXCEPT ![w] = @ - 1]
    BY <1>3, <2>5 DEF Answer
  <2>7. Routed'
    BY <2>1, <2>5, <2>6 DEF Routed, Phases
  <2> QED BY <2>1, <2>3, <2>4, <2>6, <2>7 DEF Routed, CountsRight
<1>4. CASE UNCHANGED routerVars
  BY <1>4 DEF Routed, CountsRight, Counted, routerVars
<1> QED BY <1>1, <1>2, <1>3, <1>4 DEF RouterNext

\* A request that is routed goes to a worker with the lowest count, and only given-up
\* requests make a count greater than the load.
LEMMA RoutedToLeast ==
  ASSUME CountsRight, [RouterNext]_routerVars, NEW q \in Request, worker'[q] # worker[q],
         NEW v \in Worker, RaisedOn(v) = {}
  PROVE  Cardinality(OpenOn(worker'[q])) <= Cardinality(OpenOn(v))
<1>1. PICK p \in Request : Select(p)
  BY DEF RouterNext, routerVars, Body, Answer, Fail, Retry
<1>2. PICK w \in Worker : counts[w] <= counts[v] /\ worker' = [worker EXCEPT ![p] = w]
  BY <1>1 DEF Select
<1>3. worker'[q] = w
  BY <1>2
<1>4. /\ counts[w] = Cardinality(OpenOn(w)) + Cardinality(RaisedOn(w))
      /\ counts[v] = Cardinality(OpenOn(v)) + Cardinality(RaisedOn(v))
  BY CountedSplit DEF CountsRight
<1>5. Cardinality(RaisedOn(v)) = 0
  BY FS_EmptySet
<1>6. \A u \in {v, w} : Cardinality(OpenOn(u)) \in Nat /\ Cardinality(RaisedOn(u)) \in Nat
  BY RouterAssumption, FS_Subset, FS_CardinalityType DEF OpenOn, RaisedOn
<1> QED BY <1>2, <1>3, <1>4, <1>5, <1>6

\* The router selects the least-loaded worker, for any requests, workers and attempts.
THEOREM ChoosesLeastLoaded == RouterSpec => LeastLoaded
<1>1. RouterInit => Routed /\ CountsRight
  <2> SUFFICES ASSUME RouterInit PROVE Routed /\ CountsRight
    OBVIOUS
  <2>1. \A w \in Worker : Counted(w) = {}
    BY DEF RouterInit, Counted
  <2> QED BY <2>1, FS_EmptySet DEF RouterInit, Routed, Phases, CountsRight
<1>2. CountsRight /\ [RouterNext]_routerVars =>
        [\A q \in Request : worker'[q] # worker[q] =>
           \A v \in Worker : RaisedOn(v) = {} =>
             Cardinality(OpenOn(worker'[q])) <= Cardinality(OpenOn(v))]_routerVars
  BY RoutedToLeast
<1> QED BY <1>1, <1>2, RouterStep, PTL DEF RouterSpec, LeastLoaded

-----------------------------------------------------------------------------
(* Scoring *)

\* What has run of a sample under way has passed: its first failure ends it.
Underway(i) ==
  /\ results[i] \in Seq({Passed}) /\ Len(results[i]) < CaseCount
  /\ \A k \in 1..Len(results[i]) : k \in program[i]
  /\ stage[i] # "queued" => program[i] # NoCode

ScoringInv ==
  /\ stage \in [Sample -> {"queued", "acquire", "request", "over"}]
  /\ score \in [Sample -> {0, 1, Unscored}]
  /\ DOMAIN results = Sample
  /\ \A i \in Sample : stage[i] # "over" => Underway(i)
  /\ ScoresJustly

LEMMA CaseCountIsNat == CaseCount \in Nat \ {0}
BY ScoringAssumption DEF CaseCount

LEMMA ScoreSays ==
  ASSUME NEW rs
  PROVE  /\ ScoreOf(rs) \in {0, 1}
         /\ ScoreOf(rs) = 1 <=> \A k \in Considered : rs[k] = Passed
BY DEF ScoreOf

\* A result other than passed is the program's doing or known trouble.
LEMMA StatusSays ==
  ASSUME NEW i \in Sample, NEW response \in Responses(i)
  PROVE  LET k == Len(results[i]) + 1
             r == StatusOf(response)
         IN  /\ r \in Int /\ (r = Passed => k \in program[i])
             /\ (r # Passed => k \notin program[i] \/ r \in {-1, -3})
<1> DEFINE k == Len(results[i]) + 1
           slow == IF k \in program[i] THEN {} ELSE {"Error"}
<1>1. CASE response \in [status : {"Success"}, run : {"Finished"}, matches : {k \in program[i]}]
  BY <1>1 DEF StatusOf, Passed
<1>2. CASE response \in [status : {"Failed"}, run : {"TimeLimitExceeded"} \cup slow, matches : {FALSE}]
  <2>1. response.status = "Failed" /\ (response.run = "TimeLimitExceeded" \/ k \notin program[i])
    BY <1>2
  <2> QED BY <2>1 DEF StatusOf, Passed
<1>3. CASE response \in [status : {"SandboxError"}, run : {"Error"}, matches : {FALSE}]
  BY <1>3 DEF StatusOf, Passed
<1> QED BY <1>1, <1>2, <1>3 DEF Responses

\* Samples other than i keep what the invariant says of them.
LEMMA OthersKeep ==
  ASSUME ScoringInv, NEW i \in Sample, NEW j \in Sample \ {i},
         UNCHANGED <<program, max_cases>>, troubled \subseteq troubled',
         results'[j] = results[j], stage'[j] = stage[j], score'[j] = score[j]
  PROVE  /\ stage'[j] # "over" => Underway(j)'
         /\ score'[j] = 1 => Correct(j)'
         /\ score'[j] = 0 => ~Correct(j)' \/ j \in troubled'
BY DEF ScoringInv, Underway, ScoresJustly, Correct, Considered, CaseCount

\* A case ends with a result that tells whether it passed, or the trouble is known.
LEMMA CaseEndsJustly ==
  ASSUME ScoringInv, NEW i \in Sample, stage[i] = "request", NEW r \in Int,
         LET k == Len(results[i]) + 1
         IN  (r = Passed => k \in program[i]) /\ (r # Passed => k \notin program[i] \/ i \in troubled'),
         CaseEnds(i, r), UNCHANGED <<program, max_cases>>, troubled \subseteq troubled'
  PROVE  ScoringInv'
<1> DEFINE rs == Append(results[i], r)
           all == [k \in Considered |-> IF k <= Len(rs) THEN rs[k] ELSE 0]
           n == Len(results[i])
<1>1. Underway(i) /\ program[i] # NoCode
  BY DEF ScoringInv, Underway
<1>2. /\ n \in Nat /\ n < CaseCount /\ Len(rs) = n + 1
      /\ \A k \in 1..n : rs[k] = Passed /\ k \in program[i]
      /\ rs[n + 1] = r /\ DOMAIN rs = 1..(n + 1)
  BY <1>1 DEF Underway, Passed
<1>3. CaseCount' = CaseCount /\ Considered' = Considered
  BY DEF CaseCount, Considered
<1>4. CASE Len(rs) = CaseCount \/ FailFast(i, rs)
  <2>1. /\ results' = [results EXCEPT ![i] = all]
        /\ stage' = [stage EXCEPT ![i] = "over"]
        /\ score' = Scored(i, ScoreOf(all))
    BY <1>4 DEF CaseEnds
  <2>2. ScoreOf(all) = 1 => Considered \subseteq program[i]
    <3> SUFFICES ASSUME ScoreOf(all) = 1, NEW k \in Considered PROVE k \in program[i]
      OBVIOUS
    <3>1. \A m \in Considered : all[m] = Passed
      BY ScoreSays
    <3>2. k \in 1..CaseCount /\ (IF k <= Len(rs) THEN rs[k] ELSE 0) = Passed
      BY <3>1 DEF Considered
    <3>3. k <= n + 1
      BY <3>2, <1>2, CaseCountIsNat DEF Passed
    <3>4. CASE k = n + 1
      BY <3>2, <3>4, <1>2
    <3>5. CASE k # n + 1
      BY <3>2, <3>3, <3>5, <1>2, CaseCountIsNat
    <3> QED BY <3>4, <3>5
  <2>3. ScoreOf(all) = 0 => ~(Considered \subseteq program[i]) \/ i \in troubled'
    <3> SUFFICES ASSUME ScoreOf(all) = 0
                 PROVE ~(Considered \subseteq program[i]) \/ i \in troubled'
      OBVIOUS
    <3>1. n + 1 \in Considered
      BY <1>2, CaseCountIsNat DEF Considered
    <3>2. CASE r # Passed
      BY <3>1, <3>2
    <3>3. CASE r = Passed
      <4>1. \A k \in 1..(n + 1) : rs[k] = Passed
        BY <3>3, <1>2
      <4>2. Len(rs) = CaseCount
        BY <1>4, <1>2, <4>1 DEF FailFast
      <4>3. \A k \in Considered : all[k] = Passed
        BY <4>1, <4>2, <1>2 DEF Considered
      <4> HIDE DEF all
      <4>4. ScoreOf(all) = 1
        BY <4>3, ScoreSays
      <4> QED BY <4>4
    <3> QED BY <3>2, <3>3
  <2>4. ScoreOf(all) \in {0, 1} /\ Unscored \notin {0, 1}
    BY ScoringAssumption, ScoreSays
  <2>5. score'[i] = score[i] \/ (score[i] = Unscored /\ score'[i] = ScoreOf(all))
    BY <2>1 DEF Scored, ScoringInv
  <2>6. /\ score'[i] = 1 => Correct(i)'
        /\ score'[i] = 0 => ~Correct(i)' \/ i \in troubled'
    BY <1>1, <1>3, <2>2, <2>3, <2>5 DEF ScoringInv, ScoresJustly, Correct
  <2>7. \A j \in Sample \ {i} : results'[j] = results[j] /\ stage'[j] = stage[j] /\ score'[j] = score[j]
    BY <2>1 DEF Scored, ScoringInv
  <2>8. /\ stage' \in [Sample -> {"queued", "acquire", "request", "over"}]
        /\ score' \in [Sample -> {0, 1, Unscored}]
        /\ DOMAIN results' = Sample /\ stage'[i] = "over"
    BY <2>1, <2>4 DEF Scored, ScoringInv
  <2>9. \A j \in Sample : /\ stage'[j] # "over" => Underway(j)'
                          /\ score'[j] = 1 => Correct(j)'
                          /\ score'[j] = 0 => ~Correct(j)' \/ j \in troubled'
    BY <2>6, <2>7, <2>8, OthersKeep
  <2> QED BY <2>8, <2>9 DEF ScoringInv, ScoresJustly
<1>5. CASE ~(Len(rs) = CaseCount \/ FailFast(i, rs))
  <2>1. /\ results' = [results EXCEPT ![i] = rs]
        /\ stage' = [stage EXCEPT ![i] = "acquire"]
        /\ score' = score
    BY <1>5 DEF CaseEnds
  <2>2. r = Passed /\ Len(rs) < CaseCount
    BY <1>2, <1>5, CaseCountIsNat DEF FailFast
  <2>3. rs \in Seq({Passed}) /\ \A k \in 1..Len(rs) : k \in program[i]
    <3>1. rs \in Seq({Passed})
      BY <1>1, <2>2 DEF Underway
    <3> QED BY <3>1, <1>2, <2>2
  <2>4. Underway(i)'
    BY <1>1, <1>3, <2>1, <2>2, <2>3 DEF Underway, ScoringInv
  <2>5. \A j \in Sample \ {i} : results'[j] = results[j] /\ stage'[j] = stage[j] /\ score'[j] = score[j]
    BY <2>1 DEF ScoringInv
  <2>6. /\ stage' \in [Sample -> {"queued", "acquire", "request", "over"}]
        /\ score' \in [Sample -> {0, 1, Unscored}]
        /\ DOMAIN results' = Sample
    BY <2>1 DEF ScoringInv
  <2>7. \A j \in Sample : /\ stage'[j] # "over" => Underway(j)'
                          /\ score'[j] = 1 => Correct(j)'
                          /\ score'[j] = 0 => ~Correct(j)' \/ j \in troubled'
    BY <1>3, <2>1, <2>4, <2>5, OthersKeep DEF ScoringInv, ScoresJustly, Correct
  <2> QED BY <2>6, <2>7 DEF ScoringInv, ScoresJustly
<1> QED BY <1>4, <1>5

LEMMA ScoringStep == ScoringInv /\ [ScoringNext]_scoringVars => ScoringInv'
<1> SUFFICES ASSUME ScoringInv, [ScoringNext]_scoringVars PROVE ScoringInv'
  OBVIOUS
<1> USE DEF ScoringInv, ScoresJustly, Underway, Correct, Considered, CaseCount
<1>1. ASSUME NEW i \in Sample, Begin(i) PROVE ScoringInv'
  BY <1>1 DEF Begin, Scored
<1>2. ASSUME NEW i \in Sample, TakePermit(i) PROVE ScoringInv'
  <2>1. ~FailFast(i, results[i])
    BY <1>2 DEF TakePermit, FailFast
  <2> QED BY <1>2, <2>1 DEF TakePermit
<1>3. ASSUME NEW i \in Sample, TryAgain(i) PROVE ScoringInv'
  BY <1>3 DEF TryAgain
<1>4. ASSUME NEW i \in Sample, RequestEnds(i) PROVE ScoringInv'
  <2> USE DEF RequestEnds
  <2>1. PICK r \in {-1} \cup {StatusOf(response) : response \in Responses(i)} :
          /\ CaseEnds(i, r)
          /\ troubled' = IF r \in {-1, -3} THEN troubled \cup {i} ELSE troubled
    BY <1>4
  <2> DEFINE k == Len(results[i]) + 1
  <2>2. r \in Int /\ (r = Passed => k \in program[i])
        /\ (r # Passed => k \notin program[i] \/ r \in {-1, -3})
    BY <2>1, StatusSays DEF Passed
  <2> QED BY <1>4, <2>1, <2>2, CaseEndsJustly
<1>5. ASSUME NEW i \in Sample, GiveUp(i) PROVE ScoringInv'
  BY <1>5 DEF GiveUp, Scored
<1>6. CASE NextBatch
  <2>1. CaseCount \in Nat \ {0} /\ Unscored \notin {0, 1}
    BY CaseCountIsNat, ScoringAssumption
  <2> QED BY <1>6, <2>1 DEF NextBatch
<1>7. CASE GhostTakes
  BY <1>7 DEF GhostTakes
<1>8. CASE UNCHANGED scoringVars
  BY <1>8 DEF scoringVars
<1> QED BY <1>1, <1>2, <1>3, <1>4, <1>5, <1>6, <1>7, <1>8 DEF ScoringNext

\* No score is undeserved, for any number of samples, cases, permits and workers,
\* whichever of them are given up.
THEOREM NoScoreUndeserved == ScoringSpec => []ScoresJustly
<1>1. ScoringInit => ScoringInv
  BY DEF ScoringInit, ScoringInv, ScoresJustly, Correct
<1>2. ScoringInv => ScoresJustly
  BY DEF ScoringInv
<1> QED BY <1>1, <1>2, ScoringStep, PTL DEF ScoringSpec
=============================================================================
