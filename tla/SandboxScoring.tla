--------------------------- MODULE SandboxScoring ---------------------------
(***************************************************************************)
(* Scoring generated programs in a code sandbox.  A reward manager gives    *)
(* the samples of a batch to a pool, in which the test cases of a sample    *)
(* run one after the other, each as a request under a semaphore all share.  *)
(* The dapo manager has threads and waits for them; the prime manager has   *)
(* processes, gives up a sample after a timeout and kills the processes at  *)
(* the end of the batch.  The semaphore lives on, in a process of its own.  *)
(***************************************************************************)
EXTENDS Integers, Sequences, FiniteSets

CONSTANTS
  Sample,          \* the samples of a batch
  NumCases,        \* test cases of a problem
  Manager,         \* the managers considered, of "dapo" and "prime"
  MaxCases,        \* values of max_cases; 0 when it is not set
  MaxConcurrent,   \* permits of the semaphore
  PoolSize,        \* threads or processes of a manager
  MaxRetries,      \* MAX_RETRIES of a request
  Batches,         \* bound: batches scored
  Unscored

ASSUME ScoringAssumption ==
  /\ NumCases \in Nat \ {0} /\ MaxCases \subseteq Nat /\ Manager \subseteq {"dapo", "prime"}
  /\ {MaxConcurrent, PoolSize, MaxRetries, Batches} \subseteq Nat \ {0}
  /\ IsFiniteSet(Sample) /\ Unscored \notin {0, 1}

VARIABLES
  manager, max_cases,
  batch,       \* the batch being scored
  program,     \* of each sample: the cases it passes, or NoCode
  stage,       \* of a sample in the pool
  results,     \* of the test cases of a sample so far
  tries,       \* requests sent for the case under way
  score,
  free,        \* permits of the semaphore nobody holds
  ghosts,      \* acquires the semaphore's process executes for processes that are gone
  troubled     \* history: samples with a request that failed or a timeout

scoringVars == <<manager, max_cases, batch, program, stage, results, tries, score, free, ghosts, troubled>>

\* Not a set of cases.
NoCode == {0}

CaseCount == IF max_cases \in 1..NumCases THEN max_cases ELSE NumCases
Considered == 1..CaseCount

\* No batch has been handed in.
ScoringInit ==
  /\ manager \in Manager /\ max_cases \in MaxCases /\ batch = 0
  /\ program = [i \in Sample |-> NoCode] /\ stage = [i \in Sample |-> "over"]
  /\ results = [i \in Sample |-> <<>>] /\ tries = [i \in Sample |-> 0]
  /\ score = [i \in Sample |-> 0] /\ troubled = {}
  /\ free = MaxConcurrent /\ ghosts = 0

(* The results of test cases *)

\* True; 0 is False, -1 an error of the request or the sandbox, -2 one of the program,
\* -3 its timeout.
Passed == 1

\* fail_fast_event, one for each program.  (Faulty variant: one for all.)
FailFastShared(i, rs) ==
  \/ \E k \in DOMAIN rs : rs[k] # Passed
  \/ \E j \in Sample : \E k \in DOMAIN results[j] : results[j][k] # Passed
FailFast(i, rs) == \E k \in DOMAIN rs : rs[k] # Passed

\* The score of compute_score.
ScoreOf(rs) == IF \A k \in Considered : rs[k] = Passed THEN 1 ELSE 0

\* Somebody may have given the sample up.
Scored(i, s) == [score EXCEPT ![i] = IF @ = Unscored THEN s ELSE @]

\* A case of sample i ends with r; after a failure the cases left are False.
CaseEnds(i, r) ==
  LET rs == Append(results[i], r)
      all == [k \in Considered |-> IF k <= Len(rs) THEN rs[k] ELSE 0]
  IN  IF Len(rs) = CaseCount \/ FailFast(i, rs)
      THEN /\ results' = [results EXCEPT ![i] = all]
           /\ stage' = [stage EXCEPT ![i] = "over"]
           /\ score' = Scored(i, ScoreOf(all))
      ELSE /\ results' = [results EXCEPT ![i] = rs]
           /\ stage' = [stage EXCEPT ![i] = "acquire"]
           /\ UNCHANGED score

(* A sample in the pool *)

Busy == {i \in Sample : stage[i] \in {"acquire", "request"}}

Begin(i) ==
  /\ stage[i] = "queued" /\ Cardinality(Busy) < PoolSize
  /\ IF program[i] = NoCode
     THEN stage' = [stage EXCEPT ![i] = "over"] /\ score' = Scored(i, 0)
     ELSE stage' = [stage EXCEPT ![i] = "acquire"] /\ UNCHANGED score
  /\ UNCHANGED <<manager, max_cases, batch, program, results, tries, free, ghosts, troubled>>

\* with concurrent_semaphore, and a second look whether the case is still needed.
TakePermit(i) ==
  /\ stage[i] = "acquire" /\ free > 0
  /\ IF FailFast(i, results[i])
     THEN CaseEnds(i, 0) /\ UNCHANGED <<tries, free>>
     ELSE /\ stage' = [stage EXCEPT ![i] = "request"]
          /\ tries' = [tries EXCEPT ![i] = 1]
          /\ free' = free - 1
          /\ UNCHANGED <<results, score>>
  /\ UNCHANGED <<manager, max_cases, batch, program, ghosts, troubled>>

\* A gateway timeout is tried again, under the same permit.
TryAgain(i) ==
  /\ stage[i] = "request" /\ tries[i] < MaxRetries
  /\ tries' = [tries EXCEPT ![i] = @ + 1]
  /\ UNCHANGED <<manager, max_cases, batch, program, stage, results, score, free, ghosts, troubled>>

\* The sandbox does not see the expected output: it says how the program ended.
Responses(i) ==
  LET k == Len(results[i]) + 1
      ended == [status : {"Success"}, run : {"Finished"}, matches : {k \in program[i]}]
      failed == [status : {"Failed"}, run : {"TimeLimitExceeded"} \cup (IF k \in program[i] THEN {} ELSE {"Error"}),
                 matches : {FALSE}]
  IN  ended \cup failed \cup [status : {"SandboxError"}, run : {"Error"}, matches : {FALSE}]

StatusOf(response) ==
  CASE response.status = "SandboxError" -> -1
    [] response.status = "Failed" -> IF response.run = "TimeLimitExceeded" THEN -3 ELSE -2
    [] response.status = "Success" -> IF response.matches THEN Passed ELSE 0

\* The permit goes back whatever came of the request.
\* (Faulty variant: not after an error.)
GivenBackUnlessFailed(r) == IF r = -1 THEN free ELSE free + 1
GivenBack(r) == free + 1

\* The sandbox answers, or the request fails: another error, or the last attempt.
RequestEnds(i) ==
  /\ stage[i] = "request"
  /\ \E r \in {-1} \cup {StatusOf(response) : response \in Responses(i)} :
       /\ CaseEnds(i, r)
       /\ free' = GivenBack(r)
       /\ troubled' = IF r \in {-1, -3} THEN troubled \cup {i} ELSE troubled
  /\ UNCHANGED <<manager, max_cases, batch, program, tries, ghosts>>

(* The managers *)

\* asyncio.wait_for: the clock has run since the batch was handed in.  A sample the
\* pool has not taken yet is cancelled; one it has goes on for nobody.
GiveUp(i) ==
  /\ manager = "prime" /\ score[i] = Unscored
  /\ score' = Scored(i, 0)
  /\ troubled' = troubled \cup {i}
  /\ \/ stage[i] = "queued" /\ stage' = [stage EXCEPT ![i] = "over"]
     \/ UNCHANGED stage
  /\ UNCHANGED <<manager, max_cases, batch, program, results, tries, free, ghosts>>

\* Every sample has its score.  The processes of the prime manager are terminated:
\* the permits they hold are gone, and those they wait for will be.  Then the next
\* batch is handed in.
NextBatch ==
  /\ \A i \in Sample : score[i] # Unscored
  /\ batch < Batches /\ batch' = batch + 1
  /\ ghosts' = ghosts + Cardinality({i \in Sample : stage[i] = "acquire"})
  /\ program' \in [Sample -> (SUBSET Considered) \cup {NoCode}]
  /\ stage' = [i \in Sample |-> "queued"]
  /\ results' = [i \in Sample |-> <<>>] /\ tries' = [i \in Sample |-> 0]
  /\ score' = [i \in Sample |-> Unscored] /\ troubled' = {}
  /\ UNCHANGED <<manager, max_cases, free>>

\* The process of the semaphore cannot tell that the other end is gone.
GhostTakes ==
  /\ ghosts > 0 /\ free > 0
  /\ ghosts' = ghosts - 1 /\ free' = free - 1
  /\ UNCHANGED <<manager, max_cases, batch, program, stage, results, tries, score, troubled>>

ScoringNext ==
  \/ \E i \in Sample : Begin(i) \/ TakePermit(i) \/ TryAgain(i) \/ RequestEnds(i) \/ GiveUp(i)
  \/ NextBatch \/ GhostTakes

\* The pool's workers go on, requests have a timeout, and the manager's clock runs.
ScoringFairness ==
  \A i \in Sample : /\ WF_scoringVars(Begin(i)) /\ WF_scoringVars(TakePermit(i))
                    /\ WF_scoringVars(RequestEnds(i)) /\ WF_scoringVars(GiveUp(i))

ScoringSpec == ScoringInit /\ [][ScoringNext]_scoringVars

(* Properties *)

Correct(i) == program[i] # NoCode /\ Considered \subseteq program[i]

\* A sample has a reward of one exactly if its program passes every case considered,
\* unless the sandbox failed it or the manager gave it up: neither another sample's
\* failure, nor an answer that came late or for another attempt decides.
ScoresJustly ==
  \A i \in Sample : /\ score[i] = 1 => Correct(i)
                    /\ score[i] = 0 => ~Correct(i) \/ i \in troubled

\* Every sample of a batch gets a score.
EveryScoreArrives == \A i \in Sample : (score[i] = Unscored) ~> (score[i] # Unscored)
=============================================================================
