---------------------------- MODULE RewardRouter ----------------------------
(***************************************************************************)
(* The router in front of the reward-model servers: every request goes to   *)
(* the worker with the lowest count and stays with it through its retries.  *)
(***************************************************************************)
EXTENDS Naturals, FiniteSets

CONSTANTS Request, Worker, NoWorker,
          MaxAttempts    \* max_attempts of a request

ASSUME RouterAssumption == /\ MaxAttempts \in Nat \ {0}
                          /\ NoWorker \notin Worker /\ IsFiniteSet(Request)

VARIABLES counts,    \* request_counts
          phase,     \* of a request
          worker,    \* the worker of a request
          attempt    \* attempts of a request that failed

routerVars == <<counts, phase, worker, attempt>>

RouterInit ==
  /\ counts = [w \in Worker |-> 0]
  /\ phase = [q \in Request |-> "new"]
  /\ worker = [q \in Request |-> NoWorker]
  /\ attempt = [q \in Request |-> 0]

\* _select_worker, then the body of the request is awaited.
Select(q) ==
  /\ phase[q] = "new"
  /\ \E w \in Worker :
       /\ \A v \in Worker : counts[w] <= counts[v]
       /\ worker' = [worker EXCEPT ![q] = w]
       /\ counts' = [counts EXCEPT ![w] = @ + 1]
  /\ phase' = [phase EXCEPT ![q] = "body"]
  /\ UNCHANGED attempt

\* The body arrives, or its client is gone.
Body(q) ==
  /\ phase[q] = "body"
  /\ \E p \in {"sent", "raised"} : phase' = [phase EXCEPT ![q] = p]
  /\ UNCHANGED <<counts, worker, attempt>>

\* Mutant: the worker is released after every attempt.
ReleaseAlways(q) == [counts EXCEPT ![worker[q]] = IF @ = 0 THEN 0 ELSE @ - 1]
AfterFailure(q) == counts

\* _release_worker
Answer(q) ==
  /\ phase[q] = "sent"
  /\ phase' = [phase EXCEPT ![q] = "answered"]
  /\ counts' = [counts EXCEPT ![worker[q]] = IF @ = 0 THEN 0 ELSE @ - 1]
  /\ UNCHANGED <<worker, attempt>>

\* An HTTP error is raised at once; a timeout, a refused connection or another
\* error is retried while there are attempts left.
Fail(q) ==
  /\ phase[q] = "sent"
  /\ counts' = AfterFailure(q)
  /\ \/ phase' = [phase EXCEPT ![q] = "raised"] /\ UNCHANGED attempt
     \/ /\ attempt' = [attempt EXCEPT ![q] = @ + 1]
        /\ phase' = [phase EXCEPT ![q] = IF attempt'[q] = MaxAttempts THEN "raised" ELSE "asleep"]
  /\ UNCHANGED worker

Retry(q) ==
  /\ phase[q] = "asleep"
  /\ phase' = [phase EXCEPT ![q] = "sent"]
  /\ UNCHANGED <<counts, worker, attempt>>

RouterNext == \E q \in Request : Select(q) \/ Body(q) \/ Answer(q) \/ Fail(q) \/ Retry(q)

RouterSpec == RouterInit /\ [][RouterNext]_routerVars

(* Properties *)

OpenOn(w) == {q \in Request : worker[q] = w /\ phase[q] \in {"body", "sent", "asleep"}}
RaisedOn(w) == {q \in Request : worker[q] = w /\ phase[q] = "raised"}

\* "Select the least-loaded worker": a request never goes to a worker with more
\* requests in flight than one that has given up none, whatever answers, fails and
\* retries in between.  A request given up is not released, so that nothing is said
\* of passing its worker over.
LeastLoaded ==
  [][\A q \in Request : worker'[q] # worker[q] =>
       \A v \in Worker : RaisedOn(v) = {} =>
         Cardinality(OpenOn(worker'[q])) <= Cardinality(OpenOn(v))]_routerVars
=============================================================================
