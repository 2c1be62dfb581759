---------------------------- MODULE RateLimiter ----------------------------
(***************************************************************************)
(* The rate limiter of the sandbox tool.  Pools of threads execute calls;   *)
(* they share one actor with a semaphore, in which acquiring has a thread   *)
(* of its own and releasing others.  The actor belongs to the pool that     *)
(* asked for it first and dies with it.                                     *)
(***************************************************************************)
EXTENDS Naturals, Sequences, FiniteSets

CONSTANTS Call, Pool,   \* the calls of the tool, the pools that execute them
          PoolOf,       \* the pool of a call
          Owner,        \* the pool that created the limiter
          Threads,      \* num_workers: calls a pool executes at a time
          Limit,        \* rate_limit
          MaxCrashes    \* bound on the crashes of pools

ASSUME PoolAssumption == Owner \in Pool /\ PoolOf \in [Call -> Pool]
ASSUME BoundAssumption == Threads \in Nat \ {0} /\ Limit \in Nat \ {0} /\ MaxCrashes \in Nat
ASSUME FiniteAssumption == IsFiniteSet(Call)

VARIABLES state,     \* of a call
          acquires,  \* the acquire calls the limiter has not finished, in order
          permits,   \* of the semaphore
          releases,  \* release calls the limiter has not executed
          down,      \* the pools that have crashed
          lost       \* history: permits nobody will release

vars == <<state, acquires, permits, releases, down, lost>>

In(s) == {c \in Call : state[c] = s}
InThread(p) == {c \in In("waiting") \cup In("running") : PoolOf[c] = p}
LimiterAlive == Owner \notin down

Init ==
  /\ state = [c \in Call |-> "new"]
  /\ acquires = <<>> /\ permits = Limit /\ releases = 0
  /\ down = {} /\ lost = 0

\* execution_pool.execute.remote
Submit(c) ==
  /\ state[c] = "new"
  /\ state' = [state EXCEPT ![c] = IF PoolOf[c] \in down THEN "failed" ELSE "queued"]
  /\ UNCHANGED <<acquires, permits, releases, down, lost>>

\* A thread registers the release and waits for acquire.  If the limiter is gone,
\* acquire raises and the release goes nowhere.
Start(c) ==
  /\ state[c] = "queued" /\ Cardinality(InThread(PoolOf[c])) < Threads
  /\ IF LimiterAlive
     THEN /\ state' = [state EXCEPT ![c] = "waiting"]
          /\ acquires' = Append(acquires, c)
     ELSE state' = [state EXCEPT ![c] = "failed"] /\ UNCHANGED acquires
  /\ UNCHANGED <<permits, releases, down, lost>>

PermitLeft == permits > 0

\* The one thread for acquire takes a permit for the first call; one whose pool is
\* gone takes it for good.
Acquire ==
  /\ LimiterAlive /\ acquires # <<>> /\ PermitLeft
  /\ acquires' = Tail(acquires) /\ permits' = permits - 1
  /\ IF state[Head(acquires)] = "waiting"
     THEN state' = [state EXCEPT ![Head(acquires)] = "running"] /\ UNCHANGED lost
     ELSE lost' = lost + 1 /\ UNCHANGED state
  /\ UNCHANGED <<releases, down>>

\* The acquire of a pool that is gone had not been sent.
NotSent ==
  /\ acquires # <<>> /\ state[Head(acquires)] # "waiting"
  /\ acquires' = Tail(acquires)
  /\ UNCHANGED <<state, permits, releases, down, lost>>

\* Mutant: the code that ends releases, and the callback again.
ReleasedTwice == releases + 2
Released == releases + 1

\* The code has run or raised, which is logged; the callback asks for the release.
Finish(c) ==
  /\ state[c] = "running"
  /\ state' = [state EXCEPT ![c] = "done"]
  /\ releases' = IF LimiterAlive THEN Released ELSE releases
  /\ UNCHANGED <<acquires, permits, down, lost>>

\* Mutant: one group of threads, in which a blocked acquire holds up the releases.
ReleaseAfterAcquires == acquires = <<>>
ReleaseRuns == TRUE

Release ==
  /\ LimiterAlive /\ releases > 0 /\ ReleaseRuns
  /\ releases' = releases - 1 /\ permits' = permits + 1
  /\ UNCHANGED <<state, acquires, down, lost>>

\* A pool crashes with its calls.
Crash(p) ==
  /\ p \notin down /\ Cardinality(down) < MaxCrashes
  /\ down' = down \cup {p}
  /\ state' = [c \in Call |-> IF PoolOf[c] = p /\ state[c] \in {"queued", "waiting", "running"}
                              THEN "failed" ELSE state[c]]
  /\ lost' = lost + Cardinality({c \in In("running") : PoolOf[c] = p})
  /\ UNCHANGED <<acquires, permits, releases>>

\* The acquire of a limiter that died raises.
AcquireFails(c) ==
  /\ ~LimiterAlive /\ state[c] = "waiting"
  /\ state' = [state EXCEPT ![c] = "failed"]
  /\ UNCHANGED <<acquires, permits, releases, down, lost>>

Next == \/ \E c \in Call : Submit(c) \/ Start(c) \/ Finish(c) \/ AcquireFails(c)
        \/ Acquire \/ NotSent \/ Release
        \/ \E p \in Pool : Crash(p)

\* Threads go on, and executing code ends: its request has a timeout.
Fairness ==
  /\ \A c \in Call : WF_vars(Start(c)) /\ WF_vars(Finish(c)) /\ WF_vars(AcquireFails(c))
  /\ WF_vars(Acquire) /\ WF_vars(Release)

Spec == Init /\ [][Next]_vars
FairSpec == Spec /\ Fairness

(* Properties *)

TypeOK ==
  /\ state \in [Call -> {"new", "queued", "waiting", "running", "done", "failed"}]
  /\ acquires \in Seq(Call)
  /\ permits \in Nat /\ releases \in Nat /\ lost \in Nat
  /\ down \subseteq Pool

\* Every permit of the semaphore is free, held, about to be released, or lost with
\* a pool: no release comes without its acquire although it is registered first.
PermitsKept ==
  LimiterAlive => permits + Cardinality(In("running")) + releases + lost = Limit

\* At most Limit calls use the sandbox, whatever crashes.
Bounded == INSTANCE BoundedUse WITH using <- In("running")
UsesBounded == Bounded!Spec

\* A call that was submitted ends, unless crashed pools have taken every permit.
EveryCallEnds ==
  \A c \in Call : state[c] = "queued" ~> (state[c] \in {"done", "failed"} \/ lost >= Limit)
=============================================================================
