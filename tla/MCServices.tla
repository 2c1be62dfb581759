----------------------------- MODULE MCServices -----------------------------
(***************************************************************************)
(* The rate limiter, the reward router and the scoring of programs for TLC. *)
(* They share nothing: a run explores one of them, as part says.            *)
(***************************************************************************)
EXTENDS RateLimiter, RewardRouter, SandboxScoring, TLC

CONSTANTS c1, c2, c3, c4, p1, p2

VARIABLE part

allVars == <<vars, routerVars, scoringVars, part>>

Pools == (c1 :> p1) @@ (c2 :> p1) @@ (c3 :> p2) @@ (c4 :> p2)

PartsInit ==
  /\ Init /\ RouterInit /\ ScoringInit
  /\ part \in {"limiter", "router", "scoring"}

PartsNext ==
  \/ part = "limiter" /\ Next /\ UNCHANGED <<routerVars, scoringVars, part>>
  \/ part = "router" /\ RouterNext /\ UNCHANGED <<vars, scoringVars, part>>
  \/ part = "scoring" /\ ScoringNext /\ UNCHANGED <<vars, routerVars, part>>

PartsSpec == PartsInit /\ [][PartsNext]_allVars /\ Fairness /\ ScoringFairness

\* What was asked for ends: a call of the tool that was submitted, and a sample that
\* was handed in for a score, whoever holds the permits it waits for.
EveryRequestEnds == EveryCallEnds /\ EveryScoreArrives
=============================================================================
