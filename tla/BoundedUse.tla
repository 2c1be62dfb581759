----------------------------- MODULE BoundedUse -----------------------------
(***************************************************************************)
(* What the rate limiter of the sandbox promises: calls use the sandbox in  *)
(* any order, at most Limit of them at a time.                              *)
(***************************************************************************)
EXTENDS Naturals, FiniteSets

CONSTANTS Call, Limit

VARIABLE using    \* the calls that use the sandbox

Init == using = {}

Enter(c) ==
  /\ c \notin using /\ Cardinality(using) < Limit
  /\ using' = using \cup {c}

\* One call finishes, or all those of a worker end with it.
Leave == \E cs \in SUBSET using : using' = using \ cs

Next == (\E c \in Call : Enter(c)) \/ Leave

Spec == Init /\ [][Next]_using
=============================================================================
