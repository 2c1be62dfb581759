----------------------------- MODULE Resumption -----------------------------
(***************************************************************************)
(* What checkpointing promises a training job: a run that resumes gets     *)
(* back, whole, the state of the last committed save.  The store may       *)
(* become unreadable, and then no run resumes from it; it never yields an  *)
(* older state, or one put together from two saves.                        *)
(***************************************************************************)
EXTENDS Naturals

CONSTANT Unreadable \* no state

VARIABLES
  live,   \* the training state in memory: its step and the run that trained it
  stored  \* the state a resume would load

Fresh == [step |-> 0, run |-> 0]

Init == live = Fresh /\ stored = Fresh

Train ==
  /\ live' = [step |-> live.step + 1, run |-> live'.run]
  /\ live'.run >= live.run
  /\ UNCHANGED stored

Commit == stored' = live /\ UNCHANGED live

Spoil == stored' = Unreadable /\ UNCHANGED live

Restore == stored # Unreadable /\ live' = stored /\ UNCHANGED stored

Next == Train \/ Commit \/ Spoil \/ Restore

Spec == Init /\ [][Next]_<<live, stored>>
=============================================================================
