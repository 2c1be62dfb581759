--------------------------- MODULE MCAlphaStabler ---------------------------
(***************************************************************************)
(* Instances of AlphaStabler for TLC, and plausible mistakes in the code   *)
(* that its properties detect.                                             *)
(***************************************************************************)
EXTENDS AlphaStabler

\* No shift, a shift outside the basis, one mostly inside it, an overflow.
ZeroShift == [inside |-> 0, total |-> 0, tokens |-> 1, finite |-> TRUE]
LowShift == [inside |-> 1, total |-> 8, tokens |-> 1, finite |-> TRUE]
HighShift == [inside |-> 6, total |-> 8, tokens |-> 1, finite |-> TRUE]
NotFinite == [inside |-> 0, total |-> 0, tokens |-> 1, finite |-> FALSE]

AllShifts == {ZeroShift, LowShift, HighShift, NotFinite}
UsableOrNot == {ZeroShift, LowShift}
=============================================================================
