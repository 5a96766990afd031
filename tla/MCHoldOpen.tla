----------------------------- MODULE MCHoldOpen -----------------------------
(* One door and the night summer time ends: an early and a late window,     *)
(* and the early one again, with six edits and failures.                    *)
EXTENDS HoldOpen

CONSTANTS Early, Late

FallBack == [t \in 0..MaxClock |-> CASE t \in {1, 4} -> Early
                                    [] t = 3 -> Late
                                    [] OTHER -> None]
=============================================================================
