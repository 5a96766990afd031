------------------------------ MODULE ReadView ------------------------------
(***************************************************************************)
(* What every view of the panel promises about the server data it shows,   *)
(* whatever it does about requests, timers and connections: an answer is   *)
(* shown only in the session it was asked in (one user, one authorisation, *)
(* one selected person or station), and what is shown never goes back to   *)
(* an older state of the server.                                           *)
(***************************************************************************)
EXTENDS Naturals

CONSTANT Nothing   \* no answer is shown

VARIABLES
  session,         \* counts the sessions
  shown            \* Nothing, or the answer shown: its session and revision

vars == <<session, shown>>
-----------------------------------------------------------------------------
Init ==
  /\ session = 0
  /\ shown = Nothing

(* A later answer of this session takes the place of the one shown.         *)
Show ==
  /\ shown' # Nothing
  /\ shown'.session = session
  /\ shown # Nothing => shown'.rev >= shown.rev
  /\ UNCHANGED session

Clear ==
  /\ shown' = Nothing
  /\ UNCHANGED session

NewSession ==
  /\ session' = session + 1
  /\ shown' = Nothing

Next == Show \/ Clear \/ NewSession

Spec == Init /\ [][Next]_vars
=============================================================================
