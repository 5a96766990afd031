--------------------------- MODULE HoldOpenProofs ---------------------------
(***************************************************************************)
(* Proofs that no relay is left held open without a stored owner, and that *)
(* no window is opened again before another one is recorded, for every     *)
(* calendar and any number of edits and failures.                          *)
(***************************************************************************)
EXTENDS HoldOpen, TLAPS

(* The executor in use agrees about what is held open.                      *)
Owned ==
  door = "open" => /\ stored # None
                   /\ stored.execution.owned
                   /\ worker # None => worker.state.owned

(* Ownership comes before the command to open and outlasts the one to       *)
(* close.                                                                   *)
Bracketed ==
  task # None =>
    /\ task.next = "alwaysOpen" => stored.execution.owned /\ worker.state.owned
    /\ task.next = "closed" => door = "normal"
    /\ task.next = "restoring" => ~task.executed
    /\ task.next = "close" /\ task.executed => door = "normal"

(* The last window opened is the one remembered, in the store and by the    *)
(* executor, and is not about to be opened.                                 *)
Covers(execution) == latest # None => execution.attempted = latest

Remembered ==
  /\ stored # None => Covers(stored.execution)
  /\ worker # None => Covers(worker.state)
  /\ task # None /\ task.next = "opening" =>
       task.desired # None /\ task.desired # latest

Inv == TypeOK /\ Owned /\ Bracketed /\ Remembered
-----------------------------------------------------------------------------
LEMMA OutsideType == ASSUME TypeOK, Outside PROVE outside' \in 0..MaxOutside
BY HoldAssumption DEF TypeOK, Outside

LEMMA WindowType ==
  ASSUME TypeOK
  PROVE  Window \in Token \cup {None}
BY HoldAssumption DEF TypeOK, Window

LEMMA NewType == New \in Execution
BY DEF New, Execution, Status

(* What a tick saves keeps the ownership, except after the close, and the   *)
(* window, except when another is opened.                                   *)
LEMMA CandidateFacts ==
  ASSUME TypeOK, task # None, task.next \in Saving
  PROVE  /\ Candidate \in Execution
         /\ task.next = "opening" => /\ Candidate.owned
                                     /\ Candidate.attempted = task.desired
         /\ task.next # "opening" =>
              Candidate.attempted = worker.state.attempted
         /\ task.next \notin {"opening", "closed"} =>
              Candidate.owned = worker.state.owned
<1>1. worker.state \in Execution /\ task.desired \in Token \cup {None}
  BY DEF TypeOK, Executor, Task
<1>2. CASE task.next = "restoring"
  <2>1. Candidate = [worker.state EXCEPT !.status = "restoring"]
    BY <1>2 DEF Candidate
  <2> QED
    BY <1>1, <1>2, <2>1 DEF Execution, Status
<1>3. CASE task.next = "closed"
  <2>1. Candidate = [worker.state EXCEPT !.owned = FALSE, !.status = "idle"]
    BY <1>3 DEF Candidate
  <2> QED
    BY <1>1, <1>3, <2>1 DEF Execution, Status
<1>4. CASE task.next = "opening"
  <2>1. Candidate = [owned |-> TRUE, attempted |-> task.desired,
                     status |-> "opening"]
    BY <1>4 DEF Candidate
  <2> QED
    BY <1>1, <1>4, <2>1 DEF Execution, Status
<1>5. CASE task.next = "opened"
  <2>1. Candidate = [worker.state EXCEPT !.status = "held_acknowledged"]
    BY <1>5 DEF Candidate
  <2> QED
    BY <1>1, <1>5, <2>1 DEF Execution, Status
<1>6. CASE task.next = "unknown"
  <2>1. Candidate = [worker.state EXCEPT !.status = "unknown"]
    BY <1>6 DEF Candidate
  <2> QED
    BY <1>1, <1>6, <2>1 DEF Execution, Status
<1> QED
  BY <1>2, <1>3, <1>4, <1>5, <1>6 DEF Saving

LEMMA FollowingFacts ==
  ASSUME TypeOK, task # None, task.next \in Saving
  PROVE  /\ Following \in Task \cup {None}
         /\ Following # None =>
              /\ Following.next \in {"close", "alwaysOpen", "finish"}
              /\ Following.next = "alwaysOpen" <=> task.next = "opening"
              /\ Following.next = "close" <=> task.next = "restoring"
              /\ Following.executed = task.executed
              /\ Following.desired = task.desired
<1>1. CASE task.next = "restoring"
  <2>1. Following = [task EXCEPT !.next = "close"]
    BY <1>1 DEF Following
  <2> QED
    BY <1>1, <2>1 DEF TypeOK, Task, Sending
<1>2. CASE task.next = "opening"
  <2>1. Following = [task EXCEPT !.next = "alwaysOpen"]
    BY <1>2 DEF Following
  <2> QED
    BY <1>2, <2>1 DEF TypeOK, Task, Sending
<1>3. CASE task.next \in {"closed", "opened"}
  <2>1. Following = [task EXCEPT !.next = "finish"]
    BY <1>3 DEF Following
  <2> QED
    BY <1>3, <2>1 DEF TypeOK, Task
<1>4. CASE task.next = "unknown"
  <2>1. Following = None
    BY <1>4 DEF Following
  <2> QED
    BY <2>1
<1> QED
  BY <1>1, <1>2, <1>3, <1>4 DEF Saving

(* The executor a tick works with has the type and knows the last window,   *)
(* whether it was there or is created now.                                  *)
LEMMA LoadedFacts ==
  ASSUME Inv, stored # None
  PROVE  /\ Loaded \in Executor
         /\ Covers(Loaded.state)
         /\ door = "open" => Loaded.state.owned
<1>1. CASE worker # None
  BY <1>1 DEF Inv, TypeOK, Owned, Remembered, Loaded
<1>2. CASE worker = None
  <2>1. Loaded = [state |-> stored.execution,
                  recovering |-> stored.execution.owned]
    BY <1>2 DEF Loaded
  <2>2. stored.execution \in Execution
    BY DEF Inv, TypeOK, Program
  <2>3. Loaded \in Executor
    BY <2>1, <2>2 DEF Executor, Execution
  <2> QED
    BY <2>1, <2>3 DEF Inv, Owned, Remembered, Covers
<1> QED
  BY <1>1, <1>2
-----------------------------------------------------------------------------
LEMMA InitInv == Init => Inv
<1> SUFFICES ASSUME Init PROVE Inv
  OBVIOUS
<1>1. 0 \in 0..MaxClock /\ 0 \in 0..MaxOutside
  BY HoldAssumption
<1>2. TypeOK
  BY <1>1 DEF Init, TypeOK
<1>3. Owned /\ Bracketed /\ Remembered
  BY DEF Init, Owned, Bracketed, Remembered
<1> QED
  BY <1>2, <1>3 DEF Inv

LEMMA TockKeeps == ASSUME Inv, Tock PROVE Inv'
<1>1. clock' \in 0..MaxClock
  BY HoldAssumption DEF Inv, TypeOK, Tock
<1>2. TypeOK'
  BY <1>1 DEF Inv, TypeOK, Tock
<1>3. Owned' /\ Bracketed' /\ Remembered'
  BY DEF Inv, Owned, Bracketed, Remembered, Covers, Tock
<1> QED
  BY <1>2, <1>3 DEF Inv

LEMMA UpdateKeeps ==
  ASSUME Inv, NEW enabled \in BOOLEAN, Update(enabled) PROVE Inv'
<1>1. stored' \in Program /\ stored'.execution = New
  BY NewType DEF Update, Program
<1>2. worker' = None \/ worker' = worker
  BY DEF Update
<1>3. door = "normal"
  BY DEF Inv, TypeOK, Owned, Update
<1>4. TypeOK'
  BY <1>1, <1>2, OutsideType DEF Inv, TypeOK, Update
<1>5. Owned' /\ Bracketed'
  BY <1>3 DEF Update, Owned, Bracketed
<1>6. Remembered'
  BY DEF Remembered, Covers, Update
<1> QED
  BY <1>4, <1>5, <1>6 DEF Inv

LEMMA ActionKeeps ==
  ASSUME Inv, NEW remove \in BOOLEAN, Action(remove) PROVE Inv'
<1>1. stored' \in Program /\ stored'.execution = stored.execution
  BY DEF Inv, TypeOK, Action, Program
<1>2. stored' # None
  BY <1>1, NoneAssumption
<1>3. TypeOK'
  BY <1>1, OutsideType DEF Inv, TypeOK, Action
<1>4. Owned' /\ Bracketed'
  BY <1>1, <1>2 DEF Inv, Owned, Bracketed, Action
<1>5. Remembered'
  BY <1>1, <1>2 DEF Inv, Remembered, Covers, Action
<1> QED
  BY <1>3, <1>4, <1>5 DEF Inv

LEMMA TickKeeps ==
  ASSUME Inv, NEW byAction \in BOOLEAN, Tick(byAction) PROVE Inv'
<1> DEFINE desired ==
      IF stored.enabled /\ ~stored.removing THEN Window ELSE None
<1>1. desired \in Token \cup {None}
  BY WindowType DEF Inv
<1>2. PICK next \in {"restoring", "opening", "finish"} :
        /\ task' = [next |-> next, desired |-> desired, executed |-> FALSE,
                    cancellable |-> byAction]
        /\ next = "opening" => MustOpen(Loaded, desired)
  BY DEF Tick
<1>3. /\ task' \in Task
      /\ task'.next = next
      /\ task'.desired = desired
      /\ ~task'.executed
  <2>1. next \in Saving \cup Sending \cup {"finish"}
    BY DEF Saving
  <2> QED
    BY <1>1, <1>2, <2>1 DEF Task
<1>4. worker' = Loaded /\ worker' \in Executor /\ worker' # None
  BY LoadedFacts, NoneAssumption DEF Tick
<1>5. TypeOK'
  BY <1>3, <1>4 DEF Inv, TypeOK, Tick
<1>6. Owned' /\ Bracketed'
  BY <1>3, <1>4, LoadedFacts DEF Inv, Owned, Bracketed, Tick
<1>7. Covers(Loaded.state)
  BY LoadedFacts DEF Tick
<1>8. task'.next = "opening" => desired # None /\ desired # latest
  BY <1>2, <1>3, <1>7 DEF MustOpen, Covers
<1>9. Remembered'
  BY <1>3, <1>4, <1>7, <1>8 DEF Inv, Remembered, Covers, Tick
<1> QED
  BY <1>5, <1>6, <1>9 DEF Inv

LEMMA SavedKeeps == ASSUME Inv, Saved PROVE Inv'
<1>1. task # None /\ task.next \in Saving /\ task \in Task
  BY DEF Saved, Inv, TypeOK
<1>2. Candidate \in Execution /\ task.desired \in Token \cup {None}
  BY <1>1, CandidateFacts DEF Inv, Task
<1>3. /\ stored' \in Program
      /\ stored'.execution = Candidate
      /\ stored' # None
  <2>1. stored \in Program
    BY <1>1 DEF Inv, TypeOK
  <2>2. stored' \in Program /\ stored'.execution = Candidate
    BY <1>2, <2>1 DEF Saved, Program
  <2> QED
    BY <2>2, NoneAssumption
<1>4. worker' \in Executor /\ worker'.state = Candidate /\ worker' # None
  <2>1. worker.recovering \in BOOLEAN
    BY <1>1 DEF Inv, TypeOK, Executor
  <2>2. worker' \in Executor /\ worker'.state = Candidate
    BY <1>2, <2>1 DEF Saved, Executor
  <2> QED
    BY <2>2, NoneAssumption
<1>5. task' = Following
  BY DEF Saved
<1>6. TypeOK'
  <2>1. task.next = "opening" => task.desired \in Token
    BY <1>1, <1>2 DEF Inv, Remembered
  <2>2. latest' \in Token \cup {None}
    BY <2>1 DEF Inv, TypeOK, Saved
  <2>3. task' \in Task \cup {None}
    BY <1>1, <1>5, FollowingFacts DEF Inv
  <2> QED
    BY <1>3, <1>4, <2>2, <2>3 DEF Inv, TypeOK, Saved
<1>7. Owned'
  <2>1. ASSUME door = "open" PROVE Candidate.owned
    BY <1>1, <2>1, CandidateFacts DEF Inv, TypeOK, Owned, Bracketed
  <2> QED
    BY <1>3, <1>4, <2>1 DEF Owned, Saved
<1>8. Bracketed'
  BY <1>1, <1>3, <1>4, <1>5, CandidateFacts, FollowingFacts
     DEF Inv, Bracketed, Saved
<1>9. latest' # None => Candidate.attempted = latest'
  BY <1>1, CandidateFacts DEF Inv, TypeOK, Remembered, Covers, Saved
<1>10. task' # None => task'.next # "opening"
  BY <1>1, <1>5, FollowingFacts DEF Inv
<1>11. Remembered'
  BY <1>3, <1>4, <1>9, <1>10 DEF Remembered, Covers, Saved
<1> QED
  BY <1>6, <1>7, <1>8, <1>11 DEF Inv

LEMMA CommandKeeps ==
  ASSUME Inv, Execute \/ Acknowledged \/ SendFails PROVE Inv'
<1>1. task # None /\ task \in Task /\ task.next \in Sending
  BY DEF Execute, Acknowledged, SendFails, Inv, TypeOK
<1>2. CASE Execute
  <2>1. task' \in Task /\ task'.next = task.next /\ task'.executed
    BY <1>1, <1>2 DEF Execute, Task
  <2>2. task' # None
    BY <2>1, NoneAssumption
  <2>3. TypeOK'
    BY <1>1, <1>2, <2>1 DEF Execute, Inv, TypeOK
  <2>4. Owned' /\ Bracketed'
    BY <1>1, <1>2, <2>1 DEF Execute, Inv, TypeOK, Owned, Bracketed, Sending
  <2>5. Remembered'
    BY <1>1, <1>2, <2>1 DEF Execute, Inv, Remembered, Covers, Sending
  <2> QED
    BY <2>3, <2>4, <2>5 DEF Inv
<1>3. CASE Acknowledged
  <2>1. /\ task' \in Task
        /\ task'.next = IF task.next = "close" THEN "closed" ELSE "opened"
    BY <1>1, <1>3 DEF Acknowledged, Task, Saving
  <2>2. TypeOK'
    BY <1>1, <1>3, <2>1 DEF Acknowledged, Inv, TypeOK
  <2>3. Owned' /\ Bracketed'
    BY <1>1, <1>3, <2>1 DEF Acknowledged, Inv, Owned, Bracketed
  <2>4. Remembered'
    BY <1>1, <1>3, <2>1 DEF Acknowledged, Inv, Remembered, Covers
  <2> QED
    BY <2>2, <2>3, <2>4 DEF Inv
<1>4. CASE SendFails
  <2>1. task' \in Task /\ task'.next = "unknown"
    BY <1>1, <1>4 DEF SendFails, Task, Saving
  <2>2. TypeOK'
    BY <1>1, <1>4, <2>1, OutsideType DEF SendFails, Inv, TypeOK
  <2>3. Owned' /\ Bracketed'
    BY <1>1, <1>4, <2>1 DEF SendFails, Inv, Owned, Bracketed
  <2>4. Remembered'
    BY <1>1, <1>4, <2>1 DEF SendFails, Inv, Remembered, Covers
  <2> QED
    BY <2>2, <2>3, <2>4 DEF Inv
<1> QED
  BY <1>2, <1>3, <1>4

(* A program is only removed when its executor owns nothing.                *)
LEMMA EndKeeps ==
  ASSUME Inv, SaveFails \/ Finish \/ FinishFails \/ Restart PROVE Inv'
<1>1. CASE SaveFails \/ FinishFails
  <2>1. TypeOK'
    BY <1>1, OutsideType DEF SaveFails, FinishFails, Inv, TypeOK
  <2>2. Owned' /\ Bracketed' /\ Remembered'
    BY <1>1
       DEF SaveFails, FinishFails, Inv, Owned, Bracketed, Remembered, Covers
  <2> QED
    BY <2>1, <2>2 DEF Inv
<1>2. CASE Finish
  <2>1. TypeOK'
    BY <1>2 DEF Finish, Inv, TypeOK
  <2>2. Owned'
    BY <1>2 DEF Finish, Removable, Inv, TypeOK, Owned
  <2>3. Bracketed' /\ Remembered'
    BY <1>2 DEF Finish, Inv, Bracketed, Remembered, Covers
  <2> QED
    BY <2>1, <2>2, <2>3 DEF Inv
<1>3. CASE Restart
  <2>1. TypeOK'
    BY <1>3, OutsideType DEF Restart, Inv, TypeOK
  <2>2. Owned' /\ Bracketed' /\ Remembered'
    BY <1>3 DEF Restart, Inv, Owned, Bracketed, Remembered, Covers
  <2> QED
    BY <2>1, <2>2 DEF Inv
<1> QED
  BY <1>1, <1>2, <1>3

LEMMA CancelKeeps == ASSUME Inv, Cancel PROVE Inv'
<1>1. task # None /\ task \in Task /\ stored \in Program /\ worker # None
  BY DEF Cancel, Inv, TypeOK
<1>2. CASE task.next \in Saving
  <2>1. /\ Candidate \in Execution
        /\ stored' \in Program
        /\ stored'.execution = Candidate
    BY <1>1, <1>2, CandidateFacts DEF Cancel, Inv, Program
  <2>2. stored' # None
    BY <2>1, NoneAssumption
  <2>3. TypeOK'
    BY <2>1, OutsideType DEF Cancel, Inv, TypeOK
  <2>4. ASSUME door = "open" PROVE Candidate.owned
    BY <1>1, <1>2, <2>4, CandidateFacts DEF Inv, TypeOK, Owned, Bracketed
  <2>5. Owned' /\ Bracketed'
    BY <2>1, <2>2, <2>4 DEF Cancel, Inv, Owned, Bracketed
  <2>6. latest' # None => Candidate.attempted = latest'
    BY <1>1, <1>2, CandidateFacts DEF Cancel, Inv, Remembered, Covers
  <2>7. Remembered'
    BY <2>1, <2>6 DEF Cancel, Inv, Remembered, Covers
  <2> QED
    BY <2>3, <2>5, <2>7 DEF Inv
<1>3. CASE task.next \notin Saving
  <2>1. stored' = IF Removable THEN None ELSE stored
    BY <1>3 DEF Cancel
  <2>2. TypeOK'
    BY <2>1, OutsideType DEF Cancel, Inv, TypeOK
  <2>3. Owned' /\ Bracketed'
    BY <1>1, <2>1 DEF Cancel, Removable, Inv, Owned, Bracketed
  <2>4. Remembered'
    BY <2>1 DEF Cancel, Inv, Remembered, Covers
  <2> QED
    BY <2>2, <2>3, <2>4 DEF Inv
<1> QED
  BY <1>2, <1>3

LEMMA StepKeeps == Inv /\ [Next]_vars => Inv'
<1> SUFFICES ASSUME Inv, [Next]_vars PROVE Inv'
  OBVIOUS
<1>1. CASE Next
  BY <1>1, TockKeeps, UpdateKeeps, ActionKeeps, TickKeeps, SavedKeeps,
     CommandKeeps, EndKeeps, CancelKeeps DEF Next
<1>2. CASE UNCHANGED vars
  BY <1>2 DEF vars, Inv, TypeOK, Owned, Bracketed, Remembered, Covers,
              Outside
<1> QED
  BY <1>1, <1>2

LEMMA Invariance == Spec => []Inv
BY InitInv, StepKeeps, PTL DEF Spec
-----------------------------------------------------------------------------
(* The store, the executor, the tick and the relay have their types, and a  *)
(* tick never works on a program or an executor that is gone (the lock of   *)
(* each key in hold_programs.py).                                           *)
THEOREM Types == Spec => []TypeOK
<1>1. Inv => TypeOK
  BY DEF Inv
<1> QED
  BY <1>1, Invariance, PTL

(* Whatever fails, an open relay has a stored owner that restores it        *)
(* (HoldOpenExecutor.tick).                                                 *)
THEOREM NoOrphanedRelay == Spec => []OpenIsOwned
<1>1. Inv => OpenIsOwned
  BY DEF Inv, Owned, OpenIsOwned
<1> QED
  BY <1>1, Invariance, PTL

(* No window is opened again before another one is recorded, also after a   *)
(* lost answer, a failed save or a restart, and also when the calendar      *)
(* names the same window again (attempted, stored before the command).      *)
THEOREM NeverRepeatsBlindly == Spec => NoBlindRepeat
<1>1. Inv /\ Inv' /\ [Next]_vars =>
        [~Commanding /\ Commanding' => task'.desired # latest]_vars
  <2> SUFFICES ASSUME Inv, Next, ~Commanding, Commanding'
               PROVE  task'.desired # latest
    BY DEF vars, Commanding
  <2>1. CASE Saved
    <3>1. task # None /\ task \in Task /\ task.next \in Saving
      BY <2>1 DEF Saved, Inv, TypeOK
    <3>2. task' = Following /\ Following # None
          /\ Following.next = "alwaysOpen"
      BY <2>1 DEF Saved, Commanding
    <3>3. task.next = "opening" /\ task'.desired = task.desired
      BY <3>1, <3>2, FollowingFacts DEF Inv
    <3>4. task.desired # latest
      BY <3>1, <3>3 DEF Inv, Remembered
    <3> QED
      BY <3>3, <3>4
  <2>2. CASE \E byAction \in BOOLEAN : Tick(byAction)
    BY <2>2 DEF Tick, Commanding
  <2>3. CASE Execute \/ Acknowledged \/ SendFails
    <3>1. task # None /\ task \in Task /\ task.next \in Sending
      BY <2>3 DEF Execute, Acknowledged, SendFails, Inv, TypeOK
    <3>2. task.next # "alwaysOpen"
      BY <3>1 DEF Commanding
    <3>3. task'.next # "alwaysOpen"
      BY <2>3, <3>1, <3>2 DEF Execute, Acknowledged, SendFails, Task
    <3> QED
      BY <3>3 DEF Commanding
  <2>4. CASE \/ SaveFails \/ Finish \/ FinishFails \/ Cancel \/ Restart
             \/ Tock \/ \E enabled \in BOOLEAN : Update(enabled)
             \/ \E remove \in BOOLEAN : Action(remove)
    BY <2>4 DEF SaveFails, Finish, FinishFails, Cancel, Restart, Tock, Update,
                Action, Commanding
  <2> QED
    BY <2>1, <2>2, <2>3, <2>4 DEF Next
<1> QED
  BY <1>1, Invariance, PTL DEF Spec, NoBlindRepeat
=============================================================================
