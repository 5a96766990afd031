------------------------------ MODULE HoldOpen ------------------------------
(***************************************************************************)
(* A hold-open program of one door (access/hold_programs.py) and the       *)
(* executor that keeps the relay open during the windows of its schedule   *)
(* (access/hold_open.py).  What is done to the door is stored before the   *)
(* command is sent; the process may stop anywhere, a save may fail, and    *)
(* the station may execute a command whose answer is lost.  Edits and      *)
(* ticks of a door exclude each other (the lock of its key), and the doors *)
(* do not touch each other's programs.                                     *)
(*                                                                         *)
(* A command that is not executed before its request fails is not executed *)
(* at all.                                                                 *)
(***************************************************************************)
EXTENDS Naturals

CONSTANTS
  None,        \* no program, no executor, no task, no window
  Token,       \* the texts that name a window
  Calendar,    \* the token of each moment, or None
  MaxClock,    \* bound on the time
  MaxOutside   \* bound on edits and failures

ASSUME HoldAssumption ==
  /\ MaxClock \in Nat
  /\ MaxOutside \in Nat
  /\ Calendar \in [0..MaxClock -> Token \cup {None}]

VARIABLES
  clock,       \* time
  stored,      \* the program, as saved
  worker,      \* the executor of this process
  task,        \* the tick under way
  due,         \* an administrator's action has still to tick
  door,        \* the relay: "normal" or "open"
  latest,      \* the window opened last, until another one is recorded or
               \* the program is edited
  outside      \* edits and failures so far

vars == <<clock, stored, worker, task, due, door, latest, outside>>
-----------------------------------------------------------------------------
(* window(): local date and period.  A moment of the hour which the end of  *)
(* summer time repeats has the token it had an hour before.                 *)
Window == Calendar[clock]

Status == {"idle", "opening", "held_acknowledged", "restoring", "unknown"}
Execution ==
  [owned : BOOLEAN, attempted : Token \cup {None}, status : Status]
Program == [enabled : BOOLEAN, removing : BOOLEAN, execution : Execution]
Executor == [state : Execution, recovering : BOOLEAN]

(* What a tick does next.                                                   *)
Saving == {"restoring", "closed", "opening", "opened", "unknown"}
Sending == {"close", "alwaysOpen"}
Task == [next : Saving \cup Sending \cup {"finish"},
         desired : Token \cup {None},
         executed : BOOLEAN, cancellable : BOOLEAN]

ASSUME NoneAssumption == None \notin Program \cup Executor \cup Task \cup Token

TypeOK ==
  /\ clock \in 0..MaxClock
  /\ stored \in Program \cup {None}
  /\ worker \in Executor \cup {None}
  /\ task \in Task \cup {None}
  /\ due \in BOOLEAN
  /\ door \in {"normal", "open"}
  /\ latest \in Token \cup {None}
  /\ outside \in 0..MaxOutside
  /\ task # None => stored # None /\ worker # None

New == [owned |-> FALSE, attempted |-> None, status |-> "idle"]

Init ==
  /\ clock = 0
  /\ stored = None
  /\ worker = None
  /\ task = None
  /\ due = FALSE
  /\ door = "normal"
  /\ latest = None
  /\ outside = 0

Outside ==
  /\ outside < MaxOutside
  /\ outside' = outside + 1
-----------------------------------------------------------------------------
Tock ==
  /\ clock < MaxClock
  /\ clock' = clock + 1
  /\ UNCHANGED <<stored, worker, task, due, door, latest, outside>>

(* Mutant of Update: it does not wait for the tick under way.               *)
UpdateUnlocked(enabled) ==
  /\ Outside
  /\ stored # None => ~stored.enabled /\ ~stored.removing
                      /\ ~stored.execution.owned
  /\ stored' = [enabled |-> enabled, removing |-> FALSE, execution |-> New]
  /\ worker' \in {None, worker}
  /\ latest' = None
  /\ UNCHANGED <<clock, task, due, door>>

(* A new program, or other contents for one that is at rest.  If the        *)
(* request times out during the save, the executor in use stays.            *)
Update(enabled) ==
  /\ Outside
  /\ task = None
  /\ stored # None => ~stored.enabled /\ ~stored.removing
                      /\ ~stored.execution.owned
  /\ stored' = [enabled |-> enabled, removing |-> FALSE, execution |-> New]
  /\ worker' \in {None, worker}
  /\ latest' = None
  /\ UNCHANGED <<clock, task, due, door>>

(* Pause or remove the program; a tick of its own follows.                  *)
Action(remove) ==
  /\ Outside
  /\ task = None
  /\ stored # None
  /\ stored' = [stored EXCEPT !.enabled = FALSE, !.removing = remove]
  /\ due' = TRUE
  /\ UNCHANGED <<clock, worker, task, door, latest>>
-----------------------------------------------------------------------------
(* worker(): created with the stored state, and to recover what it owns.    *)
Loaded ==
  IF worker # None THEN worker
  ELSE [state |-> stored.execution, recovering |-> stored.execution.owned]

(* Mutant of MustClose: a restoration that failed is not repeated.          *)
MustCloseOnce(w, desired) ==
  /\ w.state.owned
  /\ w.state.status # "unknown"
  /\ \/ w.recovering
     \/ desired # w.state.attempted
     \/ w.state.status # "held_acknowledged"

(* What is owned is restored unless it is known to be held in its window.   *)
MustClose(w, desired) ==
  /\ w.state.owned
  /\ \/ w.recovering
     \/ desired # w.state.attempted
     \/ w.state.status # "held_acknowledged"

MustOpen(w, desired) ==
  /\ ~w.state.owned
  /\ desired # None
  /\ desired # w.state.attempted

(* tick_key(), by the timer or after an action, which may be cancelled.     *)
Tick(byAction) ==
  /\ task = None
  /\ stored # None
  /\ byAction => due
  /\ due' = (due /\ ~byAction)
  /\ worker' = Loaded
  /\ LET desired == IF stored.enabled /\ ~stored.removing THEN Window ELSE None
     IN task' = [next |-> IF MustClose(Loaded, desired) THEN "restoring"
                          ELSE IF MustOpen(Loaded, desired) THEN "opening"
                          ELSE "finish",
                 desired |-> desired, executed |-> FALSE,
                 cancellable |-> byAction]
  /\ UNCHANGED <<clock, stored, door, latest, outside>>

(* Mutant of Candidate: a closed door may be opened in the same window.     *)
CandidateForgets ==
  CASE task.next = "restoring" ->
         [worker.state EXCEPT !.status = "restoring"]
    [] task.next = "closed" ->
         New
    [] task.next = "opening" ->
         [owned |-> TRUE, attempted |-> task.desired, status |-> "opening"]
    [] task.next = "opened" ->
         [worker.state EXCEPT !.status = "held_acknowledged"]
    [] task.next = "unknown" ->
         [worker.state EXCEPT !.status = "unknown"]

(* Mutant of Candidate: the door is released before it is closed.           *)
CandidateReleases ==
  CASE task.next = "restoring" ->
         [worker.state EXCEPT !.status = "restoring", !.owned = FALSE]
    [] task.next = "closed" ->
         [worker.state EXCEPT !.owned = FALSE, !.status = "idle"]
    [] task.next = "opening" ->
         [owned |-> TRUE, attempted |-> task.desired, status |-> "opening"]
    [] task.next = "opened" ->
         [worker.state EXCEPT !.status = "held_acknowledged"]
    [] task.next = "unknown" ->
         [worker.state EXCEPT !.status = "unknown"]

(* What persist() writes, and what comes after it.                          *)
Candidate ==
  CASE task.next = "restoring" ->
         [worker.state EXCEPT !.status = "restoring"]
    [] task.next = "closed" ->
         [worker.state EXCEPT !.owned = FALSE, !.status = "idle"]
    [] task.next = "opening" ->
         [owned |-> TRUE, attempted |-> task.desired, status |-> "opening"]
    [] task.next = "opened" ->
         [worker.state EXCEPT !.status = "held_acknowledged"]
    [] task.next = "unknown" ->
         [worker.state EXCEPT !.status = "unknown"]

(* "unknown" is followed by the exception that ends the tick.               *)
Following ==
  CASE task.next = "restoring" -> [task EXCEPT !.next = "close"]
    [] task.next = "opening" -> [task EXCEPT !.next = "alwaysOpen"]
    [] task.next \in {"closed", "opened"} -> [task EXCEPT !.next = "finish"]
    [] task.next = "unknown" -> None

Saved ==
  /\ task # None
  /\ task.next \in Saving
  /\ stored' = [stored EXCEPT !.execution = Candidate]
  /\ worker' = [state |-> Candidate,
                recovering |-> worker.recovering /\ task.next # "closed"]
  /\ task' = Following
  /\ latest' = IF task.next = "opening" THEN task.desired ELSE latest
  /\ UNCHANGED <<clock, due, door, outside>>

(* The exception ends the tick.                                             *)
SaveFails ==
  /\ Outside
  /\ task # None
  /\ task.next \in Saving
  /\ task' = None
  /\ UNCHANGED <<clock, stored, worker, due, door, latest>>

(* The station executes the command.                                        *)
Execute ==
  /\ task # None
  /\ task.next \in Sending
  /\ ~task.executed
  /\ task' = [task EXCEPT !.executed = TRUE]
  /\ door' = IF task.next = "close" THEN "normal" ELSE "open"
  /\ UNCHANGED <<clock, stored, worker, due, latest, outside>>

(* Its answer arrives.                                                      *)
Acknowledged ==
  /\ task # None
  /\ task.next \in Sending
  /\ task.executed
  /\ task' = [task EXCEPT !.next = IF task.next = "close"
                                   THEN "closed" ELSE "opened"]
  /\ UNCHANGED <<clock, stored, worker, due, door, latest, outside>>

(* The station is away, or its answer is lost.                              *)
SendFails ==
  /\ Outside
  /\ task # None
  /\ task.next \in Sending
  /\ task' = [task EXCEPT !.next = "unknown"]
  /\ UNCHANGED <<clock, stored, worker, due, door, latest>>

Removable == task.next = "finish" /\ stored.removing /\ ~worker.state.owned

(* Nothing is left to do, or the program is removed.                        *)
Finish ==
  /\ task # None
  /\ task.next = "finish"
  /\ task' = None
  /\ \/ /\ Removable
        /\ stored' = None
        /\ worker' = None
     \/ /\ ~Removable
        /\ UNCHANGED <<stored, worker>>
  /\ UNCHANGED <<clock, due, door, latest, outside>>

(* The removal cannot be saved.                                             *)
FinishFails ==
  /\ Outside
  /\ task # None
  /\ Removable
  /\ task' = None
  /\ UNCHANGED <<clock, stored, worker, due, door, latest>>

(* The administrator's request times out after 75 seconds.  A save under    *)
(* way is completed, but nothing in memory takes note of it.                *)
Cancel ==
  /\ Outside
  /\ task # None
  /\ task.cancellable
  /\ task' = None
  /\ stored' = IF task.next \in Saving
               THEN [stored EXCEPT !.execution = Candidate]
               ELSE IF Removable THEN None ELSE stored
  /\ latest' = IF task.next = "opening" THEN None ELSE latest
  /\ UNCHANGED <<clock, worker, due, door>>

(* Home Assistant stops and starts again.                                   *)
Restart ==
  /\ Outside
  /\ worker' = None
  /\ task' = None
  /\ due' = FALSE
  /\ UNCHANGED <<clock, stored, door, latest>>
-----------------------------------------------------------------------------
Next ==
  \/ Tock
  \/ \E enabled \in BOOLEAN : Update(enabled)
  \/ \E remove \in BOOLEAN : Action(remove)
  \/ \E byAction \in BOOLEAN : Tick(byAction)
  \/ Saved
  \/ SaveFails
  \/ Execute
  \/ Acknowledged
  \/ SendFails
  \/ Finish
  \/ FinishFails
  \/ Cancel
  \/ Restart

Spec == Init /\ [][Next]_vars

(* The timer ticks, and what is not made to fail succeeds.                  *)
FairSpec ==
  /\ Spec
  /\ WF_vars(Tick(FALSE))
  /\ WF_vars(Saved)
  /\ WF_vars(Execute)
  /\ WF_vars(Acknowledged)
  /\ WF_vars(Finish)
-----------------------------------------------------------------------------
(* A relay is never held open without a stored program that owns it, so     *)
(* that whoever comes next, after any failure, restores it (the saves       *)
(* before each command, "owned" kept until the close is acknowledged).      *)
OpenIsOwned == door = "open" => stored # None /\ stored.execution.owned

(* A window that was opened is not opened again before another one is       *)
(* recorded, whatever happened to the answer, the save or the process:      *)
(* "Lost open responses never trigger a blind repeat within the same        *)
(* window" (attempted, HoldOpenExecutor.tick).  Two windows that both lie   *)
(* in a repeated hour are both opened twice, although the comment of        *)
(* window() says that "repeated DST hour cannot trigger twice": only the    *)
(* last one is remembered.                                                  *)
Commanding == task # None /\ task.next = "alwaysOpen"

NoBlindRepeat ==
  [][~Commanding /\ Commanding' => task'.desired # latest]_vars

(* When edits and failures come to an end, the program is gone if it was to *)
(* be removed, its window was tried (by its executor, or by the one a timed *)
(* out edit left in use), and the relay is open only in it.                 *)
Wanted ==
  IF stored # None /\ stored.enabled /\ ~stored.removing THEN Window ELSE None

Settles ==
  <>[](/\ stored # None => ~stored.removing
       /\ Wanted # None => \/ stored.execution.attempted = Wanted
                           \/ worker # None /\ worker.state.attempted = Wanted
       /\ door = "open" =>
            Wanted # None /\ stored.execution.attempted = Wanted)
=============================================================================
