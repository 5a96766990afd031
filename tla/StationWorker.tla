--------------------------- MODULE StationWorker ---------------------------
(***************************************************************************)
(* Who runs the reconciliation of one station, and when (AccessManager in  *)
(* access/manager.py).  A request starts a worker task unless there is     *)
(* one; the worker repeats inspection and reconciliation while requests    *)
(* come in, and leaves a timer behind that requests again.  Inspections    *)
(* ("scans") are one shared task that administrators also use.  Unloading  *)
(* the station cancels the worker and the scan, one await after the other, *)
(* while requests keep coming.                                             *)
(*                                                                         *)
(* The ledger is abstracted to a version that every edit of somebody with  *)
(* work at this station advances, and to the version the engine has fully  *)
(* applied; AccessSync says what a reconciliation does in between.  An     *)
(* atomic step is what a task does from one await to the next.             *)
(***************************************************************************)
EXTENDS Naturals, FiniteSets

CONSTANTS
  Worker,       \* identities for worker tasks
  NoTask,       \* no task
  MaxVersion,   \* bound on the edits
  MaxFaults     \* bound on failed scans and reconciliations

ASSUME WorkerAssumption ==
  /\ NoTask \notin Worker
  /\ MaxVersion \in Nat
  /\ MaxFaults \in Nat

VARIABLES
  driver,       \* station.driver is set: the station is attached
  closed,       \* the manager is closed
  detaching,    \* how far async_detach has come
  pending,      \* station.pending
  task,         \* station.task
  timer,        \* station.timer is set
  worker,       \* the worker tasks
  scan,         \* station.scan_task; "overtaken": the device changed meanwhile
  inventory,    \* station.inventory, compared with the device
  version,      \* edits committed to the ledger
  served,       \* edits known to be applied at the station
  faults        \* failures so far

vars == <<driver, closed, detaching, pending, task, timer, worker, scan,
          inventory, version, served, faults>>
-----------------------------------------------------------------------------
(* "created": not had its first turn; "loop": about to test for requests;   *)
(* "drain" and "final" belong to the inspection after a reconciliation.     *)
Places == {"done", "created", "loop", "scanning", "inventory", "people",
           "drain", "final"}

Answers == {"none", "ok", "error"}

TaskState ==
  [at : Places, seen : 0..MaxVersion, retry : BOOLEAN, answer : Answers,
   cancelled : BOOLEAN]

Done == [at |-> "done", seen |-> 0, retry |-> FALSE, answer |-> "none",
         cancelled |-> FALSE]

TypeOK ==
  /\ driver \in BOOLEAN
  /\ closed \in BOOLEAN
  /\ detaching \in {"no", "enrollment", "worker"}
  /\ pending \in BOOLEAN
  /\ task \in Worker \cup {NoTask}
  /\ timer \in BOOLEAN
  /\ worker \in [Worker -> TaskState]
  /\ scan \in {"none", "created", "reading", "overtaken"}
  /\ inventory \in {"none", "current", "stale"}
  /\ version \in 0..MaxVersion
  /\ served \in 0..MaxVersion
  /\ faults \in 0..MaxFaults

Init ==
  /\ driver = FALSE
  /\ closed = FALSE
  /\ detaching = "no"
  /\ pending = FALSE
  /\ task = NoTask
  /\ timer = FALSE
  /\ worker = [w \in Worker |-> Done]
  /\ scan = "none"
  /\ inventory = "none"
  /\ version = 0
  /\ served = 0
  /\ faults = 0
-----------------------------------------------------------------------------
Running(w) == worker[w].at # "done"

Fault ==
  /\ faults < MaxFaults
  /\ faults' = faults + 1

(* request: whoever asks replaces the timer; a worker that is there will    *)
(* see the request.                                                         *)
Request(attached) ==
  /\ ~closed
  /\ pending' = TRUE
  /\ timer' = FALSE
  /\ IF attached /\ task = NoTask
       THEN \E w \in Worker :
              /\ ~Running(w)
              /\ task' = w
              /\ worker' = [worker EXCEPT ![w] = [Done EXCEPT !.at = "created"]]
       ELSE UNCHANGED <<task, worker>>

(* An edit is committed, and its caller requests the station. *)
Edit ==
  /\ version < MaxVersion
  /\ version' = version + 1
  /\ Request(driver)
  /\ UNCHANGED <<driver, closed, detaching, scan, inventory, served, faults>>

(* The caller is cancelled during the save: committed, but not requested. *)
EditUnannounced ==
  /\ version < MaxVersion
  /\ version' = version + 1
  /\ UNCHANGED <<driver, closed, detaching, pending, task, timer, worker, scan,
                 inventory, served, faults>>

(* Any other reason to ask, such as the station being online again. *)
AskAgain ==
  /\ Request(driver)
  /\ UNCHANGED <<driver, closed, detaching, scan, inventory, version, served, faults>>

TimerFires ==
  /\ timer
  /\ Request(driver)
  /\ UNCHANGED <<driver, closed, detaching, scan, inventory, version, served, faults>>

(* attach; Home Assistant sets up a station only after unloading it ended. *)
Attach ==
  /\ ~driver
  /\ detaching = "no"
  /\ driver' = TRUE
  /\ Request(TRUE)
  /\ UNCHANGED <<closed, detaching, scan, inventory, version, served, faults>>
-----------------------------------------------------------------------------
(* Joining the shared scan, or starting one. *)
Joined == IF scan = "none" THEN "created" ELSE scan

(* async_rescan by an administrator, who may go away without consequence. *)
Rescan ==
  /\ ~closed
  /\ driver
  /\ scan = "none"
  /\ scan' = Joined
  /\ UNCHANGED <<driver, closed, detaching, pending, task, timer, worker,
                 inventory, version, served, faults>>

Waiting(w) ==
  /\ worker[w].at \in {"scanning", "drain", "final"}
  /\ worker[w].answer = "none"

Answered(answer) ==
  [w \in Worker |-> IF Waiting(w) THEN [worker[w] EXCEPT !.answer = answer]
                                  ELSE worker[w]]

ScanBegin ==
  /\ scan = "created"
  /\ IF driver
       THEN scan' = "reading" /\ UNCHANGED worker
       ELSE scan' = "none" /\ worker' = Answered("error")
  /\ UNCHANGED <<driver, closed, detaching, pending, task, timer, inventory,
                 version, served, faults>>

(* _scan_once: the inventory is published as it was read. *)
ScanEnd ==
  /\ scan \in {"reading", "overtaken"}
  /\ scan' = "none"
  /\ \/ /\ inventory' = IF scan = "reading" THEN "current" ELSE "stale"
        /\ worker' = Answered("ok")
        /\ UNCHANGED faults
     \/ /\ Fault
        /\ worker' = Answered("error")
        /\ UNCHANGED inventory
  /\ UNCHANGED <<driver, closed, detaching, pending, task, timer, version, served>>
-----------------------------------------------------------------------------
(* Mutant of Finish: only a worker that leaves a request leaves a timer. *)
FinishQuietly(w) ==
  /\ worker' = [worker EXCEPT ![w] = Done]
  /\ task' = NoTask
  /\ timer' = (timer \/ (driver /\ ~closed /\ pending))

(* The finally clause of _worker. *)
Finish(w) ==
  /\ worker' = [worker EXCEPT ![w] = Done]
  /\ task' = NoTask
  /\ timer' = (timer \/ (driver /\ ~closed))

(* The head of the loop: a request is taken, and the station is inspected. *)
Iterate(w) ==
  IF pending
    THEN /\ pending' = FALSE
         /\ IF driver
              THEN /\ worker' = [worker EXCEPT ![w] = [Done EXCEPT !.at = "scanning"]]
                   /\ scan' = Joined
              ELSE /\ worker' = [worker EXCEPT ![w] = [Done EXCEPT !.at = "loop"]]
                   /\ UNCHANGED scan
         /\ UNCHANGED <<task, timer>>
    ELSE /\ Finish(w)
         /\ UNCHANGED <<pending, scan>>

(* The end of one round: with something to retry, the timer takes over. *)
EndRound(w, retry) ==
  IF retry THEN Finish(w) /\ UNCHANGED <<pending, scan>> ELSE Iterate(w)

Turn(w) ==
  /\ worker[w].at \in {"created", "loop"}
  /\ Iterate(w)
  /\ UNCHANGED <<inventory, served, faults>>

(* After the inspection: reconcile if anybody has work here. *)
Inspected(w) ==
  /\ worker[w].at = "scanning"
  /\ worker[w].answer # "none"
  /\ \/ /\ worker[w].answer = "error"
        /\ \E retry \in BOOLEAN : EndRound(w, retry)
     \/ /\ worker[w].answer = "ok"
        /\ ~driver \/ version = served
        /\ EndRound(w, FALSE)
     \/ /\ worker[w].answer = "ok"
        /\ driver
        /\ worker' = [worker EXCEPT ![w] = [Done EXCEPT !.at = "inventory"]]
        /\ UNCHANGED <<pending, task, timer, scan>>
  /\ UNCHANGED <<inventory, served, faults>>

(* Mutant of ListPeople: counts an edit that is not committed yet. *)
ListPeopleAhead(w) ==
  /\ worker[w].at = "inventory"
  /\ worker' = [worker EXCEPT ![w].at = "people", ![w].seen = version + 1]
  /\ UNCHANGED <<pending, task, timer, scan, inventory, served, faults>>

(* async_reconcile lists the people with work after reading the inventory. *)
ListPeople(w) ==
  /\ worker[w].at = "inventory"
  /\ \/ /\ worker' = [worker EXCEPT ![w].at = "people", ![w].seen = version]
        /\ UNCHANGED <<pending, task, timer, scan, faults>>
     \/ /\ Fault
        /\ \E retry \in BOOLEAN : EndRound(w, retry)
  /\ UNCHANGED <<inventory, served>>

EngineWrites(w) ==
  /\ worker[w].at = "people"
  /\ scan' = IF scan = "reading" THEN "overtaken" ELSE scan
  /\ inventory' = IF inventory = "current" THEN "stale" ELSE inventory
  /\ UNCHANGED <<driver, closed, detaching, pending, task, timer, worker, version,
                 served, faults>>

(* Mutant of Reinspect: a scan that is under way is good enough. *)
ReinspectJoining(w, retry) ==
  /\ worker' = [worker EXCEPT ![w] =
       [Done EXCEPT !.at = "final", !.retry = retry]]
  /\ scan' = Joined

(* A scan begun before a write cannot serve as the final inspection: wait   *)
(* for its end first.                                                       *)
Reinspect(w, retry) ==
  /\ worker' = [worker EXCEPT ![w] =
       [Done EXCEPT !.at = IF scan = "none" THEN "final" ELSE "drain",
                    !.retry = retry]]
  /\ scan' = Joined

(* The end of async_reconcile: everybody done; somebody failed, or was      *)
(* edited meanwhile; or the station is offline or failed as a whole.        *)
Reconciled(w) ==
  /\ worker[w].at = "people"
  /\ \/ /\ served' = worker[w].seen
        /\ Reinspect(w, FALSE)
        /\ UNCHANGED <<pending, task, timer, faults>>
     \/ /\ version > worker[w].seen
        /\ Reinspect(w, TRUE)
        /\ UNCHANGED <<pending, task, timer, served, faults>>
     \/ /\ Fault
        /\ \E retry \in BOOLEAN : Reinspect(w, retry)
        /\ UNCHANGED <<pending, task, timer, served>>
     \/ /\ Fault
        /\ \E retry \in BOOLEAN : EndRound(w, retry)
        /\ UNCHANGED served
  /\ UNCHANGED inventory

Drained(w) ==
  /\ worker[w].at = "drain"
  /\ worker[w].answer # "none"
  /\ worker' = [worker EXCEPT ![w].at = "final", ![w].answer = "none"]
  /\ scan' = Joined
  /\ UNCHANGED <<pending, task, timer, inventory, served, faults>>

Reinspected(w) ==
  /\ worker[w].at = "final"
  /\ \/ /\ worker[w].answer = "ok"
        /\ EndRound(w, worker[w].retry)
     \/ /\ worker[w].answer = "error"
        /\ \E retry \in {worker[w].retry, TRUE} : EndRound(w, retry)
  /\ UNCHANGED <<inventory, served, faults>>

(* A cancelled worker ends at its await; before its first turn not even its *)
(* finally clause runs.                                                     *)
Cancelled(w) ==
  /\ worker[w].cancelled
  /\ IF worker[w].at = "created"
       THEN worker' = [worker EXCEPT ![w] = Done] /\ UNCHANGED <<task, timer>>
       ELSE Finish(w)
  /\ UNCHANGED <<pending, scan, inventory, served, faults>>
-----------------------------------------------------------------------------
(* async_detach, from await to await. *)
DetachBegin ==
  /\ detaching = "no"
  /\ driver' = FALSE
  /\ detaching' = "enrollment"
  /\ closed' \in {closed, TRUE}       \* async_close detaches every station
  /\ UNCHANGED <<pending, task, timer, worker, scan, inventory, version, served,
                 faults>>

DetachWorker ==
  /\ detaching = "enrollment"
  /\ detaching' = "worker"
  /\ timer' = FALSE
  /\ worker' = [w \in Worker |->
       IF w = task THEN [worker[w] EXCEPT !.cancelled = TRUE] ELSE worker[w]]
  /\ UNCHANGED <<driver, closed, pending, task, scan, inventory, version, served,
                 faults>>

(* Mutant of DetachEnd: the cancelled worker is not awaited. *)
DetachEndAtOnce ==
  /\ detaching = "worker"
  /\ detaching' = "no"
  /\ task' = NoTask
  /\ scan' = "none"
  /\ inventory' = "none"
  /\ pending' = FALSE
  /\ driver' = FALSE
  /\ UNCHANGED <<closed, timer, worker, version, served, faults>>

(* Once the worker is over, the scan is cancelled and the rest cleared. *)
DetachEnd ==
  /\ detaching = "worker"
  /\ \A w \in Worker : ~worker[w].cancelled
  /\ detaching' = "no"
  /\ task' = NoTask
  /\ scan' = "none"
  /\ inventory' = "none"
  /\ pending' = FALSE
  /\ driver' = FALSE
  /\ UNCHANGED <<closed, timer, worker, version, served, faults>>
-----------------------------------------------------------------------------
WorkerStep(w) ==
  /\ \/ ~worker[w].cancelled
        /\ \/ Turn(w)
           \/ Inspected(w)
           \/ ListPeople(w)
           \/ Reconciled(w)
           \/ Drained(w)
           \/ Reinspected(w)
     \/ Cancelled(w)
  /\ UNCHANGED <<driver, closed, detaching, version>>

ScanStep == ScanBegin \/ ScanEnd

DetachStep == DetachWorker \/ DetachEnd

Next ==
  \/ Edit
  \/ EditUnannounced
  \/ AskAgain
  \/ TimerFires
  \/ Attach
  \/ Rescan
  \/ ScanStep
  \/ \E w \in Worker : WorkerStep(w) \/ (~worker[w].cancelled /\ EngineWrites(w))
  \/ DetachBegin
  \/ DetachStep

Spec == Init /\ [][Next]_vars

(* The event loop runs every task that is ready, and timers fire. *)
FairSpec ==
  /\ Spec
  /\ \A w \in Worker : WF_vars(WorkerStep(w))
  /\ WF_vars(ScanStep)
  /\ WF_vars(TimerFires)
  /\ WF_vars(DetachStep)
-----------------------------------------------------------------------------
(* No lost wakeup: while a station is attached, either a worker is there or *)
(* exactly the timer that will start one, whatever requests, failures and   *)
(* cancelled callers came before.                                           *)
Scheduled ==
  driver /\ ~closed => ((task # NoTask) <=> ~timer)

(* Never two workers on one station, not even across unloading and loading  *)
(* it again: a second one would write to the device at the same time.       *)
SingleWorker ==
  \A v, w \in Worker : Running(v) /\ Running(w) => v = w

(* After unloading ended nothing of the station is left running, and no     *)
(* timer is left that could start it.                                       *)
DetachedQuiet ==
  ~driver /\ detaching = "no" =>
    /\ \A w \in Worker : ~Running(w)
    /\ task = NoTask
    /\ ~timer
    /\ scan = "none"
    /\ inventory = "none"

(* The inspection that follows a reconciliation shows the device after the  *)
(* last write, also when an administrator had a scan under way.             *)
FinalInventory ==
  \A w \in Worker :
    worker[w].at = "final" /\ worker[w].answer = "ok" => inventory = "current"

(* Every edit is applied in the end, unless the station is unloaded: also   *)
(* one that comes while a reconciliation runs or whose caller went away.    *)
EditsServed ==
  \A n \in 1..MaxVersion : version >= n ~> (served >= n \/ ~driver)
=============================================================================
