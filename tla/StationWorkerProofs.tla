------------------------- MODULE StationWorkerProofs -------------------------
(***************************************************************************)
(* Proofs that the scheduling of one station loses no request, never runs  *)
(* two workers, leaves nothing behind when the station is unloaded, and    *)
(* reports only inspections made after the last write.                     *)
(***************************************************************************)
EXTENDS StationWorker, TLAPS

(* There is no worker but the one the station knows.  A task that is over   *)
(* stays there only while unloading, when it was cancelled before its first *)
(* turn.                                                                    *)
KnownWorker ==
  /\ \A w \in Worker : Running(w) => task = w
  /\ task # NoTask => Running(task) \/ detaching = "worker"

(* A worker and a timer exclude each other, and one of them is there while  *)
(* the station is attached.                                                 *)
Wakeup ==
  /\ task # NoTask => ~timer
  /\ driver /\ ~closed => task # NoTask \/ timer

(* How far the unloading has come. *)
Unloading ==
  /\ detaching # "no" => ~driver
  /\ \A w \in Worker : worker[w].cancelled => detaching = "worker" /\ Running(w)
  /\ detaching = "worker" => ~timer /\ \A w \in Worker : Running(w) => worker[w].cancelled
  /\ ~driver /\ detaching = "no" =>
       task = NoTask /\ ~timer /\ scan = "none" /\ inventory = "none"

(* Nothing is written to the device while the worker waits for its final    *)
(* inspection.                                                              *)
Inspection ==
  \A w \in Worker :
    /\ worker[w].at = "drain" /\ worker[w].answer # "none" => scan # "overtaken"
    /\ worker[w].at = "final" => scan # "overtaken"
    /\ worker[w].at = "final" /\ worker[w].answer = "none" => scan # "none"
    /\ worker[w].at = "final" /\ worker[w].answer = "ok" => inventory = "current"

Inv == TypeOK /\ KnownWorker /\ Wakeup /\ Unloading /\ Inspection
-----------------------------------------------------------------------------
LEMMA FaultTypes == ASSUME TypeOK, Fault PROVE faults' \in 0..MaxFaults
BY WorkerAssumption DEF TypeOK, Fault

LEMMA DoneType ==
  /\ Done \in TaskState
  /\ \A at \in Places, retry \in BOOLEAN :
       /\ [Done EXCEPT !.at = at] \in TaskState
       /\ [Done EXCEPT !.at = at, !.retry = retry] \in TaskState
<1>1. 0 \in 0..MaxVersion
  BY WorkerAssumption
<1>2. Done \in TaskState
  BY <1>1 DEF Done, TaskState, Places, Answers
<1>3. ASSUME NEW at \in Places, NEW retry \in BOOLEAN
      PROVE  /\ [Done EXCEPT !.at = at] \in TaskState
             /\ [Done EXCEPT !.at = at, !.retry = retry] \in TaskState
  BY <1>2, <1>3 DEF TaskState
<1> QED
  BY <1>2, <1>3

LEMMA RequestTypes ==
  ASSUME TypeOK, NEW attached, Request(attached)
  PROVE  /\ pending' \in BOOLEAN
         /\ timer' \in BOOLEAN
         /\ task' \in Worker \cup {NoTask}
         /\ worker' \in [Worker -> TaskState]
BY DoneType DEF TypeOK, Request, Places

LEMMA AnsweredTypes ==
  ASSUME TypeOK, NEW answer \in Answers
  PROVE  Answered(answer) \in [Worker -> TaskState]
BY DEF TypeOK, Answered, TaskState

LEMMA FinishTypes ==
  ASSUME TypeOK, NEW w \in Worker, Finish(w)
  PROVE  /\ timer' \in BOOLEAN
         /\ task' \in Worker \cup {NoTask}
         /\ worker' \in [Worker -> TaskState]
BY DoneType DEF TypeOK, Finish

LEMMA EndRoundTypes ==
  ASSUME TypeOK, NEW w \in Worker, NEW retry,
         EndRound(w, retry) \/ Iterate(w)
  PROVE  /\ pending' \in BOOLEAN
         /\ timer' \in BOOLEAN
         /\ task' \in Worker \cup {NoTask}
         /\ worker' \in [Worker -> TaskState]
         /\ scan' \in {"none", "created", "reading", "overtaken"}
BY DoneType, FinishTypes DEF TypeOK, EndRound, Iterate, Joined, Places

LEMMA ReinspectTypes ==
  ASSUME TypeOK, NEW w \in Worker, NEW retry \in BOOLEAN, Reinspect(w, retry)
  PROVE  /\ worker' \in [Worker -> TaskState]
         /\ scan' \in {"none", "created", "reading", "overtaken"}
BY DoneType DEF TypeOK, Reinspect, Joined, Places

LEMMA WorkerStepTypes ==
  ASSUME TypeOK, NEW w \in Worker, WorkerStep(w)
  PROVE  TypeOK'
<1> USE DEF TypeOK
<1>1. ASSUME Turn(w) PROVE TypeOK'
  BY <1>1, EndRoundTypes DEF Turn, WorkerStep
<1>2. ASSUME Inspected(w) PROVE TypeOK'
  BY <1>2, EndRoundTypes, DoneType DEF Inspected, WorkerStep, Places
<1>3. ASSUME ListPeople(w) PROVE TypeOK'
  <2>1. CASE worker' = [worker EXCEPT ![w].at = "people", ![w].seen = version]
             /\ UNCHANGED <<pending, task, timer, scan, faults>>
    <3>1. [worker[w] EXCEPT !.at = "people", !.seen = version] \in TaskState
      BY DEF TaskState, Places
    <3>2. worker' \in [Worker -> TaskState]
      BY <2>1, <3>1
    <3> QED
      BY <1>3, <2>1, <3>2 DEF ListPeople, WorkerStep
  <2>2. CASE Fault /\ \E retry \in BOOLEAN : EndRound(w, retry)
    BY <1>3, <2>2, EndRoundTypes, FaultTypes DEF ListPeople, WorkerStep
  <2> QED
    BY <1>3, <2>1, <2>2 DEF ListPeople
<1>4. ASSUME Reconciled(w) PROVE TypeOK'
  <2>1. worker[w].seen \in 0..MaxVersion
    BY DEF TaskState
  <2>2. CASE \E retry \in BOOLEAN : Reinspect(w, retry)
    BY <1>4, <2>1, <2>2, ReinspectTypes, EndRoundTypes, FaultTypes
       DEF Reconciled, WorkerStep
  <2>3. CASE \E retry \in BOOLEAN : EndRound(w, retry)
    BY <1>4, <2>1, <2>3, ReinspectTypes, EndRoundTypes, FaultTypes
       DEF Reconciled, WorkerStep
  <2> QED
    BY <1>4, <2>2, <2>3 DEF Reconciled
<1>5. ASSUME Drained(w) PROVE TypeOK'
  BY <1>5 DEF Drained, WorkerStep, Joined, TaskState, Places, Answers
<1>6. ASSUME Reinspected(w) PROVE TypeOK'
  BY <1>6, EndRoundTypes DEF Reinspected, WorkerStep, TaskState
<1>7. ASSUME Cancelled(w) PROVE TypeOK'
  BY <1>7, FinishTypes, DoneType DEF Cancelled, WorkerStep
<1> QED
  BY <1>1, <1>2, <1>3, <1>4, <1>5, <1>6, <1>7 DEF WorkerStep

(* Everything the scheduling keeps of a station has its type. *)
THEOREM TypeInvariant == Spec => []TypeOK
<1>1. Init => TypeOK
  <2>1. 0 \in 0..MaxVersion /\ 0 \in 0..MaxFaults
    BY WorkerAssumption
  <2> QED
    BY <2>1, DoneType DEF Init, TypeOK
<1>2. ASSUME TypeOK, [Next]_vars PROVE TypeOK'
  <2> USE <1>2
  <2>1. CASE Edit
    BY <2>1, RequestTypes, WorkerAssumption DEF Edit, TypeOK
  <2>2. CASE EditUnannounced
    BY <2>2, WorkerAssumption DEF EditUnannounced, TypeOK
  <2>3. CASE AskAgain
    BY <2>3, RequestTypes DEF AskAgain, TypeOK
  <2>4. CASE TimerFires
    BY <2>4, RequestTypes DEF TimerFires, TypeOK
  <2>5. CASE Attach
    BY <2>5, RequestTypes DEF Attach, TypeOK
  <2>6. CASE Rescan
    BY <2>6 DEF Rescan, Joined, TypeOK
  <2>7. CASE ScanBegin
    BY <2>7, AnsweredTypes DEF ScanBegin, TypeOK, Answers
  <2>8. CASE ScanEnd
    BY <2>8, AnsweredTypes, FaultTypes DEF ScanEnd, TypeOK, Answers
  <2>9. ASSUME NEW w \in Worker, WorkerStep(w) PROVE TypeOK'
    BY <2>9, WorkerStepTypes
  <2>10. ASSUME NEW w \in Worker, EngineWrites(w) PROVE TypeOK'
    BY <2>10 DEF EngineWrites, TypeOK
  <2>11. CASE DetachBegin
    BY <2>11 DEF DetachBegin, TypeOK
  <2>12. CASE DetachWorker
    BY <2>12 DEF DetachWorker, TypeOK, TaskState
  <2>13. CASE DetachEnd
    BY <2>13 DEF DetachEnd, TypeOK
  <2>14. CASE UNCHANGED vars
    BY <2>14 DEF vars, TypeOK
  <2> QED
    BY <2>1, <2>2, <2>3, <2>4, <2>5, <2>6, <2>7, <2>8, <2>9, <2>10, <2>11, <2>12,
       <2>13, <2>14 DEF Next, ScanStep, DetachStep
<1> QED
  BY <1>1, <1>2, PTL DEF Spec
-----------------------------------------------------------------------------
LEMMA InitInv == Init => Inv
<1>1. 0 \in 0..MaxVersion /\ 0 \in 0..MaxFaults
  BY WorkerAssumption
<1>2. Init => TypeOK
  BY <1>1, DoneType DEF Init, TypeOK
<1>3. Init => KnownWorker /\ Wakeup /\ Unloading /\ Inspection
  BY DEF Init, KnownWorker, Wakeup, Unloading, Inspection, Running, Done
<1> QED
  BY <1>2, <1>3 DEF Inv

(* A request starts a worker only where there is none, and only while the   *)
(* station is attached.                                                     *)
LEMMA RequestKeeps ==
  ASSUME Inv, NEW attached \in BOOLEAN, Request(attached),
         UNCHANGED <<closed, detaching, scan, inventory>>, driver' = attached,
         attached # driver => attached /\ detaching = "no"
  PROVE  KnownWorker' /\ Wakeup' /\ Unloading' /\ Inspection'
<1> USE DEF Inv, Running
<1>1. CASE UNCHANGED <<task, worker>> /\ ~(attached /\ task = NoTask)
  <2>1. timer' = FALSE
    BY DEF Request
  <2>2. KnownWorker'
    BY <1>1 DEF KnownWorker
  <2>3. Wakeup'
    BY <1>1, <2>1 DEF Wakeup
  <2>4. Unloading'
    BY <1>1, <2>1 DEF Unloading
  <2>5. Inspection'
    BY <1>1 DEF Inspection
  <2> QED
    BY <2>2, <2>3, <2>4, <2>5
<1>2. ASSUME attached, task = NoTask, NEW w \in Worker, task' = w,
             worker' = [worker EXCEPT ![w] = [Done EXCEPT !.at = "created"]]
      PROVE  KnownWorker' /\ Wakeup' /\ Unloading' /\ Inspection'
  <2>1. timer' = FALSE /\ w # NoTask
    BY WorkerAssumption DEF Request
  <2>2. /\ worker'[w].at = "created" /\ ~worker'[w].cancelled
        /\ \A v \in Worker \ {w} : worker'[v] = worker[v]
    BY <1>2 DEF TypeOK, Done
  <2>3. \A v \in Worker : ~Running(v)
    BY <1>2, WorkerAssumption DEF KnownWorker
  <2>4. KnownWorker'
    BY <1>2, <2>2, <2>3 DEF KnownWorker
  <2>5. Wakeup'
    BY <1>2, <2>1 DEF Wakeup
  <2>6. detaching = "no" /\ driver'
    BY <1>2 DEF Unloading
  <2>7. Unloading'
    BY <2>2, <2>3, <2>6 DEF Unloading
  <2>8. Inspection'
    BY <2>2, <2>3 DEF Inspection
  <2> QED
    BY <2>4, <2>5, <2>7, <2>8
<1> QED
  BY <1>1, <1>2 DEF Request

(* A worker that ends leaves no other, and a timer if the station is still  *)
(* attached.                                                                *)
LEMMA FinishKeeps ==
  ASSUME Inv, NEW w \in Worker, Running(w), Finish(w),
         UNCHANGED <<driver, closed, detaching, scan, inventory>>
  PROVE  KnownWorker' /\ Wakeup' /\ Unloading' /\ Inspection'
<1> USE DEF Inv, Running
<1>1. \A v \in Worker : worker'[v].at = "done" /\ (worker'[v].cancelled => v # w /\ worker[v].cancelled)
  BY DEF Finish, TypeOK, Done, KnownWorker
<1>2. task' = NoTask /\ task = w /\ ~timer
  BY WorkerAssumption DEF Finish, KnownWorker, Wakeup
<1>3. KnownWorker'
  BY <1>1, <1>2 DEF KnownWorker
<1>4. Wakeup'
  BY <1>2 DEF Wakeup, Finish
<1>5. \A v \in Worker : ~worker'[v].cancelled
  BY <1>1, <1>2 DEF Unloading, KnownWorker
<1>6. Unloading'
  BY <1>1, <1>2, <1>5 DEF Unloading, Finish
<1>7. Inspection'
  BY <1>1 DEF Inspection
<1> QED
  BY <1>3, <1>4, <1>6, <1>7

(* A worker that goes on changes nothing but its own place and the scan.    *)
LEMMA ContinueKeeps ==
  ASSUME Inv, NEW w \in Worker, Running(w), ~worker[w].cancelled,
         NEW next \in TaskState, next.at # "done", ~next.cancelled,
         worker' = [worker EXCEPT ![w] = next],
         UNCHANGED <<driver, closed, detaching, task, timer, inventory>>,
         /\ next.at = "drain" /\ next.answer # "none" => scan' # "overtaken"
         /\ next.at = "final" => scan' # "overtaken"
         /\ next.at = "final" /\ next.answer = "none" => scan' # "none"
         /\ next.at = "final" /\ next.answer = "ok" => inventory = "current"
  PROVE  KnownWorker' /\ Wakeup' /\ Unloading' /\ Inspection'
<1> USE DEF Inv, Running
<1>1. worker'[w] = next /\ \A v \in Worker \ {w} : worker'[v] = worker[v] /\ ~Running(v)
  BY DEF TypeOK, KnownWorker
<1>2. detaching # "worker"
  BY DEF Unloading
<1>3. KnownWorker'
  BY <1>1 DEF KnownWorker
<1>4. Wakeup'
  BY DEF Wakeup
<1>5. Unloading'
  BY <1>1, <1>2, WorkerAssumption DEF Unloading, KnownWorker
<1>6. Inspection'
  BY <1>1 DEF Inspection
<1> QED
  BY <1>3, <1>4, <1>5, <1>6

LEMMA EndRoundKeeps ==
  ASSUME Inv, NEW w \in Worker, Running(w), ~worker[w].cancelled, NEW retry,
         EndRound(w, retry) \/ Iterate(w),
         UNCHANGED <<driver, closed, detaching, inventory>>
  PROVE  KnownWorker' /\ Wakeup' /\ Unloading' /\ Inspection'
<1>1. CASE Finish(w) /\ UNCHANGED scan
  BY <1>1, FinishKeeps
<1>2. CASE \E at \in {"scanning", "loop"} :
             /\ worker' = [worker EXCEPT ![w] = [Done EXCEPT !.at = at]]
             /\ UNCHANGED <<task, timer>>
  <2>1. PICK at \in {"scanning", "loop"} :
          worker' = [worker EXCEPT ![w] = [Done EXCEPT !.at = at]]
    BY <1>2
  <2> DEFINE next == [Done EXCEPT !.at = at]
  <2>2. next \in TaskState /\ next.at = at /\ ~next.cancelled
    BY DoneType DEF Done, Places
  <2> HIDE DEF next
  <2>3. worker' = [worker EXCEPT ![w] = next]
    BY <2>1 DEF next
  <2> QED
    BY <1>2, <2>2, <2>3, ContinueKeeps
<1> QED
  BY <1>1, <1>2 DEF EndRound, Iterate

LEMMA ReinspectKeeps ==
  ASSUME Inv, NEW w \in Worker, Running(w), ~worker[w].cancelled,
         NEW retry \in BOOLEAN, Reinspect(w, retry),
         UNCHANGED <<driver, closed, detaching, task, timer, inventory>>
  PROVE  KnownWorker' /\ Wakeup' /\ Unloading' /\ Inspection'
<1> DEFINE next == [Done EXCEPT !.at = IF scan = "none" THEN "final" ELSE "drain",
                                !.retry = retry]
<1>1. next \in TaskState
  BY DoneType DEF Places
<1>2. /\ next.at = IF scan = "none" THEN "final" ELSE "drain"
      /\ next.answer = "none" /\ ~next.cancelled
  BY DEF Done
<1>3. worker' = [worker EXCEPT ![w] = next] /\ scan' = Joined
  BY DEF Reinspect
<1> HIDE DEF next
<1> QED
  BY <1>1, <1>2, <1>3, ContinueKeeps DEF Joined

LEMMA WorkerStepKeeps ==
  ASSUME Inv, NEW w \in Worker, WorkerStep(w)
  PROVE  KnownWorker' /\ Wakeup' /\ Unloading' /\ Inspection'
<1>1. UNCHANGED <<driver, closed, detaching, version>>
  BY DEF WorkerStep
<1>2. worker[w] \in TaskState
  BY DEF Inv, TypeOK
<1>3. ASSUME ~worker[w].cancelled, Turn(w)
      PROVE  KnownWorker' /\ Wakeup' /\ Unloading' /\ Inspection'
  BY <1>1, <1>3, EndRoundKeeps DEF Turn, Running
<1>4. ASSUME ~worker[w].cancelled, Inspected(w)
      PROVE  KnownWorker' /\ Wakeup' /\ Unloading' /\ Inspection'
  <2>1. Running(w) /\ UNCHANGED inventory
    BY <1>4 DEF Inspected, Running
  <2>2. CASE \E retry \in BOOLEAN : EndRound(w, retry)
    BY <1>1, <1>4, <2>1, <2>2, EndRoundKeeps
  <2>3. CASE /\ worker' = [worker EXCEPT ![w] = [Done EXCEPT !.at = "inventory"]]
             /\ UNCHANGED <<pending, task, timer, scan>>
    <3> DEFINE next == [Done EXCEPT !.at = "inventory"]
    <3>1. next \in TaskState /\ next.at = "inventory" /\ ~next.cancelled
      BY DoneType DEF Done, Places
    <3>2. worker' = [worker EXCEPT ![w] = next]
      BY <2>3
    <3> HIDE DEF next
    <3> QED
      BY <1>1, <1>4, <2>1, <2>3, <3>1, <3>2, ContinueKeeps
  <2> QED
    BY <1>4, <2>2, <2>3 DEF Inspected
<1>5. ASSUME ~worker[w].cancelled, ListPeople(w)
      PROVE  KnownWorker' /\ Wakeup' /\ Unloading' /\ Inspection'
  <2>1. Running(w) /\ UNCHANGED inventory
    BY <1>5 DEF ListPeople, Running
  <2>2. CASE \E retry \in BOOLEAN : EndRound(w, retry)
    BY <1>1, <1>5, <2>1, <2>2, EndRoundKeeps
  <2>3. CASE /\ worker' = [worker EXCEPT ![w].at = "people", ![w].seen = version]
             /\ UNCHANGED <<pending, task, timer, scan>>
    <3> DEFINE next == [worker[w] EXCEPT !.at = "people", !.seen = version]
    <3>1. next \in TaskState
      BY <1>2 DEF TaskState, Places, Inv, TypeOK
    <3>2. next.at = "people" /\ ~next.cancelled
      BY <1>2, <1>5 DEF TaskState
    <3>3. worker' = [worker EXCEPT ![w] = next]
      BY <2>3
    <3> HIDE DEF next
    <3> QED
      BY <1>1, <1>5, <2>1, <2>3, <3>1, <3>2, <3>3, ContinueKeeps
  <2> QED
    BY <1>5, <2>2, <2>3 DEF ListPeople
<1>6. ASSUME ~worker[w].cancelled, Reconciled(w)
      PROVE  KnownWorker' /\ Wakeup' /\ Unloading' /\ Inspection'
  <2>1. Running(w) /\ UNCHANGED inventory
    BY <1>6 DEF Reconciled, Running
  <2>2. CASE \E retry \in BOOLEAN : EndRound(w, retry)
    BY <1>1, <1>6, <2>1, <2>2, EndRoundKeeps
  <2>3. CASE \E retry \in BOOLEAN : Reinspect(w, retry) /\ UNCHANGED <<task, timer>>
    BY <1>1, <1>6, <2>1, <2>3, ReinspectKeeps
  <2> QED
    BY <1>6, <2>2, <2>3 DEF Reconciled
<1>7. ASSUME ~worker[w].cancelled, Drained(w)
      PROVE  KnownWorker' /\ Wakeup' /\ Unloading' /\ Inspection'
  <2> DEFINE next == [worker[w] EXCEPT !.at = "final", !.answer = "none"]
  <2>1. next \in TaskState
    BY <1>2 DEF TaskState, Places, Answers
  <2>2. next.at = "final" /\ next.answer = "none" /\ ~next.cancelled
    BY <1>2, <1>7 DEF TaskState
  <2>3. worker' = [worker EXCEPT ![w] = next] /\ UNCHANGED <<task, timer, inventory>>
    BY <1>7 DEF Drained
  <2>4. scan' = Joined /\ scan # "overtaken" /\ Running(w)
    BY <1>7 DEF Drained, Inv, Inspection, Running
  <2> HIDE DEF next
  <2> QED
    BY <1>1, <1>7, <2>1, <2>2, <2>3, <2>4, ContinueKeeps DEF Joined
<1>8. ASSUME ~worker[w].cancelled, Reinspected(w)
      PROVE  KnownWorker' /\ Wakeup' /\ Unloading' /\ Inspection'
  <2>1. Running(w) /\ UNCHANGED inventory
    BY <1>8 DEF Reinspected, Running
  <2> QED
    BY <1>1, <1>8, <2>1, EndRoundKeeps DEF Reinspected
<1>9. ASSUME Cancelled(w)
      PROVE  KnownWorker' /\ Wakeup' /\ Unloading' /\ Inspection'
  <2>1. /\ Running(w) /\ detaching = "worker" /\ ~driver
        /\ \A v \in Worker \ {w} : ~Running(v) /\ ~worker[v].cancelled
    BY <1>9 DEF Cancelled, Inv, Unloading, KnownWorker
  <2>2. CASE Finish(w)
    BY <1>1, <1>9, <2>1, <2>2, FinishKeeps DEF Cancelled
  <2>3. CASE worker' = [worker EXCEPT ![w] = Done] /\ UNCHANGED <<task, timer>>
    <3>1. \A v \in Worker : worker'[v].at = "done" /\ ~worker'[v].cancelled
      BY <2>1, <2>3 DEF Inv, TypeOK, Done, Running
    <3> QED
      BY <1>1, <1>9, <2>1, <2>3, <3>1
         DEF Cancelled, Inv, KnownWorker, Wakeup, Unloading, Inspection, Running
  <2> QED
    BY <1>9, <2>2, <2>3 DEF Cancelled
<1> QED
  BY <1>3, <1>4, <1>5, <1>6, <1>7, <1>8, <1>9 DEF WorkerStep

(* What the answer of a scan does to the workers that wait for it. *)
LEMMA AnsweredShape ==
  ASSUME TypeOK, NEW answer \in Answers, worker' = Answered(answer), NEW w \in Worker
  PROVE  /\ worker'[w].at = worker[w].at
         /\ worker'[w].cancelled = worker[w].cancelled
         /\ worker'[w].answer = IF Waiting(w) THEN answer ELSE worker[w].answer
<1>1. worker[w] \in TaskState
  BY DEF TypeOK
<1> QED
  BY <1>1 DEF Answered, TaskState

LEMMA ScanKeeps ==
  ASSUME Inv, ScanStep
  PROVE  KnownWorker' /\ Wakeup' /\ Unloading' /\ Inspection'
<1> USE DEF Inv, Running
<1>1. UNCHANGED <<driver, closed, detaching, task, timer>> /\ scan # "none"
  BY DEF ScanStep, ScanBegin, ScanEnd
<1>2. driver \/ detaching # "no"
  BY <1>1 DEF Unloading
<1>3. CASE UNCHANGED <<worker, inventory>> /\ scan = "created" /\ scan' = "reading"
  BY <1>1, <1>2, <1>3 DEF KnownWorker, Wakeup, Unloading, Inspection
<1>4. ASSUME NEW answer \in Answers, answer # "none", worker' = Answered(answer), scan' = "none",
             answer = "ok" => inventory' = IF scan = "reading" THEN "current" ELSE "stale",
             answer = "ok" => scan \in {"reading", "overtaken"},
             answer # "ok" => inventory' = inventory
      PROVE  KnownWorker' /\ Wakeup' /\ Unloading' /\ Inspection'
  <2>1. \A w \in Worker :
          /\ worker'[w].at = worker[w].at
          /\ worker'[w].cancelled = worker[w].cancelled
          /\ worker'[w].answer = IF Waiting(w) THEN answer ELSE worker[w].answer
    BY <1>4, AnsweredShape
  <2>2. KnownWorker' /\ Wakeup' /\ Unloading'
    <3>1. KnownWorker'
      <4>1. task # NoTask => task \in Worker
        BY DEF TypeOK
      <4> QED
        BY <1>1, <2>1, <4>1 DEF KnownWorker
    <3>2. Wakeup'
      BY <1>1 DEF Wakeup
    <3>3. ~(~driver' /\ detaching' = "no")
      BY <1>1, <1>2
    <3>4. Unloading'
      BY <1>1, <2>1, <3>3 DEF Unloading
    <3> QED
      BY <3>1, <3>2, <3>4
  <2>3. Inspection'
    <3> SUFFICES ASSUME NEW w \in Worker, worker'[w].at = "final"
                 PROVE  /\ worker'[w].answer # "none"
                        /\ worker'[w].answer = "ok" => inventory' = "current"
      BY <1>4 DEF Inspection
    <3>1. CASE Waiting(w)
      <4>1. scan # "overtaken"
        BY <2>1 DEF Inspection
      <4> QED
        BY <1>4, <2>1, <3>1, <4>1
    <3>2. CASE ~Waiting(w)
      <4>1. worker[w].answer # "none" /\ worker'[w].answer = worker[w].answer
        BY <2>1, <3>2 DEF Waiting
      <4>2. scan # "overtaken"
        BY <2>1 DEF Inspection
      <4>3. worker[w].answer = "ok" => inventory = "current"
        BY <2>1 DEF Inspection
      <4> QED
        BY <1>4, <4>1, <4>2, <4>3 DEF Answers
    <3> QED
      BY <3>1, <3>2
  <2> QED
    BY <2>2, <2>3
<1>5. CASE ScanBegin
  BY <1>3, <1>4, <1>5 DEF ScanBegin, Answers
<1>6. CASE ScanEnd
  BY <1>4, <1>6 DEF ScanEnd, Answers
<1> QED
  BY <1>5, <1>6 DEF ScanStep

LEMMA DetachKeeps ==
  ASSUME Inv, DetachBegin \/ DetachStep
  PROVE  KnownWorker' /\ Wakeup' /\ Unloading' /\ Inspection'
<1> USE DEF Inv, Running
<1>1. CASE DetachBegin
  BY <1>1 DEF DetachBegin, KnownWorker, Wakeup, Unloading, Inspection
<1>2. CASE DetachWorker
  <2>1. \A w \in Worker :
          /\ worker[w] \in TaskState
          /\ worker'[w] = IF w = task THEN [worker[w] EXCEPT !.cancelled = TRUE]
                          ELSE worker[w]
    BY <1>2 DEF DetachWorker, TypeOK
  <2>2. \A w \in Worker :
          /\ worker'[w].at = worker[w].at
          /\ worker'[w].answer = worker[w].answer
          /\ worker'[w].cancelled <=> (w = task \/ worker[w].cancelled)
    BY <2>1 DEF TaskState
  <2>3. ~driver /\ detaching = "enrollment"
    BY <1>2 DEF DetachWorker, Unloading
  <2>4. KnownWorker' /\ Wakeup'
    BY <1>2, <2>2, <2>3 DEF DetachWorker, KnownWorker, Wakeup
  <2>5. Unloading'
    BY <1>2, <2>2, <2>3, WorkerAssumption DEF DetachWorker, KnownWorker, Unloading
  <2>6. Inspection'
    BY <1>2, <2>2 DEF DetachWorker, Inspection
  <2> QED
    BY <2>4, <2>5, <2>6
<1>3. CASE DetachEnd
  <2>1. \A w \in Worker : ~Running(w)
    BY <1>3 DEF DetachEnd, Unloading
  <2> QED
    BY <1>3, <2>1 DEF DetachEnd, KnownWorker, Wakeup, Unloading, Inspection
<1> QED
  BY <1>1, <1>2, <1>3 DEF DetachStep

LEMMA Invariance == Spec => []Inv
<1>1. ASSUME Inv, TypeOK', [Next]_vars PROVE Inv'
  <2> USE <1>1
  <2> SUFFICES KnownWorker' /\ Wakeup' /\ Unloading' /\ Inspection'
    BY DEF Inv
  <2>1. CASE Edit \/ AskAgain \/ TimerFires
    <3>1. /\ Request(driver)
          /\ UNCHANGED <<driver, closed, detaching, scan, inventory>>
      BY <2>1 DEF Edit, AskAgain, TimerFires
    <3> QED
      BY <3>1, RequestKeeps DEF Inv, TypeOK
  <2>2. CASE Attach
    BY <2>2, RequestKeeps DEF Attach
  <2>3. CASE EditUnannounced \/ UNCHANGED vars
    BY <2>3 DEF EditUnannounced, vars, Inv, KnownWorker, Wakeup, Unloading,
                Inspection, Running
  <2>4. CASE Rescan
    BY <2>4 DEF Rescan, Joined, Inv, KnownWorker, Wakeup, Unloading, Inspection, Running
  <2>5. CASE ScanStep
    BY <2>5, ScanKeeps
  <2>6. ASSUME NEW w \in Worker, WorkerStep(w)
        PROVE  KnownWorker' /\ Wakeup' /\ Unloading' /\ Inspection'
    BY <2>6, WorkerStepKeeps
  <2>7. ASSUME NEW w \in Worker, ~worker[w].cancelled, EngineWrites(w)
        PROVE  KnownWorker' /\ Wakeup' /\ Unloading' /\ Inspection'
    <3>1. \A v \in Worker : worker[v].at \notin {"drain", "final"}
      <4>1. worker[w].at = "people"
        BY <2>7 DEF EngineWrites
      <4>2. \A v \in Worker \ {w} : worker[v].at = "done"
        BY <4>1 DEF Inv, KnownWorker, Running
      <4> QED
        BY <4>1, <4>2
    <3>2. UNCHANGED <<driver, closed, detaching, task, timer, worker>>
      BY <2>7 DEF EngineWrites
    <3>3. driver \/ detaching # "no"
      BY <2>7, WorkerAssumption
         DEF EngineWrites, Inv, KnownWorker, Unloading, Running
    <3>4. KnownWorker' /\ Wakeup'
      BY <3>2 DEF Inv, KnownWorker, Wakeup, Running
    <3>5. Unloading'
      BY <3>2, <3>3 DEF Inv, Unloading, Running
    <3>6. Inspection'
      BY <3>1, <3>2 DEF Inspection
    <3> QED
      BY <3>4, <3>5, <3>6
  <2>8. CASE DetachBegin \/ DetachStep
    BY <2>8, DetachKeeps
  <2> QED
    BY <2>1, <2>2, <2>3, <2>4, <2>5, <2>6, <2>7, <2>8 DEF Next
<1> QED
  BY <1>1, InitInv, TypeInvariant, PTL DEF Spec

(* No lost wakeup: an attached station has a worker or else the timer that  *)
(* will start one (request and the finally clause of _worker).              *)
THEOREM AlwaysScheduled == Spec => []Scheduled
<1>1. Inv => Scheduled
  BY DEF Inv, Wakeup, Scheduled
<1> QED
  BY <1>1, Invariance, PTL

(* At most one worker runs on a station, also across async_detach and       *)
(* attach.                                                                  *)
THEOREM OneWorker == Spec => []SingleWorker
<1>1. Inv => SingleWorker
  BY DEF Inv, KnownWorker, SingleWorker
<1> QED
  BY <1>1, Invariance, PTL

(* When async_detach is over, the station has no worker, timer or scan.     *)
THEOREM QuietWhenDetached == Spec => []DetachedQuiet
<1>1. Inv => DetachedQuiet
  BY WorkerAssumption DEF Inv, KnownWorker, Unloading, DetachedQuiet
<1> QED
  BY <1>1, Invariance, PTL

(* The final inspection of a reconciliation shows what its last write left. *)
THEOREM InspectedAfterWrites == Spec => []FinalInventory
<1>1. Inv => FinalInventory
  BY DEF Inv, Inspection, FinalInventory
<1> QED
  BY <1>1, Invariance, PTL
=============================================================================
