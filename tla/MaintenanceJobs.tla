-------------------------- MODULE MaintenanceJobs --------------------------
(***************************************************************************)
(* The queue of door configuration jobs (maintenance_jobs.py), the run     *)
(* that works through it every half minute (maintenance_api.py) and the    *)
(* stations it writes to.  A job has one row per station: the value the    *)
(* administrator reviewed there and the value to write.  The run stores an *)
(* intent before each write, and afterwards what came of it; meanwhile     *)
(* administrators decide and cancel, saves fail, answers are lost, and the *)
(* process may stop.                                                       *)
(*                                                                         *)
(* A commit is one step: mutate() holds its lock from the copy to the      *)
(* publication and saves before it publishes.  A write that had no effect  *)
(* when its request ended has none later.                                  *)
(***************************************************************************)
EXTENDS Naturals, Sequences, FiniteSets

CONSTANTS
  Station,
  Value,       \* values of a door parameter
  Initial,     \* the one the stations begin with
  Plans,       \* per job: the change that is asked for
  MaxJobs,     \* bound on the jobs ever enqueued
  Capacity,    \* jobs the queue holds (100 in the code)
  RowBudget,   \* rows one run handles (3 in the code)
  MaxOutside   \* bound on edits, failures and changes of mind

Job == 1..MaxJobs

ASSUME QueueAssumption ==
  /\ Initial \in Value
  /\ Plans \in [Job -> [stations : Seq(Station), desired : Value]]
  /\ MaxJobs \in Nat \ {0}
  /\ Capacity \in Nat
  /\ RowBudget \in Nat
  /\ MaxOutside \in Nat


VARIABLES
  jobs,        \* the queue, as stored and in memory
  task,        \* the run under way
  cursor,      \* where the next run begins in its list of rows
  device,      \* per station: the value of its parameter
  away,        \* stations that are not loaded
  policy,      \* whether a second administrator has to approve
  elapsed,     \* jobs older than eight days
  tried,       \* rows whose write was ever begun
  withdrawn,   \* rows that were pending when their job was stopped
  outside      \* edits, failures and changes of mind so far

surroundings == <<device, away, policy, elapsed>>
vars == <<jobs, task, cursor, surroundings, tried, withdrawn, outside>>
-----------------------------------------------------------------------------
Terminal ==
  {"rejected", "cancelled", "verified", "completed_with_errors", "expired"}

JobStates == Terminal \cup {"queued", "awaiting_approval"}

RowStates ==
  {"pending", "writing", "verified", "failed", "uncertain", "cancelled"}

Row == [station : Station, expected : Value, desired : Value, state : RowStates]

(* "unborn" and "forgotten" jobs are not in the queue.                      *)
JobRecord ==
  [state : JobStates \cup {"unborn", "forgotten"}, dual : BOOLEAN,
   consent : {"none", "approved", "refused"}, rows : Seq(Row)]

Held(j) == jobs[j].state \in JobStates

RowOf(r) == jobs[r[1]].rows[r[2]]

(* The awaits of run().  "report" records a failure, "record" a result.     *)
Phases == {"idle", "expiry", "expire", "pick", "guard", "read", "recheck",
           "intent", "last", "send", "record", "report"}

Task ==
  [at : Phases, todo : SUBSET Job, work : Seq(Job \X Nat), offset : Nat,
   start : Nat, used : Nat, row : Job \X Nat, recovery : BOOLEAN,
   result : RowStates \cup {"wait"}]

Idle ==
  [at |-> "idle", todo |-> {}, work |-> <<>>, offset |-> 0, start |-> 0,
   used |-> 0, row |-> <<1, 1>>, recovery |-> FALSE, result |-> "pending"]

Active == task.at # "idle"

TypeOK ==
  /\ jobs \in [Job -> JobRecord]
  /\ Active => task \in Task
  /\ cursor \in Nat
  /\ device \in [Station -> Value]
  /\ away \subseteq Station
  /\ policy \in BOOLEAN
  /\ elapsed \subseteq Job
  /\ tried \subseteq Job \X Nat
  /\ withdrawn \subseteq Job \X Nat
  /\ outside \in 0..MaxOutside

Init ==
  /\ jobs = [j \in Job |-> [state |-> "unborn", dual |-> FALSE,
                            consent |-> "none", rows |-> <<>>]]
  /\ task = Idle
  /\ cursor = 0
  /\ device = [s \in Station |-> Initial]
  /\ away = {}
  /\ policy \in BOOLEAN
  /\ elapsed = {}
  /\ tried = {}
  /\ withdrawn = {}
  /\ outside = 0

Outside ==
  /\ outside < MaxOutside
  /\ outside' = outside + 1
-----------------------------------------------------------------------------
(* Mutant of Removable: a finished job goes with the result of a write      *)
(* still awaited.                                                           *)
RemovableFinished(j) == jobs[j].state \in Terminal

(* enqueue: the oldest finished job makes room, unless the result of one of *)
(* its writes is still awaited.                                             *)
Removable(j) ==
  /\ jobs[j].state \in Terminal
  /\ \A i \in DOMAIN jobs[j].rows : jobs[j].rows[i].state # "writing"

Full == Cardinality({j \in Job : Held(j)}) >= Capacity

Obsolete ==
  IF Full THEN {j \in Job : Removable(j) /\ \A k \in 1..(j - 1) : ~Removable(k)}
          ELSE {}

NewJob(plan) ==
  [state |-> IF policy THEN "awaiting_approval" ELSE "queued",
   dual |-> policy, consent |-> "none",
   rows |-> [i \in DOMAIN plan.stations |->
     [station |-> plan.stations[i], expected |-> device[plan.stations[i]],
      desired |-> plan.desired, state |-> "pending"]]]

Enqueue(j, plan) ==
  /\ jobs[j].state = "unborn"
  /\ \A k \in 1..(j - 1) : jobs[k].state # "unborn"
  /\ \A i \in DOMAIN plan.stations : plan.stations[i] \notin away
  /\ Full => Obsolete # {}
  /\ jobs' = [k \in Job |->
       IF k = j THEN NewJob(plan)
       ELSE IF k \in Obsolete THEN [jobs[k] EXCEPT !.state = "forgotten"]
       ELSE jobs[k]]
  /\ UNCHANGED <<task, cursor, surroundings, tried, withdrawn, outside>>

(* Mutant of Stopped: the rows are given the state of the job.              *)
StoppedAlike(j, state) ==
  [jobs[j] EXCEPT
    !.state = state,
    !.rows = [i \in DOMAIN @ |->
      IF @[i].state = "pending" THEN [@[i] EXCEPT !.state = state] ELSE @[i]]]

(* The job with its pending rows cancelled.                                 *)
Stopped(j, state) ==
  [jobs[j] EXCEPT
    !.state = state,
    !.rows = [i \in DOMAIN @ |->
      IF @[i].state = "pending" THEN [@[i] EXCEPT !.state = "cancelled"] ELSE @[i]]]

Pending(j) ==
  {<<j, i>> : i \in {k \in DOMAIN jobs[j].rows : jobs[j].rows[k].state = "pending"}}

Cancel(j) ==
  /\ Held(j)
  /\ jobs[j].state \notin Terminal
  /\ jobs' = [jobs EXCEPT ![j] = Stopped(j, "cancelled")]
  /\ withdrawn' = withdrawn \cup Pending(j)
  /\ UNCHANGED <<task, cursor, surroundings, tried, outside>>

(* decide, by another administrator than the one who asked.  A refusal      *)
(* cancels every row, whatever has become of it.                            *)
Undecided(j) ==
  /\ jobs[j].state = "awaiting_approval"
  /\ jobs[j].consent = "none"
  /\ j \notin elapsed

Approve(j) ==
  /\ Undecided(j)
  /\ jobs' = [jobs EXCEPT ![j].state = "queued", ![j].consent = "approved"]
  /\ UNCHANGED <<task, cursor, surroundings, tried, withdrawn, outside>>

Reject(j) ==
  /\ Undecided(j)
  /\ jobs' = [jobs EXCEPT
       ![j].state = "rejected",
       ![j].consent = "refused",
       ![j].rows = [i \in DOMAIN @ |-> [@[i] EXCEPT !.state = "cancelled"]]]
  /\ withdrawn' = withdrawn \cup Pending(j)
  /\ UNCHANGED <<task, cursor, surroundings, tried, outside>>
-----------------------------------------------------------------------------
(* The run begins, as long as the previous one has ended.                   *)
Tick ==
  /\ ~Active
  /\ task' = [Idle EXCEPT !.at = "expiry", !.todo = {j \in Job : Held(j)}]
  /\ UNCHANGED <<jobs, cursor, surroundings, tried, withdrawn, outside>>

(* What ends it early: an exception outside the handler of a row.           *)
RunEnds == task' = Idle

(* A job that was forgotten meanwhile ends the run.                         *)
Forgotten ==
  /\ task.at = "expiry"
  /\ \E j \in task.todo : ~Held(j)
  /\ RunEnds
  /\ UNCHANGED <<jobs, cursor, surroundings, tried, withdrawn, outside>>

Overdue(j) == Held(j) /\ j \in elapsed /\ jobs[j].state \notin Terminal

FindOverdue ==
  /\ task.at = "expiry"
  /\ \E j \in task.todo :
       /\ Overdue(j)
       /\ task' = [task EXCEPT !.at = "expire", !.row = <<j, 1>>,
                               !.todo = @ \ {j}]
  /\ UNCHANGED <<jobs, cursor, surroundings, tried, withdrawn, outside>>

(* The commit finds the job as others have left it since.                   *)
Expire ==
  LET j == task.row[1]
  IN /\ task.at = "expire"
     /\ IF Held(j)
          THEN /\ jobs' = [jobs EXCEPT ![j] = Stopped(j, "expired")]
               /\ withdrawn' = withdrawn \cup Pending(j)
               /\ task' = [task EXCEPT !.at = "expiry", !.row = Idle.row]
          ELSE /\ RunEnds
               /\ UNCHANGED <<jobs, withdrawn>>
     /\ UNCHANGED <<cursor, surroundings, tried, outside>>

(* The rows of all jobs, in the order they were enqueued.                   *)
Rows == UNION {{<<j, i>> : i \in DOMAIN jobs[j].rows} : j \in {k \in Job : Held(k)}}

InOrder(work) ==
  \A m, n \in DOMAIN work :
    m < n => \/ work[m][1] < work[n][1]
             \/ work[m][1] = work[n][1] /\ work[m][2] < work[n][2]

ListWork ==
  /\ task.at = "expiry"
  /\ \A j \in task.todo : Held(j) /\ ~Overdue(j)
  /\ \E work \in [1..Cardinality(Rows) -> Rows] :
       /\ InOrder(work)
       /\ task' = [task EXCEPT !.at = "pick", !.todo = {}, !.work = work,
                               !.start = cursor]
  /\ UNCHANGED <<jobs, cursor, surroundings, tried, withdrawn, outside>>

(* Mutant of Interrupted: an open intent is taken for a row to write.       *)
NeverInterrupted(r) == FALSE

(* The process or the request ended after the intent was stored.            *)
Interrupted(r) == RowOf(r).state = "writing"

Eligible(r) ==
  \/ RowOf(r).state = "writing"
  \/ jobs[r[1]].state = "queued" /\ RowOf(r).state = "pending"

At(offset) == ((task.start + offset) % Len(task.work)) + 1

(* Mutant of After: every run begins with the same row.                     *)
AfterNone(offset) == cursor

(* The position behind, where the next run begins.                          *)
After(offset) == At(offset) % Len(task.work)

(* Where the loop over the rows stops next.                                 *)
Stops ==
  {o \in task.offset..(Len(task.work) - 1) :
     LET r == task.work[At(o)] IN Held(r[1]) => Eligible(r)}

Pick ==
  /\ task.at = "pick"
  /\ \/ /\ Stops = {}
        /\ RunEnds
        /\ UNCHANGED cursor
     \/ \E o \in Stops :
          LET r == task.work[At(o)]
          IN /\ \A p \in Stops : o <= p
             /\ IF Held(r[1]) /\ task.used < RowBudget
                  THEN /\ cursor' = After(o)
                       /\ task' = [task EXCEPT
                            !.at = "guard", !.offset = o + 1, !.used = @ + 1,
                            !.row = r, !.recovery = Interrupted(r)]
                  ELSE /\ RunEnds
                       /\ UNCHANGED cursor
  /\ UNCHANGED <<jobs, surroundings, tried, withdrawn, outside>>
-----------------------------------------------------------------------------
(* The handler of a row's exceptions.  Before the write was begun the row    *)
(* waits or fails, afterwards its intent stays open; a recovery that fails  *)
(* leaves the outcome unknown.                                              *)
Raise(result) ==
  task' = [task EXCEPT
    !.at = "report",
    !.result = IF task.recovery THEN "uncertain"
               ELSE IF task.at = "send" THEN "writing"
               ELSE IF task.at = "record" /\ task.result = "verified"
                 THEN "writing"
               ELSE result]

(* What the guard of maintenance_api.py finds.  A recovery needs only the   *)
(* station; a write needs the consent of another administrator where the    *)
(* job, or the policy meanwhile, asks for it.                               *)
Approved(j) == jobs[j].consent = "approved"

Verdict ==
  LET j == task.row[1]
  IN IF RowOf(task.row).station \in away THEN "pending"
     ELSE IF task.recovery THEN "pass"
     ELSE IF j \in elapsed THEN "failed"
     ELSE IF (jobs[j].dual \/ policy) /\ ~Approved(j) THEN "wait"
     ELSE "pass"

Guards == {"guard", "recheck", "last"}

Following ==
  CASE task.at = "guard" -> "read"
    [] task.at = "recheck" -> "intent"
    [] task.at = "last" -> "send"

Guard ==
  /\ task.at \in Guards
  /\ IF Verdict = "pass" THEN task' = [task EXCEPT !.at = Following]
                         ELSE Raise(Verdict)
  /\ tried' = IF Verdict = "pass" /\ task.at = "last"
              THEN tried \cup {task.row} ELSE tried
  /\ UNCHANGED <<jobs, cursor, surroundings, withdrawn, outside>>

(* The station is busy or was exchanged, the requester or the approver is   *)
(* no administrator any more, the window has moved.                         *)
GuardFails ==
  /\ Outside
  /\ task.at \in Guards
  /\ \/ Raise("pending")
     \/ Raise("failed")
     \/ Approved(task.row[1]) /\ Raise("wait")
  /\ UNCHANGED <<jobs, cursor, surroundings, tried, withdrawn>>

Go(at) == task' = [task EXCEPT !.at = at]

NextRow ==
  task' = [task EXCEPT !.at = "pick", !.row = Idle.row, !.recovery = FALSE,
                       !.result = Idle.result]

Conclude(result) == task' = [task EXCEPT !.at = "record", !.result = result]

(* The station is read.  A recovery compares; a write goes on if the job    *)
(* still wants it and the station still holds what was reviewed.            *)
Read ==
  LET r == task.row
      row == RowOf(r)
  IN /\ task.at = "read"
     /\ IF row.station \in away THEN Raise("pending")
        ELSE IF task.recovery
          THEN Conclude(IF device[row.station] = row.desired
                        THEN "verified" ELSE "uncertain")
        ELSE IF ~Held(r[1]) THEN Raise("failed")
        ELSE IF jobs[r[1]].state # "queued" \/ row.state # "pending"
          THEN NextRow
        ELSE IF device[row.station] # row.expected THEN Raise("failed")
        ELSE Go("recheck")
     /\ UNCHANGED <<jobs, cursor, surroundings, tried, withdrawn, outside>>

ReadFails ==
  /\ Outside
  /\ task.at = "read"
  /\ Raise("pending") \/ Raise("failed")
  /\ UNCHANGED <<jobs, cursor, surroundings, tried, withdrawn>>
-----------------------------------------------------------------------------
(* _row: the state of a row, and of its job when this was the last one.     *)
Noted(r, state) ==
  LET rows == [jobs[r[1]].rows EXCEPT ![r[2]].state = state]
      done == \A i \in DOMAIN rows : rows[i].state \notin {"pending", "writing"}
      good == \A i \in DOMAIN rows : rows[i].state = "verified"
  IN [jobs EXCEPT ![r[1]].rows = rows,
                  ![r[1]].state = IF @ = "queued" /\ done
                    THEN IF good THEN "verified" ELSE "completed_with_errors"
                    ELSE @]

(* Mutant of AfterIntent: the job is not asked again after the intent.      *)
AfterIntentUnasked(j) == Go("last")

(* The job may have been stopped while the intent was being stored.         *)
AfterIntent(j) ==
  IF jobs[j].state # "queued" THEN Conclude("cancelled") ELSE Go("last")

StoreIntent ==
  /\ task.at = "intent"
  /\ IF Held(task.row[1])
       THEN /\ jobs' = Noted(task.row, "writing")
            /\ AfterIntent(task.row[1])
       ELSE /\ Raise("failed")
            /\ UNCHANGED jobs
  /\ UNCHANGED <<cursor, surroundings, tried, withdrawn, outside>>

(* update_door compares once more, writes and reads back.                   *)
Send ==
  LET row == RowOf(task.row)
  IN /\ task.at = "send"
     /\ IF row.station \in away \/ device[row.station] # row.expected
          THEN /\ Raise("writing")
               /\ UNCHANGED device
          ELSE /\ device' = [device EXCEPT ![row.station] = row.desired]
               /\ Conclude("verified")
     /\ UNCHANGED <<jobs, cursor, away, policy, elapsed, tried, withdrawn, outside>>

(* The request fails, with or without effect.                               *)
SendFails ==
  LET row == RowOf(task.row)
  IN /\ Outside
     /\ task.at = "send"
     /\ Raise("writing")
     /\ \/ UNCHANGED device
        \/ /\ device[row.station] = row.expected
           /\ device' = [device EXCEPT ![row.station] = row.desired]
     /\ UNCHANGED <<jobs, cursor, away, policy, elapsed, tried, withdrawn>>

(* A missing approval sends the job back to be decided.                     *)
Waiting(r) ==
  IF jobs[r[1]].state = "queued"
    THEN [jobs EXCEPT ![r[1]].state = "awaiting_approval",
                      ![r[1]].rows[r[2]].state = "pending"]
    ELSE jobs

(* What was found out about the row is stored, whatever it says by now.     *)
Record ==
  /\ task.at \in {"record", "report"}
  /\ IF Held(task.row[1])
       THEN /\ jobs' = IF task.result = "wait" THEN Waiting(task.row)
                       ELSE Noted(task.row, task.result)
            /\ NextRow
       ELSE /\ RunEnds
            /\ UNCHANGED jobs
  /\ UNCHANGED <<cursor, surroundings, tried, withdrawn, outside>>

(* The save fails and nothing is published.  In the handler itself this     *)
(* ends the run.                                                            *)
SaveFails ==
  /\ Outside
  /\ \/ task.at = "intent" /\ Raise("failed")
     \/ task.at = "record" /\ Raise("failed")
     \/ task.at \in {"expire", "report"} /\ RunEnds
  /\ UNCHANGED <<jobs, cursor, surroundings, tried, withdrawn>>
-----------------------------------------------------------------------------
(* Home Assistant stops, and starts again with what is stored.              *)
Restart ==
  /\ Outside
  /\ RunEnds
  /\ cursor' = 0
  /\ UNCHANGED <<jobs, surroundings, tried, withdrawn>>

Elapse(j) ==
  /\ Outside
  /\ Held(j) /\ jobs[j].state \notin Terminal
  /\ elapsed' = elapsed \cup {j}
  /\ UNCHANGED <<jobs, task, cursor, device, away, policy, tried, withdrawn>>

(* Somebody changes the parameter by other means.                           *)
Edit(s, value) ==
  /\ Outside
  /\ device' = [device EXCEPT ![s] = value]
  /\ UNCHANGED <<jobs, task, cursor, away, policy, elapsed, tried, withdrawn>>

Load(s) ==
  /\ Outside
  /\ away' = IF s \in away THEN away \ {s} ELSE away \cup {s}
  /\ UNCHANGED <<jobs, task, cursor, device, policy, elapsed, tried, withdrawn>>

SetPolicy ==
  /\ Outside
  /\ policy' = ~policy
  /\ UNCHANGED <<jobs, task, cursor, device, away, elapsed, tried, withdrawn>>
-----------------------------------------------------------------------------
(* The steps of a run when nothing fails.                                   *)
Run ==
  \/ Forgotten
  \/ FindOverdue
  \/ Expire
  \/ ListWork
  \/ Pick
  \/ Guard
  \/ Read
  \/ StoreIntent
  \/ Send
  \/ Record

Next ==
  \/ Tick
  \/ Run
  \/ \E j \in Job : Enqueue(j, Plans[j])
  \/ \E j \in Job : Cancel(j) \/ Approve(j) \/ Reject(j) \/ Elapse(j)
  \/ GuardFails
  \/ ReadFails
  \/ SendFails
  \/ SaveFails
  \/ Restart
  \/ \E s \in Station, value \in Value : Edit(s, value)
  \/ \E s \in Station : Load(s)
  \/ SetPolicy

Spec == Init /\ [][Next]_vars

(* The timer ticks, and awaits come to an end.                              *)
FairSpec == Spec /\ WF_vars(Tick) /\ WF_vars(Run)
-----------------------------------------------------------------------------
Sending == task.at = "send"

(* A row is written at most once, whatever happened to the request, the     *)
(* save or the process: an open intent is only ever read back ("uncertain   *)
(* writes are never replayed", run()).                                      *)
NeverRepeated ==
  [][Sending' /\ ~Sending => task'.row \notin tried]_vars

(* What was begun stays on record until it is known, or known to be         *)
(* unknown: no failure, no decision and no clean-up turns the row into one  *)
(* that was not written, and the job is not forgotten before that.  A       *)
(* refusal cancels such a row (Reject), and is left out here.               *)
OutcomeOnRecord ==
  \A r \in tried :
    \/ jobs[r[1]].consent = "refused"
    \/ RowOf(r).state \in {"verified", "uncertain"}
    \/ RowOf(r).state = "writing" /\ Held(r[1])

(* A row that was pending when its job was cancelled, expired or refused is *)
(* never written, not even by a run that was at work on it.                 *)
WithdrawnNeverSent == tried \cap withdrawn = {}

(* Once everybody leaves the queue alone, every write is accounted for, and *)
(* a queued job waits for nothing but stations that are away: these do not  *)
(* keep the others from their turn.                                         *)
Settles ==
  <>[]\A j \in Job : Held(j) =>
        /\ \A i \in DOMAIN jobs[j].rows : jobs[j].rows[i].state # "writing"
        /\ jobs[j].state = "queued" =>
             /\ Pending(j) # {}
             /\ \A r \in Pending(j) : RowOf(r).station \in away
=============================================================================
