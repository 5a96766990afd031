------------------------- MODULE MaintenanceProofs -------------------------
(***************************************************************************)
(* Proofs about the door configuration jobs, for any stations, values,     *)
(* plans, capacity and budget, and any number of failures: no write is     *)
(* begun twice or after its row was withdrawn, and what was begun stays on *)
(* record.                                                                 *)
(***************************************************************************)
EXTENDS MaintenanceJobs, SequenceTheorems, FiniteSetTheorems, TLAPS

(* Rows that exist.                                                         *)
Known(r) ==
  /\ r \in Job \X Nat
  /\ jobs[r[1]].state # "unborn"
  /\ r[2] \in DOMAIN jobs[r[1]].rows

OfRow ==
  {"guard", "read", "recheck", "intent", "last", "send", "record", "report"}

Indexed ==
  /\ Active => \A k \in DOMAIN task.work : Known(task.work[k])
  /\ task.at \in OfRow => Known(task.row)
  /\ \A r \in tried : Known(r)

(* Jobs that nothing brings back to the queue.                              *)
Gone == Terminal \cup {"forgotten"}

Closed ==
  /\ \A j \in Job : jobs[j].consent = "refused" => jobs[j].state \in Gone
  /\ \A r \in withdrawn : jobs[r[1]].state \in Gone

(* A row whose write was announced.                                         *)
Recorded(r) ==
  /\ RowOf(r).state # "pending"
  /\ \/ jobs[r[1]].consent = "refused"
     \/ RowOf(r).state \in {"verified", "uncertain"}
     \/ RowOf(r).state = "writing" /\ Held(r[1])

(* What the run knows of the row it is at work on.                          *)
Staged ==
  /\ task.at \in {"guard", "read"} /\ ~task.recovery => task.row \notin tried
  /\ task.at \in {"recheck", "intent", "last"} =>
       ~task.recovery /\ task.row \notin tried
  /\ task.at = "last" =>
       task.row \notin withdrawn /\ Recorded(task.row)
  /\ task.at = "send" => ~task.recovery
  /\ task.at = "record" /\ task.row \in tried =>
       task.result = "verified" \/ task.recovery
  /\ task.at \in {"record", "report"} /\ task.row \in tried =>
       task.result \in {"writing", "verified", "uncertain"}

OnRecord == \A r \in tried : Recorded(r)

Inv ==
  /\ TypeOK
  /\ Indexed
  /\ Closed
  /\ Staged
  /\ OnRecord
  /\ WithdrawnNeverSent
-----------------------------------------------------------------------------
LEMMA OutsideType == ASSUME TypeOK, Outside PROVE outside' \in 0..MaxOutside
BY QueueAssumption DEF TypeOK, Outside

(* The rows of a job are a sequence, whatever is changed in them.           *)
LEMMA RowsType ==
  ASSUME NEW rows \in Seq(Row), NEW new,
         new = [i \in DOMAIN rows |-> new[i]],
         \A i \in DOMAIN rows : new[i] \in Row
  PROVE  new \in Seq(Row)
<1>1. DOMAIN rows = 1..Len(rows) /\ Len(rows) \in Nat
  BY LenProperties
<1>2. new \in [1..Len(rows) -> Row]
  BY <1>1
<1> QED
  BY <1>1, <1>2, SeqDef

LEMMA RowFact ==
  ASSUME TypeOK, NEW r, Known(r)
  PROVE  /\ r[1] \in Job
         /\ jobs[r[1]] \in JobRecord
         /\ jobs[r[1]].rows \in Seq(Row)
         /\ RowOf(r) \in Row
<1>1. r[1] \in Job /\ jobs[r[1]] \in JobRecord
  BY DEF Known, TypeOK
<1>2. jobs[r[1]].rows \in Seq(Row)
  BY <1>1 DEF JobRecord
<1>3. RowOf(r) \in Row
  BY <1>2, ElementOfSeq, LenProperties DEF Known, RowOf
<1> QED
  BY <1>1, <1>2, <1>3

(* What stopping a job does to it.                                          *)
LEMMA StoppedFacts ==
  ASSUME TypeOK, NEW j \in Job, NEW state \in Terminal
  PROVE  LET s == Stopped(j, state)
         IN  /\ s \in JobRecord
             /\ s.state = state
             /\ s.consent = jobs[j].consent
             /\ DOMAIN s.rows = DOMAIN jobs[j].rows
             /\ \A i \in DOMAIN jobs[j].rows :
                  s.rows[i].state = IF jobs[j].rows[i].state = "pending"
                                    THEN "cancelled" ELSE jobs[j].rows[i].state
<1> DEFINE rows == jobs[j].rows
           new == [i \in DOMAIN rows |->
                     IF rows[i].state = "pending"
                     THEN [rows[i] EXCEPT !.state = "cancelled"] ELSE rows[i]]
<1>1. jobs[j] \in JobRecord /\ rows \in Seq(Row)
  BY DEF TypeOK, JobRecord
<1>2. Stopped(j, state) = [jobs[j] EXCEPT !.state = state, !.rows = new]
  BY <1>1 DEF Stopped, JobRecord
<1>3. \A i \in DOMAIN rows : rows[i] \in Row
  BY <1>1, ElementOfSeq, LenProperties
<1>4. \A i \in DOMAIN rows : new[i] \in Row /\ new[i].state =
        IF rows[i].state = "pending" THEN "cancelled" ELSE rows[i].state
  BY <1>3 DEF Row, RowStates
<1>5. new \in Seq(Row)
  BY <1>1, <1>4, RowsType
<1>6. Stopped(j, state) \in JobRecord
  BY <1>1, <1>2, <1>5 DEF JobRecord, JobStates
<1>7. Stopped(j, state).state = state /\ Stopped(j, state).rows = new
      /\ Stopped(j, state).consent = jobs[j].consent
  BY <1>1, <1>2 DEF JobRecord
<1> HIDE DEF new
<1>8. DOMAIN new = DOMAIN rows
  BY DEF new
<1> QED
  BY <1>4, <1>6, <1>7, <1>8

(* What noting the state of a row does to its job.                          *)
LEMMA NotedFacts ==
  ASSUME TypeOK, NEW r, Known(r), NEW state \in RowStates
  PROVE  LET n == Noted(r, state)
         IN  /\ n \in [Job -> JobRecord]
             /\ \A j \in Job : j # r[1] => n[j] = jobs[j]
             /\ n[r[1]].consent = jobs[r[1]].consent
             /\ \/ n[r[1]].state = jobs[r[1]].state
                \/ /\ jobs[r[1]].state = "queued"
                   /\ n[r[1]].state \in Terminal
             /\ n[r[1]].rows = [jobs[r[1]].rows EXCEPT ![r[2]].state = state]
<1> DEFINE rows == [jobs[r[1]].rows EXCEPT ![r[2]].state = state]
<1>1. /\ r[1] \in Job
      /\ jobs[r[1]] \in JobRecord
      /\ jobs[r[1]].rows \in Seq(Row)
      /\ r[2] \in DOMAIN jobs[r[1]].rows
      /\ \A i \in DOMAIN jobs[r[1]].rows : jobs[r[1]].rows[i] \in Row
  BY RowFact, ElementOfSeq, LenProperties DEF Known
<1>2. rows \in Seq(Row)
  <2>1. rows = [i \in DOMAIN jobs[r[1]].rows |-> rows[i]]
    OBVIOUS
  <2>2. \A i \in DOMAIN jobs[r[1]].rows : rows[i] \in Row
    BY <1>1 DEF Row
  <2> HIDE DEF rows
  <2> QED
    BY <1>1, <2>1, <2>2, RowsType
<1>3. PICK new \in JobStates \cup {"unborn", "forgotten"} :
        /\ Noted(r, state) = [jobs EXCEPT ![r[1]].rows = rows, ![r[1]].state = new]
        /\ \/ new = jobs[r[1]].state
           \/ jobs[r[1]].state = "queued" /\ new \in Terminal
  <2> DEFINE done == \A i \in DOMAIN rows : rows[i].state \notin {"pending", "writing"}
             good == \A i \in DOMAIN rows : rows[i].state = "verified"
             outcome == IF jobs[r[1]].state = "queued" /\ done
                        THEN IF good THEN "verified" ELSE "completed_with_errors"
                        ELSE jobs[r[1]].state
  <2>1. Noted(r, state) = [jobs EXCEPT ![r[1]].rows = rows, ![r[1]].state = outcome]
    BY <1>1 DEF Noted, TypeOK, JobRecord
  <2> HIDE DEF done, good
  <2>2. /\ outcome \in JobStates \cup {"unborn", "forgotten"}
        /\ \/ outcome = jobs[r[1]].state
           \/ jobs[r[1]].state = "queued" /\ outcome \in Terminal
    BY <1>1 DEF JobRecord, JobStates, Terminal
  <2> HIDE DEF outcome
  <2> QED
    BY <2>1, <2>2
<1> DEFINE job == [jobs[r[1]] EXCEPT !.rows = rows, !.state = new]
<1> HIDE DEF rows
<1>4. job \in JobRecord /\ job.consent = jobs[r[1]].consent
      /\ job.rows = rows /\ job.state = new
  BY <1>1, <1>2 DEF JobRecord
<1>5. Noted(r, state) = [jobs EXCEPT ![r[1]] = job]
  BY <1>1, <1>3 DEF TypeOK
<1> HIDE DEF job
<1>6. /\ Noted(r, state) \in [Job -> JobRecord]
      /\ \A j \in Job : j # r[1] => Noted(r, state)[j] = jobs[j]
      /\ Noted(r, state)[r[1]] = job
  BY <1>1, <1>4, <1>5 DEF TypeOK
<1>7. job.rows = [jobs[r[1]].rows EXCEPT ![r[2]].state = state]
  BY <1>4 DEF rows
<1>8. \/ new = jobs[r[1]].state
      \/ jobs[r[1]].state = "queued" /\ new \in Terminal
  BY <1>3
<1> QED
  BY <1>4, <1>6, <1>7, <1>8
-----------------------------------------------------------------------------
(* What every change of the queue respects.                                 *)
Steady ==
  /\ jobs' \in [Job -> JobRecord]
  /\ \A j \in Job : jobs[j].state # "unborn" =>
       /\ jobs'[j].state # "unborn"
       /\ DOMAIN jobs'[j].rows = DOMAIN jobs[j].rows
       /\ jobs[j].state \in Gone => jobs'[j].state \in Gone

LEMMA KnownSteady ==
  ASSUME Steady, NEW r, Known(r)
  PROVE  Known(r)'
BY DEF Steady, Known

LEMMA TaskKept ==
  ASSUME Inv, Steady, UNCHANGED <<task, tried>>
  PROVE  Indexed'
BY KnownSteady DEF Inv, Indexed, Active

(* Nothing but the run moves.                                               *)
LEMMA QueueKept ==
  ASSUME Inv, UNCHANGED <<jobs, tried, withdrawn>>
  PROVE  /\ Closed' /\ OnRecord' /\ WithdrawnNeverSent'
         /\ \A r : Known(r)' <=> Known(r)
         /\ \A r : RowOf(r)' = RowOf(r)
         /\ \A r : Recorded(r)' <=> Recorded(r)
<1>1. /\ \A r : Known(r)' <=> Known(r)
      /\ \A r : RowOf(r)' = RowOf(r)
      /\ \A r : Recorded(r)' <=> Recorded(r)
  BY DEF Known, RowOf, Recorded, Held
<1>2. Closed'
  BY DEF Inv, Closed
<1>3. OnRecord' /\ WithdrawnNeverSent'
  BY <1>1 DEF Inv, OnRecord, WithdrawnNeverSent
<1> QED
  BY <1>1, <1>2, <1>3

(* The surroundings move.                                                   *)
LEMMA NothingSeen ==
  ASSUME Inv, UNCHANGED <<jobs, task, tried, withdrawn>>
  PROVE  Indexed' /\ Staged'
<1>1. Indexed'
  BY QueueKept DEF Inv, Indexed, Active
<1>2. Staged'
  BY QueueKept DEF Inv, Staged
<1> QED
  BY <1>1, <1>2

(* The run ends, or comes back to look for a row.                           *)
LEMMA RowLeft ==
  ASSUME Inv, Steady, UNCHANGED tried,
         task'.at \in {"idle", "expiry", "expire", "pick"},
         task'.at # "idle" => task'.work = task.work /\ Active
  PROVE  Indexed' /\ Staged'
<1>1. Indexed'
  BY KnownSteady DEF Inv, Indexed, OfRow, Active
<1>2. Staged'
  BY DEF Staged
<1> QED
  BY <1>1, <1>2

(* A failure never makes a row look unwritten that was written.             *)
LEMMA RaiseFacts ==
  ASSUME Inv, UNCHANGED <<jobs, tried, withdrawn>>,
         task.at \in OfRow \ {"report"},
         NEW result \in {"pending", "failed", "wait", "writing"}, Raise(result)
  PROVE  task' \in Task /\ Indexed' /\ Staged'
<1> DEFINE final == IF task.recovery THEN "uncertain"
                    ELSE IF task.at = "send" THEN "writing"
                    ELSE IF task.at = "record" /\ task.result = "verified"
                      THEN "writing"
                    ELSE result
<1>1. task \in Task
  BY DEF Inv, TypeOK, Active, OfRow
<1>2. task' = [task EXCEPT !.at = "report", !.result = final]
  BY DEF Raise
<1>3. final \in RowStates \cup {"wait"}
  BY DEF RowStates
<1>4. task.row \in tried => final \in {"writing", "verified", "uncertain"}
  BY DEF Inv, Staged, OfRow
<1> HIDE DEF final
<1>5. /\ task' \in Task
      /\ task'.at = "report" /\ task'.row = task.row
      /\ task'.work = task.work /\ task'.result = final
  BY <1>1, <1>2, <1>3 DEF Task, Phases
<1>6. Indexed'
  BY <1>5, QueueKept DEF Inv, Indexed, Active, OfRow
<1>7. Staged'
  BY <1>4, <1>5 DEF Staged
<1> QED
  BY <1>5, <1>6, <1>7

(* A job is stopped: cancelled, refused or expired.                         *)
Stopping(j, job) ==
  /\ Held(j)
  /\ jobs' = [jobs EXCEPT ![j] = job]
  /\ job \in JobRecord
  /\ job.state \in Terminal
  /\ DOMAIN job.rows = DOMAIN jobs[j].rows
  /\ \A i \in DOMAIN job.rows :
       /\ job.rows[i].state # "pending"
       /\ \/ job.rows[i].state = jobs[j].rows[i].state
          \/ jobs[j].rows[i].state = "pending"
          \/ job.consent = "refused"
  /\ jobs[j].consent = "refused" => job.consent = "refused"
  /\ withdrawn' = withdrawn \cup Pending(j)
  /\ tried' = tried

LEMMA StopFacts ==
  ASSUME Inv, NEW j \in Job, NEW job, Stopping(j, job)
  PROVE  /\ Steady /\ Closed' /\ OnRecord' /\ WithdrawnNeverSent'
         /\ \A r : Known(r) /\ Recorded(r) =>
              Recorded(r)' /\ (r \in withdrawn' => r \in withdrawn)
<1>1. jobs \in [Job -> JobRecord] /\ withdrawn \subseteq Job \X Nat
  BY DEF Inv, TypeOK
<1>2. jobs'[j] = job /\ \A k \in Job : k # j => jobs'[k] = jobs[k]
  BY <1>1 DEF Stopping
<1>3. Steady
  BY <1>1, <1>2 DEF Stopping, Steady, Gone, Held, JobStates, Terminal
<1>4. \A r \in Pending(j) : r[1] = j /\ r[2] \in DOMAIN jobs[j].rows
                             /\ RowOf(r).state = "pending"
  BY DEF Pending, RowOf
<1>5. Closed'
  <2>1. \A k \in Job : jobs'[k].consent = "refused" => jobs'[k].state \in Gone
    BY <1>2 DEF Inv, Closed, Stopping, Gone
  <2>2. \A r \in withdrawn' : jobs'[r[1]].state \in Gone
    BY <1>1, <1>2, <1>4 DEF Inv, Closed, Stopping, Gone
  <2> QED
    BY <2>1, <2>2 DEF Closed
<1>6. ASSUME NEW r, Known(r)
      PROVE  /\ r[1] # j => RowOf(r)' = RowOf(r)
             /\ r[1] = j => RowOf(r)' = job.rows[r[2]] /\ r[2] \in DOMAIN job.rows
  BY <1>2, <1>6 DEF Known, RowOf, Stopping
<1>7. ASSUME NEW r, Known(r), Recorded(r)
      PROVE  Recorded(r)'
  <2>1. /\ RowOf(r)'.state # "pending"
        /\ \/ RowOf(r)'.state = RowOf(r).state
           \/ jobs'[r[1]].consent = "refused"
    <3>1. CASE r[1] # j
      BY <1>6, <1>7, <3>1 DEF Recorded
    <3>2. CASE r[1] = j
      BY <1>2, <1>6, <1>7, <3>2 DEF Stopping, RowOf, Recorded
    <3> QED
      BY <3>1, <3>2
  <2>2. r[1] \in Job
    BY <1>7 DEF Known
  <2>3. Held(r[1]) => Held(r[1])'
    BY <1>2, <2>2 DEF Held, Stopping, JobStates
  <2>4. jobs[r[1]].consent = "refused" => jobs'[r[1]].consent = "refused"
    BY <1>2, <2>2 DEF Stopping
  <2> QED
    BY <1>7, <2>1, <2>3, <2>4 DEF Recorded
<1>8. OnRecord'
  BY <1>7 DEF Inv, OnRecord, Indexed, Stopping
<1>9. \A r : Recorded(r) => (r \in withdrawn' => r \in withdrawn)
  BY <1>4 DEF Recorded, Stopping
<1>10. WithdrawnNeverSent'
  BY <1>9 DEF Inv, OnRecord, WithdrawnNeverSent, Stopping
<1> QED
  BY <1>3, <1>5, <1>7, <1>8, <1>9, <1>10
-----------------------------------------------------------------------------
LEMMA IdleType == Idle \in Task
<1>1. 1 \in Job /\ <<>> \in Seq(Job \X Nat)
  BY QueueAssumption DEF Job
<1> QED
  BY <1>1 DEF Idle, Task, Phases, RowStates

LEMMA Initially == Init => Inv
<1> SUFFICES ASSUME Init PROVE Inv
  OBVIOUS
<1>1. jobs \in [Job -> JobRecord]
  <2>1. <<>> \in Seq(Row)
    OBVIOUS
  <2> QED
    BY <2>1 DEF Init, JobRecord
<1>2. TypeOK
  BY <1>1, QueueAssumption DEF Init, TypeOK, Active, Idle
<1>3. \A j \in Job : jobs[j].consent = "none"
  BY DEF Init
<1> QED
  BY <1>2, <1>3 DEF Init, Inv, Indexed, Closed, Staged, OnRecord, Idle,
     WithdrawnNeverSent, Active, OfRow

(* There are finitely many rows, and each exists.                           *)
LEMMA RowsFinite ==
  ASSUME TypeOK
  PROVE  /\ Cardinality(Rows) \in Nat
         /\ \A r \in Rows : Known(r)
<1> DEFINE span == [j \in Job |-> DOMAIN jobs[j].rows]
           Spans == {span[j] : j \in Job}
<1>1. IsFiniteSet(Job)
  BY QueueAssumption, FS_Interval DEF Job
<1>2. \A j \in Job : jobs[j].rows \in Seq(Row)
  BY DEF TypeOK, JobRecord
<1>3. \A j \in Job : span[j] = 1..Len(jobs[j].rows) /\ Len(jobs[j].rows) \in Nat
  BY <1>2, LenProperties
<1>4. \A T \in Spans : IsFiniteSet(T)
  BY <1>3, FS_Interval
<1>5. IsFiniteSet(Spans)
  <2>1. span \in Surjection(Job, Spans)
    BY DEF Surjection
  <2> HIDE DEF span, Spans
  <2> QED
    BY <1>1, <2>1, FS_Surjection
<1>6. IsFiniteSet(UNION Spans)
  <2> HIDE DEF Spans
  <2> QED
    BY <1>4, <1>5, FS_UNION
<1>7. Rows \subseteq Job \X UNION Spans
  BY DEF Rows
<1>8. IsFiniteSet(Rows)
  <2> HIDE DEF Spans
  <2> QED
    BY <1>1, <1>6, <1>7, FS_Product, FS_Subset
<1>9. Cardinality(Rows) \in Nat
  BY <1>8, FS_CardinalityType
<1>10. \A r \in Rows : Known(r)
  BY <1>3 DEF Rows, Known, Held, JobStates, Terminal
<1> QED
  BY <1>9, <1>10

LEMMA Ticking == ASSUME Inv, Tick PROVE Inv'
<1>1. task' \in Task /\ task'.at = "expiry" /\ task'.work = <<>>
  BY IdleType DEF Tick, Task, Phases, Idle
<1>2. TypeOK'
  BY <1>1 DEF Inv, TypeOK, Tick, surroundings
<1>3. UNCHANGED <<jobs, tried, withdrawn>>
  BY DEF Tick
<1>4. Indexed'
  BY <1>1, <1>3, QueueKept DEF Inv, Indexed, OfRow
<1>5. Staged'
  BY <1>1 DEF Staged
<1> QED
  BY <1>2, <1>3, <1>4, <1>5, QueueKept DEF Inv

(* The steps of the run before it picks a row.                              *)
LEMMA Searching ==
  ASSUME Inv, Forgotten \/ FindOverdue \/ ListWork
  PROVE  Inv'
<1>1. UNCHANGED <<jobs, tried, withdrawn, cursor, surroundings, outside>>
  BY DEF Forgotten, FindOverdue, ListWork
<1>2. task.at = "expiry" /\ task \in Task
  BY DEF Inv, TypeOK, Active, Forgotten, FindOverdue, ListWork
<1>3. Steady
  BY <1>1 DEF Inv, TypeOK, Steady
<1>4. CASE Forgotten
  <2>1. ~Active'  /\ task'.at = "idle"
    BY <1>4 DEF Forgotten, RunEnds, Idle, Active
  <2>2. TypeOK'
    BY <1>1, <2>1 DEF Inv, TypeOK, surroundings
  <2>3. Indexed' /\ Staged'
    BY <1>1, <1>3, <2>1, RowLeft
  <2> QED
    BY <1>1, <2>2, <2>3, QueueKept DEF Inv
<1>5. CASE FindOverdue
  <2>1. PICK j \in task.todo :
          task' = [task EXCEPT !.at = "expire", !.row = <<j, 1>>, !.todo = @ \ {j}]
    BY <1>5 DEF FindOverdue
  <2>2. task' \in Task /\ task'.at = "expire" /\ task'.work = task.work
    BY <1>2, <2>1 DEF Task, Phases
  <2>3. TypeOK'
    BY <1>1, <2>2 DEF Inv, TypeOK, surroundings
  <2>4. Indexed' /\ Staged'
    BY <1>1, <1>2, <1>3, <2>2, RowLeft DEF Active
  <2> QED
    BY <1>1, <2>3, <2>4, QueueKept DEF Inv
<1>6. CASE ListWork
  <2>1. PICK work \in [1..Cardinality(Rows) -> Rows] :
          task' = [task EXCEPT !.at = "pick", !.todo = {}, !.work = work,
                               !.start = cursor]
    BY <1>6 DEF ListWork
  <2>2. /\ Cardinality(Rows) \in Nat
        /\ \A r \in Rows : Known(r) /\ r \in Job \X Nat
    BY RowsFinite DEF Inv, Known
  <2>3. work \in Seq(Job \X Nat)
    <3>1. work \in [1..Cardinality(Rows) -> Job \X Nat]
      BY <2>2
    <3> QED
      BY <2>2, <3>1, SeqDef
  <2>4. /\ task' \in Task
        /\ task'.at = "pick" /\ task'.work = work
    BY <1>2, <2>1, <2>3 DEF Inv, TypeOK, Task, Phases
  <2>5. TypeOK'
    BY <1>1, <2>4 DEF Inv, TypeOK, surroundings
  <2>6. Indexed'
    <3>1. \A k \in DOMAIN work : Known(work[k])
      BY <2>2
    <3> QED
      BY <1>1, <2>4, <3>1, QueueKept DEF Inv, Indexed, OfRow
  <2>7. Staged'
    BY <2>4 DEF Staged
  <2> QED
    BY <1>1, <2>5, <2>6, <2>7, QueueKept DEF Inv
<1> QED
  BY <1>4, <1>5, <1>6

(* A row that is picked for a write was never written.                      *)
LEMMA Picking == ASSUME Inv, Pick PROVE Inv'
<1>1. UNCHANGED <<jobs, tried, withdrawn, surroundings, outside>>
  BY DEF Pick
<1>2. task.at = "pick" /\ task \in Task /\ Active
  BY DEF Inv, TypeOK, Active, Pick
<1>3. Steady
  BY <1>1 DEF Inv, TypeOK, Steady
<1>4. CASE RunEnds /\ UNCHANGED cursor
  <2>1. ~Active'  /\ task'.at = "idle"
    BY <1>4 DEF RunEnds, Idle, Active
  <2>2. TypeOK'
    BY <1>1, <1>4, <2>1 DEF Inv, TypeOK, surroundings
  <2>3. Indexed' /\ Staged'
    BY <1>1, <1>3, <2>1, RowLeft
  <2> QED
    BY <1>1, <2>2, <2>3, QueueKept DEF Inv
<1>5. ASSUME NEW o \in Stops, NEW r, r = task.work[At(o)], Held(r[1]),
             cursor' = After(o),
             task' = [task EXCEPT
               !.at = "guard", !.offset = o + 1, !.used = @ + 1,
               !.row = r, !.recovery = Interrupted(r)]
      PROVE  Inv'
  <2>1. /\ Len(task.work) \in Nat \ {0}
        /\ DOMAIN task.work = 1..Len(task.work)
        /\ o \in Nat
    <3>1. task.work \in Seq(Job \X Nat) /\ task.offset \in Nat
      BY <1>2 DEF Task
    <3>2. Len(task.work) \in Nat /\ DOMAIN task.work = 1..Len(task.work)
      BY <3>1, LenProperties
    <3>3. o \in task.offset..(Len(task.work) - 1)
      BY <1>5 DEF Stops
    <3> QED
      BY <3>1, <3>2, <3>3
  <2>2. At(o) \in DOMAIN task.work /\ At(o) \in Nat
    <3>1. task.start + o \in Nat
      BY <1>2, <2>1 DEF Task
    <3>2. (task.start + o) % Len(task.work) \in 0..(Len(task.work) - 1)
      BY <2>1, <3>1
    <3> QED
      BY <2>1, <3>2 DEF At
  <2>3. Known(r)
    BY <1>2, <1>5, <2>2 DEF Inv, Indexed
  <2>4. cursor' \in Nat
    BY <1>5, <2>1, <2>2 DEF After
  <2>5. /\ task' \in Task
        /\ task'.at = "guard" /\ task'.row = r /\ task'.work = task.work
        /\ task'.recovery = Interrupted(r)
    <3>1. r \in Job \X Nat /\ Interrupted(r) \in BOOLEAN /\ o + 1 \in Nat
      BY <2>1, <2>3 DEF Known, Interrupted
    <3>2. task.used + 1 \in Nat
      BY <1>2 DEF Task
    <3> HIDE DEF Interrupted
    <3> QED
      BY <1>2, <1>5, <3>1, <3>2 DEF Task, Phases
  <2>6. TypeOK'
    BY <1>1, <2>4, <2>5 DEF Inv, TypeOK, surroundings
  <2>7. Indexed'
    BY <1>1, <1>2, <2>3, <2>5, QueueKept DEF Inv, Indexed, Active
  <2>8. Eligible(r)
    BY <1>5 DEF Stops
  <2>9. ~task'.recovery => r \notin tried
    BY <2>5, <2>8 DEF Inv, OnRecord, Recorded, Eligible, Interrupted
  <2>10. Staged'
    BY <1>1, <2>5, <2>9 DEF Staged
  <2> QED
    BY <1>1, <2>6, <2>7, <2>10, QueueKept DEF Inv
<1> QED
  BY <1>4, <1>5 DEF Pick
-----------------------------------------------------------------------------
(* A failure at a row.                                                      *)
LEMMA Raising ==
  ASSUME Inv, UNCHANGED <<jobs, tried, withdrawn, cursor, away, policy, elapsed>>,
         device' \in [Station -> Value], outside' \in 0..MaxOutside,
         task.at \in OfRow \ {"report"},
         NEW result \in {"pending", "failed", "wait", "writing"}, Raise(result)
  PROVE  Inv'
<1>1. task' \in Task /\ Indexed' /\ Staged'
  BY RaiseFacts
<1>2. TypeOK'
  BY <1>1 DEF Inv, TypeOK
<1> QED
  BY <1>1, <1>2, QueueKept DEF Inv

(* The write is begun after the last of three guards: by then its row is    *)
(* announced, was never written, and is not withdrawn.                      *)
LEMMA Guarding == ASSUME Inv, Guard PROVE Inv'
<1>1. /\ UNCHANGED <<jobs, cursor, surroundings, withdrawn, outside>>
      /\ task.at \in Guards /\ task \in Task /\ Active
  BY DEF Guard, Guards, Inv, TypeOK, Active
<1>2. CASE Verdict # "pass"
  <2>1. Raise(Verdict) /\ tried' = tried
    BY <1>2 DEF Guard
  <2>2. Verdict \in {"pending", "failed", "wait", "writing"}
    BY <1>2 DEF Verdict
  <2>3. device' \in [Station -> Value] /\ outside' \in 0..MaxOutside
    BY <1>1 DEF Inv, TypeOK, surroundings
  <2> HIDE DEF Verdict
  <2> QED
    BY <1>1, <2>1, <2>2, <2>3, Raising DEF Guards, OfRow, surroundings
<1>3. CASE Verdict = "pass" /\ task.at \in {"guard", "recheck"}
  <2>1. tried' = tried /\ task' = [task EXCEPT !.at = Following]
    BY <1>3 DEF Guard
  <2>2. Following = IF task.at = "guard" THEN "read" ELSE "intent"
    BY <1>3 DEF Following
  <2>3. /\ task' \in Task /\ task'.at = Following
        /\ task'.row = task.row /\ task'.work = task.work
        /\ task'.recovery = task.recovery
    BY <1>1, <2>1, <2>2 DEF Task, Phases
  <2>4. TypeOK'
    BY <1>1, <2>1, <2>3 DEF Inv, TypeOK, surroundings
  <2>5. Indexed'
    BY <1>1, <1>3, <2>1, <2>3, QueueKept DEF Inv, Indexed, OfRow
  <2>6. Staged'
    BY <1>3, <2>1, <2>2, <2>3 DEF Inv, Staged
  <2> QED
    BY <1>1, <2>1, <2>4, <2>5, <2>6, QueueKept DEF Inv
<1>4. CASE Verdict = "pass" /\ task.at = "last"
  <2>1. /\ tried' = tried \cup {task.row}
        /\ task' = [task EXCEPT !.at = "send"]
    BY <1>4 DEF Guard, Following
  <2>2. /\ task' \in Task /\ task'.at = "send"
        /\ task'.row = task.row /\ task'.work = task.work
        /\ task'.recovery = task.recovery
    BY <1>1, <2>1 DEF Task, Phases
  <2>3. /\ Known(task.row) /\ ~task.recovery
        /\ task.row \notin withdrawn /\ Recorded(task.row)
    BY <1>4 DEF Inv, Indexed, Staged, OfRow
  <2>4. TypeOK'
    BY <1>1, <2>1, <2>2, <2>3 DEF Inv, TypeOK, surroundings, Known
  <2>5. \A r : (Known(r)' <=> Known(r)) /\ (Recorded(r)' <=> Recorded(r))
    BY <1>1 DEF Known, RowOf, Recorded, Held
  <2>6. Indexed'
    BY <1>1, <2>1, <2>2, <2>3, <2>5 DEF Inv, Indexed
  <2>7. Closed' /\ Staged'
    BY <1>1, <2>2, <2>3 DEF Inv, Closed, Staged
  <2>8. OnRecord' /\ WithdrawnNeverSent'
    BY <1>1, <2>1, <2>3, <2>5 DEF Inv, OnRecord, WithdrawnNeverSent
  <2> QED
    BY <2>4, <2>6, <2>7, <2>8 DEF Inv
<1> QED
  BY <1>1, <1>2, <1>3, <1>4 DEF Guards

LEMMA Failing == ASSUME Inv, GuardFails \/ ReadFails \/ SendFails PROVE Inv'
<1>1. UNCHANGED <<jobs, tried, withdrawn, cursor, away, policy, elapsed>>
  BY DEF GuardFails, ReadFails, SendFails, surroundings
<1>2. outside' \in 0..MaxOutside
  BY OutsideType DEF GuardFails, ReadFails, SendFails, Inv
<1>3. task.at \in OfRow \ {"report"}
  BY DEF GuardFails, ReadFails, SendFails, Guards, OfRow
<1>4. device' \in [Station -> Value]
  <2>1. CASE GuardFails \/ ReadFails
    BY <2>1 DEF GuardFails, ReadFails, surroundings, Inv, TypeOK
  <2>2. CASE SendFails
    <3>1. RowOf(task.row).desired \in Value
      BY <1>3, RowFact DEF Inv, Indexed, Row
    <3> QED
      BY <2>2, <3>1 DEF SendFails, Inv, TypeOK
  <2> QED
    BY <2>1, <2>2
<1>5. \E result \in {"pending", "failed", "wait", "writing"} : Raise(result)
  BY DEF GuardFails, ReadFails, SendFails
<1> QED
  BY <1>1, <1>2, <1>3, <1>4, <1>5, Raising

LEMMA NextRowFacts ==
  ASSUME Inv, NextRow, task.at \in OfRow
  PROVE  task' \in Task /\ task'.at = "pick" /\ task'.work = task.work
<1>1. task \in Task
  BY DEF Inv, TypeOK, Active, OfRow
<1>2. Idle.row \in Job \X Nat /\ Idle.result \in RowStates
  BY IdleType DEF Task, Idle, RowStates
<1> QED
  BY <1>1, <1>2 DEF NextRow, Task, Phases

LEMMA ConcludeFacts ==
  ASSUME Inv, NEW result \in RowStates, Conclude(result), task.at \in OfRow
  PROVE  /\ task' \in Task /\ task'.at = "record" /\ task'.result = result
         /\ task'.work = task.work /\ task'.row = task.row
         /\ task'.recovery = task.recovery
<1>1. task \in Task
  BY DEF Inv, TypeOK, Active, OfRow
<1> QED
  BY <1>1 DEF Conclude, Task, Phases

LEMMA Reading == ASSUME Inv, Read PROVE Inv'
<1>1. /\ UNCHANGED <<jobs, tried, withdrawn, cursor, surroundings, outside>>
      /\ task.at = "read" /\ task \in Task /\ Active
  BY DEF Read, Inv, TypeOK, Active
<1>2. Steady
  BY <1>1 DEF Inv, TypeOK, Steady
<1>3. \/ Raise("pending") \/ Raise("failed")
      \/ task.recovery /\ Conclude("verified")
      \/ task.recovery /\ Conclude("uncertain")
      \/ NextRow
      \/ ~task.recovery /\ Go("recheck")
  BY DEF Read
<1>4. CASE Raise("pending") \/ Raise("failed")
  BY <1>1, <1>4, Raising DEF Inv, TypeOK, surroundings, OfRow
<1>5. ASSUME task.recovery, NEW result \in {"verified", "uncertain"}, Conclude(result)
      PROVE  Inv'
  <2>1. /\ task' \in Task /\ task'.at = "record" /\ task'.result = result
        /\ task'.work = task.work /\ task'.row = task.row
        /\ task'.recovery
    BY <1>1, <1>5, ConcludeFacts DEF OfRow, RowStates
  <2>2. TypeOK'
    BY <1>1, <2>1 DEF Inv, TypeOK, surroundings
  <2>3. Indexed'
    BY <1>1, <2>1, QueueKept DEF Inv, Indexed, OfRow
  <2>4. Staged'
    BY <2>1 DEF Staged
  <2> QED
    BY <1>1, <2>2, <2>3, <2>4, QueueKept DEF Inv
<1>6. CASE NextRow
  <2>1. task' \in Task /\ task'.at = "pick" /\ task'.work = task.work
    BY <1>1, <1>6, NextRowFacts DEF OfRow
  <2>2. TypeOK'
    BY <1>1, <2>1 DEF Inv, TypeOK, surroundings
  <2>3. Indexed' /\ Staged'
    BY <1>1, <1>2, <2>1, RowLeft
  <2> QED
    BY <1>1, <2>2, <2>3, QueueKept DEF Inv
<1>7. CASE ~task.recovery /\ Go("recheck")
  <2>1. /\ task' \in Task /\ task'.at = "recheck"
        /\ task'.work = task.work /\ task'.row = task.row
        /\ task'.recovery = task.recovery
    BY <1>1, <1>7 DEF Go, Task, Phases
  <2>2. TypeOK'
    BY <1>1, <2>1 DEF Inv, TypeOK, surroundings
  <2>3. Indexed'
    BY <1>1, <2>1, QueueKept DEF Inv, Indexed, OfRow
  <2>4. Staged'
    BY <1>1, <1>7, <2>1 DEF Inv, Staged
  <2> QED
    BY <1>1, <2>2, <2>3, <2>4, QueueKept DEF Inv
<1> QED
  BY <1>3, <1>4, <1>5, <1>6, <1>7

(* The device holds what was asked for, and the run is about to note it.    *)
LEMMA Writing == ASSUME Inv, Send PROVE Inv'
<1>1. /\ UNCHANGED <<jobs, cursor, away, policy, elapsed, tried, withdrawn, outside>>
      /\ task.at = "send" /\ task \in Task /\ Active
  BY DEF Send, Inv, TypeOK, Active
<1>2. CASE Raise("writing") /\ UNCHANGED device
  BY <1>1, <1>2, Raising DEF Inv, TypeOK, OfRow
<1>3. CASE /\ device' = [device EXCEPT ![RowOf(task.row).station] =
                            RowOf(task.row).desired]
           /\ Conclude("verified")
  <2>1. /\ task' \in Task /\ task'.at = "record" /\ task'.result = "verified"
        /\ task'.work = task.work /\ task'.row = task.row
    BY <1>1, <1>3, ConcludeFacts DEF OfRow, RowStates
  <2>2. RowOf(task.row).desired \in Value
    BY <1>1, RowFact DEF Inv, Indexed, OfRow, Row
  <2>3. TypeOK'
    BY <1>1, <1>3, <2>1, <2>2 DEF Inv, TypeOK
  <2>4. Indexed'
    BY <1>1, <2>1, QueueKept DEF Inv, Indexed, OfRow
  <2>5. Staged'
    BY <2>1 DEF Staged
  <2> QED
    BY <1>1, <2>3, <2>4, <2>5, QueueKept DEF Inv
<1> QED
  BY <1>2, <1>3 DEF Send
-----------------------------------------------------------------------------
(* The state of a row is stored.                                            *)
LEMMA NoteFacts ==
  ASSUME Inv, NEW r, Known(r), Held(r[1]), NEW state \in RowStates,
         jobs' = Noted(r, state), UNCHANGED <<tried, withdrawn>>,
         r \in tried => state \in {"writing", "verified", "uncertain"}
  PROVE  /\ Steady /\ Closed' /\ OnRecord' /\ WithdrawnNeverSent'
         /\ state = "writing" => Recorded(r)'
<1>1. /\ jobs' \in [Job -> JobRecord]
      /\ \A j \in Job : j # r[1] => jobs'[j] = jobs[j]
      /\ jobs'[r[1]].consent = jobs[r[1]].consent
      /\ \/ jobs'[r[1]].state = jobs[r[1]].state
         \/ /\ jobs[r[1]].state = "queued"
            /\ jobs'[r[1]].state \in Terminal
      /\ jobs'[r[1]].rows = [jobs[r[1]].rows EXCEPT ![r[2]].state = state]
  BY NotedFacts DEF Inv
<1>2. r[1] \in Job /\ r[2] \in DOMAIN jobs[r[1]].rows /\ RowOf(r) \in Row
  BY RowFact DEF Inv, Known
<1>3. Steady
  BY <1>1 DEF Steady, Gone, Terminal
<1>4. Closed'
  BY <1>1, <1>2 DEF Inv, TypeOK, Closed, Gone
<1>5. RowOf(r)'.state = state
  BY <1>1, <1>2 DEF RowOf, Row
<1>6. Held(r[1])'
  BY <1>1 DEF Held, JobStates
<1>7. ASSUME NEW q \in tried
      PROVE  Recorded(q)'
  <2>1. Known(q) /\ q[1] \in Job /\ Recorded(q)
    BY DEF Inv, OnRecord, Indexed, Known
  <2>2. CASE q = r
    BY <1>5, <1>6, <2>2 DEF Recorded
  <2>3. CASE q # r
    <3>1. q[1] # r[1] \/ q[2] # r[2]
      BY <2>1, <2>3 DEF Known
    <3>2. RowOf(q)' = RowOf(q)
      BY <1>1, <1>2, <2>1, <3>1 DEF RowOf, Known
    <3>3. Held(q[1]) => Held(q[1])'
      BY <1>1, <1>6, <2>1 DEF Held
    <3>4. jobs'[q[1]].consent = jobs[q[1]].consent
      BY <1>1, <2>1
    <3> QED
      BY <2>1, <3>2, <3>3, <3>4 DEF Recorded
  <2> QED
    BY <2>2, <2>3
<1>8. OnRecord' /\ WithdrawnNeverSent'
  BY <1>7 DEF Inv, OnRecord, WithdrawnNeverSent
<1> QED
  BY <1>3, <1>4, <1>5, <1>6, <1>8 DEF Recorded

(* A queued job was not withdrawn, so that its row may be written.          *)
LEMMA Announcing == ASSUME Inv, StoreIntent PROVE Inv'
<1> SUFFICES ASSUME NEW r, r = task.row PROVE Inv'
  OBVIOUS
<1>1. /\ UNCHANGED <<cursor, surroundings, tried, withdrawn, outside>>
      /\ task.at = "intent" /\ task \in Task /\ Active
      /\ Known(r) /\ ~task.recovery /\ r \notin tried
  BY DEF StoreIntent, Inv, TypeOK, Active, Indexed, Staged, OfRow
<1>2. CASE ~Held(r[1])
  <2>1. Raise("failed") /\ UNCHANGED jobs
    BY <1>2 DEF StoreIntent
  <2> QED
    BY <1>1, <2>1, Raising DEF Inv, TypeOK, surroundings, OfRow
<1>3. CASE Held(r[1])
  <2>1. jobs' = Noted(r, "writing") /\ AfterIntent(r[1])
    BY <1>3 DEF StoreIntent
  <2>2. /\ Steady /\ Closed' /\ OnRecord' /\ WithdrawnNeverSent'
        /\ Recorded(r)'
    BY <1>1, <1>3, <2>1, NoteFacts DEF RowStates
  <2>3. CASE Conclude("cancelled")
    <3>1. /\ task' \in Task /\ task'.at = "record" /\ task'.result = "cancelled"
          /\ task'.work = task.work /\ task'.row = task.row
      BY <1>1, <2>3, ConcludeFacts DEF OfRow, RowStates
    <3>2. TypeOK'
      BY <1>1, <2>2, <3>1 DEF Inv, TypeOK, surroundings, Steady
    <3>3. Indexed'
      BY <1>1, <2>2, <3>1, KnownSteady DEF Inv, Indexed, OfRow
    <3>4. Staged'
      BY <1>1, <3>1 DEF Staged
    <3> QED
      BY <2>2, <3>2, <3>3, <3>4 DEF Inv
  <2>4. CASE jobs[r[1]].state = "queued" /\ Go("last")
    <3>1. /\ task' \in Task /\ task'.at = "last"
          /\ task'.work = task.work /\ task'.row = task.row
          /\ task'.recovery = task.recovery
      BY <1>1, <2>4 DEF Go, Task, Phases
    <3>2. TypeOK'
      BY <1>1, <2>2, <3>1 DEF Inv, TypeOK, surroundings, Steady
    <3>3. Indexed'
      BY <1>1, <2>2, <3>1, KnownSteady DEF Inv, Indexed, OfRow
    <3>4. r \notin withdrawn
      BY <2>4 DEF Inv, Closed, Gone, Terminal
    <3>5. Recorded(task.row)'
      BY <2>2, <3>1 DEF Recorded, RowOf, Held
    <3>6. Staged'
      BY <1>1, <2>2, <3>1, <3>4, <3>5 DEF Staged
    <3> QED
      BY <2>2, <3>2, <3>3, <3>6 DEF Inv
  <2> QED
    BY <2>1, <2>3, <2>4 DEF AfterIntent
<1> QED
  BY <1>2, <1>3

(* A job goes back to be approved only for rows that were never written.    *)
LEMMA WaitingFacts ==
  ASSUME Inv, NEW r, Known(r), r \notin tried,
         jobs' = Waiting(r), UNCHANGED <<tried, withdrawn>>
  PROVE  Steady /\ Closed' /\ OnRecord' /\ WithdrawnNeverSent'
<1>1. CASE jobs[r[1]].state # "queued"
  <2>1. UNCHANGED jobs
    BY <1>1 DEF Waiting
  <2> QED
    BY <2>1, QueueKept DEF Inv, TypeOK, Steady
<1>2. CASE jobs[r[1]].state = "queued"
  <2> DEFINE rows == [jobs[r[1]].rows EXCEPT ![r[2]].state = "pending"]
             job == [jobs[r[1]] EXCEPT !.state = "awaiting_approval", !.rows = rows]
  <2>1. /\ r[1] \in Job /\ jobs[r[1]] \in JobRecord
        /\ jobs[r[1]].rows \in Seq(Row) /\ r[2] \in DOMAIN jobs[r[1]].rows
        /\ \A i \in DOMAIN jobs[r[1]].rows : jobs[r[1]].rows[i] \in Row
    BY RowFact, ElementOfSeq, LenProperties DEF Inv, Known
  <2>2. rows \in Seq(Row)
    <3>1. rows = [i \in DOMAIN jobs[r[1]].rows |-> rows[i]]
      OBVIOUS
    <3>2. \A i \in DOMAIN jobs[r[1]].rows : rows[i] \in Row
      BY <2>1 DEF Row, RowStates
    <3> HIDE DEF rows
    <3> QED
      BY <2>1, <3>1, <3>2, RowsType
  <2>3. jobs' = [jobs EXCEPT ![r[1]] = job]
    BY <1>2, <2>1 DEF Waiting, Inv, TypeOK, JobRecord
  <2>4. /\ DOMAIN rows = DOMAIN jobs[r[1]].rows
        /\ \A i \in DOMAIN rows : i # r[2] => rows[i] = jobs[r[1]].rows[i]
    OBVIOUS
  <2> HIDE DEF rows
  <2>5. /\ job \in JobRecord /\ job.rows = rows
        /\ job.state = "awaiting_approval" /\ job.consent = jobs[r[1]].consent
    BY <2>1, <2>2 DEF JobRecord, JobStates
  <2> HIDE DEF job
  <2>6. /\ jobs'[r[1]] = job
        /\ \A j \in Job : j # r[1] => jobs'[j] = jobs[j]
        /\ jobs' \in [Job -> JobRecord]
    BY <2>1, <2>3, <2>5 DEF Inv, TypeOK
  <2>7. Steady
    BY <1>2, <2>4, <2>5, <2>6 DEF Steady, Gone, Terminal
  <2>8. jobs[r[1]].consent # "refused"
    BY <1>2, <2>1 DEF Inv, Closed, Gone, Terminal
  <2>9. \A q \in withdrawn : q[1] \in Job /\ q[1] # r[1]
    BY <1>2 DEF Inv, TypeOK, Closed, Gone, Terminal
  <2>10. Closed'
    BY <2>5, <2>6, <2>8, <2>9 DEF Inv, Closed
  <2>11. ASSUME NEW q \in tried
         PROVE  Recorded(q)'
    <3>1. Known(q) /\ q[1] \in Job /\ Recorded(q)
      BY DEF Inv, OnRecord, Indexed, Known
    <3>2. q[1] # r[1] \/ q[2] # r[2]
      BY <3>1 DEF Known
    <3>3. RowOf(q)' = RowOf(q)
      BY <2>4, <2>5, <2>6, <3>1, <3>2 DEF RowOf, Known
    <3>4. Held(q[1]) => Held(q[1])'
      BY <2>5, <2>6, <3>1 DEF Held, JobStates
    <3>5. jobs'[q[1]].consent = jobs[q[1]].consent
      BY <2>5, <2>6, <3>1
    <3> QED
      BY <3>1, <3>3, <3>4, <3>5 DEF Recorded
  <2>12. OnRecord' /\ WithdrawnNeverSent'
    BY <2>11 DEF Inv, OnRecord, WithdrawnNeverSent
  <2> QED
    BY <2>7, <2>10, <2>12
<1> QED
  BY <1>1, <1>2

LEMMA Recording == ASSUME Inv, Record PROVE Inv'
<1> SUFFICES ASSUME NEW r, r = task.row PROVE Inv'
  OBVIOUS
<1>1. /\ UNCHANGED <<cursor, surroundings, tried, withdrawn, outside>>
      /\ task.at \in {"record", "report"} /\ task \in Task /\ Active
      /\ Known(r)
      /\ r \in tried => task.result \in {"writing", "verified", "uncertain"}
  BY DEF Record, Inv, TypeOK, Active, Indexed, Staged, OfRow
<1>2. CASE ~Held(r[1])
  <2>1. RunEnds /\ UNCHANGED jobs
    BY <1>2 DEF Record
  <2>2. ~Active'  /\ task'.at = "idle"
    BY <2>1 DEF RunEnds, Idle, Active
  <2>3. TypeOK'
    BY <1>1, <2>1, <2>2 DEF Inv, TypeOK, surroundings
  <2>4. Steady
    BY <2>1 DEF Inv, TypeOK, Steady
  <2>5. Indexed' /\ Staged'
    BY <1>1, <2>2, <2>4, RowLeft
  <2> QED
    BY <1>1, <2>1, <2>3, <2>5, QueueKept DEF Inv
<1>3. CASE Held(r[1])
  <2>1. /\ jobs' = IF task.result = "wait" THEN Waiting(r) ELSE Noted(r, task.result)
        /\ NextRow
    BY <1>3 DEF Record
  <2>2. Steady /\ Closed' /\ OnRecord' /\ WithdrawnNeverSent'
    <3>1. CASE task.result = "wait"
      BY <1>1, <2>1, <3>1, WaitingFacts
    <3>2. CASE task.result # "wait"
      <4>1. task.result \in RowStates
        BY <1>1, <3>2 DEF Task
      <4> QED
        BY <1>1, <1>3, <2>1, <3>2, <4>1, NoteFacts
    <3> QED
      BY <3>1, <3>2
  <2>3. task' \in Task /\ task'.at = "pick" /\ task'.work = task.work
    BY <1>1, <2>1, NextRowFacts DEF OfRow
  <2>4. TypeOK'
    BY <1>1, <2>2, <2>3 DEF Inv, TypeOK, surroundings, Steady
  <2>5. Indexed' /\ Staged'
    BY <1>1, <2>2, <2>3, RowLeft
  <2> QED
    BY <2>2, <2>4, <2>5 DEF Inv
<1> QED
  BY <1>2, <1>3

(* The run ends with the process, or by a failure outside a row.            *)
LEMMA Ending ==
  ASSUME Inv, RunEnds, cursor' \in Nat, outside' \in 0..MaxOutside,
         UNCHANGED <<jobs, surroundings, tried, withdrawn>>
  PROVE  Inv'
<1>1. ~Active'  /\ task'.at = "idle"
  BY DEF RunEnds, Idle, Active
<1>2. TypeOK'
  BY <1>1 DEF Inv, TypeOK, surroundings
<1>3. Steady
  BY DEF Inv, TypeOK, Steady
<1>4. Indexed' /\ Staged'
  BY <1>1, <1>3, RowLeft
<1> QED
  BY <1>2, <1>4, QueueKept DEF Inv

LEMMA Unsaved == ASSUME Inv, SaveFails PROVE Inv'
<1>1. /\ UNCHANGED <<jobs, cursor, surroundings, tried, withdrawn>>
      /\ outside' \in 0..MaxOutside
  BY OutsideType DEF SaveFails, Inv
<1>2. CASE task.at \in {"intent", "record"} /\ Raise("failed")
  BY <1>1, <1>2, Raising DEF Inv, TypeOK, surroundings, OfRow
<1>3. CASE RunEnds
  BY <1>1, <1>3, Ending DEF Inv, TypeOK
<1> QED
  BY <1>2, <1>3 DEF SaveFails

LEMMA Restarting == ASSUME Inv, Restart PROVE Inv'
<1>1. cursor' \in Nat /\ outside' \in 0..MaxOutside
  BY OutsideType DEF Restart, Inv
<1> QED
  BY <1>1, Ending DEF Restart

LEMMA Surrounding ==
  ASSUME Inv,
         \/ \E j \in Job : Elapse(j)
         \/ \E s \in Station, value \in Value : Edit(s, value)
         \/ \E s \in Station : Load(s)
         \/ SetPolicy
  PROVE  Inv'
<1>1. /\ UNCHANGED <<jobs, task, cursor, tried, withdrawn>>
      /\ outside' \in 0..MaxOutside
  BY OutsideType DEF Inv, Elapse, Edit, Load, SetPolicy
<1>2. /\ device' \in [Station -> Value] /\ away' \subseteq Station
      /\ policy' \in BOOLEAN /\ elapsed' \subseteq Job
  BY DEF Inv, TypeOK, Elapse, Edit, Load, SetPolicy
<1>3. TypeOK'
  BY <1>1, <1>2 DEF Inv, TypeOK, Active
<1> QED
  BY <1>1, <1>3, QueueKept, NothingSeen DEF Inv
-----------------------------------------------------------------------------
(* A job was stopped while the run is where it was.                         *)
LEMMA StagedKept ==
  ASSUME Inv, UNCHANGED <<task, tried>>,
         \A r : Known(r) /\ Recorded(r) =>
           Recorded(r)' /\ (r \in withdrawn' => r \in withdrawn)
  PROVE  Staged'
<1>1. task.at = "last" =>
        task.row \notin withdrawn' /\ Recorded(task.row)'
  <2> SUFFICES ASSUME task.at = "last", NEW r, r = task.row
               PROVE  r \notin withdrawn' /\ Recorded(r)'
    BY DEF Recorded, RowOf, Held
  <2> QED
    BY DEF Inv, Indexed, Staged, OfRow
<1> QED
  BY <1>1 DEF Inv, Staged

LEMMA Cancelling == ASSUME Inv, NEW j \in Job, Cancel(j) PROVE Inv'
<1>1. Stopping(j, Stopped(j, "cancelled"))
  BY StoppedFacts DEF Inv, Cancel, Stopping, Terminal
<1>2. /\ Steady /\ Closed' /\ OnRecord' /\ WithdrawnNeverSent'
      /\ \A r : Known(r) /\ Recorded(r) =>
           Recorded(r)' /\ (r \in withdrawn' => r \in withdrawn)
  BY <1>1, StopFacts
<1>3. Pending(j) \subseteq Job \X Nat
  <2>1. DOMAIN jobs[j].rows \subseteq Nat
    BY LenProperties DEF Inv, TypeOK, JobRecord
  <2> QED
    BY <2>1 DEF Pending
<1>4. TypeOK'
  BY <1>2, <1>3 DEF Inv, TypeOK, Cancel, surroundings, Steady, Active
<1>5. Indexed' /\ Staged'
  BY <1>2, TaskKept, StagedKept DEF Cancel
<1> QED
  BY <1>2, <1>4, <1>5 DEF Inv

LEMMA Rejecting == ASSUME Inv, NEW j \in Job, Reject(j) PROVE Inv'
<1> DEFINE rows == [i \in DOMAIN jobs[j].rows |->
                      [jobs[j].rows[i] EXCEPT !.state = "cancelled"]]
           job == [jobs[j] EXCEPT !.state = "rejected", !.consent = "refused",
                                  !.rows = rows]
<1>1. /\ jobs[j] \in JobRecord /\ jobs[j].rows \in Seq(Row)
      /\ \A i \in DOMAIN jobs[j].rows : jobs[j].rows[i] \in Row
  BY ElementOfSeq, LenProperties DEF Inv, TypeOK, JobRecord
<1>2. jobs' = [jobs EXCEPT ![j] = job]
  BY <1>1 DEF Reject, Inv, TypeOK, JobRecord
<1>3. /\ DOMAIN rows = DOMAIN jobs[j].rows
      /\ \A i \in DOMAIN rows : rows[i] \in Row /\ rows[i].state = "cancelled"
  BY <1>1 DEF Row, RowStates
<1>4. rows \in Seq(Row)
  BY <1>1, <1>3, RowsType
<1> HIDE DEF rows
<1>5. /\ job \in JobRecord /\ job.rows = rows
      /\ job.state = "rejected" /\ job.consent = "refused"
  BY <1>1, <1>4 DEF JobRecord, JobStates, Terminal
<1> HIDE DEF job
<1>6. Stopping(j, job)
  BY <1>2, <1>3, <1>5 DEF Stopping, Reject, Undecided, Held, JobStates, Terminal
<1>7. /\ Steady /\ Closed' /\ OnRecord' /\ WithdrawnNeverSent'
      /\ \A r : Known(r) /\ Recorded(r) =>
           Recorded(r)' /\ (r \in withdrawn' => r \in withdrawn)
  BY <1>6, StopFacts
<1>8. Pending(j) \subseteq Job \X Nat
  BY <1>1, LenProperties DEF Pending
<1>9. TypeOK'
  BY <1>7, <1>8 DEF Inv, TypeOK, Reject, surroundings, Steady, Active
<1>10. Indexed' /\ Staged'
  BY <1>7, TaskKept, StagedKept DEF Reject
<1> QED
  BY <1>7, <1>9, <1>10 DEF Inv

LEMMA Expiring == ASSUME Inv, Expire PROVE Inv'
<1> SUFFICES ASSUME NEW j, j = task.row[1] PROVE Inv'
  OBVIOUS
<1>1. /\ UNCHANGED <<cursor, surroundings, tried, outside>>
      /\ task.at = "expire" /\ task \in Task /\ Active
      /\ j \in Job
  BY DEF Expire, Inv, TypeOK, Active, Task
<1>2. CASE ~Held(j)
  BY <1>1, <1>2, Ending DEF Expire, Inv, TypeOK
<1>3. CASE Held(j)
  <2>1. /\ jobs' = [jobs EXCEPT ![j] = Stopped(j, "expired")]
        /\ withdrawn' = withdrawn \cup Pending(j)
        /\ task' = [task EXCEPT !.at = "expiry", !.row = Idle.row]
    BY <1>3 DEF Expire
  <2>2. Stopping(j, Stopped(j, "expired"))
    BY <1>1, <1>3, <2>1, StoppedFacts DEF Inv, Stopping, Terminal
  <2>3. Steady /\ Closed' /\ OnRecord' /\ WithdrawnNeverSent'
    BY <1>1, <2>2, StopFacts
  <2>4. Pending(j) \subseteq Job \X Nat
    <3>1. DOMAIN jobs[j].rows \subseteq Nat
      BY <1>1, LenProperties DEF Inv, TypeOK, JobRecord
    <3> QED
      BY <1>1, <3>1 DEF Pending
  <2>5. task' \in Task /\ task'.at = "expiry" /\ task'.work = task.work
    <3>1. Idle.row \in Job \X Nat
      BY IdleType DEF Task, Idle
    <3> QED
      BY <1>1, <2>1, <3>1 DEF Task, Phases
  <2>6. TypeOK'
    BY <1>1, <2>1, <2>3, <2>4, <2>5 DEF Inv, TypeOK, surroundings, Steady
  <2>7. Indexed' /\ Staged'
    BY <1>1, <2>3, <2>5, RowLeft
  <2> QED
    BY <2>3, <2>6, <2>7 DEF Inv
<1> QED
  BY <1>2, <1>3

LEMMA Approving == ASSUME Inv, NEW j \in Job, Approve(j) PROVE Inv'
<1> DEFINE job == [jobs[j] EXCEPT !.state = "queued", !.consent = "approved"]
<1>1. jobs[j] \in JobRecord /\ jobs[j].state = "awaiting_approval"
      /\ jobs[j].consent = "none"
  BY DEF Approve, Undecided, Inv, TypeOK
<1>2. jobs' = [jobs EXCEPT ![j] = job]
  BY <1>1 DEF Approve, Inv, TypeOK, JobRecord
<1>3. /\ job \in JobRecord /\ job.rows = jobs[j].rows
      /\ job.state = "queued" /\ job.consent = "approved"
  BY <1>1 DEF JobRecord, JobStates
<1> HIDE DEF job
<1>4. /\ jobs' \in [Job -> JobRecord] /\ jobs'[j] = job
      /\ \A k \in Job : k # j => jobs'[k] = jobs[k]
  BY <1>2, <1>3 DEF Inv, TypeOK
<1>5. Steady
  BY <1>1, <1>3, <1>4 DEF Steady, Gone, Terminal
<1>6. Closed'
  BY <1>1, <1>3, <1>4 DEF Approve, Inv, TypeOK, Closed, Gone, Terminal
<1>7. ASSUME NEW r, Known(r), Recorded(r)
      PROVE  Recorded(r)'
  <2>1. r[1] \in Job
    BY <1>7 DEF Known
  <2>2. RowOf(r)' = RowOf(r)
    BY <1>3, <1>4, <2>1 DEF RowOf
  <2>3. Held(r[1]) => Held(r[1])'
    BY <1>3, <1>4, <2>1 DEF Held, JobStates
  <2>4. jobs[r[1]].consent = "refused" => jobs'[r[1]].consent = "refused"
    BY <1>1, <1>4, <2>1
  <2> QED
    BY <1>7, <2>2, <2>3, <2>4 DEF Recorded
<1>8. OnRecord' /\ WithdrawnNeverSent'
  BY <1>7 DEF Inv, OnRecord, Indexed, WithdrawnNeverSent, Approve
<1>9. TypeOK'
  BY <1>4 DEF Inv, TypeOK, Approve, surroundings, Active
<1>10. Indexed' /\ Staged'
  BY <1>5, <1>7, TaskKept, StagedKept DEF Approve
<1> QED
  BY <1>6, <1>8, <1>9, <1>10 DEF Inv

LEMMA NewJobType ==
  ASSUME TypeOK, NEW j \in Job
  PROVE  NewJob(Plans[j]) \in JobRecord /\ NewJob(Plans[j]).consent = "none"
<1> DEFINE plan == Plans[j]
           rows == [i \in DOMAIN plan.stations |->
             [station |-> plan.stations[i], expected |-> device[plan.stations[i]],
              desired |-> plan.desired, state |-> "pending"]]
<1>1. plan.stations \in Seq(Station) /\ plan.desired \in Value
  BY QueueAssumption
<1>2. \A i \in DOMAIN plan.stations : plan.stations[i] \in Station
  BY <1>1, ElementOfSeq, LenProperties
<1>3. \A i \in DOMAIN plan.stations : rows[i] \in Row
  BY <1>1, <1>2 DEF TypeOK, Row, RowStates
<1>4. rows \in Seq(Row)
  <2>1. DOMAIN plan.stations = 1..Len(plan.stations) /\ Len(plan.stations) \in Nat
    BY <1>1, LenProperties
  <2>2. rows \in [1..Len(plan.stations) -> Row]
    BY <1>3, <2>1
  <2> QED
    BY <2>1, <2>2, SeqDef
<1>5. NewJob(plan) = [state |-> IF policy THEN "awaiting_approval" ELSE "queued",
                      dual |-> policy, consent |-> "none", rows |-> rows]
  BY DEF NewJob
<1> HIDE DEF rows
<1> QED
  BY <1>4, <1>5 DEF TypeOK, JobRecord, JobStates

(* The job that makes room has no open intent.                              *)
LEMMA Enqueuing == ASSUME Inv, NEW j \in Job, Enqueue(j, Plans[j]) PROVE Inv'
<1> DEFINE job == NewJob(Plans[j])
<1>1. /\ UNCHANGED <<task, cursor, surroundings, tried, withdrawn, outside>>
      /\ jobs[j].state = "unborn"
      /\ jobs' = [k \in Job |->
            IF k = j THEN job
            ELSE IF k \in Obsolete THEN [jobs[k] EXCEPT !.state = "forgotten"]
            ELSE jobs[k]]
  BY DEF Enqueue
<1>2. job \in JobRecord /\ job.consent = "none"
  BY NewJobType DEF Inv
<1>3. \A k \in Obsolete :
        /\ k \in Job /\ jobs[k].state \in Terminal
        /\ \A i \in DOMAIN jobs[k].rows : jobs[k].rows[i].state # "writing"
  BY DEF Obsolete, Removable
<1> HIDE DEF job
<1>4. ASSUME NEW k \in Job, k # j
      PROVE  /\ jobs'[k] \in JobRecord
             /\ jobs'[k].rows = jobs[k].rows /\ jobs'[k].consent = jobs[k].consent
             /\ \/ jobs'[k].state = jobs[k].state
                \/ k \in Obsolete /\ jobs'[k].state = "forgotten"
  <2>1. jobs[k] \in JobRecord
    BY DEF Inv, TypeOK
  <2>2. CASE k \in Obsolete
    BY <1>1, <1>4, <2>1, <2>2 DEF JobRecord
  <2>3. CASE k \notin Obsolete
    BY <1>1, <1>4, <2>1, <2>3
  <2> QED
    BY <2>2, <2>3
<1>5. jobs' \in [Job -> JobRecord] /\ jobs'[j] = job
  BY <1>1, <1>2, <1>4
<1>6. Steady
  BY <1>1, <1>4, <1>5 DEF Steady, Gone
<1>7. Closed'
  <2>1. \A k \in Job : jobs'[k].consent = "refused" => jobs'[k].state \in Gone
    BY <1>2, <1>4, <1>5 DEF Inv, Closed, Gone
  <2>2. \A r \in withdrawn : r[1] \in Job /\ jobs[r[1]].state \in Gone
    BY DEF Inv, TypeOK, Closed
  <2>3. \A r \in withdrawn : r[1] # j
    BY <1>1, <2>2 DEF Gone, Terminal
  <2>4. \A r \in withdrawn : jobs'[r[1]].state \in Gone
    BY <1>4, <2>2, <2>3 DEF Gone
  <2> QED
    BY <1>1, <2>1, <2>4 DEF Closed
<1>8. ASSUME NEW r, Known(r), Recorded(r)
      PROVE  Recorded(r)'
  <2>1. r[1] \in Job /\ r[1] # j /\ r[2] \in DOMAIN jobs[r[1]].rows
    BY <1>1, <1>8 DEF Known
  <2>2. RowOf(r)' = RowOf(r)
    BY <1>4, <2>1 DEF RowOf
  <2>3. Held(r[1]) /\ RowOf(r).state = "writing" => Held(r[1])'
    BY <1>3, <1>4, <2>1 DEF Held, RowOf
  <2> QED
    BY <1>4, <1>8, <2>1, <2>2, <2>3 DEF Recorded
<1>9. OnRecord' /\ WithdrawnNeverSent'
  BY <1>1, <1>8 DEF Inv, OnRecord, Indexed, WithdrawnNeverSent
<1>10. TypeOK'
  BY <1>1, <1>5 DEF Inv, TypeOK, surroundings, Active
<1>11. Indexed' /\ Staged'
  BY <1>1, <1>6, <1>8, TaskKept, StagedKept
<1> QED
  BY <1>7, <1>9, <1>10, <1>11 DEF Inv
-----------------------------------------------------------------------------
LEMMA Idling == ASSUME Inv, UNCHANGED vars PROVE Inv'
<1>1. TypeOK'
  BY DEF Inv, TypeOK, vars, surroundings, Active
<1> QED
  BY <1>1, QueueKept, NothingSeen DEF Inv, vars

LEMMA Inductive == Inv /\ [Next]_vars => Inv'
<1> SUFFICES ASSUME Inv, [Next]_vars PROVE Inv'
  OBVIOUS
<1>1. CASE Tick
  BY <1>1, Ticking
<1>2. CASE Run
  BY <1>2, Searching, Expiring, Picking, Guarding, Reading, Announcing, Writing,
     Recording DEF Run
<1>3. ASSUME NEW j \in Job, Enqueue(j, Plans[j]) PROVE Inv'
  BY <1>3, Enqueuing
<1>4. ASSUME NEW j \in Job, Cancel(j) \/ Approve(j) \/ Reject(j) PROVE Inv'
  BY <1>4, Cancelling, Approving, Rejecting
<1>5. CASE GuardFails \/ ReadFails \/ SendFails \/ SaveFails \/ Restart
  BY <1>5, Failing, Unsaved, Restarting
<1>6. CASE \/ \E j \in Job : Elapse(j)
           \/ \E s \in Station, value \in Value : Edit(s, value)
           \/ \E s \in Station : Load(s)
           \/ SetPolicy
  BY <1>6, Surrounding
<1>7. CASE UNCHANGED vars
  BY <1>7, Idling
<1> QED
  BY <1>1, <1>2, <1>3, <1>4, <1>5, <1>6, <1>7 DEF Next

LEMMA Invariant == Spec => []Inv
BY Initially, Inductive, PTL DEF Spec

(* The queue, the run and the devices keep their types.                     *)
THEOREM QueueTypes == Spec => []TypeOK
<1>1. Inv => TypeOK
  BY DEF Inv
<1> QED
  BY <1>1, Invariant, PTL

(* A write whose outcome is not known yet stays on record as such           *)
(* (maintenance_jobs.py: recovery, _row, the room made by enqueue).         *)
THEOREM NothingForgotten == Spec => []OutcomeOnRecord
<1>1. Inv => OutcomeOnRecord
  BY DEF Inv, OnRecord, Recorded, OutcomeOnRecord
<1> QED
  BY <1>1, Invariant, PTL

(* What was cancelled, refused or expired before its write is not written   *)
(* (maintenance_jobs.py: the second look at the job after the intent).      *)
THEOREM WithdrawalHolds == Spec => []WithdrawnNeverSent
<1>1. Inv => WithdrawnNeverSent
  BY DEF Inv
<1> QED
  BY <1>1, Invariant, PTL

(* Only the last of the three guards begins a write.                        *)
LEMMA OneWayToSend ==
  ASSUME Inv, [Next]_vars, Sending', ~Sending
  PROVE  task'.row \notin tried
<1>1. ~RunEnds /\ ~Tick /\ ~UNCHANGED task
  <2>1. ~UNCHANGED task
    BY DEF Sending
  <2>2. ~RunEnds
    <3>1. Idle.at = "idle"
      BY DEF Idle
    <3> QED
      BY <3>1 DEF RunEnds, Sending
  <2>3. ~Tick
    <3> SUFFICES ASSUME Tick PROVE FALSE
      OBVIOUS
    <3>1. task'.at = "expiry"
      BY DEF Tick, Idle
    <3> QED
      BY <3>1 DEF Sending
  <2> QED
    BY <2>1, <2>2, <2>3
<1>2. ASSUME task \in Task
      PROVE  /\ \A result : ~Raise(result)
             /\ \A result : ~Conclude(result)
             /\ ~NextRow /\ ~Go("recheck") /\ ~Go("last")
  <2>1. ASSUME NEW result, Raise(result) PROVE FALSE
    <3>1. task'.at = "report"
      BY <1>2, <2>1 DEF Raise, Task
    <3> QED
      BY <3>1 DEF Sending
  <2>2. ASSUME NEW result, Conclude(result) PROVE FALSE
    <3>1. task'.at = "record"
      BY <1>2, <2>2 DEF Conclude, Task
    <3> QED
      BY <3>1 DEF Sending
  <2>3. ~NextRow /\ ~Go("recheck") /\ ~Go("last")
    BY <1>2 DEF NextRow, Go, Task, Sending
  <2> QED
    BY <2>1, <2>2, <2>3
<1>3. ~Forgotten /\ ~FindOverdue /\ ~ListWork /\ ~Expire /\ ~Pick
  <2>2. ~Forgotten
    BY <1>1 DEF Forgotten
  <2>3. ~FindOverdue
    <3> SUFFICES ASSUME FindOverdue PROVE FALSE
      OBVIOUS
    <3>1. task \in Task
      BY DEF FindOverdue, Inv, TypeOK, Active
    <3>2. task'.at = "expire"
      BY <3>1 DEF FindOverdue, Task
    <3> QED
      BY <3>2 DEF Sending
  <2>4. ~ListWork
    <3> SUFFICES ASSUME ListWork PROVE FALSE
      OBVIOUS
    <3>1. task \in Task
      BY DEF ListWork, Inv, TypeOK, Active
    <3>2. task'.at = "pick"
      BY <3>1 DEF ListWork, Task
    <3> QED
      BY <3>2 DEF Sending
  <2>5. ~Expire
    <3> SUFFICES ASSUME Expire PROVE FALSE
      OBVIOUS
    <3>1. task \in Task
      BY DEF Expire, Inv, TypeOK, Active
    <3>2. task'.at = "expiry"
      BY <1>1, <3>1 DEF Expire, Task
    <3> QED
      BY <3>2 DEF Sending
  <2>6. ~Pick
    <3> SUFFICES ASSUME Pick PROVE FALSE
      OBVIOUS
    <3>1. task \in Task
      BY DEF Pick, Inv, TypeOK, Active
    <3>2. task'.at = "guard"
      BY <1>1, <3>1 DEF Pick, Task
    <3> QED
      BY <3>2 DEF Sending
  <2> QED
    BY <2>2, <2>3, <2>4, <2>5, <2>6
<1>4. ~Read /\ ~ReadFails /\ ~StoreIntent /\ ~Send /\ ~SendFails
      /\ ~GuardFails /\ ~Record /\ ~SaveFails
  <2>1. task.at \in OfRow => task \in Task
    BY DEF Inv, TypeOK, Active, OfRow
  <2> QED
    BY <1>1, <1>2, <2>1 DEF Read, ReadFails, StoreIntent, AfterIntent, Send,
       SendFails, GuardFails, Guards, Record, SaveFails, OfRow
<1>5. ~Restart
  BY <1>1 DEF Restart
<1>6. Guard
  BY <1>1, <1>3, <1>4, <1>5 DEF Next, Run, Enqueue, Cancel, Approve, Reject,
     Elapse, Edit, Load, SetPolicy, vars
<1>7. task \in Task
  BY <1>6 DEF Inv, TypeOK, Active, Guard, Guards
<1>8. task' = [task EXCEPT !.at = Following] /\ task.at \in Guards
  BY <1>2, <1>6, <1>7 DEF Guard
<1>9. task.at = "last" /\ task'.row = task.row
  BY <1>7, <1>8 DEF Following, Guards, Task, Sending
<1> QED
  BY <1>9 DEF Inv, Staged

(* An open intent is read back and never written again                      *)
(* (maintenance_jobs.py: "uncertain writes are never replayed").            *)
THEOREM NoReplay == Spec => NeverRepeated
<1>1. Inv /\ [Next]_vars => [Sending' /\ ~Sending => task'.row \notin tried]_vars
  BY OneWayToSend
<1> QED
  BY <1>1, Invariant, PTL DEF Spec, NeverRepeated
=============================================================================
