------------------------ MODULE AccessOwnershipProofs -----------------------
(***************************************************************************)
(* Proofs that the code knows what it owns and owes: writes are journalled *)
(* before they happen, device records have a binding, every binding and    *)
(* every withdrawn credential belongs to a person on record, and a         *)
(* deletion ends only after every station has confirmed it.                *)
(***************************************************************************)
EXTENDS AccessSyncProofs

(* Until the next write, the device record of the person in the transaction *)
(* is the one the engine read last (as long as nobody edits records at the  *)
(* stations), and the intent records it as the before-image.                *)
Tracking ==
  \A s \in Station :
    /\ external = 0 /\ pc[s] \in {"ready", "write"} =>
         device[s][job[s].user] = job[s].current
    /\ pc[s] = "write" =>
         bindings[s][job[s].user].intent.before = job[s].current
-----------------------------------------------------------------------------
(* A step that leaves the other engines and their devices alone. *)
StationOnly(s) ==
  /\ external' = external
  /\ \A t \in Station \ {s} :
       /\ pc'[t] = pc[t] /\ job'[t] = job[t]
       /\ bindings'[t] = bindings[t] /\ device'[t] = device[t]

LEMMA TrackingKept ==
  ASSUME TypeInv, Tracking, NEW s \in Station, StationOnly(s),
         external = 0 /\ pc'[s] \in {"ready", "write"} =>
           device'[s][job'[s].user] = job'[s].current,
         pc'[s] = "write" =>
           bindings'[s][job'[s].user].intent.before = job'[s].current
  PROVE  Tracking'
BY DEF Tracking, StationOnly

(* The engines of the other stations, their bindings and their devices are  *)
(* not touched by the engine of one station, nor by what fails there.       *)
LEMMA StationLocal ==
  ASSUME TypeInv, NEW s \in Station, Engine(s) \/ Failure(s)
  PROVE  StationOnly(s)
<1> USE DEF StationOnly, TypeInv, TypeOK, RepositoryTypeOK, SyncTypeOK
<1>1. ASSUME Reconcile(s) \/ \E u \in User : Start(s, u)
      PROVE  StationOnly(s)
  BY <1>1 DEF Reconcile, Start, repository
<1>2. ASSUME Inspect(s)
      PROVE  StationOnly(s)
  BY <1>2 DEF Inspect, repository, Fail, Release, ConfirmAbsent, RecordObservation
<1>3. ASSUME BlockedElsewhere(s) \/ Journal(s) \/ Refused(s)
      PROVE  StationOnly(s)
  BY <1>3 DEF BlockedElsewhere, Journal, Refused, Fail, Release, WriteIntent
<1>4. ASSUME Write(s) \/ WriteIgnored(s) \/ Readback(s)
      PROVE  StationOnly(s)
  BY <1>4 DEF Write, WriteIgnored, Readback, repository, Fail, Release,
              RecordObservation
<1>5. ASSUME Removed(s) \/ Finish(s) \/ ConfirmCards(s) \/ ConfirmPins(s)
      PROVE  StationOnly(s)
  BY <1>5 DEF Removed, Finish, ConfirmCards, ConfirmPins, Release,
              ConfirmAbsent, ConfirmRemovals, RecordObservation
<1>6. ASSUME ConnectionFailed(s) \/ Cancelled(s) \/ StationFailed(s)
      PROVE  StationOnly(s)
  BY <1>6 DEF ConnectionFailed, Cancelled, StationFailed, Stopped, repository
<1> QED
  BY <1>1, <1>2, <1>3, <1>4, <1>5, <1>6 DEF Engine, Failure

(* Where the engine of a station stands after a step. *)
LEMMA TrackingEngine ==
  ASSUME TypeInv, Tracking, NEW s \in Station, Engine(s) \/ Failure(s)
  PROVE  Tracking'
<1> USE DEF TypeInv, TypeOK, RepositoryTypeOK, SyncTypeOK
<1>1. StationOnly(s)
  BY StationLocal
<1>2. CASE pc'[s] \notin {"ready", "write"}
  BY <1>1, <1>2, TrackingKept
<1>3. CASE Inspect(s) /\ pc'[s] \in {"ready", "write"}
  <2>1. /\ pc'[s] = "ready"
        /\ job' = [job EXCEPT ![s].current = device[s][job[s].user]]
        /\ device' = device
    BY <1>3 DEF Inspect, Fail, Release
  <2>2. job[s] \in Job
    BY <1>3, JobType DEF Inspect
  <2>3. job'[s].user = job[s].user /\ job'[s].current = device[s][job[s].user]
    BY <2>1, <2>2 DEF Job
  <2> QED
    BY <1>1, <2>1, <2>3, TrackingKept
<1>4. CASE Journal(s) /\ pc'[s] \in {"ready", "write"}
  <2> DEFINE u == job[s].user
             want == Desired(job[s].snapshot, s)
             current == job[s].current
             operation == Operation(want, current)
             revision == job[s].snapshot.revision
  <2> HIDE DEF RepositoryTypeOK, SyncTypeOK
  <2>1. pc[s] = "ready" /\ device' = device /\ external' = external
    BY <1>4 DEF Journal
  <2>2. PICK next \in NextContents(want, current) :
          /\ WriteIntent(s, u, revision, operation, current, next)
          /\ pc' = [pc EXCEPT ![s] = "write"]
          /\ job' = job
    BY <1>4 DEF Journal, Fail, Release, SyncTypeOK
  <2>3. u \in User /\ want \in Content /\ current \in Content
    BY <2>1, JobType, CurrentType
  <2>4. next \in Content
    BY <2>3, NextContentsType
  <2>5. bindings'[s][u].intent = [before |-> current, desired |-> next]
    BY <2>2, <2>3, <2>4, WriteIntentType
  <2>6. external = 0 => device'[s][u] = current
    BY <2>1 DEF Tracking
  <2> QED
    BY <1>1, <2>2, <2>5, <2>6, TrackingKept
<1>5. CASE Readback(s) /\ pc'[s] \in {"ready", "write"}
  <2>1. /\ pc[s] = "readback" /\ pc'[s] = "ready"
        /\ job' = [job EXCEPT ![s].current = device[s][job[s].user]]
        /\ device' = device
    BY <1>5 DEF Readback, Fail, Release
  <2>2. job[s] \in Job
    BY <2>1, JobType
  <2>3. job'[s].user = job[s].user /\ job'[s].current = device[s][job[s].user]
    BY <2>1, <2>2 DEF Job
  <2> QED
    BY <1>1, <2>1, <2>3, TrackingKept
<1>6. CASE Reconcile(s) \/ (\E u \in User : Start(s, u)) \/ StationFailed(s)
  <2>1. pc'[s] \notin {"ready", "write"}
    BY <1>6 DEF Reconcile, Start, StationFailed, Stopped
  <2> QED
    BY <1>2, <2>1
<1>7. CASE \/ BlockedElsewhere(s) \/ Write(s) \/ Removed(s) \/ Finish(s)
           \/ ConfirmCards(s) \/ ConfirmPins(s) \/ WriteIgnored(s)
           \/ ConnectionFailed(s) \/ Refused(s) \/ Cancelled(s)
  <2>1. pc'[s] \notin {"ready", "write"}
    BY <1>7 DEF BlockedElsewhere, Write, Removed, Finish, ConfirmCards,
                ConfirmPins, WriteIgnored, ConnectionFailed, Refused, Cancelled,
                Stopped, Fail, Release
  <2> QED
    BY <1>2, <2>1
<1> QED
  BY <1>2, <1>3, <1>4, <1>5, <1>6, <1>7 DEF Engine, Failure

(* Administrators change neither devices nor engines, and a binding only    *)
(* outside the transactions of its station.                                 *)
LEMMA AdministratorsOutside ==
  ASSUME TypeInv,
         \/ \E u \in User : Administrator(u)
         \/ \E s \in Station, u \in User : Adopt(s, u) \/ Resolve(s, u)
  PROVE  /\ UNCHANGED <<device, pc, job, external>>
         /\ \A s \in Station : pc[s] = "idle" \/ bindings'[s] = bindings[s]
<1>1. ASSUME NEW u \in User, Administrator(u)
      PROVE  UNCHANGED <<bindings, device, pc, job, external>>
  BY <1>1 DEF Administrator, CreateUser, UpdateUser, EditUserProfile, DeleteUser,
              Create, Update, EditProfile, Delete, Outside, engine
<1>2. ASSUME NEW s \in Station, NEW u \in User, Adopt(s, u) \/ Resolve(s, u)
      PROVE  /\ UNCHANGED <<device, pc, job, external>> /\ pc[s] = "idle"
             /\ \A t \in Station \ {s} : bindings'[t] = bindings[t]
  BY <1>2 DEF Adopt, Resolve, AdoptNew, AdoptExisting, ResolveCentral,
              ResolveDevice, ResolveDeletion, Outside, engine,
              TypeInv, TypeOK, RepositoryTypeOK
<1> QED
  BY <1>1, <1>2

LEMMA TrackingStep == TypeInv /\ Tracking /\ [Next]_vars => Tracking'
<1> SUFFICES ASSUME TypeInv, Tracking, [Next]_vars PROVE Tracking'
  OBVIOUS
<1>1. ASSUME \/ \E u \in User : Administrator(u)
             \/ \E s \in Station, u \in User : Adopt(s, u) \/ Resolve(s, u)
      PROVE  Tracking'
  BY <1>1, AdministratorsOutside DEF Tracking
<1>2. ASSUME NEW s \in Station, NEW u \in User, External(s, u) PROVE Tracking'
  <2>1. external' # 0 /\ UNCHANGED <<pc, job, bindings>>
    BY <1>2 DEF External, repository, engine, TypeInv, TypeOK, SyncTypeOK
  <2> QED
    BY <2>1 DEF Tracking
<1>3. CASE Restart
  <2>1. \A s \in Station : pc'[s] = "idle"
    BY <1>3 DEF Restart, Stopped
  <2> QED
    BY <2>1 DEF Tracking
<1>4. CASE UNCHANGED vars
  BY <1>4 DEF vars, repository, engine, Tracking
<1> QED
  BY <1>1, <1>2, <1>3, <1>4, TrackingEngine DEF Next

LEMMA TrackingInvariant == Spec => [](TypeInv /\ Tracking)
<1>1. Init => Tracking
  BY DEF Init, Tracking
<1>2. TypeInv /\ Tracking /\ [Next]_vars => Tracking'
  BY TrackingStep
<1> QED
  BY <1>1, <1>2, TypeInvariant, PTL DEF Spec
-----------------------------------------------------------------------------
(* What changes a device: a write of the engine, or somebody at the station. *)
LEMMA DeviceChanges ==
  ASSUME TypeInv, [Next]_vars, device' # device
  PROVE  \/ \E s \in Station : Write(s)
         \/ external' # external
<1>1. ASSUME NEW s \in Station, Engine(s) \/ Failure(s), ~Write(s)
      PROVE  device' = device
  <2>1. CASE Reconcile(s) \/ (\E u \in User : Start(s, u)) \/ Inspect(s)
    BY <2>1 DEF Reconcile, Start, Inspect
  <2>2. CASE BlockedElsewhere(s) \/ Journal(s) \/ Readback(s) \/ Removed(s)
    BY <2>2 DEF BlockedElsewhere, Journal, Readback, Removed
  <2>3. CASE Finish(s) \/ ConfirmCards(s) \/ ConfirmPins(s)
    BY <2>3 DEF Finish, ConfirmCards, ConfirmPins
  <2>4. CASE Failure(s)
    BY <2>4 DEF Failure, WriteIgnored, ConnectionFailed, Refused, Cancelled,
                StationFailed
  <2> QED
    BY <1>1, <2>1, <2>2, <2>3, <2>4 DEF Engine
<1>2. ASSUME NEW s \in Station, NEW u \in User, External(s, u)
      PROVE  external' # external
  BY <1>2 DEF External, TypeInv, TypeOK, SyncTypeOK
<1>3. CASE Restart
  BY <1>3 DEF Restart
<1>4. CASE UNCHANGED vars
  BY <1>4 DEF vars
<1> QED
  BY <1>1, <1>2, <1>3, <1>4, AdministratorsOutside DEF Next

(* Nothing the code does changes a device record other than into the        *)
(* content of a durable intent, and out of the before-image of that intent, *)
(* for any number of stations, faults and edits: a restart can always tell  *)
(* what became of the write it interrupted.                                 *)
THEOREM Journaled == Spec => JournaledWrites
<1> DEFINE Step ==
      external' = external =>
        \A s \in Station, u \in User : device'[s][u] # device[s][u] =>
          /\ bindings[s][u] # None
          /\ bindings[s][u].intent # None
          /\ device'[s][u] = bindings[s][u].intent.desired
          /\ external = 0 => device[s][u] = bindings[s][u].intent.before
<1>1. TypeInv /\ Tracking /\ [Next]_vars => Step
  <2> SUFFICES ASSUME TypeInv, Tracking, [Next]_vars, external' = external,
                      NEW s \in Station, NEW u \in User,
                      device'[s][u] # device[s][u]
               PROVE  /\ bindings[s][u] # None
                      /\ bindings[s][u].intent # None
                      /\ device'[s][u] = bindings[s][u].intent.desired
                      /\ external = 0 => device[s][u] = bindings[s][u].intent.before
    OBVIOUS
  <2>1. PICK t \in Station : Write(t)
    BY DeviceChanges
  <2>2. job[t].user \in User
    BY <2>1, JobType DEF Write
  <2>3. t = s /\ u = job[s].user /\ pc[s] = "write"
    BY <2>1, <2>2 DEF Write, TypeInv, TypeOK, SyncTypeOK
  <2>4. device'[s][u] = bindings[s][u].intent.desired
    BY <2>1, <2>2, <2>3 DEF Write, TypeInv, TypeOK, SyncTypeOK
  <2>5. external = 0 => device[s][u] = bindings[s][u].intent.before
    BY <2>3 DEF Tracking
  <2> QED
    BY <2>3, <2>4, <2>5, IntentType
<1>2. TypeInv /\ Tracking /\ [Next]_vars => [Step]_vars
  BY <1>1
<1> QED
  BY <1>2, TrackingInvariant, PTL DEF Spec, JournaledWrites
-----------------------------------------------------------------------------
(* What may become of a binding in one step. *)

LEMMA OwningIsSomething ==
  ASSUME NEW content \in Content
  PROVE  Owning(content) # None
BY OwningType, NoneAssumption

(* The engine gives a binding up only when the record is gone. *)
LEMMA EngineKeepsBinding ==
  ASSUME TypeInv, Tracking, NEW s \in Station, Engine(s) \/ Failure(s),
         NEW u \in User, bindings[s][u] # None, bindings'[s][u] = None
  PROVE  device' = device /\ (external = 0 => ~device[s][u].here)
<1>1. CASE \/ Reconcile(s) \/ (\E v \in User : Start(s, v)) \/ Write(s)
           \/ ConfirmCards(s) \/ ConfirmPins(s) \/ BlockedElsewhere(s) \/ Failure(s)
  <2>1. bindings' = bindings
    BY <1>1 DEF Reconcile, Start, Write, ConfirmCards, ConfirmPins, ConfirmRemovals,
                BlockedElsewhere, Fail, Failure, WriteIgnored, ConnectionFailed,
                Refused, Cancelled, StationFailed, repository
  <2> QED
    BY <2>1
<1> DEFINE v == job[s].user
<1>2. ASSUME NEW content \in Content, NEW revision,
             RecordObservation(s, v, content, revision)
      PROVE  FALSE
  BY <1>2, OwningIsSomething DEF RecordObservation, TypeInv, TypeOK, RepositoryTypeOK
<1>3. CASE Finish(s)
  BY <1>2, <1>3, JobType DEF Finish
<1>4. CASE Readback(s)
  <2>1. device[s][v] \in Content
    BY <1>4, JobType DEF Readback, TypeInv, TypeOK, SyncTypeOK
  <2> QED
    BY <1>2, <1>4, <2>1 DEF Readback, Fail
<1>5. CASE Journal(s)
  <2>1. pc[s] = "ready"
    BY <1>5 DEF Journal
  <2>2. v \in User /\ Desired(job[s].snapshot, s) \in Content /\ job[s].current \in Content
    BY <2>1, JobType, CurrentType
  <2>3. CASE bindings' = bindings
    BY <2>3
  <2>4. ASSUME NEW next \in NextContents(Desired(job[s].snapshot, s), job[s].current),
               WriteIntent(s, v, job[s].snapshot.revision,
                 Operation(Desired(job[s].snapshot, s), job[s].current),
                 job[s].current, next)
        PROVE  FALSE
    <3>1. bindings'[s][v] # None
      BY <2>2, <2>4, NextContentsType, WriteIntentType DEF TypeInv, TypeOK
    <3>2. u # v => bindings'[s][u] = bindings[s][u]
      BY <2>4 DEF WriteIntent, TypeInv, TypeOK, RepositoryTypeOK
    <3> QED
      BY <3>1, <3>2
  <2> QED
    BY <1>5, <2>3, <2>4 DEF Journal, Fail
<1>6. CASE Inspect(s)
  <2>1. device[s][v] \in Content /\ device' = device
    BY <1>6, JobType DEF Inspect, TypeInv, TypeOK, SyncTypeOK
  <2>2. CASE ConfirmAbsent(s, v, job[s].snapshot.revision) /\ ~device[s][v].here
    <3>1. u = v
      BY <2>2 DEF ConfirmAbsent, TypeInv, TypeOK, RepositoryTypeOK
    <3> QED
      BY <2>1, <2>2, <3>1
  <2>3. CASE bindings' = bindings
    BY <2>3
  <2> QED
    BY <1>2, <1>6, <2>1, <2>2, <2>3 DEF Inspect, Fail, repository
<1>7. CASE Removed(s)
  <2> DEFINE want == Desired(job[s].snapshot, s)
             current == job[s].current
  <2>1. /\ pc[s] = "ready" /\ device' = device
        /\ ~want.here /\ NextContents(want, current) = {}
        /\ ConfirmAbsent(s, v, job[s].snapshot.revision)
    BY <1>7 DEF Removed
  <2>2. u = v
    BY <2>1 DEF ConfirmAbsent, TypeInv, TypeOK, RepositoryTypeOK
  <2>3. ~current.here
    BY <2>1 DEF NextContents
  <2>4. external = 0 => device[s][v] = current
    BY <2>1 DEF Tracking
  <2> QED
    BY <2>1, <2>2, <2>3, <2>4
<1> QED
  BY <1>1, <1>3, <1>4, <1>5, <1>6, <1>7 DEF Engine

(* Nobody else gives a binding up. *)
LEMMA OthersKeepBinding ==
  ASSUME TypeInv,
         \/ \E v \in User : Administrator(v)
         \/ \E t \in Station, v \in User :
              Adopt(t, v) \/ Resolve(t, v) \/ External(t, v)
         \/ Restart,
         NEW s \in Station, NEW u \in User, bindings[s][u] # None
  PROVE  bindings'[s][u] # None
<1>1. CASE \/ \E v \in User : Administrator(v)
           \/ \E t \in Station, v \in User : External(t, v)
           \/ Restart
  <2>1. bindings' = bindings
    <3>1. ASSUME NEW v \in User, Administrator(v) PROVE bindings' = bindings
      BY <3>1 DEF Administrator, CreateUser, UpdateUser, EditUserProfile, DeleteUser,
                  Create, Update, EditProfile, Delete
    <3>2. ASSUME NEW t \in Station, NEW v \in User, External(t, v)
          PROVE  bindings' = bindings
      BY <3>2 DEF External, repository
    <3>3. CASE Restart
      BY <3>3 DEF Restart, Reload
    <3> QED
      BY <1>1, <3>1, <3>2, <3>3
  <2> QED
    BY <2>1
<1>2. ASSUME NEW t \in Station, NEW v \in User, Adopt(t, v) \/ Resolve(t, v)
      PROVE  bindings'[s][u] # None
  <2>1. device[t][v] \in Content
    BY DEF TypeInv, TypeOK, SyncTypeOK
  <2>2. bindings' = [bindings EXCEPT ![t][v] = Owning(device[t][v])]
    BY <1>2 DEF Adopt, Resolve, AdoptNew, AdoptExisting, ResolveCentral,
                ResolveDevice, ResolveDeletion
  <2> QED
    BY <2>1, <2>2, OwningIsSomething DEF TypeInv, TypeOK, RepositoryTypeOK
<1> QED
  BY <1>1, <1>2

LEMMA OwnedStep ==
  TypeInv /\ Tracking /\ OwnedOnDevice /\ [Next]_vars => OwnedOnDevice'
<1> SUFFICES ASSUME TypeInv, Tracking, OwnedOnDevice, [Next]_vars, external' = 0,
                    NEW s \in Station, NEW u \in User, Managed(s, u),
                    device'[s][u].here
             PROVE  bindings'[s][u] # None
  BY DEF OwnedOnDevice, Managed
<1>1. external = 0
  <2>1. external' # external => FALSE
    <3>1. ASSUME NEW t \in Station, NEW v \in User, External(t, v) PROVE FALSE
      BY <3>1 DEF External, TypeInv, TypeOK, SyncTypeOK
    <3>2. CASE \E t \in Station : Engine(t) \/ Failure(t)
      BY <3>2, StationLocal DEF StationOnly
    <3>3. CASE Restart \/ UNCHANGED vars
      BY <3>3 DEF Restart, vars
    <3> QED
      BY <3>1, <3>2, <3>3, AdministratorsOutside DEF Next
  <2> QED
    BY <2>1
<1>2. CASE bindings[s][u] # None
  <2>1. CASE \E t \in Station : Engine(t) \/ Failure(t)
    <3>1. PICK t \in Station : Engine(t) \/ Failure(t)
      BY <2>1
    <3>2. CASE t = s
      BY <1>1, <1>2, <3>1, <3>2, EngineKeepsBinding
    <3>3. CASE t # s
      BY <1>2, <3>1, <3>3, StationLocal DEF StationOnly
    <3> QED
      BY <3>2, <3>3
  <2>2. CASE UNCHANGED vars
    BY <1>2, <2>2 DEF vars, repository
  <2> QED
    BY <1>2, <2>1, <2>2, OthersKeepBinding DEF Next
<1>3. CASE bindings[s][u] = None
  <2>1. ~device[s][u].here
    BY <1>1, <1>3 DEF OwnedOnDevice
  <2>2. device' # device
    BY <2>1
  <2>3. PICK t \in Station : Write(t)
    BY <1>1, <2>2, DeviceChanges
  <2>4. t = s /\ u = job[s].user /\ pc[s] = "write"
    BY <2>1, <2>3, JobType DEF Write, TypeInv, TypeOK, SyncTypeOK
  <2> QED
    BY <1>3, <2>4, IntentType
<1> QED
  BY <1>2, <1>3

(* No device record the code created is ever without a binding: lost        *)
(* answers, refused writes, cancellations and restarts leave no orphan that *)
(* a later deletion would not find.                                         *)
THEOREM Owned == Spec => []OwnedOnDevice
<1>1. Init => OwnedOnDevice
  BY DEF Init, OwnedOnDevice, Managed, Absent
<1>2. TypeInv /\ Tracking /\ OwnedOnDevice /\ [Next]_vars => OwnedOnDevice'
  BY OwnedStep
<1> QED
  BY <1>1, <1>2, TrackingInvariant, PTL DEF Spec
-----------------------------------------------------------------------------
(* The deletion of a person covers the withdrawn credentials of that        *)
(* person: it asks at least the same stations, and whoever confirmed the    *)
(* deletion has confirmed them as well.                                     *)
RetirementsAccounted ==
  \A r \in retired :
    /\ Known(users[r.user])
    /\ r.confirmed \subseteq r.targets
    /\ Unconfirmed(r) # {}
    /\ users[r.user].status = "tombstone" =>
         /\ r.targets \subseteq tombstones[r.user].targets
         /\ r.targets \cap tombstones[r.user].confirmed \subseteq r.confirmed

Accounting == BindingAccounted /\ RetirementsAccounted
-----------------------------------------------------------------------------
LEMMA RetirementsShape ==
  ASSUME NEW u, NEW secrets, NEW targets,
         NEW r \in Retirements(u, secrets, targets)
  PROVE  /\ r.user = u /\ r.targets = targets /\ r.confirmed = {}
         /\ targets # {}
BY DEF Retirements

LEMMA ConfirmedAtShape ==
  ASSUME RepositoryTypeOK, NEW s \in Station, NEW u \in User, NEW kind, NEW present,
         NEW r \in ConfirmedAt(s, u, kind, present)
  PROVE  \/ /\ r \in retired
            /\ ~(r.user = u /\ s \in r.targets /\ r.secret \in kind \ present)
         \/ \E q \in retired :
              /\ q.user = u /\ s \in q.targets
              /\ r.user = u /\ r.targets = q.targets
              /\ r.confirmed = q.confirmed \cup {s}
              /\ Unconfirmed(r) # {}
<1> DEFINE hit == {q \in retired : /\ q.user = u
                                   /\ s \in q.targets
                                   /\ q.secret \in kind \ present}
           acknowledged == {[q EXCEPT !.confirmed = @ \cup {s}] : q \in hit}
<1>1. CASE r \in retired \ hit
  BY <1>1
<1>2. CASE r \in acknowledged /\ Unconfirmed(r) # {}
  <2>1. PICK q \in hit : r = [q EXCEPT !.confirmed = @ \cup {s}]
    BY <1>2
  <2>2. q \in Retirement
    BY DEF RepositoryTypeOK
  <2>3. r.user = q.user /\ r.targets = q.targets /\ r.confirmed = q.confirmed \cup {s}
    BY <2>1, <2>2 DEF Retirement
  <2> QED
    BY <1>2, <2>3
<1> QED
  BY <1>1, <1>2 DEF ConfirmedAt

(* A commit that changes neither bindings, retirements nor tombstones, and  *)
(* turns only unborn people into living ones.                               *)
LEMMA Unaffected ==
  ASSUME RepositoryTypeOK, Accounting,
         UNCHANGED <<bindings, tombstones, retired>>,
         \A u \in User : \/ users'[u].status = users[u].status
                         \/ users[u].status = "unborn" /\ users'[u].status = "live"
  PROVE  Accounting'
<1>1. BindingAccounted'
  BY DEF Accounting, BindingAccounted
<1>2. \A r \in retired : r.user \in User
  BY DEF RepositoryTypeOK, Retirement
<1>3. RetirementsAccounted'
  BY <1>2 DEF Accounting, RetirementsAccounted, Known
<1> QED
  BY <1>1, <1>3 DEF Accounting

(* A commit that withdraws credentials of a living person, at a station or  *)
(* more, and may take a device record over for that person.                 *)
LEMMA Withdrawn ==
  ASSUME RepositoryTypeOK, Accounting, NEW u \in User, users[u].status = "live",
         \A v \in User : users'[v].status = users[v].status,
         \A t \in Station, v \in User \ {u} : bindings'[t][v] = bindings[t][v],
         UNCHANGED tombstones, NEW secrets, NEW targets,
         retired' \subseteq retired \cup Retirements(u, secrets, targets)
  PROVE  Accounting'
<1>1. BindingAccounted'
  BY DEF Accounting, BindingAccounted
<1>2. ASSUME NEW r \in retired' PROVE
        /\ Known(users'[r.user])
        /\ r.confirmed \subseteq r.targets
        /\ Unconfirmed(r) # {}
        /\ users'[r.user].status = "tombstone" =>
             /\ r.targets \subseteq tombstones[r.user].targets
             /\ r.targets \cap tombstones[r.user].confirmed \subseteq r.confirmed
  <2>1. CASE r \in retired
    BY <2>1 DEF Accounting, RetirementsAccounted, Known, RepositoryTypeOK, Retirement
  <2>2. CASE r \in Retirements(u, secrets, targets)
    BY <2>2, RetirementsShape DEF Known, Unconfirmed
  <2> QED
    BY <2>1, <2>2
<1> QED
  BY <1>1, <1>2 DEF Accounting, RetirementsAccounted, Known, Unconfirmed
-----------------------------------------------------------------------------
(* The commits of the administrators. *)

LEMMA AdministratorAccounts ==
  ASSUME RepositoryTypeOK, Accounting, NEW u \in User, Administrator(u)
  PROVE  Accounting'
<1>1. CASE CreateUser(u)
  <2>1. \A v \in User : \/ users'[v].status = users[v].status
                        \/ users[v].status = "unborn" /\ users'[v].status = "live"
    BY <1>1 DEF CreateUser, Create, RepositoryTypeOK
  <2> QED
    BY <1>1, <2>1, Unaffected DEF CreateUser, Create
<1>2. CASE UpdateUser(u)
  <2>1. PICK pin, cards, assigned, granted : Update(u, pin, cards, assigned, granted)
    BY <1>2 DEF UpdateUser
  <2> DEFINE new == [users[u] EXCEPT !.revision = @ + 1, !.pin = pin, !.cards = cards,
                                    !.assigned = assigned, !.granted = granted]
             secrets == Secrets(users[u]) \ Secrets(new)
  <2>2. users[u].status = "live" /\ UNCHANGED <<bindings, tombstones>>
    BY <2>1 DEF Update
  <2>3. \A v \in User : users'[v].status = users[v].status
    BY <2>1 DEF Update, RepositoryTypeOK, UserRecord
  <2>4. retired' \subseteq retired \cup Retirements(u, secrets, Targets(u))
    BY <2>1 DEF Update
  <2> QED
    BY <2>2, <2>3, <2>4, Withdrawn
<1>3. CASE EditUserProfile(u)
  <2>1. \A v \in User : users'[v].status = users[v].status
    BY <1>3 DEF EditUserProfile, EditProfile, RepositoryTypeOK, UserRecord
  <2> QED
    BY <1>3, <2>1, Unaffected DEF EditUserProfile, EditProfile
<1>4. CASE DeleteUser(u)
  <2> DEFINE withdrawn == UNION {r.targets : r \in {q \in retired : q.user = u}}
             targets == Targets(u) \cup withdrawn
  <2>1. users[u].status = "live" /\ UNCHANGED <<bindings, retired>>
    BY <1>4 DEF DeleteUser, Delete
  <2>2. \A v \in User \ {u} : users'[v] = users[v] /\ tombstones'[v] = tombstones[v]
    BY <1>4 DEF DeleteUser, Delete, RepositoryTypeOK
  <2>3. \A s \in Station : bindings[s][u] # None => s \in targets
    BY DEF Targets
  <2>4. \A r \in retired : r.user = u => r.targets \subseteq targets /\ r.targets # {}
    BY DEF Accounting, RetirementsAccounted, Unconfirmed
  <2>5. \A r \in retired : r.user \in User
    BY DEF RepositoryTypeOK, Retirement
  <2>6. CASE targets = {}
    <3>1. \A r \in retired : r.user # u
      BY <2>4, <2>6
    <3>2. \A s \in Station : bindings[s][u] = None
      BY <2>3, <2>6
    <3> QED
      BY <2>1, <2>2, <2>5, <3>1, <3>2
      DEF Accounting, BindingAccounted, RetirementsAccounted, Known
  <2>7. CASE targets # {}
    <3>1. /\ users' = [users EXCEPT ![u].status = "tombstone"]
          /\ tombstones' = [tombstones EXCEPT ![u] =
               [targets |-> targets, confirmed |-> {}]]
      BY <1>4, <2>7 DEF DeleteUser, Delete
    <3>2. users'[u].status = "tombstone"
      BY <3>1 DEF RepositoryTypeOK, UserRecord
    <3>3. tombstones'[u].targets = targets /\ tombstones'[u].confirmed = {}
      BY <3>1 DEF RepositoryTypeOK
    <3>4. BindingAccounted'
      BY <2>1, <2>2, <2>3, <3>2, <3>3 DEF Accounting, BindingAccounted, Unconfirmed
    <3>5. RetirementsAccounted'
      BY <2>1, <2>2, <2>4, <2>5, <3>2, <3>3
      DEF Accounting, RetirementsAccounted, Known
    <3> QED
      BY <3>4, <3>5 DEF Accounting
  <2> QED
    BY <2>6, <2>7
<1> QED
  BY <1>1, <1>2, <1>3, <1>4 DEF Administrator

LEMMA AdoptAccounts ==
  ASSUME RepositoryTypeOK, Accounting, NEW s \in Station, NEW u \in User, Adopt(s, u)
  PROVE  Accounting'
<1>1. ASSUME NEW status, AdoptNew(s, u, device[s][u], status)
      PROVE  Accounting'
  <2>1. /\ users[u].status = "unborn" /\ status \in {"live", "tombstone"}
        /\ UNCHANGED retired
    BY <1>1 DEF AdoptNew
  <2>2. /\ users'[u].status = status
        /\ status = "tombstone" =>
             tombstones'[u].targets = {s} /\ tombstones'[u].confirmed = {}
        /\ \A v \in User \ {u} : users'[v] = users[v] /\ tombstones'[v] = tombstones[v]
        /\ \A t \in Station, v \in User :
             t # s \/ v # u => bindings'[t][v] = bindings[t][v]
    BY <1>1 DEF AdoptNew, RepositoryTypeOK
  <2>3. \A t \in Station : bindings[t][u] = None
    BY <2>1 DEF Accounting, BindingAccounted
  <2>4. BindingAccounted'
    BY <2>1, <2>2, <2>3 DEF Accounting, BindingAccounted, Unconfirmed
  <2>5. \A r \in retired : r.user \in User \ {u}
    BY <2>1 DEF Accounting, RetirementsAccounted, Known, RepositoryTypeOK, Retirement
  <2>6. RetirementsAccounted'
    BY <2>1, <2>2, <2>5 DEF Accounting, RetirementsAccounted, Known
  <2> QED
    BY <2>4, <2>6 DEF Accounting
<1>2. ASSUME NEW granted, AdoptExisting(s, u, device[s][u], granted)
      PROVE  Accounting'
  <2>1. /\ users[u].status = "live" /\ UNCHANGED <<tombstones, retired>>
        /\ \A v \in User : users'[v].status = users[v].status
        /\ \A t \in Station, v \in User \ {u} : bindings'[t][v] = bindings[t][v]
    BY <1>2 DEF AdoptExisting, RepositoryTypeOK, UserRecord
  <2> QED
    BY <2>1, Withdrawn
<1> QED
  BY <1>1, <1>2 DEF Adopt

LEMMA ResolveAccounts ==
  ASSUME RepositoryTypeOK, Accounting, NEW s \in Station, NEW u \in User, Resolve(s, u)
  PROVE  Accounting'
<1>1. CASE ResolveCentral(s, u, device[s][u])
  <2>1. /\ users[u].status = "live" /\ UNCHANGED <<tombstones, retired>>
        /\ \A v \in User : users'[v].status = users[v].status
        /\ \A t \in Station, v \in User \ {u} : bindings'[t][v] = bindings[t][v]
    BY <1>1 DEF ResolveCentral, RepositoryTypeOK, UserRecord
  <2> QED
    BY <2>1, Withdrawn
<1>2. CASE ResolveDevice(s, u, device[s][u])
  <2> DEFINE content == device[s][u]
             new == [users[u] EXCEPT !.revision = @ + 1, !.pin = content.pin,
                                     !.cards = content.cards]
             secrets == Secrets(users[u]) \ Secrets(new)
  <2>1. /\ users[u].status = "live" /\ UNCHANGED tombstones
        /\ retired' \subseteq retired \cup Retirements(u, secrets, Targets(u))
    BY <1>2 DEF ResolveDevice
  <2>2. /\ \A v \in User : users'[v].status = users[v].status
        /\ \A t \in Station, v \in User \ {u} : bindings'[t][v] = bindings[t][v]
    BY <1>2 DEF ResolveDevice, RepositoryTypeOK, UserRecord
  <2> QED
    BY <2>1, <2>2, Withdrawn
<1>3. CASE ResolveDeletion(s, u, device[s][u])
  <2>1. /\ users[u].status = "tombstone" /\ s \in Unconfirmed(tombstones[u])
        /\ UNCHANGED <<users, tombstones, retired>>
        /\ \A t \in Station, v \in User :
             t # s \/ v # u => bindings'[t][v] = bindings[t][v]
    BY <1>3 DEF ResolveDeletion, RepositoryTypeOK
  <2>2. BindingAccounted'
    BY <2>1 DEF Accounting, BindingAccounted, Unconfirmed
  <2>3. RetirementsAccounted'
    BY <2>1 DEF Accounting, RetirementsAccounted, Unconfirmed
  <2> QED
    BY <2>2, <2>3 DEF Accounting
<1> QED
  BY <1>1, <1>2, <1>3 DEF Resolve
-----------------------------------------------------------------------------
(* The commits of the engine. *)

LEMMA WriteIntentAccounts ==
  ASSUME RepositoryTypeOK, Accounting, NEW s \in Station, NEW u \in User,
         NEW revision, NEW want, NEW current, NEW desired,
         WriteIntent(s, u, revision, Operation(want, current), current, desired)
  PROVE  Accounting'
<1>1. /\ UNCHANGED <<users, tombstones, retired>>
      /\ \A t \in Station, v \in User :
           t # s \/ v # u => bindings'[t][v] = bindings[t][v]
  BY DEF WriteIntent, RepositoryTypeOK
<1>2. bindings[s][u] = None => users[u].status = "live"
  BY DEF WriteIntent, IntentAllowed, Known
<1>3. BindingAccounted'
  BY <1>1, <1>2 DEF Accounting, BindingAccounted, Unconfirmed
<1>4. RetirementsAccounted'
  BY <1>1 DEF Accounting, RetirementsAccounted, Unconfirmed
<1> QED
  BY <1>3, <1>4 DEF Accounting

LEMMA RecordObservationAccounts ==
  ASSUME RepositoryTypeOK, Accounting, NEW s \in Station, NEW u \in User,
         NEW content, NEW revision, RecordObservation(s, u, content, revision)
  PROVE  Accounting'
<1>1. /\ UNCHANGED <<users, tombstones, retired>> /\ bindings[s][u] # None
      /\ \A t \in Station, v \in User :
           t # s \/ v # u => bindings'[t][v] = bindings[t][v]
  BY DEF RecordObservation, RepositoryTypeOK
<1>2. BindingAccounted'
  BY <1>1 DEF Accounting, BindingAccounted, Unconfirmed
<1>3. RetirementsAccounted'
  BY <1>1 DEF Accounting, RetirementsAccounted, Unconfirmed
<1> QED
  BY <1>2, <1>3 DEF Accounting

(* A confirmation for a person keeps the retirements of everybody else, and *)
(* those it touches stay within their targets.                              *)
LEMMA ConfirmRemovalsAccounts ==
  ASSUME RepositoryTypeOK, Accounting, NEW s \in Station, NEW u \in User,
         NEW kind, NEW present, ConfirmRemovals(s, u, kind, present)
  PROVE  Accounting'
<1>1. UNCHANGED <<users, bindings, tombstones>>
  BY DEF ConfirmRemovals
<1>2. BindingAccounted'
  BY <1>1 DEF Accounting, BindingAccounted, Unconfirmed
<1>3. ASSUME NEW r \in retired' PROVE
        /\ Known(users[r.user])
        /\ r.confirmed \subseteq r.targets
        /\ Unconfirmed(r) # {}
        /\ users[r.user].status = "tombstone" =>
             /\ r.targets \subseteq tombstones[r.user].targets
             /\ r.targets \cap tombstones[r.user].confirmed \subseteq r.confirmed
  <2>1. CASE r \in retired
    BY <2>1 DEF Accounting, RetirementsAccounted
  <2>2. CASE \E q \in retired :
              /\ q.user = u /\ s \in q.targets
              /\ r.user = u /\ r.targets = q.targets
              /\ r.confirmed = q.confirmed \cup {s}
              /\ Unconfirmed(r) # {}
    BY <2>2 DEF Accounting, RetirementsAccounted
  <2> QED
    BY <2>1, <2>2, ConfirmedAtShape DEF ConfirmRemovals
<1>4. RetirementsAccounted'
  BY <1>1, <1>3 DEF RetirementsAccounted, Unconfirmed
<1> QED
  BY <1>2, <1>4 DEF Accounting

(* A station confirms that nothing of a person is left on it: the deletion  *)
(* and the withdrawn credentials of that person advance together, so when   *)
(* the deletion is complete nothing withdrawn is left over.                 *)
LEMMA ConfirmAbsentAccounts ==
  ASSUME RepositoryTypeOK, Accounting, NEW s \in Station, NEW u \in User,
         NEW revision, ConfirmAbsent(s, u, revision)
  PROVE  Accounting'
<1> DEFINE confirmed == tombstones[u].confirmed \cup {s}
           finished == tombstones[u].targets \subseteq confirmed
<1>1. /\ bindings'[s][u] = None
      /\ \A t \in Station, v \in User :
           t # s \/ v # u => bindings'[t][v] = bindings[t][v]
  BY DEF ConfirmAbsent, RepositoryTypeOK
<1>2. \A v \in User \ {u} : users'[v] = users[v] /\ tombstones'[v] = tombstones[v]
  BY DEF ConfirmAbsent, RepositoryTypeOK
<1>3. CASE users[u].status # "tombstone"
  <2>1. UNCHANGED <<users, tombstones>>
    BY <1>3 DEF ConfirmAbsent
  <2>2. BindingAccounted'
    BY <1>1, <2>1 DEF Accounting, BindingAccounted, Unconfirmed
  <2>3. ASSUME NEW r \in retired' PROVE
          /\ Known(users[r.user])
          /\ r.confirmed \subseteq r.targets
          /\ Unconfirmed(r) # {}
          /\ users[r.user].status = "tombstone" =>
               /\ r.targets \subseteq tombstones[r.user].targets
               /\ r.targets \cap tombstones[r.user].confirmed \subseteq r.confirmed
    <3>1. r \in ConfirmedAt(s, u, Card \cup Pin, {})
      BY DEF ConfirmAbsent
    <3>2. CASE r \in retired
      BY <3>2 DEF Accounting, RetirementsAccounted
    <3>3. CASE \E q \in retired :
                /\ q.user = u /\ s \in q.targets
                /\ r.user = u /\ r.targets = q.targets
                /\ r.confirmed = q.confirmed \cup {s}
                /\ Unconfirmed(r) # {}
      BY <3>3 DEF Accounting, RetirementsAccounted
    <3> QED
      BY <3>1, <3>2, <3>3, ConfirmedAtShape
  <2> QED
    BY <2>1, <2>2, <2>3 DEF Accounting, RetirementsAccounted, Unconfirmed
<1>4. CASE users[u].status = "tombstone"
  <2>1. ~finished => /\ users' = users
                     /\ tombstones'[u].targets = tombstones[u].targets
                     /\ tombstones'[u].confirmed = confirmed
    BY <1>4 DEF ConfirmAbsent, RepositoryTypeOK, Tombstone
  <2>2. finished => users'[u].status = "gone"
    BY <1>4 DEF ConfirmAbsent, RepositoryTypeOK, UserRecord
  <2>3. BindingAccounted'
    <3>1. SUFFICES ASSUME NEW t \in Station, NEW v \in User, bindings'[t][v] # None
                   PROVE  \/ users'[v].status = "live"
                          \/ /\ users'[v].status = "tombstone"
                             /\ t \in Unconfirmed(tombstones'[v])
      BY DEF BindingAccounted, Unconfirmed
    <3>2. bindings[t][v] # None /\ (t # s \/ v # u)
      BY <1>1, <3>1
    <3>3. \/ users[v].status = "live"
          \/ users[v].status = "tombstone" /\ t \in Unconfirmed(tombstones[v])
      BY <3>2 DEF Accounting, BindingAccounted
    <3>4. CASE v # u
      BY <1>2, <3>3, <3>4
    <3>5. CASE v = u
      <4>1. t # s /\ t \in tombstones[u].targets \ confirmed
        BY <1>4, <3>2, <3>3, <3>5 DEF Unconfirmed
      <4> QED
        BY <1>4, <2>1, <3>5, <4>1 DEF Unconfirmed
    <3> QED
      BY <3>4, <3>5
  <2>4. ASSUME NEW r \in retired' PROVE
          /\ Known(users'[r.user])
          /\ r.confirmed \subseteq r.targets
          /\ Unconfirmed(r) # {}
          /\ users'[r.user].status = "tombstone" =>
               /\ r.targets \subseteq tombstones'[r.user].targets
               /\ r.targets \cap tombstones'[r.user].confirmed \subseteq r.confirmed
    <3>1. r \in ConfirmedAt(s, u, Card \cup Pin, {})
      BY DEF ConfirmAbsent
    <3>2. /\ \A q \in retired : /\ q.user \in User
                               /\ q.secret \in Card \cup Pin
      BY DEF RepositoryTypeOK, Retirement
    <3>3. CASE r \in retired /\ r.user # u
      BY <1>2, <3>2, <3>3 DEF Accounting, RetirementsAccounted, Known
    <3>4. CASE r.user = u
      <4>1. /\ r.confirmed \subseteq r.targets /\ Unconfirmed(r) # {}
            /\ r.targets \subseteq tombstones[u].targets
            /\ r.targets \cap confirmed \subseteq r.confirmed
        <5>1. CASE r \in retired /\ s \notin r.targets
          BY <1>4, <3>4, <5>1 DEF Accounting, RetirementsAccounted
        <5>2. CASE \E q \in retired :
                    /\ q.user = u /\ s \in q.targets
                    /\ r.user = u /\ r.targets = q.targets
                    /\ r.confirmed = q.confirmed \cup {s}
                    /\ Unconfirmed(r) # {}
          BY <1>4, <5>2 DEF Accounting, RetirementsAccounted
        <5> QED
          BY <3>1, <3>2, <3>4, <5>1, <5>2, ConfirmedAtShape
      <4>2. ~finished
        BY <4>1 DEF Unconfirmed
      <4> QED
        BY <1>4, <2>1, <3>4, <4>1, <4>2 DEF Known
    <3> QED
      BY <3>1, <3>3, <3>4, ConfirmedAtShape
  <2> QED
    BY <2>3, <2>4 DEF Accounting, RetirementsAccounted, Unconfirmed
<1> QED
  BY <1>3, <1>4
-----------------------------------------------------------------------------
LEMMA EngineAccounts ==
  ASSUME TypeInv, Accounting, NEW s \in Station, Engine(s) \/ Failure(s)
  PROVE  Accounting'
<1>0. RepositoryTypeOK
  BY DEF TypeInv, TypeOK
<1> DEFINE u == job[s].user
<1>1. pc[s] # "idle" => u \in User
  BY JobType
<1>2. ASSUME UNCHANGED <<users, bindings, tombstones, retired>> PROVE Accounting'
  BY <1>0, <1>2, Unaffected
<1>3. CASE \/ Reconcile(s) \/ (\E v \in User : Start(s, v)) \/ Write(s)
           \/ BlockedElsewhere(s) \/ Failure(s)
  BY <1>2, <1>3 DEF Reconcile, Start, Write, BlockedElsewhere, Fail, Failure,
       WriteIgnored, ConnectionFailed, Refused, Cancelled, StationFailed, repository
<1>4. CASE Inspect(s)
  BY <1>0, <1>1, <1>2, <1>4, ConfirmAbsentAccounts, RecordObservationAccounts
  DEF Inspect, Fail, repository
<1>5. CASE Journal(s)
  BY <1>0, <1>1, <1>2, <1>5, WriteIntentAccounts DEF Journal, Fail
<1>6. CASE Readback(s) \/ Finish(s)
  BY <1>0, <1>1, <1>2, <1>6, RecordObservationAccounts DEF Readback, Finish, Fail
<1>7. CASE Removed(s)
  BY <1>0, <1>1, <1>7, ConfirmAbsentAccounts DEF Removed
<1>8. CASE ConfirmCards(s) \/ ConfirmPins(s)
  BY <1>0, <1>1, <1>8, ConfirmRemovalsAccounts DEF ConfirmCards, ConfirmPins
<1> QED
  BY <1>3, <1>4, <1>5, <1>6, <1>7, <1>8 DEF Engine

LEMMA AccountingStep == TypeInv /\ Accounting /\ [Next]_vars => Accounting'
<1> SUFFICES ASSUME TypeInv, Accounting, [Next]_vars PROVE Accounting'
  OBVIOUS
<1>1. RepositoryTypeOK
  BY DEF TypeInv, TypeOK
<1>2. ASSUME UNCHANGED <<users, bindings, tombstones, retired>> PROVE Accounting'
  BY <1>1, <1>2, Unaffected
<1>3. ASSUME NEW s \in Station, NEW u \in User, External(s, u) PROVE Accounting'
  BY <1>2, <1>3 DEF External, repository
<1>4. CASE Restart
  BY <1>2, <1>4 DEF Restart, Reload
<1>5. CASE UNCHANGED vars
  BY <1>2, <1>5 DEF vars, repository
<1> QED
  BY <1>1, <1>3, <1>4, <1>5, EngineAccounts, AdministratorAccounts, AdoptAccounts,
     ResolveAccounts DEF Next

LEMMA AccountingInvariant == Spec => []Accounting
<1>1. Init => Accounting
  BY DEF Init, RepositoryInit, Accounting, BindingAccounted, RetirementsAccounted
<1>2. TypeInv /\ Accounting /\ [Next]_vars => Accounting'
  BY AccountingStep
<1> QED
  BY <1>1, <1>2, TypeInvariant, PTL DEF Spec

(* Every device record the code owns is some living person's, or a deletion *)
(* is still waiting for that very station: no order of edits, deletions,    *)
(* adoptions, engine steps and restarts orphans a binding.                  *)
THEOREM BindingsAccounted == Spec => []BindingAccounted
<1>1. Accounting => BindingAccounted
  BY DEF Accounting
<1> QED
  BY <1>1, AccountingInvariant, PTL

(* The part of the file that lists withdrawn credentials can be read again  *)
(* after a restart at any instant: its owner is on record and no station    *)
(* has confirmed what it was not asked for.                                 *)
THEOREM RetirementsLoad == Spec => []RetiredLoads
<1>1. Accounting => RetiredLoads
  BY DEF Accounting, RetirementsAccounted, RetiredLoads
<1> QED
  BY <1>1, AccountingInvariant, PTL
=============================================================================
