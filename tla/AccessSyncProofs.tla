-------------------------- MODULE AccessSyncProofs --------------------------
(***************************************************************************)
(* Proofs about the reconciliation, for any number of people, stations,    *)
(* credentials, edits and faults.                                          *)
(***************************************************************************)
EXTENDS AccessSyncSafety, TLAPS

(* What the place of an engine in its transaction says about its own        *)
(* memory and about the binding it works on: nobody else touches that       *)
(* binding until the engine leaves the transaction.                         *)
Transaction ==
  \A s \in Station :
    /\ pc[s] # "idle" => job[s] # None
    /\ pc[s] \notin {"idle", "read"} => job[s].current # None
    /\ pc[s] \in {"write", "readback"} =>
         /\ bindings[s][job[s].user] # None
         /\ bindings[s][job[s].user].intent # None

TypeInv == TypeOK /\ Transaction
-----------------------------------------------------------------------------
(* Types of what the operators of the ledger return. *)

LEMMA SecretsType ==
  ASSUME NEW r, r.cards \in SUBSET Card, r.pin \in Pin \cup {NoPin}
  PROVE  Secrets(r) \in SUBSET (Card \cup Pin)
BY DEF Secrets

LEMMA DesiredType ==
  ASSUME NEW r \in UserRecord, NEW s \in Station
  PROVE  Desired(r, s) \in Content
BY DEF Desired, UserRecord, Content, Absent

LEMMA AbsentType == Absent \in Content
BY DEF Absent, Content

LEMMA UserRecordEdits ==
  /\ \A r \in UserRecord, x \in Statuses : [r EXCEPT !.status = x] \in UserRecord
  /\ \A r \in UserRecord, n \in Nat : [r EXCEPT !.revision = n] \in UserRecord
  /\ \A r \in UserRecord : r.revision + 1 \in Nat
BY DEF UserRecord

LEMMA StatusEdit ==
  ASSUME RepositoryTypeOK, NEW u \in User, NEW x \in Statuses
  PROVE  [users EXCEPT ![u].status = x] \in [User -> UserRecord]
<1>1. [users[u] EXCEPT !.status = x] \in UserRecord
  BY UserRecordEdits DEF RepositoryTypeOK
<1> QED
  BY <1>1 DEF RepositoryTypeOK

LEMMA UserRecordUpdates ==
  ASSUME NEW r \in UserRecord, NEW n \in Nat, NEW p \in Pin \cup {NoPin},
         NEW c \in SUBSET Card
  PROVE  /\ [r EXCEPT !.revision = n, !.pin = p, !.cards = c] \in UserRecord
         /\ \A a, g \in SUBSET Station :
              /\ [r EXCEPT !.revision = n, !.assigned = a, !.granted = g]
                   \in UserRecord
              /\ [r EXCEPT !.revision = n, !.pin = p, !.cards = c,
                           !.assigned = a, !.granted = g] \in UserRecord
BY DEF UserRecord

LEMMA ProgressTypes ==
  /\ NotApplied \in Progress
  /\ \A n \in Nat, x \in SyncStates : [applied |-> n, sync |-> x] \in Progress
  /\ \A p \in Progress, x \in SyncStates : [p EXCEPT !.sync = x] \in Progress
  /\ \A p \in Progress, n \in Nat : [p EXCEPT !.applied = n] \in Progress
BY DEF NotApplied, Progress, SyncStates

LEMMA MarkedType ==
  ASSUME RepositoryTypeOK, NEW u \in User, NEW s \in Station, NEW x \in SyncStates
  PROVE  Marked(u, s, x) \in [User -> [Station -> Progress]]
BY ProgressTypes DEF Marked, RepositoryTypeOK

LEMMA RebuiltType ==
  ASSUME RepositoryTypeOK, NEW u \in User, NEW assigned
  PROVE  Rebuilt(u, assigned) \in [User -> [Station -> Progress]]
<1>1. "pending" \in SyncStates
  BY DEF SyncStates
<1>2. \A s \in Station : (IF s \in assigned
        THEN [progress[u][s] EXCEPT !.sync = "pending"] ELSE NotApplied) \in Progress
  BY <1>1, ProgressTypes DEF RepositoryTypeOK
<1> QED
  BY <1>2 DEF Rebuilt, RepositoryTypeOK

LEMMA TargetsType ==
  ASSUME RepositoryTypeOK, NEW u \in User
  PROVE  Targets(u) \in SUBSET Station
BY DEF Targets, RepositoryTypeOK, UserRecord

LEMMA RetirementsType ==
  ASSUME NEW u \in User, NEW secrets \in SUBSET (Card \cup Pin),
         NEW targets \in SUBSET Station
  PROVE  Retirements(u, secrets, targets) \subseteq Retirement
BY DEF Retirements, Retirement

LEMMA ConfirmedAtType ==
  ASSUME RepositoryTypeOK, NEW s \in Station, NEW u, NEW kind, NEW present
  PROVE  ConfirmedAt(s, u, kind, present) \subseteq Retirement
<1>1. \A r \in retired : [r EXCEPT !.confirmed = @ \cup {s}] \in Retirement
  BY DEF RepositoryTypeOK, Retirement
<1> QED
  BY <1>1 DEF ConfirmedAt, RepositoryTypeOK

LEMMA OwningType ==
  ASSUME NEW c \in Content
  PROVE  Owning(c) \in Binding
BY DEF Owning, Binding
-----------------------------------------------------------------------------
(* Every commit of the ledger keeps the types. *)

LEMMA CreateType ==
  ASSUME RepositoryTypeOK, NEW u \in User, NEW pin \in Pin \cup {NoPin},
         NEW cards \in SUBSET Card, NEW assigned \in SUBSET Station,
         NEW granted \in SUBSET Station, Create(u, pin, cards, assigned, granted)
  PROVE  RepositoryTypeOK'
<1>1. users' \in [User -> UserRecord]
  BY DEF Create, RepositoryTypeOK, UserRecord, Statuses
<1> QED
  BY <1>1 DEF Create, RepositoryTypeOK

LEMMA UpdateType ==
  ASSUME RepositoryTypeOK, NEW u \in User, NEW pin \in Pin \cup {NoPin},
         NEW cards \in SUBSET Card, NEW assigned \in SUBSET Station,
         NEW granted \in SUBSET Station, Update(u, pin, cards, assigned, granted)
  PROVE  RepositoryTypeOK'
<1> DEFINE old == users[u]
           new == [old EXCEPT !.revision = @ + 1, !.pin = pin, !.cards = cards,
                              !.assigned = assigned, !.granted = granted]
           secrets == Secrets(old) \ Secrets(new)
<1>0. old \in UserRecord /\ old.revision + 1 \in Nat
  BY UserRecordEdits DEF RepositoryTypeOK
<1>1. new \in UserRecord
  BY <1>0, UserRecordUpdates
<1>2. users' \in [User -> UserRecord]
  BY <1>1 DEF Update, RepositoryTypeOK
<1>3. progress' \in [User -> [Station -> Progress]]
  BY RebuiltType DEF Update
<1>4. secrets \in SUBSET (Card \cup Pin)
  BY <1>0, <1>1, SecretsType DEF UserRecord
<1>5. Retirements(u, secrets, Targets(u)) \subseteq Retirement
  BY <1>4, TargetsType, RetirementsType
<1>6. retired' \subseteq Retirement
  BY <1>5 DEF Update, RepositoryTypeOK
<1> QED
  BY <1>2, <1>3, <1>6 DEF Update, RepositoryTypeOK

LEMMA EditProfileType ==
  ASSUME RepositoryTypeOK, NEW u \in User, EditProfile(u)
  PROVE  RepositoryTypeOK'
<1>1. users' \in [User -> UserRecord]
  BY UserRecordEdits DEF EditProfile, RepositoryTypeOK
<1>2. users[u].revision + 1 \in Nat
  BY UserRecordEdits DEF RepositoryTypeOK
<1>3. progress' \in [User -> [Station -> Progress]]
  BY <1>2, ProgressTypes DEF EditProfile, RepositoryTypeOK
<1> QED
  BY <1>1, <1>3 DEF EditProfile, RepositoryTypeOK

LEMMA DeleteType ==
  ASSUME RepositoryTypeOK, NEW u \in User, Delete(u)
  PROVE  RepositoryTypeOK'
<1> DEFINE withdrawn == UNION {r.targets : r \in {q \in retired : q.user = u}}
<1>1. users' \in [User -> UserRecord]
  <2>1. \A x \in {"gone", "tombstone"} :
          [users EXCEPT ![u].status = x] \in [User -> UserRecord]
    BY StatusEdit DEF Statuses
  <2>2. \E x \in {"gone", "tombstone"} : users' = [users EXCEPT ![u].status = x]
    BY DEF Delete
  <2> QED
    BY <2>1, <2>2
<1>2. Targets(u) \cup withdrawn \in SUBSET Station
  BY TargetsType DEF RepositoryTypeOK, Retirement
<1>3. [targets |-> Targets(u) \cup withdrawn, confirmed |-> {}] \in Tombstone
  BY <1>2 DEF Tombstone
<1>5. tombstones' \in [User -> Tombstone]
  BY <1>3 DEF Delete, RepositoryTypeOK
<1>4. progress' \in [User -> [Station -> Progress]]
  BY ProgressTypes DEF Delete, RepositoryTypeOK
<1> QED
  BY <1>1, <1>4, <1>5 DEF Delete, RepositoryTypeOK

LEMMA AdoptNewType ==
  ASSUME RepositoryTypeOK, NEW s \in Station, NEW u \in User,
         NEW content \in Content, NEW status, AdoptNew(s, u, content, status)
  PROVE  RepositoryTypeOK'
<1>1. users' \in [User -> UserRecord]
  BY DEF AdoptNew, RepositoryTypeOK, UserRecord, Statuses, Content
<1>2. tombstones' \in [User -> Tombstone]
  BY DEF AdoptNew, RepositoryTypeOK, Tombstone
<1>3. bindings' \in [Station -> [User -> Binding \cup {None}]]
  BY OwningType DEF AdoptNew, RepositoryTypeOK
<1> QED
  BY <1>1, <1>2, <1>3 DEF AdoptNew, RepositoryTypeOK

LEMMA AdoptExistingType ==
  ASSUME RepositoryTypeOK, NEW s \in Station, NEW u \in User,
         NEW content \in Content, NEW granted \in SUBSET Station,
         AdoptExisting(s, u, content, granted)
  PROVE  RepositoryTypeOK'
<1>0. users[u] \in UserRecord /\ users[u].revision + 1 \in Nat
  BY UserRecordEdits DEF RepositoryTypeOK
<1>4. users[u].assigned \cup {s} \in SUBSET Station
  BY DEF RepositoryTypeOK, UserRecord
<1>1. users' \in [User -> UserRecord]
  <2> DEFINE new == [users[u] EXCEPT !.revision = @ + 1, !.assigned = @ \cup {s},
                                    !.granted = granted]
  <2>1. users' = [users EXCEPT ![u] = new]
    BY DEF AdoptExisting, RepositoryTypeOK
  <2>2. new \in UserRecord
    BY <1>0, <1>4, UserRecordUpdates DEF UserRecord
  <2> QED
    BY <2>1, <2>2 DEF RepositoryTypeOK
<1>2. bindings' \in [Station -> [User -> Binding \cup {None}]]
  BY OwningType DEF AdoptExisting, RepositoryTypeOK
<1>3. progress' \in [User -> [Station -> Progress]]
  BY RebuiltType, ProgressTypes DEF AdoptExisting
<1> QED
  BY <1>1, <1>2, <1>3 DEF AdoptExisting, RepositoryTypeOK

LEMMA WriteIntentType ==
  ASSUME RepositoryTypeOK, NEW s \in Station, NEW u \in User, NEW revision,
         NEW operation, NEW before \in Content, NEW desired \in Content,
         WriteIntent(s, u, revision, operation, before, desired)
  PROVE  /\ RepositoryTypeOK'
         /\ bindings'[s][u] # None
         /\ bindings'[s][u].intent = [before |-> before, desired |-> desired]
<1> DEFINE intent == [before |-> before, desired |-> desired]
           owned == IF bindings[s][u] # None THEN bindings[s][u]
                    ELSE [fingerprint |-> None, intent |-> None]
<1>1. intent \in Intent
  BY DEF Intent
<1>2. owned \in Binding
  BY DEF RepositoryTypeOK, Binding
<1>3. [owned EXCEPT !.intent = intent] \in Binding
  BY <1>1, <1>2 DEF Binding
<1>4. bindings' = [bindings EXCEPT ![s][u] = [owned EXCEPT !.intent = intent]]
  BY DEF WriteIntent
<1>5. bindings' \in [Station -> [User -> Binding \cup {None}]]
  BY <1>3, <1>4 DEF RepositoryTypeOK
<1>6. bindings'[s][u] = [owned EXCEPT !.intent = intent]
  BY <1>4 DEF RepositoryTypeOK
<1>7. bindings'[s][u].intent = intent
  BY <1>2, <1>6 DEF Binding
<1> QED
  BY <1>3, <1>5, <1>6, <1>7, NoneAssumption DEF WriteIntent, RepositoryTypeOK

LEMMA RecordObservationType ==
  ASSUME RepositoryTypeOK, NEW s \in Station, NEW u \in User,
         NEW content \in Content, NEW revision \in Nat,
         RecordObservation(s, u, content, revision)
  PROVE  RepositoryTypeOK'
<1>1. bindings' \in [Station -> [User -> Binding \cup {None}]]
  BY OwningType DEF RecordObservation, RepositoryTypeOK
<1>2. {"synced", "pending"} \subseteq SyncStates
  BY DEF SyncStates
<1>3. progress' \in [User -> [Station -> Progress]]
  BY <1>2, ProgressTypes DEF RecordObservation, RepositoryTypeOK
<1> QED
  BY <1>1, <1>3 DEF RecordObservation, RepositoryTypeOK

LEMMA ConfirmAbsentType ==
  ASSUME RepositoryTypeOK, NEW s \in Station, NEW u \in User,
         NEW revision \in Nat, ConfirmAbsent(s, u, revision)
  PROVE  RepositoryTypeOK'
<1>1. bindings' \in [Station -> [User -> Binding \cup {None}]]
  BY DEF ConfirmAbsent, RepositoryTypeOK
<1>2. retired' \subseteq Retirement
  BY ConfirmedAtType DEF ConfirmAbsent
<1>3. users' \in [User -> UserRecord]
  BY StatusEdit DEF ConfirmAbsent, RepositoryTypeOK, Statuses
<1>4. tombstones' \in [User -> Tombstone]
  <2>1. NoTombstone \in Tombstone
    BY DEF NoTombstone, Tombstone
  <2>2. [tombstones[u] EXCEPT !.confirmed = tombstones[u].confirmed \cup {s}] \in Tombstone
    BY DEF RepositoryTypeOK, Tombstone
  <2> QED
    BY <2>1, <2>2 DEF ConfirmAbsent, RepositoryTypeOK
<1>5. progress' \in [User -> [Station -> Progress]]
  <2>1. [applied |-> revision, sync |-> "synced"] \in Progress
    BY ProgressTypes DEF SyncStates
  <2> QED
    BY <2>1 DEF ConfirmAbsent, RepositoryTypeOK
<1> QED
  BY <1>1, <1>2, <1>3, <1>4, <1>5 DEF RepositoryTypeOK

LEMMA ConfirmRemovalsType ==
  ASSUME RepositoryTypeOK, NEW s \in Station, NEW u, NEW kind, NEW present,
         ConfirmRemovals(s, u, kind, present)
  PROVE  RepositoryTypeOK'
BY ConfirmedAtType DEF ConfirmRemovals, RepositoryTypeOK

LEMMA ResolveCentralType ==
  ASSUME RepositoryTypeOK, NEW s \in Station, NEW u \in User,
         NEW content \in Content, ResolveCentral(s, u, content)
  PROVE  RepositoryTypeOK'
<1>1. users' \in [User -> UserRecord]
  BY UserRecordEdits DEF ResolveCentral, RepositoryTypeOK
<1>2. bindings' \in [Station -> [User -> Binding \cup {None}]]
  BY OwningType DEF ResolveCentral, RepositoryTypeOK
<1>3. progress' \in [User -> [Station -> Progress]]
  BY RebuiltType DEF ResolveCentral
<1> QED
  BY <1>1, <1>2, <1>3 DEF ResolveCentral, RepositoryTypeOK

LEMMA ResolveDeviceType ==
  ASSUME RepositoryTypeOK, NEW s \in Station, NEW u \in User,
         NEW content \in Content, ResolveDevice(s, u, content)
  PROVE  RepositoryTypeOK'
<1> DEFINE old == users[u]
           new == [old EXCEPT !.revision = @ + 1, !.pin = content.pin,
                              !.cards = content.cards]
           secrets == Secrets(old) \ Secrets(new)
<1>0. old \in UserRecord /\ old.revision + 1 \in Nat
  BY UserRecordEdits DEF RepositoryTypeOK
<1>1. new \in UserRecord
  BY <1>0, UserRecordUpdates DEF Content
<1>2. users' \in [User -> UserRecord]
  BY <1>1 DEF ResolveDevice, RepositoryTypeOK
<1>3. progress' \in [User -> [Station -> Progress]]
  BY RebuiltType DEF ResolveDevice
<1>4. secrets \in SUBSET (Card \cup Pin)
  BY <1>0, <1>1, SecretsType DEF UserRecord
<1>5. Retirements(u, secrets, Targets(u)) \subseteq Retirement
  BY <1>4, TargetsType, RetirementsType
<1>6. retired' \subseteq Retirement
  BY <1>5 DEF ResolveDevice, RepositoryTypeOK
<1>7. bindings' \in [Station -> [User -> Binding \cup {None}]]
  BY OwningType DEF ResolveDevice, RepositoryTypeOK
<1> QED
  BY <1>2, <1>3, <1>6, <1>7 DEF ResolveDevice, RepositoryTypeOK

LEMMA ResolveDeletionType ==
  ASSUME RepositoryTypeOK, NEW s \in Station, NEW u \in User,
         NEW content \in Content, ResolveDeletion(s, u, content)
  PROVE  RepositoryTypeOK'
BY OwningType DEF ResolveDeletion, RepositoryTypeOK

LEMMA ReloadType ==
  ASSUME RepositoryTypeOK, Reload
  PROVE  RepositoryTypeOK'
<1>1. "pending" \in SyncStates
  BY DEF SyncStates
<1>2. progress' \in [User -> [Station -> Progress]]
  BY <1>1, ProgressTypes DEF Reload, RepositoryTypeOK
<1> QED
  BY <1>2 DEF Reload, RepositoryTypeOK
-----------------------------------------------------------------------------
(* Facts about the memory of an engine. *)

LEMMA JobType ==
  ASSUME TypeInv, NEW s \in Station, pc[s] # "idle"
  PROVE  /\ job[s] \in Job
         /\ job[s].user \in User
         /\ job[s].snapshot \in UserRecord
         /\ job[s].snapshot.revision \in Nat
         /\ job[s].current \in Content \cup {None}
         /\ Desired(job[s].snapshot, s) \in Content
<1>1. job[s] \in Job
  BY DEF TypeInv, TypeOK, SyncTypeOK, Transaction
<1>2. job[s].snapshot \in UserRecord
  BY <1>1 DEF Job
<1> QED
  BY <1>1, <1>2, DesiredType DEF Job, UserRecord

LEMMA CurrentType ==
  ASSUME TypeInv, NEW s \in Station, pc[s] \notin {"idle", "read"}
  PROVE  job[s].current \in Content
BY JobType DEF TypeInv, Transaction

LEMMA NextContentsType ==
  ASSUME NEW want \in Content, NEW current \in Content,
         NEW next \in NextContents(want, current)
  PROVE  next \in Content
<1>1. \A c : [current EXCEPT !.cards = @ \ {c}] \in Content
  BY DEF Content
<1>2. \A c \in want.cards : [current EXCEPT !.cards = @ \cup {c}] \in Content
  BY DEF Content
<1>3. [current EXCEPT !.here = TRUE, !.pin = want.pin] \in Content
  BY DEF Content
<1> QED
  BY <1>1, <1>2, <1>3, AbsentType DEF NextContents

(* The part of the state that only the engine of a station changes. *)
EngineTypeOK ==
  /\ pc \in [Station -> Phases]
  /\ job \in [Station -> Job \cup {None}]
  /\ todo \in [Station -> [deletions : SUBSET User, others : SUBSET User]]
  /\ inventory \in [Station -> [User -> Content]]

LEMMA ReleaseType ==
  ASSUME TypeInv, NEW s \in Station, pc[s] # "idle",
         NEW seen \in Content \cup {None}, Release(s, seen)
  PROVE  /\ EngineTypeOK'
         /\ pc'[s] = "idle"
         /\ \A t \in Station \ {s} : pc'[t] = pc[t] /\ job'[t] = job[t]
<1>1. job[s].user \in User
  BY JobType
<1>2. Nothing \in [User -> Content]
  BY AbsentType DEF Nothing
<1>3. inventory' \in [Station -> [User -> Content]]
  <2>1. seen # None => [inventory[s] EXCEPT ![job[s].user] = seen] \in [User -> Content]
    BY <1>1 DEF TypeInv, TypeOK, SyncTypeOK
  <2> QED
    BY <1>2, <2>1 DEF Release, TypeInv, TypeOK, SyncTypeOK
<1> QED
  BY <1>3 DEF Release, EngineTypeOK, Phases, TypeInv, TypeOK, SyncTypeOK

LEMMA FailType ==
  ASSUME TypeInv, NEW s \in Station, pc[s] # "idle",
         NEW status \in SyncStates, NEW seen \in Content \cup {None},
         Fail(s, status, seen)
  PROVE  /\ RepositoryTypeOK'
         /\ EngineTypeOK'
         /\ pc'[s] = "idle"
         /\ \A t \in Station \ {s} : pc'[t] = pc[t] /\ job'[t] = job[t]
         /\ bindings' = bindings
<1>1. job[s].user \in User
  BY JobType
<1>2. RepositoryTypeOK'
  BY <1>1, MarkedType DEF Fail, TypeInv, TypeOK, RepositoryTypeOK
<1>3. Release(s, seen)
  BY DEF Fail
<1> QED
  BY <1>2, <1>3, ReleaseType DEF Fail

(* A step that concerns the engine and the bindings of one station only. *)
LEMMA TransactionKept ==
  ASSUME Transaction, NEW s \in Station,
         \A t \in Station \ {s} :
           pc'[t] = pc[t] /\ job'[t] = job[t] /\ bindings'[t] = bindings[t],
         pc'[s] # "idle" => job'[s] # None,
         pc'[s] \notin {"idle", "read"} => job'[s].current # None,
         pc'[s] \in {"write", "readback"} =>
           /\ bindings'[s][job'[s].user] # None
           /\ bindings'[s][job'[s].user].intent # None
  PROVE  Transaction'
BY DEF Transaction

LEMMA BindingsElsewhere ==
  ASSUME RepositoryTypeOK, NEW s \in Station, NEW u, NEW value,
         bindings' = [bindings EXCEPT ![s][u] = value]
  PROVE  \A t \in Station \ {s} : bindings'[t] = bindings[t]
BY DEF RepositoryTypeOK
-----------------------------------------------------------------------------
(* Every step of the engine keeps the types and its place in the            *)
(* transaction.                                                             *)

LEMMA ReconcileType ==
  ASSUME TypeInv, NEW s \in Station, Reconcile(s)
  PROVE  TypeInv'
<1>1. Deletions(s) \in SUBSET User /\ Others(s) \in SUBSET User
  BY DEF Deletions, Others
<1>2. SyncTypeOK'
  BY <1>1 DEF Reconcile, TypeInv, TypeOK, SyncTypeOK
<1>3. RepositoryTypeOK'
  BY DEF Reconcile, repository, TypeInv, TypeOK, RepositoryTypeOK
<1>4. Transaction'
  BY DEF Reconcile, repository, TypeInv, Transaction
<1> QED
  BY <1>2, <1>3, <1>4 DEF TypeInv, TypeOK

LEMMA StartType ==
  ASSUME TypeInv, NEW s \in Station, NEW u \in User, Start(s, u)
  PROVE  TypeInv'
<1> USE DEF TypeInv, TypeOK
<1>1. Marked(u, s, "syncing") \in [User -> [Station -> Progress]]
  BY MarkedType DEF SyncStates
<1>2. RepositoryTypeOK'
  BY <1>1 DEF Start, RepositoryTypeOK
<1>3. [user |-> u, snapshot |-> users[u], current |-> None] \in Job
  BY DEF Job, RepositoryTypeOK
<1>4. Nothing \in [User -> Content]
  BY AbsentType DEF Nothing
<1>5. pc' \in [Station -> Phases] /\ job' \in [Station -> Job \cup {None}]
  BY <1>3 DEF Start, SyncTypeOK, Phases
<1>6. todo' \in [Station -> [deletions : SUBSET User, others : SUBSET User]]
  BY DEF Start, SyncTypeOK
<1>7. inventory' \in [Station -> [User -> Content]]
  BY <1>4 DEF Start, SyncTypeOK
<1>8. SyncTypeOK'
  BY <1>5, <1>6, <1>7 DEF Start, SyncTypeOK
<1>9. Transaction'
  <2>1. [user |-> u, snapshot |-> users[u], current |-> None] # None
    BY <1>3, JobAssumption
  <2> QED
    BY <2>1, TransactionKept DEF Start, SyncTypeOK, Transaction, Phases
<1> QED
  BY <1>2, <1>8, <1>9

(* What is left to show for a step that leaves the transaction, and for one *)
(* that stays in it.                                                        *)
LEMMA LeavingStep ==
  ASSUME TypeInv, NEW s \in Station, RepositoryTypeOK', EngineTypeOK',
         device' \in [Station -> [User -> Content]],
         external' \in 0..MaxExternal, faults' \in 0..MaxFaults,
         pc'[s] = "idle",
         \A t \in Station \ {s} :
           pc'[t] = pc[t] /\ job'[t] = job[t] /\ bindings'[t] = bindings[t]
  PROVE  TypeInv'
<1>1. Transaction'
  BY TransactionKept DEF TypeInv
<1> QED
  BY <1>1 DEF TypeInv, TypeOK, SyncTypeOK, EngineTypeOK

LEMMA StayingStep ==
  ASSUME TypeInv, NEW s \in Station, pc[s] # "idle",
         RepositoryTypeOK', EngineTypeOK',
         device' \in [Station -> [User -> Content]],
         external' = external, faults' \in 0..MaxFaults,
         job'[s].user = job[s].user,
         job'[s] # None, job'[s].current # None,
         pc'[s] \in {"write", "readback"} =>
           /\ bindings'[s][job[s].user] # None
           /\ bindings'[s][job[s].user].intent # None,
         \A t \in Station \ {s} :
           pc'[t] = pc[t] /\ job'[t] = job[t] /\ bindings'[t] = bindings[t]
  PROVE  TypeInv'
<1>1. Transaction'
  BY TransactionKept DEF TypeInv
<1> QED
  BY <1>1 DEF TypeInv, TypeOK, SyncTypeOK, EngineTypeOK

LEMMA InspectType ==
  ASSUME TypeInv, NEW s \in Station, Inspect(s)
  PROVE  TypeInv'
<1> DEFINE u == job[s].user
           current == device[s][u]
           read == [job EXCEPT ![s].current = current]
<1>1. pc[s] = "read" /\ UNCHANGED <<device, external, faults>>
  BY DEF Inspect
<1>2. /\ u \in User
      /\ job[s] \in Job
      /\ job[s].snapshot.revision \in Nat
  BY <1>1, JobType
<1>3. current \in Content
  BY <1>2 DEF TypeInv, TypeOK, SyncTypeOK
<1>4. /\ device' \in [Station -> [User -> Content]]
      /\ external' \in 0..MaxExternal
      /\ faults' \in 0..MaxFaults
  BY <1>1 DEF TypeInv, TypeOK, SyncTypeOK
<1>5. CASE Fail(s, "conflict", current)
  <2>1. "conflict" \in SyncStates
    BY DEF SyncStates
  <2> QED
    BY <1>1, <1>3, <1>4, <1>5, <2>1, FailType, LeavingStep
<1>6. CASE /\ ConfirmAbsent(s, u, job[s].snapshot.revision)
           /\ Release(s, current)
  <2>1. RepositoryTypeOK'
    BY <1>2, <1>6, ConfirmAbsentType DEF TypeInv, TypeOK
  <2>2. \A t \in Station \ {s} : bindings'[t] = bindings[t]
    BY <1>2, <1>6, BindingsElsewhere DEF ConfirmAbsent, TypeInv, TypeOK
  <2> QED
    BY <1>1, <1>3, <1>4, <1>6, <2>1, <2>2, ReleaseType, LeavingStep
<1>7. CASE /\ pc' = [pc EXCEPT ![s] = "ready"]
           /\ job' = read
           /\ UNCHANGED <<todo, inventory>>
           /\ \/ UNCHANGED repository
              \/ RecordObservation(s, u, current, 0)
  <2>1. RepositoryTypeOK'
    <3>1. CASE UNCHANGED repository
      BY <3>1 DEF repository, TypeInv, TypeOK, RepositoryTypeOK
    <3>2. CASE RecordObservation(s, u, current, 0)
      BY <1>2, <1>3, <3>2, RecordObservationType DEF TypeInv, TypeOK
    <3> QED
      BY <1>7, <3>1, <3>2
  <2>2. \A t \in Station \ {s} : bindings'[t] = bindings[t]
    <3>1. CASE UNCHANGED repository
      BY <3>1 DEF repository
    <3>2. CASE RecordObservation(s, u, current, 0)
      BY <3>2, BindingsElsewhere DEF RecordObservation, TypeInv, TypeOK
    <3> QED
      BY <1>7, <3>1, <3>2
  <2>3. /\ [job[s] EXCEPT !.current = current] \in Job
        /\ [job[s] EXCEPT !.current = current].user = u
        /\ [job[s] EXCEPT !.current = current].current = current
    BY <1>2, <1>3 DEF Job
  <2>4. job'[s] = [job[s] EXCEPT !.current = current]
    BY <1>7 DEF TypeInv, TypeOK, SyncTypeOK
  <2>5. job' \in [Station -> Job \cup {None}]
    BY <1>7, <2>3 DEF TypeInv, TypeOK, SyncTypeOK
  <2>6. EngineTypeOK'
    BY <1>7, <2>5 DEF EngineTypeOK, Phases, TypeInv, TypeOK, SyncTypeOK
  <2>7. pc'[s] = "ready"
    BY <1>7 DEF TypeInv, TypeOK, SyncTypeOK
  <2>8. \A t \in Station \ {s} : pc'[t] = pc[t] /\ job'[t] = job[t]
    BY <1>7 DEF TypeInv, TypeOK, SyncTypeOK
  <2>9. /\ job'[s] # None
        /\ job'[s].user = job[s].user
        /\ job'[s].current # None
    BY <1>3, <2>3, <2>4, NoneAssumption, JobAssumption
  <2> QED
    BY <1>1, <1>4, <2>1, <2>2, <2>6, <2>7, <2>8, <2>9, StayingStep
<1> QED
  BY <1>5, <1>6, <1>7 DEF Inspect, repository

LEMMA BlockedElsewhereType ==
  ASSUME TypeInv, NEW s \in Station, BlockedElsewhere(s)
  PROVE  TypeInv'
<1>1. "conflict" \in SyncStates
  BY DEF SyncStates
<1> QED
  BY <1>1, JobType, FailType, LeavingStep
  DEF BlockedElsewhere, TypeInv, TypeOK, SyncTypeOK

LEMMA JournalType ==
  ASSUME TypeInv, NEW s \in Station, Journal(s)
  PROVE  TypeInv'
<1> DEFINE u == job[s].user
           want == Desired(job[s].snapshot, s)
           current == job[s].current
           operation == Operation(want, current)
           revision == job[s].snapshot.revision
<1>1. pc[s] = "ready" /\ UNCHANGED <<device, external, faults>>
  BY DEF Journal
<1>2. /\ u \in User /\ job[s] # None
      /\ want \in Content /\ current \in Content /\ current # None
  BY <1>1, JobType, CurrentType, NoneAssumption, JobAssumption
<1>3. /\ device' \in [Station -> [User -> Content]]
      /\ external' \in 0..MaxExternal
      /\ faults' \in 0..MaxFaults
  BY <1>1 DEF TypeInv, TypeOK, SyncTypeOK
<1>4. CASE Fail(s, "pending", current)
  <2>1. "pending" \in SyncStates
    BY DEF SyncStates
  <2> QED
    BY <1>1, <1>2, <1>3, <1>4, <2>1, FailType, LeavingStep
<1>5. ASSUME NEW next \in NextContents(want, current),
             WriteIntent(s, u, revision, operation, current, next),
             pc' = [pc EXCEPT ![s] = "write"],
             UNCHANGED <<job, todo, inventory>>
      PROVE  TypeInv'
  <2>1. next \in Content
    BY <1>2, NextContentsType
  <2>2. /\ RepositoryTypeOK'
        /\ bindings'[s][u] # None
        /\ bindings'[s][u].intent = [before |-> current, desired |-> next]
    BY <1>2, <1>5, <2>1, WriteIntentType DEF TypeInv, TypeOK
  <2>3. [before |-> current, desired |-> next] # None
    BY <1>2, <2>1, NoneAssumption DEF Intent
  <2>4. \A t \in Station \ {s} : bindings'[t] = bindings[t]
    BY <1>5, BindingsElsewhere DEF WriteIntent, TypeInv, TypeOK
  <2>5. EngineTypeOK' /\ \A t \in Station \ {s} : pc'[t] = pc[t] /\ job'[t] = job[t]
    BY <1>5 DEF EngineTypeOK, Phases, TypeInv, TypeOK, SyncTypeOK
  <2> QED
    BY <1>1, <1>2, <1>3, <1>5, <2>2, <2>3, <2>4, <2>5, StayingStep
<1> QED
  BY <1>4, <1>5 DEF Journal

(* While an engine writes, its binding carries the intent. *)
LEMMA IntentType ==
  ASSUME TypeInv, NEW s \in Station, pc[s] \in {"write", "readback"}
  PROVE  /\ bindings[s][job[s].user] # None
         /\ bindings[s][job[s].user].intent # None
         /\ bindings[s][job[s].user].intent.before \in Content
         /\ bindings[s][job[s].user].intent.desired \in Content
<1> DEFINE u == job[s].user
<1>1. u \in User
  BY JobType
<1>2. bindings[s][u] # None /\ bindings[s][u].intent # None
  BY DEF TypeInv, Transaction
<1>3. bindings[s][u] \in Binding
  BY <1>1, <1>2 DEF TypeInv, TypeOK, RepositoryTypeOK
<1>4. bindings[s][u].intent \in Intent
  BY <1>2, <1>3 DEF Binding
<1> QED
  BY <1>2, <1>4 DEF Intent

LEMMA WriteType ==
  ASSUME TypeInv, NEW s \in Station, Write(s)
  PROVE  TypeInv'
<1> DEFINE u == job[s].user
<1>1. pc[s] = "write" /\ UNCHANGED <<repository, job, todo, inventory, external, faults>>
  BY DEF Write
<1>2. u \in User /\ job[s] # None /\ job[s].current # None
  BY <1>1, JobType, CurrentType, NoneAssumption, JobAssumption
<1>3. /\ bindings[s][u] # None
      /\ bindings[s][u].intent # None
      /\ bindings[s][u].intent.desired \in Content
  BY <1>1, IntentType
<1>4. device' \in [Station -> [User -> Content]]
  BY <1>2, <1>3 DEF Write, TypeInv, TypeOK, SyncTypeOK
<1>5. RepositoryTypeOK' /\ bindings' = bindings
  BY <1>1 DEF repository, TypeInv, TypeOK, RepositoryTypeOK
<1>6. EngineTypeOK' /\ \A t \in Station \ {s} : pc'[t] = pc[t] /\ job'[t] = job[t]
  BY DEF Write, EngineTypeOK, Phases, TypeInv, TypeOK, SyncTypeOK
<1>7. faults' \in 0..MaxFaults
  BY <1>1 DEF TypeInv, TypeOK, SyncTypeOK
<1> QED
  BY <1>1, <1>2, <1>3, <1>4, <1>5, <1>6, <1>7, StayingStep

LEMMA WriteIgnoredType ==
  ASSUME TypeInv, NEW s \in Station, WriteIgnored(s)
  PROVE  TypeInv'
<1>1. pc[s] = "write" /\ UNCHANGED <<repository, device, job, todo, inventory, external>>
  BY DEF WriteIgnored
<1>2. job[s] # None /\ job[s].current # None
  BY <1>1, JobType, CurrentType, NoneAssumption, JobAssumption
<1>3. bindings[s][job[s].user] # None /\ bindings[s][job[s].user].intent # None
  BY <1>1, IntentType
<1>4. device' \in [Station -> [User -> Content]] /\ faults' \in 0..MaxFaults
  BY SyncAssumption DEF WriteIgnored, Fault, TypeInv, TypeOK, SyncTypeOK
<1>5. RepositoryTypeOK' /\ bindings' = bindings
  BY <1>1 DEF repository, TypeInv, TypeOK, RepositoryTypeOK
<1>6. EngineTypeOK' /\ \A t \in Station \ {s} : pc'[t] = pc[t] /\ job'[t] = job[t]
  BY DEF WriteIgnored, EngineTypeOK, Phases, TypeInv, TypeOK, SyncTypeOK
<1> QED
  BY <1>1, <1>2, <1>3, <1>4, <1>5, <1>6, StayingStep

LEMMA ReadbackType ==
  ASSUME TypeInv, NEW s \in Station, Readback(s)
  PROVE  TypeInv'
<1> DEFINE u == job[s].user
           observed == device[s][u]
<1>1. pc[s] = "readback" /\ UNCHANGED <<device, external, faults>>
  BY DEF Readback
<1>2. /\ u \in User
      /\ job[s] \in Job
      /\ job[s].current \in Content
  BY <1>1, JobType, CurrentType
<1>3. observed \in Content
  BY <1>2 DEF TypeInv, TypeOK, SyncTypeOK
<1>4. /\ device' \in [Station -> [User -> Content]]
      /\ external' \in 0..MaxExternal
      /\ faults' \in 0..MaxFaults
  BY <1>1 DEF TypeInv, TypeOK, SyncTypeOK
<1>5. CASE /\ RecordObservation(s, u, observed, 0)
           /\ pc' = [pc EXCEPT ![s] = "ready"]
           /\ job' = [job EXCEPT ![s].current = observed]
           /\ UNCHANGED <<todo, inventory>>
  <2>1. RepositoryTypeOK'
    BY <1>2, <1>3, <1>5, RecordObservationType DEF TypeInv, TypeOK
  <2>2. \A t \in Station \ {s} : bindings'[t] = bindings[t]
    BY <1>5, BindingsElsewhere DEF RecordObservation, TypeInv, TypeOK
  <2>3. /\ [job[s] EXCEPT !.current = observed] \in Job
        /\ [job[s] EXCEPT !.current = observed].user = u
        /\ [job[s] EXCEPT !.current = observed].current = observed
    BY <1>2, <1>3 DEF Job
  <2>4. job'[s] = [job[s] EXCEPT !.current = observed]
    BY <1>5 DEF TypeInv, TypeOK, SyncTypeOK
  <2>5. job' \in [Station -> Job \cup {None}]
    BY <1>5, <2>3 DEF TypeInv, TypeOK, SyncTypeOK
  <2>6. EngineTypeOK'
    BY <1>5, <2>5 DEF EngineTypeOK, Phases, TypeInv, TypeOK, SyncTypeOK
  <2>7. pc'[s] = "ready"
    BY <1>5 DEF TypeInv, TypeOK, SyncTypeOK
  <2>8. \A t \in Station \ {s} : pc'[t] = pc[t] /\ job'[t] = job[t]
    BY <1>5 DEF TypeInv, TypeOK, SyncTypeOK
  <2>9. /\ job'[s] # None
        /\ job'[s].user = job[s].user
        /\ job'[s].current # None
    BY <1>3, <2>3, <2>4, NoneAssumption, JobAssumption
  <2> QED
    BY <1>1, <1>4, <2>1, <2>2, <2>6, <2>7, <2>8, <2>9, StayingStep
<1>6. CASE Fail(s, "error", job[s].current)
  <2>1. "error" \in SyncStates
    BY DEF SyncStates
  <2> QED
    BY <1>1, <1>2, <1>4, <1>6, <2>1, FailType, LeavingStep
<1> QED
  BY <1>5, <1>6 DEF Readback

LEMMA RemovedType ==
  ASSUME TypeInv, NEW s \in Station, Removed(s)
  PROVE  TypeInv'
<1> DEFINE u == job[s].user
<1>1. pc[s] = "ready" /\ UNCHANGED <<device, external, faults>>
  BY DEF Removed
<1>2. /\ u \in User
      /\ job[s].snapshot.revision \in Nat
      /\ job[s].current \in Content
  BY <1>1, JobType, CurrentType
<1>3. /\ device' \in [Station -> [User -> Content]]
      /\ external' \in 0..MaxExternal
      /\ faults' \in 0..MaxFaults
  BY <1>1 DEF TypeInv, TypeOK, SyncTypeOK
<1>4. RepositoryTypeOK'
  BY <1>2, ConfirmAbsentType DEF Removed, TypeInv, TypeOK
<1>5. \A t \in Station \ {s} : bindings'[t] = bindings[t]
  BY BindingsElsewhere DEF Removed, ConfirmAbsent, TypeInv, TypeOK
<1>6. Release(s, job[s].current)
  BY DEF Removed
<1> QED
  BY <1>1, <1>2, <1>3, <1>4, <1>5, <1>6, ReleaseType, LeavingStep

LEMMA FinishType ==
  ASSUME TypeInv, NEW s \in Station, Finish(s)
  PROVE  TypeInv'
<1>1. pc[s] = "ready" /\ UNCHANGED <<device, job, todo, inventory, external, faults>>
  BY DEF Finish
<1>2. /\ job[s].user \in User /\ job[s] # None /\ job[s].current # None
      /\ job[s].snapshot.revision \in Nat
      /\ Desired(job[s].snapshot, s) \in Content
  BY <1>1, JobType, CurrentType, NoneAssumption, JobAssumption
<1>3. RepositoryTypeOK'
  BY <1>2, RecordObservationType DEF Finish, TypeInv, TypeOK
<1>4. \A t \in Station \ {s} : bindings'[t] = bindings[t]
  BY BindingsElsewhere DEF Finish, RecordObservation, TypeInv, TypeOK
<1>5. /\ EngineTypeOK' /\ pc'[s] = "cards"
      /\ \A t \in Station \ {s} : pc'[t] = pc[t] /\ job'[t] = job[t]
  BY DEF Finish, EngineTypeOK, Phases, TypeInv, TypeOK, SyncTypeOK
<1>6. device' \in [Station -> [User -> Content]] /\ faults' \in 0..MaxFaults
  BY <1>1 DEF TypeInv, TypeOK, SyncTypeOK
<1> QED
  BY <1>1, <1>2, <1>3, <1>4, <1>5, <1>6, StayingStep

LEMMA ConfirmCardsType ==
  ASSUME TypeInv, NEW s \in Station, ConfirmCards(s)
  PROVE  TypeInv'
<1>1. pc[s] = "cards" /\ UNCHANGED <<device, job, todo, inventory, external, faults>>
  BY DEF ConfirmCards
<1>2. job[s] # None /\ job[s].current # None
  BY <1>1, JobType, CurrentType, NoneAssumption, JobAssumption
<1>3. RepositoryTypeOK' /\ bindings' = bindings
  BY ConfirmRemovalsType DEF ConfirmCards, ConfirmRemovals, TypeInv, TypeOK
<1>4. /\ EngineTypeOK' /\ pc'[s] = "pins"
      /\ \A t \in Station \ {s} : pc'[t] = pc[t] /\ job'[t] = job[t]
  BY DEF ConfirmCards, EngineTypeOK, Phases, TypeInv, TypeOK, SyncTypeOK
<1>5. device' \in [Station -> [User -> Content]] /\ faults' \in 0..MaxFaults
  BY <1>1 DEF TypeInv, TypeOK, SyncTypeOK
<1> QED
  BY <1>1, <1>2, <1>3, <1>4, <1>5, StayingStep

LEMMA ConfirmPinsType ==
  ASSUME TypeInv, NEW s \in Station, ConfirmPins(s)
  PROVE  TypeInv'
<1>1. pc[s] = "pins" /\ UNCHANGED <<device, external, faults>>
  BY DEF ConfirmPins
<1>2. job[s].current \in Content
  BY <1>1, CurrentType
<1>3. /\ device' \in [Station -> [User -> Content]]
      /\ external' \in 0..MaxExternal
      /\ faults' \in 0..MaxFaults
  BY <1>1 DEF TypeInv, TypeOK, SyncTypeOK
<1>4. RepositoryTypeOK' /\ bindings' = bindings
  BY ConfirmRemovalsType DEF ConfirmPins, ConfirmRemovals, TypeInv, TypeOK
<1>5. Release(s, job[s].current)
  BY DEF ConfirmPins
<1> QED
  BY <1>1, <1>2, <1>3, <1>4, <1>5, ReleaseType, LeavingStep
-----------------------------------------------------------------------------
(* Failures keep the types. *)

LEMMA FaultType ==
  ASSUME TypeInv, Fault
  PROVE  faults' \in 0..MaxFaults
BY SyncAssumption DEF Fault, TypeInv, TypeOK, SyncTypeOK

LEMMA ConnectionFailedType ==
  ASSUME TypeInv, NEW s \in Station, ConnectionFailed(s)
  PROVE  TypeInv'
<1>1. job[s].user \in User /\ "pending" \in SyncStates
  BY JobType DEF ConnectionFailed, SyncStates
<1>2. RepositoryTypeOK' /\ bindings' = bindings
  BY <1>1, MarkedType DEF ConnectionFailed, TypeInv, TypeOK, RepositoryTypeOK
<1>3. Nothing \in [User -> Content]
  BY AbsentType DEF Nothing
<1>4. EngineTypeOK'
  <2>1. pc' \in [Station -> Phases] /\ job' \in [Station -> Job \cup {None}]
    BY DEF ConnectionFailed, Phases, TypeInv, TypeOK, SyncTypeOK
  <2>2. CASE inventory' = [inventory EXCEPT ![s] = device[s]] /\ UNCHANGED todo
    BY <2>1, <2>2 DEF EngineTypeOK, TypeInv, TypeOK, SyncTypeOK
  <2>3. CASE /\ todo' = [todo EXCEPT ![s] = NoWork]
             /\ inventory' = [inventory EXCEPT ![s] = Nothing]
    BY <1>3, <2>1, <2>3 DEF EngineTypeOK, NoWork, TypeInv, TypeOK, SyncTypeOK
  <2> QED
    BY <2>2, <2>3 DEF ConnectionFailed
<1>5. /\ pc'[s] = "idle"
      /\ \A t \in Station \ {s} : pc'[t] = pc[t] /\ job'[t] = job[t]
  BY DEF ConnectionFailed, TypeInv, TypeOK, SyncTypeOK
<1>6. /\ device' \in [Station -> [User -> Content]]
      /\ external' \in 0..MaxExternal
      /\ faults' \in 0..MaxFaults
  BY FaultType DEF ConnectionFailed, TypeInv, TypeOK, SyncTypeOK
<1> QED
  BY <1>2, <1>4, <1>5, <1>6, LeavingStep

LEMMA RefusedType ==
  ASSUME TypeInv, NEW s \in Station, Refused(s)
  PROVE  TypeInv'
<1>1. pc[s] # "idle" /\ UNCHANGED <<device, external>> /\ Fault
  BY DEF Refused
<1>2. PICK status \in {"pending", "error"} : Fail(s, status, job[s].current)
  BY DEF Refused
<1>3. status \in SyncStates
  BY DEF SyncStates
<1>4. job[s].current \in Content \cup {None}
  BY <1>1, JobType
<1>5. /\ device' \in [Station -> [User -> Content]]
      /\ external' \in 0..MaxExternal
      /\ faults' \in 0..MaxFaults
  BY <1>1, FaultType DEF TypeInv, TypeOK, SyncTypeOK
<1> QED
  BY <1>1, <1>2, <1>3, <1>4, <1>5, FailType, LeavingStep

(* The process memory of some stations is lost. *)
LEMMA StoppedType ==
  ASSUME TypeInv, NEW stations \in SUBSET Station, Stopped(stations)
  PROVE  /\ EngineTypeOK'
         /\ \A s \in Station :
              /\ s \in stations => pc'[s] = "idle"
              /\ s \notin stations => pc'[s] = pc[s] /\ job'[s] = job[s]
<1>1. Nothing \in [User -> Content]
  BY AbsentType DEF Nothing
<1> QED
  BY <1>1 DEF Stopped, EngineTypeOK, Phases, NoWork, TypeInv, TypeOK, SyncTypeOK

LEMMA CancelledType ==
  ASSUME TypeInv, NEW s \in Station, Cancelled(s)
  PROVE  TypeInv'
<1>1. Stopped({s}) /\ UNCHANGED <<repository, device, external>> /\ Fault
  BY DEF Cancelled
<1>2. RepositoryTypeOK' /\ bindings' = bindings
  BY <1>1 DEF repository, TypeInv, TypeOK, RepositoryTypeOK
<1>3. /\ device' \in [Station -> [User -> Content]]
      /\ external' \in 0..MaxExternal
      /\ faults' \in 0..MaxFaults
  BY <1>1, FaultType DEF TypeInv, TypeOK, SyncTypeOK
<1> QED
  BY <1>1, <1>2, <1>3, StoppedType, LeavingStep

LEMMA StationFailedType ==
  ASSUME TypeInv, NEW s \in Station, StationFailed(s)
  PROVE  TypeInv'
<1>1. /\ Stopped({s}) /\ Fault
      /\ UNCHANGED <<users, bindings, tombstones, retired, device, external>>
  BY DEF StationFailed
<1>2. PICK status \in {"pending", "error"} :
        progress' = [u \in User |->
          IF u \in Deletions(s) \cup Others(s)
            THEN Marked(u, s, status)[u] ELSE progress[u]]
  BY DEF StationFailed
<1>3. status \in SyncStates
  BY DEF SyncStates
<1>4. \A u \in User : Marked(u, s, status) \in [User -> [Station -> Progress]]
  BY <1>3, MarkedType DEF TypeInv, TypeOK
<1>5. progress' \in [User -> [Station -> Progress]]
  BY <1>2, <1>4 DEF TypeInv, TypeOK, RepositoryTypeOK
<1>6. RepositoryTypeOK'
  BY <1>1, <1>5 DEF TypeInv, TypeOK, RepositoryTypeOK
<1>7. /\ device' \in [Station -> [User -> Content]]
      /\ external' \in 0..MaxExternal
      /\ faults' \in 0..MaxFaults
  BY <1>1, FaultType DEF TypeInv, TypeOK, SyncTypeOK
<1> QED
  BY <1>1, <1>6, <1>7, StoppedType, LeavingStep

LEMMA RestartType ==
  ASSUME TypeInv, Restart
  PROVE  TypeInv'
<1>1. RepositoryTypeOK'
  BY ReloadType DEF Restart, TypeInv, TypeOK
<1>2. EngineTypeOK' /\ \A s \in Station : pc'[s] = "idle"
  BY StoppedType DEF Restart
<1>3. /\ device' \in [Station -> [User -> Content]]
      /\ external' \in 0..MaxExternal
      /\ faults' \in 0..MaxFaults
  BY FaultType DEF Restart, TypeInv, TypeOK, SyncTypeOK
<1>4. Transaction'
  BY <1>2 DEF Transaction
<1> QED
  BY <1>1, <1>2, <1>3, <1>4 DEF TypeInv, TypeOK, SyncTypeOK, EngineTypeOK
-----------------------------------------------------------------------------
(* Administrators keep the types; they touch a binding only while no engine *)
(* is in the transaction of that station.                                   *)

LEMMA OutsideStep ==
  ASSUME TypeInv, RepositoryTypeOK',
         device' \in [Station -> [User -> Content]], UNCHANGED <<engine, faults>>,
         external' \in 0..MaxExternal,
         \A s \in Station : pc[s] = "idle" \/ bindings'[s] = bindings[s]
  PROVE  TypeInv'
<1>1. Transaction'
  BY DEF Transaction, TypeInv, engine
<1> QED
  BY <1>1 DEF TypeInv, TypeOK, SyncTypeOK, engine

LEMMA AdministratorType ==
  ASSUME TypeInv, NEW u \in User, Administrator(u)
  PROVE  TypeInv'
<1>1. RepositoryTypeOK' /\ bindings' = bindings /\ UNCHANGED Outside
  <2>1. CASE CreateUser(u)
    BY <2>1, CreateType DEF CreateUser, Create, TypeInv, TypeOK
  <2>2. CASE UpdateUser(u)
    BY <2>2, UpdateType DEF UpdateUser, Update, TypeInv, TypeOK
  <2>3. CASE EditUserProfile(u)
    BY <2>3, EditProfileType DEF EditUserProfile, EditProfile, TypeInv, TypeOK
  <2>4. CASE DeleteUser(u)
    BY <2>4, DeleteType DEF DeleteUser, Delete, TypeInv, TypeOK
  <2> QED
    BY <2>1, <2>2, <2>3, <2>4 DEF Administrator
<1> QED
  BY <1>1, OutsideStep DEF Outside, TypeInv, TypeOK, SyncTypeOK

LEMMA AdoptType ==
  ASSUME TypeInv, NEW s \in Station, NEW u \in User, Adopt(s, u)
  PROVE  TypeInv'
<1>1. device[s][u] \in Content /\ pc[s] = "idle" /\ UNCHANGED Outside
  BY DEF Adopt, TypeInv, TypeOK, SyncTypeOK
<1>2. RepositoryTypeOK' /\ \A t \in Station \ {s} : bindings'[t] = bindings[t]
  <2>1. ASSUME NEW status, AdoptNew(s, u, device[s][u], status)
        PROVE  RepositoryTypeOK' /\ \A t \in Station \ {s} : bindings'[t] = bindings[t]
    BY <1>1, <2>1, AdoptNewType, BindingsElsewhere DEF AdoptNew, TypeInv, TypeOK
  <2>2. ASSUME NEW granted \in SUBSET Station,
               AdoptExisting(s, u, device[s][u], granted)
        PROVE  RepositoryTypeOK' /\ \A t \in Station \ {s} : bindings'[t] = bindings[t]
    BY <1>1, <2>2, AdoptExistingType, BindingsElsewhere
    DEF AdoptExisting, TypeInv, TypeOK
  <2> QED
    BY <2>1, <2>2 DEF Adopt
<1> QED
  BY <1>1, <1>2, OutsideStep DEF Outside, TypeInv, TypeOK, SyncTypeOK

LEMMA ResolveType ==
  ASSUME TypeInv, NEW s \in Station, NEW u \in User, Resolve(s, u)
  PROVE  TypeInv'
<1>1. device[s][u] \in Content /\ pc[s] = "idle" /\ UNCHANGED Outside
  BY DEF Resolve, TypeInv, TypeOK, SyncTypeOK
<1>2. RepositoryTypeOK' /\ \A t \in Station \ {s} : bindings'[t] = bindings[t]
  <2>1. CASE ResolveCentral(s, u, device[s][u])
    BY <1>1, <2>1, ResolveCentralType, BindingsElsewhere
    DEF ResolveCentral, TypeInv, TypeOK
  <2>2. CASE ResolveDevice(s, u, device[s][u])
    BY <1>1, <2>2, ResolveDeviceType, BindingsElsewhere
    DEF ResolveDevice, TypeInv, TypeOK
  <2>3. CASE ResolveDeletion(s, u, device[s][u])
    BY <1>1, <2>3, ResolveDeletionType, BindingsElsewhere
    DEF ResolveDeletion, TypeInv, TypeOK
  <2> QED
    BY <2>1, <2>2, <2>3 DEF Resolve
<1> QED
  BY <1>1, <1>2, OutsideStep DEF Outside, TypeInv, TypeOK, SyncTypeOK

LEMMA ExternalType ==
  ASSUME TypeInv, NEW s \in Station, NEW u \in User, External(s, u)
  PROVE  TypeInv'
<1>1. RepositoryTypeOK' /\ bindings' = bindings /\ UNCHANGED <<engine, faults>>
  BY DEF External, repository, engine, TypeInv, TypeOK, RepositoryTypeOK
<1>2. device' \in [Station -> [User -> Content]]
  BY DEF External, TypeInv, TypeOK, SyncTypeOK
<1>3. external' \in 0..MaxExternal
  BY SyncAssumption DEF External, TypeInv, TypeOK, SyncTypeOK
<1> QED
  BY <1>1, <1>2, <1>3, OutsideStep
-----------------------------------------------------------------------------
LEMMA InitType == Init => TypeInv
<1> SUFFICES ASSUME Init PROVE TypeInv
  OBVIOUS
<1>1. users \in [User -> UserRecord]
  BY DEF Init, RepositoryInit, UserRecord, Statuses
<1>2. RepositoryTypeOK
  BY <1>1, ProgressTypes
  DEF Init, RepositoryInit, RepositoryTypeOK, Tombstone, NoTombstone
<1>3. SyncTypeOK
  BY AbsentType, SyncAssumption DEF Init, SyncTypeOK, Phases, NoWork, Nothing
<1>4. Transaction
  BY DEF Init, Transaction
<1> QED
  BY <1>2, <1>3, <1>4 DEF TypeInv, TypeOK

LEMMA NextType == TypeInv /\ [Next]_vars => TypeInv'
<1> SUFFICES ASSUME TypeInv, [Next]_vars PROVE TypeInv'
  OBVIOUS
<1>1. ASSUME NEW s \in Station, Engine(s) PROVE TypeInv'
  BY <1>1, ReconcileType, StartType, InspectType, BlockedElsewhereType,
     JournalType, WriteType, ReadbackType, RemovedType, FinishType,
     ConfirmCardsType, ConfirmPinsType DEF Engine
<1>2. ASSUME NEW s \in Station, Failure(s) PROVE TypeInv'
  BY <1>2, WriteIgnoredType, ConnectionFailedType, RefusedType, CancelledType,
     StationFailedType DEF Failure
<1>3. CASE UNCHANGED vars
  BY <1>3 DEF vars, repository, engine, TypeInv, TypeOK, RepositoryTypeOK,
              SyncTypeOK, Transaction
<1> QED
  BY <1>1, <1>2, <1>3, AdministratorType, AdoptType, ResolveType, ExternalType,
     RestartType DEF Next

LEMMA TypeInvariant == Spec => []TypeInv
<1>1. Init => TypeInv
  BY InitType
<1>2. TypeInv /\ [Next]_vars => TypeInv'
  BY NextType
<1> QED
  BY <1>1, <1>2, PTL DEF Spec

(* The ledger, the engines and the devices always have their types: no      *)
(* path through an error, a restart or an edit in between reaches a field   *)
(* of a binding, an intent or a device record that is not there.            *)
THEOREM TypeCorrect == Spec => []TypeOK
<1>1. TypeInv => TypeOK
  BY DEF TypeInv
<1> QED
  BY <1>1, TypeInvariant, PTL
=============================================================================
