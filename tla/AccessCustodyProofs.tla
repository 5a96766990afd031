------------------------- MODULE AccessCustodyProofs ------------------------
(***************************************************************************)
(* Proofs about what the devices hold: the engine overwrites only what it  *)
(* recognised, no credential on a device is forgotten or shared, what is   *)
(* shown as synced is true, and credentials change hands only in the order *)
(* that CredentialCustody states.  Three descriptions of a step carry      *)
(* them: what may become of a person (PersonMove), of the transaction of a *)
(* station (Move) and of a claim to a credential (ClaimMove).              *)
(***************************************************************************)
EXTENDS AccessOwnershipProofs

(* What one step may make of the central record of a person. *)
Unborn(old, new) ==
  /\ old.status = "unborn" /\ new.status \in {"live", "tombstone"}
  /\ new.revision = 1

Edited(old, new) ==
  /\ old.status = "live" /\ new.status = "live"
  /\ new.revision = old.revision + 1

Withdraws(old, new) ==
  /\ \/ old.status = "live" /\ new.status \in {"tombstone", "gone"}
     \/ old.status = "tombstone" /\ new.status = "gone"
  /\ new.revision = old.revision
  /\ new.pin = old.pin /\ new.cards = old.cards
  /\ new.assigned = old.assigned /\ new.granted = old.granted

PersonMove(old, new) ==
  new = old \/ Unborn(old, new) \/ Edited(old, new) \/ Withdraws(old, new)

LEMMA CommitMoves ==
  ASSUME RepositoryTypeOK, NEW u \in User,
         \/ \E pin, cards, assigned, granted :
              \/ Create(u, pin, cards, assigned, granted)
              \/ Update(u, pin, cards, assigned, granted)
         \/ EditProfile(u)
         \/ Delete(u)
         \/ \E s \in Station : \E content :
              \/ \E status : AdoptNew(s, u, content, status)
              \/ \E granted : AdoptExisting(s, u, content, granted)
              \/ ResolveCentral(s, u, content)
              \/ ResolveDevice(s, u, content)
         \/ \E s \in Station : \E revision : ConfirmAbsent(s, u, revision)
  PROVE  \A v \in User : PersonMove(users[v], users'[v])
<1> DEFINE old == users[u]
<1>1. old \in UserRecord /\ DOMAIN users = User
  BY DEF RepositoryTypeOK
<1>2. SUFFICES ASSUME \E new : users' = [users EXCEPT ![u] = new] /\ PersonMove(old, new)
               PROVE  \A v \in User : PersonMove(users[v], users'[v])
  <2>1. ASSUME NEW pin, NEW cards, NEW assigned, NEW granted,
               Create(u, pin, cards, assigned, granted)
        PROVE  \E new : users' = [users EXCEPT ![u] = new] /\ Unborn(old, new)
    <3> DEFINE new == [status |-> "live", revision |-> 1, pin |-> pin,
                       cards |-> cards, assigned |-> assigned, granted |-> granted]
    <3>1. users' = [users EXCEPT ![u] = new] /\ Unborn(old, new)
      BY <2>1 DEF Create, Unborn
    <3> QED
      BY <3>1
  <2>2. ASSUME NEW pin, NEW cards, NEW assigned, NEW granted,
               Update(u, pin, cards, assigned, granted)
        PROVE  \E new : users' = [users EXCEPT ![u] = new] /\ Edited(old, new)
    <3> DEFINE new == [old EXCEPT !.revision = @ + 1, !.pin = pin, !.cards = cards,
                                  !.assigned = assigned, !.granted = granted]
    <3>1. users' = [users EXCEPT ![u] = new] /\ old.status = "live"
      BY <2>2 DEF Update
    <3>2. new.status = old.status /\ new.revision = old.revision + 1
      BY <1>1 DEF UserRecord
    <3> QED
      BY <3>1, <3>2 DEF Edited
  <2>3. ASSUME EditProfile(u)
        PROVE  \E new : users' = [users EXCEPT ![u] = new] /\ Edited(old, new)
    <3> DEFINE new == [old EXCEPT !.revision = @ + 1]
    <3>1. users' = [users EXCEPT ![u] = new] /\ old.status = "live"
      BY <2>3, <1>1 DEF EditProfile
    <3>2. new.status = old.status /\ new.revision = old.revision + 1
      BY <1>1 DEF UserRecord
    <3> QED
      BY <3>1, <3>2 DEF Edited
  <2>4. ASSUME \/ old.status = "live"
               \/ old.status = "tombstone",
               NEW x \in {"tombstone", "gone"}, x = "gone" \/ old.status = "live",
               users' = [users EXCEPT ![u].status = x]
        PROVE  \E new : users' = [users EXCEPT ![u] = new] /\ Withdraws(old, new)
    <3> DEFINE new == [old EXCEPT !.status = x]
    <3>1. users' = [users EXCEPT ![u] = new]
      BY <2>4, <1>1
    <3>2. /\ new.status = x /\ new.revision = old.revision
          /\ new.pin = old.pin /\ new.cards = old.cards
          /\ new.assigned = old.assigned /\ new.granted = old.granted
      BY <1>1 DEF UserRecord
    <3>3. Withdraws(old, new)
      BY <2>4, <3>2 DEF Withdraws
    <3> QED
      BY <3>1, <3>3
  <2>5. ASSUME Delete(u)
        PROVE  \E new : users' = [users EXCEPT ![u] = new] /\ Withdraws(old, new)
    BY <2>4, <2>5 DEF Delete
  <2>6. ASSUME NEW s \in Station, NEW content, NEW status,
               AdoptNew(s, u, content, status)
        PROVE  \E new : users' = [users EXCEPT ![u] = new] /\ Unborn(old, new)
    <3> DEFINE new == [status |-> status, revision |-> 1, pin |-> content.pin,
                       cards |-> content.cards, assigned |-> {s}, granted |-> {s}]
    <3>1. users' = [users EXCEPT ![u] = new] /\ Unborn(old, new)
      BY <2>6 DEF AdoptNew, Unborn
    <3> QED
      BY <3>1
  <2>7. ASSUME NEW s \in Station, NEW content, NEW granted,
               AdoptExisting(s, u, content, granted)
        PROVE  \E new : users' = [users EXCEPT ![u] = new] /\ Edited(old, new)
    <3> DEFINE new == [old EXCEPT !.revision = @ + 1, !.assigned = @ \cup {s},
                                  !.granted = granted]
    <3>1. users' = [users EXCEPT ![u] = new] /\ old.status = "live"
      BY <2>7, <1>1 DEF AdoptExisting
    <3>2. new.status = old.status /\ new.revision = old.revision + 1
      BY <1>1 DEF UserRecord
    <3> QED
      BY <3>1, <3>2 DEF Edited
  <2>8. ASSUME NEW s \in Station, NEW content, ResolveCentral(s, u, content)
        PROVE  \E new : users' = [users EXCEPT ![u] = new] /\ Edited(old, new)
    <3> DEFINE new == [old EXCEPT !.revision = @ + 1]
    <3>1. users' = [users EXCEPT ![u] = new] /\ old.status = "live"
      BY <2>8, <1>1 DEF ResolveCentral
    <3>2. new.status = old.status /\ new.revision = old.revision + 1
      BY <1>1 DEF UserRecord
    <3> QED
      BY <3>1, <3>2 DEF Edited
  <2>9. ASSUME NEW s \in Station, NEW content, ResolveDevice(s, u, content)
        PROVE  \E new : users' = [users EXCEPT ![u] = new] /\ Edited(old, new)
    <3> DEFINE new == [old EXCEPT !.revision = @ + 1, !.pin = content.pin,
                                  !.cards = content.cards]
    <3>1. users' = [users EXCEPT ![u] = new] /\ old.status = "live"
      BY <2>9, <1>1 DEF ResolveDevice
    <3>2. new.status = old.status /\ new.revision = old.revision + 1
      BY <1>1 DEF UserRecord
    <3> QED
      BY <3>1, <3>2 DEF Edited
  <2>10. ASSUME NEW s \in Station, NEW revision, ConfirmAbsent(s, u, revision)
         PROVE  \E new : users' = [users EXCEPT ![u] = new]
                         /\ (new = old \/ Withdraws(old, new))
    <3>1. CASE users' = users
      <4>1. users' = [users EXCEPT ![u] = old]
        BY <3>1 DEF RepositoryTypeOK
      <4> QED
        BY <4>1
    <3>2. CASE users' # users
      BY <2>4, <2>10, <3>2 DEF ConfirmAbsent
    <3> QED
      BY <3>1, <3>2
  <2> QED
    BY <2>1, <2>2, <2>3, <2>5, <2>6, <2>7, <2>8, <2>9, <2>10 DEF PersonMove
<1> QED
  BY <1>1, <1>2 DEF PersonMove

LEMMA EngineMovesPeople ==
  ASSUME TypeInv, NEW s \in Station, Engine(s) \/ Failure(s)
  PROVE  \/ users' = users
         \/ \E u \in User : \E revision : ConfirmAbsent(s, u, revision)
<1>1. CASE \/ Reconcile(s) \/ (\E u \in User : Start(s, u)) \/ BlockedElsewhere(s)
           \/ Journal(s) \/ Write(s) \/ Readback(s) \/ Finish(s)
           \/ ConfirmCards(s) \/ ConfirmPins(s) \/ Failure(s)
  BY <1>1 DEF Reconcile, Start, BlockedElsewhere, Journal, Write, Readback, Finish,
       ConfirmCards, ConfirmPins, ConfirmRemovals, RecordObservation, WriteIntent,
       Fail, Failure, WriteIgnored, ConnectionFailed, Refused, Cancelled,
       StationFailed, repository
<1>2. CASE Inspect(s)
  <2>1. job[s].user \in User
    BY <1>2, JobType DEF Inspect
  <2> QED
    BY <1>2, <2>1 DEF Inspect, Fail, RecordObservation, repository
<1>3. CASE Removed(s)
  <2>1. job[s].user \in User
    BY <1>3, JobType DEF Removed
  <2> QED
    BY <1>3, <2>1 DEF Removed
<1> QED
  BY <1>1, <1>2, <1>3 DEF Engine

LEMMA PersonMoves ==
  ASSUME TypeInv, [Next]_vars
  PROVE  \A u \in User : PersonMove(users[u], users'[u])
<1>0. RepositoryTypeOK
  BY DEF TypeInv, TypeOK
<1>1. ASSUME users' = users PROVE \A u \in User : PersonMove(users[u], users'[u])
  BY <1>1 DEF PersonMove
<1>2. ASSUME NEW u \in User, Administrator(u)
      PROVE  \A v \in User : PersonMove(users[v], users'[v])
  BY <1>0, <1>2, CommitMoves
  DEF Administrator, CreateUser, UpdateUser, EditUserProfile, DeleteUser
<1>3. ASSUME NEW s \in Station, NEW u \in User, Adopt(s, u)
      PROVE  \A v \in User : PersonMove(users[v], users'[v])
  BY <1>0, <1>3, CommitMoves DEF Adopt
<1>4. ASSUME NEW s \in Station, NEW u \in User, Resolve(s, u)
      PROVE  \A v \in User : PersonMove(users[v], users'[v])
  BY <1>0, <1>1, <1>4, CommitMoves DEF Resolve, ResolveDeletion
<1>5. ASSUME NEW s \in Station, Engine(s) \/ Failure(s)
      PROVE  \A v \in User : PersonMove(users[v], users'[v])
  BY <1>0, <1>1, <1>5, EngineMovesPeople, CommitMoves
<1>6. ASSUME NEW s \in Station, NEW u \in User, External(s, u)
      PROVE  users' = users
  BY <1>6 DEF External, repository
<1>7. CASE Restart \/ UNCHANGED vars
  BY <1>1, <1>7 DEF Restart, Reload, vars, repository
<1> QED
  BY <1>1, <1>2, <1>3, <1>4, <1>5, <1>6, <1>7 DEF Next
-----------------------------------------------------------------------------
(* What one step may make of the transaction of a station, apart from       *)
(* ending it.                                                               *)
SamePerson(s) ==
  /\ pc[s] # "idle"
  /\ job'[s].user = job[s].user /\ job'[s].snapshot = job[s].snapshot

Undisturbed(s) ==
  /\ pc'[s] = pc[s] /\ job'[s] = job[s] /\ bindings'[s] = bindings[s]
  /\ external' = 0 => device'[s] = device[s]

Entered(s) ==
  /\ pc[s] = "idle" /\ pc'[s] = "read" /\ users' = users
  /\ \E u \in User :
       /\ Known(users[u])
       /\ job'[s] = [user |-> u, snapshot |-> users[u], current |-> None]

Reads(s) ==
  LET current == device[s][job[s].user]
      binding == bindings'[s][job[s].user]
  IN /\ pc[s] \in {"read", "readback"} /\ pc'[s] = "ready"
     /\ SamePerson(s) /\ job'[s].current = current
     /\ device' = device
     /\ IF binding = None THEN ~current.here ELSE binding.fingerprint = current

Journals(s) ==
  LET u == job[s].user
      want == Desired(job[s].snapshot, s)
      current == job[s].current
  IN /\ pc[s] = "ready" /\ pc'[s] = "write" /\ job'[s] = job[s]
     /\ UNCHANGED <<users, progress, tombstones, retired, device>>
     /\ ~OwnedElsewhere(s)
     /\ IntentAllowed(s, u, job[s].snapshot.revision, Operation(want, current))
     /\ \E next \in NextContents(want, current) :
          bindings'[s][u] =
            [fingerprint |-> IF bindings[s][u] = None THEN None
                             ELSE bindings[s][u].fingerprint,
             intent |-> [before |-> current, desired |-> next]]

Writes(s) ==
  LET u == job[s].user
  IN /\ pc[s] = "write" /\ pc'[s] = "readback" /\ job'[s] = job[s]
     /\ UNCHANGED repository
     /\ device' \in {device, [device EXCEPT ![s][u] = bindings[s][u].intent.desired]}

Finishes(s) ==
  /\ \/ pc[s] = "ready" /\ pc'[s] = "cards"
     \/ pc[s] = "cards" /\ pc'[s] = "pins"
  /\ job'[s] = job[s] /\ device' = device

Move(s) ==
  \/ pc'[s] = "idle"
  \/ Undisturbed(s)
  \/ Entered(s)
  \/ Reads(s)
  \/ Journals(s)
  \/ Writes(s)
  \/ Finishes(s)

LEMMA InspectMoves ==
  ASSUME TypeInv, NEW s \in Station, Inspect(s)
  PROVE  pc'[s] = "idle" \/ Reads(s)
<1> DEFINE u == job[s].user
           current == device[s][u]
<1>1. /\ pc[s] = "read" /\ device' = device
      /\ job[s] \in Job /\ u \in User /\ current \in Content
  BY JobType DEF Inspect, TypeInv, TypeOK, SyncTypeOK
<1>2. ASSUME pc' = [pc EXCEPT ![s] = "ready"], job' = [job EXCEPT ![s].current = current]
      PROVE  /\ pc'[s] = "ready" /\ SamePerson(s) /\ job'[s].current = current
  BY <1>1, <1>2 DEF SamePerson, Job, TypeInv, TypeOK, SyncTypeOK
<1>3. ASSUME RecordObservation(s, u, current, 0)
      PROVE  /\ bindings'[s][u] # None /\ bindings'[s][u].fingerprint = current
  <2>1. bindings'[s][u] = Owning(current)
    BY <1>1, <1>3 DEF RecordObservation, TypeInv, TypeOK, RepositoryTypeOK
  <2> QED
    BY <1>1, <2>1, OwningIsSomething DEF Owning
<1>4. CASE \E status, seen : Fail(s, status, seen)
  BY <1>4 DEF Fail, Release, TypeInv, TypeOK, SyncTypeOK
<1>5. CASE Release(s, current)
  BY <1>5 DEF Release, TypeInv, TypeOK, SyncTypeOK
<1> DEFINE read == [job EXCEPT ![s].current = current]
<1>6. CASE /\ bindings[s][u] = None /\ ~current.here
           /\ pc' = [pc EXCEPT ![s] = "ready"] /\ job' = read
           /\ bindings' = bindings
  BY <1>1, <1>2, <1>6 DEF Reads
<1>7. CASE /\ bindings[s][u] # None /\ current = bindings[s][u].fingerprint
           /\ pc' = [pc EXCEPT ![s] = "ready"] /\ job' = read
           /\ bindings' = bindings
  BY <1>1, <1>2, <1>7 DEF Reads
<1>8. CASE /\ RecordObservation(s, u, current, 0)
           /\ pc' = [pc EXCEPT ![s] = "ready"] /\ job' = read
  BY <1>1, <1>2, <1>3, <1>8 DEF Reads
<1>9. \/ \E status, seen : Fail(s, status, seen)
      \/ Release(s, current)
      \/ /\ bindings[s][u] = None /\ ~current.here
         /\ pc' = [pc EXCEPT ![s] = "ready"] /\ job' = read
         /\ bindings' = bindings
      \/ /\ bindings[s][u] # None /\ current = bindings[s][u].fingerprint
         /\ pc' = [pc EXCEPT ![s] = "ready"] /\ job' = read
         /\ bindings' = bindings
      \/ /\ RecordObservation(s, u, current, 0)
         /\ pc' = [pc EXCEPT ![s] = "ready"] /\ job' = read
  BY DEF Inspect, repository
<1> QED
  BY <1>4, <1>5, <1>6, <1>7, <1>8, <1>9

LEMMA JournalMoves ==
  ASSUME TypeInv, NEW s \in Station, Journal(s)
  PROVE  pc'[s] = "idle" \/ Journals(s)
<1> DEFINE u == job[s].user
           want == Desired(job[s].snapshot, s)
           current == job[s].current
           revision == job[s].snapshot.revision
           operation == Operation(want, current)
<1>1. pc[s] = "ready" /\ ~OwnedElsewhere(s) /\ device' = device /\ u \in User
  BY JobType DEF Journal
<1>2. ASSUME NEW next \in NextContents(want, current),
             WriteIntent(s, u, revision, operation, current, next),
             pc' = [pc EXCEPT ![s] = "write"], job' = job
      PROVE  Journals(s)
  <2> DEFINE intent == [before |-> current, desired |-> next]
             owned == IF bindings[s][u] # None THEN bindings[s][u]
                      ELSE [fingerprint |-> None, intent |-> None]
             after == [fingerprint |-> IF bindings[s][u] = None THEN None
                                       ELSE bindings[s][u].fingerprint,
                       intent |-> intent]
  <2>1. bindings' = [bindings EXCEPT ![s][u] = [owned EXCEPT !.intent = intent]]
    BY <1>2 DEF WriteIntent
  <2>2. bindings'[s][u] = [owned EXCEPT !.intent = intent]
    BY <1>1, <2>1 DEF TypeInv, TypeOK, RepositoryTypeOK
  <2>3. bindings[s][u] # None => bindings[s][u] \in Binding
    BY <1>1 DEF TypeInv, TypeOK, RepositoryTypeOK
  <2>4. owned \in [fingerprint : {owned.fingerprint}, intent : {owned.intent}]
    BY <2>3 DEF Binding
  <2>5. owned.fingerprint = IF bindings[s][u] = None THEN None
                            ELSE bindings[s][u].fingerprint
    OBVIOUS
  <2> HIDE DEF owned, intent
  <2>6. bindings'[s][u] = after
    BY <2>2, <2>4, <2>5
  <2>7. pc'[s] = "write"
    BY <1>2 DEF TypeInv, TypeOK, SyncTypeOK
  <2> HIDE DEF after
  <2>8. /\ IntentAllowed(s, u, revision, operation)
        /\ UNCHANGED <<users, progress, tombstones, retired>>
    BY <1>2 DEF WriteIntent
  <2> QED
    BY <1>1, <1>2, <2>6, <2>7, <2>8 DEF Journals, after, intent
<1>3. CASE Fail(s, "pending", current)
  BY <1>3 DEF Fail, Release, TypeInv, TypeOK, SyncTypeOK
<1> QED
  BY <1>2, <1>3 DEF Journal

LEMMA EngineMoves ==
  ASSUME TypeInv, NEW s \in Station, Engine(s) \/ Failure(s)
  PROVE  Move(s)
<1> USE DEF TypeInv, TypeOK, RepositoryTypeOK, SyncTypeOK
<1>1. CASE Reconcile(s)
  BY <1>1 DEF Reconcile, Move, Undisturbed, repository
<1>2. ASSUME NEW u \in User, Start(s, u) PROVE Move(s)
  <2>1. CASE Known(users[u])
    BY <1>2, <2>1 DEF Start, Move, Entered
  <2>2. CASE ~Known(users[u])
    BY <1>2, <2>2 DEF Start, Move, Undisturbed
  <2> QED
    BY <2>1, <2>2
<1>3. CASE Inspect(s) \/ Journal(s)
  BY <1>3, InspectMoves, JournalMoves DEF Move
<1>4. CASE \/ BlockedElsewhere(s) \/ Removed(s) \/ ConfirmPins(s) \/ ConnectionFailed(s)
           \/ Refused(s) \/ Cancelled(s) \/ StationFailed(s)
  BY <1>4 DEF BlockedElsewhere, Removed, ConfirmPins, ConnectionFailed, Refused,
       Cancelled, StationFailed, Stopped, Fail, Release, Move
<1>5. CASE Write(s) \/ WriteIgnored(s)
  BY <1>5 DEF Write, WriteIgnored, Move, Writes
<1>6. CASE Finish(s) \/ ConfirmCards(s)
  BY <1>6 DEF Finish, ConfirmCards, Move, Finishes
<1>7. CASE Readback(s)
  <2> DEFINE u == job[s].user
             observed == device[s][u]
  <2>1. pc[s] = "readback" /\ device' = device
    BY <1>7 DEF Readback
  <2>2. job[s] \in Job /\ u \in User /\ observed \in Content
    BY <2>1, JobType
  <2>3. CASE Fail(s, "error", job[s].current)
    BY <2>3 DEF Fail, Release, Move
  <2>4. CASE /\ RecordObservation(s, u, observed, 0)
             /\ pc' = [pc EXCEPT ![s] = "ready"]
             /\ job' = [job EXCEPT ![s].current = observed]
    <3>1. bindings'[s][u] = Owning(observed)
      BY <2>2, <2>4 DEF RecordObservation
    <3>2. bindings'[s][u] # None /\ bindings'[s][u].fingerprint = observed
      BY <2>2, <3>1, OwningIsSomething DEF Owning
    <3>3. /\ pc'[s] = "ready" /\ job'[s].current = observed
          /\ job'[s].user = u /\ job'[s].snapshot = job[s].snapshot
      BY <2>2, <2>4 DEF Job
    <3> QED
      BY <2>1, <3>2, <3>3 DEF Move, Reads, SamePerson
  <2> QED
    BY <1>7, <2>3, <2>4 DEF Readback
<1> QED
  BY <1>1, <1>2, <1>3, <1>4, <1>5, <1>6, <1>7 DEF Engine, Failure

(* While nobody has edited records at a station, nobody had before. *)
LEMMA StillUntouched ==
  ASSUME TypeInv, [Next]_vars, external' = 0
  PROVE  external = 0
<1>1. ASSUME NEW t \in Station, NEW v \in User, External(t, v) PROVE FALSE
  BY <1>1 DEF External, TypeInv, TypeOK, SyncTypeOK
<1>2. CASE \E t \in Station : Engine(t) \/ Failure(t)
  BY <1>2, StationLocal DEF StationOnly
<1>3. CASE Restart \/ UNCHANGED vars
  BY <1>3 DEF Restart, vars
<1> QED
  BY <1>1, <1>2, <1>3, AdministratorsOutside DEF Next

LEMMA Moves ==
  ASSUME TypeInv, [Next]_vars, NEW s \in Station
  PROVE  Move(s)
<1>1. ASSUME NEW t \in Station, Engine(t) \/ Failure(t) PROVE Move(s)
  BY <1>1, EngineMoves, StationLocal DEF StationOnly, Move, Undisturbed
<1>2. ASSUME NEW t \in Station, NEW v \in User, External(t, v) PROVE Move(s)
  <2>1. external' # 0 /\ UNCHANGED <<pc, job, bindings>>
    BY <1>2 DEF External, repository, engine, TypeInv, TypeOK, SyncTypeOK
  <2> QED
    BY <2>1 DEF Move, Undisturbed
<1>3. CASE \/ \E u \in User : Administrator(u)
           \/ \E t \in Station, u \in User : Adopt(t, u) \/ Resolve(t, u)
  BY <1>3, AdministratorsOutside DEF Move, Undisturbed
<1>4. CASE Restart
  BY <1>4 DEF Restart, Stopped, Move
<1>5. CASE UNCHANGED vars
  BY <1>5 DEF vars, repository, engine, Move, Undisturbed
<1> QED
  BY <1>1, <1>2, <1>3, <1>4, <1>5 DEF Next
-----------------------------------------------------------------------------
(* What an engine may rely on inside its transaction, whoever edits the     *)
(* ledger and the devices meanwhile.                                        *)

(* A content without the person is empty. *)
Proper(content) == content.here \/ content = Absent

ProperContents ==
  /\ \A s \in Station, u \in User : Proper(device[s][u])
  /\ \A s \in Station :
       /\ pc[s] \notin {"idle", "read"} => Proper(job[s].current)
       /\ pc[s] = "write" => Proper(bindings[s][job[s].user].intent.desired)

(* A person without a revision is nobody yet. *)
Born == \A u \in User : users[u].status = "unborn" <=> users[u].revision = 0

(* The snapshot is the person as recorded, as long as the revisions agree;  *)
(* nobody comes back to life.                                               *)
Snapshots ==
  \A s \in Station : pc[s] # "idle" =>
    LET now == users[job[s].user]
        snapshot == job[s].snapshot
    IN /\ now.status # "unborn"
       /\ now.status = "live" => snapshot.status = "live"
       /\ snapshot.revision <= now.revision
       /\ snapshot.revision = now.revision =>
            /\ snapshot.pin = now.pin /\ snapshot.cards = now.cards
            /\ snapshot.assigned = now.assigned /\ snapshot.granted = now.granted

(* What was read last is still there, or the write has taken effect. *)
LastRead ==
  external = 0 => \A s \in Station :
    /\ pc[s] = "read" => job[s].current = None
    /\ pc[s] \in {"cards", "pins"} => device[s][job[s].user] = job[s].current
    /\ pc[s] = "readback" =>
         device[s][job[s].user] \in
           {job[s].current, bindings[s][job[s].user].intent.desired}

(* The binding describes what was read last: with none, or none confirmed   *)
(* yet, there was nothing.                                                  *)
Recognised ==
  \A s \in Station : pc[s] \in {"ready", "write", "readback"} =>
    LET binding == bindings[s][job[s].user]
        current == job[s].current
    IN IF binding = None THEN ~current.here
       ELSE IF binding.fingerprint = None THEN ~current.here
       ELSE binding.fingerprint = current

Grounds ==
  ProperContents /\ Born /\ Snapshots /\ LastRead /\ Recognised

LEMMA ProperNext ==
  ASSUME NEW want \in Content, NEW current \in Content, Proper(current),
         NEW next \in NextContents(want, current)
  PROVE  Proper(next)
<1>1. \A c : [current EXCEPT !.cards = @ \ {c}].here = current.here
  BY DEF Content
<1>2. \A c : [current EXCEPT !.cards = @ \cup {c}].here = current.here
  BY DEF Content
<1>3. [current EXCEPT !.here = TRUE, !.pin = want.pin].here
  BY DEF Content
<1>4. current.cards # {} => current.here
  BY DEF Proper, Absent
<1>5. [current EXCEPT !.here = TRUE, !.pin = want.pin] = current => current.here
  BY <1>3
<1> QED
  BY <1>1, <1>2, <1>3, <1>4, <1>5 DEF NextContents, Proper

LEMMA ProperStep ==
  ASSUME TypeInv, ProperContents, [Next]_vars
  PROVE  ProperContents'
<1>1. ASSUME NEW s \in Station, NEW u \in User PROVE Proper(device'[s][u])
  <2>1. CASE device' = device
    BY <2>1 DEF ProperContents
  <2>2. ASSUME NEW t \in Station, Write(t) PROVE Proper(device'[s][u])
    BY <2>2, JobType DEF Write, ProperContents, TypeInv, TypeOK, SyncTypeOK
  <2>3. ASSUME NEW t \in Station, NEW v \in User, External(t, v)
        PROVE  Proper(device'[s][u])
    BY <2>3 DEF External, ProperContents, Proper, TypeInv, TypeOK, SyncTypeOK
  <2>4. external' # external => \E t \in Station, v \in User : External(t, v)
    <3>1. CASE \E t \in Station : Engine(t) \/ Failure(t)
      BY <3>1, StationLocal DEF StationOnly
    <3>2. CASE Restart \/ UNCHANGED vars
      BY <3>2 DEF Restart, vars
    <3> QED
      BY <3>1, <3>2, AdministratorsOutside DEF Next
  <2> QED
    BY <2>1, <2>2, <2>3, <2>4, DeviceChanges
<1>2. ASSUME NEW s \in Station PROVE
        /\ pc'[s] \notin {"idle", "read"} => Proper(job'[s].current)
        /\ pc'[s] = "write" => Proper(bindings'[s][job'[s].user].intent.desired)
  <2>1. CASE Journals(s)
    <3> DEFINE want == Desired(job[s].snapshot, s)
               current == job[s].current
    <3>1. want \in Content /\ current \in Content /\ Proper(current)
      BY <2>1, JobType, CurrentType DEF Journals, ProperContents
    <3>2. \A next \in NextContents(want, current) : Proper(next)
      BY <3>1, ProperNext
    <3>3. Proper(bindings'[s][job[s].user].intent.desired)
      BY <2>1, <3>2 DEF Journals
    <3> QED
      BY <2>1, <3>1, <3>3 DEF Journals
  <2>2. CASE Reads(s)
    <3>1. job[s].user \in User
      BY <2>2, JobType DEF Reads
    <3> QED
      BY <2>2, <3>1 DEF Reads, ProperContents
  <2>3. CASE pc'[s] = "idle" \/ Undisturbed(s) \/ Entered(s)
    BY <2>3 DEF Undisturbed, Entered, ProperContents
  <2>4. CASE Writes(s) \/ Finishes(s)
    BY <2>4 DEF Writes, Finishes, ProperContents
  <2> QED
    BY <2>1, <2>2, <2>3, <2>4, Moves DEF Move
<1> QED
  BY <1>1, <1>2 DEF ProperContents

LEMMA SnapshotsStep ==
  ASSUME TypeInv, Born, Snapshots, [Next]_vars
  PROVE  Born' /\ Snapshots'
<1>1. \A u \in User : users[u] \in UserRecord /\ users[u].revision \in Nat
  BY DEF TypeInv, TypeOK, RepositoryTypeOK, UserRecord
<1>2. Born'
  BY <1>1, PersonMoves DEF PersonMove, Unborn, Edited, Withdraws, Born
<1>3. ASSUME NEW s \in Station, pc'[s] # "idle" PROVE
        LET now == users'[job'[s].user]
            snapshot == job'[s].snapshot
        IN /\ now.status # "unborn"
           /\ now.status = "live" => snapshot.status = "live"
           /\ snapshot.revision <= now.revision
           /\ snapshot.revision = now.revision =>
                /\ snapshot.pin = now.pin /\ snapshot.cards = now.cards
                /\ snapshot.assigned = now.assigned
                /\ snapshot.granted = now.granted
  <2>1. CASE Entered(s)
    <3>1. PICK u \in User :
            /\ Known(users[u]) /\ users' = users
            /\ job'[s] = [user |-> u, snapshot |-> users[u], current |-> None]
      BY <2>1 DEF Entered
    <3> QED
      BY <1>1, <3>1 DEF Known
  <2>2. CASE pc[s] # "idle" /\ job'[s].user = job[s].user
             /\ job'[s].snapshot = job[s].snapshot
    <3> SUFFICES ASSUME NEW old, old = users[job[s].user],
                        NEW now, now = users'[job[s].user],
                        NEW snapshot, snapshot = job[s].snapshot
                 PROVE  /\ now.status # "unborn"
                        /\ now.status = "live" => snapshot.status = "live"
                        /\ snapshot.revision <= now.revision
                        /\ snapshot.revision = now.revision =>
                             /\ snapshot.pin = now.pin /\ snapshot.cards = now.cards
                             /\ snapshot.assigned = now.assigned
                             /\ snapshot.granted = now.granted
      BY <2>2
    <3>1. job[s].user \in User /\ snapshot.revision \in Nat
      BY <2>2, JobType
    <3>2. PersonMove(old, now) /\ old.revision \in Nat
      BY <1>1, <3>1, PersonMoves
    <3>3. /\ old.status # "unborn"
          /\ old.status = "live" => snapshot.status = "live"
          /\ snapshot.revision <= old.revision
          /\ snapshot.revision = old.revision =>
               /\ snapshot.pin = old.pin /\ snapshot.cards = old.cards
               /\ snapshot.assigned = old.assigned /\ snapshot.granted = old.granted
      BY <2>2 DEF Snapshots
    <3>4. ~Unborn(old, now)
      BY <3>3 DEF Unborn
    <3>5. CASE now = old
      BY <3>3, <3>5
    <3>6. CASE Edited(old, now)
      BY <3>1, <3>2, <3>3, <3>6 DEF Edited
    <3>7. CASE Withdraws(old, now)
      BY <3>3, <3>7 DEF Withdraws
    <3> QED
      BY <3>2, <3>4, <3>5, <3>6, <3>7 DEF PersonMove
  <2>3. Entered(s) \/ (/\ pc[s] # "idle" /\ job'[s].user = job[s].user
                       /\ job'[s].snapshot = job[s].snapshot)
    BY <1>3, Moves DEF Move, Undisturbed, Reads, SamePerson, Journals, Writes, Finishes
  <2> QED
    BY <2>1, <2>2, <2>3
<1> QED
  BY <1>2, <1>3 DEF Snapshots

LEMMA LastReadStep ==
  ASSUME TypeInv, Tracking, LastRead, [Next]_vars
  PROVE  LastRead'
<1> SUFFICES ASSUME external' = 0, NEW s \in Station
             PROVE  /\ pc'[s] = "read" => job'[s].current = None
                    /\ pc'[s] \in {"cards", "pins"} =>
                         device'[s][job'[s].user] = job'[s].current
                    /\ pc'[s] = "readback" =>
                         device'[s][job'[s].user] \in
                           {job'[s].current, bindings'[s][job'[s].user].intent.desired}
  BY DEF LastRead
<1>1. external = 0
  BY StillUntouched
<1>2. CASE Undisturbed(s)
  BY <1>1, <1>2 DEF Undisturbed, LastRead
<1>3. CASE Finishes(s)
  BY <1>1, <1>3 DEF Finishes, LastRead, Tracking
<1>4. CASE Writes(s)
  <2> DEFINE u == job[s].user
  <2>1. pc[s] = "write" /\ u \in User /\ job'[s] = job[s] /\ bindings' = bindings
        /\ pc'[s] = "readback"
    BY <1>4, JobType DEF Writes, repository
  <2>2. device[s][u] = job[s].current
    BY <1>1, <2>1 DEF Tracking
  <2>3. device'[s][u] \in {device[s][u], bindings[s][u].intent.desired}
    BY <1>4, <2>1 DEF Writes, TypeInv, TypeOK, SyncTypeOK
  <2> QED
    BY <2>1, <2>2, <2>3
<1>5. CASE Entered(s)
  BY <1>5 DEF Entered
<1>6. CASE pc'[s] \notin {"read", "cards", "pins", "readback"}
  BY <1>6
<1> QED
  BY <1>2, <1>3, <1>4, <1>5, <1>6, Moves DEF Move, Reads, Journals

LEMMA RecognisedStep ==
  ASSUME TypeInv, Recognised, [Next]_vars
  PROVE  Recognised'
<1> SUFFICES ASSUME NEW s \in Station, pc'[s] \in {"ready", "write", "readback"}
             PROVE  LET binding == bindings'[s][job'[s].user]
                        current == job'[s].current
                    IN IF binding = None THEN ~current.here
                       ELSE IF binding.fingerprint = None THEN ~current.here
                       ELSE binding.fingerprint = current
  BY DEF Recognised
<1>1. CASE Undisturbed(s)
  BY <1>1 DEF Undisturbed, Recognised
<1>2. CASE Reads(s)
  <2>1. job[s].user \in User
    BY <1>2, JobType DEF Reads
  <2>2. device[s][job[s].user] \in Content
    BY <2>1 DEF TypeInv, TypeOK, SyncTypeOK
  <2> QED
    BY <1>2, <2>2, NoneAssumption DEF Reads, SamePerson
<1>3. CASE Journals(s)
  <2> DEFINE u == job[s].user
             before == bindings[s][u]
             after == bindings'[s][u]
  <2>1. /\ pc[s] = "ready" /\ job'[s] = job[s]
        /\ after.fingerprint = IF before = None THEN None ELSE before.fingerprint
    BY <1>3 DEF Journals
  <2>2. after # None
    BY <1>3, NextType DEF Journals, TypeInv, Transaction
  <2> QED
    BY <2>1, <2>2 DEF Recognised
<1>4. CASE Writes(s)
  BY <1>4 DEF Writes, Recognised, repository
<1> QED
  BY <1>1, <1>2, <1>3, <1>4, Moves DEF Move, Entered, Finishes

LEMMA GroundsInvariant == Spec => [](TypeInv /\ Tracking /\ Grounds)
<1>1. Init => Grounds
  <2>1. Init => ProperContents
    BY DEF Init, ProperContents, Proper
  <2>2. Init => Born /\ Snapshots
    BY DEF Init, RepositoryInit, Born, Snapshots
  <2>3. Init => LastRead /\ Recognised
    BY DEF Init, LastRead, Recognised
  <2> QED
    BY <2>1, <2>2, <2>3 DEF Grounds
<1>2. TypeInv /\ Tracking /\ Grounds /\ [Next]_vars => Grounds'
  BY ProperStep, SnapshotsStep, LastReadStep, RecognisedStep DEF Grounds
<1> QED
  BY <1>1, <1>2, TrackingInvariant, PTL DEF Spec
-----------------------------------------------------------------------------
(* When nothing is left to write, the device record is the wanted one. *)
LEMMA NothingLeft ==
  ASSUME NEW want \in Content, NEW current \in Content, want.here,
         NextContents(want, current) = {}
  PROVE  current = want
<1>1. current = [current EXCEPT !.here = TRUE, !.pin = want.pin]
  BY DEF NextContents
<1>2. /\ \A c \in current.cards \ want.cards :
           [current EXCEPT !.cards = @ \ {c}] \in NextContents(want, current)
      /\ current.cards \subseteq want.cards =>
           \A c \in want.cards \ current.cards :
             [current EXCEPT !.cards = @ \cup {c}] \in NextContents(want, current)
  BY <1>1 DEF NextContents
<1>3. current.here /\ current.pin = want.pin /\ current.cards = want.cards
  BY <1>1, <1>2 DEF Content
<1> QED
  BY <1>3 DEF Content

(* The operations of the engine that leave another fingerprint behind. *)
LEMMA FingerprintChange ==
  ASSUME TypeInv, Recognised, [Next]_vars,
         NEW s \in Station, NEW u \in User, pc[s] # "idle",
         bindings[s][u] # None, bindings'[s][u] # None,
         bindings'[s][u].fingerprint # bindings[s][u].fingerprint
  PROVE  /\ bindings[s][u].intent # None
         /\ bindings'[s][u].fingerprint \in
              {bindings[s][u].intent.before, bindings[s][u].intent.desired}
<1> DEFINE v == job[s].user
           before == bindings[s][u]
           after == bindings'[s][u]
<1>0. v \in User /\ device[s][v] \in Content
  BY JobType DEF TypeInv, TypeOK, SyncTypeOK
<1>1. bindings'[s] # bindings[s]
  OBVIOUS
<1>2. ASSUME NEW content, NEW revision, RecordObservation(s, v, content, revision)
      PROVE  u = v /\ after.fingerprint = content
  <2>1. bindings' = [bindings EXCEPT ![s][v] = Owning(content)]
    BY <1>2 DEF RecordObservation
  <2>2. u = v /\ after = Owning(content)
    BY <1>0, <2>1 DEF TypeInv, TypeOK, RepositoryTypeOK
  <2> QED
    BY <2>2 DEF Owning
<1>3. ~ConfirmAbsent(s, v, job[s].snapshot.revision)
  <2>1. bindings' # [bindings EXCEPT ![s][v] = None]
    BY <1>0 DEF TypeInv, TypeOK, RepositoryTypeOK
  <2> QED
    BY <2>1 DEF ConfirmAbsent
<1>4. CASE Inspect(s)
  <2>1. ~ConfirmAbsent(s, v, job[s].snapshot.revision)
    BY <1>3
  <2>2. \/ device[s][v] = bindings[s][v].fingerprint
        \/ Explained(bindings[s][v], device[s][v])
    BY <1>1, <1>4, <2>1 DEF Inspect, Fail, repository
  <2>3. RecordObservation(s, v, device[s][v], 0)
    BY <1>1, <1>4, <2>1 DEF Inspect, Fail, repository
  <2>4. u = v /\ after.fingerprint = device[s][v]
    BY <1>2, <2>3
  <2> QED
    BY <2>2, <2>4 DEF Explained
<1>5. CASE Readback(s)
  <2>1. RecordObservation(s, v, device[s][v], 0)
    BY <1>1, <1>5 DEF Readback, Fail
  <2>2. pc[s] = "readback" /\ device[s][v] = bindings[s][v].intent.desired
    BY <1>1, <1>5 DEF Readback, Fail
  <2>3. u = v /\ after.fingerprint = device[s][v]
    BY <1>2, <2>1
  <2> QED
    BY <2>2, <2>3, IntentType
<1>6. CASE Finish(s)
  <2> DEFINE want == Desired(job[s].snapshot, s)
             current == job[s].current
  <2>1. /\ pc[s] = "ready" /\ want.here /\ NextContents(want, current) = {}
        /\ RecordObservation(s, v, want, job[s].snapshot.revision)
    BY <1>6 DEF Finish
  <2>2. want \in Content /\ current \in Content
    BY <2>1, JobType, CurrentType
  <2>3. current = want
    BY <2>1, <2>2, NothingLeft
  <2>4. u = v /\ after.fingerprint = want
    BY <1>2, <2>1
  <2> QED
    BY <2>1, <2>3, <2>4 DEF Recognised
<1>7. CASE Journal(s)
  <2>1. Journals(s)
    BY <1>1, <1>7, JournalMoves DEF Journal, Fail, TypeInv, TypeOK, SyncTypeOK
  <2>2. bindings'[s][v].fingerprint = bindings[s][v].fingerprint \/ bindings[s][v] = None
    BY <2>1 DEF Journals
  <2>3. u # v => bindings'[s][u] = bindings[s][u]
    BY <1>0, <1>7 DEF Journal, WriteIntent, Fail, TypeInv, TypeOK, RepositoryTypeOK
  <2> QED
    BY <2>2, <2>3
<1>8. CASE Removed(s)
  BY <1>8, <1>3 DEF Removed
<1>9. CASE \/ Reconcile(s) \/ (\E w \in User : Start(s, w)) \/ Write(s)
           \/ ConfirmCards(s) \/ ConfirmPins(s) \/ BlockedElsewhere(s) \/ Failure(s)
  <2>1. bindings' = bindings
    BY <1>9 DEF Reconcile, Start, Write, ConfirmCards, ConfirmPins, ConfirmRemovals,
                BlockedElsewhere, Fail, Failure, WriteIgnored, ConnectionFailed,
                Refused, Cancelled, StationFailed, repository
  <2> QED
    BY <1>1, <2>1
<1>10. Engine(s) \/ Failure(s)
  <2>1. ASSUME NEW t \in Station, Engine(t) \/ Failure(t) PROVE t = s
    BY <1>1, <2>1, StationLocal DEF StationOnly
  <2>2. CASE Restart \/ (UNCHANGED vars) \/ (\E t \in Station, w \in User : External(t, w))
    BY <1>1, <2>2 DEF Restart, Reload, vars, repository, External
  <2> QED
    BY <1>1, <2>1, <2>2, AdministratorsOutside DEF Next
<1> QED
  BY <1>4, <1>5, <1>6, <1>7, <1>8, <1>9, <1>10 DEF Engine

(* The engine replaces only what it recognised: what it read last is what   *)
(* the binding describes, and within a transaction the binding takes over   *)
(* no content other than those its open intent announced.  This holds for   *)
(* every number of edits at the stations and for every fault between a      *)
(* write and its readback (engine.py, _person and _step).                   *)
THEOREM NothingOverwritten == Spec => NoSilentOverwrite
<1> DEFINE Before ==
      \A s \in Station : pc[s] = "write" =>
        LET binding == bindings[s][job[s].user]
            current == job[s].current
        IN /\ binding.intent.before = current
           /\ IF binding.fingerprint = None THEN ~current.here
                                            ELSE binding.fingerprint = current
    Step ==
      \A s \in Station, u \in User :
        LET before == bindings[s][u]
            after == bindings'[s][u]
        IN /\ pc[s] # "idle" /\ before # None /\ after # None
           /\ after.fingerprint # before.fingerprint
           => /\ before.intent # None
              /\ after.fingerprint \in {before.intent.before, before.intent.desired}
<1>1. TypeInv /\ Tracking /\ Grounds => Before
  BY DEF Tracking, Grounds, Recognised, TypeInv, Transaction
<1>2. TypeInv /\ Grounds /\ [Next]_vars => Step
  BY FingerprintChange DEF Grounds
<1>3. TypeInv /\ Grounds /\ [Next]_vars => [Step]_vars
  BY <1>2
<1> QED
  BY <1>1, <1>3, GroundsInvariant, PTL DEF Spec, NoSilentOverwrite
-----------------------------------------------------------------------------
(* Somebody answers for a credential at a station: the person has it, the   *)
(* deletion of the person still waits for this station, or the credential   *)
(* is listed for removal there.                                             *)
Accounted(s, u, x) ==
  \/ /\ x \in Secrets(users[u])
     /\ \/ users[u].status = "live"
        \/ users[u].status = "tombstone" /\ s \in Unconfirmed(tombstones[u])
  \/ \E r \in retired : r.user = u /\ r.secret = x /\ s \in Unconfirmed(r)

(* A confirmation leaves the entry of every other station, person and       *)
(* credential.                                                              *)
LEMMA ConfirmedAtKeeps ==
  ASSUME RepositoryTypeOK, NEW s \in Station, NEW t \in Station,
         NEW v, NEW kind, NEW present, NEW r \in retired, s \in Unconfirmed(r),
         ~(t = s /\ v = r.user /\ r.secret \in kind \ present)
  PROVE  \E q \in ConfirmedAt(t, v, kind, present) :
           q.user = r.user /\ q.secret = r.secret /\ s \in Unconfirmed(q)
<1> DEFINE hit == {q \in retired : /\ q.user = v
                                   /\ t \in q.targets
                                   /\ q.secret \in kind \ present}
           acknowledged == {[q EXCEPT !.confirmed = @ \cup {t}] : q \in hit}
           after == [r EXCEPT !.confirmed = @ \cup {t}]
<1>1. ConfirmedAt(t, v, kind, present) =
        (retired \ hit) \cup {q \in acknowledged : Unconfirmed(q) # {}}
  BY DEF ConfirmedAt
<1>2. CASE r \notin hit
  BY <1>1, <1>2
<1>3. CASE r \in hit
  <2>1. s # t
    BY <1>3
  <2>2. r \in Retirement
    BY DEF RepositoryTypeOK
  <2>3. /\ after.user = r.user /\ after.secret = r.secret
        /\ after.targets = r.targets /\ after.confirmed = r.confirmed \cup {t}
    BY <2>2 DEF Retirement
  <2>4. s \in Unconfirmed(after)
    BY <2>1, <2>3 DEF Unconfirmed
  <2>5. after \in acknowledged
    BY <1>3
  <2> HIDE DEF after, acknowledged, hit
  <2> QED
    BY <1>1, <2>3, <2>4, <2>5
<1> QED
  BY <1>2, <1>3

LEMMA ConfirmRemovalsKeeps ==
  ASSUME RepositoryTypeOK, NEW s \in Station, NEW u \in User, NEW x,
         Accounted(s, u, x), NEW t \in Station, NEW v \in User,
         NEW kind, NEW present, ConfirmRemovals(t, v, kind, present),
         ~(t = s /\ v = u /\ x \in kind \ present)
  PROVE  Accounted(s, u, x)'
<1>1. /\ users'[u] = users[u] /\ tombstones'[u] = tombstones[u]
      /\ retired' = ConfirmedAt(t, v, kind, present)
  BY DEF ConfirmRemovals
<1>2. ASSUME NEW r \in retired, r.user = u, r.secret = x, s \in Unconfirmed(r)
      PROVE  \E q \in retired' : q.user = u /\ q.secret = x /\ s \in Unconfirmed(q)
  BY <1>1, <1>2, ConfirmedAtKeeps
<1> QED
  BY <1>1, <1>2 DEF Accounted

LEMMA ConfirmAbsentKeeps ==
  ASSUME RepositoryTypeOK, NEW s \in Station, NEW u \in User, NEW x,
         Accounted(s, u, x), NEW t \in Station, NEW v \in User,
         NEW revision, ConfirmAbsent(t, v, revision), ~(t = s /\ v = u)
  PROVE  Accounted(s, u, x)'
<1>1. retired' = ConfirmedAt(t, v, Card \cup Pin, {})
  BY DEF ConfirmAbsent
<1>2. ASSUME NEW r \in retired, r.user = u, r.secret = x, s \in Unconfirmed(r)
      PROVE  \E q \in retired' : q.user = u /\ q.secret = x /\ s \in Unconfirmed(q)
  BY <1>1, <1>2, ConfirmedAtKeeps
<1>3. CASE v # u \/ users[v].status # "tombstone"
  <2>1. users'[u] = users[u] /\ tombstones'[u] = tombstones[u]
    BY <1>3 DEF ConfirmAbsent, RepositoryTypeOK
  <2> QED
    BY <1>2, <2>1 DEF Accounted
<1>4. CASE v = u /\ t # s /\ users[u].status = "tombstone"
  <2> DEFINE confirmed == tombstones[u].confirmed \cup {t}
  <2>1. ASSUME s \in Unconfirmed(tombstones[u])
        PROVE  /\ users' = users
               /\ s \in Unconfirmed(tombstones'[u])
    <3>1. ~(tombstones[u].targets \subseteq confirmed)
      BY <1>4, <2>1 DEF Unconfirmed
    <3>2. /\ users' = users
          /\ tombstones' = [tombstones EXCEPT ![u] = [@ EXCEPT !.confirmed = confirmed]]
      BY <1>4, <3>1 DEF ConfirmAbsent
    <3>3. /\ tombstones'[u].targets = tombstones[u].targets
          /\ tombstones'[u].confirmed = confirmed
      BY <3>2 DEF RepositoryTypeOK, Tombstone
    <3> QED
      BY <1>4, <2>1, <3>2, <3>3 DEF Unconfirmed
  <2> QED
    BY <1>2, <1>4, <2>1 DEF Accounted
<1> QED
  BY <1>3, <1>4

(* An edit of a living person: credentials that are withdrawn are listed    *)
(* for removal wherever there is a binding, and an entry is dropped only    *)
(* when its credential is wanted again.                                     *)
LEMMA EditKeeps ==
  ASSUME RepositoryTypeOK, NEW v \in User,
         users[v].status = "live", users'[v].status = "live",
         \A w \in User \ {v} : users'[w] = users[w],
         tombstones' = tombstones,
         \A r \in retired \cup Retirements(v, Secrets(users[v]) \ Secrets(users'[v]),
                                            Targets(v)) :
           r \in retired' \/ (r.user = v /\ r.secret \in Secrets(users'[v])),
         NEW s \in Station, NEW u \in User, NEW x,
         bindings[s][u] # None, Accounted(s, u, x)
  PROVE  Accounted(s, u, x)'
<1>1. CASE u # v
  BY <1>1 DEF Accounted
<1>2. CASE u = v
  <2>1. CASE x \in Secrets(users'[v])
    BY <1>2, <2>1 DEF Accounted, Secrets
  <2>2. CASE \E r \in retired : r.user = u /\ r.secret = x /\ s \in Unconfirmed(r)
    BY <1>2, <2>1, <2>2 DEF Accounted
  <2>3. CASE x \in Secrets(users[v]) /\ x \notin Secrets(users'[v])
    <3> DEFINE r == [user |-> v, secret |-> x, targets |-> Targets(v), confirmed |-> {}]
    <3>1. s \in Targets(v)
      BY <1>2 DEF Targets
    <3>2. r \in Retirements(v, Secrets(users[v]) \ Secrets(users'[v]), Targets(v))
      BY <2>3, <3>1 DEF Retirements
    <3>3. r.user = u /\ r.secret = x /\ s \in Unconfirmed(r)
      BY <1>2, <3>1 DEF Unconfirmed
    <3>4. r \in retired'
      BY <2>3, <3>2, <3>3
    <3> HIDE DEF r
    <3> QED
      BY <3>3, <3>4 DEF Accounted
  <2> QED
    BY <1>2, <2>1, <2>2, <2>3 DEF Accounted
<1> QED
  BY <1>1, <1>2

LEMMA NothingWithdrawn ==
  ASSUME NEW v, NEW targets
  PROVE  \A secrets : secrets = {} => Retirements(v, secrets, targets) = {}
BY DEF Retirements

(* An edit of a living person that leaves the credentials alone. *)
LEMMA RevisionKeeps ==
  ASSUME RepositoryTypeOK, NEW v \in User,
         users[v].status = "live", users'[v].status = "live",
         users'[v].pin = users[v].pin, users'[v].cards = users[v].cards,
         \A w \in User \ {v} : users'[w] = users[w],
         UNCHANGED <<tombstones, retired>>,
         NEW s \in Station, NEW u \in User, NEW x,
         bindings[s][u] # None, Accounted(s, u, x)
  PROVE  Accounted(s, u, x)'
<1>1. Secrets(users[v]) \ Secrets(users'[v]) = {}
  BY DEF Secrets
<1>2. Retirements(v, Secrets(users[v]) \ Secrets(users'[v]), Targets(v)) = {}
  BY <1>1, NothingWithdrawn
<1> QED
  BY <1>2, EditKeeps

(* Somebody who was unborn before the step. *)
LEMMA ArrivalKeeps ==
  ASSUME RepositoryTypeOK, NEW v \in User, users[v].status = "unborn",
         \A w \in User \ {v} :
           users'[w] = users[w] /\ tombstones'[w] = tombstones[w],
         retired' = retired,
         NEW s \in Station, NEW u \in User, NEW x, Accounted(s, u, x)
  PROVE  Accounted(s, u, x)'
<1>1. CASE u = v
  BY <1>1 DEF Accounted
<1>2. CASE u # v
  <2>1. users'[u] = users[u] /\ tombstones'[u] = tombstones[u]
    BY <1>2
  <2> QED
    BY <2>1 DEF Accounted
<1> QED
  BY <1>1, <1>2

LEMMA AdministratorKeeps ==
  ASSUME RepositoryTypeOK, NEW v \in User, Administrator(v),
         NEW s \in Station, NEW u \in User, NEW x,
         bindings[s][u] # None, Accounted(s, u, x)
  PROVE  Accounted(s, u, x)'
<1>0. users[v] \in UserRecord
  BY DEF RepositoryTypeOK
<1>1. CASE CreateUser(v)
  <2>1. /\ users[v].status = "unborn" /\ retired' = retired
        /\ \A w \in User \ {v} :
             users'[w] = users[w] /\ tombstones'[w] = tombstones[w]
    BY <1>1 DEF CreateUser, Create, RepositoryTypeOK
  <2> QED
    BY <2>1, ArrivalKeeps
<1>2. CASE UpdateUser(v)
  <2>1. PICK pin, cards, assigned, granted : Update(v, pin, cards, assigned, granted)
    BY <1>2 DEF UpdateUser
  <2> DEFINE new == [users[v] EXCEPT !.revision = @ + 1, !.pin = pin, !.cards = cards,
                                    !.assigned = assigned, !.granted = granted]
             withdrawn == Retirements(v, Secrets(users[v]) \ Secrets(new), Targets(v))
  <2>2. /\ users[v].status = "live" /\ users' = [users EXCEPT ![v] = new]
        /\ retired' = {r \in retired \cup withdrawn :
                         ~(r.user = v /\ r.secret \in Secrets(new))}
        /\ tombstones' = tombstones
    BY <2>1 DEF Update
  <2>3. new.status = "live"
    BY <1>0, <2>2 DEF UserRecord
  <2> HIDE DEF new
  <2>4. users'[v] = new /\ \A w \in User \ {v} : users'[w] = users[w]
    BY <2>2 DEF RepositoryTypeOK
  <2>5. \A r \in retired \cup Retirements(v, Secrets(users[v]) \ Secrets(users'[v]), Targets(v)) :
           r \in retired' \/ (r.user = v /\ r.secret \in Secrets(users'[v]))
    BY <2>2, <2>4
  <2> QED
    BY <2>2, <2>3, <2>4, <2>5, EditKeeps
<1>3. CASE EditUserProfile(v)
  <2>1. /\ users[v].status = "live" /\ UNCHANGED <<tombstones, retired>>
        /\ users' = [users EXCEPT ![v].revision = @ + 1]
    BY <1>3 DEF EditUserProfile, EditProfile
  <2>2. /\ users'[v].status = "live"
        /\ users'[v].pin = users[v].pin /\ users'[v].cards = users[v].cards
        /\ \A w \in User \ {v} : users'[w] = users[w]
    BY <1>0, <2>1 DEF RepositoryTypeOK, UserRecord
  <2> QED
    BY <2>1, <2>2, RevisionKeeps
<1>4. CASE DeleteUser(v)
  <2> DEFINE withdrawn == UNION {r.targets : r \in {q \in retired : q.user = v}}
             targets == Targets(v) \cup withdrawn
  <2>1. /\ users[v].status = "live" /\ retired' = retired
        /\ \A w \in User \ {v} :
             users'[w] = users[w] /\ tombstones'[w] = tombstones[w]
    BY <1>4 DEF DeleteUser, Delete, RepositoryTypeOK
  <2>2. CASE u # v
    <3>1. users'[u] = users[u] /\ tombstones'[u] = tombstones[u]
      BY <2>1, <2>2
    <3> QED
      BY <2>1, <3>1 DEF Accounted
  <2>3. CASE u = v
    <3>1. s \in targets
      BY <2>3 DEF Targets
    <3>2. /\ users' = [users EXCEPT ![v].status = "tombstone"]
          /\ tombstones' = [tombstones EXCEPT ![v] =
               [targets |-> targets, confirmed |-> {}]]
      BY <1>4, <3>1 DEF DeleteUser, Delete
    <3>3. /\ users'[v].status = "tombstone"
          /\ users'[v].pin = users[v].pin /\ users'[v].cards = users[v].cards
      BY <1>0, <3>2 DEF RepositoryTypeOK, UserRecord
    <3>4. s \in Unconfirmed(tombstones'[v])
      BY <3>1, <3>2 DEF RepositoryTypeOK, Unconfirmed
    <3>5. Secrets(users'[v]) = Secrets(users[v])
      BY <3>3 DEF Secrets
    <3> QED
      BY <2>1, <2>3, <3>3, <3>4, <3>5 DEF Accounted
  <2> QED
    BY <2>2, <2>3
<1> QED
  BY <1>1, <1>2, <1>3, <1>4 DEF Administrator

LEMMA AdoptKeeps ==
  ASSUME RepositoryTypeOK, NEW t \in Station, NEW v \in User, Adopt(t, v),
         NEW s \in Station, NEW u \in User, NEW x,
         bindings[s][u] # None, Accounted(s, u, x)
  PROVE  Accounted(s, u, x)'
<1>0. users[v] \in UserRecord
  BY DEF RepositoryTypeOK
<1>1. ASSUME NEW status, AdoptNew(t, v, device[t][v], status)
      PROVE  Accounted(s, u, x)'
  <2>1. /\ users[v].status = "unborn" /\ retired' = retired
        /\ \A w \in User \ {v} :
             users'[w] = users[w] /\ tombstones'[w] = tombstones[w]
    BY <1>1 DEF AdoptNew, RepositoryTypeOK
  <2> QED
    BY <2>1, ArrivalKeeps
<1>2. ASSUME NEW granted, AdoptExisting(t, v, device[t][v], granted)
      PROVE  Accounted(s, u, x)'
  <2>1. /\ users[v].status = "live" /\ UNCHANGED <<tombstones, retired>>
        /\ users' = [users EXCEPT ![v] = [users[v] EXCEPT !.revision = @ + 1,
                        !.assigned = @ \cup {t}, !.granted = granted]]
    BY <1>2 DEF AdoptExisting, RepositoryTypeOK
  <2>2. /\ users'[v].status = "live"
        /\ users'[v].pin = users[v].pin /\ users'[v].cards = users[v].cards
        /\ \A w \in User \ {v} : users'[w] = users[w]
    BY <1>0, <2>1 DEF RepositoryTypeOK, UserRecord
  <2> QED
    BY <2>1, <2>2, RevisionKeeps
<1> QED
  BY <1>1, <1>2 DEF Adopt

LEMMA ResolveKeeps ==
  ASSUME RepositoryTypeOK, NEW t \in Station, NEW v \in User, Resolve(t, v),
         NEW s \in Station, NEW u \in User, NEW x,
         bindings[s][u] # None, Accounted(s, u, x)
  PROVE  Accounted(s, u, x)'
<1>0. users[v] \in UserRecord
  BY DEF RepositoryTypeOK
<1>1. CASE ResolveCentral(t, v, device[t][v])
  <2>1. /\ users[v].status = "live" /\ UNCHANGED <<tombstones, retired>>
        /\ users' = [users EXCEPT ![v].revision = @ + 1]
    BY <1>1 DEF ResolveCentral
  <2>2. /\ users'[v].status = "live"
        /\ users'[v].pin = users[v].pin /\ users'[v].cards = users[v].cards
        /\ \A w \in User \ {v} : users'[w] = users[w]
    BY <1>0, <2>1 DEF RepositoryTypeOK, UserRecord
  <2> QED
    BY <2>1, <2>2, RevisionKeeps
<1>2. CASE ResolveDevice(t, v, device[t][v])
  <2> DEFINE content == device[t][v]
             new == [users[v] EXCEPT !.revision = @ + 1, !.pin = content.pin,
                                     !.cards = content.cards]
             withdrawn == Retirements(v, Secrets(users[v]) \ Secrets(new), Targets(v))
  <2>1. /\ users[v].status = "live" /\ tombstones' = tombstones
        /\ users' = [users EXCEPT ![v] = new]
        /\ retired' = {r \in retired \cup withdrawn :
                         ~(r.user = v /\ r.secret = content.pin)}
    BY <1>2 DEF ResolveDevice
  <2>2. new.status = "live" /\ new.pin = content.pin
    BY <1>0, <2>1 DEF UserRecord
  <2> HIDE DEF new
  <2>3. users'[v] = new /\ \A w \in User \ {v} : users'[w] = users[w]
    BY <2>1 DEF RepositoryTypeOK
  <2>4. \A r \in retired \cup withdrawn : r.secret # NoPin
    <3>1. NoPin \notin Secrets(users[v])
      BY <1>0, CredentialAssumption DEF Secrets, UserRecord
    <3>2. \A r \in withdrawn : r.secret \in Secrets(users[v])
      BY DEF Retirements
    <3>3. \A r \in retired : r.secret \in Card \cup Pin
      BY DEF RepositoryTypeOK, Retirement
    <3> QED
      BY <3>1, <3>2, <3>3, CredentialAssumption
  <2>5. content.pin # NoPin => content.pin \in Secrets(new)
    BY <2>2 DEF Secrets
  <2>6. \A r \in retired \cup Retirements(v, Secrets(users[v]) \ Secrets(users'[v]), Targets(v)) :
           r \in retired' \/ (r.user = v /\ r.secret \in Secrets(users'[v]))
    BY <2>1, <2>3, <2>4, <2>5
  <2> QED
    BY <2>1, <2>2, <2>3, <2>6, EditKeeps
<1>3. CASE ResolveDeletion(t, v, device[t][v])
  <2>1. users'[u] = users[u] /\ tombstones'[u] = tombstones[u] /\ retired' = retired
    BY <1>3 DEF ResolveDeletion
  <2> QED
    BY <2>1 DEF Accounted
<1> QED
  BY <1>1, <1>2, <1>3 DEF Resolve

LEMMA ProperSecrets ==
  ASSUME NEW content \in Content, Proper(content), ~content.here
  PROVE  Secrets(content) = {}
BY DEF Proper, Absent, Secrets

(* Nobody stops answering for a credential that is on the device, or about  *)
(* to be: the station confirms only what it no longer holds.                *)
LEMMA EngineKeeps ==
  ASSUME TypeInv, Tracking, Grounds, external = 0,
         NEW t \in Station, Engine(t) \/ Failure(t),
         NEW s \in Station, NEW u \in User, NEW x,
         bindings[s][u] # None, Accounted(s, u, x),
         \/ x \in Secrets(device[s][u])
         \/ pc[s] \in {"write", "readback"} /\ job[s].user = u
  PROVE  Accounted(s, u, x)'
<1> DEFINE v == job[t].user
           current == job[t].current
<1>0. RepositoryTypeOK
  BY DEF TypeInv, TypeOK
<1>1. ASSUME UNCHANGED <<users, tombstones, retired>> PROVE Accounted(s, u, x)'
  <2>1. users'[u] = users[u] /\ tombstones'[u] = tombstones[u] /\ retired' = retired
    BY <1>1
  <2> QED
    BY <2>1 DEF Accounted
<1>2. ASSUME NEW revision, v \in User, ConfirmAbsent(t, v, revision)
      PROVE  Accounted(s, u, x)'
  <2>1. CASE t = s /\ v = u
    <3>1. bindings'[s][u] = None
      BY <1>2, <2>1 DEF ConfirmAbsent, TypeInv, TypeOK, RepositoryTypeOK
    <3>2. ~device[s][u].here
      BY <2>1, <3>1, EngineKeepsBinding
    <3>3. Secrets(device[s][u]) = {}
      BY <3>2, ProperSecrets DEF Grounds, ProperContents, TypeInv, TypeOK, SyncTypeOK
    <3>4. pc[s] \in {"write", "readback"}
      BY <3>3
    <3>5. Write(t) \/ Readback(t) \/ WriteIgnored(t) \/ ConnectionFailed(t)
            \/ Refused(t) \/ Cancelled(t)
      BY <2>1, <3>4 DEF Engine, Failure, Reconcile, Start, Inspect, BlockedElsewhere,
           Journal, Removed, Finish, ConfirmCards, ConfirmPins, StationFailed
    <3>6. UNCHANGED <<users, tombstones, retired>>
      BY <3>5 DEF Write, Readback, WriteIgnored, ConnectionFailed, Refused, Cancelled,
           Fail, RecordObservation, repository
    <3> QED
      BY <1>1, <3>6
  <2>2. CASE ~(t = s /\ v = u)
    BY <1>0, <1>2, <2>2, ConfirmAbsentKeeps
  <2> QED
    BY <2>1, <2>2
<1>3. ASSUME NEW kind, NEW present, v \in User, ConfirmRemovals(t, v, kind, present),
             t = s /\ v = u => x \notin kind \ present
      PROVE  Accounted(s, u, x)'
  BY <1>0, <1>3, ConfirmRemovalsKeeps
<1>4. CASE \/ Reconcile(t) \/ (\E w \in User : Start(t, w)) \/ BlockedElsewhere(t)
           \/ Journal(t) \/ Write(t) \/ Readback(t) \/ Finish(t) \/ Failure(t)
  BY <1>1, <1>4 DEF Reconcile, Start, BlockedElsewhere, Journal, Write, Readback, Finish,
       RecordObservation, WriteIntent, Fail, Failure, WriteIgnored, ConnectionFailed,
       Refused, Cancelled, StationFailed, repository
<1>5. CASE Inspect(t)
  <2>1. v \in User
    BY <1>5, JobType DEF Inspect
  <2> QED
    BY <1>1, <1>2, <1>5, <2>1 DEF Inspect, Fail, RecordObservation, repository
<1>6. CASE Removed(t)
  <2>1. v \in User
    BY <1>6, JobType DEF Removed
  <2> QED
    BY <1>2, <1>6, <2>1 DEF Removed
<1>7. CASE ConfirmCards(t) \/ ConfirmPins(t)
  <2>1. v \in User /\ pc[t] \in {"cards", "pins"}
    BY <1>7, JobType DEF ConfirmCards, ConfirmPins
  <2>2. device[t][v] = current
    BY <2>1 DEF Grounds, LastRead
  <2>3. current.cards \subseteq Card /\ current.pin \in Pin \cup {NoPin}
    BY <2>1, CurrentType DEF Content
  <2>4. t = s /\ v = u => x \in current.cards \/ (x = current.pin /\ x # NoPin)
    BY <2>1, <2>2 DEF Secrets
  <2>5. CASE ConfirmRemovals(t, v, Card, current.cards)
    <3>1. t = s /\ v = u => x \notin Card \ current.cards
      BY <2>3, <2>4, CredentialAssumption
    <3> QED
      BY <1>3, <2>1, <2>5, <3>1
  <2>6. CASE ConfirmRemovals(t, v, Pin, {current.pin})
    <3>1. t = s /\ v = u => x \notin Pin \ {current.pin}
      BY <2>3, <2>4, CredentialAssumption
    <3> QED
      BY <1>3, <2>1, <2>6, <3>1
  <2> QED
    BY <1>7, <2>5, <2>6 DEF ConfirmCards, ConfirmPins
<1> QED
  BY <1>4, <1>5, <1>6, <1>7 DEF Engine

LEMMA AccountedKept ==
  ASSUME TypeInv, Tracking, Grounds, external = 0, [Next]_vars,
         NEW s \in Station, NEW u \in User, NEW x,
         bindings[s][u] # None, Accounted(s, u, x),
         \/ x \in Secrets(device[s][u])
         \/ pc[s] \in {"write", "readback"} /\ job[s].user = u
  PROVE  Accounted(s, u, x)'
<1>0. RepositoryTypeOK
  BY DEF TypeInv, TypeOK
<1>1. ASSUME UNCHANGED <<users, tombstones, retired>> PROVE Accounted(s, u, x)'
  <2>1. users'[u] = users[u] /\ tombstones'[u] = tombstones[u] /\ retired' = retired
    BY <1>1
  <2> QED
    BY <2>1 DEF Accounted
<1>2. CASE \E t \in Station, v \in User : External(t, v)
  BY <1>1, <1>2 DEF External, repository
<1>3. CASE Restart \/ UNCHANGED vars
  BY <1>1, <1>3 DEF Restart, Reload, vars, repository
<1>4. CASE \E v \in User : Administrator(v)
  BY <1>0, <1>4, AdministratorKeeps
<1>5. CASE \E t \in Station, v \in User : Adopt(t, v) \/ Resolve(t, v)
  BY <1>0, <1>5, AdoptKeeps, ResolveKeeps
<1>6. CASE \E t \in Station : Engine(t) \/ Failure(t)
  BY <1>6, EngineKeeps
<1> QED
  BY <1>2, <1>3, <1>4, <1>5, <1>6 DEF Next
-----------------------------------------------------------------------------
(* A credential is reserved for one person at most. *)
Collisions == CollisionFree(users, retired)

LEMMA FewerReserved ==
  ASSUME Collisions,
         \A u \in User : Reserved(users', retired', u) \subseteq Reserved(users, retired, u)
  PROVE  Collisions'
BY DEF Collisions, CollisionFree

(* A confirmation adds no entry for another person or credential. *)
LEMMA ConfirmedAtFewer ==
  ASSUME RepositoryTypeOK, NEW t, NEW v, NEW kind, NEW present,
         NEW r \in ConfirmedAt(t, v, kind, present)
  PROVE  \E q \in retired : q.user = r.user /\ q.secret = r.secret
<1> DEFINE hit == {q \in retired : /\ q.user = v
                                   /\ t \in q.targets
                                   /\ q.secret \in kind \ present}
           acknowledged == {[q EXCEPT !.confirmed = @ \cup {t}] : q \in hit}
<1>1. CASE r \in retired
  BY <1>1
<1>2. CASE r \in acknowledged
  <2>1. PICK q \in hit : r = [q EXCEPT !.confirmed = @ \cup {t}]
    BY <1>2
  <2>2. q \in Retirement
    BY DEF RepositoryTypeOK
  <2> QED
    BY <2>1, <2>2 DEF Retirement
<1> QED
  BY <1>1, <1>2 DEF ConfirmedAt

LEMMA CollisionsKept ==
  ASSUME RepositoryTypeOK, Collisions,
         \A u \in User : /\ users'[u].pin = users[u].pin
                         /\ users'[u].cards = users[u].cards
                         /\ Known(users'[u]) => Known(users[u]),
         \A r \in retired' : \E q \in retired : q.user = r.user /\ q.secret = r.secret
  PROVE  Collisions'
<1> SUFFICES ASSUME NEW u \in User
             PROVE  Reserved(users', retired', u) \subseteq Reserved(users, retired, u)
  BY FewerReserved
<1>1. Secrets(users'[u]) = Secrets(users[u])
  <2>1. users'[u].pin = users[u].pin /\ users'[u].cards = users[u].cards
    OBVIOUS
  <2> QED
    BY <2>1 DEF Secrets
<1>2. Known(users'[u]) => Known(users[u])
  OBVIOUS
<1>3. {r.secret : r \in {q \in retired' : q.user = u}}
        \subseteq {r.secret : r \in {q \in retired : q.user = u}}
  OBVIOUS
<1> QED
  BY <1>1, <1>2, <1>3 DEF Reserved

LEMMA CollisionsStep ==
  ASSUME TypeInv, Collisions, [Next]_vars
  PROVE  Collisions'
<1>0. RepositoryTypeOK /\ \A u \in User : users[u] \in UserRecord
  BY DEF TypeInv, TypeOK, RepositoryTypeOK
<1>1. ASSUME UNCHANGED <<users, retired>> PROVE Collisions'
  <2>1. users' = users /\ retired' = retired
    BY <1>1
  <2>2. \A u \in User :
          Reserved(users', retired', u) \subseteq Reserved(users, retired, u)
    BY <2>1 DEF Reserved
  <2> QED
    BY <2>2, FewerReserved
<1>2. ASSUME NEW v \in User, NEW new,
             users' = [users EXCEPT ![v] = new], retired' = retired,
             new.pin = users[v].pin, new.cards = users[v].cards,
             Known(new) => Known(users[v])
      PROVE  Collisions'
  <2>1. users'[v] = new /\ \A u \in User \ {v} : users'[u] = users[u]
    BY <1>0, <1>2 DEF RepositoryTypeOK
  <2>2. \A u \in User : /\ users'[u].pin = users[u].pin
                        /\ users'[u].cards = users[u].cards
                        /\ Known(users'[u]) => Known(users[u])
    BY <1>2, <2>1
  <2> QED
    BY <1>0, <1>2, <2>2, CollisionsKept
<1>3. ASSUME NEW v \in User, Administrator(v) PROVE Collisions'
  <2>1. CASE CreateUser(v) \/ UpdateUser(v)
    BY <2>1 DEF CreateUser, UpdateUser, Create, Update, Collisions
  <2>2. CASE EditUserProfile(v)
    <3> DEFINE new == [users[v] EXCEPT !.revision = @ + 1]
    <3>1. users' = [users EXCEPT ![v] = new] /\ retired' = retired
      BY <2>2, <1>0 DEF EditUserProfile, EditProfile, RepositoryTypeOK
    <3>2. /\ new.pin = users[v].pin /\ new.cards = users[v].cards
          /\ new.status = users[v].status
      BY <1>0 DEF UserRecord
    <3> QED
      BY <1>2, <3>1, <3>2 DEF Known
  <2>3. CASE DeleteUser(v)
    <3>1. PICK x : users' = [users EXCEPT ![v] = [users[v] EXCEPT !.status = x]]
      BY <2>3, <1>0 DEF DeleteUser, Delete, RepositoryTypeOK
    <3> DEFINE new == [users[v] EXCEPT !.status = x]
    <3>2. new.pin = users[v].pin /\ new.cards = users[v].cards
      BY <1>0 DEF UserRecord
    <3>3. Known(users[v]) /\ retired' = retired
      BY <2>3 DEF DeleteUser, Delete, Known
    <3> QED
      BY <1>2, <3>1, <3>2, <3>3
  <2> QED
    BY <1>3, <2>1, <2>2, <2>3 DEF Administrator
<1>4. ASSUME NEW t \in Station, NEW v \in User, Adopt(t, v) PROVE Collisions'
  <2>1. CASE \E status : AdoptNew(t, v, device[t][v], status)
    BY <2>1 DEF AdoptNew, Collisions
  <2>2. ASSUME NEW granted, AdoptExisting(t, v, device[t][v], granted)
        PROVE  Collisions'
    <3> DEFINE new == [users[v] EXCEPT !.revision = @ + 1, !.assigned = @ \cup {t},
                                      !.granted = granted]
    <3>1. users' = [users EXCEPT ![v] = new] /\ retired' = retired
      BY <2>2, <1>0 DEF AdoptExisting, RepositoryTypeOK
    <3>2. /\ new.pin = users[v].pin /\ new.cards = users[v].cards
          /\ new.status = users[v].status
      BY <1>0 DEF UserRecord
    <3> QED
      BY <1>2, <3>1, <3>2 DEF Known
  <2> QED
    BY <1>4, <2>1, <2>2 DEF Adopt
<1>5. ASSUME NEW t \in Station, NEW v \in User, Resolve(t, v) PROVE Collisions'
  <2>1. CASE ResolveDevice(t, v, device[t][v])
    BY <2>1 DEF ResolveDevice, Collisions
  <2>2. CASE ResolveCentral(t, v, device[t][v])
    <3> DEFINE new == [users[v] EXCEPT !.revision = @ + 1]
    <3>1. users' = [users EXCEPT ![v] = new] /\ retired' = retired
      BY <2>2, <1>0 DEF ResolveCentral, RepositoryTypeOK
    <3>2. /\ new.pin = users[v].pin /\ new.cards = users[v].cards
          /\ new.status = users[v].status
      BY <1>0 DEF UserRecord
    <3> QED
      BY <1>2, <3>1, <3>2 DEF Known
  <2>3. CASE ResolveDeletion(t, v, device[t][v])
    BY <1>1, <2>3 DEF ResolveDeletion
  <2> QED
    BY <1>5, <2>1, <2>2, <2>3 DEF Resolve
<1>6. ASSUME NEW t \in Station, Engine(t) \/ Failure(t) PROVE Collisions'
  <2> DEFINE v == job[t].user
  <2>1. ASSUME NEW revision, v \in User, ConfirmAbsent(t, v, revision)
        PROVE  Collisions'
    <3>1. \A u \in User : /\ users'[u].pin = users[u].pin
                          /\ users'[u].cards = users[u].cards
                          /\ Known(users'[u]) => Known(users[u])
      <4>1. CASE users' = users
        BY <4>1
      <4>2. CASE users' = [users EXCEPT ![v].status = "gone"]
        BY <1>0, <2>1, <4>2 DEF Known, RepositoryTypeOK, UserRecord
      <4> QED
        BY <2>1, <4>1, <4>2 DEF ConfirmAbsent
    <3>2. \A r \in retired' : \E q \in retired : q.user = r.user /\ q.secret = r.secret
      BY <1>0, <2>1, ConfirmedAtFewer DEF ConfirmAbsent
    <3> QED
      BY <1>0, <3>1, <3>2, CollisionsKept
  <2>2. ASSUME NEW kind, NEW present, ConfirmRemovals(t, v, kind, present)
        PROVE  Collisions'
    BY <1>0, <2>2, ConfirmedAtFewer, CollisionsKept DEF ConfirmRemovals
  <2>3. CASE \/ Reconcile(t) \/ (\E w \in User : Start(t, w)) \/ BlockedElsewhere(t)
             \/ Journal(t) \/ Write(t) \/ Readback(t) \/ Finish(t) \/ Failure(t)
    BY <1>1, <2>3 DEF Reconcile, Start, BlockedElsewhere, Journal, Write, Readback,
         Finish, RecordObservation, WriteIntent, Fail, Failure, WriteIgnored,
         ConnectionFailed, Refused, Cancelled, StationFailed, repository
  <2>4. CASE Inspect(t)
    <3>1. v \in User
      BY <2>4, JobType DEF Inspect
    <3> QED
      BY <1>1, <2>1, <2>4, <3>1 DEF Inspect, Fail, RecordObservation, repository
  <2>5. CASE Removed(t)
    <3>1. v \in User
      BY <2>5, JobType DEF Removed
    <3> QED
      BY <2>1, <2>5, <3>1 DEF Removed
  <2>6. CASE ConfirmCards(t) \/ ConfirmPins(t)
    BY <2>2, <2>6 DEF ConfirmCards, ConfirmPins
  <2> QED
    BY <1>6, <2>3, <2>4, <2>5, <2>6 DEF Engine
<1>7. CASE \E t \in Station, v \in User : External(t, v)
  BY <1>1, <1>7 DEF External, repository
<1>8. CASE Restart \/ UNCHANGED vars
  BY <1>1, <1>8 DEF Restart, Reload, vars, repository
<1> QED
  BY <1>3, <1>4, <1>5, <1>6, <1>7, <1>8 DEF Next
-----------------------------------------------------------------------------
(* What one step may make of what a reconciliation knows of the device: it   *)
(* is read anew, or what was seen of the person in the transaction replaces *)
(* what was listed.                                                         *)
Working(s) == pc[s] # "idle" \/ todo[s] # NoWork

Refreshed(s) == inventory'[s] = device[s] /\ device' = device

Relisted(s) ==
  /\ pc[s] # "idle" /\ device' = device
  /\ \E seen \in {device[s][job[s].user], job[s].current} :
       /\ inventory'[s] = [inventory[s] EXCEPT ![job[s].user] = seen]
       /\ \/ seen = device[s][job[s].user]
          \/ pc[s] \in {"ready", "write", "readback", "pins"}

Inventoried(s) ==
  \/ pc'[s] = "idle" /\ todo'[s] = NoWork
  \/ Working(s) /\ inventory'[s] = inventory[s]
  \/ Refreshed(s)
  \/ Relisted(s)

LEMMA ReleaseInventories ==
  ASSUME TypeInv, NEW s \in Station, pc[s] # "idle", device' = device,
         NEW seen, Release(s, seen),
         \/ seen = None \/ seen = device[s][job[s].user]
         \/ seen = job[s].current /\ pc[s] \in {"ready", "write", "readback", "pins"}
  PROVE  Inventoried(s)
<1>1. CASE todo[s] = NoWork
  BY <1>1 DEF Release, Inventoried, TypeInv, TypeOK, SyncTypeOK
<1>2. CASE todo[s] # NoWork /\ seen = None
  BY <1>2 DEF Release, Inventoried, Working, TypeInv, TypeOK, SyncTypeOK
<1>3. CASE todo[s] # NoWork /\ seen # None
  <2>1. inventory'[s] = [inventory[s] EXCEPT ![job[s].user] = seen]
    BY <1>3 DEF Release, TypeInv, TypeOK, SyncTypeOK
  <2>2. Relisted(s)
    BY <1>3, <2>1 DEF Relisted
  <2> QED
    BY <2>2 DEF Inventoried
<1> QED
  BY <1>1, <1>2, <1>3

LEMMA EngineInventories ==
  ASSUME TypeInv, Grounds, external = 0,
         NEW s \in Station, Engine(s) \/ Failure(s)
  PROVE  Inventoried(s)
<1> DEFINE u == job[s].user
           current == job[s].current
<1>1. CASE Reconcile(s)
  BY <1>1 DEF Reconcile, Inventoried, Refreshed, TypeInv, TypeOK, SyncTypeOK
<1>2. ASSUME NEW v \in User, Start(s, v) PROVE Inventoried(s)
  <2>1. Working(s)
    BY <1>2 DEF Start, Working, NoWork
  <2>2. CASE inventory' = inventory
    BY <2>1, <2>2 DEF Inventoried
  <2>3. CASE inventory' # inventory
    BY <1>2, <2>3 DEF Start, Inventoried
  <2> QED
    BY <2>2, <2>3
<1>3. CASE Inspect(s)
  <2>1. pc[s] = "read" /\ device' = device
    BY <1>3 DEF Inspect
  <2>2. CASE inventory' = inventory
    BY <2>1, <2>2 DEF Inventoried, Working
  <2>3. CASE Release(s, device[s][u])
    BY <2>1, <2>3, ReleaseInventories
  <2> QED
    BY <1>3, <2>2, <2>3 DEF Inspect, Fail
<1>4. CASE BlockedElsewhere(s) \/ Journal(s) \/ Removed(s) \/ Readback(s)
  <2>1. pc[s] \in {"ready", "readback"} /\ device' = device
    BY <1>4 DEF BlockedElsewhere, Journal, Removed, Readback
  <2>2. CASE inventory' = inventory
    BY <2>1, <2>2 DEF Inventoried, Working
  <2>3. CASE Release(s, current)
    BY <2>1, <2>3, ReleaseInventories
  <2> QED
    BY <1>4, <2>2, <2>3 DEF BlockedElsewhere, Journal, Removed, Readback, Fail
<1>5. CASE ConfirmPins(s)
  BY <1>5, ReleaseInventories DEF ConfirmPins
<1>6. CASE Refused(s)
  <2>1. pc[s] \in {"read", "write", "readback"} /\ device' = device
        /\ Release(s, current)
    BY <1>6 DEF Refused, Fail
  <2>2. pc[s] = "read" => current = None
    BY DEF Grounds, LastRead
  <2> QED
    BY <2>1, <2>2, ReleaseInventories
<1>7. CASE Write(s) \/ WriteIgnored(s) \/ Finish(s) \/ ConfirmCards(s)
  BY <1>7 DEF Write, WriteIgnored, Finish, ConfirmCards, Inventoried, Working
<1>8. CASE ConnectionFailed(s)
  BY <1>8 DEF ConnectionFailed, Inventoried, Refreshed, TypeInv, TypeOK, SyncTypeOK
<1>9. CASE Cancelled(s) \/ StationFailed(s)
  BY <1>9 DEF Cancelled, StationFailed, Stopped, Inventoried
<1> QED
  BY <1>1, <1>2, <1>3, <1>4, <1>5, <1>6, <1>7, <1>8, <1>9 DEF Engine, Failure

(* The engine of one station leaves the work of the others alone. *)
LEMMA WorkLocal ==
  ASSUME TypeInv, NEW t \in Station, Engine(t) \/ Failure(t),
         NEW s \in Station \ {t}
  PROVE  /\ pc'[s] = pc[s] /\ todo'[s] = todo[s] /\ inventory'[s] = inventory[s]
<1> USE DEF TypeInv, TypeOK, SyncTypeOK
<1>1. CASE Reconcile(t) \/ (\E v \in User : Start(t, v)) \/ Inspect(t)
  BY <1>1 DEF Reconcile, Start, Inspect, Fail, Release
<1>2. CASE BlockedElsewhere(t) \/ Journal(t) \/ Write(t) \/ Readback(t)
  BY <1>2 DEF BlockedElsewhere, Journal, Write, Readback, Fail, Release
<1>3. CASE Removed(t) \/ Finish(t) \/ ConfirmCards(t) \/ ConfirmPins(t)
  BY <1>3 DEF Removed, Finish, ConfirmCards, ConfirmPins, Release
<1>4. CASE WriteIgnored(t) \/ ConnectionFailed(t) \/ Refused(t)
  BY <1>4 DEF WriteIgnored, ConnectionFailed, Refused, Fail, Release
<1>5. CASE Cancelled(t) \/ StationFailed(t)
  BY <1>5 DEF Cancelled, StationFailed, Stopped
<1> QED
  BY <1>1, <1>2, <1>3, <1>4, <1>5 DEF Engine, Failure

LEMMA Inventories ==
  ASSUME TypeInv, Grounds, external = 0, [Next]_vars, NEW s \in Station
  PROVE  Inventoried(s)
<1>1. ASSUME pc'[s] = pc[s], todo'[s] = todo[s], inventory'[s] = inventory[s]
      PROVE  Inventoried(s)
  BY <1>1 DEF Inventoried, Working
<1>2. ASSUME NEW t \in Station, Engine(t) \/ Failure(t) PROVE Inventoried(s)
  BY <1>1, <1>2, EngineInventories, WorkLocal
<1>3. CASE Restart
  BY <1>3 DEF Restart, Stopped, Inventoried
<1>4. CASE \E v \in User : Administrator(v)
  BY <1>1, <1>4 DEF Administrator, CreateUser, UpdateUser, EditUserProfile, DeleteUser,
                    Outside, engine
<1>5. CASE \E t \in Station, v \in User : Adopt(t, v) \/ Resolve(t, v) \/ External(t, v)
  BY <1>1, <1>5 DEF Adopt, Resolve, External, Outside, engine
<1>6. CASE UNCHANGED vars
  BY <1>1, <1>6 DEF vars, engine
<1> QED
  BY <1>2, <1>3, <1>4, <1>5, <1>6 DEF Next
-----------------------------------------------------------------------------
(* The custody of credentials: what the devices hold, what the engines are  *)
(* about to write and what they have seen, as long as nobody edits records  *)
(* at the stations.                                                         *)
Held ==
  \A s \in Station, u \in User : Managed(s, u) =>
    \A x \in Secrets(device[s][u]) : Accounted(s, u, x)

(* A write adds only what the person should have. *)
WritesAccounted ==
  \A s \in Station : pc[s] \in {"write", "readback"} =>
    \A x \in Secrets(bindings[s][job[s].user].intent.desired) :
      x \in Secrets(job[s].current) \/ Accounted(s, job[s].user, x)

(* What a reconciliation has not seen on the device was written since, for  *)
(* somebody who answers for it.                                             *)
Listed ==
  \A s \in Station : Working(s) =>
    \A v \in User : \A x \in Secrets(device[s][v]) :
      \/ x \in Secrets(inventory[s][v])
      \/ bindings[s][v] # None /\ Accounted(s, v, x)

WritesUnique ==
  \A s \in Station : pc[s] = "write" =>
    \A v \in User \ {job[s].user} :
      Secrets(bindings[s][job[s].user].intent.desired) \cap Secrets(device[s][v]) = {}

Distinct ==
  \A s \in Station : \A u, v \in User : u # v =>
    Secrets(device[s][u]) \cap Secrets(device[s][v]) = {}

Custody ==
  external = 0 => Held /\ WritesAccounted /\ Listed /\ WritesUnique /\ Distinct

LEMMA HolderIsHere ==
  ASSUME TypeInv, Grounds, NEW s \in Station, NEW u \in User,
         NEW x \in Secrets(device[s][u])
  PROVE  device[s][u].here
BY ProperSecrets DEF Grounds, ProperContents, TypeInv, TypeOK, SyncTypeOK

LEMMA BoundKept ==
  ASSUME TypeInv, Tracking, external = 0, [Next]_vars,
         NEW s \in Station, NEW u \in User,
         bindings[s][u] # None, device[s][u].here
  PROVE  bindings'[s][u] # None
<1>1. ASSUME NEW t \in Station, Engine(t) \/ Failure(t)
      PROVE  bindings'[s][u] # None
  <2>1. CASE t = s
    BY <1>1, <2>1, EngineKeepsBinding
  <2>2. CASE t # s
    BY <1>1, <2>2, StationLocal DEF StationOnly
  <2> QED
    BY <2>1, <2>2
<1>2. CASE UNCHANGED vars
  BY <1>2 DEF vars, repository
<1> QED
  BY <1>1, <1>2, OthersKeepBinding DEF Next

(* While nobody edits records at a station, its device changes by the write *)
(* of its own engine, and for the person in the transaction.                *)
LEMMA DeviceMoves ==
  ASSUME TypeInv, [Next]_vars, external' = 0, NEW s \in Station, NEW u \in User
  PROVE  \/ device'[s][u] = device[s][u]
         \/ /\ pc[s] = "write" /\ pc'[s] = "readback" /\ u = job[s].user
            /\ UNCHANGED <<repository, job, todo, inventory>>
            /\ device'[s][u] = bindings[s][u].intent.desired
            /\ \A v \in User \ {u} : device'[s][v] = device[s][v]
<1>1. external = 0
  BY StillUntouched
<1>2. CASE device' = device
  BY <1>2
<1>3. ASSUME NEW t \in Station, Write(t)
      PROVE  \/ device'[s][u] = device[s][u]
             \/ /\ pc[s] = "write" /\ pc'[s] = "readback" /\ u = job[s].user
                /\ UNCHANGED <<repository, job, todo, inventory>>
                /\ device'[s][u] = bindings[s][u].intent.desired
                /\ \A v \in User \ {u} : device'[s][v] = device[s][v]
  BY <1>3, JobType DEF Write, TypeInv, TypeOK, SyncTypeOK
<1> QED
  BY <1>1, <1>2, <1>3, DeviceChanges

LEMMA NextSecrets ==
  ASSUME NEW want \in Content, NEW current \in Content,
         NEW next \in NextContents(want, current), NEW x \in Secrets(next)
  PROVE  x \in Secrets(current) \/ (want.here /\ x \in Secrets(want))
<1>1. \A c : LET less == [current EXCEPT !.cards = @ \ {c}]
             IN  less.pin = current.pin /\ less.cards = current.cards \ {c}
  BY DEF Content
<1>2. \A c : LET more == [current EXCEPT !.cards = @ \cup {c}]
             IN  more.pin = current.pin /\ more.cards = current.cards \cup {c}
  BY DEF Content
<1>3. LET person == [current EXCEPT !.here = TRUE, !.pin = want.pin]
      IN  person.pin = want.pin /\ person.cards = current.cards
  BY DEF Content
<1>4. CASE next = Absent
  BY <1>4 DEF Absent, Secrets
<1>5. CASE \E c : next = [current EXCEPT !.cards = @ \ {c}]
  BY <1>1, <1>5 DEF Secrets
<1>6. CASE want.here /\ \E c \in want.cards : next = [current EXCEPT !.cards = @ \cup {c}]
  BY <1>2, <1>6 DEF Secrets
<1>7. CASE want.here /\ next = [current EXCEPT !.here = TRUE, !.pin = want.pin]
  BY <1>3, <1>7 DEF Secrets
<1> QED
  BY <1>4, <1>5, <1>6, <1>7 DEF NextContents

(* When an intent is accepted, the person still is what the engine took     *)
(* the wanted content from.                                                 *)
LEMMA WantedAccounted ==
  ASSUME TypeInv, Grounds, NEW s \in Station, Journals(s),
         NEW x \in Secrets(Desired(job[s].snapshot, s))
  PROVE  Accounted(s, job[s].user, x)
<1> DEFINE u == job[s].user
           snapshot == job[s].snapshot
           want == Desired(snapshot, s)
<1>1. want.here /\ want.pin = snapshot.pin /\ want.cards = snapshot.cards
  BY DEF Desired, Absent, Secrets
<1>2. IntentAllowed(s, u, snapshot.revision, Operation(want, job[s].current))
  BY DEF Journals
<1>3. users[u].status = "live" /\ users[u].revision = snapshot.revision
  BY <1>1, <1>2 DEF IntentAllowed, Operation, Known
<1>4. snapshot.pin = users[u].pin /\ snapshot.cards = users[u].cards
  BY <1>3 DEF Grounds, Snapshots, Journals
<1> QED
  BY <1>1, <1>3, <1>4 DEF Accounted, Secrets

LEMMA AccountedReserved ==
  ASSUME NEW s \in Station, NEW u \in User, NEW x, Accounted(s, u, x)
  PROVE  x \in Reserved(users, retired, u)
BY DEF Accounted, Reserved, Known

LEMMA HeldStep ==
  ASSUME TypeInv, Tracking, Grounds, OwnedOnDevice, Custody, [Next]_vars, external' = 0
  PROVE  Held'
<1>1. external = 0 /\ Held /\ WritesAccounted
  BY StillUntouched DEF Custody
<1> SUFFICES ASSUME NEW s \in Station, NEW u \in User, Managed(s, u),
                    NEW x \in Secrets(device'[s][u])
             PROVE  Accounted(s, u, x)'
  BY DEF Held, Managed
<1>2. CASE x \in Secrets(device[s][u])
  <2>1. Accounted(s, u, x)
    BY <1>1, <1>2 DEF Held
  <2>2. bindings[s][u] # None
    BY <1>1, <1>2, HolderIsHere DEF OwnedOnDevice
  <2> QED
    BY <1>1, <1>2, <2>1, <2>2, AccountedKept
<1>3. CASE x \notin Secrets(device[s][u])
  <2>1. /\ pc[s] = "write" /\ u = job[s].user
        /\ device'[s][u] = bindings[s][u].intent.desired
    BY <1>3, DeviceMoves
  <2>2. device[s][u] = job[s].current
    BY <1>1, <2>1 DEF Tracking
  <2>3. Accounted(s, u, x)
    BY <1>1, <1>3, <2>1, <2>2 DEF WritesAccounted
  <2> QED
    BY <1>1, <2>1, <2>3, IntentType, AccountedKept
<1> QED
  BY <1>2, <1>3

LEMMA WritesAccountedStep ==
  ASSUME TypeInv, Tracking, Grounds, Custody, [Next]_vars, external' = 0
  PROVE  WritesAccounted'
<1>1. external = 0 /\ WritesAccounted
  BY StillUntouched DEF Custody
<1>2. \A s \in Station : pc'[s] \in {"write", "readback"} => job'[s].user \in User
  BY NextType DEF TypeInv, Transaction, TypeOK, SyncTypeOK, Job
<1> SUFFICES ASSUME NEW s \in Station, pc'[s] \in {"write", "readback"},
                    NEW x \in Secrets(bindings'[s][job'[s].user].intent.desired)
             PROVE  \/ x \in Secrets(job'[s].current)
                    \/ \A u \in User : u = job'[s].user => Accounted(s, u, x)'
  BY <1>2 DEF WritesAccounted
<1> DEFINE u == job[s].user
<1>3. CASE Undisturbed(s)
  <2>1. /\ pc[s] \in {"write", "readback"} /\ job'[s] = job[s]
        /\ bindings'[s] = bindings[s] /\ u \in User
    BY <1>3, JobType DEF Undisturbed
  <2>2. bindings[s][u] # None
    BY <2>1, IntentType
  <2>3. x \in Secrets(job[s].current) \/ Accounted(s, u, x)
    BY <1>1, <2>1 DEF WritesAccounted
  <2>4. Accounted(s, u, x) => Accounted(s, u, x)'
    BY <1>1, <2>1, <2>2, AccountedKept
  <2> QED
    BY <2>1, <2>3, <2>4
<1>4. CASE Journals(s)
  <2> DEFINE want == Desired(job[s].snapshot, s)
             current == job[s].current
  <2>1. u \in User /\ want \in Content /\ current \in Content
    BY <1>4, JobType, CurrentType DEF Journals
  <2>2. job'[s] = job[s] /\ bindings'[s][u].intent.desired \in NextContents(want, current)
    BY <1>4 DEF Journals
  <2>3. x \in Secrets(current) \/ x \in Secrets(want)
    BY <2>1, <2>2, NextSecrets
  <2>4. /\ users'[u] = users[u] /\ tombstones'[u] = tombstones[u]
        /\ retired' = retired
    BY <1>4 DEF Journals
  <2>5. x \in Secrets(want) => Accounted(s, u, x)
    BY <1>4, WantedAccounted
  <2>6. Accounted(s, u, x) => Accounted(s, u, x)'
    BY <2>2, <2>4 DEF Accounted
  <2> QED
    BY <2>2, <2>3, <2>5, <2>6
<1>5. CASE Writes(s)
  <2>1. /\ pc[s] = "write" /\ job'[s] = job[s] /\ bindings' = bindings
        /\ users' = users /\ tombstones' = tombstones /\ retired' = retired
    BY <1>5 DEF Writes, repository
  <2>2. x \in Secrets(job[s].current) \/ Accounted(s, u, x)
    BY <1>1, <2>1 DEF WritesAccounted
  <2>3. users'[u] = users[u] /\ tombstones'[u] = tombstones[u]
    BY <2>1
  <2>4. Accounted(s, u, x) => Accounted(s, u, x)'
    BY <2>1, <2>3 DEF Accounted
  <2> QED
    BY <2>1, <2>2, <2>4
<1> QED
  BY <1>3, <1>4, <1>5, Moves DEF Move, Entered, Reads, Finishes

LEMMA ListedStep ==
  ASSUME TypeInv, Tracking, Grounds, Custody, [Next]_vars, external' = 0
  PROVE  Listed'
<1>1. external = 0 /\ WritesAccounted /\ Listed
  BY StillUntouched DEF Custody
<1> SUFFICES ASSUME NEW s \in Station, NEW v \in User,
                    pc'[s] # "idle" \/ todo'[s] # NoWork,
                    NEW x \in Secrets(device'[s][v]),
                    x \notin Secrets(inventory'[s][v])
             PROVE  bindings'[s][v] # None /\ Accounted(s, v, x)'
  BY DEF Listed, Working
<1>2. ASSUME x \in Secrets(device[s][v]), bindings[s][v] # None, Accounted(s, v, x)
      PROVE  bindings'[s][v] # None /\ Accounted(s, v, x)'
  BY <1>1, <1>2, HolderIsHere, BoundKept, AccountedKept
<1>3. ASSUME Working(s), x \in Secrets(device[s][v]), x \notin Secrets(inventory[s][v])
      PROVE  bindings'[s][v] # None /\ Accounted(s, v, x)'
  BY <1>1, <1>2, <1>3 DEF Listed
<1>4. CASE device'[s][v] # device[s][v]
  <2>1. /\ pc[s] = "write" /\ v = job[s].user
        /\ bindings' = bindings /\ inventory' = inventory
        /\ device'[s][v] = bindings[s][v].intent.desired
    BY <1>4, DeviceMoves DEF repository
  <2>2. device[s][v] = job[s].current /\ bindings[s][v] # None
    BY <1>1, <2>1, IntentType DEF Tracking
  <2>3. CASE x \in Secrets(device[s][v])
    BY <1>3, <2>1, <2>3 DEF Working
  <2>4. CASE x \notin Secrets(device[s][v])
    <3>1. Accounted(s, v, x)
      BY <1>1, <2>1, <2>2, <2>4 DEF WritesAccounted
    <3> QED
      BY <1>1, <2>1, <2>2, <3>1, AccountedKept
  <2> QED
    BY <2>3, <2>4
<1>5. CASE device'[s][v] = device[s][v]
  <2>1. CASE Working(s) /\ inventory'[s] = inventory[s]
    BY <1>3, <1>5, <2>1
  <2>2. CASE Refreshed(s)
    BY <1>5, <2>2 DEF Refreshed
  <2>3. CASE Relisted(s)
    <3> DEFINE u == job[s].user
               current == job[s].current
    <3>1. pc[s] # "idle" /\ Working(s)
      BY <2>3 DEF Relisted, Working
    <3>2. PICK seen \in {device[s][u], current} :
            /\ inventory'[s] = [inventory[s] EXCEPT ![u] = seen]
            /\ \/ seen = device[s][u]
               \/ pc[s] \in {"ready", "write", "readback", "pins"}
      BY <2>3 DEF Relisted
    <3>3. CASE v # u
      BY <1>3, <1>5, <3>1, <3>2, <3>3 DEF TypeInv, TypeOK, SyncTypeOK
    <3>4. CASE v = u
      <4>1. x \notin Secrets(seen)
        BY <3>2, <3>4 DEF TypeInv, TypeOK, SyncTypeOK
      <4>2. seen # device[s][u]
        BY <1>5, <3>4, <4>1
      <4>3. seen = current /\ pc[s] \in {"ready", "write", "readback", "pins"}
        BY <3>2, <4>2
      <4>4. pc[s] \notin {"ready", "write"}
        BY <1>1, <4>2, <4>3 DEF Tracking
      <4>5. pc[s] = "readback" /\ device[s][u] = bindings[s][u].intent.desired
        BY <1>1, <4>2, <4>3, <4>4 DEF Grounds, LastRead
      <4>6. Accounted(s, u, x)
        BY <1>1, <1>5, <3>4, <4>1, <4>3, <4>5 DEF WritesAccounted
      <4> QED
        BY <1>2, <1>5, <3>4, <4>5, <4>6, IntentType
    <3> QED
      BY <3>3, <3>4
  <2> QED
    BY <1>1, <2>1, <2>2, <2>3, Inventories DEF Inventoried
<1> QED
  BY <1>4, <1>5

LEMMA UniqueStep ==
  ASSUME TypeInv, Tracking, Grounds, Collisions, Custody, [Next]_vars, external' = 0
  PROVE  WritesUnique' /\ Distinct'
<1>1. external = 0 /\ Listed /\ WritesUnique /\ Distinct
  BY StillUntouched DEF Custody
<1>2. ASSUME NEW s \in Station, pc'[s] = "write", NEW v \in User \ {job'[s].user}
      PROVE  Secrets(bindings'[s][job'[s].user].intent.desired)
               \cap Secrets(device'[s][v]) = {}
  <2>1. CASE Undisturbed(s)
    BY <1>1, <1>2, <2>1 DEF Undisturbed, WritesUnique
  <2>2. CASE Journals(s)
    <3> DEFINE u == job[s].user
               want == Desired(job[s].snapshot, s)
               current == job[s].current
    <3>1. /\ pc[s] = "ready" /\ device' = device /\ job'[s] = job[s]
          /\ ~OwnedElsewhere(s)
          /\ bindings'[s][u].intent.desired \in NextContents(want, current)
      BY <2>2 DEF Journals
    <3>2. u \in User /\ want \in Content /\ current \in Content /\ v # u
      BY <1>2, <3>1, JobType, CurrentType
    <3>3. SUFFICES ASSUME NEW x \in Secrets(bindings'[s][u].intent.desired),
                          x \in Secrets(device[s][v])
                   PROVE  FALSE
      BY <3>1
    <3>4. x \notin Secrets(current)
      <4>1. device[s][u] = current
        BY <1>1, <3>1 DEF Tracking
      <4> QED
        BY <1>1, <3>2, <3>3, <4>1 DEF Distinct
    <3>5. x \in Secrets(want)
      BY <3>1, <3>2, <3>4, NextSecrets
    <3>6. x \notin Secrets(inventory[s][v])
      BY <3>1, <3>2, <3>5 DEF OwnedElsewhere
    <3>7. Accounted(s, v, x)
      BY <1>1, <3>1, <3>3, <3>6 DEF Listed, Working
    <3>8. Accounted(s, u, x)
      BY <2>2, <3>5, WantedAccounted
    <3> QED
      BY <3>2, <3>7, <3>8, AccountedReserved DEF Collisions, CollisionFree
  <2> QED
    BY <1>2, <2>1, <2>2, Moves DEF Move, Entered, Reads, Writes, Finishes
<1>3. ASSUME NEW s \in Station, NEW u \in User, NEW v \in User, u # v
      PROVE  Secrets(device'[s][u]) \cap Secrets(device'[s][v]) = {}
  <2>1. CASE device'[s][u] = device[s][u] /\ device'[s][v] = device[s][v]
    BY <1>1, <1>3, <2>1 DEF Distinct
  <2>2. CASE device'[s][u] # device[s][u]
    BY <1>1, <1>3, <2>2, DeviceMoves DEF WritesUnique
  <2>3. CASE device'[s][v] # device[s][v]
    BY <1>1, <1>3, <2>3, DeviceMoves DEF WritesUnique
  <2> QED
    BY <2>1, <2>2, <2>3
<1> QED
  BY <1>2, <1>3 DEF WritesUnique, Distinct

LEMMA CustodyInvariant ==
  Spec => [](TypeInv /\ Grounds /\ OwnedOnDevice /\ Collisions /\ Custody)
<1>1. Init => Collisions
  BY DEF Init, RepositoryInit, Collisions, CollisionFree, Reserved, Known
<1>2. Init => Custody
  <2>1. Init => Held
    BY DEF Init, Held, Managed, Secrets, Absent
  <2>2. Init => WritesAccounted /\ Listed /\ WritesUnique /\ Distinct
    BY DEF Init, WritesAccounted, Listed, Working, WritesUnique, Distinct
  <2> QED
    BY <2>1, <2>2 DEF Custody
<1>3. TypeInv /\ Collisions /\ [Next]_vars => Collisions'
  BY CollisionsStep
<1>4. /\ TypeInv /\ Tracking /\ Grounds /\ OwnedOnDevice /\ Collisions /\ Custody
      /\ [Next]_vars
      => Custody'
  BY HeldStep, WritesAccountedStep, ListedStep, UniqueStep DEF Custody
<1> QED
  BY <1>1, <1>2, <1>3, <1>4, GroundsInvariant, Owned, PTL DEF Spec

(* Edits, deletions, lost answers and restarts never make the code forget a *)
(* credential that opens a door: what a device holds is what the person     *)
(* should have, or the removal still waits for this station (repository.py, *)
(* _retire and the confirmations; engine.py, the order of its commits).     *)
THEOREM NothingForgotten == Spec => []NoForgottenCredential
<1>1. Custody => NoForgottenCredential
  BY DEF Custody, Held, Accounted, NoForgottenCredential
<1> QED
  BY <1>1, CustodyInvariant, PTL

(* A credential that some device still holds for one person cannot be given *)
(* to another (_validate_collisions counts the withdrawn ones and those of  *)
(* the deleted).                                                            *)
THEOREM CredentialsExclusive == Spec => []ExclusiveCredential
<1>1. Collisions /\ Custody => ExclusiveCredential
  <2> SUFFICES ASSUME Collisions, Held, NEW s \in Station, NEW u \in User,
                      NEW v \in User, u # v, Managed(s, u),
                      NEW x \in Secrets(device[s][u])
               PROVE  x \notin Reserved(users, retired, v)
    BY DEF Custody, ExclusiveCredential
  <2>1. x \in Reserved(users, retired, u)
    BY AccountedReserved DEF Held
  <2> QED
    BY <2>1 DEF Collisions, CollisionFree
<1> QED
  BY <1>1, CustodyInvariant, PTL

(* The engine never brings one card or PIN under two employee numbers of a  *)
(* station, unmanaged records included: it looks for the credential in the  *)
(* inventory it read before it writes, and what it wrote since belongs to   *)
(* somebody else in the ledger.                                             *)
THEOREM DevicesUnique == Spec => []UniqueOnDevice
<1>1. Custody => UniqueOnDevice
  BY DEF Custody, Distinct, UniqueOnDevice
<1> QED
  BY <1>1, CustodyInvariant, PTL
-----------------------------------------------------------------------------
(* What one step may make of the state of an assignment. *)
InSync(s, u) ==
  /\ users[u].status = "live" /\ s \in users[u].assigned
  /\ progress[u][s] = [applied |-> users[u].revision, sync |-> "synced"]

(* No claim is made that was not made before. *)
Unclaimed(s, u) ==
  /\ progress'[u][s].applied \in {0, progress[u][s].applied}
  /\ \/ ~InSync(s, u)'
     \/ /\ progress'[u][s] = progress[u][s]
        /\ users'[u] = users[u] \/ users[u].status = "unborn"

(* An edit that no station stores takes the claim along. *)
Advanced(s, u) ==
  LET old == users[u]
      new == users'[u]
  IN /\ new.revision = old.revision + 1
     /\ new.status = old.status /\ new.pin = old.pin /\ new.cards = old.cards
     /\ new.assigned = old.assigned /\ new.granted = old.granted
     /\ progress'[u][s] = IF s \in old.assigned /\ progress[u][s].applied = old.revision
                            THEN [progress[u][s] EXCEPT !.applied = old.revision + 1]
                            ELSE progress[u][s]

Claimed(s, u, revision) ==
  /\ users[u].status = "live" /\ s \in users[u].assigned
  /\ revision = users[u].revision /\ users' = users
  /\ progress'[u][s] = [applied |-> revision, sync |-> "synced"]

(* A transaction claims what it has read. *)
Settled(s, u) ==
  /\ pc[s] # "idle" /\ u = job[s].user
  /\ Claimed(s, u, job[s].snapshot.revision)
  /\ device' = device /\ pc'[s] # "write"
  /\ external = 0 => device[s][u] = Desired(job[s].snapshot, s)

LEMMA CellType ==
  ASSUME RepositoryTypeOK, NEW s \in Station, NEW u \in User
  PROVE  /\ users[u] \in UserRecord /\ users[u].revision \in Nat
         /\ progress[u][s] \in Progress
         /\ progress[u][s].applied \in Nat /\ progress[u][s].sync \in SyncStates
BY DEF RepositoryTypeOK, UserRecord, Progress

LEMMA MarkedUnclaimed ==
  ASSUME RepositoryTypeOK, NEW s \in Station, NEW u \in User,
         NEW t \in Station, NEW v \in User, NEW status \in SyncStates \ {"synced"},
         progress'[u] = Marked(v, t, status)[u], users'[u] = users[u]
  PROVE  Unclaimed(s, u)
<1>1. CASE progress'[u][s] = progress[u][s]
  BY <1>1 DEF Unclaimed
<1>2. CASE progress'[u][s] # progress[u][s]
  <2>1. progress'[u][s] = [progress[u][s] EXCEPT !.sync = status]
    BY <1>2 DEF Marked, RepositoryTypeOK
  <2>2. /\ progress'[u][s].applied = progress[u][s].applied
        /\ progress'[u][s].sync = status
    BY <2>1, CellType DEF Progress
  <2> QED
    BY <2>2 DEF Unclaimed, InSync
<1> QED
  BY <1>1, <1>2

LEMMA ObservationClaims ==
  ASSUME RepositoryTypeOK, NEW s \in Station, NEW u \in User,
         NEW t \in Station, NEW v \in User, NEW content, NEW revision,
         RecordObservation(t, v, content, revision)
  PROVE  Unclaimed(s, u) \/ (s = t /\ u = v /\ Claimed(s, u, revision))
<1>0. users' = users
  BY DEF RecordObservation
<1>1. CASE progress' = progress
  BY <1>0, <1>1 DEF Unclaimed
<1>2. CASE progress' = [progress EXCEPT ![v][t] = [applied |-> revision, sync |-> "synced"]]
           /\ users[v].status = "live" /\ t \in users[v].assigned
           /\ revision = users[v].revision
  <2>1. CASE s = t /\ u = v
    BY <1>0, <1>2, <2>1 DEF Claimed, RepositoryTypeOK
  <2>2. CASE ~(s = t /\ u = v)
    BY <1>0, <1>2, <2>2 DEF Unclaimed, RepositoryTypeOK
  <2> QED
    BY <2>1, <2>2
<1>3. CASE progress' = [progress EXCEPT ![v][t].sync = "pending"]
           /\ users[v].status = "live" /\ t \in users[v].assigned
  <2>1. progress' = Marked(v, t, "pending")
    BY <1>3 DEF Marked
  <2> QED
    BY <1>0, <2>1, MarkedUnclaimed DEF SyncStates
<1> QED
  BY <1>1, <1>2, <1>3 DEF RecordObservation

LEMMA AbsenceClaims ==
  ASSUME RepositoryTypeOK, NEW s \in Station, NEW u \in User,
         NEW t \in Station, NEW v \in User, NEW revision,
         ConfirmAbsent(t, v, revision)
  PROVE  Unclaimed(s, u) \/ (s = t /\ u = v /\ Claimed(s, u, revision))
<1>1. users'[u] = users[u] \/ users'[u].status = "gone"
  BY DEF ConfirmAbsent, RepositoryTypeOK, UserRecord
<1>2. CASE progress' = progress
  BY <1>1, <1>2 DEF Unclaimed, InSync
<1>3. CASE /\ progress' = [progress EXCEPT ![v][t] = [applied |-> revision, sync |-> "synced"]]
           /\ users[v].status = "live" /\ t \in users[v].assigned
           /\ revision = users[v].revision
  <2>1. users' = users
    BY <1>3 DEF ConfirmAbsent
  <2>2. CASE s = t /\ u = v
    BY <1>3, <2>1, <2>2 DEF Claimed, RepositoryTypeOK
  <2>3. CASE ~(s = t /\ u = v)
    BY <1>3, <2>1, <2>3 DEF Unclaimed, RepositoryTypeOK
  <2> QED
    BY <2>2, <2>3
<1> QED
  BY <1>2, <1>3 DEF ConfirmAbsent

(* The engine claims that a station is synced when nothing is left to do    *)
(* there for the revision it took its snapshot of.                          *)
LEMMA EngineClaims ==
  ASSUME TypeInv, Tracking, Grounds, NEW t \in Station, Engine(t) \/ Failure(t),
         NEW s \in Station, NEW u \in User
  PROVE  Unclaimed(s, u) \/ Settled(s, u)
<1> DEFINE v == job[t].user
           current == job[t].current
           want == Desired(job[t].snapshot, t)
           revision == job[t].snapshot.revision
<1>0. RepositoryTypeOK
  BY DEF TypeInv, TypeOK
<1>1. ASSUME progress' = progress, users' = users PROVE Unclaimed(s, u)
  BY <1>1 DEF Unclaimed
<1>2. ASSUME NEW w \in User, NEW status \in SyncStates \ {"synced"},
             progress' = Marked(w, t, status), users' = users
      PROVE  Unclaimed(s, u)
  BY <1>0, <1>2, MarkedUnclaimed
<1>3. ASSUME NEW content, RecordObservation(t, v, content, 0), v \in User
      PROVE  Unclaimed(s, u)
  <2>1. users[v].status = "live" => users[v].revision # 0
    BY <1>3 DEF Grounds, Born
  <2>2. Unclaimed(s, u) \/ (s = t /\ u = v /\ Claimed(s, u, 0))
    BY <1>0, <1>3, ObservationClaims
  <2>3. ASSUME s = t, u = v PROVE ~Claimed(s, u, 0)
    BY <2>1, <2>3 DEF Claimed
  <2> QED
    BY <2>2, <2>3
<1>4. ASSUME NEW status \in SyncStates \ {"synced"}, NEW seen, Fail(t, status, seen),
             v \in User
      PROVE  Unclaimed(s, u)
  BY <1>2, <1>4 DEF Fail
<1>5. ASSUME pc[t] # "idle", Unclaimed(s, u) \/ (s = t /\ u = v /\ Claimed(s, u, revision)),
             device' = device, pc'[t] # "write", external = 0 => device[t][v] = want
      PROVE  Unclaimed(s, u) \/ Settled(s, u)
  BY <1>5 DEF Settled
<1> USE DEF SyncStates
<1>6. CASE Reconcile(t) \/ Write(t) \/ WriteIgnored(t) \/ Cancelled(t)
  BY <1>1, <1>6 DEF Reconcile, Write, WriteIgnored, Cancelled, repository
<1>7. ASSUME NEW w \in User, Start(t, w) PROVE Unclaimed(s, u)
  BY <1>1, <1>2, <1>7 DEF Start
<1>8. CASE Inspect(t)
  <2>1. pc[t] = "read" /\ device' = device /\ v \in User /\ device[t][v] \in Content
    BY <1>8, JobType DEF Inspect, TypeInv, TypeOK, SyncTypeOK
  <2>2. CASE /\ ~device[t][v].here /\ ~want.here
             /\ ConfirmAbsent(t, v, revision) /\ Release(t, device[t][v])
    <3>1. device[t][v] = Absent /\ want = Absent
      BY <2>1, <2>2 DEF Grounds, ProperContents, Proper, Desired
    <3>2. pc'[t] = "idle"
      BY <2>2 DEF Release, TypeInv, TypeOK, SyncTypeOK
    <3> QED
      BY <1>0, <1>5, <2>1, <2>2, <3>1, <3>2, AbsenceClaims
  <2>3. CASE RecordObservation(t, v, device[t][v], 0)
    BY <1>3, <2>1, <2>3
  <2>4. CASE Fail(t, "conflict", device[t][v])
    BY <1>4, <2>1, <2>4
  <2>5. CASE UNCHANGED repository
    BY <1>1, <2>5 DEF repository
  <2> QED
    BY <1>8, <2>2, <2>3, <2>4, <2>5 DEF Inspect
<1>9. CASE BlockedElsewhere(t) \/ Refused(t)
  <2>1. v \in User
    BY <1>9, JobType DEF BlockedElsewhere, Refused
  <2> QED
    BY <1>4, <1>9, <2>1 DEF BlockedElsewhere, Refused
<1>10. CASE Journal(t)
  <2>1. v \in User
    BY <1>10, JobType DEF Journal
  <2>2. CASE progress' = progress /\ users' = users
    BY <1>1, <2>2
  <2>3. CASE Fail(t, "pending", current)
    BY <1>4, <2>1, <2>3
  <2> QED
    BY <1>10, <2>2, <2>3 DEF Journal, WriteIntent
<1>11. CASE Readback(t)
  <2>1. v \in User
    BY <1>11, JobType DEF Readback
  <2> QED
    BY <1>3, <1>4, <1>11, <2>1 DEF Readback
<1>12. CASE Removed(t)
  <2>1. /\ pc[t] = "ready" /\ device' = device /\ ~want.here
        /\ NextContents(want, current) = {}
        /\ ConfirmAbsent(t, v, revision) /\ Release(t, current)
    BY <1>12 DEF Removed
  <2>2. v \in User /\ current \in Content /\ pc'[t] = "idle"
    BY <2>1, JobType, CurrentType DEF Release, TypeInv, TypeOK, SyncTypeOK
  <2>3. ~current.here
    BY <2>1 DEF NextContents
  <2>4. current = Absent /\ want = Absent
    BY <2>1, <2>3 DEF Grounds, ProperContents, Proper, Desired
  <2>5. external = 0 => device[t][v] = want
    BY <2>1, <2>4 DEF Tracking
  <2> QED
    BY <1>0, <1>5, <2>1, <2>2, <2>5, AbsenceClaims
<1>13. CASE Finish(t)
  <2>1. /\ pc[t] = "ready" /\ device' = device /\ want.here
        /\ NextContents(want, current) = {}
        /\ RecordObservation(t, v, want, revision)
        /\ pc'[t] = "cards"
    BY <1>13 DEF Finish, TypeInv, TypeOK, SyncTypeOK
  <2>2. v \in User /\ want \in Content /\ current \in Content
    BY <2>1, JobType, CurrentType
  <2>3. current = want
    BY <2>1, <2>2, NothingLeft
  <2>4. external = 0 => device[t][v] = want
    BY <2>1, <2>3 DEF Tracking
  <2> QED
    BY <1>0, <1>5, <2>1, <2>2, <2>4, ObservationClaims
<1>14. CASE ConfirmCards(t) \/ ConfirmPins(t)
  BY <1>1, <1>14 DEF ConfirmCards, ConfirmPins, ConfirmRemovals
<1>15. CASE ConnectionFailed(t)
  <2>1. v \in User
    BY <1>15, JobType DEF ConnectionFailed
  <2> QED
    BY <1>2, <1>15, <2>1 DEF ConnectionFailed
<1>16. CASE StationFailed(t)
  <2>1. users' = users
    BY <1>16 DEF StationFailed
  <2>2. PICK status \in {"pending", "error"} :
          progress' = [w \in User |->
            IF w \in Deletions(t) \cup Others(t)
              THEN Marked(w, t, status)[w] ELSE progress[w]]
    BY <1>16 DEF StationFailed
  <2>3. progress'[u] = Marked(u, t, status)[u] \/ progress'[u] = progress[u]
    BY <2>2
  <2>4. progress'[u] = progress[u] => Unclaimed(s, u)
    BY <2>1 DEF Unclaimed
  <2> QED
    BY <1>0, <2>1, <2>3, <2>4, MarkedUnclaimed
<1> QED
  BY <1>6, <1>7, <1>8, <1>9, <1>10, <1>11, <1>12, <1>13, <1>14, <1>15, <1>16
  DEF Engine, Failure

(* An edit of what the stations store lays every claim open. *)
LEMMA RebuiltShape ==
  ASSUME RepositoryTypeOK, NEW v \in User, NEW assigned \in SUBSET Station
  PROVE  LET rebuilt == Rebuilt(v, assigned)
         IN /\ rebuilt \in [User -> [Station -> Progress]]
            /\ \A w \in User \ {v} : rebuilt[w] = progress[w]
            /\ \A p \in Station :
                 rebuilt[v][p].applied \in {0, progress[v][p].applied}
            /\ \A p \in assigned : rebuilt[v][p].sync = "pending"
<1> DEFINE rebuilt == Rebuilt(v, assigned)
<1>1. rebuilt \in [User -> [Station -> Progress]]
  BY RebuiltType DEF RepositoryTypeOK
<1>2. \A w \in User \ {v} : rebuilt[w] = progress[w]
  BY DEF Rebuilt, RepositoryTypeOK
<1>3. ASSUME NEW p \in Station
      PROVE  /\ rebuilt[v][p].applied \in {0, progress[v][p].applied}
             /\ p \in assigned => rebuilt[v][p].sync = "pending"
  <2>1. rebuilt[v][p] = IF p \in assigned THEN [progress[v][p] EXCEPT !.sync = "pending"]
                                          ELSE NotApplied
    BY DEF Rebuilt, RepositoryTypeOK
  <2>2. progress[v][p] \in Progress
    BY CellType
  <2> QED
    BY <2>1, <2>2 DEF Progress, NotApplied
<1> QED
  BY <1>1, <1>2, <1>3

LEMMA ReopenedUnclaimed ==
  ASSUME NEW s \in Station, NEW u \in User, NEW v \in User,
         \A w \in User \ {v} : users'[w] = users[w] /\ progress'[w] = progress[w],
         \A p \in Station : progress'[v][p].applied \in {0, progress[v][p].applied},
         \A p \in users'[v].assigned : progress'[v][p].sync = "pending"
  PROVE  Unclaimed(s, u)
BY DEF Unclaimed, InSync

LEMMA OthersClaim ==
  ASSUME TypeInv, NEW s \in Station, NEW u \in User,
         \/ \E v \in User : Administrator(v)
         \/ \E t \in Station, v \in User : Adopt(t, v) \/ Resolve(t, v)
  PROVE  Unclaimed(s, u) \/ Advanced(s, u)
<1>0. RepositoryTypeOK /\ \A v \in User : users[v] \in UserRecord
  BY DEF TypeInv, TypeOK, RepositoryTypeOK
<1>1. ASSUME NEW v \in User, users[v].status = "unborn", progress' = progress,
             \A w \in User \ {v} : users'[w] = users[w]
      PROVE  Unclaimed(s, u)
  BY <1>1 DEF Unclaimed
<1>2. ASSUME NEW v \in User, NEW new,
             users' = [users EXCEPT ![v] = new],
             new.assigned \in SUBSET Station,
             \/ progress' = Rebuilt(v, new.assigned)
             \/ \E t \in Station, old \in SUBSET Station :
                  /\ new.assigned = old \cup {t}
                  /\ progress' = [Rebuilt(v, old) EXCEPT ![v][t] = NotApplied]
      PROVE  Unclaimed(s, u)
  <2>1. users'[v] = new
    BY <1>0, <1>2 DEF RepositoryTypeOK
  <2>2. CASE progress' = Rebuilt(v, new.assigned)
    BY <1>0, <1>2, <2>1, <2>2, RebuiltShape, ReopenedUnclaimed
  <2>3. ASSUME NEW t \in Station, NEW old \in SUBSET Station,
               new.assigned = old \cup {t},
               progress' = [Rebuilt(v, old) EXCEPT ![v][t] = NotApplied]
        PROVE  Unclaimed(s, u)
    <3> DEFINE rebuilt == Rebuilt(v, old)
    <3>1. /\ rebuilt \in [User -> [Station -> Progress]]
          /\ \A w \in User \ {v} : rebuilt[w] = progress[w]
          /\ \A p \in Station : rebuilt[v][p].applied \in {0, progress[v][p].applied}
          /\ \A p \in old : rebuilt[v][p].sync = "pending"
      BY <1>0, RebuiltShape
    <3>2. progress' = [rebuilt EXCEPT ![v][t] = NotApplied]
      BY <2>3
    <3> HIDE DEF rebuilt
    <3>3. /\ \A w \in User \ {v} : progress'[w] = progress[w]
          /\ progress'[v][t] = NotApplied
          /\ \A p \in Station \ {t} : progress'[v][p] = rebuilt[v][p]
      BY <3>1, <3>2
    <3>4. \A p \in Station : progress'[v][p].applied \in {0, progress[v][p].applied}
      BY <3>1, <3>3 DEF NotApplied
    <3>5. \A p \in users'[v].assigned : progress'[v][p].sync = "pending"
      BY <2>1, <2>3, <3>1, <3>3 DEF NotApplied
    <3>6. \A w \in User \ {v} : users'[w] = users[w]
      BY <1>2
    <3> QED
      BY <3>3, <3>4, <3>5, <3>6, ReopenedUnclaimed
  <2> QED
    BY <1>2, <2>2, <2>3
<1>3. ASSUME NEW v \in User, Administrator(v) PROVE Unclaimed(s, u) \/ Advanced(s, u)
  <2>1. CASE CreateUser(v)
    BY <1>0, <1>1, <2>1 DEF CreateUser, Create, RepositoryTypeOK
  <2>2. CASE UpdateUser(v)
    <3>1. PICK pin \in Pin \cup {NoPin}, cards \in SUBSET Card,
               assigned \in SUBSET Station, granted \in SUBSET Station :
            Update(v, pin, cards, assigned, granted)
      BY <2>2 DEF UpdateUser
    <3> DEFINE new == [users[v] EXCEPT !.revision = @ + 1, !.pin = pin, !.cards = cards,
                                      !.assigned = assigned, !.granted = granted]
    <3>2. users' = [users EXCEPT ![v] = new] /\ progress' = Rebuilt(v, assigned)
      BY <3>1 DEF Update
    <3>3. new.assigned = assigned
      BY <1>0 DEF UserRecord
    <3> HIDE DEF new
    <3> QED
      BY <1>2, <3>2, <3>3
  <2>3. CASE EditUserProfile(v)
    <3> DEFINE old == users[v]
               advanced(p) == IF p.applied = old.revision
                                THEN [p EXCEPT !.applied = old.revision + 1] ELSE p
    <3>1. /\ users' = [users EXCEPT ![v].revision = @ + 1]
          /\ progress' = [progress EXCEPT ![v] = [p \in Station |->
               IF p \in old.assigned THEN advanced(progress[v][p]) ELSE progress[v][p]]]
      BY <2>3 DEF EditUserProfile, EditProfile
    <3>2. CASE u # v
      BY <3>1, <3>2, <1>0 DEF Unclaimed, RepositoryTypeOK
    <3>3. CASE u = v
      <4>1. users'[u] = [users[u] EXCEPT !.revision = @ + 1]
        BY <1>0, <3>1, <3>3 DEF RepositoryTypeOK
      <4>2. /\ users'[u].revision = users[u].revision + 1
            /\ users'[u].status = users[u].status /\ users'[u].pin = users[u].pin
            /\ users'[u].cards = users[u].cards
            /\ users'[u].assigned = users[u].assigned
            /\ users'[u].granted = users[u].granted
        BY <1>0, <4>1 DEF UserRecord
      <4>3. progress'[u][s] =
              IF s \in users[u].assigned /\ progress[u][s].applied = users[u].revision
                THEN [progress[u][s] EXCEPT !.applied = users[u].revision + 1]
                ELSE progress[u][s]
        BY <1>0, <3>1, <3>3 DEF RepositoryTypeOK
      <4> QED
        BY <4>2, <4>3 DEF Advanced
    <3> QED
      BY <3>2, <3>3
  <2>4. CASE DeleteUser(v)
    <3>1. progress' = [progress EXCEPT ![v] = [p \in Station |-> NotApplied]]
          /\ \E x \in {"tombstone", "gone"} : users' = [users EXCEPT ![v].status = x]
      BY <2>4 DEF DeleteUser, Delete
    <3>2. CASE u # v
      BY <1>0, <3>1, <3>2 DEF Unclaimed, RepositoryTypeOK
    <3>3. CASE u = v
      <4>1. progress'[u][s] = NotApplied
        BY <1>0, <3>1, <3>3 DEF RepositoryTypeOK
      <4> QED
        BY <4>1 DEF Unclaimed, NotApplied, InSync
    <3> QED
      BY <3>2, <3>3
  <2> QED
    BY <1>3, <2>1, <2>2, <2>3, <2>4 DEF Administrator
<1>4. ASSUME NEW t \in Station, NEW v \in User, Adopt(t, v) PROVE Unclaimed(s, u)
  <2>1. ASSUME NEW status, AdoptNew(t, v, device[t][v], status)
        PROVE  Unclaimed(s, u)
    BY <1>0, <1>1, <2>1 DEF AdoptNew, RepositoryTypeOK
  <2>2. ASSUME NEW granted, AdoptExisting(t, v, device[t][v], granted)
        PROVE  Unclaimed(s, u)
    <3> DEFINE new == [users[v] EXCEPT !.revision = @ + 1, !.assigned = @ \cup {t},
                                      !.granted = granted]
    <3>1. /\ users' = [users EXCEPT ![v] = new]
          /\ progress' = [Rebuilt(v, users[v].assigned) EXCEPT ![v][t] = NotApplied]
      BY <2>2, <1>0 DEF AdoptExisting, RepositoryTypeOK
    <3>2. new.assigned = users[v].assigned \cup {t} /\ users[v].assigned \in SUBSET Station
      BY <1>0 DEF UserRecord
    <3> HIDE DEF new
    <3> QED
      BY <1>2, <3>1, <3>2
  <2> QED
    BY <1>4, <2>1, <2>2 DEF Adopt
<1>5. ASSUME NEW t \in Station, NEW v \in User, Resolve(t, v) PROVE Unclaimed(s, u)
  <2>1. CASE ResolveCentral(t, v, device[t][v])
    <3> DEFINE new == [users[v] EXCEPT !.revision = @ + 1]
    <3>1. /\ users' = [users EXCEPT ![v] = new]
          /\ progress' = Rebuilt(v, users[v].assigned)
      BY <2>1, <1>0 DEF ResolveCentral, RepositoryTypeOK
    <3>2. new.assigned = users[v].assigned /\ users[v].assigned \in SUBSET Station
      BY <1>0 DEF UserRecord
    <3> HIDE DEF new
    <3> QED
      BY <1>2, <3>1, <3>2
  <2>2. CASE ResolveDevice(t, v, device[t][v])
    <3> DEFINE new == [users[v] EXCEPT !.revision = @ + 1, !.pin = device[t][v].pin,
                                      !.cards = device[t][v].cards]
    <3>1. /\ users' = [users EXCEPT ![v] = new]
          /\ progress' = Rebuilt(v, users[v].assigned)
      BY <2>2 DEF ResolveDevice
    <3>2. new.assigned = users[v].assigned /\ users[v].assigned \in SUBSET Station
      BY <1>0 DEF UserRecord
    <3> HIDE DEF new
    <3> QED
      BY <1>2, <3>1, <3>2
  <2>3. CASE ResolveDeletion(t, v, device[t][v])
    BY <2>3 DEF ResolveDeletion, Unclaimed
  <2> QED
    BY <1>5, <2>1, <2>2, <2>3 DEF Resolve
<1> QED
  BY <1>3, <1>4, <1>5

LEMMA Claims ==
  ASSUME TypeInv, Tracking, Grounds, [Next]_vars, NEW s \in Station, NEW u \in User
  PROVE  Unclaimed(s, u) \/ Advanced(s, u) \/ Settled(s, u)
<1>1. CASE \E t \in Station : Engine(t) \/ Failure(t)
  BY <1>1, EngineClaims
<1>2. CASE (\E t \in Station, v \in User : External(t, v)) \/ UNCHANGED vars
  BY <1>2 DEF External, vars, repository, Unclaimed
<1>3. CASE Restart
  <2>1. users' = users
    BY <1>3 DEF Restart, Reload
  <2>2. progress'[u][s] = progress[u][s]
          \/ progress'[u][s] = [progress[u][s] EXCEPT !.sync = "pending"]
    BY <1>3 DEF Restart, Reload
  <2>3. /\ progress'[u][s].applied = progress[u][s].applied
        /\ progress'[u][s] = progress[u][s] \/ progress'[u][s].sync = "pending"
    BY <2>2, CellType DEF TypeInv, TypeOK, Progress
  <2> QED
    BY <2>1, <2>3 DEF Unclaimed, InSync
<1> QED
  BY <1>1, <1>2, <1>3, OthersClaim DEF Next
-----------------------------------------------------------------------------
(* No assignment is ahead of its person, and what is shown as synced at the *)
(* current revision is on the device, where no write is on its way to       *)
(* change it.                                                               *)
Applied ==
  \A u \in User, s \in Station : progress[u][s].applied <= users[u].revision

Synced ==
  external = 0 =>
    \A s \in Station, u \in User : InSync(s, u) =>
      /\ device[s][u] = Desired(users[u], s)
      /\ ~(pc[s] = "write" /\ job[s].user = u)

LEMMA AppliedStep ==
  ASSUME TypeInv, Tracking, Grounds, Applied, [Next]_vars
  PROVE  Applied'
<1> SUFFICES ASSUME NEW u \in User, NEW s \in Station
             PROVE  progress'[u][s].applied <= users'[u].revision
  BY DEF Applied
<1>1. /\ users[u].revision \in Nat /\ progress[u][s].applied \in Nat
      /\ progress[u][s] \in Progress
      /\ progress[u][s].applied <= users[u].revision
  BY CellType DEF TypeInv, TypeOK, Applied
<1>2. users'[u].revision \in Nat /\ users[u].revision <= users'[u].revision
  <2>1. users[u].status = "unborn" => users[u].revision = 0
    BY DEF Grounds, Born
  <2>2. PersonMove(users[u], users'[u])
    BY PersonMoves
  <2> QED
    BY <1>1, <2>1, <2>2 DEF PersonMove, Unborn, Edited, Withdraws
<1>3. CASE Unclaimed(s, u)
  BY <1>1, <1>2, <1>3 DEF Unclaimed
<1>4. CASE Advanced(s, u)
  BY <1>1, <1>2, <1>4 DEF Advanced, Progress
<1>5. CASE Settled(s, u)
  BY <1>1, <1>5 DEF Settled, Claimed
<1> QED
  BY <1>3, <1>4, <1>5, Claims

LEMMA NothingToDo ==
  ASSUME NEW want \in Content, Proper(want)
  PROVE  NextContents(want, want) = {}
<1>1. [want EXCEPT !.here = TRUE, !.pin = want.pin] = want \/ ~want.here
  BY DEF Content
<1>2. ~want.here => want.cards = {}
  BY DEF Proper, Absent
<1> QED
  BY <1>1, <1>2 DEF NextContents

LEMMA SyncedStep ==
  ASSUME TypeInv, Tracking, Grounds, Applied, Synced, [Next]_vars
  PROVE  Synced'
<1> SUFFICES ASSUME external' = 0, NEW s \in Station, NEW u \in User, InSync(s, u)'
             PROVE  /\ device'[s][u] = Desired(users'[u], s)
                    /\ ~(pc'[s] = "write" /\ job'[s].user = u)
  BY DEF Synced
<1>1. external = 0
  BY StillUntouched
<1>2. /\ users[u] \in UserRecord /\ users[u].revision \in Nat
      /\ progress[u][s] \in Progress
      /\ progress[u][s].applied <= users[u].revision
      /\ users[u].status = "unborn" => users[u].revision = 0
  BY CellType DEF TypeInv, TypeOK, Applied, Grounds, Born
<1>3. CASE Settled(s, u)
  <2>1. /\ users' = users /\ users[u].status = "live" /\ device' = device
        /\ users[u].revision = job[s].snapshot.revision /\ u = job[s].user
        /\ pc[s] # "idle" /\ pc'[s] # "write"
        /\ device[s][u] = Desired(job[s].snapshot, s)
    BY <1>1, <1>3 DEF Settled, Claimed
  <2>2. Desired(job[s].snapshot, s) = Desired(users[u], s)
    BY <2>1 DEF Grounds, Snapshots, Desired
  <2> QED
    BY <2>1, <2>2
<1>4. ASSUME InSync(s, u), Desired(users'[u], s) = Desired(users[u], s)
      PROVE  /\ device'[s][u] = Desired(users'[u], s)
             /\ ~(pc'[s] = "write" /\ job'[s].user = u)
  <2>1. device[s][u] = Desired(users[u], s) /\ ~(pc[s] = "write" /\ job[s].user = u)
    BY <1>1, <1>4 DEF Synced
  <2>2. device'[s][u] = device[s][u]
    BY <2>1, DeviceMoves
  <2>3. ASSUME pc'[s] = "write", job'[s].user = u PROVE FALSE
    <3>1. CASE Undisturbed(s)
      BY <2>1, <2>3, <3>1 DEF Undisturbed
    <3>2. CASE Journals(s)
      <4> DEFINE want == Desired(job[s].snapshot, s)
                 current == job[s].current
      <4>1. /\ pc[s] = "ready" /\ u = job[s].user
            /\ users[u].revision = job[s].snapshot.revision
            /\ NextContents(want, current) # {}
        BY <2>3, <3>2 DEF Journals, IntentAllowed
      <4>2. users[u].status = "live"
        BY <1>4 DEF InSync
      <4>3. want = Desired(users[u], s)
        BY <4>1, <4>2 DEF Grounds, Snapshots, Desired
      <4>4. current = want
        BY <1>1, <2>1, <4>1, <4>3 DEF Tracking
      <4>5. want \in Content /\ Proper(current)
        BY <4>1, JobType DEF Grounds, ProperContents
      <4> QED
        BY <4>1, <4>4, <4>5, NothingToDo
    <3> QED
      BY <2>3, <3>1, <3>2, Moves DEF Move, Entered, Reads, Writes, Finishes
  <2> QED
    BY <1>4, <2>1, <2>2, <2>3
<1>5. CASE Unclaimed(s, u)
  <2>1. /\ progress'[u][s] = progress[u][s]
        /\ users'[u] = users[u] \/ users[u].status = "unborn"
    BY <1>5 DEF Unclaimed
  <2>2. CASE users'[u] = users[u]
    <3>1. InSync(s, u)
      BY <2>1, <2>2 DEF InSync
    <3> QED
      BY <1>4, <2>2, <3>1
  <2>3. CASE users'[u] # users[u]
    <3>1. users'[u].revision = 1 /\ users[u].revision = 0
      BY <1>2, <2>1, <2>3, PersonMoves DEF PersonMove, Unborn, Edited, Withdraws
    <3>2. progress'[u][s].applied = 1
      BY <3>1 DEF InSync
    <3> QED
      BY <1>2, <2>1, <3>1, <3>2
  <2> QED
    BY <2>2, <2>3
<1>6. CASE Advanced(s, u)
  <2>1. /\ users'[u].revision = users[u].revision + 1
        /\ users[u].status = "live" /\ s \in users[u].assigned
        /\ Desired(users'[u], s) = Desired(users[u], s)
        /\ progress'[u][s].applied = users[u].revision + 1
        /\ progress'[u][s].sync = "synced"
    BY <1>6 DEF Advanced, InSync, Desired
  <2>2. progress[u][s].applied = users[u].revision
    BY <1>2, <1>6, <2>1 DEF Advanced, Progress
  <2>3. progress[u][s].sync = "synced"
    BY <1>2, <1>6, <2>1, <2>2 DEF Advanced, Progress
  <2>4. InSync(s, u)
    BY <1>2, <2>1, <2>2, <2>3 DEF InSync, Progress
  <2> QED
    BY <1>4, <2>1, <2>4
<1> QED
  BY <1>3, <1>5, <1>6, Claims

(* "Synced" is never a guess: what the panel shows as synced at the current *)
(* revision is what the station holds, through edits during a transaction,  *)
(* edits that no station stores, lost answers, resumed writes and restarts  *)
(* (engine.py, the revision it reports is the one of its snapshot).         *)
THEOREM SyncedTrue == Spec => []SyncedIsTrue
<1>1. Init => Applied
  BY DEF Init, RepositoryInit, Applied, NotApplied
<1>2. Init => Synced
  BY DEF Init, RepositoryInit, Synced, InSync
<1>3. TypeInv /\ Tracking /\ Grounds /\ Applied /\ [Next]_vars => Applied'
  BY AppliedStep
<1>4. TypeInv /\ Tracking /\ Grounds /\ Applied /\ Synced /\ [Next]_vars => Synced'
  BY SyncedStep
<1>5. Synced => SyncedIsTrue
  BY DEF Synced, SyncedIsTrue, InSync
<1> QED
  BY <1>1, <1>2, <1>3, <1>4, <1>5, GroundsInvariant, PTL DEF Spec
-----------------------------------------------------------------------------
(***************************************************************************)
(* The abstract specification CredentialCustody is implemented.  A step is *)
(* described by what becomes of the claims of the people to a credential   *)
(* (ClaimMove): at most one person's claims move, and a credential has one *)
(* claimant at most, so the move of the person is that of the credential.  *)
(***************************************************************************)
(* A deletion under way is waiting for some station.                       *)
Unfinished ==
  \A u \in User : users[u].status = "tombstone" => Unconfirmed(tombstones[u]) # {}

(* A credential is reserved for those who want it or owe it.               *)
Faithful ==
  \A u \in User : \A x :
    x \in Reserved(users, retired, u) <=> Wants(u, x) \/ Owes(u, x) # {}

(* The ledger lists the credential for removal at the station.             *)
Pending(s, u, x) ==
  \E r \in retired : r.user = u /\ r.secret = x /\ s \in Unconfirmed(r)

LEMMA OwesMember ==
  ASSUME NEW u, NEW x, NEW s
  PROVE  /\ s \in Owes(u, x) <=>
              \/ /\ users[u].status = "tombstone" /\ x \in Secrets(users[u])
                 /\ s \in Unconfirmed(tombstones[u])
              \/ Pending(s, u, x)
         /\ s \in Owes(u, x)' <=>
              \/ /\ users'[u].status = "tombstone" /\ x \in Secrets(users'[u])
                 /\ s \in Unconfirmed(tombstones'[u])
              \/ Pending(s, u, x)'
BY DEF Owes, Pending

LEMMA FaithfulHere == Accounting /\ Unfinished => Faithful
<1> SUFFICES ASSUME Accounting, Unfinished, NEW u \in User, NEW x
             PROVE  x \in Reserved(users, retired, u) <=> Wants(u, x) \/ Owes(u, x) # {}
  BY DEF Faithful
<1>1. ASSUME NEW r \in retired, r.user = u, r.secret = x
      PROVE  Owes(u, x) # {}
  <2>1. PICK s : s \in Unconfirmed(r)
    BY DEF Accounting, RetirementsAccounted
  <2> QED
    BY <1>1, <2>1, OwesMember DEF Pending
<1>2. ASSUME users[u].status = "tombstone", x \in Secrets(users[u])
      PROVE  Owes(u, x) # {}
  <2>1. PICK s : s \in Unconfirmed(tombstones[u])
    BY <1>2 DEF Unfinished
  <2> QED
    BY <1>2, <2>1, OwesMember
<1>3. ASSUME NEW s \in Owes(u, x) PROVE x \in Reserved(users, retired, u)
  BY <1>3, OwesMember DEF Pending, Reserved, Known
<1> QED
  BY <1>1, <1>2, <1>3 DEF Reserved, Known, Wants

(* What one step may make of the claim of a person to a credential.        *)
SameClaims(u, x) ==
  (Wants(u, x)' <=> Wants(u, x)) /\ Owes(u, x)' = Owes(u, x)

ClaimMove(u, x) ==
  \/ SameClaims(u, x)
  \/ Wants(u, x)' /\ Owes(u, x)' \in {{}, Owes(u, x)}
  \/ Wants(u, x) /\ ~Wants(u, x)' /\ Owes(u, x) \subseteq Owes(u, x)'
  \/ /\ Wants(u, x)' <=> Wants(u, x)
     /\ \E s \in Owes(u, x) : Owes(u, x)' = Owes(u, x) \ {s}
  \/ ~Wants(u, x) /\ Owes(u, x) = {} /\ ~Wants(u, x)' /\ Owes(u, x)' # {}

(* The step of a person: nobody else's claims move.                        *)
ClaimsMove(v) ==
  \A x : /\ ClaimMove(v, x)
         /\ \A u \in User \ {v} : SameClaims(u, x)

LEMMA ClaimsKept ==
  ASSUME NEW u, NEW x, Secrets(users'[u]) = Secrets(users[u]),
         users'[u].status = users[u].status,
         users[u].status = "tombstone" =>
           Unconfirmed(tombstones'[u]) = Unconfirmed(tombstones[u]),
         \A s : Pending(s, u, x)' <=> Pending(s, u, x)
  PROVE  SameClaims(u, x)
<1>1. Wants(u, x)' <=> Wants(u, x)
  BY DEF Wants
<1>2. \A s : s \in Owes(u, x)' <=> s \in Owes(u, x)
  BY OwesMember
<1>3. Owes(u, x)' = Owes(u, x)
  BY <1>2
<1> QED
  BY <1>1, <1>3 DEF SameClaims

(* An edit of a living person.                                              *)
LEMMA EditMoves ==
  ASSUME NEW v \in User, users[v].status = "live", users'[v].status = "live",
         \A w \in User \ {v} : users'[w] = users[w],
         tombstones' = tombstones,
         NEW withdrawn,
         \A r \in withdrawn :
           r.user = v /\ r.secret \in Secrets(users[v]) \ Secrets(users'[v]),
         retired' \subseteq retired \cup withdrawn,
         \A r \in retired \cup withdrawn :
           r \in retired' \/ (r.user = v /\ r.secret \in Secrets(users'[v])),
         \A x \in Secrets(users'[v]) :
           \/ \A s : ~Pending(s, v, x)'
           \/ \A s : Pending(s, v, x)' <=> Pending(s, v, x)
  PROVE  ClaimsMove(v)
<1>1. ASSUME NEW u \in User, NEW x,
             u # v \/ (x \notin Secrets(users[v]) /\ x \notin Secrets(users'[v]))
      PROVE  \A s : Pending(s, u, x)' <=> Pending(s, u, x)
  <2> SUFFICES ASSUME NEW r, r.user = u, r.secret = x
               PROVE  r \in retired' <=> r \in retired
    BY DEF Pending
  <2>1. r \notin withdrawn
    BY <1>1
  <2> QED
    BY <1>1, <2>1
<1>2. ASSUME NEW x, NEW u \in User \ {v} PROVE SameClaims(u, x)
  <2>1. \A s : Pending(s, u, x)' <=> Pending(s, u, x)
    BY <1>1
  <2>2. users'[u] = users[u] /\ Secrets(users'[u]) = Secrets(users[u])
    OBVIOUS
  <2> QED
    BY <2>1, <2>2, ClaimsKept
<1>3. ASSUME NEW x PROVE ClaimMove(v, x)
  <2>1. CASE x \in Secrets(users'[v])
    <3>1. Wants(v, x)'
      BY <2>1 DEF Wants
    <3>2. CASE \A s : ~Pending(s, v, x)'
      <4>1. \A s : s \notin Owes(v, x)'
        BY <3>2, OwesMember
      <4>2. Owes(v, x)' = {}
        BY <4>1
      <4> QED
        BY <3>1, <4>2 DEF ClaimMove
    <3>3. CASE \A s : Pending(s, v, x)' <=> Pending(s, v, x)
      <4>1. \A s : s \in Owes(v, x)' <=> s \in Owes(v, x)
        BY <3>3, OwesMember
      <4>2. Owes(v, x)' = Owes(v, x)
        BY <4>1
      <4> QED
        BY <3>1, <4>2 DEF ClaimMove
    <3> QED
      BY <2>1, <3>2, <3>3
  <2>2. CASE x \in Secrets(users[v]) /\ x \notin Secrets(users'[v])
    <3>1. Wants(v, x) /\ ~Wants(v, x)'
      BY <2>2 DEF Wants
    <3>2. \A s : Pending(s, v, x) => Pending(s, v, x)'
      BY <2>2 DEF Pending
    <3>3. \A s : s \in Owes(v, x) => s \in Owes(v, x)'
      BY <3>2, OwesMember
    <3> QED
      BY <3>1, <3>3 DEF ClaimMove
  <2>3. CASE x \notin Secrets(users[v]) /\ x \notin Secrets(users'[v])
    <3>1. ~Wants(v, x) /\ ~Wants(v, x)'
      BY <2>3 DEF Wants
    <3>2. \A s : Pending(s, v, x)' <=> Pending(s, v, x)
      BY <1>1, <2>3
    <3>3. \A s : s \in Owes(v, x)' <=> s \in Owes(v, x)
      BY <3>2, OwesMember
    <3>4. Owes(v, x)' = Owes(v, x)
      BY <3>3
    <3> QED
      BY <3>1, <3>4 DEF ClaimMove, SameClaims
  <2> QED
    BY <2>1, <2>2, <2>3
<1> QED
  BY <1>2, <1>3 DEF ClaimsMove

(* A person who leaves the credentials of everybody else alone.             *)
LEMMA OthersKeep ==
  ASSUME NEW v \in User, \A w \in User \ {v} : users'[w] = users[w],
         \A w \in User \ {v} : tombstones'[w] = tombstones[w],
         \A s, u, x : u # v => (Pending(s, u, x)' <=> Pending(s, u, x)),
         NEW u \in User \ {v}, NEW x
  PROVE  SameClaims(u, x)
<1>1. \A s : Pending(s, u, x)' <=> Pending(s, u, x)
  OBVIOUS
<1>2. /\ users'[u] = users[u] /\ Secrets(users'[u]) = Secrets(users[u])
      /\ tombstones'[u] = tombstones[u]
  OBVIOUS
<1> QED
  BY <1>1, <1>2, ClaimsKept

(* A deletion.                                                              *)
LEMMA DeleteMoves ==
  ASSUME RepositoryTypeOK, Accounting, NEW v \in User, Delete(v)
  PROVE  ClaimsMove(v)
<1> DEFINE withdrawn == UNION {r.targets : r \in {q \in retired : q.user = v}}
           targets == Targets(v) \cup withdrawn
<1>1. /\ users[v].status = "live" /\ users'[v].status \in {"tombstone", "gone"}
      /\ Secrets(users'[v]) = Secrets(users[v])
      /\ \A w \in User \ {v} : users'[w] = users[w]
      /\ \A w \in User \ {v} : tombstones'[w] = tombstones[w]
      /\ retired' = retired
  <2>1. users[v] \in UserRecord /\ users[v].status = "live" /\ retired' = retired
    BY DEF Delete, RepositoryTypeOK
  <2>2. \E status \in {"tombstone", "gone"} : users' = [users EXCEPT ![v].status = status]
    BY DEF Delete
  <2>3. /\ users'[v].status \in {"tombstone", "gone"}
        /\ users'[v].pin = users[v].pin /\ users'[v].cards = users[v].cards
        /\ \A w \in User \ {v} : users'[w] = users[w]
    BY <2>1, <2>2 DEF RepositoryTypeOK, UserRecord
  <2>4. \A w \in User \ {v} : tombstones'[w] = tombstones[w]
    BY DEF Delete, RepositoryTypeOK
  <2> QED
    BY <2>1, <2>3, <2>4 DEF Secrets
<1>2. \A s, u, x : Pending(s, u, x)' <=> Pending(s, u, x)
  BY <1>1 DEF Pending
<1>3. ASSUME NEW x PROVE ClaimMove(v, x)
  <2>1. \A s : s \in Owes(v, x) => s \in Owes(v, x)'
    BY <1>1, <1>2, OwesMember
  <2>2. CASE x \in Secrets(users[v])
    <3>1. Wants(v, x) /\ ~Wants(v, x)'
      BY <1>1, <2>2 DEF Wants
    <3> QED
      BY <2>1, <3>1 DEF ClaimMove
  <2>3. CASE x \notin Secrets(users[v])
    <3>1. ~Wants(v, x) /\ ~Wants(v, x)'
      BY <1>1, <2>3 DEF Wants
    <3>2. \A s : s \in Owes(v, x)' <=> s \in Owes(v, x)
      BY <1>1, <1>2, <2>3, OwesMember
    <3>3. Owes(v, x)' = Owes(v, x)
      BY <3>2
    <3> QED
      BY <3>1, <3>3 DEF ClaimMove, SameClaims
  <2> QED
    BY <2>2, <2>3
<1> QED
  BY <1>1, <1>2, <1>3, OthersKeep DEF ClaimsMove

(* A commit that leaves the credentials of everybody alone.                 *)
LEMMA NoClaimMoves ==
  ASSUME \A u \in User : /\ users'[u].status = users[u].status
                         /\ users'[u].pin = users[u].pin
                         /\ users'[u].cards = users[u].cards,
         tombstones' = tombstones, retired' = retired
  PROVE  \A u \in User : \A x : SameClaims(u, x)
<1> SUFFICES ASSUME NEW u \in User, NEW x PROVE SameClaims(u, x)
  OBVIOUS
<1>1. /\ users'[u].status = users[u].status
      /\ users'[u].pin = users[u].pin /\ users'[u].cards = users[u].cards
  OBVIOUS
<1>2. Secrets(users'[u]) = Secrets(users[u])
  BY <1>1 DEF Secrets
<1>3. \A s : Pending(s, u, x)' <=> Pending(s, u, x)
  BY DEF Pending
<1> QED
  BY <1>1, <1>2, <1>3, ClaimsKept

(* Somebody who was unborn before the step.                                 *)
LEMMA ArrivalMoves ==
  ASSUME Accounting, NEW v \in User, users[v].status = "unborn",
         \A w \in User \ {v} : users'[w] = users[w],
         \A w \in User \ {v} : tombstones'[w] = tombstones[w],
         retired' = retired,
         \/ users'[v].status = "live"
         \/ users'[v].status = "tombstone" /\ Unconfirmed(tombstones'[v]) # {}
  PROVE  ClaimsMove(v)
<1>1. \A s, u, x : Pending(s, u, x)' <=> Pending(s, u, x)
  BY DEF Pending
<1>2. \A s, x : ~Pending(s, v, x)
  BY DEF Pending, Accounting, RetirementsAccounted, Known
<1>3. ASSUME NEW x PROVE ClaimMove(v, x)
  <2>1. ~Wants(v, x)
    BY DEF Wants
  <2>2. \A s : s \notin Owes(v, x)
    BY <1>2, OwesMember
  <2>3. Owes(v, x) = {}
    BY <2>2
  <2>4. CASE x \notin Secrets(users'[v])
    <3>1. ~Wants(v, x)'
      BY <2>4 DEF Wants
    <3>2. \A s : s \notin Owes(v, x)'
      BY <1>1, <1>2, <2>4, OwesMember
    <3>3. Owes(v, x)' = {}
      BY <3>2
    <3> QED
      BY <2>1, <2>3, <3>1, <3>3 DEF ClaimMove, SameClaims
  <2>5. CASE x \in Secrets(users'[v]) /\ users'[v].status = "live"
    <3>1. Wants(v, x)'
      BY <2>5 DEF Wants
    <3>2. \A s : s \notin Owes(v, x)'
      BY <1>1, <1>2, <2>5, OwesMember
    <3>3. Owes(v, x)' = {}
      BY <3>2
    <3> QED
      BY <3>1, <3>3 DEF ClaimMove
  <2>6. CASE /\ x \in Secrets(users'[v]) /\ users'[v].status = "tombstone"
             /\ Unconfirmed(tombstones'[v]) # {}
    <3>1. ~Wants(v, x)'
      BY <2>6 DEF Wants
    <3>2. PICK s : s \in Unconfirmed(tombstones'[v])
      BY <2>6
    <3>3. s \in Owes(v, x)'
      BY <2>6, <3>2, OwesMember
    <3>4. Owes(v, x)' # {}
      BY <3>3
    <3> QED
      BY <2>1, <2>3, <3>1, <3>4 DEF ClaimMove
  <2> QED
    BY <2>4, <2>5, <2>6
<1> QED
  BY <1>1, <1>3, OthersKeep DEF ClaimsMove

(* A confirmation strikes the station off the entries it is about.          *)
LEMMA ConfirmedPending ==
  ASSUME RepositoryTypeOK, NEW t \in Station, NEW v \in User, NEW kind, NEW present,
         retired' = ConfirmedAt(t, v, kind, present), NEW s, NEW u, NEW x
  PROVE  Pending(s, u, x)' <=>
           Pending(s, u, x) /\ ~(s = t /\ u = v /\ x \in kind \ present)
<1> DEFINE hit == {q \in retired : /\ q.user = v
                                   /\ t \in q.targets
                                   /\ q.secret \in kind \ present}
           acknowledged == {[q EXCEPT !.confirmed = @ \cup {t}] : q \in hit}
<1>0. \A r \in retired : r \in Retirement
  BY DEF RepositoryTypeOK
<1>1. ASSUME NEW r \in retired', r.user = u, r.secret = x, s \in Unconfirmed(r)
      PROVE  Pending(s, u, x) /\ ~(s = t /\ u = v /\ x \in kind \ present)
  <2>1. CASE r \in retired \ hit
    BY <1>1, <2>1 DEF Pending, Unconfirmed
  <2>2. CASE r \in acknowledged
    <3>1. PICK q \in hit : r = [q EXCEPT !.confirmed = @ \cup {t}]
      BY <2>2
    <3>2. /\ r.user = q.user /\ r.secret = q.secret
          /\ r.targets = q.targets /\ r.confirmed = q.confirmed \cup {t}
      BY <1>0, <3>1 DEF Retirement
    <3> QED
      BY <1>1, <3>2 DEF Pending, Unconfirmed
  <2> QED
    BY <2>1, <2>2 DEF ConfirmedAt
<1>2. ASSUME NEW r \in retired, r.user = u, r.secret = x, s \in Unconfirmed(r),
             ~(s = t /\ u = v /\ x \in kind \ present)
      PROVE  Pending(s, u, x)'
  <2>1. s \in Station
    BY <1>0, <1>2 DEF Retirement, Unconfirmed
  <2>2. ~(t = s /\ v = r.user /\ r.secret \in kind \ present)
    BY <1>2
  <2>3. PICK q \in ConfirmedAt(t, v, kind, present) :
          q.user = r.user /\ q.secret = r.secret /\ s \in Unconfirmed(q)
    BY <1>2, <2>1, <2>2, ConfirmedAtKeeps
  <2> QED
    BY <1>2, <2>3 DEF Pending
<1> QED
  BY <1>1, <1>2 DEF Pending

LEMMA ConfirmRemovalsMoves ==
  ASSUME RepositoryTypeOK, NEW t \in Station, NEW v \in User, NEW kind, NEW present,
         ConfirmRemovals(t, v, kind, present)
  PROVE  ClaimsMove(v)
<1>1. /\ users' = users /\ tombstones' = tombstones
      /\ retired' = ConfirmedAt(t, v, kind, present)
  BY DEF ConfirmRemovals
<1>2. \A s, u, x : Pending(s, u, x)' <=>
        Pending(s, u, x) /\ ~(s = t /\ u = v /\ x \in kind \ present)
  BY <1>1, ConfirmedPending
<1>3. ASSUME NEW x PROVE ClaimMove(v, x)
  <2>1. Wants(v, x)' <=> Wants(v, x)
    BY <1>1 DEF Wants
  <2>2. \A s : s # t => (s \in Owes(v, x)' <=> s \in Owes(v, x))
    BY <1>1, <1>2, OwesMember
  <2>3. t \in Owes(v, x)' => t \in Owes(v, x)
    BY <1>1, <1>2, OwesMember
  <2>4. Owes(v, x)' = Owes(v, x) \/ (t \in Owes(v, x) /\ Owes(v, x)' = Owes(v, x) \ {t})
    BY <2>2, <2>3
  <2> QED
    BY <2>1, <2>4 DEF ClaimMove, SameClaims
<1> QED
  BY <1>1, <1>2, <1>3, OthersKeep DEF ClaimsMove

LEMMA ConfirmAbsentMoves ==
  ASSUME RepositoryTypeOK, Unfinished, NEW t \in Station, NEW v \in User,
         NEW revision, ConfirmAbsent(t, v, revision)
  PROVE  ClaimsMove(v)
<1> DEFINE confirmed == tombstones[v].confirmed \cup {t}
           finished == tombstones[v].targets \subseteq confirmed
<1>0. /\ users[v] \in UserRecord /\ tombstones[v] \in Tombstone
      /\ \A r \in retired : r.secret \in Card \cup Pin
  BY DEF RepositoryTypeOK, Retirement
<1>1. \A s, u, x : Pending(s, u, x)' <=> Pending(s, u, x) /\ ~(s = t /\ u = v)
  <2>1. retired' = ConfirmedAt(t, v, Card \cup Pin, {})
    BY DEF ConfirmAbsent
  <2>2. \A s, u, x : Pending(s, u, x) => x \in Card \cup Pin
    BY <1>0 DEF Pending
  <2> QED
    BY <2>1, <2>2, ConfirmedPending
<1>2. /\ \A w \in User \ {v} : users'[w] = users[w]
      /\ \A w \in User \ {v} : tombstones'[w] = tombstones[w]
  BY DEF ConfirmAbsent, RepositoryTypeOK
<1>3. ASSUME users[v].status # "tombstone" PROVE users' = users /\ tombstones' = tombstones
  BY <1>3 DEF ConfirmAbsent
<1>4. ASSUME users[v].status = "tombstone", finished
      PROVE  users'[v].status = "gone" /\ Unconfirmed(tombstones[v]) = {t}
  <2>1. users' = [users EXCEPT ![v].status = "gone"]
    BY <1>4 DEF ConfirmAbsent
  <2>2. users'[v].status = "gone"
    BY <1>0, <2>1 DEF RepositoryTypeOK, UserRecord
  <2>3. Unconfirmed(tombstones[v]) # {}
    BY <1>4 DEF Unfinished
  <2> QED
    BY <1>4, <2>2, <2>3 DEF Unconfirmed
<1>5. ASSUME users[v].status = "tombstone", ~finished
      PROVE  users' = users /\ Unconfirmed(tombstones'[v]) = Unconfirmed(tombstones[v]) \ {t}
  <2>1. /\ users' = users
        /\ tombstones' = [tombstones EXCEPT ![v] = [@ EXCEPT !.confirmed = confirmed]]
    BY <1>5 DEF ConfirmAbsent
  <2>2. /\ tombstones'[v].targets = tombstones[v].targets
        /\ tombstones'[v].confirmed = confirmed
    BY <2>1 DEF RepositoryTypeOK, Tombstone
  <2> QED
    BY <2>1, <2>2 DEF Unconfirmed
<1> HIDE DEF finished, confirmed
<1>6. ASSUME NEW x PROVE ClaimMove(v, x)
  <2>1. Wants(v, x)' <=> Wants(v, x)
    BY <1>3, <1>4, <1>5 DEF Wants
  <2>2. \A s : s \in Owes(v, x)' <=> s \in Owes(v, x) /\ s # t
    <3>1. CASE users[v].status # "tombstone"
      BY <1>1, <1>3, <3>1, OwesMember
    <3>2. CASE users[v].status = "tombstone" /\ finished
      BY <1>1, <1>4, <3>2, OwesMember
    <3>3. CASE users[v].status = "tombstone" /\ ~finished
      BY <1>1, <1>5, <3>3, OwesMember
    <3> QED
      BY <3>1, <3>2, <3>3
  <2>3. Owes(v, x)' = Owes(v, x) \/ (t \in Owes(v, x) /\ Owes(v, x)' = Owes(v, x) \ {t})
    BY <2>2
  <2> QED
    BY <2>1, <2>3 DEF ClaimMove, SameClaims
<1> QED
  BY <1>1, <1>2, <1>6, OthersKeep DEF ClaimsMove

LEMMA UpdateMoves ==
  ASSUME RepositoryTypeOK, NEW v \in User,
         NEW pin, NEW cards, NEW assigned, NEW granted,
         Update(v, pin, cards, assigned, granted)
  PROVE  ClaimsMove(v)
<1> DEFINE new == [users[v] EXCEPT !.revision = @ + 1, !.pin = pin, !.cards = cards,
                                  !.assigned = assigned, !.granted = granted]
           withdrawn == Retirements(v, Secrets(users[v]) \ Secrets(new), Targets(v))
<1>1. /\ users[v].status = "live" /\ users' = [users EXCEPT ![v] = new]
      /\ retired' = {r \in retired \cup withdrawn :
                       ~(r.user = v /\ r.secret \in Secrets(new))}
      /\ tombstones' = tombstones
  BY DEF Update
<1>2. new.status = "live"
  BY <1>1 DEF RepositoryTypeOK, UserRecord
<1> HIDE DEF new
<1>3. users'[v] = new /\ \A w \in User \ {v} : users'[w] = users[w]
  BY <1>1 DEF RepositoryTypeOK
<1>4. \A r \in withdrawn :
        r.user = v /\ r.secret \in Secrets(users[v]) \ Secrets(users'[v])
  BY <1>3 DEF Retirements
<1> HIDE DEF withdrawn
<1>5. /\ retired' \subseteq retired \cup withdrawn
      /\ \A r \in retired \cup withdrawn :
           r \in retired' \/ (r.user = v /\ r.secret \in Secrets(users'[v]))
  BY <1>1, <1>3
<1>6. \A x \in Secrets(users'[v]) : \A s : ~Pending(s, v, x)'
  BY <1>1, <1>3 DEF Pending
<1> QED
  BY <1>1, <1>2, <1>3, <1>4, <1>5, <1>6, EditMoves

(* The record at the station may carry a card that is to be removed: its    *)
(* removal goes on.                                                         *)
LEMMA ResolveDeviceMoves ==
  ASSUME RepositoryTypeOK, NEW t \in Station, NEW v \in User,
         NEW content, ResolveDevice(t, v, content)
  PROVE  ClaimsMove(v)
<1> DEFINE new == [users[v] EXCEPT !.revision = @ + 1, !.pin = content.pin,
                                  !.cards = content.cards]
           withdrawn == Retirements(v, Secrets(users[v]) \ Secrets(new), Targets(v))
<1>0. users[v] \in UserRecord
  BY DEF RepositoryTypeOK
<1>1. /\ users[v].status = "live" /\ users' = [users EXCEPT ![v] = new]
      /\ retired' = {r \in retired \cup withdrawn :
                       ~(r.user = v /\ r.secret = content.pin)}
      /\ tombstones' = tombstones
  BY DEF ResolveDevice
<1>2. new.status = "live" /\ new.pin = content.pin
  BY <1>0, <1>1 DEF UserRecord
<1> HIDE DEF new
<1>3. users'[v] = new /\ \A w \in User \ {v} : users'[w] = users[w]
  BY <1>1 DEF RepositoryTypeOK
<1>4. \A r \in withdrawn :
        r.user = v /\ r.secret \in Secrets(users[v]) \ Secrets(users'[v])
  BY <1>3 DEF Retirements
<1> HIDE DEF withdrawn
<1>5. content.pin # NoPin => content.pin \in Secrets(users'[v])
  BY <1>2, <1>3 DEF Secrets
<1>6. \A r \in retired \cup withdrawn : r.secret # NoPin
  <2>1. NoPin \notin Secrets(users[v])
    BY <1>0, CredentialAssumption DEF Secrets, UserRecord
  <2>2. \A r \in retired : r.secret \in Card \cup Pin
    BY DEF RepositoryTypeOK, Retirement
  <2> QED
    BY <1>4, <2>1, <2>2, CredentialAssumption
<1>7. /\ retired' \subseteq retired \cup withdrawn
      /\ \A r \in retired \cup withdrawn :
           r \in retired' \/ (r.user = v /\ r.secret \in Secrets(users'[v]))
  BY <1>1, <1>5, <1>6
<1>8. ASSUME NEW x \in Secrets(users'[v])
      PROVE  \/ \A s : ~Pending(s, v, x)'
             \/ \A s : Pending(s, v, x)' <=> Pending(s, v, x)
  <2>1. CASE x = content.pin
    BY <1>1, <2>1 DEF Pending
  <2>2. CASE x # content.pin
    <3>1. \A r : r.user = v /\ r.secret = x => (r \in retired' <=> r \in retired)
      BY <1>1, <1>4, <2>2
    <3> QED
      BY <3>1 DEF Pending
  <2> QED
    BY <2>1, <2>2
<1> QED
  BY <1>1, <1>2, <1>3, <1>4, <1>7, <1>8, EditMoves
-----------------------------------------------------------------------------
(* Nobody's claims move.                                                    *)
Settles == \A u \in User : \A x : SameClaims(u, x)

LEMMA NobodyMoves ==
  ASSUME UNCHANGED <<users, tombstones, retired>>
  PROVE  Settles
BY NoClaimMoves DEF Settles

LEMMA AdministratorMoves ==
  ASSUME RepositoryTypeOK, Accounting, NEW v \in User, Administrator(v)
  PROVE  Settles \/ ClaimsMove(v)
<1>0. users[v] \in UserRecord
  BY DEF RepositoryTypeOK
<1>1. CASE CreateUser(v)
  <2>1. PICK pin, cards, assigned, granted : Create(v, pin, cards, assigned, granted)
    BY <1>1 DEF CreateUser
  <2>2. /\ users[v].status = "unborn" /\ users'[v].status = "live"
        /\ \A w \in User \ {v} : users'[w] = users[w]
        /\ tombstones' = tombstones /\ retired' = retired
    BY <2>1 DEF Create, RepositoryTypeOK
  <2> QED
    BY <2>2, ArrivalMoves
<1>2. CASE UpdateUser(v)
  BY <1>2, UpdateMoves DEF UpdateUser
<1>3. CASE EditUserProfile(v)
  <2>1. /\ tombstones' = tombstones /\ retired' = retired
        /\ users' = [users EXCEPT ![v].revision = @ + 1]
    BY <1>3 DEF EditUserProfile, EditProfile
  <2>2. \A u \in User : /\ users'[u].status = users[u].status
                        /\ users'[u].pin = users[u].pin
                        /\ users'[u].cards = users[u].cards
    BY <1>0, <2>1 DEF RepositoryTypeOK, UserRecord
  <2> QED
    BY <2>1, <2>2, NoClaimMoves DEF Settles
<1>4. CASE DeleteUser(v)
  BY <1>4, DeleteMoves DEF DeleteUser
<1> QED
  BY <1>1, <1>2, <1>3, <1>4 DEF Administrator

LEMMA AdoptMoves ==
  ASSUME RepositoryTypeOK, Accounting, NEW t \in Station, NEW v \in User, Adopt(t, v)
  PROVE  Settles \/ ClaimsMove(v)
<1>0. users[v] \in UserRecord
  BY DEF RepositoryTypeOK
<1>1. ASSUME NEW status, AdoptNew(t, v, device[t][v], status)
      PROVE  ClaimsMove(v)
  <2>1. /\ users[v].status = "unborn" /\ users'[v].status = status
        /\ status \in {"live", "tombstone"}
        /\ \A w \in User \ {v} : users'[w] = users[w]
        /\ \A w \in User \ {v} : tombstones'[w] = tombstones[w]
        /\ retired' = retired
    BY <1>1 DEF AdoptNew, RepositoryTypeOK
  <2>2. status = "tombstone" => Unconfirmed(tombstones'[v]) = {t}
    BY <1>1 DEF AdoptNew, RepositoryTypeOK, Unconfirmed
  <2> QED
    BY <2>1, <2>2, ArrivalMoves
<1>2. ASSUME NEW granted, AdoptExisting(t, v, device[t][v], granted)
      PROVE  Settles
  <2>1. /\ tombstones' = tombstones /\ retired' = retired
        /\ users' = [users EXCEPT ![v] = [users[v] EXCEPT !.revision = @ + 1,
                        !.assigned = @ \cup {t}, !.granted = granted]]
    BY <1>2 DEF AdoptExisting, RepositoryTypeOK
  <2>2. \A u \in User : /\ users'[u].status = users[u].status
                        /\ users'[u].pin = users[u].pin
                        /\ users'[u].cards = users[u].cards
    BY <1>0, <2>1 DEF RepositoryTypeOK, UserRecord
  <2> QED
    BY <2>1, <2>2, NoClaimMoves DEF Settles
<1> QED
  BY <1>1, <1>2 DEF Adopt

LEMMA ResolveMoves ==
  ASSUME RepositoryTypeOK, NEW t \in Station, NEW v \in User, Resolve(t, v)
  PROVE  Settles \/ ClaimsMove(v)
<1>0. users[v] \in UserRecord
  BY DEF RepositoryTypeOK
<1>1. CASE ResolveCentral(t, v, device[t][v])
  <2>1. /\ tombstones' = tombstones /\ retired' = retired
        /\ users' = [users EXCEPT ![v].revision = @ + 1]
    BY <1>1 DEF ResolveCentral
  <2>2. \A u \in User : /\ users'[u].status = users[u].status
                        /\ users'[u].pin = users[u].pin
                        /\ users'[u].cards = users[u].cards
    BY <1>0, <2>1 DEF RepositoryTypeOK, UserRecord
  <2> QED
    BY <2>1, <2>2, NoClaimMoves DEF Settles
<1>2. CASE ResolveDevice(t, v, device[t][v])
  BY <1>2, ResolveDeviceMoves
<1>3. CASE ResolveDeletion(t, v, device[t][v])
  BY <1>3, NobodyMoves DEF ResolveDeletion
<1> QED
  BY <1>1, <1>2, <1>3 DEF Resolve

LEMMA EngineMovesClaims ==
  ASSUME TypeInv, Unfinished, NEW s \in Station, Engine(s) \/ Failure(s)
  PROVE  Settles \/ \E v \in User : ClaimsMove(v)
<1>0. RepositoryTypeOK
  BY DEF TypeInv, TypeOK
<1>1. ASSUME NEW v \in User, \/ \E revision : ConfirmAbsent(s, v, revision)
                             \/ \E kind, present : ConfirmRemovals(s, v, kind, present)
      PROVE  ClaimsMove(v)
  BY <1>0, <1>1, ConfirmAbsentMoves, ConfirmRemovalsMoves
<1>2. CASE \/ Reconcile(s) \/ (\E u \in User : Start(s, u)) \/ BlockedElsewhere(s)
           \/ Journal(s) \/ Write(s) \/ Readback(s) \/ Finish(s) \/ Failure(s)
  <2>1. UNCHANGED <<users, tombstones, retired>>
    BY <1>2 DEF Reconcile, Start, BlockedElsewhere, Journal, Write, Readback, Finish,
         RecordObservation, WriteIntent, Fail, Failure, WriteIgnored,
         ConnectionFailed, Refused, Cancelled, StationFailed, repository
  <2> QED
    BY <2>1, NobodyMoves
<1>3. CASE Inspect(s)
  <2>1. job[s].user \in User
    BY <1>3, JobType DEF Inspect
  <2>2. \/ ConfirmAbsent(s, job[s].user, job[s].snapshot.revision)
        \/ UNCHANGED <<users, tombstones, retired>>
    BY <1>3 DEF Inspect, Fail, RecordObservation, repository
  <2> QED
    BY <1>1, <2>1, <2>2, NobodyMoves
<1>4. CASE Removed(s) \/ ConfirmCards(s) \/ ConfirmPins(s)
  <2>1. job[s].user \in User
    BY <1>4, JobType DEF Removed, ConfirmCards, ConfirmPins
  <2> QED
    BY <1>1, <1>4, <2>1 DEF Removed, ConfirmCards, ConfirmPins
<1> QED
  BY <1>2, <1>3, <1>4 DEF Engine

LEMMA LedgerMoves ==
  ASSUME TypeInv, Accounting, Unfinished, [Next]_vars
  PROVE  Settles \/ \E v \in User : ClaimsMove(v)
<1>0. RepositoryTypeOK
  BY DEF TypeInv, TypeOK
<1>1. CASE (\E s \in Station, u \in User : External(s, u)) \/ Restart \/ UNCHANGED vars
  <2>1. UNCHANGED <<users, tombstones, retired>>
    BY <1>1 DEF External, Restart, Reload, vars, repository
  <2> QED
    BY <2>1, NobodyMoves
<1> QED
  BY <1>0, <1>1, EngineMovesClaims, AdministratorMoves, AdoptMoves, ResolveMoves DEF Next

LEMMA UnfinishedStep == TypeInv /\ Unfinished /\ [Next]_vars => Unfinished'
<1> SUFFICES ASSUME TypeInv, Unfinished, [Next]_vars PROVE Unfinished'
  OBVIOUS
<1>0. RepositoryTypeOK
  BY DEF TypeInv, TypeOK
<1>1. ASSUME tombstones' = tombstones,
             \A u \in User : \/ users'[u].status = users[u].status
                             \/ users'[u].status # "tombstone"
      PROVE  Unfinished'
  BY <1>1 DEF Unfinished
<1>2. ASSUME NEW v \in User, users'[v].status = "tombstone" => Unconfirmed(tombstones'[v]) # {},
             \A w \in User \ {v} : users'[w] = users[w],
             \A w \in User \ {v} : tombstones'[w] = tombstones[w]
      PROVE  Unfinished'
  <2> SUFFICES ASSUME NEW u \in User, users'[u].status = "tombstone"
               PROVE  Unconfirmed(tombstones'[u]) # {}
    BY DEF Unfinished
  <2>1. CASE u = v
    BY <1>2, <2>1
  <2>2. CASE u # v
    <3>1. users'[u] = users[u] /\ tombstones'[u] = tombstones[u]
      BY <1>2, <2>2
    <3> QED
      BY <3>1 DEF Unfinished
  <2> QED
    BY <2>1, <2>2
<1>3. ASSUME UNCHANGED <<users, tombstones>> PROVE Unfinished'
  BY <1>1, <1>3
<1>4. ASSUME NEW v \in User, Administrator(v) PROVE Unfinished'
  <2>1. CASE CreateUser(v) \/ UpdateUser(v) \/ EditUserProfile(v)
    <3>1. tombstones' = tombstones
      BY <2>1 DEF CreateUser, Create, UpdateUser, Update, EditUserProfile, EditProfile
    <3>2. PICK new : users' = [users EXCEPT ![v] = new] /\ new.status = "live"
      <4>0. users[v] \in UserRecord
        BY <1>0 DEF RepositoryTypeOK
      <4>1. CASE CreateUser(v)
        <5>1. PICK pin, cards, assigned, granted : Create(v, pin, cards, assigned, granted)
          BY <4>1 DEF CreateUser
        <5> DEFINE new == [status |-> "live", revision |-> 1, pin |-> pin,
                           cards |-> cards, assigned |-> assigned, granted |-> granted]
        <5>2. users' = [users EXCEPT ![v] = new] /\ new.status = "live"
          BY <5>1 DEF Create
        <5> QED
          BY <5>2
      <4>2. CASE UpdateUser(v)
        <5>1. PICK pin, cards, assigned, granted : Update(v, pin, cards, assigned, granted)
          BY <4>2 DEF UpdateUser
        <5> DEFINE new == [users[v] EXCEPT !.revision = @ + 1, !.pin = pin,
                             !.cards = cards, !.assigned = assigned, !.granted = granted]
        <5>2. users' = [users EXCEPT ![v] = new] /\ users[v].status = "live"
          BY <5>1 DEF Update
        <5>3. new.status = users[v].status
          BY <4>0 DEF UserRecord
        <5> QED
          BY <5>2, <5>3
      <4>3. CASE EditUserProfile(v)
        <5> DEFINE new == [users[v] EXCEPT !.revision = @ + 1]
        <5>1. users' = [users EXCEPT ![v] = new] /\ users[v].status = "live"
          BY <1>0, <4>3 DEF EditUserProfile, EditProfile, RepositoryTypeOK
        <5>2. new.status = users[v].status
          BY <4>0 DEF UserRecord
        <5> QED
          BY <5>1, <5>2
      <4> QED
        BY <2>1, <4>1, <4>2, <4>3
    <3>3. users'[v].status = "live" /\ \A w \in User \ {v} : users'[w] = users[w]
      BY <1>0, <3>2 DEF RepositoryTypeOK
    <3> QED
      BY <1>2, <3>1, <3>3
  <2>2. CASE DeleteUser(v)
    <3> DEFINE withdrawn == UNION {r.targets : r \in {q \in retired : q.user = v}}
               targets == Targets(v) \cup withdrawn
    <3>1. CASE targets = {}
      <4>1. tombstones' = tombstones /\ users' = [users EXCEPT ![v].status = "gone"]
        BY <2>2, <3>1 DEF DeleteUser, Delete
      <4>2. users'[v].status = "gone" /\ \A w \in User \ {v} : users'[w] = users[w]
        BY <1>0, <4>1 DEF RepositoryTypeOK, UserRecord
      <4> QED
        BY <1>2, <4>1, <4>2
    <3>2. CASE targets # {}
      <4>1. /\ users' = [users EXCEPT ![v].status = "tombstone"]
            /\ tombstones' = [tombstones EXCEPT ![v] =
                 [targets |-> targets, confirmed |-> {}]]
        BY <2>2, <3>2 DEF DeleteUser, Delete
      <4> HIDE DEF targets
      <4>2. /\ \A w \in User \ {v} : users'[w] = users[w]
            /\ \A w \in User \ {v} : tombstones'[w] = tombstones[w]
            /\ Unconfirmed(tombstones'[v]) = targets
        BY <1>0, <4>1 DEF RepositoryTypeOK, Unconfirmed
      <4> QED
        BY <1>2, <3>2, <4>2
    <3> QED
      BY <3>1, <3>2
  <2> QED
    BY <1>4, <2>1, <2>2 DEF Administrator
<1>5. ASSUME NEW t \in Station, NEW v \in User, Adopt(t, v) PROVE Unfinished'
  <2>1. ASSUME NEW status, AdoptNew(t, v, device[t][v], status) PROVE Unfinished'
    <3>1. /\ users'[v].status = status /\ status \in {"live", "tombstone"}
          /\ \A w \in User \ {v} : users'[w] = users[w]
          /\ \A w \in User \ {v} : tombstones'[w] = tombstones[w]
      BY <1>0, <2>1 DEF AdoptNew, RepositoryTypeOK
    <3>2. status = "tombstone" => Unconfirmed(tombstones'[v]) = {t}
      BY <1>0, <2>1 DEF AdoptNew, RepositoryTypeOK, Unconfirmed
    <3> QED
      BY <1>2, <3>1, <3>2
  <2>2. ASSUME NEW granted, AdoptExisting(t, v, device[t][v], granted) PROVE Unfinished'
    <3>1. /\ tombstones' = tombstones
          /\ users' = [users EXCEPT ![v] = [users[v] EXCEPT !.revision = @ + 1,
                          !.assigned = @ \cup {t}, !.granted = granted]]
      BY <1>0, <2>2 DEF AdoptExisting, RepositoryTypeOK
    <3>2. \A u \in User : users'[u].status = users[u].status
      BY <1>0, <3>1 DEF RepositoryTypeOK, UserRecord
    <3> QED
      BY <1>1, <3>1, <3>2
  <2> QED
    BY <1>5, <2>1, <2>2 DEF Adopt
<1>6. ASSUME NEW t \in Station, NEW v \in User, Resolve(t, v) PROVE Unfinished'
  <2>1. CASE ResolveCentral(t, v, device[t][v]) \/ ResolveDevice(t, v, device[t][v])
    <3>1. tombstones' = tombstones
      BY <2>1 DEF ResolveCentral, ResolveDevice
    <3>2. PICK new : users' = [users EXCEPT ![v] = new] /\ new.status = users[v].status
      <4>0. users[v] \in UserRecord
        BY <1>0 DEF RepositoryTypeOK
      <4>1. CASE ResolveCentral(t, v, device[t][v])
        <5> DEFINE new == [users[v] EXCEPT !.revision = @ + 1]
        <5>1. users' = [users EXCEPT ![v] = new]
          BY <1>0, <4>1 DEF ResolveCentral, RepositoryTypeOK
        <5>2. new.status = users[v].status
          BY <4>0 DEF UserRecord
        <5> QED
          BY <5>1, <5>2
      <4>2. CASE ResolveDevice(t, v, device[t][v])
        <5> DEFINE new == [users[v] EXCEPT !.revision = @ + 1,
                             !.pin = device[t][v].pin, !.cards = device[t][v].cards]
        <5>1. users' = [users EXCEPT ![v] = new]
          BY <4>2 DEF ResolveDevice
        <5>2. new.status = users[v].status
          BY <4>0 DEF UserRecord
        <5> QED
          BY <5>1, <5>2
      <4> QED
        BY <2>1, <4>1, <4>2
    <3>3. \A u \in User : users'[u].status = users[u].status
      BY <1>0, <3>2 DEF RepositoryTypeOK
    <3> QED
      BY <1>1, <3>1, <3>3
  <2>2. CASE ResolveDeletion(t, v, device[t][v])
    BY <1>3, <2>2 DEF ResolveDeletion
  <2> QED
    BY <1>6, <2>1, <2>2 DEF Resolve
<1>7. ASSUME NEW s \in Station, NEW v \in User, NEW revision,
             ConfirmAbsent(s, v, revision)
      PROVE  Unfinished'
  <2> DEFINE confirmed == tombstones[v].confirmed \cup {s}
             finished == tombstones[v].targets \subseteq confirmed
  <2>1. CASE users[v].status = "tombstone" /\ finished
    <3>1. /\ users' = [users EXCEPT ![v].status = "gone"]
          /\ tombstones' = [tombstones EXCEPT ![v] = NoTombstone]
      BY <1>7, <2>1 DEF ConfirmAbsent
    <3>2. /\ users'[v].status = "gone"
          /\ \A w \in User \ {v} : users'[w] = users[w]
          /\ \A w \in User \ {v} : tombstones'[w] = tombstones[w]
      BY <1>0, <3>1 DEF RepositoryTypeOK, UserRecord
    <3> QED
      BY <1>2, <3>2
  <2>2. CASE users[v].status = "tombstone" /\ ~finished
    <3>1. /\ users' = users
          /\ tombstones' = [tombstones EXCEPT ![v] = [@ EXCEPT !.confirmed = confirmed]]
      BY <1>7, <2>2 DEF ConfirmAbsent
    <3>2. /\ tombstones'[v].targets = tombstones[v].targets
          /\ tombstones'[v].confirmed = confirmed
          /\ \A w \in User \ {v} : tombstones'[w] = tombstones[w]
      BY <1>0, <3>1 DEF RepositoryTypeOK, Tombstone
    <3>3. Unconfirmed(tombstones'[v]) # {}
      BY <2>2, <3>2 DEF Unconfirmed
    <3> QED
      BY <1>2, <3>1, <3>2, <3>3
  <2>3. CASE users[v].status # "tombstone"
    BY <1>3, <1>7, <2>3 DEF ConfirmAbsent
  <2> QED
    BY <2>1, <2>2, <2>3
<1>8. ASSUME NEW s \in Station, Engine(s) \/ Failure(s) PROVE Unfinished'
  <2>1. CASE Inspect(s)
    <3>1. job[s].user \in User
      BY <2>1, JobType DEF Inspect
    <3> QED
      BY <1>3, <1>7, <2>1, <3>1 DEF Inspect, Fail, RecordObservation, repository
  <2>2. CASE Removed(s)
    BY <1>7, <2>2, JobType DEF Removed
  <2> QED
    BY <1>3, <1>8, <2>1, <2>2 DEF Engine, Reconcile, Start, BlockedElsewhere, Journal,
         Write, Readback, Finish, ConfirmCards, ConfirmPins, ConfirmRemovals,
         RecordObservation, WriteIntent, Fail, Failure, WriteIgnored,
         ConnectionFailed, Refused, Cancelled, StationFailed, repository
<1>9. CASE (\E s \in Station, u \in User : External(s, u)) \/ Restart \/ UNCHANGED vars
  BY <1>3, <1>9 DEF External, Restart, Reload, vars, repository
<1> QED
  BY <1>4, <1>5, <1>6, <1>8, <1>9 DEF Next

LEMMA FaithfulInvariant == Spec => [](Accounting /\ Unfinished /\ Faithful)
<1>1. Init => Unfinished
  BY DEF Init, RepositoryInit, Unfinished
<1>2. TypeInv /\ Unfinished /\ [Next]_vars => Unfinished'
  BY UnfinishedStep
<1>3. Accounting /\ Unfinished => Faithful
  BY FaithfulHere
<1> QED
  BY <1>1, <1>2, <1>3, TypeInvariant, AccountingInvariant, PTL DEF Spec
-----------------------------------------------------------------------------
(* The abstract state.                                                      *)
Wanted(x) == \E u \in User : Wants(u, x)

Owed(x) == UNION {Owes(u, x) : u \in User}

Holders(x) == {h \in ManagedRecords : x \in Secrets(device[h[1]][h[2]])}

(* Where only one person can have a claim to a credential, it is the owner. *)
Idle(u, x) == ~Wants(u, x) /\ Owes(u, x) = {}

Sole ==
  \A v \in User : \A x : (\A u \in User \ {v} : Idle(u, x)) =>
    /\ Owner(x) = IF Idle(v, x) THEN None ELSE v
    /\ Wanted(x) <=> Wants(v, x)
    /\ Owed(x) = Owes(v, x)

(* There never is more than one.                                            *)
Rivals ==
  \A u \in User, v \in User : \A x : u # v => Idle(u, x) \/ Idle(v, x)

(* What a station holds is wanted by, or still owed for, the holder.        *)
Backed ==
  external = 0 =>
    \A s \in Station, u \in User : Managed(s, u) =>
      \A x \in Secrets(device[s][u]) : Wants(u, x) \/ s \in Owes(u, x)

LEMMA IsSole == Faithful => Sole
<1> SUFFICES ASSUME Faithful, NEW v \in User, NEW x,
                    \A u \in User \ {v} : Idle(u, x)
             PROVE  /\ Owner(x) = IF Idle(v, x) THEN None ELSE v
                    /\ Wanted(x) <=> Wants(v, x)
                    /\ Owed(x) = Owes(v, x)
  BY DEF Sole
<1>1. \A u \in User : u \in Claimants(x) <=> ~Idle(u, x)
  BY DEF Faithful, Claimants, Idle
<1>2. Claimants(x) = IF Idle(v, x) THEN {} ELSE {v}
  BY <1>1 DEF Claimants
<1>3. Owner(x) = IF Idle(v, x) THEN None ELSE v
  BY <1>2 DEF Owner
<1>4. Wanted(x) <=> Wants(v, x)
  BY DEF Wanted, Idle
<1>5. Owed(x) = Owes(v, x)
  BY DEF Owed, Idle
<1> QED
  BY <1>3, <1>4, <1>5

LEMMA NoRivals == Faithful /\ Collisions => Rivals
<1> SUFFICES ASSUME Faithful, Collisions, NEW u \in User, NEW v \in User, NEW x,
                    u # v, ~Idle(u, x), ~Idle(v, x)
             PROVE  FALSE
  BY DEF Rivals
<1>1. x \in Reserved(users, retired, u) /\ x \in Reserved(users, retired, v)
  BY DEF Faithful, Idle
<1> QED
  BY <1>1 DEF Collisions, CollisionFree

LEMMA AccountedBacked ==
  ASSUME NEW s, NEW u, NEW x, Accounted(s, u, x)
  PROVE  Wants(u, x) \/ s \in Owes(u, x)
BY OwesMember DEF Accounted, Wants, Pending

LEMMA IsBacked == Custody => Backed
BY AccountedBacked DEF Custody, Held, Backed
-----------------------------------------------------------------------------
(* The abstract steps in terms of the people's claims.                      *)
LEMMA AgreedStay ==
  ASSUME NEW x \in Credential, Owner(x)' = Owner(x), Wanted(x)' <=> Wanted(x),
         Owed(x)' = Owed(x), Holders(x)' = Holders(x)
  PROVE  Agreement!Stay(x)
BY DEF Agreement!Stay, Agreement!SameClaim, Agreement!SameHolders, Wanted, Owed, Holders

LEMMA SettledAgrees ==
  ASSUME Faithful, Faithful', NEW x \in Credential, \A u \in User : SameClaims(u, x)
  PROVE  /\ Owner(x)' = Owner(x)
         /\ Wanted(x)' <=> Wanted(x)
         /\ Owed(x)' = Owed(x)
<1>1. \A u \in User : /\ u \in Claimants(x) <=> ~Idle(u, x)
                      /\ u \in Claimants(x)' <=> ~Idle(u, x)'
  BY DEF Faithful, Claimants, Idle
<1>2. Claimants(x)' = Claimants(x)
  BY <1>1 DEF Claimants, Idle, SameClaims
<1>3. Owner(x)' = Owner(x)
  BY <1>2 DEF Owner
<1>4. (Wanted(x)' <=> Wanted(x)) /\ Owed(x)' = Owed(x)
  BY DEF Wanted, Owed, SameClaims
<1> QED
  BY <1>3, <1>4

LEMMA HolderMember ==
  ASSUME NEW s \in Station, NEW u \in User, NEW x
  PROVE  <<s, u>> \in Holders(x) <=> Managed(s, u) /\ x \in Secrets(device[s][u])
BY DEF Holders, ManagedRecords

LEMMA ClaimAgrees ==
  ASSUME TypeInv, Sole, Sole', Rivals, Rivals', Backed',
         device' = device, external' = external,
         NEW v \in User, NEW x \in Credential, ClaimMove(v, x), ~SameClaims(v, x),
         \A u \in User \ {v} : SameClaims(u, x)
  PROVE  \/ Agreement!Give(x) \/ Agreement!Condemn(x)
         \/ Agreement!Withdraw(x) \/ Agreement!Confirm(x)
<1>1. ~Idle(v, x) \/ ~Idle(v, x)'
  BY DEF Idle, SameClaims
<1>2. \A u \in User \ {v} : Idle(u, x) /\ Idle(u, x)'
  BY <1>1 DEF Rivals, Idle, SameClaims
<1>3. /\ Owner(x) = IF Idle(v, x) THEN None ELSE v
      /\ Wanted(x) <=> Wants(v, x)
      /\ Owed(x) = Owes(v, x)
  BY <1>2 DEF Sole
<1>4. /\ Owner(x)' = IF Idle(v, x)' THEN None ELSE v
      /\ Wanted(x)' <=> Wants(v, x)'
      /\ Owed(x)' = Owes(v, x)'
  BY <1>2 DEF Sole
<1>5. Holders(x)' = Holders(x)
  BY DEF Holders
<1>6. ASSUME external = 0, NEW s \in Station, NEW u \in User, <<s, u>> \in Holders(x)
      PROVE  Wants(v, x)' \/ s \in Owes(v, x)'
  <2>1. Wants(u, x)' \/ s \in Owes(u, x)'
    BY <1>6, HolderMember DEF Backed, Managed
  <2>2. ~Idle(u, x)'
    BY <2>1 DEF Idle
  <2>3. u = v
    BY <1>2, <2>2
  <2> QED
    BY <2>1, <2>3
<1>7. external = 0 \/ external > 0
  BY DEF TypeInv, TypeOK, SyncTypeOK
<1>8. CASE Wants(v, x)' /\ Owes(v, x)' \in {{}, Owes(v, x)}
  <2>1. /\ Owner(x) \in {None, v} /\ Owner(x)' = v
        /\ Wanted(x)' /\ Owed(x)' \in {{}, Owed(x)}
    BY <1>3, <1>4, <1>8 DEF Idle
  <2>2. Agreement!Give(x)
    BY <1>5, <2>1 DEF Agreement!Give, Agreement!SameHolders, Wanted, Owed, Holders
  <2> QED
    BY <2>2
<1>9. CASE Wants(v, x) /\ ~Wants(v, x)' /\ Owes(v, x) \subseteq Owes(v, x)'
  <2>1. /\ Wanted(x) /\ ~Wanted(x)' /\ Owed(x) \subseteq Owed(x)'
        /\ Owner(x)' = IF Wanted(x)' \/ Owed(x)' # {} THEN Owner(x) ELSE None
    BY <1>3, <1>4, <1>9 DEF Idle
  <2>2. \/ external > 0
        \/ \A s \in Station : (\E u \in User : <<s, u>> \in Holders(x)) => s \in Owed(x)'
    BY <1>4, <1>6, <1>7, <1>9
  <2>3. Agreement!Withdraw(x)
    BY <1>5, <2>1, <2>2 DEF Agreement!Withdraw, Agreement!SameHolders, Agreement!Holds,
         Agreement!Reassessed, Wanted, Owed, Holders
  <2> QED
    BY <2>3
<1>10. CASE /\ Wants(v, x)' <=> Wants(v, x)
            /\ \E s \in Owes(v, x) : Owes(v, x)' = Owes(v, x) \ {s}
  <2>1. PICK s \in Owes(v, x) : Owes(v, x)' = Owes(v, x) \ {s}
    BY <1>10
  <2>2. /\ s \in Owed(x) /\ Owed(x)' = Owed(x) \ {s}
        /\ Wanted(x)' <=> Wanted(x)
        /\ Owner(x)' = IF Wanted(x)' \/ Owed(x)' # {} THEN Owner(x) ELSE None
    BY <1>3, <1>4, <1>10, <2>1 DEF Idle
  <2>3. s \in Station
    BY <2>1 DEF Owes, Unconfirmed, TypeInv, TypeOK, RepositoryTypeOK, Tombstone, Retirement
  <2>4. external > 0 \/ Wanted(x) \/ ~ \E u \in User : <<s, u>> \in Holders(x)
    BY <1>4, <1>6, <1>7, <2>2, <2>3
  <2>5. Agreement!Confirm(x)
    BY <1>5, <2>2, <2>4 DEF Agreement!Confirm, Agreement!SameHolders, Agreement!Holds,
         Agreement!Reassessed, Wanted, Owed, Holders
  <2> QED
    BY <2>5
<1>11. CASE ~Wants(v, x) /\ Owes(v, x) = {} /\ ~Wants(v, x)' /\ Owes(v, x)' # {}
  <2>1. Owner(x) = None /\ Owner(x)' = v /\ ~Wanted(x)' /\ Owed(x)' # {}
    BY <1>3, <1>4, <1>11 DEF Idle
  <2>2. Agreement!Condemn(x)
    BY <1>5, <2>1 DEF Agreement!Condemn, Agreement!SameHolders, Wanted, Owed, Holders
  <2> QED
    BY <2>2
<1> QED
  BY <1>8, <1>9, <1>10, <1>11 DEF ClaimMove

LEMMA MeddledHandles ==
  ASSUME Faithful, Faithful', Settles, external' > 0, NEW x \in Credential
  PROVE  Agreement!Handle(x)
<1>1. /\ Owner(x)' = Owner(x)
      /\ Wanted(x)' <=> Wanted(x)
      /\ Owed(x)' = Owed(x)
  BY SettledAgrees DEF Settles
<1> QED
  BY <1>1 DEF Agreement!Handle, Agreement!SameClaim, Wanted, Owed

LEMMA WriteAgrees ==
  ASSUME TypeInv, Tracking, Custody, Faithful, Faithful', Rivals, Sole,
         NEW s \in Station, Write(s), NEW x \in Credential
  PROVE  Agreement!Stay(x) \/ Agreement!Handle(x)
<1> DEFINE u == job[s].user
           desired == bindings[s][u].intent.desired
<1>1. /\ pc[s] = "write" /\ u \in User /\ external' = external
      /\ device'[s][u] = desired
      /\ \A t \in Station, w \in User : t # s \/ w # u => device'[t][w] = device[t][w]
  BY JobType DEF Write, TypeInv, TypeOK, SyncTypeOK
<1>2. Settles
  <2>1. UNCHANGED <<users, tombstones, retired>>
    BY DEF Write, repository
  <2> QED
    BY <2>1, NobodyMoves
<1>3. /\ Owner(x)' = Owner(x)
      /\ Wanted(x)' <=> Wanted(x)
      /\ Owed(x)' = Owed(x)
  BY <1>2, SettledAgrees DEF Settles
<1> DEFINE h == <<s, u>>
<1>4. /\ h \in ManagedRecords <=> Managed(s, u)
      /\ h[1] = s /\ h[2] = u
  BY <1>1 DEF ManagedRecords
<1>5. \A g \in ManagedRecords : g # h =>
        (x \in Secrets(device'[g[1]][g[2]]) <=> x \in Secrets(device[g[1]][g[2]]))
  <2> SUFFICES ASSUME NEW t \in Station, NEW w \in User, <<t, w>> # h
               PROVE  x \in Secrets(device'[t][w]) <=> x \in Secrets(device[t][w])
    BY DEF ManagedRecords
  <2>1. device'[t][w] = device[t][w]
    BY <1>1
  <2> QED
    BY <2>1
<1> HIDE DEF h, desired, u
<1>6. CASE ~Managed(s, u) \/ (x \in Secrets(desired) <=> x \in Secrets(device[s][u]))
  <2>1. Holders(x)' = Holders(x)
    BY <1>1, <1>4, <1>5, <1>6 DEF Holders, ManagedRecords, Managed
  <2> QED
    BY <1>3, <2>1, AgreedStay
<1>7. CASE Managed(s, u) /\ x \notin Secrets(desired) /\ x \in Secrets(device[s][u])
  <2>1. h \in Holders(x) /\ Holders(x)' = Holders(x) \ {h}
    BY <1>1, <1>4, <1>5, <1>7 DEF Holders, ManagedRecords, Managed
  <2>2. Agreement!PutOff(x)
    BY <2>1 DEF Agreement!PutOff, Holders
  <2> QED
    BY <1>3, <2>2 DEF Agreement!Handle, Agreement!SameClaim, Wanted, Owed
<1>8. CASE /\ Managed(s, u) /\ x \in Secrets(desired) /\ x \notin Secrets(device[s][u])
           /\ external = 0
  <2>1. Holders(x)' = Holders(x) \cup {h}
    BY <1>1, <1>4, <1>5, <1>8 DEF Holders, ManagedRecords, Managed
  <2>2. Accounted(s, u, x)
    BY <1>1, <1>8 DEF Custody, WritesAccounted, Tracking, u, desired
  <2>3. Wants(u, x) \/ s \in Owes(u, x)
    BY <2>2, AccountedBacked
  <2>4. \A w \in User \ {u} : Idle(w, x)
    BY <1>1, <2>3 DEF Rivals, Idle
  <2>5. Owner(x) = u /\ (Wanted(x) \/ s \in Owed(x))
    BY <1>1, <2>3, <2>4 DEF Sole, Idle
  <2>6. Agreement!TakeUp(x)
    BY <1>1, <2>1, <2>5 DEF Agreement!TakeUp, Wanted, Owed, Holders, h
  <2> QED
    BY <1>3, <2>6 DEF Agreement!Handle, Agreement!SameClaim, Wanted, Owed
<1>9. CASE external # 0
  <2>1. external' > 0
    BY <1>1, <1>9 DEF TypeInv, TypeOK, SyncTypeOK
  <2> QED
    BY <1>2, <2>1, MeddledHandles
<1> QED
  BY <1>6, <1>7, <1>8, <1>9

LEMMA AgreementInit == Init => Agreement!Init
<1> SUFFICES ASSUME Init PROVE Agreement!Init
  OBVIOUS
<1>1. \A u \in User : users[u].status = "unborn"
  BY DEF Init, RepositoryInit
<1>2. retired = {} /\ external = 0
  BY DEF Init, RepositoryInit
<1>3. \A x : Claimants(x) = {}
  BY <1>1, <1>2 DEF Claimants, Reserved, Known
<1>4. \A u \in User : \A x : Idle(u, x)
  BY <1>1, <1>2 DEF Idle, Wants, Owes
<1>5. \A x : Owner(x) = None
  BY <1>3 DEF Owner
<1>6. \A x : ~Wanted(x) /\ Owed(x) = {}
  BY <1>4 DEF Wanted, Owed, Idle
<1>7. \A x : Holders(x) = {}
  <2>1. \A s \in Station, u \in User : Managed(s, u) => device[s][u] = Absent
    BY DEF Init, Managed
  <2>2. Secrets(Absent) = {}
    BY DEF Secrets, Absent
  <2>3. \A h \in ManagedRecords : Secrets(device[h[1]][h[2]]) = {}
    BY <2>1, <2>2 DEF ManagedRecords
  <2> QED
    BY <2>3 DEF Holders
<1> QED
  BY <1>2, <1>5, <1>6, <1>7 DEF Agreement!Init, Wanted, Owed, Holders

LEMMA AgreementStep ==
  ASSUME TypeInv, Tracking, Custody, Accounting, Unfinished,
         Faithful, Faithful', Rivals, Rivals', Sole, Sole', Backed', [Next]_vars
  PROVE  Agreement!Next
<1>1. external > 0 => external' > 0
  <2>1. external' = 0 => external = 0
    BY StillUntouched
  <2>2. external \in Nat /\ external' \in Nat
    BY NextType DEF TypeInv, TypeOK, SyncTypeOK, SyncAssumption
  <2> QED
    BY <2>1, <2>2
<1>2. SUFFICES ASSUME NEW x \in Credential
               PROVE  \/ Agreement!Stay(x) \/ Agreement!Give(x)
                      \/ Agreement!Condemn(x) \/ Agreement!Withdraw(x)
                      \/ Agreement!Confirm(x) \/ Agreement!Handle(x)
  BY <1>1 DEF Agreement!Next
<1>3. ASSUME \A u \in User : SameClaims(u, x), device' = device
      PROVE  Agreement!Stay(x)
  <2>1. Holders(x)' = Holders(x)
    BY <1>3 DEF Holders
  <2> QED
    BY <1>3, <2>1, SettledAgrees, AgreedStay
<1>4. CASE device' = device /\ external' = external
  <2>1. CASE Settles
    BY <1>3, <1>4, <2>1 DEF Settles
  <2>2. ASSUME NEW v \in User, ClaimsMove(v)
        PROVE  \/ Agreement!Stay(x) \/ Agreement!Give(x)
               \/ Agreement!Condemn(x) \/ Agreement!Withdraw(x)
               \/ Agreement!Confirm(x)
    <3>1. ClaimMove(v, x) /\ \A u \in User \ {v} : SameClaims(u, x)
      BY <2>2 DEF ClaimsMove
    <3>2. CASE SameClaims(v, x)
      BY <1>3, <1>4, <3>1, <3>2
    <3>3. CASE ~SameClaims(v, x)
      BY <1>4, <3>1, <3>3, ClaimAgrees
    <3> QED
      BY <3>2, <3>3
  <2> QED
    BY <2>1, <2>2, LedgerMoves
<1>5. CASE \E s \in Station : Write(s)
  BY <1>5, WriteAgrees
<1>6. CASE external' # external
  <2>1. PICK s \in Station, u \in User : External(s, u)
    <3>1. CASE \E t \in Station : Engine(t) \/ Failure(t)
      BY <1>6, <3>1, StationLocal DEF StationOnly
    <3>2. CASE Restart \/ UNCHANGED vars
      BY <1>6, <3>2 DEF Restart, vars
    <3> QED
      BY <1>6, <3>1, <3>2, AdministratorsOutside DEF Next
  <2>2. UNCHANGED <<users, tombstones, retired>> /\ external' > 0
    BY <2>1 DEF External, repository, TypeInv, TypeOK, SyncTypeOK
  <2> QED
    BY <2>2, NobodyMoves, MeddledHandles
<1> QED
  BY <1>4, <1>5, <1>6, DeviceChanges

(* The ledger, the engines and the stations keep the custody of every       *)
(* credential as CredentialCustody states it, whatever is edited, deleted,  *)
(* adopted or resolved meanwhile and whatever fails (repository.py, the     *)
(* retirements of _update_user and _delete_user, and the confirmations;     *)
(* engine.py, the order of journal, write, readback and confirmation).      *)
THEOREM CustodyKept == Spec => CredentialsInCustody
<1>1. Init => Agreement!Init
  BY AgreementInit
<1>2. Faithful => Sole
  BY IsSole
<1>3. Faithful /\ Collisions => Rivals
  BY NoRivals
<1>4. Custody => Backed
  BY IsBacked
<1>5. /\ TypeInv /\ Tracking /\ Custody /\ Accounting /\ Unfinished
      /\ Faithful /\ Faithful' /\ Rivals /\ Rivals' /\ Sole /\ Sole' /\ Backed'
      /\ [Next]_vars
      => [Agreement!Next]_(Agreement!vars)
  BY AgreementStep
<1> QED
  BY <1>1, <1>2, <1>3, <1>4, <1>5, GroundsInvariant, CustodyInvariant, FaithfulInvariant,
     PTL DEF Spec, CredentialsInCustody, Agreement!Spec
=============================================================================
