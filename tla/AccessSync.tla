----------------------------- MODULE AccessSync -----------------------------
(***************************************************************************)
(* The reconciliation of the door stations with the ledger.  Each station  *)
(* has one engine (SyncEngine.async_reconcile, access/engine.py) that      *)
(* takes the people with work at this station one at a time, holding the   *)
(* station's transaction lock for each, and brings the device record to    *)
(* the desired content by single writes.  Around every write it journals   *)
(* an intent, sends, and reads back.  Administrators edit the ledger at    *)
(* any moment in between; adoption and conflict resolution                 *)
(* (access/manager.py) also take the transaction lock.                     *)
(*                                                                         *)
(* A step of the engine is what the code does from one await to the next,  *)
(* ending in at most one commit or one device access.  A device read and   *)
(* the commit that follows it are one step when nothing between them could *)
(* be told apart: a commit does not change the device, and the content of  *)
(* the device does not change the ledger.                                  *)
(*                                                                         *)
(* The device is external: a store of records that a write replaces, that  *)
(* may acknowledge a write it ignored, whose answer may be lost, and that  *)
(* somebody may edit on site.  A write that had not taken effect when its  *)
(* request failed never takes effect later.                                *)
(***************************************************************************)
EXTENDS AccessRepository

CONSTANTS
  Unmanaged,     \* stations and people with a device record from the start
  Newcomers,     \* people that administrators create (others: by adoption)
  Resolutions,   \* resolutions of a conflict that administrators use
  MaxExternal,   \* bound on the edits made at the stations
  MaxFaults      \* bound on failed requests, cancellations and restarts

ASSUME SyncAssumption ==
  /\ Unmanaged \subseteq Station \X User
  /\ Newcomers \subseteq User
  /\ Resolutions \subseteq {"central", "device", "deletion"}
  /\ MaxExternal \in Nat
  /\ MaxFaults \in Nat

VARIABLES
  device,      \* per station and person: the record on the device
  pc,          \* per station: the await at which its engine stands
  job,         \* per station: the person in the transaction, with snapshots
  todo,        \* per station: the people this reconciliation has still to visit
  inventory,   \* per station: the device as this reconciliation knows it
  external,    \* edits made at the stations so far
  faults       \* failures so far

engine == <<pc, job, todo, inventory>>
vars == <<repository, device, engine, external, faults>>
-----------------------------------------------------------------------------
Phases == {"idle", "read", "ready", "write", "readback", "cards", "pins"}

(* snapshot: the person when the transaction began; current: the device     *)
(* record as last read, None before the first read.                         *)
Job == [user : User, snapshot : UserRecord, current : Content \cup {None}]

ASSUME JobAssumption == None \notin Job

NoWork == [deletions |-> {}, others |-> {}]

Nothing == [u \in User |-> Absent]

SyncTypeOK ==
  /\ device \in [Station -> [User -> Content]]
  /\ pc \in [Station -> Phases]
  /\ job \in [Station -> Job \cup {None}]
  /\ todo \in [Station -> [deletions : SUBSET User, others : SUBSET User]]
  /\ inventory \in [Station -> [User -> Content]]
  /\ external \in 0..MaxExternal
  /\ faults \in 0..MaxFaults

TypeOK == RepositoryTypeOK /\ SyncTypeOK

Init ==
  /\ RepositoryInit
  /\ device \in [Station -> [User -> Content]]
  /\ \A s \in Station, u \in User :
       device[s][u] # Absent => <<s, u>> \in Unmanaged /\ device[s][u].here
  /\ \A s \in Station : \A u, v \in User :
       u # v => Secrets(device[s][u]) \cap Secrets(device[s][v]) = {}
  /\ pc = [s \in Station |-> "idle"]
  /\ job = [s \in Station |-> None]
  /\ todo = [s \in Station |-> NoWork]
  /\ inventory = [s \in Station |-> Nothing]
  /\ external = 0
  /\ faults = 0
-----------------------------------------------------------------------------
(* Mutant of Others: withdrawn credentials are no reason for a visit. *)
OthersBoundOrAssigned(s) ==
  {u \in User : \/ users[u].status = "live" /\ s \in users[u].assigned
                \/ bindings[s][u] # None}

(* SyncEngine.jobs: deletions first, then everybody else with work here. *)
Deletions(s) ==
  {u \in User : users[u].status = "tombstone" /\ s \in Unconfirmed(tombstones[u])}

Others(s) ==
  {u \in User : \/ users[u].status = "live" /\ s \in users[u].assigned
                \/ bindings[s][u] # None
                \/ \E r \in retired : r.user = u /\ s \in Unconfirmed(r)}
    \ Deletions(s)

(* Mutant of NextContents: removal stops at the cards. *)
NextContentsKeepingPerson(want, current) ==
  LET less == {[current EXCEPT !.cards = @ \ {c}] :
                 c \in current.cards \ want.cards}
      more == {[current EXCEPT !.cards = @ \cup {c}] :
                 c \in want.cards \ current.cards}
      person == [current EXCEPT !.here = TRUE, !.pin = want.pin]
  IN IF ~want.here THEN less
     ELSE IF person # current THEN {person}
     ELSE IF less # {} THEN less ELSE more

(* The contents one write may produce on the way from the current record to *)
(* the wanted one: on removal cards first, then the person; otherwise the   *)
(* person first, then obsolete cards off, then new cards on.                *)
NextContents(want, current) ==
  LET less == {[current EXCEPT !.cards = @ \ {c}] :
                 c \in current.cards \ want.cards}
      more == {[current EXCEPT !.cards = @ \cup {c}] :
                 c \in want.cards \ current.cards}
      person == [current EXCEPT !.here = TRUE, !.pin = want.pin]
  IN IF ~want.here
       THEN IF less # {} THEN less ELSE IF current.here THEN {Absent} ELSE {}
     ELSE IF person # current THEN {person}
     ELSE IF less # {} THEN less ELSE more

Operation(want, current) ==
  IF ~want.here THEN "delete" ELSE IF current.here THEN "update" ELSE "create"

(* Mutant of Release: merges a person that was never read. *)
ReleaseUnread(s, seen) ==
  /\ pc' = [pc EXCEPT ![s] = "idle"]
  /\ job' = [job EXCEPT ![s] = None]
  /\ inventory' = [inventory EXCEPT ![s][job[s].user] = seen]
  /\ UNCHANGED todo

(* Leave the transaction.  What was seen of this person updates the         *)
(* inventory, which lives as long as the reconciliation.                    *)
Release(s, seen) ==
  /\ pc' = [pc EXCEPT ![s] = "idle"]
  /\ job' = [job EXCEPT ![s] = None]
  /\ inventory' = [inventory EXCEPT ![s] =
       IF todo[s] = NoWork THEN Nothing
       ELSE IF seen = None THEN @
       ELSE [@ EXCEPT ![job[s].user] = seen]]
  /\ UNCHANGED todo

(* The error path of async_reconcile: mark the person and go on. *)
Fail(s, status, seen) ==
  /\ progress' = Marked(job[s].user, s, status)
  /\ Release(s, seen)
  /\ UNCHANGED <<users, bindings, tombstones, retired>>

Fault ==
  /\ faults < MaxFaults
  /\ faults' = faults + 1
-----------------------------------------------------------------------------
(* async_reconcile: read the inventory and list the people with work. *)
Reconcile(s) ==
  /\ pc[s] = "idle"
  /\ todo[s] = NoWork
  /\ Deletions(s) \cup Others(s) # {}
  /\ todo' = [todo EXCEPT ![s] =
       [deletions |-> Deletions(s), others |-> Others(s)]]
  /\ inventory' = [inventory EXCEPT ![s] = device[s]]
  /\ UNCHANGED <<repository, device, pc, job, external, faults>>

(* Enter the transaction for the next listed person: mark the assignment    *)
(* unless it is in sync, take the snapshots.  Deleted people have priority; *)
(* one whose deletion finished meanwhile is skipped.                        *)
Start(s, u) ==
  LET first == todo[s].deletions
      insync == /\ users[u].status = "live"
                /\ progress[u][s].sync = "synced"
                /\ progress[u][s].applied = users[u].revision
  IN /\ pc[s] = "idle"
     /\ u \in (IF first # {} THEN first ELSE todo[s].others)
     /\ todo' = [todo EXCEPT ![s] = [deletions |-> @.deletions \ {u},
                                     others |-> @.others \ {u}]]
     /\ IF Known(users[u])
          THEN /\ pc' = [pc EXCEPT ![s] = "read"]
               /\ job' = [job EXCEPT ![s] =
                    [user |-> u, snapshot |-> users[u], current |-> None]]
               /\ progress' = IF insync THEN progress ELSE Marked(u, s, "syncing")
          ELSE UNCHANGED <<pc, job, progress>>
     /\ inventory' = IF Known(users[u]) \/ todo'[s] # NoWork THEN inventory
                     ELSE [inventory EXCEPT ![s] = Nothing]
     /\ UNCHANGED <<users, bindings, tombstones, retired, device, external, faults>>

(* Mutant of Explained: a change nobody announced is taken over. *)
ExplainedByDefault(binding, content) ==
  \/ binding.intent = None
  \/ content \in {binding.intent.before, binding.intent.desired}

(* Mutant of Explained: a write whose answer was lost is not recognised. *)
ExplainedByBeforeImage(binding, content) ==
  binding.intent # None /\ content = binding.intent.before

(* The content is one that the open intent of this binding announced: what  *)
(* was there before the write, or what the write was to produce.            *)
Explained(binding, content) ==
  /\ binding.intent # None
  /\ content \in {binding.intent.before, binding.intent.desired}

(* _person up to its first write: compare the device record with what the   *)
(* binding remembers of it.                                                 *)
Inspect(s) ==
  LET u == job[s].user
      current == device[s][u]
      want == Desired(job[s].snapshot, s)
      binding == bindings[s][u]
      read == [job EXCEPT ![s].current = current]
  IN /\ pc[s] = "read"
     /\ UNCHANGED <<device, external, faults>>
     /\ \/ \* unmanaged_employee
           /\ binding = None /\ current.here
           /\ Fail(s, "conflict", current)
        \/ \* nothing here and nothing wanted
           /\ ~current.here /\ ~want.here
           /\ ConfirmAbsent(s, u, job[s].snapshot.revision)
           /\ Release(s, current)
        \/ \* nothing here yet
           /\ binding = None /\ ~current.here /\ want.here
           /\ pc' = [pc EXCEPT ![s] = "ready"]
           /\ job' = read
           /\ UNCHANGED <<repository, todo, inventory>>
        \/ \* the record is as the last readback left it
           /\ binding # None /\ (current.here \/ want.here)
           /\ current = binding.fingerprint /\ binding.intent = None
           /\ pc' = [pc EXCEPT ![s] = "ready"]
           /\ job' = read
           /\ UNCHANGED <<repository, todo, inventory>>
        \/ \* an interrupted write: the readback proves what became of it
           /\ binding # None /\ (current.here \/ want.here)
           /\ \/ current # binding.fingerprint /\ Explained(binding, current)
              \/ current = binding.fingerprint /\ binding.intent # None
           /\ RecordObservation(s, u, current, 0)
           /\ pc' = [pc EXCEPT ![s] = "ready"]
           /\ job' = read
           /\ UNCHANGED <<todo, inventory>>
        \/ \* device_changed, or ambiguous_write when an intent is open
           /\ binding # None /\ (current.here \/ want.here)
           /\ current # binding.fingerprint /\ ~Explained(binding, current)
           /\ Fail(s, "conflict", current)

(* Mutant of OwnedElsewhere: only managed records are compared. *)
OwnedByManaged(s) ==
  LET want == Desired(job[s].snapshot, s)
  IN \E v \in User \ {job[s].user} :
       bindings[s][v] # None /\ Secrets(inventory[s][v]) \cap Secrets(want) # {}

(* card_owned_elsewhere and pin_owned_elsewhere: the inventory shows a      *)
(* wanted credential under another employee number.                         *)
OwnedElsewhere(s) ==
  LET want == Desired(job[s].snapshot, s)
  IN \E v \in User \ {job[s].user} :
       Secrets(inventory[s][v]) \cap Secrets(want) # {}

BlockedElsewhere(s) ==
  /\ pc[s] = "ready"
  /\ OwnedElsewhere(s)
  /\ Fail(s, "conflict", job[s].current)
  /\ UNCHANGED <<device, external, faults>>

(* _step: journal the next write.  When the ledger refuses the intent the   *)
(* person was edited meanwhile (revision_conflict) and is visited again.    *)
Journal(s) ==
  LET u == job[s].user
      revision == job[s].snapshot.revision
      want == Desired(job[s].snapshot, s)
      current == job[s].current
      operation == Operation(want, current)
  IN /\ pc[s] = "ready"
     /\ ~OwnedElsewhere(s)
     /\ UNCHANGED <<device, external, faults>>
     /\ \E next \in NextContents(want, current) :
          IF IntentAllowed(s, u, revision, operation)
            THEN /\ WriteIntent(s, u, revision, operation, current, next)
                 /\ pc' = [pc EXCEPT ![s] = "write"]
                 /\ UNCHANGED <<job, todo, inventory>>
            ELSE Fail(s, "pending", job[s].current)

(* The request reaches the device, which applies it. *)
Write(s) ==
  LET u == job[s].user
  IN /\ pc[s] = "write"
     /\ device' = [device EXCEPT ![s][u] = bindings[s][u].intent.desired]
     /\ pc' = [pc EXCEPT ![s] = "readback"]
     /\ UNCHANGED <<repository, job, todo, inventory, external, faults>>

(* The device acknowledges the request without applying it. *)
WriteIgnored(s) ==
  /\ pc[s] = "write"
  /\ Fault
  /\ pc' = [pc EXCEPT ![s] = "readback"]
  /\ UNCHANGED <<repository, device, job, todo, inventory, external>>

(* _step after the write: only an exact readback counts. *)
Readback(s) ==
  LET u == job[s].user
      observed == device[s][u]
  IN /\ pc[s] = "readback"
     /\ UNCHANGED <<device, external, faults>>
     /\ \/ /\ observed = bindings[s][u].intent.desired
           /\ RecordObservation(s, u, observed, 0)
           /\ pc' = [pc EXCEPT ![s] = "ready"]
           /\ job' = [job EXCEPT ![s].current = observed]
           /\ UNCHANGED <<todo, inventory>>
        \/ /\ observed # bindings[s][u].intent.desired
           /\ Fail(s, "error", job[s].current)

(* _remove after its last write. *)
Removed(s) ==
  LET want == Desired(job[s].snapshot, s)
  IN /\ pc[s] = "ready"
     /\ ~want.here
     /\ NextContents(want, job[s].current) = {}
     /\ ConfirmAbsent(s, job[s].user, job[s].snapshot.revision)
     /\ Release(s, job[s].current)
     /\ UNCHANGED <<device, external, faults>>

(* Mutant of Finish: reports the revision of now, not of the snapshot. *)
FinishUnpinned(s) ==
  LET want == Desired(job[s].snapshot, s)
  IN /\ pc[s] = "ready"
     /\ ~OwnedElsewhere(s)
     /\ want.here
     /\ NextContents(want, job[s].current) = {}
     /\ RecordObservation(s, job[s].user, want, users[job[s].user].revision)
     /\ pc' = [pc EXCEPT ![s] = "cards"]
     /\ UNCHANGED <<device, job, todo, inventory, external, faults>>

(* The end of _person: nothing is left to write.  Three commits follow. *)
Finish(s) ==
  LET want == Desired(job[s].snapshot, s)
  IN /\ pc[s] = "ready"
     /\ ~OwnedElsewhere(s)
     /\ want.here
     /\ NextContents(want, job[s].current) = {}
     /\ RecordObservation(s, job[s].user, want, job[s].snapshot.revision)
     /\ pc' = [pc EXCEPT ![s] = "cards"]
     /\ UNCHANGED <<device, job, todo, inventory, external, faults>>

ConfirmCards(s) ==
  /\ pc[s] = "cards"
  /\ ConfirmRemovals(s, job[s].user, Card, job[s].current.cards)
  /\ pc' = [pc EXCEPT ![s] = "pins"]
  /\ UNCHANGED <<device, job, todo, inventory, external, faults>>

ConfirmPins(s) ==
  /\ pc[s] = "pins"
  /\ ConfirmRemovals(s, job[s].user, Pin, {job[s].current.pin})
  /\ Release(s, job[s].current)
  /\ UNCHANGED <<device, external, faults>>
-----------------------------------------------------------------------------
(* A request fails or times out, or the person's deadline expires.  Either   *)
(* the station answers again and the list goes on with a fresh inventory, or *)
(* it is offline and the reconciliation ends ("pending" stands for both).    *)
ConnectionFailed(s) ==
  /\ pc[s] # "idle"
  /\ Fault
  /\ progress' = Marked(job[s].user, s, "pending")
  /\ pc' = [pc EXCEPT ![s] = "idle"]
  /\ job' = [job EXCEPT ![s] = None]
  /\ \/ /\ todo[s] # NoWork
        /\ inventory' = [inventory EXCEPT ![s] = device[s]]
        /\ UNCHANGED todo
     \/ /\ todo' = [todo EXCEPT ![s] = NoWork]
        /\ inventory' = [inventory EXCEPT ![s] = Nothing]
  /\ UNCHANGED <<users, bindings, tombstones, retired, device, external>>

(* The device refuses a request, as busy ("pending") or otherwise. *)
Refused(s) ==
  /\ pc[s] \in {"read", "write", "readback"}
  /\ Fault
  /\ \E status \in {"pending", "error"} : Fail(s, status, job[s].current)
  /\ UNCHANGED <<device, external>>

Stopped(stations) ==
  /\ pc' = [s \in Station |-> IF s \in stations THEN "idle" ELSE pc[s]]
  /\ job' = [s \in Station |-> IF s \in stations THEN None ELSE job[s]]
  /\ todo' = [s \in Station |-> IF s \in stations THEN NoWork ELSE todo[s]]
  /\ inventory' =
       [s \in Station |-> IF s \in stations THEN Nothing ELSE inventory[s]]

(* The worker is cancelled (async_detach) or stopped by a failed save. *)
Cancelled(s) ==
  /\ todo[s] # NoWork \/ pc[s] # "idle"
  /\ Fault
  /\ Stopped({s})
  /\ UNCHANGED <<repository, device, external>>

(* _mark_station: the station cannot be reconciled at all. *)
StationFailed(s) ==
  /\ pc[s] = "idle"
  /\ Fault
  /\ \E status \in {"pending", "error"} :
       progress' = [u \in User |->
         IF u \in Deletions(s) \cup Others(s)
           THEN Marked(u, s, status)[u] ELSE progress[u]]
  /\ Stopped({s})
  /\ UNCHANGED <<users, bindings, tombstones, retired, device, external>>

(* The process dies at any point and starts again from what is on disk. *)
Restart ==
  /\ Fault
  /\ Reload
  /\ Stopped(Station)
  /\ UNCHANGED <<device, external>>
-----------------------------------------------------------------------------
Outside == <<device, engine, external, faults>>

CreateUser(u) ==
  /\ u \in Newcomers
  /\ \E pin \in Pin \cup {NoPin}, cards \in SUBSET Card,
        assigned, granted \in SUBSET Station :
        Create(u, pin, cards, assigned, granted)
  /\ UNCHANGED Outside

UpdateUser(u) ==
  /\ \E pin \in Pin \cup {NoPin}, cards \in SUBSET Card,
        assigned, granted \in SUBSET Station :
        Update(u, pin, cards, assigned, granted)
  /\ UNCHANGED Outside

EditUserProfile(u) == EditProfile(u) /\ UNCHANGED Outside

DeleteUser(u) == Delete(u) /\ UNCHANGED Outside

(* AccessManager.async_adopt, under the transaction lock. *)
Adopt(s, u) ==
  /\ pc[s] = "idle"
  /\ device[s][u].here
  /\ \/ \E status \in {"live", "tombstone"} :
          AdoptNew(s, u, device[s][u], status)
     \/ \E granted \in SUBSET Station :
          AdoptExisting(s, u, device[s][u], granted)
  /\ UNCHANGED Outside

(* AccessManager.async_resolve and async_resolve_deletion, likewise.  The   *)
(* review token pins the record the administrator saw.                      *)
Resolve(s, u) ==
  /\ pc[s] = "idle"
  /\ \/ "central" \in Resolutions /\ ResolveCentral(s, u, device[s][u])
     \/ "device" \in Resolutions /\ ResolveDevice(s, u, device[s][u])
     \/ "deletion" \in Resolutions /\ ResolveDeletion(s, u, device[s][u])
  /\ UNCHANGED Outside

(* Somebody edits a record at the station, which refuses credentials that   *)
(* another record holds.                                                    *)
External(s, u) ==
  /\ external < MaxExternal
  /\ external' = external + 1
  /\ \E content \in {c \in Content : c.here \/ c = Absent} \ {device[s][u]} :
       /\ \A v \in User \ {u} :
            Secrets(content) \cap Secrets(device[s][v]) = {}
       /\ device' = [device EXCEPT ![s][u] = content]
  /\ UNCHANGED <<repository, engine, faults>>
-----------------------------------------------------------------------------
(* What the engine of one station does when nothing fails. *)
Engine(s) ==
  \/ Reconcile(s)
  \/ \E u \in User : Start(s, u)
  \/ Inspect(s)
  \/ BlockedElsewhere(s)
  \/ Journal(s)
  \/ Write(s)
  \/ Readback(s)
  \/ Removed(s)
  \/ Finish(s)
  \/ ConfirmCards(s)
  \/ ConfirmPins(s)

Failure(s) ==
  \/ WriteIgnored(s)
  \/ ConnectionFailed(s)
  \/ Refused(s)
  \/ Cancelled(s)
  \/ StationFailed(s)

Administrator(u) ==
  \/ CreateUser(u)
  \/ UpdateUser(u)
  \/ EditUserProfile(u)
  \/ DeleteUser(u)

Next ==
  \/ \E s \in Station : Engine(s) \/ Failure(s)
  \/ \E u \in User : Administrator(u)
  \/ \E s \in Station, u \in User : Adopt(s, u) \/ Resolve(s, u) \/ External(s, u)
  \/ Restart

Spec == Init /\ [][Next]_vars

(* The worker of a station runs whenever it has work: a request, or the     *)
(* timer that every worker leaves behind, starts it again.                  *)
Fairness == \A s \in Station : WF_vars(Engine(s))

FairSpec == Spec /\ Fairness
=============================================================================
