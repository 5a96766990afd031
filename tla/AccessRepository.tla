-------------------------- MODULE AccessRepository --------------------------
(***************************************************************************)
(* The durable ledger of the access subsystem (access/repository.py): who  *)
(* should be able to open which door, which device records the integration *)
(* owns, and which deletions and withdrawn credentials some station has    *)
(* not confirmed yet.                                                      *)
(*                                                                         *)
(* Every operation of the class runs inside _commit: under one lock it     *)
(* edits a copy, validates it, saves it and only then publishes it.  A     *)
(* commit is therefore one atomic step here, and the published state is    *)
(* what a restart finds on disk.  The operators below are the commits; the *)
(* modules that EXTEND this one say who calls them and when.               *)
(*                                                                         *)
(* A person keeps one employee number, so the model uses the person as the *)
(* key of a device record.  A fingerprint is a keyed hash of the canonical *)
(* record; the model uses the canonical record itself.                     *)
(***************************************************************************)
EXTENDS Naturals, FiniteSets

CONSTANTS
  User,         \* people that may ever be managed
  Station,      \* door stations
  Card,         \* card numbers
  Pin,          \* keypad codes
  NoPin,        \* a person without a keypad code
  None,         \* absence of a binding, a fingerprint or an intent
  MaxRevision   \* bound on the edits of one person

ASSUME CredentialAssumption ==
  /\ Card \cap Pin = {}
  /\ NoPin \notin Pin \cup Card

ASSUME RevisionAssumption == MaxRevision \in Nat

VARIABLES
  users,        \* central record of each person, kept while it is tombstoned
  progress,     \* per person and station: how far the assignment was applied
  bindings,     \* per station and person: the device record the code owns
  tombstones,   \* deletions: stations to clean and stations confirmed clean
  retired       \* withdrawn cards and PINs, with the stations to clean

repository == <<users, progress, bindings, tombstones, retired>>
-----------------------------------------------------------------------------
(* What a station holds for one employee number, in canonical form. *)
Content == [here : BOOLEAN, pin : Pin \cup {NoPin}, cards : SUBSET Card]

Absent == [here |-> FALSE, pin |-> NoPin, cards |-> {}]

Statuses == {"unborn", "live", "tombstone", "gone"}

(* "assigned" are the stations with an assignment; "granted" those where the *)
(* person must be present: active, and the assignment enabled.               *)
UserRecord ==
  [status : Statuses, revision : Nat, pin : Pin \cup {NoPin},
   cards : SUBSET Card, assigned : SUBSET Station, granted : SUBSET Station]

SyncStates == {"pending", "syncing", "synced", "error", "conflict"}

Progress == [applied : Nat, sync : SyncStates]

NotApplied == [applied |-> 0, sync |-> "pending"]

Intent == [before : Content, desired : Content]

Binding == [fingerprint : Content \cup {None}, intent : Intent \cup {None}]

Tombstone == [targets : SUBSET Station, confirmed : SUBSET Station]

NoTombstone == [targets |-> {}, confirmed |-> {}]

Retirement ==
  [user : User, secret : Card \cup Pin,
   targets : SUBSET Station, confirmed : SUBSET Station]

ASSUME NoneAssumption ==
  /\ None \notin Binding
  /\ None \notin Content
  /\ None \notin Intent

RepositoryTypeOK ==
  /\ users \in [User -> UserRecord]
  /\ progress \in [User -> [Station -> Progress]]
  /\ bindings \in [Station -> [User -> Binding \cup {None}]]
  /\ tombstones \in [User -> Tombstone]
  /\ retired \subseteq Retirement

RepositoryInit ==
  /\ users = [u \in User |->
       [status |-> "unborn", revision |-> 0, pin |-> NoPin, cards |-> {},
        assigned |-> {}, granted |-> {}]]
  /\ progress = [u \in User |-> [s \in Station |-> NotApplied]]
  /\ bindings = [s \in Station |-> [u \in User |-> None]]
  /\ tombstones = [u \in User |-> NoTombstone]
  /\ retired = {}
-----------------------------------------------------------------------------
(* The credentials a user record or a device record carries. *)
Secrets(record) == record.cards \cup ({record.pin} \ {NoPin})

Known(record) == record.status \in {"live", "tombstone"}

Unconfirmed(item) == item.targets \ item.confirmed

(* What the station should hold for this person.  A tombstone is a request *)
(* for absence everywhere.                                                 *)
Desired(record, s) ==
  IF record.status = "live" /\ s \in record.granted
    THEN [here |-> TRUE, pin |-> record.pin, cards |-> record.cards]
    ELSE Absent

(* Mutant of Targets: a station that was unassigned is forgotten, although  *)
(* the record is still on it.                                               *)
TargetsByAssignment(u) == users[u].assigned

(* Stations that may hold something of this person. *)
Targets(u) == users[u].assigned \cup {s \in Station : bindings[s][u] # None}

(* Mutant of Reserved: withdrawn credentials are free at once. *)
ReservedByRecords(us, rs, u) == IF Known(us[u]) THEN Secrets(us[u]) ELSE {}

(* _validate_collisions: a credential belongs to at most one person, the    *)
(* deleted ones and the owners of unconfirmed withdrawals included.         *)
Reserved(us, rs, u) ==
  (IF Known(us[u]) THEN Secrets(us[u]) ELSE {})
    \cup {r.secret : r \in {q \in rs : q.user = u}}

CollisionFree(us, rs) ==
  \A u, v \in User : u # v => Reserved(us, rs, u) \cap Reserved(us, rs, v) = {}

(* async_mark: only the visible status of an existing assignment changes. *)
Marked(u, s, status) ==
  IF users[u].status = "live" /\ s \in users[u].assigned
    THEN [progress EXCEPT ![u][s].sync = status]
    ELSE progress

(* The assignments of an edited person: applied revisions survive. *)
Rebuilt(u, assigned) ==
  [progress EXCEPT ![u] = [s \in Station |->
     IF s \in assigned THEN [progress[u][s] EXCEPT !.sync = "pending"]
                       ELSE NotApplied]]

Retirements(u, secrets, targets) ==
  IF targets = {} THEN {}
  ELSE {[user |-> u, secret |-> x, targets |-> targets, confirmed |-> {}] :
          x \in secrets}

(* Mutant of ConfirmedAt: one confirmation settles the removal everywhere. *)
ConfirmedAtOnce(s, u, kind, present) ==
  {r \in retired : ~(/\ r.user = u
                     /\ s \in r.targets
                     /\ r.secret \in kind \ present)}

(* Mutant of ConfirmedAt: any station may confirm, asked or not. *)
ConfirmedByAnyone(s, u, kind, present) ==
  LET hit == {r \in retired : r.user = u /\ r.secret \in kind \ present}
      acknowledged == {[r EXCEPT !.confirmed = @ \cup {s}] : r \in hit}
  IN (retired \ hit) \cup {r \in acknowledged : Unconfirmed(r) # {}}

(* Mutant of ConfirmedAt: the last confirmation does not remove the entry. *)
ConfirmedAndKept(s, u, kind, present) ==
  {IF /\ r.user = u /\ s \in r.targets /\ r.secret \in kind \ present
     THEN [r EXCEPT !.confirmed = @ \cup {s}] ELSE r : r \in retired}

(* _confirm_retired and _confirm_retired_pins, for the credentials in kind: *)
(* station s no longer holds what is not in present.                        *)
ConfirmedAt(s, u, kind, present) ==
  LET hit == {r \in retired : /\ r.user = u
                              /\ s \in r.targets
                              /\ r.secret \in kind \ present}
      acknowledged == {[r EXCEPT !.confirmed = @ \cup {s}] : r \in hit}
  IN (retired \ hit) \cup {r \in acknowledged : Unconfirmed(r) # {}}
-----------------------------------------------------------------------------
(* async_create. *)
Create(u, pin, cards, assigned, granted) ==
  /\ users[u].status = "unborn"
  /\ granted \subseteq assigned
  /\ users' = [users EXCEPT ![u] =
       [status |-> "live", revision |-> 1, pin |-> pin, cards |-> cards,
        assigned |-> assigned, granted |-> granted]]
  /\ CollisionFree(users', retired)
  /\ UNCHANGED <<progress, bindings, tombstones, retired>>

(* _update_user when the access intent changes: withdrawn credentials are   *)
(* retired at every station that may hold them, and credentials wanted      *)
(* again are no longer to be removed.                                       *)
Update(u, pin, cards, assigned, granted) ==
  LET old == users[u]
      new == [old EXCEPT !.revision = @ + 1, !.pin = pin, !.cards = cards,
                         !.assigned = assigned, !.granted = granted]
      withdrawn == Retirements(u, Secrets(old) \ Secrets(new), Targets(u))
  IN /\ old.status = "live"
     /\ old.revision < MaxRevision
     /\ granted \subseteq assigned
     /\ users' = [users EXCEPT ![u] = new]
     /\ progress' = Rebuilt(u, assigned)
     /\ retired' = {r \in retired \cup withdrawn :
                      ~(r.user = u /\ r.secret \in Secrets(new))}
     /\ CollisionFree(users', retired')
     /\ UNCHANGED <<bindings, tombstones>>

(* _update_user when nothing a station stores changes: assignments keep     *)
(* their state, and those already applied stay applied.                     *)
EditProfile(u) ==
  LET old == users[u]
      advanced(p) == IF p.applied = old.revision
                       THEN [p EXCEPT !.applied = old.revision + 1]
                       ELSE p
  IN /\ old.status = "live"
     /\ old.revision < MaxRevision
     /\ users' = [users EXCEPT ![u].revision = @ + 1]
     /\ progress' = [progress EXCEPT ![u] = [s \in Station |->
          IF s \in old.assigned THEN advanced(progress[u][s])
                                ELSE progress[u][s]]]
     /\ UNCHANGED <<bindings, tombstones, retired>>

(* _delete_user: a tombstone remembers every station to clean; with none to *)
(* clean the person is simply gone.                                         *)
Delete(u) ==
  LET withdrawn == UNION {r.targets : r \in {q \in retired : q.user = u}}
      targets == Targets(u) \cup withdrawn
  IN /\ users[u].status = "live"
     /\ IF targets = {}
          THEN /\ users' = [users EXCEPT ![u].status = "gone"]
               /\ UNCHANGED tombstones
          ELSE /\ users' = [users EXCEPT ![u].status = "tombstone"]
               /\ tombstones' = [tombstones EXCEPT ![u] =
                    [targets |-> targets, confirmed |-> {}]]
     /\ progress' = [progress EXCEPT ![u] = [s \in Station |-> NotApplied]]
     /\ UNCHANGED <<bindings, retired>>
-----------------------------------------------------------------------------
Owning(content) == [fingerprint |-> content, intent |-> None]

(* async_adopt of an unmanaged device record as a new person, or only to    *)
(* have it deleted.                                                         *)
AdoptNew(s, u, content, status) ==
  /\ users[u].status = "unborn"
  /\ status \in {"live", "tombstone"}
  /\ users' = [users EXCEPT ![u] =
       [status |-> status, revision |-> 1, pin |-> content.pin,
        cards |-> content.cards, assigned |-> {s}, granted |-> {s}]]
  /\ tombstones' = IF status = "live" THEN tombstones
                   ELSE [tombstones EXCEPT ![u] =
                          [targets |-> {s}, confirmed |-> {}]]
  /\ bindings' = [bindings EXCEPT ![s][u] = Owning(content)]
  /\ CollisionFree(users', retired)
  /\ UNCHANGED <<progress, retired>>

(* async_adopt of an unmanaged device record for a person that exists: the  *)
(* person's data stay, the station becomes an assignment of a new revision. *)
AdoptExisting(s, u, content, granted) ==
  LET old == users[u]
  IN /\ old.status = "live"
     /\ old.revision < MaxRevision
     /\ bindings[s][u] = None
     /\ \/ granted = old.granted \cup {s}
        \/ old.granted = {} /\ granted = {}      \* an inactive person
     /\ users' = [users EXCEPT ![u].revision = @ + 1,
                               ![u].assigned = @ \cup {s},
                               ![u].granted = granted]
     /\ progress' = [Rebuilt(u, old.assigned) EXCEPT ![u][s] = NotApplied]
     /\ bindings' = [bindings EXCEPT ![s][u] = Owning(content)]
     /\ UNCHANGED <<tombstones, retired>>

(* Mutant of IntentAllowed: only people on record, not the deleted ones. *)
IntentForLiving(s, u, revision, operation) ==
  /\ users[u].status = "live"
  /\ users[u].revision = revision
  /\ bindings[s][u] = None => operation = "create"

(* Mutant of WriteIntent: the before-image is taken after the edit. *)
WriteIntentLate(s, u, revision, operation, before, desired) ==
  LET owned == IF bindings[s][u] # None THEN bindings[s][u]
               ELSE [fingerprint |-> None, intent |-> None]
  IN /\ Known(users[u])
     /\ bindings' = [bindings EXCEPT ![s][u] =
          [owned EXCEPT !.intent = [before |-> desired, desired |-> desired]]]
     /\ UNCHANGED <<users, progress, tombstones, retired>>

(* async_write_intent: what is about to be sent is durable first, and only  *)
(* if nobody edited the person since the caller's snapshot; a person deleted *)
(* meanwhile only lets a deletion go on.  A binding is created only together *)
(* with the device record.                                                  *)
IntentAllowed(s, u, revision, operation) ==
  /\ Known(users[u])
  /\ users[u].revision = revision
  /\ users[u].status = "tombstone" => operation = "delete"
  /\ bindings[s][u] = None => operation = "create"

WriteIntent(s, u, revision, operation, before, desired) ==
  LET owned == IF bindings[s][u] # None THEN bindings[s][u]
               ELSE [fingerprint |-> None, intent |-> None]
  IN /\ IntentAllowed(s, u, revision, operation)
     /\ bindings' = [bindings EXCEPT ![s][u] =
          [owned EXCEPT !.intent = [before |-> before, desired |-> desired]]]
     /\ UNCHANGED <<users, progress, tombstones, retired>>

(* async_record_observation: a readback settles the intent.  The assignment *)
(* counts as synced only for the current revision (revision 0: none).       *)
RecordObservation(s, u, content, revision) ==
  /\ bindings[s][u] # None
  /\ bindings' = [bindings EXCEPT ![s][u] = Owning(content)]
  /\ progress' =
       IF users[u].status # "live" \/ s \notin users[u].assigned THEN progress
       ELSE IF revision = users[u].revision
         THEN [progress EXCEPT ![u][s] = [applied |-> revision, sync |-> "synced"]]
         ELSE [progress EXCEPT ![u][s].sync = "pending"]
  /\ UNCHANGED <<users, tombstones, retired>>

(* async_confirm_absent: the station holds nothing of this person.  The     *)
(* last confirmation removes the tombstone.                                 *)
ConfirmAbsent(s, u, revision) ==
  LET confirmed == tombstones[u].confirmed \cup {s}
      finished == tombstones[u].targets \subseteq confirmed
  IN /\ bindings' = [bindings EXCEPT ![s][u] = None]
     /\ retired' = ConfirmedAt(s, u, Card \cup Pin, {})
     /\ IF users[u].status = "tombstone"
          THEN /\ users' = IF finished
                             THEN [users EXCEPT ![u].status = "gone"] ELSE users
               /\ tombstones' = [tombstones EXCEPT ![u] =
                    IF finished THEN NoTombstone
                                ELSE [@ EXCEPT !.confirmed = confirmed]]
          ELSE UNCHANGED <<users, tombstones>>
     /\ progress' =
          IF /\ users[u].status = "live"
             /\ s \in users[u].assigned
             /\ revision = users[u].revision
            THEN [progress EXCEPT ![u][s] = [applied |-> revision, sync |-> "synced"]]
            ELSE progress

(* async_confirm_card_removals / async_confirm_pin_removals. *)
ConfirmRemovals(s, u, kind, present) ==
  /\ retired' = ConfirmedAt(s, u, kind, present)
  /\ UNCHANGED <<users, progress, bindings, tombstones>>
-----------------------------------------------------------------------------
(* async_resolve, direction "central": own the record as it is now, and     *)
(* apply the person's data again as a new revision.                         *)
ResolveCentral(s, u, content) ==
  LET old == users[u]
  IN /\ old.status = "live"
     /\ old.revision < MaxRevision
     /\ bindings[s][u] # None
     /\ users' = [users EXCEPT ![u].revision = @ + 1]
     /\ progress' = Rebuilt(u, old.assigned)
     /\ bindings' = [bindings EXCEPT ![s][u] = Owning(content)]
     /\ UNCHANGED <<tombstones, retired>>

(* async_resolve, direction "device": the device record becomes the         *)
(* person's data.  Credentials it lacks are retired; of the retirements the *)
(* record makes obsolete, only the one of its PIN is dropped.               *)
ResolveDevice(s, u, content) ==
  LET old == users[u]
      new == [old EXCEPT !.revision = @ + 1, !.pin = content.pin,
                         !.cards = content.cards]
      withdrawn == Retirements(u, Secrets(old) \ Secrets(new), Targets(u))
  IN /\ old.status = "live"
     /\ old.revision < MaxRevision
     /\ bindings[s][u] # None
     /\ content.here
     /\ users' = [users EXCEPT ![u] = new]
     /\ progress' = Rebuilt(u, old.assigned)
     /\ retired' = {r \in retired \cup withdrawn :
                      ~(r.user = u /\ r.secret = content.pin)}
     /\ CollisionFree(users', retired')
     /\ bindings' = [bindings EXCEPT ![s][u] = Owning(content)]
     /\ UNCHANGED tombstones

(* async_resolve_deletion: own the record as it is now so that the deletion *)
(* can go on.                                                               *)
ResolveDeletion(s, u, content) ==
  /\ users[u].status = "tombstone"
  /\ s \in Unconfirmed(tombstones[u])
  /\ bindings' = [bindings EXCEPT ![s][u] = Owning(content)]
  /\ UNCHANGED <<users, progress, tombstones, retired>>

(* What async_load demands of the file it reads: owners on record for       *)
(* bindings and retirements, and confirmations only from targets.           *)
Loadable ==
  /\ \A s \in Station, u \in User : bindings[s][u] # None => Known(users[u])
  /\ \A r \in retired : Known(users[r.user]) /\ r.confirmed \subseteq r.targets
  /\ \A u \in User : tombstones[u].confirmed \subseteq tombstones[u].targets

(* async_load after a restart: no work survives the process.  A file that   *)
(* is not loadable is refused (invalid_storage) and nothing runs on it.     *)
Reload ==
  /\ Loadable
  /\ progress' = [u \in User |-> [s \in Station |->
       IF progress[u][s].sync = "syncing"
         THEN [progress[u][s] EXCEPT !.sync = "pending"] ELSE progress[u][s]]]
  /\ UNCHANGED <<users, bindings, tombstones, retired>>
=============================================================================
