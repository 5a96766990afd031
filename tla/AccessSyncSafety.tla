-------------------------- MODULE AccessSyncSafety --------------------------
(***************************************************************************)
(* What the ledger and the reconciliation together promise.  "Managed" are *)
(* the device records that were not on the station before; while nobody    *)
(* edits records at a station (external = 0), only the code has written    *)
(* them, and the promises about device contents are about what it wrote.   *)
(***************************************************************************)
EXTENDS AccessSync

Managed(s, u) == <<s, u>> \notin Unmanaged

(* A card or PIN that a device holds for a person is either one the person  *)
(* should have, or it is still listed for removal at this very station.     *)
(* Edits, deletions and writes already in flight must never make the code   *)
(* forget a credential that opens a door.                                   *)
NoForgottenCredential ==
  external = 0 =>
    \A s \in Station, u \in User : Managed(s, u) =>
      \A x \in Secrets(device[s][u]) :
        \/ users[u].status = "live" /\ x \in Secrets(users[u])
        \/ users[u].status = "tombstone" /\ s \in Unconfirmed(tombstones[u])
        \/ \E r \in retired : r.user = u /\ r.secret = x /\ s \in Unconfirmed(r)

(* No card or PIN that a device holds for one person can be given to        *)
(* another: neither the records nor the reservations of anybody else        *)
(* mention it.                                                              *)
ExclusiveCredential ==
  external = 0 =>
    \A s \in Station : \A u, v \in User : u # v /\ Managed(s, u) =>
      Secrets(device[s][u]) \cap Reserved(users, retired, v) = {}

(* No orphans: a device record the code created is owned by a binding as    *)
(* long as it exists, through lost responses, refused writes and restarts.  *)
OwnedOnDevice ==
  external = 0 =>
    \A s \in Station, u \in User :
      Managed(s, u) /\ device[s][u].here => bindings[s][u] # None

(* Every binding has somebody responsible for it: the person exists, or     *)
(* the deletion still waits for this station.                               *)
BindingAccounted ==
  \A s \in Station, u \in User : bindings[s][u] # None =>
    \/ users[u].status = "live"
    \/ users[u].status = "tombstone" /\ s \in Unconfirmed(tombstones[u])

(* A station shown as synced at the current revision holds exactly what     *)
(* the person should have there, whatever was edited during the run.        *)
SyncedIsTrue ==
  external = 0 =>
    \A s \in Station, u \in User :
      /\ users[u].status = "live"
      /\ s \in users[u].assigned
      /\ progress[u][s] = [applied |-> users[u].revision, sync |-> "synced"]
      => device[s][u] = Desired(users[u], s)

(* What async_load demands of the withdrawn credentials on disk, beyond     *)
(* their types: an owner on record, and confirmations only from targets.    *)
RetiredLoads ==
  \A r \in retired : Known(users[r.user]) /\ r.confirmed \subseteq r.targets

(* What async_load demands of a tombstone on disk: the stations that        *)
(* confirmed the deletion are among those that were asked to.               *)
TombstonesLoad ==
  \A u \in User : users[u].status = "tombstone" =>
    tombstones[u].confirmed \subseteq tombstones[u].targets

(* Wanting a card again cancels its removal: nothing is listed for removal  *)
(* that its owner should have.                                              *)
NoRetiredOwnCard ==
  \A r \in retired : users[r.user].status = "live" => r.secret \notin users[r.user].cards

(* One station never ends up with the same card or PIN under two employee   *)
(* numbers, not even when one of them is a record nobody manages.           *)
UniqueOnDevice ==
  external = 0 =>
    \A s \in Station : \A u, v \in User : u # v =>
      Secrets(device[s][u]) \cap Secrets(device[s][v]) = {}

(* The engine overwrites only what it recognised.  What it is about to       *)
(* replace is what the binding describes, and in a transaction the binding   *)
(* never takes over another content than those the open intent announced.   *)
(* What somebody changed at the station is thus a conflict that a person     *)
(* has to resolve, also when the change follows an interrupted write.        *)
NoSilentOverwrite ==
  /\ [](\A s \in Station : pc[s] = "write" =>
          LET binding == bindings[s][job[s].user]
              current == job[s].current
          IN /\ binding.intent.before = current
             /\ IF binding.fingerprint = None THEN ~current.here
                                              ELSE binding.fingerprint = current)
  /\ [][\A s \in Station, u \in User :
          LET before == bindings[s][u]
              after == bindings'[s][u]
          IN /\ pc[s] # "idle" /\ before # None /\ after # None
             /\ after.fingerprint # before.fingerprint
             => /\ before.intent # None
                /\ after.fingerprint \in {before.intent.before, before.intent.desired}]_vars

(* Credentials change hands as CredentialCustody says: they are reserved,   *)
(* withdrawn, confirmed and given away in this order only, for whatever      *)
(* reason a commit changes them, and a station takes them up only for their *)
(* owner.  The ledger keeps no such states: what is wanted follows from the *)
(* people, what is owed from the deletions and withdrawals not confirmed.   *)
Wants(u, x) == users[u].status = "live" /\ x \in Secrets(users[u])

Owes(u, x) ==
  (IF users[u].status = "tombstone" /\ x \in Secrets(users[u])
     THEN Unconfirmed(tombstones[u]) ELSE {})
  \cup UNION {Unconfirmed(r) : r \in {q \in retired : q.user = u /\ q.secret = x}}

Claimants(x) == {u \in User : x \in Reserved(users, retired, u)}

Owner(x) == IF Claimants(x) = {} THEN None ELSE CHOOSE u \in Claimants(x) : TRUE

Credential == Card \cup Pin

ManagedRecords == {h \in Station \X User : Managed(h[1], h[2])}

Agreement == INSTANCE CredentialCustody WITH
  Nobody <- None,
  owner <- [x \in Credential |-> Owner(x)],
  wanted <- {x \in Credential : \E u \in User : Wants(u, x)},
  owed <- [x \in Credential |-> UNION {Owes(u, x) : u \in User}],
  held <- [x \in Credential |->
             {h \in ManagedRecords : x \in Secrets(device[h[1]][h[2]])}],
  meddled <- external > 0

CredentialsInCustody == Agreement!Spec

(* Write-ahead: the engine changes a device record only into the content    *)
(* its durable intent announces, and (while nobody else edits) only from    *)
(* the content the intent recorded as the before-image.  So a restart at    *)
(* any instant can tell what became of the write.                           *)
JournaledWrites ==
  [][external' = external =>
       \A s \in Station, u \in User : device'[s][u] # device[s][u] =>
         /\ bindings[s][u] # None
         /\ bindings[s][u].intent # None
         /\ device'[s][u] = bindings[s][u].intent.desired
         /\ external = 0 => device[s][u] = bindings[s][u].intent.before]_vars

(* A deletion does not stop half way: once every fault is over, the         *)
(* stations confirm it and the person is gone.                              *)
DeletionCompletes ==
  \A u \in User : users[u].status = "tombstone" ~> users[u].status = "gone"

(* A withdrawn credential is eventually confirmed absent everywhere, or     *)
(* wanted again, so that its number can be used again.                      *)
RemovalCompletes == retired # {} ~> retired = {}
=============================================================================
