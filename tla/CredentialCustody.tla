------------------------- MODULE CredentialCustody -------------------------
(***************************************************************************)
(* What the access subsystem promises about every card and keypad code,    *)
(* whatever ledger, engines and stations do to keep it.  A credential is   *)
(* free, or somebody's: either he should have it, or it was withdrawn and  *)
(* stays his until every station that was asked has confirmed that it is   *)
(* gone.  A station takes it up only for its owner, and only while he      *)
(* should have it or the station has still to confirm its removal.         *)
(*                                                                         *)
(* Once somebody meddles with the records at a station nothing is promised *)
(* about what the stations hold; the rest remains.  One step may concern   *)
(* several credentials, each in its own way.                               *)
(***************************************************************************)
CONSTANTS
  Credential, User, Station,
  Nobody       \* the owner of a free credential

VARIABLES
  owner,       \* per credential: the person it is reserved for
  wanted,      \* the credentials their owners should have
  owed,        \* per credential: the stations that have to confirm its removal
  held,        \* per credential: at which stations it is, and for whom
  meddled      \* somebody has edited records at a station

vars == <<owner, wanted, owed, held, meddled>>
-----------------------------------------------------------------------------
Init ==
  /\ owner = [x \in Credential |-> Nobody]
  /\ wanted = {}
  /\ owed = [x \in Credential |-> {}]
  /\ held = [x \in Credential |-> {}]
  /\ meddled = FALSE

Holds(s, x) == \E u \in User : <<s, u>> \in held[x]

SameClaim(x) ==
  /\ owner'[x] = owner[x]
  /\ x \in wanted' <=> x \in wanted
  /\ owed'[x] = owed[x]

SameHolders(x) == held'[x] = held[x]

(* What nobody wants and no station owes is free.                           *)
Reassessed(x) ==
  owner'[x] = IF x \in wanted' \/ owed'[x] # {} THEN owner[x] ELSE Nobody

(* Its owner, or anybody if it is free, is to have it.  The removal that    *)
(* was under way is called off, or goes on for now.                         *)
Give(x) ==
  /\ \E u \in User : owner[x] \in {Nobody, u} /\ owner'[x] = u
  /\ x \in wanted'
  /\ owed'[x] \in {{}, owed[x]}
  /\ SameHolders(x)

(* Somebody was found to have it at a station and is taken over only to be  *)
(* removed.                                                                 *)
Condemn(x) ==
  /\ owner[x] = Nobody
  /\ owner'[x] \in User
  /\ x \notin wanted'
  /\ owed'[x] # {}
  /\ SameHolders(x)

(* Its owner is to have it no longer, and every station that holds it is    *)
(* asked to remove it.                                                      *)
Withdraw(x) ==
  /\ x \in wanted /\ x \notin wanted'
  /\ owed[x] \subseteq owed'[x]
  /\ meddled \/ \A s \in Station : Holds(s, x) => s \in owed'[x]
  /\ Reassessed(x)
  /\ SameHolders(x)

(* A station that does not hold it, or holds it because it is wanted again, *)
(* has done what it was asked.                                              *)
Confirm(x) ==
  /\ \E s \in owed[x] :
       /\ meddled \/ x \in wanted \/ ~Holds(s, x)
       /\ owed'[x] = owed[x] \ {s}
  /\ x \in wanted' <=> x \in wanted
  /\ Reassessed(x)
  /\ SameHolders(x)

TakeUp(x) ==
  \E s \in Station : /\ owner[x] \in User
                     /\ x \in wanted \/ s \in owed[x]
                     /\ held'[x] = held[x] \cup {<<s, owner[x]>>}

PutOff(x) == \E h \in held[x] : held'[x] = held[x] \ {h}

Handle(x) == SameClaim(x) /\ (TakeUp(x) \/ PutOff(x) \/ meddled')

Stay(x) == SameClaim(x) /\ SameHolders(x)

Next ==
  /\ meddled => meddled'
  /\ \A x \in Credential :
       Stay(x) \/ Give(x) \/ Condemn(x) \/ Withdraw(x) \/ Confirm(x) \/ Handle(x)

Spec == Init /\ [][Next]_vars
=============================================================================
