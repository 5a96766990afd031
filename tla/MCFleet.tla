------------------------------ MODULE MCFleet ------------------------------
(* One person with a card or a PIN at two stations: removals that one        *)
(* station confirms and the other does not yet, deletions that wait for the  *)
(* slower station, credentials wanted again.                                 *)
EXTENDS AccessSyncSafety, TLC

CONSTANTS ana, gate, lobby, card, code

Users == {ana}
Stations == {gate, lobby}
Cards == {card}
Pins == {code}
NoCards == {}
NoPins == {}
NoRecords == {}
LobbyRecord == {<<lobby, ana>>}
AllResolutions == {"central", "device", "deletion"}
SafeResolutions == {"central", "deletion"}
Symmetry == Permutations(Stations)

(* For the liveness run, two instances in one: two stations with two         *)
(* revisions and no failures, or one station with as many of both as the     *)
(* bounds allow.  Administrators and failures have to observe this, while    *)
(* the engines never run into it.                                            *)
Unused(s) ==
  /\ pc[s] = "idle" /\ todo[s] = NoWork
  /\ \A u \in User :
       /\ bindings[s][u] = None
       /\ s \notin users[u].assigned
       /\ users[u].status = "tombstone" => s \notin tombstones[u].targets
  /\ \A r \in retired : s \notin r.targets

Budget ==
  faults > 0 \/ (\E u \in User : users[u].revision > 2) => Unused(lobby)

LiveSpec == Init /\ [][Next /\ Budget']_vars /\ Fairness
=============================================================================
