----------------------------- MODULE MCTransfer -----------------------------
(* Two people and one card at one station: the card changes hands while the *)
(* engine works, writes get lost and the process restarts.                  *)
EXTENDS AccessSyncSafety, TLC

CONSTANTS ana, ben, gate, card

Users == {ana, ben}
Stations == {gate}
Cards == {card}
Pins == {}
NoRecords == {}
Symmetry == Permutations(Users)
AllResolutions == {"central", "device", "deletion"}
=============================================================================
