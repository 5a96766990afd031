----------------------------- MODULE MCExternal -----------------------------
(* Two people and one card at one station where one of them already has a    *)
(* record nobody manages, and somebody edits a record at the station while   *)
(* the engine works: adoption, conflicts and their resolution.               *)
EXTENDS AccessSyncSafety

CONSTANTS ana, ben, gate, card

Users == {ana, ben}
Stations == {gate}
Cards == {card}
Pins == {}
OnlyAna == {ana}
BensRecord == {<<gate, ben>>}
AllResolutions == {"central", "device", "deletion"}
=============================================================================
