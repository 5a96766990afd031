--------------------------- MODULE MCMaintenance ---------------------------
(* Two jobs over two stations: one writes to both of them, the other takes  *)
(* the first one back.  The queue holds one of them at a time.              *)
EXTENDS MaintenanceJobs

CONSTANTS gate, lobby

Stations == {gate, lobby}
Values == {"old", "new"}
Changes == <<[stations |-> <<gate, lobby>>, desired |-> "new"],
             [stations |-> <<gate>>, desired |-> "old"]>>
=============================================================================
