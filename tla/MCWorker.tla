------------------------------ MODULE MCWorker ------------------------------
(* One station and three edits, so that an edit can come before, during and *)
(* after a reconciliation; two identities for workers suffice to see a      *)
(* second one; three failures in a row.                                     *)
EXTENDS StationWorker

CONSTANTS first, second

Workers == {first, second}
=============================================================================
