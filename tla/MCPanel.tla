------------------------------ MODULE MCPanel ------------------------------
(* One panel and its connection.                                            *)
EXTENDS PanelSession

Subs == 1..6
=============================================================================
