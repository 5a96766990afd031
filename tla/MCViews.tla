------------------------------ MODULE MCViews ------------------------------
(* Every view of the catalogue, with two choices in its controls and seven  *)
(* events outside it: enough for a question to change and change back, and  *)
(* for a write to be lost, executed late and repeated.                      *)
EXTENDS PanelViews

CONSTANTS wide, narrow

Choices == {wide, narrow}
=============================================================================
