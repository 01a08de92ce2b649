-------------------------- MODULE InventoryLabelsMC --------------------------
(***************************************************************************)
(* InventoryLabels for TLC: instances whose labels meet on one host in     *)
(* every way.  All have the plain key p and the persistent key q; x is a   *)
(* plain key of the first and a persistent one of the others, and y is     *)
(* both for the first.                                                     *)
(***************************************************************************)
EXTENDS InventoryLabels

CONSTANTS a, b, c

MCPlain == [i \in {a, b, c} |-> IF i = a THEN {"p", "x", "y"} ELSE {"p"}]

MCPersistent == [i \in {a, b, c} |-> IF i = a THEN {"q", "y"} ELSE {"q", "x"}]
=============================================================================
