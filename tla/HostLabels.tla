----------------------------- MODULE HostLabels -----------------------------
(***************************************************************************)
(* What the inventory promises about one host: its claim and its labels    *)
(* change together, in one step.                                           *)
(*                                                                         *)
(* An instance claims a free host, or claims its host again, and with the  *)
(* claim puts all its labels on it.  A release takes the claim away with   *)
(* the plain labels of the instance, also where a key is persistent, too.  *)
(* Whose claim a release takes away is left open, as in HostClaims.        *)
(***************************************************************************)
CONSTANTS
  Instances,
  Keys,       \* keys of labels
  None,       \* no claim; a label that is not there
  Plain,      \* of each instance: keys of spec.inventorylabels
  Persistent  \* of each instance: keys of spec.inventorypersistentlabels

VARIABLES
  claim,  \* the instance that has the host
  labels  \* of each key: the instance whose value it has

vars == <<claim, labels>>

Init ==
  /\ claim = None
  /\ labels = [k \in Keys |-> None]

Assign(i) ==
  /\ claim \in {None, i}
  /\ claim' = i
  /\ labels' = [k \in Keys |-> IF k \in Plain[i] \cup Persistent[i] THEN i ELSE labels[k]]

Release(i) ==
  /\ claim' = None
  /\ labels' = [k \in Keys |-> IF k \in Plain[i] THEN None ELSE labels[k]]

Next == \E i \in Instances : Assign(i) \/ Release(i)

Spec == Init /\ [][Next]_vars
=============================================================================
