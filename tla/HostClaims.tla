----------------------------- MODULE HostClaims -----------------------------
(***************************************************************************)
(* What the allocation of hosts promises, without its reconciles, caches   *)
(* and locks.                                                              *)
(*                                                                         *)
(* Instances claim free hosts and claims are released.  A host is never    *)
(* handed from one instance to another without having been free, and an    *)
(* instance is bound to a host, once and for all, only while it has the    *)
(* claim of that host.                                                     *)
(*                                                                         *)
(* The specification does not say who releases a claim: the code lets any  *)
(* instance that names a host release it (see InstanceAllocation).         *)
(***************************************************************************)
CONSTANTS Instances, Hosts, NoInstance, NoHost

VARIABLES
  owner,   \* the claim on each host
  bound    \* the host each instance has been told it got

vars == <<owner, bound>>

Init ==
  /\ owner = [h \in Hosts |-> NoInstance]
  /\ bound = [i \in Instances |-> NoHost]

Claim(i, h) ==
  /\ owner[h] = NoInstance
  /\ owner' = [owner EXCEPT ![h] = i]
  /\ UNCHANGED bound

Bind(i, h) ==
  /\ owner[h] = i
  /\ bound[i] = NoHost
  /\ bound' = [bound EXCEPT ![i] = h]
  /\ UNCHANGED owner

Release(h) ==
  /\ owner' = [owner EXCEPT ![h] = NoInstance]
  /\ UNCHANGED bound

Next ==
  \/ \E i \in Instances, h \in Hosts : Claim(i, h) \/ Bind(i, h)
  \/ \E h \in Hosts : Release(h)

Spec == Init /\ [][Next]_vars
=============================================================================
