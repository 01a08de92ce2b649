--------------------------- MODULE InventoryLabels ---------------------------
(***************************************************************************)
(* One host and its claim and labels, at the level of the requests the two *)
(* inventory clients send: internal/inventory/openstack.go (an Ironic node) *)
(* and internal/inventory/metal3.go (a BareMetalHost).                     *)
(*                                                                         *)
(* AssignHost and UnassignHost read the host and write it, one request     *)
(* after the other, under the lock of the host.  Ironic applies a patch    *)
(* to whatever is stored; a BareMetalHost takes an update only when it was *)
(* made from the stored version.  A request may fail, take effect with its *)
(* answer lost, or be given up and take effect later; a rejected session   *)
(* makes the client reconnect and repeat the whole operation once.         *)
(*                                                                         *)
(* Only one operation is under way, for the lock is held until it returns. *)
(* The process may end at any request: that is no other than an error of   *)
(* this request, since the instance comes back to the same operation.      *)
(***************************************************************************)
EXTENDS Naturals, FiniteSets

CONSTANTS
  Instances,   \* the BareMetalInstance objects, by UID
  Keys,        \* keys of labels; the pool id is one of the plain ones
  None,        \* no claim; a label that is not there
  Plain,       \* of each instance: keys of spec.inventorylabels
  Persistent,  \* of each instance: keys of spec.inventorypersistentlabels
  LateWrites,  \* the backends at which a request given up may still arrive
  MaxFaults    \* bound: failures in a behaviour

Backends == {"openstack", "metal3"}

ASSUME NoneAssumption == None \notin Instances
ASSUME PlainAssumption == Plain \in [Instances -> SUBSET Keys]
ASSUME PersistentAssumption == Persistent \in [Instances -> SUBSET Keys]
ASSUME LateAssumption == LateWrites \subseteq Backends
ASSUME FaultsAssumption == MaxFaults \in Nat

VARIABLES
  backend, \* which client is configured
  host,    \* the host as the backend stores it
  stage,   \* how far each instance is
  locked,  \* the instance whose reconcile holds the lock of the host
  pc,      \* its next step: read the host, or send the request
  request, \* the request it is about to send
  retried, \* it has reconnected in this operation
  late,    \* requests given up that may still arrive
  faults   \* failures so far

operation == <<locked, pc, request, retried>>
vars == <<backend, host, stage, operation, late, faults>>

-----------------------------------------------------------------------------
(***************************************************************************)
(* Data.                                                                   *)
(***************************************************************************)
\* Of a label the instance matters whose value it has.  A node without
\* osac_labels is not "created"; a BareMetalHost always takes labels.
HostStates == [claim : Instances \cup {None}, labels : [Keys -> Instances \cup {None}],
               created : BOOLEAN]

\* "new": names no host.  "wants": names the host (ExternalHostID).  "bound":
\* was told that it has the host.  "releasing": is being deleted.
Stages == {"new", "wants", "bound", "releasing", "gone"}

\* A request to create the label object, to write the claim with the labels,
\* or to remove the given keys, and the claim if it was there.  "current": the
\* host has not changed since it was read.
Requests == [by : Instances \cup {None}, type : {"none", "init", "assign", "unassign"},
             keys : SUBSET Keys, claimed : BOOLEAN, current : BOOLEAN]

NoRequest == [by |-> None, type |-> "none", keys |-> {}, claimed |-> FALSE, current |-> FALSE]

\* The labels an instance puts on its host.
Combined(i) == Plain[i] \cup Persistent[i]

\* The keys it takes away again, also those that are persistent, too, although
\* these "remain" by baremetalinstance_types.go:69-71.
Removed(i) == Plain[i]

Present == {k \in Keys : host.labels[k] # None}

\* Variant: a write is taken on top of one it has not seen.
AcceptsUnseen(r) == r.type # "none"

\* A BareMetalHost refuses an update made from another version; a patch fails
\* when it adds to an object, or removes a key, that is not there.
Accepts(r) ==
  \/ backend = "metal3" /\ r.current
  \/ /\ backend = "openstack"
     /\ \/ r.type = "init"
        \/ r.type = "assign" /\ host.created
        \/ r.type = "unassign" /\ r.keys \subseteq Present /\ (r.claimed => host.claim # None)

\* The host after a request.  Creating the label object replaces the one that
\* is there.
Effect(r) ==
  CASE r.type = "init"     -> [claim |-> None, labels |-> [k \in Keys |-> None], created |-> TRUE]
    [] r.type = "assign"   ->
         [host EXCEPT !.claim = r.by,
                      !.labels = [k \in Keys |-> IF k \in r.keys THEN r.by ELSE @[k]]]
    [] r.type = "unassign" ->
         [host EXCEPT !.claim = IF r.claimed THEN None ELSE @,
                      !.labels = [k \in Keys |-> IF k \in r.keys THEN None ELSE @[k]]]

\* A write that changes the host makes every other request out of date.
Outdated(r) == [r EXCEPT !.current = @ /\ host' = host]

Fault == faults < MaxFaults /\ faults' = faults + 1

-----------------------------------------------------------------------------
(***************************************************************************)
(* Initial state, and what the controller does between the operations.     *)
(***************************************************************************)
Init ==
  /\ backend \in Backends
  /\ host = [claim |-> None, labels |-> [k \in Keys |-> None],
             created |-> backend = "metal3"]
  /\ stage = [i \in Instances |-> "new"]
  /\ locked = None /\ pc = "idle" /\ request = NoRequest /\ retried = FALSE
  /\ late = {}
  /\ faults = 0

\* FindFreeHost returned the host, and the instance names it.
Find(i) ==
  /\ stage[i] = "new" /\ host.claim = None
  /\ stage' = [stage EXCEPT ![i] = "wants"]
  /\ UNCHANGED <<backend, host, operation, late, faults>>

\* An instance that names no host has nothing to give back.
Delete(i) ==
  /\ stage[i] \in {"new", "wants", "bound"} /\ locked # i
  /\ stage' = [stage EXCEPT ![i] = IF @ = "new" THEN "gone" ELSE "releasing"]
  /\ UNCHANGED <<backend, host, operation, late, faults>>

\* The reconcile of i takes the lock and starts AssignHost or UnassignHost.
Begin(i) ==
  /\ stage[i] \in {"wants", "releasing"} /\ locked = None
  /\ locked' = i /\ pc' = "get" /\ request' = NoRequest /\ retried' = FALSE
  /\ UNCHANGED <<backend, host, stage, late, faults>>

\* Variant: an early return keeps the lock.
EndWithoutUnlock ==
  /\ pc' = "idle" /\ request' = NoRequest /\ retried' = FALSE /\ UNCHANGED locked

\* The operation returns and the lock is released.
End ==
  /\ locked' = None /\ pc' = "idle" /\ request' = NoRequest /\ retried' = FALSE

Reaches(s) == stage' = [stage EXCEPT ![locked] = s]

Prepare(r) ==
  /\ pc' = "send" /\ request' = r
  /\ UNCHANGED <<locked, retried, stage>>

-----------------------------------------------------------------------------
(***************************************************************************)
(* AssignHost and UnassignHost.                                            *)
(***************************************************************************)
\* Variant: the persistent labels are left to a later request.
AssignRequestPlainOnly(i) == [by |-> i, type |-> "assign", keys |-> Plain[i],
                              claimed |-> FALSE, current |-> TRUE]

AssignRequest(i) == [by |-> i, type |-> "assign", keys |-> Combined(i),
                     claimed |-> FALSE, current |-> TRUE]

InitRequest(i) == [NoRequest EXCEPT !.by = i, !.type = "init", !.current = TRUE]

\* Variant: the keys are removed without a look at what is there.
UnassignRequestUnchecked(i) == [by |-> i, type |-> "unassign", keys |-> Removed(i),
                                claimed |-> TRUE, current |-> TRUE]

\* Variant: only the claim is removed.
UnassignRequestClaimOnly(i) == [by |-> i, type |-> "unassign", keys |-> {},
                                claimed |-> host.claim # None, current |-> TRUE]

\* Ironic is only asked to remove what was there.
UnassignRequest(i) == [by |-> i, type |-> "unassign", keys |-> Removed(i) \cap Present,
                       claimed |-> host.claim # None, current |-> TRUE]

\* Variant: the label object is taken to be there.
GetForAssignWithoutInit ==
  /\ pc = "get" /\ stage[locked] = "wants"
  /\ \/ /\ host.claim \notin {None, locked}
        /\ Reaches("new") /\ End
     \/ /\ host.claim \in {None, locked}
        /\ Prepare(AssignRequest(locked))
  /\ UNCHANGED <<backend, host, late, faults>>

\* The claim of another instance makes it forget the host.
GetForAssign ==
  /\ pc = "get" /\ stage[locked] = "wants"
  /\ \/ /\ host.claim \notin {None, locked}
        /\ Reaches("new") /\ End
     \/ /\ host.claim \in {None, locked} /\ host.created
        /\ Prepare(AssignRequest(locked))
     \/ /\ host.claim \in {None, locked} /\ ~host.created
        /\ Prepare(InitRequest(locked))
  /\ UNCHANGED <<backend, host, late, faults>>

\* Nothing to remove is nothing to send.
GetForUnassign ==
  LET r == UnassignRequest(locked)
  IN  /\ pc = "get" /\ stage[locked] = "releasing"
      /\ \/ /\ backend = "openstack" /\ r.keys = {} /\ ~r.claimed
            /\ Reaches("gone") /\ End
         \/ /\ backend = "metal3" \/ r.keys # {} \/ r.claimed
            /\ Prepare(r)
      /\ UNCHANGED <<backend, host, late, faults>>

\* The request takes effect and is answered.  After an assignment the instance
\* is bound, after a release its finalizer goes.
Send ==
  /\ pc = "send" /\ Accepts(request)
  /\ host' = Effect(request)
  /\ late' = {Outdated(r) : r \in late}
  /\ \/ /\ request.type = "init"
        /\ Prepare(AssignRequest(locked))
     \/ /\ request.type = "assign"
        /\ Reaches("bound") /\ End
     \/ /\ request.type = "unassign"
        /\ Reaches("gone") /\ End
  /\ UNCHANGED <<backend, faults>>

-----------------------------------------------------------------------------
(***************************************************************************)
(* Failures.  An error is retried by a whole reconcile.                    *)
(***************************************************************************)
Refused ==
  /\ pc = "send" /\ ~Accepts(request)
  /\ End
  /\ UNCHANGED <<backend, host, stage, late, faults>>

CallFails ==
  /\ pc \in {"get", "send"} /\ Fault
  /\ End
  /\ UNCHANGED <<backend, host, stage, late>>

\* Also: the update of the object that follows fails.
AnswerLost ==
  /\ pc = "send" /\ Accepts(request) /\ Fault
  /\ host' = Effect(request)
  /\ late' = {Outdated(r) : r \in late}
  /\ End
  /\ UNCHANGED <<backend, stage>>

\* The session is not valid any more: once per operation the client logs in
\* again and repeats the operation from its first request.  The second error
\* is returned; it also stands for a client another worker is replacing, which
\* the inventory does without a mutex.
AuthError ==
  /\ pc \in {"get", "send"} /\ backend = "openstack" /\ Fault
  /\ \/ /\ ~retried
        /\ retried' = TRUE /\ pc' = "get" /\ request' = NoRequest
        /\ UNCHANGED locked
     \/ retried /\ End
  /\ UNCHANGED <<backend, host, stage, late>>

\* The request is given up, by a timeout or with the process, on its way.
GivenUp ==
  /\ pc = "send" /\ backend \in LateWrites /\ Fault
  /\ late' = late \cup {request}
  /\ End
  /\ UNCHANGED <<backend, host, stage>>

LateArrives(r) ==
  /\ r \in late
  /\ \/ /\ Accepts(r)
        /\ host' = Effect(r)
        /\ request' = Outdated(request)
     \/ /\ ~Accepts(r)
        /\ UNCHANGED <<host, request>>
  /\ late' = {Outdated(q) : q \in late \ {r}}
  /\ UNCHANGED <<backend, stage, locked, pc, retried, faults>>

\* The BareMetalOperator writes the same object between the client's read and
\* its update, or after an update that was given up.
OtherWrite ==
  /\ backend = "metal3" /\ Fault
  /\ request' = [request EXCEPT !.current = FALSE]
  /\ late' = {[r EXCEPT !.current = FALSE] : r \in late}
  /\ UNCHANGED <<backend, host, stage, locked, pc, retried>>

Step == \/ GetForAssign \/ GetForUnassign \/ Send \/ Refused
        \/ CallFails \/ AnswerLost \/ AuthError \/ GivenUp

Next ==
  \/ \E i \in Instances : Find(i) \/ Delete(i) \/ Begin(i)
  \/ Step \/ OtherWrite
  \/ \E r \in late : LateArrives(r)

Spec == Init /\ [][Next]_vars

\* A reconcile goes on; instances that poll for the lock get it in the end.
\* Nothing makes a late request arrive.
Fairness == /\ WF_vars(Step)
            /\ \A i \in Instances : WF_vars(Find(i)) /\ SF_vars(Begin(i))

FairSpec == Spec /\ Fairness

-----------------------------------------------------------------------------
(***************************************************************************)
(* Properties.                                                             *)
(***************************************************************************)
\* Every variable has its type: there is an operation exactly while the host is
\* locked, and a request exactly while one is to be sent.
TypeOK ==
  /\ backend \in Backends
  /\ host \in HostStates
  /\ stage \in [Instances -> Stages]
  /\ locked \in Instances \cup {None}
  /\ pc \in {"idle", "get", "send"} /\ (pc = "idle" <=> locked = None)
  /\ request \in Requests /\ (pc = "send" <=> request.type # "none")
  /\ retried \in BOOLEAN
  /\ late \subseteq {r \in Requests : r.type # "none"}
  /\ faults \in 0..MaxFaults

\* The abstract specification this module implements.
Labels == INSTANCE HostLabels WITH claim <- host.claim, labels <- host.labels

\* Whatever fails, is repeated or arrives late, the claim and the labels of
\* the host change as if AssignHost and UnassignHost were one step each
\* ("this operation must be strongly consistent", client.go:55).
ImplementsLabels == Labels!Spec

\* The instance that has the claim has its labels on the host, all of them and
\* with its values, from the first moment on (openstack.go:290-310,
\* metal3.go:221-250).
HolderHasItsLabels ==
  host.claim \in Instances => \A k \in Combined(host.claim) : host.labels[k] = host.claim

\* Ironic refuses no patch that is sent: what the client read of the node under
\* the lock - that it has osac_labels, the keys and the claim it removes - still
\* holds when the patch comes, also where an earlier one took effect without
\* its answer (openstack.go:281-340, :358-402).
PatchIsAccepted == pc = "send" /\ backend = "openstack" => Accepts(request)

\* When the release of an instance is over, it does not hold the host, the
\* labels that are to be deleted with it are gone (README.md:116) and those that
\* are not are left alone (README.md:117), whatever was there when it began and
\* whatever failed, was repeated or came late.  A key in both of its sets is
\* left out: by the types (baremetalinstance_types.go:69-71) it is persistent
\* and stays, by the code (controller :742) it goes.
ReleasedWithItsLabels ==
  [][\A i \in Instances : stage[i] = "releasing" /\ stage'[i] = "gone" =>
       /\ host'.claim # i
       /\ \A k \in Plain[i] \ Persistent[i] : host'.labels[k] # i
       /\ \A k \in Persistent[i] \ Plain[i] : host'.labels[k] = host.labels[k]]_vars

\* Nothing disturbs an instance on the host it was told to have: neither a late
\* request of another one, nor one made from an older host, nor a repetition
\* (metal3.go:204-281, openstack.go:247-402).  The one exception is what the
\* code does allow, the release of another instance that names the same host;
\* it asks nobody whose claim it takes, but no label beyond its own plain keys
\* changes with it.
HolderKeepsItsHost ==
  [][\A i \in Instances :
       stage[i] = "bound" /\ stage'[i] = "bound" /\ host.claim = i /\ host' # host =>
         \E j \in Instances \ {i} :
           /\ stage[j] = "releasing"
           /\ \A k \in Keys \ Plain[j] : host'.labels[k] = host.labels[k]]_vars

\* A deletion comes to its end, with failed requests and sessions that expire:
\* from "releasing" an instance only goes to "gone", and it does not stay there.
ReleaseCompletes == \A i \in Instances : []<>(stage[i] # "releasing")

\* A host that is wanted is claimed again and again: an instance that lost the
\* race for it comes back.
WantedHostIsTaken ==
  []<>(host.claim # None \/ \A i \in Instances : stage[i] \notin {"new", "wants"})
=============================================================================
