------------------------- MODULE InstanceAllocation -------------------------
(***************************************************************************)
(* How BareMetalInstance objects get a host of the inventory and give it   *)
(* back: the inventory half of the BareMetalInstance controller            *)
(* (internal/controller/baremetalinstance_controller.go), the host locks   *)
(* (internal/inventory/lock.go) and the claim kept on each host            *)
(* (internal/inventory).                                                   *)
(*                                                                         *)
(* One process runs up to MaxConcurrentReconciles reconciles, of different *)
(* instances.  A reconcile reads its object from the informer's cache,     *)
(* which may lag behind the API server, works on that copy, and is cut     *)
(* into one action per call it makes: an update of the object, a call of   *)
(* the inventory, the final update of the status.  Between two calls other *)
(* reconciles run, users create and delete objects, the cache catches up,  *)
(* and the process may restart.  Any call may fail, without an effect or   *)
(* after it.                                                               *)
(*                                                                         *)
(* Templates are empty here: provisioning jobs are not part of this module.*)
(* Every host matches every selector.                                      *)
(*                                                                         *)
(* A definition under "Variant:" is a deliberate mistake in the one that   *)
(* follows; no action uses it.  Substituting it shows that a property can   *)
(* fail.                                                                   *)
(***************************************************************************)
EXTENDS Naturals, FiniteSets

CONSTANTS
  Instances,               \* the BareMetalInstance objects, by UID
  Hosts,                   \* the hosts of the inventory, by inventory id
  NoInstance,              \* a host without a claim
  NoHost,                  \* an empty ExternalHostID
  MaxConcurrentReconciles, \* workers of the controller
  ManagementOutcomes,      \* phases in which the management half may end
  MaxFaults                \* bound: failed calls and restarts in a behaviour

ASSUME NoHostAssumption == NoHost \notin Hosts
ASSUME NoInstanceAssumption == NoInstance \notin Instances
ASSUME WorkersAssumption == MaxConcurrentReconciles \in Nat \ {0}
ASSUME OutcomesAssumption == ManagementOutcomes \subseteq {"Progressing", "Failed", "Ready"}
ASSUME MaxFaultsAssumption == MaxFaults \in Nat

VARIABLES
  api,       \* the objects as the API server stores them
  seen,      \* the objects as the informer's cache shows them
  queued,    \* the work queue of the controller
  pc,        \* the next call of the reconcile in flight
  work,      \* the copy of the object the reconcile works on
  read,      \* the status the reconcile read (oldstatus)
  fresh,     \* the copy has the resourceVersion of the stored object
  holds,     \* the host whose lock the reconcile holds
  locked,    \* the mutexes of the hosts
  owner,     \* the claim the inventory keeps on each host
  faults     \* faults so far

vars == <<api, seen, queued, pc, work, read, fresh, holds, locked, owner, faults>>

-----------------------------------------------------------------------------
(***************************************************************************)
(* Data.                                                                   *)
(***************************************************************************)
Phases == {"", "Allocating", "Progressing", "Ready", "Failed", "Deleting"}

\* The Allocated condition; "absent" as long as it has never been set.
Conditions == {"absent", "False", "True"}

Statuses == [phase : Phases, allocated : Conditions]

NoStatus == [phase |-> "", allocated |-> "absent"]

\* "deleting" has a deletionTimestamp; "gone" is deleted for good.
Lives == {"absent", "present", "deleting", "gone"}

Objects == [live   : Lives,
            inv    : BOOLEAN,            \* has the inventory finalizer
            mgmt   : BOOLEAN,            \* has the management finalizer
            ext    : Hosts \cup {NoHost},\* spec.externalHostID
            class  : BOOLEAN,            \* spec.hostClass is set
            status : Statuses]

Blank == [live |-> "absent", inv |-> FALSE, mgmt |-> FALSE, ext |-> NoHost,
          class |-> FALSE, status |-> NoStatus]

\* Program counters of a reconcile that is about to update its object.
Updates == {"addFinalizer", "setHost", "unsetHost", "setClass",
            "addMgmt", "dropMgmt", "dropInv"}

\* Program counters of a reconcile that is about to call the inventory.
InventoryCalls == {"find", "assignGet", "assignPut", "unassign"}

\* Program counters at which a host lock may be held, and those at which it is
\* the lock of the host the call is about.
UnderLock == {"assignGet", "assignPut", "unsetHost", "setClass", "unassign", "dropInv"}
HostCalls == {"assignGet", "assignPut", "setClass", "unassign"}

PCs == Updates \cup InventoryCalls \cup {"idle", "handle", "status"}

Busy == {i \in Instances : pc[i] # "idle"}

Fault == faults < MaxFaults /\ faults' = faults + 1

-----------------------------------------------------------------------------
(***************************************************************************)
(* The API server (external).  An update is refused unless it carries the  *)
(* current resourceVersion; it stores everything but the status, and its   *)
(* answer is decoded over the copy that was sent, so that what the server  *)
(* has of the status replaces what the reconcile had set.  An object that  *)
(* is being deleted goes away with its last finalizer.                     *)
(***************************************************************************)
Merge(stored, mine) ==
  [phase     |-> IF stored.phase = "" THEN mine.phase ELSE stored.phase,
   allocated |-> IF stored.allocated = "absent" THEN mine.allocated
                                                ELSE stored.allocated]

Stored(i) ==
  LET o == [work[i] EXCEPT !.status = api[i].status]
  IN  IF o.live = "deleting" /\ ~o.inv /\ ~o.mgmt THEN [o EXCEPT !.live = "gone"]
                                                  ELSE o

Answer(i) == [Stored(i) EXCEPT !.status = Merge(api[i].status, work[i].status)]

\* Variant: an update that overwrites whatever is stored.
ApplyUnconditionally(i) == api' = [api EXCEPT ![i] = Stored(i)]

Apply(i) == fresh[i] /\ api' = [api EXCEPT ![i] = Stored(i)]

-----------------------------------------------------------------------------
(***************************************************************************)
(* Steps a reconcile is put together from.                                 *)
(***************************************************************************)
\* The next call is c, made with the copy w.
Call(i, c, w) ==
  /\ pc' = [pc EXCEPT ![i] = c]
  /\ work' = [work EXCEPT ![i] = w]

\* Variant: the mutex is taken although another reconcile holds it.
TryLockUnchecked(i, h) ==
  /\ locked' = [locked EXCEPT ![h] = TRUE]
  /\ holds' = [holds EXCEPT ![i] = h]

\* The mutex of h was free and is taken; false when it is held.
TryLock(i, h) ==
  /\ ~locked[h]
  /\ locked' = [locked EXCEPT ![h] = TRUE]
  /\ holds' = [holds EXCEPT ![i] = h]

\* Variant: a return path that forgets to unlock.
UnlockForgotten(i) ==
  /\ locked' = locked
  /\ holds' = [holds EXCEPT ![i] = NoHost]

\* The deferred Unlock.
Unlock(i) ==
  /\ locked' = [h \in Hosts |-> locked[h] /\ h # holds[i]]
  /\ holds' = [holds EXCEPT ![i] = NoHost]

\* Variant: no return asks to be run again.
ReturnWithoutRequeue(i, w, again) ==
  /\ Call(i, "status", w)
  /\ Unlock(i)
  /\ queued' = queued

\* The handler returns: with an error or a RequeueAfter when again is TRUE.
Return(i, w, again) ==
  /\ Call(i, "status", w)
  /\ Unlock(i)
  /\ queued' = [queued EXCEPT ![i] = @ \/ again]

\* The reconcile is over.
Idle(i, again) ==
  /\ Call(i, "idle", Blank)
  /\ read' = [read EXCEPT ![i] = NoStatus]
  /\ fresh' = [fresh EXCEPT ![i] = FALSE]
  /\ queued' = [queued EXCEPT ![i] = @ \/ again]

-----------------------------------------------------------------------------
(***************************************************************************)
(* Initial state and environment.                                          *)
(***************************************************************************)
Init ==
  /\ api = [i \in Instances |-> Blank]
  /\ seen = [i \in Instances |-> Blank]
  /\ queued = [i \in Instances |-> FALSE]
  /\ pc = [i \in Instances |-> "idle"]
  /\ work = [i \in Instances |-> Blank]
  /\ read = [i \in Instances |-> NoStatus]
  /\ fresh = [i \in Instances |-> FALSE]
  /\ holds = [i \in Instances |-> NoHost]
  /\ locked = [h \in Hosts |-> FALSE]
  /\ owner = [h \in Hosts |-> NoInstance]
  /\ faults = 0

Create(i) ==
  /\ api[i].live = "absent"
  /\ api' = [api EXCEPT ![i].live = "present"]
  /\ UNCHANGED <<seen, queued, pc, work, read, fresh, holds, locked, owner, faults>>

\* Without a finalizer the object goes away at once.
Delete(i) ==
  /\ api[i].live = "present"
  /\ api' = [api EXCEPT ![i].live =
               IF api[i].inv \/ api[i].mgmt THEN "deleting" ELSE "gone"]
  /\ fresh' = [fresh EXCEPT ![i] = FALSE]
  /\ UNCHANGED <<seen, queued, pc, work, read, holds, locked, owner, faults>>

\* The informer catches up and enqueues the object.
Sync(i) ==
  /\ seen[i] # api[i]
  /\ seen' = [seen EXCEPT ![i] = api[i]]
  /\ queued' = [queued EXCEPT ![i] = TRUE]
  /\ UNCHANGED <<api, pc, work, read, fresh, holds, locked, owner, faults>>

\* The process ends and starts again: memory and mutexes are lost, the
\* informer lists the objects and enqueues them.
Restart ==
  /\ Fault
  /\ seen' = api
  /\ queued' = [i \in Instances |-> api[i].live \in {"present", "deleting"}]
  /\ pc' = [i \in Instances |-> "idle"]
  /\ work' = [i \in Instances |-> Blank]
  /\ read' = [i \in Instances |-> NoStatus]
  /\ fresh' = [i \in Instances |-> FALSE]
  /\ holds' = [i \in Instances |-> NoHost]
  /\ locked' = [h \in Hosts |-> FALSE]
  /\ UNCHANGED <<api, owner>>

-----------------------------------------------------------------------------
(***************************************************************************)
(* Reconcile and handleUpdate.                                             *)
(***************************************************************************)
\* A worker takes the object from the queue and reads it from the cache.
\* One that the cache does not have is forgotten.
Reconcile(i) ==
  /\ pc[i] = "idle" /\ queued[i]
  /\ Cardinality(Busy) < MaxConcurrentReconciles
  /\ queued' = [queued EXCEPT ![i] = FALSE]
  /\ \/ /\ seen[i].live \in {"absent", "gone"}
        /\ UNCHANGED <<pc, work, read, fresh>>
     \/ /\ seen[i].live \in {"present", "deleting"}
        /\ Call(i, "handle", seen[i])
        /\ read' = [read EXCEPT ![i] = seen[i].status]
        /\ fresh' = [fresh EXCEPT ![i] = (seen[i] = api[i])]
  /\ UNCHANGED <<api, seen, holds, locked, owner, faults>>

\* Variant: the inventory is used before the finalizer is there.
NoFinalizerNeeded(w) == FALSE

NeedsFinalizer(w) == ~w.inv

ReconcileInventory(i) ==
  LET w == [work[i] EXCEPT !.status.phase = "Allocating",
                           !.status.allocated = "False"]
  IN  /\ pc[i] = "handle" /\ w.live = "present" /\ ~w.class
      /\ \/ /\ NeedsFinalizer(w)
            /\ Call(i, "addFinalizer", [w EXCEPT !.inv = TRUE])
            /\ UNCHANGED <<queued, holds, locked>>
         \/ /\ ~NeedsFinalizer(w) /\ w.ext = NoHost
            /\ Call(i, "find", w)
            /\ UNCHANGED <<queued, holds, locked>>
         \/ /\ ~NeedsFinalizer(w) /\ w.ext # NoHost
            /\ TryLock(i, w.ext)
            /\ Call(i, "assignGet", w)
            /\ UNCHANGED queued
         \/ /\ ~NeedsFinalizer(w) /\ w.ext # NoHost /\ locked[w.ext]
            /\ Return(i, w, TRUE)
      /\ UNCHANGED <<api, seen, read, fresh, owner, faults>>

\* An update whose answer ends the handler.
AddFinalizer(i) ==
  /\ pc[i] = "addFinalizer"
  /\ Apply(i)
  /\ Return(i, Answer(i), FALSE)
  /\ UNCHANGED <<seen, read, fresh, owner, faults>>

\* The inventory returns any host without a claim.
FreeHosts == {h \in Hosts : owner[h] = NoInstance}

FindFreeHost(i) ==
  /\ pc[i] = "find"
  /\ \/ /\ \E h \in FreeHosts : Call(i, "setHost", [work[i] EXCEPT !.ext = h])
        /\ UNCHANGED <<queued, holds, locked>>
     \/ /\ FreeHosts = {}
        /\ Return(i, [work[i] EXCEPT !.status.phase = "Failed"], TRUE)
  /\ UNCHANGED <<api, seen, read, fresh, owner, faults>>

SetHost(i) ==
  /\ pc[i] = "setHost"
  /\ Apply(i)
  /\ Return(i, Answer(i), FALSE)
  /\ UNCHANGED <<seen, read, fresh, owner, faults>>

\* An instance may claim a host again.
Claimable(i, h) == owner[h] \in {NoInstance, i}

\* AssignHost reads the host: the claim of another instance is an answer,
\* and the reconcile goes on to forget the host.
AssignGet(i) ==
  /\ pc[i] = "assignGet"
  /\ \/ /\ Claimable(i, work[i].ext)
        /\ Call(i, "assignPut", work[i])
     \/ /\ ~Claimable(i, work[i].ext)
        /\ Call(i, "unsetHost", [work[i] EXCEPT !.ext = NoHost])
  /\ UNCHANGED <<api, seen, queued, read, fresh, holds, locked, owner, faults>>

\* Variant: Allocated is set before the host class is stored.
AssignPutReportsEarly(i) ==
  /\ pc[i] = "assignPut"
  /\ owner' = [owner EXCEPT ![work[i].ext] = i]
  /\ Call(i, "setClass", [work[i] EXCEPT !.class = TRUE, !.status.allocated = "True"])
  /\ UNCHANGED <<api, seen, queued, read, fresh, holds, locked, faults>>

\* AssignHost writes the claim, unconditionally: a BareMetalHost would refuse a
\* write on top of one it has not seen, an Ironic node does not.
AssignPut(i) ==
  /\ pc[i] = "assignPut"
  /\ owner' = [owner EXCEPT ![work[i].ext] = i]
  /\ Call(i, "setClass", [work[i] EXCEPT !.class = TRUE])
  /\ UNCHANGED <<api, seen, queued, read, fresh, holds, locked, faults>>

UnsetHost(i) ==
  /\ pc[i] = "unsetHost"
  /\ Apply(i)
  /\ Return(i, Answer(i), FALSE)
  /\ UNCHANGED <<seen, read, fresh, owner, faults>>

SetClass(i) ==
  /\ pc[i] = "setClass"
  /\ Apply(i)
  /\ Return(i, [Answer(i) EXCEPT !.status.phase = "Progressing",
                                 !.status.allocated = "True"], FALSE)
  /\ UNCHANGED <<seen, read, fresh, owner, faults>>

\* The management half is left open here: it neither reads nor writes the
\* inventory, and ends in one of three phases, two of which are requeued.
ReconcileManagement(i) ==
  /\ pc[i] = "handle" /\ work[i].live = "present" /\ work[i].class
  /\ \/ /\ ~work[i].mgmt
        /\ Call(i, "addMgmt", [work[i] EXCEPT !.mgmt = TRUE])
        /\ UNCHANGED <<queued, holds, locked>>
     \/ /\ work[i].mgmt
        /\ \E p \in ManagementOutcomes :
             Return(i, [work[i] EXCEPT !.status.phase = p], p # "Ready")
  /\ UNCHANGED <<api, seen, read, fresh, owner, faults>>

AddManagementFinalizer(i) ==
  /\ pc[i] = "addMgmt"
  /\ Apply(i)
  /\ Return(i, [Answer(i) EXCEPT !.status.phase = "Progressing"], FALSE)
  /\ UNCHANGED <<seen, read, fresh, owner, faults>>

-----------------------------------------------------------------------------
(***************************************************************************)
(* handleDeletion.                                                         *)
(***************************************************************************)
\* The second half of handleDeletion, on the copy w.
InventoryCleanup(i, w) ==
  \/ /\ ~w.inv
     /\ Return(i, w, FALSE)
  \/ /\ w.inv /\ w.ext = NoHost
     /\ Call(i, "dropInv", [w EXCEPT !.inv = FALSE])
     /\ UNCHANGED <<queued, holds, locked>>
  \/ /\ w.inv /\ w.ext # NoHost
     /\ TryLock(i, w.ext)
     /\ Call(i, "unassign", w)
     /\ UNCHANGED queued
  \/ /\ w.inv /\ w.ext # NoHost /\ locked[w.ext]
     /\ Return(i, w, TRUE)

HandleDeletion(i) ==
  /\ pc[i] = "handle" /\ work[i].live = "deleting"
  /\ \/ /\ work[i].mgmt
        /\ Call(i, "dropMgmt", [work[i] EXCEPT !.mgmt = FALSE,
                                               !.status.phase = "Deleting"])
        /\ UNCHANGED <<queued, holds, locked>>
     \/ /\ ~work[i].mgmt
        /\ InventoryCleanup(i, work[i])
  /\ UNCHANGED <<api, seen, read, fresh, owner, faults>>

DropManagementFinalizer(i) ==
  /\ pc[i] = "dropMgmt"
  /\ Apply(i)
  /\ InventoryCleanup(i, Answer(i))
  /\ UNCHANGED <<seen, read, fresh, owner, faults>>

\* Variant: the claim stays.
UnassignNothing(i) ==
  /\ pc[i] = "unassign"
  /\ Call(i, "dropInv", [work[i] EXCEPT !.inv = FALSE])
  /\ UNCHANGED <<api, seen, queued, read, fresh, holds, locked, owner, faults>>

\* UnassignHost clears the claim whoever holds it.
UnassignHost(i) ==
  /\ pc[i] = "unassign"
  /\ owner' = [owner EXCEPT ![work[i].ext] = NoInstance]
  /\ Call(i, "dropInv", [work[i] EXCEPT !.inv = FALSE])
  /\ UNCHANGED <<api, seen, queued, read, fresh, holds, locked, faults>>

DropInventoryFinalizer(i) ==
  /\ pc[i] = "dropInv"
  /\ Apply(i)
  /\ Return(i, Answer(i), FALSE)
  /\ UNCHANGED <<seen, read, fresh, owner, faults>>

-----------------------------------------------------------------------------
(***************************************************************************)
(* Errors, and the end of a reconcile.                                     *)
(***************************************************************************)
\* Variant: a phase the API does not have.
ErroredBadPhase(i) == [work[i] EXCEPT !.status.phase = "Error"]

\* What an error leaves in memory: only the failure to add the management
\* finalizer sets a phase.
Errored(i) ==
  IF pc[i] = "addMgmt" THEN [work[i] EXCEPT !.status.phase = "Failed"] ELSE work[i]

\* A call fails without an effect: an update because the copy is stale, any
\* call because of a fault.
CallFails(i) ==
  /\ \/ pc[i] \in Updates /\ ~fresh[i] /\ UNCHANGED faults
     \/ pc[i] \in Updates \cup InventoryCalls /\ Fault
  /\ Return(i, Errored(i), TRUE)
  /\ UNCHANGED <<api, seen, read, fresh, owner>>

\* A call takes effect and its answer is lost.
AnswerLost(i) ==
  /\ Fault
  /\ \/ /\ pc[i] \in Updates
        /\ Apply(i)
        /\ fresh' = [fresh EXCEPT ![i] = FALSE]
        /\ UNCHANGED owner
     \/ /\ pc[i] = "assignPut"
        /\ owner' = [owner EXCEPT ![work[i].ext] = i]
        /\ UNCHANGED <<api, fresh>>
     \/ /\ pc[i] = "unassign"
        /\ owner' = [owner EXCEPT ![work[i].ext] = NoInstance]
        /\ UNCHANGED <<api, fresh>>
  /\ Return(i, Errored(i), TRUE)
  /\ UNCHANGED <<seen, read>>

\* The status is written when it differs from the one that was read.  That
\* the object is gone is no error; any other refusal is one.
WriteStatus(i) ==
  /\ pc[i] = "status"
  /\ \/ /\ work[i].status = read[i] \/ api[i].live = "gone"
        /\ Idle(i, FALSE)
        /\ UNCHANGED <<api, faults>>
     \/ /\ work[i].status # read[i] /\ api[i].live # "gone" /\ fresh[i]
        /\ api' = [api EXCEPT ![i].status = work[i].status]
        /\ Idle(i, FALSE)
        /\ UNCHANGED faults
     \/ /\ work[i].status # read[i] /\ api[i].live # "gone"
        /\ (~fresh[i] /\ UNCHANGED faults) \/ Fault
        /\ Idle(i, TRUE)
        /\ UNCHANGED api
  /\ UNCHANGED <<seen, holds, locked, owner>>

\* A reconcile in flight makes its next step.
Step(i) ==
  \/ ReconcileInventory(i) \/ AddFinalizer(i) \/ FindFreeHost(i) \/ SetHost(i)
  \/ AssignGet(i) \/ AssignPut(i) \/ UnsetHost(i) \/ SetClass(i)
  \/ ReconcileManagement(i) \/ AddManagementFinalizer(i)
  \/ HandleDeletion(i) \/ DropManagementFinalizer(i)
  \/ UnassignHost(i) \/ DropInventoryFinalizer(i)
  \/ CallFails(i) \/ AnswerLost(i) \/ WriteStatus(i)

Next ==
  \/ \E i \in Instances : \/ Create(i) \/ Delete(i) \/ Sync(i)
                          \/ Reconcile(i) \/ Step(i)
  \/ Restart

Spec == Init /\ [][Next]_vars

-----------------------------------------------------------------------------
(***************************************************************************)
(* Fairness.  A worker always makes its next step.  The work queue is      *)
(* first-in first-out and holds each object once, so a queued object is    *)
(* taken in the end although workers are busy at times.  The informer      *)
(* delivers every change in the end.  Nothing makes users create or delete *)
(* objects, calls fail, or the process restart.                            *)
(***************************************************************************)
Fairness == \A i \in Instances : /\ WF_vars(Step(i))
                                 /\ SF_vars(Reconcile(i))
                                 /\ WF_vars(Sync(i))

FairSpec == Spec /\ Fairness

-----------------------------------------------------------------------------
(***************************************************************************)
(* Properties.                                                             *)
(***************************************************************************)
\* Every variable has its type: stored objects have the phases and the
\* condition values of the API (api/v1alpha1).
TypeOK ==
  /\ api \in [Instances -> Objects]
  /\ seen \in [Instances -> Objects]
  /\ queued \in [Instances -> BOOLEAN]
  /\ pc \in [Instances -> PCs]
  /\ work \in [Instances -> Objects]
  /\ read \in [Instances -> Statuses]
  /\ fresh \in [Instances -> BOOLEAN]
  /\ holds \in [Instances -> Hosts \cup {NoHost}]
  /\ locked \in [Hosts -> BOOLEAN]
  /\ owner \in [Hosts -> Instances \cup {NoInstance}]
  /\ faults \in 0..MaxFaults

\* The host locks do what TryLock promises: two reconciles never hold the
\* lock of one host, a lock that is taken has its reconcile (none is leaked
\* by an error return), and a reconcile that talks to the inventory about a
\* host, or acts on its answer, holds the lock of that host.
LockDiscipline ==
  /\ \A i, j \in Instances : holds[i] = holds[j] /\ holds[i] # NoHost => i = j
  /\ \A h \in Hosts : locked[h] <=> \E i \in Instances : holds[i] = h
  /\ \A i \in Instances :
       /\ pc[i] \in HostCalls => work[i].ext # NoHost /\ holds[i] = work[i].ext
       /\ pc[i] \notin UnderLock => holds[i] = NoHost

\* What AssignHost read of the host still holds when it writes the claim, and
\* the claim it wrote still stands when the host class is stored.  Ironic
\* compares nothing (openstack.go:271-314); the host locks alone see to it.
AnswerStillValid ==
  \A i \in Instances :
    /\ pc[i] = "assignPut" => Claimable(i, work[i].ext)
    /\ pc[i] = "setClass" => owner[work[i].ext] = i

\* The claim of one instance never becomes the claim of another in one step
\* ("prevents double-booking", metal3.go:244).
NoStealing ==
  [][\A h \in Hosts : owner[h] = NoInstance \/ owner'[h] \in {owner[h], NoInstance}]_vars

\* A claim is made only while the stored object has its inventory finalizer,
\* however old the copy the reconcile works on: the object cannot vanish
\* without a deletion pass over the inventory (controller :190-197, :757).
ClaimUnderFinalizer ==
  [][\A i \in Instances, h \in Hosts :
       owner[h] # i /\ owner'[h] = i => api[i].inv]_vars

\* Once the host class is stored, no reconcile - not even one that works on a
\* copy from before - changes the host of the instance or takes the class
\* back (controller :226, :276, :284).
AllocationIsFinal ==
  [][\A i \in Instances :
       api[i].class => api'[i].class /\ api'[i].ext = api[i].ext]_vars

\* Deletion releases before it lets go: an object that is gone does not hold
\* the claim of the host it names, and the inventory finalizer outlives the
\* management finalizer (handleDeletion, :683-766).
ReleasedBeforeGone ==
  \A i \in Instances :
    /\ api[i].live = "gone" /\ api[i].ext # NoHost => owner[api[i].ext] # i
    /\ api[i].mgmt => api[i].inv

\* What the stored status says was so: Allocated is True only with a stored
\* host class, and Ready only for an instance that has both finalizers and a
\* host (controller :291-298, :388).
StatusTruthful ==
  \A i \in Instances :
    /\ api[i].status.allocated = "True" => api[i].class /\ api[i].ext # NoHost
    /\ api[i].status.phase = "Ready" /\ api[i].live = "present"
         => api[i].class /\ api[i].mgmt /\ api[i].inv

\* The abstract specification this module implements.
Claims == INSTANCE HostClaims
  WITH bound <- [i \in Instances |-> IF api[i].class THEN api[i].ext ELSE NoHost]

\* Claims are made, released and reported as HostClaims says.
ImplementsClaims == Claims!Spec

\* The controller never rests too early, whatever the locks, the stale copies,
\* the failed calls and the restarts: an instance that no worker handles, that
\* is not in the queue and that the cache shows as it is stored, is neither to
\* be deleted nor anything but Ready (every return with an error or a
\* RequeueAfter, :190-420 and :683-766, and the status write at the end).
QuiescentIsDone ==
  \A i \in Instances :
    pc[i] = "idle" /\ ~queued[i] /\ seen[i] = api[i]
      => /\ api[i].live # "deleting"
         /\ api[i].live = "present" => api[i].status.phase = "Ready"

\* A deletion that was asked for comes to its end, whatever the locks, the
\* stale copies, the failed calls and the restarts: every return that leaves
\* work to do has a later event or a requeue.  (From "deleting" an object only
\* goes to "gone", so it is enough that it does not stay there.)
DeletionCompletes == \A i \in Instances : []<>(api[i].live # "deleting")

\* An instance that nobody deletes does not wait in vain while a host is free,
\* or the host it names has its claim: again and again it has been allocated,
\* or no host can be found (a claim that leaked, its own too, hides a host).
AllocationCompletes ==
  \A i \in Instances :
    []<>(\/ api[i].live # "present" \/ api[i].class
         \/ \A h \in Hosts : owner[h] # NoInstance /\ (owner[h] = i => api[i].ext # h))

-----------------------------------------------------------------------------
(***************************************************************************)
(* What the documents say and the code does not keep.                      *)
(***************************************************************************)
\* "prevents double-booking": no two live instances have been told they got
\* the same host (metal3.go:244-245).
NoDoubleBooking ==
  \A i, j \in Instances :
    /\ api[i].live = "present" /\ api[i].class
    /\ api[j].live = "present" /\ api[j].class
    /\ api[i].ext = api[j].ext
    => i = j

\* "handleDeletion frees the host in the inventory": an instance that is gone
\* has no claim left (controller :682).
NoLeak ==
  \A i \in Instances, h \in Hosts : api[i].live = "gone" => owner[h] # i

\* "HostConditionAllocated means the host has been allocated": an instance
\* that is Ready is also Allocated.
ReadyIsAllocated ==
  \A i \in Instances :
    api[i].status.phase = "Ready" => api[i].status.allocated = "True"
=============================================================================
