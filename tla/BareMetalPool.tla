---------------------------- MODULE BareMetalPool ----------------------------
(***************************************************************************)
(* How a BareMetalPool keeps its number of BareMetalInstances per host     *)
(* type: the controller of                                                 *)
(* internal/controller/baremetalpool_controller.go, for one pool.  Pools   *)
(* do not meet: each lists the instances that carry its own UID.           *)
(*                                                                         *)
(* A reconcile reads the pool and lists its instances from two informers,  *)
(* which lag separately, creates or deletes instances one call at a time,  *)
(* lists them again to see whether all are Ready, and writes the status.   *)
(* The controller is woken by changes of the pool and by instances that    *)
(* are gone, by nothing else an instance does.                             *)
(*                                                                         *)
(* The pool has no profile with a template: setup and teardown jobs are    *)
(* not part of this module.  Of the phase of an instance the pool wants to *)
(* know whether it is Ready; the condition Ready of the pool moves with    *)
(* its phase, and desiredConfigVersion with its spec; both are left out.   *)
(* Names of instances do not collide.                                      *)
(*                                                                         *)
(* A definition under "Variant:" is a deliberate mistake in the one that   *)
(* follows; no action uses it.  Substituting it shows that a property can  *)
(* fail.                                                                   *)
(***************************************************************************)
EXTENDS Naturals, FiniteSets

CONSTANTS
  HostTypes,
  Instances,    \* bound: the instances that exist at a time; names are used again
  MaxReplicas,  \* bound: replicas of a host type
  Changes,      \* what happens to the pool: users "scale" it or "delete" an
                \* instance, an instance may "fail"
  MaxChanges,   \* bound: how often it does
  MaxFaults     \* bound: failed calls and restarts of the process

ASSUME InstancesAssumption == IsFiniteSet(Instances)
ASSUME BoundsAssumption == {MaxReplicas, MaxChanges, MaxFaults} \subseteq Nat

VARIABLES
  pool,        \* the pool as the API server stores it
  poolSeen,    \* the pool as its informer's cache shows it
  inst,        \* the instances as the API server stores them
  seen,        \* the instances as their informer's cache shows them
  ready,       \* those of them whose phase it shows as Ready
  configured,  \* the profile the pool names is there, and its parameters are right
  queued,      \* the pool is in the work queue
  pc,          \* the next step of the reconcile in flight
  work,        \* the copy of the pool the reconcile works on
  read,        \* the status it read (oldstatus)
  fresh,       \* the copy has the resourceVersion of the stored pool
  listed,      \* the instances in its list that it has not deleted
  made,        \* the instances it has created (the nils in its list)
  changes, faults   \* so far

reconcile == <<pc, work, read, fresh, listed, made>>
vars == <<pool, poolSeen, inst, seen, ready, configured, queued, reconcile, changes, faults>>

-----------------------------------------------------------------------------
(***************************************************************************)
(* Data.                                                                   *)
(***************************************************************************)
Phases == {"", "Progressing", "Ready", "Failed", "Deleting"}

Counts == [HostTypes -> Nat]

None == [h \in HostTypes |-> 0]

Statuses == [phase : Phases, hostSets : Counts]

NoStatus == [phase |-> "", hostSets |-> None]

\* want is spec.hostSets; a host type that is not in it has no replicas.
Pools == [live : {"present", "deleting", "gone"}, fin : BOOLEAN,
          want : Counts, status : Statuses]

Blank == [live |-> "gone", fin |-> FALSE, want |-> None, status |-> NoStatus]

\* A name nobody has yet is that of an instance that is gone.
InstanceStates == [live : {"present", "deleting", "gone"},
                   type : HostTypes,
                   owned : BOOLEAN]    \* has the pool as its controller

PCs == {"idle", "addFinalizer", "list", "scale", "listAll", "teardown",
        "dropFinalizer", "status"}

Fault == faults < MaxFaults /\ faults' = faults + 1

\* The names a new instance may have.
Free == {i \in Instances : /\ inst[i].live = "gone" /\ seen[i] = inst[i]
                           /\ i \notin listed}

Present(view) == {i \in Instances : view[i].live = "present"}

OfType(s, h) == {i \in s : inst[i].type = h}

-----------------------------------------------------------------------------
(***************************************************************************)
(* Initial state, users and the cluster around the controller.             *)
(***************************************************************************)
Init ==
  /\ \E w \in [HostTypes -> 0..MaxReplicas] :
       pool = [live |-> "present", fin |-> FALSE, want |-> w, status |-> NoStatus]
  /\ \E h \in HostTypes :
       inst = [i \in Instances |->
                 [live |-> "gone", type |-> h, owned |-> TRUE]]
  /\ poolSeen = pool
  /\ seen = inst /\ ready = {}
  /\ configured \in BOOLEAN
  /\ queued = TRUE
  /\ pc = "idle"
  /\ work = Blank
  /\ read = NoStatus
  /\ fresh = FALSE
  /\ listed = {} /\ made = None
  /\ changes = 0 /\ faults = 0

Change(kind) == kind \in Changes /\ changes < MaxChanges /\ changes' = changes + 1

ChangeReplicas ==
  /\ Change("scale")
  /\ pool.live = "present"
  /\ \E w \in [HostTypes -> 0..MaxReplicas] \ {pool.want} :
       pool' = [pool EXCEPT !.want = w]
  /\ fresh' = FALSE
  /\ UNCHANGED <<poolSeen, inst, seen, ready, configured, queued, pc, work, read, listed, made, faults>>

\* Without a finalizer the pool goes away at once.
DeletePool ==
  /\ pool.live = "present"
  /\ pool' = [pool EXCEPT !.live = IF pool.fin THEN "deleting" ELSE "gone"]
  /\ fresh' = FALSE
  /\ UNCHANGED <<poolSeen, inst, seen, ready, configured, queued, pc, work, read, listed, made, changes, faults>>

\* A deleted instance stays until its own controller has released its host.
Deleted(i) ==
  inst' = [inst EXCEPT ![i].live = IF @ = "present" THEN "deleting" ELSE @]

DeleteInstanceByHand(i) ==
  /\ Change("delete")
  /\ inst[i].live = "present"
  /\ Deleted(i)
  /\ UNCHANGED <<pool, poolSeen, seen, ready, configured, queued, reconcile, faults>>

\* The instance controller ends the deletion; what it has not seen yet has no
\* finalizer and is gone before any cache shows it.  The informer hears of its
\* creation and of its end all the same, one right after the other.
InstanceGone(i) ==
  /\ inst[i].live = "deleting"
  /\ inst' = [inst EXCEPT ![i].live = "gone"]
  /\ queued' = (queued \/ (seen[i].live = "gone" /\ inst[i].owned))
  /\ UNCHANGED <<pool, poolSeen, seen, ready, configured, reconcile, changes, faults>>

\* Kubernetes deletes what a pool that is gone was the controller of.
CollectGarbage(i) ==
  /\ pool.live = "gone" /\ inst[i].live = "present" /\ inst[i].owned
  /\ Deleted(i)
  /\ UNCHANGED <<pool, poolSeen, seen, ready, configured, queued, reconcile, changes, faults>>

\* No reconcile that starts after the deletion is seen asks what is Ready.
SyncPool ==
  /\ poolSeen # pool
  /\ poolSeen' = pool
  /\ ready' = IF pool.live = "present" THEN ready ELSE {}
  /\ queued' = TRUE
  /\ UNCHANGED <<pool, inst, seen, configured, reconcile, changes, faults>>

\* The cache shows an instance as Ready, or as failed.  Neither wakes the
\* controller: the predicates of SetupWithManager drop every update.
BecomesReady(i) ==
  /\ poolSeen.live = "present" /\ seen[i].live = "present"
  /\ i \notin ready /\ ready' = ready \cup {i}
  /\ UNCHANGED <<pool, poolSeen, inst, seen, configured, queued, reconcile, changes, faults>>

InstanceFails(i) ==
  /\ Change("fail")
  /\ i \in ready /\ ready' = ready \ {i}
  /\ UNCHANGED <<pool, poolSeen, inst, seen, configured, queued, reconcile, faults>>

\* The predicates of SetupWithManager let the deletion of an instance through.
Wakes(i) == inst[i].live = "gone" /\ inst[i].owned

SyncInstance(i) ==
  /\ seen[i] # inst[i]
  /\ seen' = [seen EXCEPT ![i] = inst[i]] /\ ready' = ready \ {i}
  /\ queued' = (queued \/ Wakes(i))
  /\ UNCHANGED <<pool, poolSeen, inst, configured, reconcile, changes, faults>>

\* The process ends and starts again, with the same profiles.
Restart ==
  /\ Fault
  /\ poolSeen' = pool /\ seen' = inst /\ ready' = ready \cap Present(inst)
  /\ queued' = TRUE
  /\ pc' = "idle" /\ work' = Blank /\ read' = NoStatus /\ fresh' = FALSE
  /\ listed' = {} /\ made' = None
  /\ UNCHANGED <<pool, inst, configured, changes>>

-----------------------------------------------------------------------------
(***************************************************************************)
(* Steps a reconcile is put together from.                                 *)
(***************************************************************************)
\* The next step is c, with the copy w.
Call(c, w) == pc' = c /\ work' = w

\* Variant: no return asks to be run again.
ReturnWithoutRequeue(w, again) ==
  /\ Call("status", [Blank EXCEPT !.status = w.status])
  /\ listed' = {} /\ made' = None
  /\ queued' = queued

\* The handler returns: with an error or a RequeueAfter when again is TRUE.
\* Only the status of its copy is of interest any more.
Return(w, again) ==
  /\ Call("status", [Blank EXCEPT !.status = w.status])
  /\ listed' = {} /\ made' = None
  /\ queued' = (queued \/ again)

\* What the reconcile takes the number of instances of a type to be.
Have(h) == Cardinality(OfType(listed, h)) + made[h]

\* The deferred updateStatusHostSets.
Counted(w) == [w EXCEPT !.status.hostSets = [h \in HostTypes |-> Have(h)]]

\* Variant: a phase the API does not have.
FailedBadPhase(w) == [w EXCEPT !.status.phase = "Error"]

\* What an error of handleUpdate leaves in memory.
Failed(w) == [w EXCEPT !.status.phase = "Failed"]

\* The API server's resourceVersion check; a pool that is being deleted goes
\* away with its finalizer.  The answer replaces the status in memory.
Apply ==
  /\ fresh
  /\ pool' = [work EXCEPT !.status = pool.status,
                          !.live = IF pool.live = "deleting" /\ ~work.fin THEN "gone" ELSE @]

Answer == IF pool.status.phase = "" THEN work ELSE [work EXCEPT !.status = pool.status]

-----------------------------------------------------------------------------
(***************************************************************************)
(* handleUpdate.                                                           *)
(***************************************************************************)
\* Variant: instances are created before the finalizer is there.
NoFinalizerNeeded(w) == FALSE

NeedsFinalizer(w) == ~w.fin

HandleUpdate(w) ==
  \/ ~configured /\ Call("status", [Blank EXCEPT !.status = Failed(w).status])
  \/ configured /\ NeedsFinalizer(w) /\ Call("addFinalizer", [w EXCEPT !.fin = TRUE])
  \/ configured /\ ~NeedsFinalizer(w) /\ Call("list", w)

\* A worker takes the pool from the queue and reads it from the cache.
Reconcile ==
  /\ pc = "idle" /\ queued
  /\ queued' = FALSE
  /\ \/ /\ poolSeen.live = "gone"
        /\ UNCHANGED <<pc, work, read, fresh>>
     \/ /\ poolSeen.live = "present"
        /\ HandleUpdate([poolSeen EXCEPT
             !.status.phase = IF @ = "" THEN "Progressing" ELSE @])
        /\ read' = poolSeen.status /\ fresh' = (poolSeen = pool)
     \/ /\ poolSeen.live = "deleting"
        /\ Call("listAll", [poolSeen EXCEPT !.status.phase = "Deleting"])
        /\ read' = poolSeen.status /\ fresh' = (poolSeen = pool)
  /\ UNCHANGED <<pool, poolSeen, inst, seen, ready, configured, listed, made, changes, faults>>

\* ensureFinalizer, when there is none.
AddFinalizer ==
  /\ pc = "addFinalizer"
  /\ Apply
  /\ Call("list", Answer)
  /\ UNCHANGED <<poolSeen, inst, seen, ready, configured, queued, read, fresh, listed, made, changes, faults>>

\* Bound: a list that is behind is read only while there are names left for
\* the instances it makes the reconcile create.
NamesLeft ==
  Cardinality(Free) >=
    Cardinality({p \in HostTypes \X (1..MaxReplicas) :
                   /\ p[2] <= work.want[p[1]]
                   /\ p[2] > Cardinality(OfType(Present(seen), p[1]))})

\* listAndGroupBareMetalInstances.
List ==
  /\ pc = "list" /\ NamesLeft
  /\ Call("scale", work)
  /\ listed' = Present(seen)
  /\ UNCHANGED <<pool, poolSeen, inst, seen, ready, configured, queued, read, fresh, made, changes, faults>>

\* Variant: the pool is not made the controller of what it creates.
UnownedInstance(h) == [live |-> "present", type |-> h, owned |-> FALSE]

NewInstance(h) == [live |-> "present", type |-> h, owned |-> TRUE]

\* An instance is created; the answer may be lost.
CreateInstance(h) ==
  /\ pc = "scale" /\ Have(h) < work.want[h]
  /\ \E i \in Free : inst' = [inst EXCEPT ![i] = NewInstance(h)]
  /\ \/ /\ made' = [made EXCEPT ![h] = @ + 1]
        /\ UNCHANGED <<queued, pc, work, listed, faults>>
     \/ Fault /\ Return(Counted(Failed(work)), TRUE)
  /\ UNCHANGED <<pool, poolSeen, seen, ready, configured, read, fresh, changes>>

\* An instance of the list, any of its type, is deleted; the answer may be lost.
DeleteInstance(i) ==
  /\ pc = "scale" /\ i \in listed
  /\ Have(inst[i].type) > work.want[inst[i].type]
  /\ Deleted(i)
  /\ \/ /\ listed' = listed \ {i}
        /\ UNCHANGED <<queued, pc, work, made, faults>>
     \/ Fault /\ Return(Counted(Failed(work)), TRUE)
  /\ UNCHANGED <<pool, poolSeen, seen, ready, configured, read, fresh, changes>>

\* Variant: the pool does not come back to see whether they are Ready.
CheckReadyOnce ==
  /\ pc = "scale" /\ \A h \in HostTypes : Have(h) = work.want[h]
  /\ \/ /\ Present(seen) \subseteq ready
        /\ Return([Counted(work) EXCEPT !.status.phase = "Ready"], FALSE)
     \/ /\ ~(Present(seen) \subseteq ready)
        /\ Return([Counted(work) EXCEPT !.status.phase = "Progressing"], FALSE)
  /\ UNCHANGED <<pool, poolSeen, inst, seen, ready, configured, read, fresh, changes, faults>>

\* checkBareMetalInstancesReady lists once more: the pool is Ready when it sees
\* no instance that is not; otherwise it comes back to look again.
CheckReady ==
  /\ pc = "scale" /\ \A h \in HostTypes : Have(h) = work.want[h]
  /\ \/ /\ Present(seen) \subseteq ready
        /\ Return([Counted(work) EXCEPT !.status.phase = "Ready"], FALSE)
     \/ /\ ~(Present(seen) \subseteq ready)
        /\ Return([Counted(work) EXCEPT !.status.phase = "Progressing"], TRUE)
  /\ UNCHANGED <<pool, poolSeen, inst, seen, ready, configured, read, fresh, changes, faults>>

-----------------------------------------------------------------------------
(***************************************************************************)
(* handleDeletion.                                                         *)
(***************************************************************************)
\* The finalizer goes when the list is empty; otherwise what is not being
\* deleted yet is, and the controller comes back to look again.
ListAll ==
  /\ pc = "listAll"
  /\ \/ /\ \A i \in Instances : seen[i].live = "gone"
        /\ Call("dropFinalizer", [work EXCEPT !.fin = FALSE])
        /\ UNCHANGED <<listed, made, queued>>
     \/ /\ Present(seen) # {}
        /\ Call("teardown", work)
        /\ listed' = Present(seen)
        /\ UNCHANGED <<made, queued>>
     \/ /\ Present(seen) = {} /\ \E i \in Instances : seen[i].live = "deleting"
        /\ Return(work, TRUE)
  /\ UNCHANGED <<pool, poolSeen, inst, seen, ready, configured, read, fresh, changes, faults>>

Teardown(i) ==
  /\ pc = "teardown" /\ i \in listed
  /\ Deleted(i)
  /\ \/ /\ listed # {i} /\ listed' = listed \ {i}
        /\ UNCHANGED <<pc, work, made, queued, faults>>
     \/ /\ listed = {i}
        /\ Return(work, TRUE)
        /\ UNCHANGED faults
     \/ Fault /\ Return(work, TRUE)
  /\ UNCHANGED <<pool, poolSeen, seen, ready, configured, read, fresh, changes>>

DropFinalizer ==
  /\ pc = "dropFinalizer"
  /\ Apply
  /\ Return(Answer, FALSE)
  /\ UNCHANGED <<poolSeen, inst, seen, ready, configured, read, fresh, changes, faults>>

-----------------------------------------------------------------------------
(***************************************************************************)
(* Errors, and the end of a reconcile.                                     *)
(***************************************************************************)
\* What a failed call leaves in memory.
Errored ==
  IF pc = "scale" THEN Counted(Failed(work))
  ELSE IF pc \in {"addFinalizer", "list"} THEN Failed(work) ELSE work

\* A call fails without an effect: an update because the copy is stale, any
\* call because of a fault.
CallFails ==
  /\ \/ pc \in {"addFinalizer", "dropFinalizer"} /\ ~fresh /\ UNCHANGED faults
     \/ pc \notin {"idle", "status"} /\ Fault
  /\ Return(Errored, TRUE)
  /\ UNCHANGED <<pool, poolSeen, inst, seen, ready, configured, read, fresh, changes>>

\* An update of the pool takes effect and its answer is lost.
AnswerLost ==
  /\ Fault
  /\ pc \in {"addFinalizer", "dropFinalizer"}
  /\ Apply
  /\ fresh' = FALSE
  /\ Return(Errored, TRUE)
  /\ UNCHANGED <<poolSeen, inst, seen, ready, configured, read, changes>>

\* The status is written when it differs from the one that was read.  That
\* the pool is gone is no error; any other refusal is one.
WriteStatus ==
  /\ pc = "status"
  /\ pc' = "idle" /\ work' = Blank /\ read' = NoStatus /\ fresh' = FALSE
  /\ \/ /\ work.status = read \/ pool.live = "gone"
        /\ UNCHANGED <<pool, queued, faults>>
     \/ /\ work.status # read /\ pool.live # "gone" /\ fresh
        /\ pool' = [pool EXCEPT !.status = work.status]
        /\ UNCHANGED <<queued, faults>>
     \/ /\ work.status # read /\ pool.live # "gone"
        /\ (~fresh /\ UNCHANGED faults) \/ Fault
        /\ queued' = TRUE
        /\ UNCHANGED pool
  /\ UNCHANGED <<poolSeen, inst, seen, ready, configured, listed, made, changes>>

Step ==
  \/ AddFinalizer \/ List \/ CheckReady \/ ListAll \/ DropFinalizer
  \/ CallFails \/ AnswerLost \/ WriteStatus
  \/ \E h \in HostTypes : CreateInstance(h)
  \/ \E i \in Instances : DeleteInstance(i) \/ Teardown(i)

Next ==
  \/ ChangeReplicas \/ DeletePool \/ SyncPool \/ Restart \/ Reconcile \/ Step
  \/ \E i \in Instances : \/ DeleteInstanceByHand(i) \/ InstanceGone(i)
                          \/ CollectGarbage(i) \/ SyncInstance(i)
                          \/ BecomesReady(i) \/ InstanceFails(i)

Spec == Init /\ [][Next]_vars

\* A worker takes the pool and makes its next step, the informers deliver, and
\* what is deleted is gone, what is there is Ready in the end: the instance
\* controller and the garbage collector see to it.
Fairness ==
  /\ WF_vars(Reconcile \/ Step) /\ WF_vars(SyncPool)
  /\ \A i \in Instances : /\ WF_vars(SyncInstance(i)) /\ WF_vars(BecomesReady(i))
                          /\ WF_vars(InstanceGone(i) \/ CollectGarbage(i))

FairSpec == Spec /\ Fairness

-----------------------------------------------------------------------------
(***************************************************************************)
(* Properties.                                                             *)
(***************************************************************************)
\* Every variable has its type.
TypeOK ==
  /\ pool \in Pools /\ poolSeen \in Pools /\ work \in Pools
  /\ inst \in [Instances -> InstanceStates] /\ seen \in [Instances -> InstanceStates]
  /\ configured \in BOOLEAN /\ queued \in BOOLEAN /\ fresh \in BOOLEAN
  /\ pc \in PCs
  /\ read \in Statuses
  /\ listed \subseteq Instances /\ ready \subseteq Instances /\ made \in Counts
  /\ changes \in 0..MaxChanges /\ faults \in 0..MaxFaults

\* An instance is created only while the stored pool has its finalizer, however
\* old the copy the reconcile works on: the pool cannot go away without a
\* deletion pass after it (baremetalpool_controller.go:195-197, :281-302).
CreatedUnderFinalizer ==
  [][\A i \in Instances :
       inst[i].live = "gone" /\ inst'[i].live = "present"
         => pool.fin /\ pool.live # "gone"]_vars

\* A deletion that was asked for comes to its end, whatever the lists miss and
\* whatever calls fail (handleDeletion, :469-549): from "deleting" a pool only
\* goes to "gone", and it does not stay there.
DeletionCompletes == []<>(pool.live # "deleting")

\* What a pool leaves behind, because its last list missed it, goes too: it
\* is the pool's own (SetControllerReference, :631).  (A pool that is gone does
\* not come back, so again and again means once and for all.)
NothingLeftBehind ==
  []<>(pool.live = "gone" => \A i \in Instances : inst[i].live = "gone")

Replicas(h) == Cardinality(OfType(Present(inst), h))

\* A list is up to date when it shows what there is.
UpToDate == pc = "list" => Present(seen) = Present(inst)

\* If no list misses what there is, the pool has the replicas asked for in the
\* end, and is Ready: every change of its spec and every loss of an instance
\* makes it look again, and every failed call, too; and as no instance that
\* becomes Ready wakes it, it keeps asking (:340-370, :132-152, :223-232).
ScalesWhenUpToDate ==
  []UpToDate =>
    <>[](pool.live = "present" /\ configured =>
           \A h \in HostTypes : /\ Replicas(h) = pool.want[h]
                                /\ pool.status.hostSets[h] = pool.want[h]
                                /\ pool.status.phase = "Ready")

\* Nothing runs, waits in the queue or is on its way to a cache.
AtRest == pc = "idle" /\ ~queued /\ poolSeen = pool /\ seen = inst

\* The controller never rests on a pool that is to be deleted, whatever the
\* lists show and whatever fails: a deletion pass that is not over comes back
\* (:510-512, :535-538).
DeletionNotForgotten ==
  pool.live = "deleting" /\ pc = "idle" => queued \/ poolSeen # pool

-----------------------------------------------------------------------------
(***************************************************************************)
(* What the documents say and the code does not keep.                      *)
(***************************************************************************)
\* "creates or deletes BareMetalInstances to match the desired replica count
\* per hostType" (baremetalpool_controller.go:339): it does so by the time it
\* rests.
MatchesAtRest ==
  AtRest /\ pool.live = "present" /\ configured =>
    \A h \in HostTypes : Replicas(h) = pool.want[h]
=============================================================================
