------------------------ MODULE BareMetalPoolRestProofs ------------------------
(***************************************************************************)
(* Proofs that the pool controller does not rest too early, for any host   *)
(* types, any finite set of names and any bounds: never on a pool that is  *)
(* to be deleted, and, with lists that are up to date, not before the pool *)
(* has what was asked for.                                                 *)
(*                                                                         *)
(* The second argument counts.  From the list on, the reconcile keeps a    *)
(* number of instances of each type; the number is right as long as no     *)
(* instance has been lost, and one that is lost leaves something pending   *)
(* until the controller is in the queue again.                             *)
(***************************************************************************)
EXTENDS BareMetalPoolProofs

\* The list this step reads, if it reads one, shows what there is.
ListIsUpToDate == pc = "list" /\ pc' = "scale" => Present(seen) = Present(inst)

\* The controller with lists that are up to date when they are read.
UpToDateSpec == Init /\ [][Next /\ ListIsUpToDate]_vars

\* With such lists the controller never rests too early: once nothing is under
\* way any more, the pool has the replicas asked for, its status counts them
\* and it is Ready - whatever was changed, deleted, lost or restarted on the
\* way, and whichever calls failed (:340-405, :132-152).
QuiescentIsDone ==
  AtRest /\ pool.live = "present" /\ configured
         /\ (\A i \in Instances : inst[i].live # "deleting")
    => \A h \in HostTypes : /\ Replicas(h) = pool.want[h]
                            /\ pool.status.hostSets[h] = pool.want[h]
                            /\ pool.status.phase = "Ready"

-----------------------------------------------------------------------------
\* A return keeps the pool in the queue, and puts it there when it asks for it.
LEMMA ReturnQueues ==
  ASSUME TypeOK, NEW w, NEW again \in BOOLEAN, Return(w, again)
  PROVE  /\ queued' \in {queued, TRUE}
         /\ again = TRUE => queued' = TRUE
         /\ pc' = "status"
<1>1. queued' = (queued \/ again) /\ pc' = "status"
  BY DEF Return, Call
<1>2. queued \in BOOLEAN
  BY DEF TypeOK
<1>3. again = TRUE => queued' = TRUE
  BY <1>1, Zenon
<1>4. again = FALSE => queued' = queued
  BY <1>1, <1>2, Zenon
<1> QED  BY <1>1, <1>3, <1>4

-----------------------------------------------------------------------------
(***************************************************************************)
(* The deletion.                                                           *)
(***************************************************************************)
SeenGone == poolSeen.live = "gone" => pool.live = "gone"

\* A deletion is in the queue, still to be shown by the cache, or under way.
DeletionUnderWay ==
  pool.live = "deleting" =>
    \/ queued
    \/ poolSeen.live = "present"
    \/ pc \in {"listAll", "teardown", "dropFinalizer"}

\* What a reconcile that drops the finalizer is about to store.
DropsFinalizer ==
  /\ pc = "dropFinalizer" => ~work.fin
  /\ pc \in {"listAll", "dropFinalizer"} /\ fresh => pool.live = "deleting"

DeletionParts == SeenGone /\ DeletionUnderWay /\ DropsFinalizer

DeletionInv == IInv /\ DeletionParts

LEMMA InitDeletion ==
  ASSUME Init
  PROVE  DeletionParts
<1>1. pool.live = "present"
  BY DEF Init
<1> QED  BY <1>1 DEF Init, DeletionParts, SeenGone, DeletionUnderWay, DropsFinalizer

\* Steps that leave the pool and its cache alone and do not end a deletion
\* pass, or put the pool into the queue.
LEMMA OthersKeepDeletion ==
  ASSUME DeletionInv, UNCHANGED <<pool, poolSeen, fresh>>, queued' \in {queued, TRUE},
         \/ UNCHANGED <<pc, work>>
         \/ pc' \notin {"listAll", "dropFinalizer"} /\ queued' = TRUE
         \/ pc = "listAll" /\ pc' = "teardown"
         \/ pc = "listAll" /\ pc' = "dropFinalizer" /\ ~work'.fin
         \/ pc \notin {"listAll", "teardown", "dropFinalizer"}
            /\ pc' \notin {"listAll", "dropFinalizer"}
  PROVE  DeletionParts'
BY DEF DeletionInv, DeletionParts, SeenGone, DeletionUnderWay, DropsFinalizer

LEMMA UserKeepsDeletion ==
  ASSUME DeletionInv, ChangeReplicas \/ DeletePool
  PROVE  DeletionParts'
<1>1. /\ pool'.live = pool.live \/ (pool.live = "present" /\ pool'.live \in {"deleting", "gone"})
      /\ pool.live = "gone" => pool'.live = "gone"
  BY DEF DeletionInv, IInv, TypeOK, Pools, ChangeReplicas, DeletePool
<1>2. UNCHANGED <<poolSeen, pc, work, queued>> /\ fresh' = FALSE
  BY DEF ChangeReplicas, DeletePool
<1>3. pool.live = "present" => poolSeen.live = "present"
  BY DEF DeletionInv, IInv, FinalizerInv, SeenDeletion
<1> QED
  BY <1>1, <1>2, <1>3 DEF DeletionInv, DeletionParts, SeenGone, DeletionUnderWay, DropsFinalizer

LEMMA SyncKeepsDeletion ==
  ASSUME DeletionInv, SyncPool \/ Restart
  PROVE  DeletionParts'
<1>1. poolSeen' = pool /\ pool' = pool /\ queued'
      /\ (pc' = "idle" \/ UNCHANGED <<pc, work, fresh>>)
  BY DEF SyncPool, Restart, reconcile
<1> QED
  BY <1>1 DEF DeletionInv, DeletionParts, SeenGone, DeletionUnderWay, DropsFinalizer

LEMMA ReconcileKeepsDeletion ==
  ASSUME DeletionInv, Reconcile
  PROVE  DeletionParts'
<1>1. UNCHANGED <<pool, poolSeen>> /\ pc = "idle"
  BY DEF Reconcile
<1>2. CASE poolSeen.live = "gone" /\ UNCHANGED <<pc, work, read, fresh>>
  BY <1>1, <1>2 DEF DeletionInv, DeletionParts, SeenGone, DeletionUnderWay, DropsFinalizer
<1>3. CASE pc' = "listAll" /\ poolSeen.live = "deleting" /\ fresh' = (poolSeen = pool)
  BY <1>1, <1>3 DEF DeletionInv, DeletionParts, SeenGone, DeletionUnderWay, DropsFinalizer
<1>4. CASE poolSeen.live = "present" /\ pc' \in {"status", "addFinalizer", "list"}
  BY <1>1, <1>4 DEF DeletionInv, DeletionParts, SeenGone, DeletionUnderWay, DropsFinalizer
<1> QED  BY <1>2, <1>3, <1>4 DEF Reconcile, HandleUpdate, Call

LEMMA ApplyKeepsDeletion ==
  ASSUME DeletionInv, Apply, pc \in {"addFinalizer", "dropFinalizer"}, UNCHANGED poolSeen,
         queued' \in {queued, TRUE},
         pc' = "status" \/ (pc = "addFinalizer" /\ pc' = "list")
  PROVE  DeletionParts'
<1>1. work \in Pools /\ pool \in Pools /\ fresh
  BY DEF DeletionInv, IInv, TypeOK, Apply
<1>2. CASE pc = "addFinalizer"
  <2>1. work.live = "present" /\ pool.live = "present"
    BY <1>1, <1>2 DEF DeletionInv, IInv, FinalizerInv, AddsFinalizer
  <2>2. pool'.live = "present"
    BY <1>1, <2>1 DEF Apply, Pools
  <2> QED
    BY <1>2, <2>1, <2>2 DEF DeletionInv, DeletionParts, SeenGone, DeletionUnderWay, DropsFinalizer
<1>3. CASE pc = "dropFinalizer"
  <2>1. work.live = "deleting" /\ ~work.fin /\ poolSeen.live # "present"
    BY <1>3 DEF DeletionInv, IInv, FinalizerInv, TearsDown, DeletionParts, DropsFinalizer
  <2>2. pool.live = "deleting"
    BY <1>1, <1>3 DEF DeletionInv, DeletionParts, DropsFinalizer
  <2>3. pool'.live = "gone"
    BY <1>1, <2>1, <2>2 DEF Apply, Pools
  <2> QED
    BY <1>3, <2>3 DEF DeletionParts, SeenGone, DeletionUnderWay, DropsFinalizer
<1> QED  BY <1>2, <1>3

LEMMA WriteKeepsDeletion ==
  ASSUME DeletionInv, WriteStatus
  PROVE  DeletionParts'
<1>1. /\ pool'.live = pool.live /\ pc = "status" /\ pc' = "idle" /\ poolSeen' = poolSeen
      /\ queued => queued'
  BY DEF WriteStatus, DeletionInv, IInv, TypeOK, Pools
<1> QED
  BY <1>1 DEF DeletionInv, DeletionParts, SeenGone, DeletionUnderWay, DropsFinalizer

LEMMA StepKeepsDeletion ==
  ASSUME DeletionInv, Step
  PROVE  DeletionParts'
<1>1. CASE AddFinalizer \/ DropFinalizer \/ AnswerLost
  BY <1>1, ApplyKeepsDeletion, ReturnQueues DEF DeletionInv, IInv, AddFinalizer, DropFinalizer, AnswerLost, Call
<1>2. CASE WriteStatus
  BY <1>2, WriteKeepsDeletion
<1>3. CASE CallFails \/ CheckReady \/ List
  BY <1>3, OthersKeepDeletion, ReturnQueues DEF DeletionInv, IInv, CallFails, CheckReady, List, Call
<1>4. CASE ListAll
  <2>1. ~[work EXCEPT !.fin = FALSE].fin
    BY DEF DeletionInv, IInv, TypeOK, Pools
  <2> QED  BY <1>4, <2>1, OthersKeepDeletion, ReturnQueues DEF DeletionInv, IInv, ListAll, Call
<1>5. ASSUME NEW h \in HostTypes, CreateInstance(h)
      PROVE  DeletionParts'
  BY <1>5, OthersKeepDeletion, ReturnQueues DEF DeletionInv, IInv, CreateInstance, Call
<1>6. ASSUME NEW i \in Instances, DeleteInstance(i) \/ Teardown(i)
      PROVE  DeletionParts'
  BY <1>6, OthersKeepDeletion, ReturnQueues DEF DeletionInv, IInv, DeleteInstance, Teardown, Call
<1> QED  BY <1>1, <1>2, <1>3, <1>4, <1>5, <1>6 DEF Step

\* What happens to instances, and whom it wakes.
LEMMA InstanceQueues ==
  ASSUME TypeOK, NEW i \in Instances,
         \/ DeleteInstanceByHand(i) \/ InstanceGone(i) \/ CollectGarbage(i)
         \/ SyncInstance(i) \/ BecomesReady(i) \/ InstanceFails(i)
  PROVE  /\ queued' \in {queued, TRUE}
         /\ UNCHANGED <<pool, poolSeen, configured, reconcile>>
<1>1. \/ queued' = queued
      \/ queued' = (queued \/ (seen[i].live = "gone" /\ inst[i].owned))
      \/ queued' = (queued \/ Wakes(i))
  BY DEF DeleteInstanceByHand, InstanceGone, CollectGarbage, SyncInstance, BecomesReady,
         InstanceFails
<1>2. queued \in BOOLEAN
  BY DEF TypeOK
<1>3. queued' = queued \/ queued' = TRUE
  BY <1>1, <1>2, Zenon DEF Wakes
<1> QED
  BY <1>3 DEF DeleteInstanceByHand, InstanceGone, CollectGarbage, SyncInstance, BecomesReady,
              InstanceFails

LEMMA NextDeletion == DeletionInv /\ [Next]_vars => DeletionParts'
<1> SUFFICES ASSUME DeletionInv, [Next]_vars PROVE DeletionParts'
  OBVIOUS
<1>1. CASE UNCHANGED vars
  BY <1>1, OthersKeepDeletion DEF vars, reconcile
<1>2. ASSUME NEW i \in Instances,
             \/ DeleteInstanceByHand(i) \/ InstanceGone(i) \/ CollectGarbage(i)
             \/ SyncInstance(i) \/ BecomesReady(i) \/ InstanceFails(i)
      PROVE  DeletionParts'
  BY <1>2, InstanceQueues, OthersKeepDeletion DEF DeletionInv, IInv, reconcile
<1> QED
  BY <1>1, <1>2, UserKeepsDeletion, SyncKeepsDeletion, ReconcileKeepsDeletion,
     StepKeepsDeletion DEF Next

\* Whatever the lists show and whatever fails, the controller does not rest on
\* a pool that is to be deleted (every return of handleDeletion but the last).
THEOREM NoDeletionForgotten == Spec => []DeletionNotForgotten
<1>1. Init => DeletionInv
  BY InitType, InitFinalizer, InitDeletion DEF DeletionInv, IInv
<1>2. DeletionInv /\ [Next]_vars => DeletionInv'
  BY NextType, NextFinalizer, NextDeletion DEF DeletionInv, IInv
<1>3. DeletionInv => DeletionNotForgotten
  BY DEF DeletionInv, DeletionParts, DeletionUnderWay, DeletionNotForgotten
<1> QED  BY <1>1, <1>2, <1>3, PTL DEF Spec

-----------------------------------------------------------------------------
(***************************************************************************)
(* The number of instances.                                                *)
(***************************************************************************)
\* An instance is going or gone, and the controller is still to hear of it.
Lost(i) == \/ inst[i].live = "deleting"
           \/ inst[i].live = "gone" /\ seen[i].live # "gone"

Pending == queued \/ \E i \in Instances : Lost(i)

AllOwned == \A i \in Instances : inst[i].owned

NoneMade == pc # "scale" => made = None

\* Unless the pool has changed since, the copy is of what the cache shows.
CopyIsSeen ==
  ~queued /\ pc # "idle" =>
    /\ read = poolSeen.status
    /\ pc \in {"addFinalizer", "list", "scale"} => work.want = poolSeen.want

\* The status s is that of a pool that has what its cache asks for.
Fits(s) ==
  \A h \in HostTypes : /\ Replicas(h) = poolSeen.want[h]
                       /\ s.hostSets[h] = poolSeen.want[h]
                       /\ s.phase = "Ready"

\* The reconcile counts right, what it reports fits, and so does what is stored.
CountIsRight ==
  pc = "scale" => /\ \A i \in listed : inst[i].live = "present"
                  /\ \A h \in HostTypes : Replicas(h) = Have(h)

ReportFits == pc = "status" => Fits(work.status)

StoredFits == pc = "idle" /\ poolSeen.status = pool.status => Fits(pool.status)

Settled ==
  pool.live = "present" /\ configured /\ ~Pending => CountIsRight /\ ReportFits /\ StoredFits

RestParts == AllOwned /\ NoneMade /\ CopyIsSeen /\ Settled

RestInv == DeletionInv /\ RestParts

LEMMA InitRest ==
  ASSUME Init
  PROVE  RestParts
<1>1. AllOwned
  BY DEF Init, AllOwned
<1>2. queued = TRUE /\ pc = "idle" /\ made = None
  BY DEF Init
<1> QED  BY <1>1, <1>2 DEF RestParts, NoneMade, CopyIsSeen, Settled, Pending

\* When the controller is in the queue, nothing is claimed of it.
LEMMA QueuedKeepsRest ==
  ASSUME RestInv, queued' = TRUE, AllOwned', NoneMade'
  PROVE  RestParts'
BY DEF RestParts, CopyIsSeen, Settled, Pending

\* Nor is it when an instance is on its way out.
LEMMA LostKeepsRest ==
  ASSUME RestInv, AllOwned', NoneMade', CopyIsSeen', NEW i \in Instances, Lost(i)'
  PROVE  RestParts'
BY DEF RestParts, Settled, Pending

\* Steps that touch neither instances nor what the reconcile works on.
LEMMA OthersKeepRest ==
  ASSUME RestInv,
         UNCHANGED <<poolSeen, inst, seen, configured, queued, pc, work, read, listed, made>>,
         pool'.live = "present" => pool.live = "present",
         pool'.status = pool.status
  PROVE  RestParts'
<1>1. AllOwned' /\ NoneMade' /\ CopyIsSeen'
  BY DEF RestInv, RestParts, AllOwned, NoneMade, CopyIsSeen
<1>2. Pending' <=> Pending
  BY DEF Pending, Lost
<1>3. \A h \in HostTypes : Replicas(h)' = Replicas(h) /\ Have(h)' = Have(h)
  BY DEF Replicas, OfType, Present, Have
<1>4. Settled'
  BY <1>2, <1>3 DEF RestInv, RestParts, Settled, CountIsRight, ReportFits, StoredFits, Fits
<1> QED  BY <1>1, <1>4 DEF RestParts

\* Users and the cluster.
LEMMA UserKeepsRest ==
  ASSUME RestInv, ChangeReplicas \/ DeletePool
  PROVE  RestParts'
<1>1. pool'.status = pool.status /\ (pool'.live = "present" => pool.live = "present")
  BY DEF RestInv, DeletionInv, IInv, TypeOK, Pools, ChangeReplicas, DeletePool
<1> QED  BY <1>1, OthersKeepRest DEF ChangeReplicas, DeletePool

\* A deletion changes no owner.
LEMMA DeletedOwned ==
  ASSUME RestInv, NEW i \in Instances, Deleted(i)
  PROVE  AllOwned'
<1>1. inst \in [Instances -> InstanceStates]
  BY DEF RestInv, DeletionInv, IInv, TypeOK
<1> QED  BY <1>1 DEF RestInv, RestParts, AllOwned, InstanceStates, Deleted

\* A loss leaves something to be heard of.
LEMMA LossKeepsRest ==
  ASSUME RestInv, NEW i \in Instances, Deleted(i) \/ InstanceGone(i),
         inst[i].live # "gone" \/ Lost(i), UNCHANGED <<seen, pc>>, NoneMade', CopyIsSeen'
  PROVE  RestParts'
<1>1. inst \in [Instances -> InstanceStates]
  BY DEF RestInv, DeletionInv, IInv, TypeOK
<1>2. AllOwned'
  BY <1>1 DEF RestInv, RestParts, AllOwned, InstanceStates, Deleted, InstanceGone
<1>3. CASE Deleted(i)
  <2>1. Lost(i)'
    BY <1>1, <1>3 DEF Deleted, Lost, InstanceStates
  <2> QED  BY <1>2, <2>1, LostKeepsRest
<1>4. CASE InstanceGone(i)
  <2>1. inst'[i].live = "gone"
    BY <1>1, <1>4 DEF InstanceGone, InstanceStates
  <2>2. CASE seen[i].live # "gone"
    BY <1>2, <2>1, <2>2, LostKeepsRest DEF Lost
  <2>3. CASE seen[i].live = "gone"
    <3>1. queued' = (queued \/ (seen[i].live = "gone" /\ inst[i].owned)) /\ inst[i].owned
      BY <1>4 DEF InstanceGone, RestInv, RestParts, AllOwned
    <3>2. queued' = TRUE
      BY <3>1, <2>3, Zenon
    <3> QED  BY <1>2, <3>2, QueuedKeepsRest
  <2> QED  BY <2>2, <2>3
<1> QED  BY <1>3, <1>4

\* The copy is left alone, and the queue at most filled.
LEMMA CopyStays ==
  ASSUME RestInv, UNCHANGED <<poolSeen, pc, work, read, made>>, queued' \in {queued, TRUE}
  PROVE  NoneMade' /\ CopyIsSeen'
BY DEF RestInv, RestParts, NoneMade, CopyIsSeen

LEMMA SyncInstanceKeepsRest ==
  ASSUME RestInv, NEW i \in Instances, SyncInstance(i)
  PROVE  RestParts'
<1>1. /\ UNCHANGED <<pool, poolSeen, inst, configured, pc, work, read, listed, made>>
      /\ seen' = [seen EXCEPT ![i] = inst[i]]
  BY DEF SyncInstance, reconcile
<1>2. AllOwned' /\ inst[i].owned
  BY <1>1 DEF RestInv, RestParts, AllOwned
<1>3. queued' = (queued \/ Wakes(i))
  BY DEF SyncInstance
<1>4. queued' \in {queued, TRUE} /\ TypeOK
  BY InstanceQueues DEF RestInv, DeletionInv, IInv
<1>5. NoneMade' /\ CopyIsSeen'
  BY <1>1, <1>4, CopyStays
<1>6. CASE inst[i].live = "gone"
  <2>1. Wakes(i)
    BY <1>2, <1>6 DEF Wakes
  <2>2. queued' = TRUE
    BY <1>3, <2>1, Zenon
  <2> QED  BY <1>2, <1>5, <2>2, QueuedKeepsRest
<1>7. CASE inst[i].live # "gone"
  <2>1. ~Wakes(i)
    BY <1>7 DEF Wakes
  <2>2. queued' = queued
    BY <1>3, <1>4, <2>1, Zenon DEF TypeOK
  <2>3. \A j \in Instances : Lost(j)' <=> Lost(j)
    BY <1>1, <1>4, <1>7 DEF Lost, TypeOK
  <2>4. Pending' <=> Pending
    BY <2>2, <2>3 DEF Pending
  <2>5. \A h \in HostTypes : Replicas(h)' = Replicas(h) /\ Have(h)' = Have(h)
    BY <1>1 DEF Replicas, OfType, Present, Have
  <2>6. Settled'
    BY <1>1, <2>4, <2>5
       DEF RestInv, RestParts, Settled, CountIsRight, ReportFits, StoredFits, Fits
  <2> QED  BY <1>2, <1>5, <2>6 DEF RestParts
<1> QED  BY <1>6, <1>7

LEMMA InstancesKeepRest ==
  ASSUME RestInv, NEW i \in Instances,
         \/ DeleteInstanceByHand(i) \/ InstanceGone(i) \/ CollectGarbage(i)
         \/ SyncInstance(i) \/ BecomesReady(i) \/ InstanceFails(i)
  PROVE  RestParts'
<1>1. NoneMade' /\ CopyIsSeen'
  BY InstanceQueues, CopyStays DEF RestInv, DeletionInv, IInv, reconcile
<1>2. CASE DeleteInstanceByHand(i) \/ InstanceGone(i) \/ CollectGarbage(i)
  BY <1>1, <1>2, LossKeepsRest DEF DeleteInstanceByHand, InstanceGone, CollectGarbage, reconcile
<1>3. CASE SyncInstance(i)
  BY <1>3, SyncInstanceKeepsRest
<1>4. CASE BecomesReady(i) \/ InstanceFails(i)
  BY <1>4, OthersKeepRest DEF BecomesReady, InstanceFails, reconcile
<1> QED  BY <1>2, <1>3, <1>4

LEMMA SyncKeepsRest ==
  ASSUME RestInv, SyncPool \/ Restart
  PROVE  RestParts'
<1>1. /\ queued' = TRUE /\ inst' = inst
      /\ (pc' = "idle" /\ made' = None) \/ UNCHANGED <<pc, made>>
  BY DEF SyncPool, Restart, reconcile
<1>2. AllOwned' /\ NoneMade'
  BY <1>1 DEF RestInv, RestParts, AllOwned, NoneMade
<1> QED  BY <1>1, <1>2, QueuedKeepsRest

\* A return that asks to be run again, and any other into the queue.
LEMMA RequeueKeepsRest ==
  ASSUME RestInv, NEW w, Return(w, TRUE), AllOwned'
  PROVE  RestParts'
<1>1. queued' = TRUE /\ pc' = "status" /\ made' = None
  BY ReturnQueues DEF Return, RestInv, DeletionInv, IInv
<1> QED  BY <1>1, QueuedKeepsRest DEF NoneMade

\* Steps of a reconcile of a pool that is not to be kept.
LEMMA DeletedKeepsRest ==
  ASSUME RestInv, AllOwned', NoneMade', CopyIsSeen', pool'.live # "present"
  PROVE  RestParts'
BY DEF RestParts, Settled

LEMMA ReconcileKeepsRest ==
  ASSUME RestInv, Reconcile
  PROVE  RestParts'
<1>1. /\ UNCHANGED <<pool, poolSeen, inst, seen, ready, configured, listed, made, changes, faults>>
      /\ pc = "idle" /\ poolSeen \in Pools
  BY DEF Reconcile, RestInv, DeletionInv, IInv, TypeOK
<1>2. AllOwned' /\ made' = None
  BY <1>1 DEF RestInv, RestParts, AllOwned, NoneMade
<1>3. CASE poolSeen.live = "gone" /\ UNCHANGED <<pc, work, read, fresh>>
  <2>1. pool'.live # "present"
    BY <1>1, <1>3 DEF RestInv, DeletionInv, DeletionParts, SeenGone
  <2> QED  BY <1>1, <1>2, <1>3, <2>1, DeletedKeepsRest DEF NoneMade, CopyIsSeen
<1>4. CASE /\ poolSeen.live = "deleting" /\ read' = poolSeen.status
           /\ Call("listAll", [poolSeen EXCEPT !.status.phase = "Deleting"])
  <2>1. pool'.live # "present"
    BY <1>1, <1>4 DEF RestInv, DeletionInv, IInv, FinalizerInv, SeenDeletion
  <2> QED  BY <1>1, <1>2, <1>4, <2>1, DeletedKeepsRest DEF NoneMade, CopyIsSeen, Call
<1>5. CASE poolSeen.live = "present" /\ read' = poolSeen.status
  <2>1. PICK p : p = IF poolSeen.status.phase = "" THEN "Progressing"
                                                   ELSE poolSeen.status.phase
    OBVIOUS
  <2>2. PICK w : w = [poolSeen EXCEPT !.status.phase = p]
    OBVIOUS
  <2>3. HandleUpdate(w)
    BY <1>5, <2>1, <2>2 DEF Reconcile
  <2>4. w.want = poolSeen.want /\ [w EXCEPT !.fin = TRUE].want = poolSeen.want
    BY <1>1, <2>2 DEF Pools
  <2>5. \/ pc' = "status" /\ ~configured
        \/ pc' \in {"addFinalizer", "list"} /\ work'.want = poolSeen.want
    BY <2>3, <2>4 DEF HandleUpdate, Call
  <2>6. NoneMade' /\ CopyIsSeen'
    BY <1>1, <1>2, <1>5, <2>5 DEF NoneMade, CopyIsSeen
  <2>7. Settled'
    BY <1>1, <2>5 DEF Settled, CountIsRight, ReportFits, StoredFits
  <2> QED  BY <1>2, <2>6, <2>7 DEF RestParts
<1> QED  BY <1>3, <1>4, <1>5 DEF Reconcile

\* The list: from here on the reconcile counts.
LEMMA ListKeepsRest ==
  ASSUME RestInv, List, ListIsUpToDate
  PROVE  RestParts'
<1>1. /\ UNCHANGED <<pool, poolSeen, inst, seen, configured, queued, read, made, work>>
      /\ pc = "list" /\ pc' = "scale" /\ listed' = Present(inst) /\ made = None
  BY DEF List, Call, ListIsUpToDate, RestInv, RestParts, NoneMade
<1>2. AllOwned' /\ NoneMade' /\ CopyIsSeen'
  BY <1>1 DEF RestInv, RestParts, AllOwned, NoneMade, CopyIsSeen
<1>3. ASSUME NEW h \in HostTypes
      PROVE  Replicas(h)' = Have(h)'
  <2>1. OfType(Present(inst), h) \subseteq Instances
    BY DEF OfType, Present
  <2>2. Cardinality(OfType(Present(inst), h)) \in Nat
    BY <2>1, InstancesAssumption, FS_Subset, FS_CardinalityType
  <2>3. made'[h] = 0
    BY <1>1 DEF None
  <2>4. Have(h)' = Cardinality(OfType(Present(inst), h)) + 0
    BY <1>1, <2>3 DEF Have, OfType
  <2> QED  BY <1>1, <2>2, <2>4 DEF Replicas, OfType, Present
<1>4. Settled'
  BY <1>1, <1>3 DEF Settled, CountIsRight, ReportFits, StoredFits, Present
<1> QED  BY <1>2, <1>4 DEF RestParts

\* One instance more of its type.
LEMMA CreateCounts ==
  ASSUME TypeOK, NEW h \in HostTypes, NEW i \in Free,
         inst' = [inst EXCEPT ![i] = NewInstance(h)], NEW g \in HostTypes
  PROVE  /\ Replicas(g)' = IF g = h THEN Replicas(g) + 1 ELSE Replicas(g)
         /\ Replicas(g) \in Nat
         /\ {j \in listed : inst'[j].type = g} = OfType(listed, g)
<1>1. /\ i \in Instances /\ inst[i].live = "gone" /\ i \notin listed
      /\ inst \in [Instances -> InstanceStates] /\ listed \subseteq Instances
  BY DEF Free, TypeOK
<1>2. inst'[i].live = "present" /\ inst'[i].type = h
  BY <1>1 DEF NewInstance
<1>3. \A j \in Instances \ {i} : inst'[j] = inst[j]
  BY <1>1
<1>4. {j \in listed : inst'[j].type = g} = OfType(listed, g)
  BY <1>1, <1>3 DEF OfType
<1> DEFINE P == {j \in Instances : inst[j].live = "present" /\ inst[j].type = g}
           Q == {j \in Instances : inst'[j].live = "present" /\ inst'[j].type = g}
<1>5. Replicas(g) = Cardinality(P) /\ Replicas(g)' = Cardinality(Q)
  <2>1. OfType(Present(inst), g) = P /\ OfType(Present(inst), g)' = Q
    BY DEF OfType, Present
  <2> QED  BY <2>1 DEF Replicas
<1>6. P \subseteq Instances /\ IsFiniteSet(P) /\ Cardinality(P) \in Nat
  BY InstancesAssumption, FS_Subset, FS_CardinalityType
<1>7. CASE g = h
  <2>1. Q = P \cup {i} /\ i \notin P
    BY <1>1, <1>2, <1>3, <1>7
  <2>2. Cardinality(Q) = Cardinality(P) + 1
    BY <1>6, <2>1, FS_AddElement
  <2> QED  BY <1>4, <1>5, <1>6, <1>7, <2>2
<1>8. CASE g # h
  <2>1. Q = P
    BY <1>1, <1>2, <1>3, <1>8
  <2> QED  BY <1>4, <1>5, <1>6, <1>8, <2>1
<1> QED  BY <1>7, <1>8

LEMMA CreateKeepsRest ==
  ASSUME RestInv, NEW h \in HostTypes, CreateInstance(h)
  PROVE  RestParts'
<1>1. PICK i \in Free : inst' = [inst EXCEPT ![i] = NewInstance(h)]
  BY DEF CreateInstance
<1>2. /\ UNCHANGED <<pool, poolSeen, seen, configured, read>> /\ pc = "scale"
      /\ i \in Instances /\ inst[i].live = "gone" /\ seen[i] = inst[i] /\ i \notin listed
      /\ inst \in [Instances -> InstanceStates] /\ TypeOK
  BY DEF CreateInstance, Free, RestInv, DeletionInv, IInv, TypeOK
<1>3. inst'[i].live = "present" /\ inst'[i].owned /\ \A j \in Instances \ {i} : inst'[j] = inst[j]
  BY <1>1, <1>2 DEF NewInstance
<1>4. AllOwned'
  BY <1>3 DEF AllOwned, RestInv, RestParts
<1>5. CASE Return(Counted(Failed(work)), TRUE)
  BY <1>4, <1>5, RequeueKeepsRest
<1>6. CASE made' = [made EXCEPT ![h] = @ + 1] /\ UNCHANGED <<queued, pc, work, listed>>
  <2>1. NoneMade' /\ CopyIsSeen'
    BY <1>2, <1>6 DEF NoneMade, CopyIsSeen, RestInv, RestParts
  <2>2. \A j \in Instances : Lost(j) => Lost(j)'
    BY <1>2, <1>3 DEF Lost
  <2>3. Pending => Pending'
    BY <1>6, <2>2 DEF Pending
  <2>4. ASSUME CountIsRight
        PROVE  CountIsRight'
    <3>1. \A j \in listed' : inst'[j].live = "present"
      BY <1>2, <1>3, <1>6, <2>4 DEF CountIsRight, TypeOK
    <3>2. ASSUME NEW g \in HostTypes
          PROVE  Replicas(g)' = Have(g)'
      <4>1. made[g] \in Nat /\ made'[g] = IF g = h THEN made[g] + 1 ELSE made[g]
        BY <1>2, <1>6 DEF TypeOK, Counts
      <4>2. OfType(listed, g)' = OfType(listed, g)
        BY <1>1, <1>2, <1>6, CreateCounts DEF OfType
      <4>3. Have(g)' = Cardinality(OfType(listed, g)) + made'[g]
        BY <4>2 DEF Have
      <4>4. Have(g) = Cardinality(OfType(listed, g)) + made[g] /\ Have(g) = Replicas(g)
        BY <1>2, <2>4 DEF Have, CountIsRight
      <4>5. OfType(listed, g) \subseteq Instances
        BY <1>2 DEF TypeOK, OfType
      <4>6. Cardinality(OfType(listed, g)) \in Nat
        BY <4>5, InstancesAssumption, FS_Subset, FS_CardinalityType
      <4>7. Replicas(g)' = IF g = h THEN Replicas(g) + 1 ELSE Replicas(g)
        BY <1>1, <1>2, CreateCounts
      <4> QED  BY <4>1, <4>3, <4>4, <4>6, <4>7
    <3> QED  BY <3>1, <3>2 DEF CountIsRight
  <2>5. Settled'
    BY <1>2, <1>6, <2>3, <2>4
       DEF RestInv, RestParts, Settled, ReportFits, StoredFits
  <2> QED  BY <1>4, <2>1, <2>5 DEF RestParts
<1> QED  BY <1>5, <1>6 DEF CreateInstance

\* An instance the reconcile deletes is there as long as its count is right.
LEMMA DeleteKeepsRest ==
  ASSUME RestInv, NEW i \in Instances, DeleteInstance(i)
  PROVE  RestParts'
<1>1. /\ UNCHANGED <<pool, poolSeen, seen, configured, read>> /\ pc = "scale" /\ i \in listed
      /\ Deleted(i) /\ inst \in [Instances -> InstanceStates]
  BY DEF DeleteInstance, RestInv, DeletionInv, IInv, TypeOK
<1>2. AllOwned'
  BY <1>1, DeletedOwned
<1>3. CASE Return(Counted(Failed(work)), TRUE)
  BY <1>2, <1>3, RequeueKeepsRest
<1>4. CASE UNCHANGED <<queued, pc, work, made>>
  <2>1. NoneMade' /\ CopyIsSeen'
    BY <1>1, <1>4, CopyStays
  <2>2. \A j \in Instances : inst[j].live # "present" \/ j = i =>
          (inst[j].live # "gone" \/ Lost(j) => Lost(j)')
    BY <1>1 DEF Lost, Deleted, InstanceStates
  <2>3. CASE pool.live # "present" \/ ~configured
    BY <1>1, <1>2, <2>1, <2>3 DEF RestParts, Settled
  <2>4. CASE queued
    BY <1>2, <1>4, <2>1, <2>4 DEF RestParts, Settled, Pending
  <2>5. CASE \E j \in Instances : Lost(j)
    <3>1. PICK j \in Instances : Lost(j)
      BY <2>5
    <3>2. Lost(j)'
      BY <2>2, <3>1 DEF Lost
    <3> QED  BY <1>2, <2>1, <3>2, LostKeepsRest
  <2>6. CASE pool.live = "present" /\ configured /\ ~Pending
    <3>1. inst[i].live = "present"
      BY <1>1, <2>6 DEF RestInv, RestParts, Settled, CountIsRight
    <3>2. Lost(i)'
      BY <2>2, <3>1
    <3> QED  BY <1>2, <2>1, <3>2, LostKeepsRest
  <2> QED  BY <2>3, <2>4, <2>5, <2>6 DEF Pending
<1> QED  BY <1>3, <1>4 DEF DeleteInstance

\* The report that closes a reconcile whose count fits.
LEMMA ReadyKeepsRest ==
  ASSUME RestInv, CheckReady
  PROVE  RestParts'
<1>1. /\ UNCHANGED <<pool, poolSeen, inst, seen, configured, read>> /\ pc = "scale"
      /\ \A h \in HostTypes : Have(h) = work.want[h]
      /\ TypeOK
  BY DEF CheckReady, RestInv, DeletionInv, IInv
<1>2. AllOwned'
  BY <1>1 DEF RestInv, RestParts, AllOwned
<1>3. CASE Return([Counted(work) EXCEPT !.status.phase = "Progressing"], TRUE)
  BY <1>2, <1>3, RequeueKeepsRest
<1>4. CASE Return([Counted(work) EXCEPT !.status.phase = "Ready"], FALSE)
  <2>1. pc' = "status" /\ made' = None /\ queued' \in {queued, TRUE}
    BY <1>1, <1>4, ReturnQueues DEF Return
  <2>2. NoneMade' /\ CopyIsSeen'
    BY <1>1, <2>1 DEF NoneMade, CopyIsSeen, RestInv, RestParts
  <2>3. /\ work'.status.phase = "Ready"
        /\ \A h \in HostTypes : work'.status.hostSets[h] = Have(h)
    <3>1. work \in Pools /\ work.status \in Statuses
      BY <1>1, PoolType DEF TypeOK
    <3>2. PICK n : n = [h \in HostTypes |-> Have(h)]
      OBVIOUS
    <3>3. Counted(work) = [work EXCEPT !.status.hostSets = n]
      BY <3>2 DEF Counted
    <3>4. PICK w : w = [Counted(work) EXCEPT !.status.phase = "Ready"]
      OBVIOUS
    <3>5. w.status.phase = "Ready" /\ w.status.hostSets = n
      BY <3>1, <3>3, <3>4 DEF Pools, Statuses
    <3>6. work' = [Blank EXCEPT !.status = w.status]
      BY <1>4, <3>4 DEF Return, Call
    <3>7. work'.status = w.status
      BY <3>6 DEF Blank
    <3> QED  BY <3>2, <3>5, <3>7
  <2>4. \A h \in HostTypes : Replicas(h)' = Replicas(h)
    BY <1>1 DEF Replicas, OfType, Present
  <2>5. Pending => Pending'
    BY <1>1, <2>1 DEF Pending, Lost
  <2>6. Settled'
    BY <1>1, <2>1, <2>3, <2>4, <2>5
       DEF RestInv, RestParts, Settled, Pending, CopyIsSeen, CountIsRight, ReportFits, StoredFits, Fits
  <2> QED  BY <1>2, <2>2, <2>6 DEF RestParts
<1> QED  BY <1>3, <1>4 DEF CheckReady

LEMMA AddFinalizerKeepsRest ==
  ASSUME RestInv, AddFinalizer
  PROVE  RestParts'
<1>1. /\ UNCHANGED <<poolSeen, inst, seen, configured, queued, read, made>>
      /\ pc = "addFinalizer" /\ pc' = "list" /\ work' = Answer
      /\ work \in Pools
  BY DEF AddFinalizer, Call, RestInv, DeletionInv, IInv, TypeOK
<1>2. work'.want = work.want
  BY <1>1 DEF Answer, Pools
<1>3. AllOwned' /\ NoneMade' /\ CopyIsSeen'
  BY <1>1, <1>2 DEF RestInv, RestParts, AllOwned, NoneMade, CopyIsSeen
<1> QED  BY <1>1, <1>3 DEF RestParts, Settled, CountIsRight, ReportFits, StoredFits

LEMMA TeardownKeepsRest ==
  ASSUME RestInv, ListAll \/ DropFinalizer \/ \E i \in Instances : Teardown(i)
  PROVE  RestParts'
<1>1. /\ UNCHANGED <<poolSeen, read>> /\ TypeOK
      /\ pc \in {"listAll", "teardown", "dropFinalizer"} /\ made = None
  BY DEF ListAll, DropFinalizer, Teardown, RestInv, RestParts, NoneMade, DeletionInv, IInv
<1>2. pool'.live # "present"
  <2>1. poolSeen.live # "present" /\ pool.live # "present" /\ work.live = "deleting"
    BY <1>1 DEF RestInv, DeletionInv, IInv, FinalizerInv, TearsDown, SeenDeletion
  <2>2. CASE DropFinalizer
    BY <1>1, <2>1, <2>2 DEF DropFinalizer, Apply, TypeOK, Pools
  <2> QED  BY <2>1, <2>2 DEF ListAll, Teardown
<1>3. AllOwned'
  <2>1. CASE inst' = inst
    BY <2>1 DEF RestInv, RestParts, AllOwned
  <2>2. CASE \E i \in Instances : Deleted(i)
    BY <2>2, DeletedOwned
  <2> QED  BY <2>1, <2>2 DEF ListAll, DropFinalizer, Teardown
<1>4. /\ made' = None /\ pc' \in {"teardown", "dropFinalizer", "status"}
      /\ queued' \in {queued, TRUE}
  <2>1. CASE \E w : \E again \in BOOLEAN : Return(w, again)
    BY <1>1, <2>1, ReturnQueues DEF Return
  <2>2. CASE UNCHANGED <<made, queued>> /\ pc' \in {"teardown", "dropFinalizer"}
    BY <1>1, <2>2
  <2> QED  BY <1>1, <2>1, <2>2 DEF ListAll, DropFinalizer, Teardown, Call
<1>5. NoneMade'
  BY <1>4 DEF NoneMade
<1>6. CopyIsSeen'
  <2>1. queued => queued'
    BY <1>4
  <2>2. pc # "idle" /\ pc' \notin {"addFinalizer", "list", "scale"}
    BY <1>1, <1>4
  <2> QED  BY <1>1, <2>1, <2>2 DEF CopyIsSeen, RestInv, RestParts
<1> QED  BY <1>2, <1>3, <1>5, <1>6, DeletedKeepsRest

\* A report that is written, or need not be, becomes what is stored.
LEMMA WriteKeepsRest ==
  ASSUME RestInv, WriteStatus
  PROVE  RestParts'
<1>1. /\ UNCHANGED <<poolSeen, inst, seen, configured, listed, made>>
      /\ pc = "status" /\ pc' = "idle" /\ pool \in Pools
  BY DEF WriteStatus, RestInv, DeletionInv, IInv, TypeOK
<1>2. AllOwned' /\ NoneMade' /\ CopyIsSeen'
  BY <1>1 DEF RestInv, RestParts, AllOwned, NoneMade, CopyIsSeen
<1>3. CASE queued' = TRUE
  BY <1>2, <1>3, QueuedKeepsRest
<1>4. CASE queued' = queued
  <2>1. \/ pool.live # "present" /\ pool' = pool
        \/ work.status = read /\ pool' = pool
        \/ pool' = [pool EXCEPT !.status = work.status]
        \/ queued' = TRUE
    BY DEF WriteStatus
  <2>2. Pending' <=> Pending
    BY <1>1, <1>4 DEF Pending, Lost
  <2>3. \A h \in HostTypes : Replicas(h)' = Replicas(h)
    BY <1>1 DEF Replicas, OfType, Present
  <2>4. Settled'
    <3>1. SUFFICES ASSUME pool'.live = "present", configured', ~Pending',
                          poolSeen'.status = pool'.status
                   PROVE  Fits(pool.status)'
      BY <1>1 DEF Settled, CountIsRight, ReportFits, StoredFits
    <3>2. pool.live = "present"
      BY <1>1, <2>1, <3>1 DEF Pools, Pending
    <3>3. Fits(work.status)
      BY <1>1, <2>2, <3>1, <3>2 DEF RestInv, RestParts, Settled, ReportFits
    <3>4. read = poolSeen.status
      BY <1>1, <2>2, <3>1 DEF RestInv, RestParts, CopyIsSeen, Pending
    <3>5. pool'.status = work.status
      BY <1>1, <2>1, <3>1, <3>2, <3>4 DEF Pools, Pending
    <3> QED  BY <1>1, <2>3, <3>3, <3>5 DEF Fits
  <2> QED  BY <1>2, <2>4 DEF RestParts
<1> QED  BY <1>3, <1>4 DEF WriteStatus

LEMMA StepKeepsRest ==
  ASSUME RestInv, Step, ListIsUpToDate
  PROVE  RestParts'
<1>1. CASE CallFails \/ AnswerLost
  <2>1. Return(Errored, TRUE) /\ inst' = inst
    BY <1>1 DEF CallFails, AnswerLost
  <2> QED  BY <2>1, RequeueKeepsRest DEF AllOwned, RestInv, RestParts
<1> QED
  BY <1>1, AddFinalizerKeepsRest, ListKeepsRest, ReadyKeepsRest, TeardownKeepsRest,
     WriteKeepsRest, CreateKeepsRest, DeleteKeepsRest DEF Step

LEMMA NextRest == RestInv /\ [Next /\ ListIsUpToDate]_vars => RestParts'
<1> SUFFICES ASSUME RestInv, [Next /\ ListIsUpToDate]_vars PROVE RestParts'
  OBVIOUS
<1>1. CASE UNCHANGED vars
  BY <1>1, OthersKeepRest DEF vars, reconcile
<1> QED
  BY <1>1, UserKeepsRest, SyncKeepsRest, ReconcileKeepsRest, StepKeepsRest, InstancesKeepRest
     DEF Next

\* With lists that are up to date when they are read, the controller rests
\* only on a pool that has what was asked for and says so (handleUpdate,
\* updateStatusHostSets and the status write that closes Reconcile).
THEOREM RestsWhenDone == UpToDateSpec => []QuiescentIsDone
<1>1. Init => RestInv
  BY InitType, InitFinalizer, InitDeletion, InitRest DEF RestInv, DeletionInv, IInv
<1>2. RestInv /\ [Next /\ ListIsUpToDate]_vars => RestInv'
  <2>1. [Next /\ ListIsUpToDate]_vars => [Next]_vars
    OBVIOUS
  <2> QED
    BY <2>1, NextType, NextFinalizer, NextDeletion, NextRest DEF RestInv, DeletionInv, IInv
<1>3. RestInv => QuiescentIsDone
  <2> SUFFICES ASSUME RestInv, AtRest, pool.live = "present", configured,
                      \A i \in Instances : inst[i].live # "deleting"
               PROVE  Fits(pool.status) /\ poolSeen = pool
    BY DEF QuiescentIsDone, Fits
  <2>1. ~Pending /\ pc = "idle" /\ poolSeen = pool
    BY DEF AtRest, Pending, Lost
  <2> QED  BY <2>1 DEF RestInv, RestParts, Settled, StoredFits
<1> QED  BY <1>1, <1>2, <1>3, PTL DEF UpToDateSpec

\* The same under the condition ScalesWhenUpToDate is checked with.
COROLLARY RestsWhenUpToDate == Spec => ([]UpToDate => []QuiescentIsDone)
<1>1. UpToDate /\ [Next]_vars => [Next /\ ListIsUpToDate]_vars
  BY DEF UpToDate, ListIsUpToDate
<1>2. Spec /\ []UpToDate => UpToDateSpec
  BY <1>1, PTL DEF Spec, UpToDateSpec
<1> QED  BY <1>2, RestsWhenDone, PTL
=============================================================================
