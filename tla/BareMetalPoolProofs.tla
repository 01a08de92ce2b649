-------------------------- MODULE BareMetalPoolProofs --------------------------
(***************************************************************************)
(* Proofs about BareMetalPool, for any host types, any finite set of names *)
(* and any bounds.                                                         *)
(*                                                                         *)
(* That instances are created only under the finalizer is not a matter of  *)
(* the copy alone, which may be old: a pool loses its finalizer only after *)
(* its cache has shown the deletion, and from then on no reconcile takes   *)
(* it for a pool to update.                                                *)
(***************************************************************************)
EXTENDS BareMetalPool, FiniteSetTheorems, TLAPS

\* A pool whose finalizer the cache shows, and no deletion, has it still.
SeenFinalizer ==
  poolSeen.live = "present" /\ poolSeen.fin => pool.fin /\ pool.live # "gone"

\* A deletion the cache shows is one.
SeenDeletion == poolSeen.live # "present" => pool.live # "present"

\* The finalizer is there when instances are listed and created.
UnderFinalizer == pc \in {"list", "scale"} => pool.fin /\ pool.live # "gone"

\* A reconcile that tears the pool down was started by a deletion.
TearsDown ==
  pc \in {"listAll", "teardown", "dropFinalizer"} =>
    work.live = "deleting" /\ poolSeen.live # "present"

\* What a reconcile that adds the finalizer is about to store.
AddsFinalizer ==
  pc = "addFinalizer" =>
    work.live = "present" /\ work.fin /\ (fresh => pool.live = "present")

FinalizerInv == /\ SeenFinalizer /\ SeenDeletion /\ UnderFinalizer
                /\ TearsDown /\ AddsFinalizer

IInv == TypeOK /\ FinalizerInv

-----------------------------------------------------------------------------
(***************************************************************************)
(* Types of what the steps are put together from.                          *)
(***************************************************************************)
LEMMA BlankType == Blank \in Pools /\ NoStatus \in Statuses /\ None \in Counts
BY DEF Blank, Pools, NoStatus, Statuses, Phases, None, Counts

LEMMA StatusType ==
  ASSUME NEW s \in Statuses
  PROVE  /\ \A p \in Phases : [s EXCEPT !.phase = p] \in Statuses
         /\ \A c \in Counts : [s EXCEPT !.hostSets = c] \in Statuses
BY DEF Statuses

\* The parts of a pool, and the pool with another one.
LEMMA PoolType ==
  ASSUME NEW w \in Pools
  PROVE  /\ w.status \in Statuses /\ w.want \in Counts /\ w.fin \in BOOLEAN
         /\ \A s \in Statuses : [w EXCEPT !.status = s] \in Pools
         /\ \A c \in Counts : [w EXCEPT !.want = c] \in Pools
         /\ \A b \in BOOLEAN : [w EXCEPT !.fin = b] \in Pools
         /\ \A l \in {"present", "deleting", "gone"} : [w EXCEPT !.live = l] \in Pools
BY DEF Pools

LEMMA FaultType ==
  ASSUME TypeOK, Fault
  PROVE  faults' \in 0..MaxFaults
BY BoundsAssumption DEF Fault, TypeOK

\* The number of instances a reconcile believes in is a number.
LEMMA HaveType ==
  ASSUME TypeOK, NEW h \in HostTypes
  PROVE  Have(h) \in Nat
<1>1. OfType(listed, h) \subseteq Instances
  BY DEF OfType, TypeOK
<1>2. Cardinality(OfType(listed, h)) \in Nat
  BY <1>1, InstancesAssumption, FS_Subset, FS_CardinalityType
<1> QED  BY <1>2 DEF Have, TypeOK, Counts

\* The copies the actions derive from a pool are pools.
LEMMA CopyType ==
  ASSUME TypeOK, NEW w \in Pools
  PROVE  /\ Failed(w) \in Pools /\ Counted(w) \in Pools
         /\ \A p \in Phases : [w EXCEPT !.status.phase = p] \in Pools
         /\ [Blank EXCEPT !.status = w.status] \in Pools
<1>1. [h \in HostTypes |-> Have(h)] \in Counts
  BY HaveType DEF Counts
<1>2. \A p \in Phases : [w EXCEPT !.status.phase = p] \in Pools
  BY DEF Pools, Statuses
<1>3. Counted(w) \in Pools
  BY <1>1 DEF Counted, Pools, Statuses
<1>4. Failed(w) \in Pools
  BY <1>2, "Failed" \in Phases DEF Failed, Phases
<1>5. [Blank EXCEPT !.status = w.status] \in Pools
  BY BlankType, PoolType
<1> QED  BY <1>2, <1>3, <1>4, <1>5

LEMMA ReturnType ==
  ASSUME TypeOK, NEW w \in Pools, NEW again \in BOOLEAN, Return(w, again)
  PROVE  /\ pc' = "status" /\ pc' \in PCs /\ work' \in Pools
         /\ queued' \in BOOLEAN
         /\ listed' \subseteq Instances /\ made' \in Counts
<1>1. queued' = (queued \/ again)
  BY DEF Return
<1>2. queued' \in BOOLEAN
  BY <1>1, Zenon DEF TypeOK
<1> QED  BY <1>2, CopyType, BlankType DEF Return, Call, PCs

\* What an update of the pool stores and answers.
LEMMA ApplyType ==
  ASSUME TypeOK, Apply
  PROVE  pool' \in Pools /\ Answer \in Pools
<1>1. pool \in Pools /\ work \in Pools /\ pool.status \in Statuses
  BY PoolType DEF TypeOK
<1>2. [work EXCEPT !.status = pool.status] \in Pools
  BY <1>1, PoolType
<1>3. pool' \in Pools
  BY <1>1 DEF Apply, Pools
<1> QED  BY <1>1, <1>2, <1>3 DEF Answer

-----------------------------------------------------------------------------
(***************************************************************************)
(* Type correctness.                                                       *)
(***************************************************************************)
LEMMA InitType ==
  ASSUME Init
  PROVE  TypeOK
<1>1. PICK w \in [HostTypes -> 0..MaxReplicas] :
        pool = [live |-> "present", fin |-> FALSE, want |-> w, status |-> NoStatus]
  BY DEF Init
<1>2. w \in Counts
  BY <1>1 DEF Counts
<1>3. pool \in Pools
  BY <1>1, <1>2, BlankType DEF Pools
<1>4. inst \in [Instances -> InstanceStates]
  BY DEF Init, InstanceStates
<1>5. changes \in 0..MaxChanges /\ faults \in 0..MaxFaults
  BY BoundsAssumption DEF Init
<1>6. /\ poolSeen \in Pools /\ work \in Pools /\ read \in Statuses /\ made \in Counts
      /\ seen \in [Instances -> InstanceStates] /\ pc \in PCs /\ listed \subseteq Instances
      /\ ready \subseteq Instances
      /\ configured \in BOOLEAN /\ queued \in BOOLEAN /\ fresh \in BOOLEAN
  BY <1>3, <1>4, BlankType DEF Init, PCs
<1> QED  BY <1>3, <1>4, <1>5, <1>6 DEF TypeOK

\* Users and the cluster.
LEMMA UserType ==
  ASSUME TypeOK, ChangeReplicas \/ DeletePool
  PROVE  TypeOK'
<1>1. pool' \in Pools
  <2>1. CASE ChangeReplicas
    <3>1. PICK w \in [HostTypes -> 0..MaxReplicas] : pool' = [pool EXCEPT !.want = w]
      BY <2>1 DEF ChangeReplicas
    <3>2. w \in Counts
      BY DEF Counts
    <3> QED  BY <3>1, <3>2, PoolType DEF TypeOK
  <2>2. CASE DeletePool
    BY <2>2 DEF DeletePool, TypeOK, Pools
  <2> QED  BY <2>1, <2>2
<1>2. changes' \in 0..MaxChanges
  BY BoundsAssumption DEF TypeOK, ChangeReplicas, DeletePool, Change
<1>3. /\ fresh' \in BOOLEAN
      /\ UNCHANGED <<poolSeen, inst, seen, ready, configured, queued, pc, work, read, listed, made, faults>>
  BY DEF ChangeReplicas, DeletePool
<1> QED  BY <1>1, <1>2, <1>3 DEF TypeOK

LEMMA DeletedType ==
  ASSUME TypeOK, NEW i \in Instances, Deleted(i)
  PROVE  inst' \in [Instances -> InstanceStates]
BY DEF TypeOK, Deleted, InstanceStates

LEMMA ClusterType ==
  ASSUME TypeOK, NEW i \in Instances,
         DeleteInstanceByHand(i) \/ InstanceGone(i) \/ CollectGarbage(i)
  PROVE  TypeOK'
<1>1. inst' \in [Instances -> InstanceStates]
  BY DeletedType DEF TypeOK, InstanceGone, DeleteInstanceByHand, CollectGarbage, InstanceStates
<1>2. changes' \in 0..MaxChanges
  BY BoundsAssumption
     DEF TypeOK, InstanceGone, DeleteInstanceByHand, CollectGarbage, Change
<1>3. UNCHANGED <<pool, poolSeen, seen, ready, configured, reconcile, faults>>
  BY DEF InstanceGone, DeleteInstanceByHand, CollectGarbage
<1>4. queued' = queued \/ queued' = (queued \/ (seen[i].live = "gone" /\ inst[i].owned))
  BY DEF InstanceGone, DeleteInstanceByHand, CollectGarbage
<1>5. queued' \in BOOLEAN
  BY <1>4, Zenon DEF TypeOK
<1> QED  BY <1>1, <1>2, <1>3, <1>5 DEF TypeOK, reconcile

LEMMA SyncType ==
  ASSUME TypeOK, SyncPool \/ \E i \in Instances : SyncInstance(i)
  PROVE  TypeOK'
<1>1. CASE SyncPool
  <2>1. ready' \subseteq Instances
    BY <1>1 DEF TypeOK, SyncPool
  <2> QED  BY <1>1, <2>1 DEF TypeOK, SyncPool, reconcile
<1>2. ASSUME NEW i \in Instances, SyncInstance(i)
      PROVE  TypeOK'
  <2>1. seen' \in [Instances -> InstanceStates]
    BY <1>2 DEF TypeOK, SyncInstance
  <2>2. queued' = (queued \/ Wakes(i))
    BY <1>2 DEF SyncInstance
  <2>3. queued' \in BOOLEAN
    BY <2>2, Zenon DEF TypeOK, Wakes
  <2>4. UNCHANGED <<pool, poolSeen, inst, configured, reconcile, changes, faults>>
    BY <1>2 DEF SyncInstance
  <2>5. ready' \subseteq Instances
    BY <1>2 DEF SyncInstance, TypeOK
  <2> QED  BY <2>1, <2>3, <2>4, <2>5 DEF TypeOK, reconcile
<1> QED  BY <1>1, <1>2

LEMMA ReadyType ==
  ASSUME TypeOK, NEW i \in Instances, BecomesReady(i) \/ InstanceFails(i)
  PROVE  TypeOK'
<1>1. ready' \subseteq Instances
  BY DEF TypeOK, BecomesReady, InstanceFails
<1>2. changes' \in 0..MaxChanges
  BY BoundsAssumption DEF TypeOK, BecomesReady, InstanceFails, Change
<1>3. UNCHANGED <<pool, poolSeen, inst, seen, configured, queued, reconcile, faults>>
  BY DEF BecomesReady, InstanceFails
<1> QED  BY <1>1, <1>2, <1>3 DEF TypeOK, reconcile

LEMMA RestartType ==
  ASSUME TypeOK, Restart
  PROVE  TypeOK'
<1>1. faults' \in 0..MaxFaults /\ ready' \subseteq Instances
  BY FaultType DEF Restart, TypeOK
<1> QED  BY <1>1, BlankType DEF Restart, TypeOK, PCs

\* The controller.
LEMMA ReconcileType ==
  ASSUME TypeOK, Reconcile
  PROVE  TypeOK'
<1>1. poolSeen \in Pools /\ poolSeen.status \in Statuses /\ poolSeen.status.phase \in Phases
  BY PoolType DEF TypeOK, Statuses
<1>2. UNCHANGED <<pool, poolSeen, inst, seen, ready, configured, listed, made, changes, faults>>
  BY DEF Reconcile
<1>3. queued' \in BOOLEAN
  BY DEF Reconcile
<1>4. CASE poolSeen.live = "gone" /\ UNCHANGED <<pc, work, read, fresh>>
  BY <1>2, <1>3, <1>4 DEF TypeOK
<1>5. ASSUME poolSeen.live # "gone",
             read' = poolSeen.status, fresh' = (poolSeen = pool),
             work' \in Pools, pc' \in PCs
      PROVE  TypeOK'
  <2>1. fresh' \in BOOLEAN
    BY <1>5, Zenon
  <2> QED  BY <1>1, <1>2, <1>3, <1>5, <2>1 DEF TypeOK
<1>6. CASE poolSeen.live = "present" /\ read' = poolSeen.status /\ fresh' = (poolSeen = pool)
  <2>1. PICK p \in Phases : p = IF poolSeen.status.phase = "" THEN "Progressing"
                                                            ELSE poolSeen.status.phase
    BY <1>1 DEF Phases
  <2>2. PICK w \in Pools : w = [poolSeen EXCEPT !.status.phase = p]
    BY <1>1, CopyType
  <2>3. HandleUpdate(w)
    BY <1>6, <2>1, <2>2 DEF Reconcile
  <2>4. work' \in Pools /\ pc' \in PCs
    BY <2>3, CopyType, PoolType DEF HandleUpdate, Call, PCs
  <2> QED  BY <1>5, <1>6, <2>4
<1>7. CASE /\ Call("listAll", [poolSeen EXCEPT !.status.phase = "Deleting"])
           /\ poolSeen.live = "deleting"
           /\ read' = poolSeen.status /\ fresh' = (poolSeen = pool)
  <2>1. work' \in Pools /\ pc' \in PCs
    BY <1>1, <1>7, CopyType, "Deleting" \in Phases DEF Call, PCs, Phases
  <2> QED  BY <1>5, <1>7, <2>1
<1> QED  BY <1>4, <1>6, <1>7 DEF Reconcile

\* The steps that create, delete and count instances.
LEMMA ScaleType ==
  ASSUME TypeOK,
         \/ \E h \in HostTypes : CreateInstance(h)
         \/ \E i \in Instances : DeleteInstance(i) \/ Teardown(i)
  PROVE  TypeOK'
<1>1. work \in Pools /\ Counted(Failed(work)) \in Pools
  BY CopyType DEF TypeOK
<1>2. inst' \in [Instances -> InstanceStates]
  <2>1. ASSUME NEW h \in HostTypes, CreateInstance(h)
        PROVE  inst' \in [Instances -> InstanceStates]
    <3>1. NewInstance(h) \in InstanceStates
      BY DEF NewInstance, InstanceStates
    <3> QED  BY <2>1, <3>1 DEF CreateInstance, TypeOK
  <2>2. ASSUME NEW i \in Instances, Deleted(i)
        PROVE  inst' \in [Instances -> InstanceStates]
    BY <2>2, DeletedType
  <2> QED  BY <2>1, <2>2 DEF DeleteInstance, Teardown
<1>3. UNCHANGED <<pool, poolSeen, seen, ready, configured, read, fresh, changes>>
  BY DEF CreateInstance, DeleteInstance, Teardown
<1>4. CASE \E w \in Pools : Return(w, TRUE) /\ (Fault \/ UNCHANGED faults)
  <2>1. faults' \in 0..MaxFaults
    BY <1>4, FaultType DEF TypeOK
  <2> QED  BY <1>2, <1>3, <1>4, <2>1, ReturnType DEF TypeOK
<1>5. CASE /\ UNCHANGED <<queued, pc, work, faults>>
           /\ listed' \subseteq listed
           /\ made' = made \/ \E h \in HostTypes : made' = [made EXCEPT ![h] = @ + 1]
  <2>1. made' \in Counts
    BY <1>5 DEF TypeOK, Counts
  <2> QED  BY <1>2, <1>3, <1>5, <2>1 DEF TypeOK
<1>6. ASSUME NEW h \in HostTypes, CreateInstance(h)
      PROVE  TypeOK'
  BY <1>1, <1>4, <1>5, <1>6 DEF CreateInstance
<1>7. ASSUME NEW i \in Instances, DeleteInstance(i)
      PROVE  TypeOK'
  BY <1>1, <1>4, <1>5, <1>7 DEF DeleteInstance
<1>8. ASSUME NEW i \in Instances, Teardown(i)
      PROVE  TypeOK'
  BY <1>1, <1>4, <1>5, <1>8 DEF Teardown
<1> QED  BY <1>6, <1>7, <1>8

LEMMA ListType ==
  ASSUME TypeOK, List \/ CheckReady \/ ListAll
  PROVE  TypeOK'
<1>1. UNCHANGED <<pool, poolSeen, inst, seen, ready, configured, read, fresh, changes, faults>>
  BY DEF List, CheckReady, ListAll
<1>2. work \in Pools /\ Present(seen) \subseteq Instances
  BY DEF TypeOK, Present
<1>3. CASE \E w \in Pools, again \in BOOLEAN : Return(w, again)
  BY <1>1, <1>3, ReturnType DEF TypeOK
<1>4. CASE \E w \in Pools, c \in PCs : /\ Call(c, w)
                                       /\ UNCHANGED <<queued, made>>
                                       /\ listed' \in {listed, Present(seen)}
  BY <1>1, <1>2, <1>4 DEF TypeOK, Call
<1>5. CASE List
  BY <1>2, <1>4, <1>5 DEF List, PCs
<1>6. CASE CheckReady
  <2>1. \A p \in Phases : [Counted(work) EXCEPT !.status.phase = p] \in Pools
    BY <1>2, CopyType
  <2> QED  BY <1>3, <1>6, <2>1, "Ready" \in Phases, "Progressing" \in Phases DEF CheckReady, Phases
<1>7. CASE ListAll
  <2>1. [work EXCEPT !.fin = FALSE] \in Pools
    BY <1>2, PoolType
  <2> QED  BY <1>2, <1>3, <1>4, <1>7, <2>1 DEF ListAll, PCs
<1> QED  BY <1>5, <1>6, <1>7

LEMMA UpdateType ==
  ASSUME TypeOK, AddFinalizer \/ DropFinalizer \/ AnswerLost \/ CallFails
  PROVE  TypeOK'
<1>1. UNCHANGED <<poolSeen, inst, seen, ready, configured, read, changes>>
  BY DEF AddFinalizer, DropFinalizer, AnswerLost, CallFails
<1>2. pool' \in Pools /\ fresh' \in BOOLEAN
  BY ApplyType DEF TypeOK, AddFinalizer, DropFinalizer, AnswerLost, CallFails
<1>3. faults' \in 0..MaxFaults
  BY FaultType DEF TypeOK, AddFinalizer, DropFinalizer, AnswerLost, CallFails
<1>4. CASE AddFinalizer
  <2>1. Answer \in Pools
    BY <1>4, ApplyType DEF AddFinalizer
  <2> QED  BY <1>1, <1>2, <1>3, <1>4, <2>1 DEF AddFinalizer, Call, TypeOK, PCs
<1>5. CASE \E w \in Pools, again \in BOOLEAN : Return(w, again)
  BY <1>1, <1>2, <1>3, <1>5, ReturnType DEF TypeOK
<1>6. CASE DropFinalizer
  BY <1>5, <1>6, ApplyType DEF DropFinalizer
<1>7. CASE AnswerLost \/ CallFails
  <2>1. Errored \in Pools
    BY CopyType DEF Errored, TypeOK
  <2> QED  BY <1>5, <1>7, <2>1 DEF AnswerLost, CallFails
<1> QED  BY <1>4, <1>6, <1>7

LEMMA WriteType ==
  ASSUME TypeOK, WriteStatus
  PROVE  TypeOK'
<1>1. pool' \in Pools
  BY PoolType DEF TypeOK, WriteStatus
<1>2. faults' \in 0..MaxFaults /\ queued' \in BOOLEAN
  BY FaultType DEF TypeOK, WriteStatus
<1>3. /\ pc' = "idle" /\ work' = Blank /\ read' = NoStatus /\ fresh' = FALSE
      /\ UNCHANGED <<poolSeen, inst, seen, ready, configured, listed, made, changes>>
  BY DEF WriteStatus
<1> QED  BY <1>1, <1>2, <1>3, BlankType DEF TypeOK, PCs

LEMMA NextType == TypeOK /\ [Next]_vars => TypeOK'
<1>1. ASSUME TypeOK, Step
      PROVE  TypeOK'
  BY <1>1, ScaleType, ListType, UpdateType, WriteType DEF Step
<1>2. ASSUME TypeOK, UNCHANGED vars
      PROVE  TypeOK'
  BY <1>2 DEF TypeOK, vars, reconcile
<1> QED
  BY <1>1, <1>2, UserType, ClusterType, SyncType, ReadyType, RestartType, ReconcileType DEF Next

-----------------------------------------------------------------------------
(***************************************************************************)
(* The finalizer.                                                          *)
(***************************************************************************)
LEMMA InitFinalizer ==
  ASSUME Init
  PROVE  FinalizerInv
<1>1. pool.live = "present" /\ pool.fin = FALSE
  BY DEF Init
<1> QED
  BY <1>1 DEF Init, FinalizerInv, SeenFinalizer, SeenDeletion, UnderFinalizer,
              TearsDown, AddsFinalizer

LEMMA UserKeepsFinalizer ==
  ASSUME IInv, ChangeReplicas \/ DeletePool
  PROVE  FinalizerInv'
<1>1. /\ pool'.fin = pool.fin
      /\ pool'.live = pool.live \/ (pool'.live = "deleting" /\ pool.fin) \/ ~pool.fin
      /\ pool'.live = "present" => pool.live = "present"
  BY DEF IInv, TypeOK, Pools, ChangeReplicas, DeletePool
<1>2. fresh' = FALSE /\ UNCHANGED <<poolSeen, pc, work>>
  BY DEF ChangeReplicas, DeletePool
<1> QED
  BY <1>1, <1>2 DEF IInv, FinalizerInv, SeenFinalizer, SeenDeletion, UnderFinalizer,
                    TearsDown, AddsFinalizer

\* Steps that leave the pool, its cache and the copy alone.
LEMMA OthersKeepFinalizer ==
  ASSUME IInv, UNCHANGED <<pool, poolSeen, fresh>>,
         \/ UNCHANGED <<pc, work>>
         \/ pc' \in {"idle", "status"}
         \/ pc = "list" /\ pc' = "scale"
         \/ /\ pc = "listAll" /\ pc' \in {"teardown", "dropFinalizer"}
            /\ work'.live = work.live
  PROVE  FinalizerInv'
BY DEF IInv, FinalizerInv, SeenFinalizer, SeenDeletion, UnderFinalizer, TearsDown, AddsFinalizer

LEMMA SyncKeepsFinalizer ==
  ASSUME IInv, SyncPool
  PROVE  FinalizerInv'
<1>1. poolSeen' = pool /\ UNCHANGED <<pool, pc, work, fresh>>
  BY DEF SyncPool, reconcile
<1> QED
  BY <1>1 DEF IInv, FinalizerInv, SeenFinalizer, SeenDeletion, UnderFinalizer,
              TearsDown, AddsFinalizer

LEMMA RestartKeepsFinalizer ==
  ASSUME IInv, Restart
  PROVE  FinalizerInv'
<1>1. poolSeen' = pool /\ pool' = pool /\ pc' = "idle"
  BY DEF Restart
<1> QED
  BY <1>1 DEF FinalizerInv, SeenFinalizer, SeenDeletion, UnderFinalizer, TearsDown, AddsFinalizer

LEMMA ReconcileKeepsFinalizer ==
  ASSUME IInv, Reconcile
  PROVE  FinalizerInv'
<1>1. UNCHANGED <<pool, poolSeen>> /\ poolSeen \in Pools
  BY DEF Reconcile, IInv, TypeOK
<1>2. SeenFinalizer' /\ SeenDeletion'
  BY <1>1 DEF IInv, FinalizerInv, SeenFinalizer, SeenDeletion
<1>3. CASE poolSeen.live = "gone" /\ UNCHANGED <<pc, work, read, fresh>>
  BY <1>1, <1>3, OthersKeepFinalizer
<1>4. CASE /\ poolSeen.live = "deleting"
           /\ Call("listAll", [poolSeen EXCEPT !.status.phase = "Deleting"])
  <2>1. pc' = "listAll" /\ work'.live = "deleting"
    BY <1>1, <1>4 DEF Call, Pools
  <2> QED  BY <1>1, <1>2, <1>4, <2>1 DEF FinalizerInv, UnderFinalizer, TearsDown, AddsFinalizer
<1>5. CASE poolSeen.live = "present" /\ fresh' = (poolSeen = pool)
  <2>1. PICK p : p = IF poolSeen.status.phase = "" THEN "Progressing"
                                                   ELSE poolSeen.status.phase
    OBVIOUS
  <2>2. PICK w : w = [poolSeen EXCEPT !.status.phase = p]
    OBVIOUS
  <2>3. HandleUpdate(w)
    BY <1>5, <2>1, <2>2 DEF Reconcile
  <2>4. w.live = "present" /\ w.fin = poolSeen.fin /\ [w EXCEPT !.fin = TRUE].live = "present"
        /\ [w EXCEPT !.fin = TRUE].fin
    BY <1>1, <1>5, <2>2 DEF Pools
  <2>5. fresh' => pool'.live = "present"
    BY <1>1, <1>5
  <2>6. CASE pc' = "status"
    BY <1>2, <2>6 DEF FinalizerInv, UnderFinalizer, TearsDown, AddsFinalizer
  <2>7. CASE pc' = "addFinalizer" /\ work' = [w EXCEPT !.fin = TRUE]
    BY <1>2, <2>4, <2>5, <2>7 DEF FinalizerInv, UnderFinalizer, TearsDown, AddsFinalizer
  <2>8. CASE pc' = "list" /\ ~NeedsFinalizer(w)
    <3>1. pool.fin /\ pool.live # "gone"
      BY <1>5, <2>4, <2>8 DEF NeedsFinalizer, IInv, FinalizerInv, SeenFinalizer
    <3> QED
      BY <1>1, <1>2, <2>8, <3>1 DEF FinalizerInv, UnderFinalizer, TearsDown, AddsFinalizer
  <2> QED  BY <2>3, <2>6, <2>7, <2>8 DEF HandleUpdate, Call
<1> QED  BY <1>3, <1>4, <1>5 DEF Reconcile

\* The updates of the pool: the one that adds the finalizer, and the one that
\* takes it away, after the cache has shown the deletion.
LEMMA ApplyKeepsFinalizer ==
  ASSUME IInv, Apply, pc \in {"addFinalizer", "dropFinalizer"}, UNCHANGED poolSeen,
         pc' = "status" \/ (pc = "addFinalizer" /\ pc' = "list")
  PROVE  FinalizerInv'
<1>1. work \in Pools /\ pool \in Pools /\ fresh
  BY DEF IInv, TypeOK, Apply
<1>2. CASE pc = "addFinalizer"
  <2>1. work.live = "present" /\ work.fin /\ pool.live = "present"
    BY <1>1, <1>2 DEF IInv, FinalizerInv, AddsFinalizer
  <2>2. pool'.fin /\ pool'.live = "present"
    BY <1>1, <2>1 DEF Apply, Pools
  <2> QED
    BY <1>2, <2>1, <2>2 DEF IInv, FinalizerInv, SeenFinalizer, SeenDeletion, UnderFinalizer,
                            TearsDown, AddsFinalizer
<1>3. CASE pc = "dropFinalizer"
  <2>1. work.live = "deleting" /\ poolSeen.live # "present"
    BY <1>3 DEF IInv, FinalizerInv, TearsDown
  <2>2. pool'.live # "present"
    BY <1>1, <2>1 DEF Apply, Pools
  <2> QED
    BY <1>3, <2>1, <2>2 DEF FinalizerInv, SeenFinalizer, SeenDeletion, UnderFinalizer,
                            TearsDown, AddsFinalizer
<1> QED  BY <1>2, <1>3

LEMMA WriteKeepsFinalizer ==
  ASSUME IInv, WriteStatus
  PROVE  FinalizerInv'
<1>1. pool'.live = pool.live /\ pool'.fin = pool.fin /\ pc' = "idle" /\ poolSeen' = poolSeen
  BY DEF WriteStatus, IInv, TypeOK, Pools
<1> QED
  BY <1>1 DEF IInv, FinalizerInv, SeenFinalizer, SeenDeletion, UnderFinalizer, TearsDown,
              AddsFinalizer

LEMMA StepKeepsFinalizer ==
  ASSUME IInv, Step
  PROVE  FinalizerInv'
<1>1. CASE AddFinalizer \/ DropFinalizer \/ AnswerLost
  BY <1>1, ApplyKeepsFinalizer DEF AddFinalizer, DropFinalizer, AnswerLost, Call, Return
<1>2. CASE WriteStatus
  BY <1>2, WriteKeepsFinalizer
<1>3. CASE CallFails \/ CheckReady \/ List
  BY <1>3, OthersKeepFinalizer DEF CallFails, CheckReady, List, Return, Call
<1>4. CASE ListAll
  <2>1. [work EXCEPT !.fin = FALSE].live = work.live
    BY DEF IInv, TypeOK, Pools
  <2> QED  BY <1>4, <2>1, OthersKeepFinalizer DEF ListAll, Return, Call
<1>5. ASSUME NEW h \in HostTypes, CreateInstance(h)
      PROVE  FinalizerInv'
  BY <1>5, OthersKeepFinalizer DEF CreateInstance, Return, Call
<1>6. ASSUME NEW i \in Instances, DeleteInstance(i) \/ Teardown(i)
      PROVE  FinalizerInv'
  BY <1>6, OthersKeepFinalizer DEF DeleteInstance, Teardown, Return, Call
<1> QED  BY <1>1, <1>2, <1>3, <1>4, <1>5, <1>6 DEF Step

LEMMA NextFinalizer == IInv /\ [Next]_vars => FinalizerInv'
<1> SUFFICES ASSUME IInv, [Next]_vars PROVE FinalizerInv'
  OBVIOUS
<1>1. CASE UNCHANGED vars
  BY <1>1, OthersKeepFinalizer DEF vars, reconcile
<1>2. ASSUME NEW i \in Instances,
             \/ DeleteInstanceByHand(i) \/ InstanceGone(i) \/ CollectGarbage(i)
             \/ SyncInstance(i) \/ BecomesReady(i) \/ InstanceFails(i)
      PROVE  FinalizerInv'
  BY <1>2, OthersKeepFinalizer
     DEF DeleteInstanceByHand, InstanceGone, CollectGarbage, SyncInstance, BecomesReady,
         InstanceFails, reconcile
<1> QED
  BY <1>1, <1>2, UserKeepsFinalizer, SyncKeepsFinalizer, RestartKeepsFinalizer,
     ReconcileKeepsFinalizer, StepKeepsFinalizer DEF Next

-----------------------------------------------------------------------------
(***************************************************************************)
(* Theorems.                                                               *)
(***************************************************************************)
\* Every variable always has its type (the pool controller as a whole).
THEOREM TypeCorrect == Spec => []TypeOK
<1>1. Init => TypeOK
  BY InitType
<1> QED  BY <1>1, NextType, PTL DEF Spec

\* The invariant holds in every reachable state.
THEOREM Invariance == Spec => []IInv
<1>1. Init => IInv
  BY InitType, InitFinalizer DEF IInv
<1>2. IInv /\ [Next]_vars => IInv'
  BY NextType, NextFinalizer DEF IInv
<1> QED  BY <1>1, <1>2, PTL DEF Spec

\* An instance is created only while the stored pool has its finalizer
\* (ensureFinalizer before createBareMetalInstanceCR).
THEOREM NoneCreatedWithoutFinalizer == Spec => CreatedUnderFinalizer
<1> DEFINE Created == \A i \in Instances :
              inst[i].live = "gone" /\ inst'[i].live = "present" => pool.fin /\ pool.live # "gone"
<1>1. IInv /\ [Next]_vars => [Created]_vars
  <2> SUFFICES ASSUME IInv, Next, NEW i \in Instances,
                      inst[i].live = "gone", inst'[i].live = "present"
               PROVE  pool.fin /\ pool.live # "gone"
    OBVIOUS
  <2>1. ASSUME NEW h \in HostTypes, CreateInstance(h)
        PROVE  pool.fin /\ pool.live # "gone"
    BY <2>1 DEF CreateInstance, IInv, FinalizerInv, UnderFinalizer
  <2>2. ASSUME NEW j \in Instances, Deleted(j) \/ InstanceGone(j)
        PROVE  FALSE
    BY <2>2 DEF Deleted, InstanceGone, IInv, TypeOK, InstanceStates
  <2>3. ASSUME inst' = inst
        PROVE  FALSE
    BY <2>3
  <2>4. CASE Step
    BY <2>1, <2>2, <2>3, <2>4 DEF Step, AddFinalizer, List, CheckReady, ListAll, DropFinalizer,
       CallFails, AnswerLost, WriteStatus, DeleteInstance, Teardown
  <2>5. CASE ChangeReplicas \/ DeletePool \/ SyncPool \/ Restart \/ Reconcile
    BY <2>3, <2>5 DEF ChangeReplicas, DeletePool, SyncPool, Restart, Reconcile
  <2>6. ASSUME NEW j \in Instances,
               \/ DeleteInstanceByHand(j) \/ InstanceGone(j)
               \/ CollectGarbage(j) \/ SyncInstance(j)
               \/ BecomesReady(j) \/ InstanceFails(j)
        PROVE  FALSE
    BY <2>2, <2>3, <2>6 DEF DeleteInstanceByHand, CollectGarbage, SyncInstance, BecomesReady,
       InstanceFails
  <2> QED  BY <2>4, <2>5, <2>6 DEF Next
<1> QED  BY <1>1, Invariance, PTL DEF Spec, CreatedUnderFinalizer
=============================================================================
