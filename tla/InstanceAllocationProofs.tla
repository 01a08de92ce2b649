---------------------- MODULE InstanceAllocationProofs ----------------------
(***************************************************************************)
(* Proofs about InstanceAllocation, for any sets of instances and hosts,   *)
(* any number of workers and any bound on the faults.                      *)
(***************************************************************************)
EXTENDS InstanceAllocation, TLAPS

-----------------------------------------------------------------------------
(***************************************************************************)
(* Type correctness.                                                       *)
(***************************************************************************)
\* The part of the type invariant about what a call or a return writes.
ControlType ==
  /\ pc \in [Instances -> PCs]
  /\ work \in [Instances -> Objects]
  /\ holds \in [Instances -> Hosts \cup {NoHost}]
  /\ locked \in [Hosts -> BOOLEAN]
  /\ queued \in [Instances -> BOOLEAN]

\* What an update stores and answers is an object of the API.
LEMMA StoredType ==
  ASSUME TypeOK, NEW i \in Instances
  PROVE  Stored(i) \in Objects /\ Answer(i) \in Objects
<1>1. /\ api[i] \in Objects /\ work[i] \in Objects
      /\ api[i].status \in Statuses /\ work[i].status \in Statuses
  BY DEF TypeOK, Objects
<1>2. Stored(i) \in Objects
  BY <1>1 DEF Stored, Objects, Lives
<1>3. Merge(api[i].status, work[i].status) \in Statuses
  BY <1>1 DEF Merge, Statuses
<1> QED  BY <1>2, <1>3 DEF Answer, Objects

\* The copies the actions derive from an object are objects.
LEMMA CopyType ==
  ASSUME NEW o \in Objects
  PROVE  /\ \A h \in Hosts \cup {NoHost} : [o EXCEPT !.ext = h] \in Objects
         /\ \A l \in Lives : [o EXCEPT !.live = l] \in Objects
         /\ [o EXCEPT !.class = TRUE] \in Objects
         /\ \A b \in BOOLEAN : /\ [o EXCEPT !.inv = b] \in Objects
                                /\ [o EXCEPT !.mgmt = b] \in Objects
         /\ \A p \in Phases :
              /\ [o EXCEPT !.status.phase = p] \in Objects
              /\ [o EXCEPT !.mgmt = FALSE, !.status.phase = p] \in Objects
              /\ \A c \in Conditions :
                   [o EXCEPT !.status.phase = p, !.status.allocated = c] \in Objects
BY DEF Objects, Statuses

\* The steps a reconcile is put together from keep the types of what they write.
LEMMA CallType ==
  ASSUME TypeOK, NEW i \in Instances, NEW c \in PCs, NEW w \in Objects, Call(i, c, w)
  PROVE  pc' \in [Instances -> PCs] /\ work' \in [Instances -> Objects]
BY DEF TypeOK, Call

LEMMA TryLockType ==
  ASSUME TypeOK, NEW i \in Instances, NEW h \in Hosts, TryLock(i, h)
  PROVE  /\ holds' \in [Instances -> Hosts \cup {NoHost}]
         /\ locked' \in [Hosts -> BOOLEAN]
BY DEF TypeOK, TryLock

LEMMA ReturnType ==
  ASSUME TypeOK, NEW i \in Instances, NEW w \in Objects, NEW again \in BOOLEAN,
         Return(i, w, again)
  PROVE  ControlType'
<1>1. pc' \in [Instances -> PCs] /\ work' \in [Instances -> Objects]
  BY CallType, "status" \in PCs DEF Return, PCs
<1>2. holds' \in [Instances -> Hosts \cup {NoHost}] /\ locked' \in [Hosts -> BOOLEAN]
  BY DEF Return, Unlock, TypeOK
<1>3. queued' \in [Instances -> BOOLEAN]
  BY Zenon DEF Return, TypeOK
<1> QED  BY <1>1, <1>2, <1>3 DEF ControlType

LEMMA CleanupType ==
  ASSUME TypeOK, NEW i \in Instances, NEW w \in Objects, InventoryCleanup(i, w)
  PROVE  ControlType'
<1>1. {"dropInv", "unassign"} \subseteq PCs
  BY DEF PCs, Updates, InventoryCalls
<1>2. CASE \E again \in BOOLEAN : Return(i, w, again)
  BY <1>2, ReturnType
<1>3. CASE /\ Call(i, "dropInv", [w EXCEPT !.inv = FALSE])
           /\ UNCHANGED <<queued, holds, locked>>
  BY <1>1, <1>3, CallType, CopyType DEF ControlType, TypeOK
<1>4. CASE w.ext # NoHost /\ TryLock(i, w.ext) /\ Call(i, "unassign", w) /\ UNCHANGED queued
  <2>1. w.ext \in Hosts
    BY <1>4 DEF Objects
  <2> QED  BY <1>1, <1>4, <2>1, CallType, TryLockType DEF ControlType, TypeOK
<1> QED  BY <1>2, <1>3, <1>4 DEF InventoryCleanup

\* A step that is neither of the environment nor the start or end of a
\* reconcile changes api, owner and what ControlType is about.
LEMMA MiddleStepType ==
  ASSUME TypeOK, ControlType', api' \in [Instances -> Objects],
         owner' \in [Hosts -> Instances \cup {NoInstance}],
         UNCHANGED <<seen, read, fresh, faults>>
  PROVE  TypeOK'
BY DEF TypeOK, ControlType

\* An update of the object whose answer, w, ends the handler.
LEMMA UpdateType ==
  ASSUME TypeOK, NEW i \in Instances, NEW w \in Objects, Apply(i), Return(i, w, FALSE),
         UNCHANGED <<seen, read, fresh, owner, faults>>
  PROVE  TypeOK'
<1>1. api' \in [Instances -> Objects]
  BY StoredType DEF Apply, TypeOK
<1>2. ControlType'
  BY ReturnType
<1> QED  BY <1>1, <1>2, MiddleStepType DEF TypeOK

LEMMA BlankType ==
  /\ Blank \in Objects /\ NoStatus \in Statuses
  /\ {"idle", "handle", "status"} \subseteq PCs
BY DEF Blank, NoStatus, Objects, Statuses, Lives, Phases, Conditions, PCs

LEMMA InitType == Init => TypeOK
<1>1. 0 \in 0..MaxFaults
  BY MaxFaultsAssumption
<1> QED  BY <1>1, BlankType DEF Init, TypeOK

LEMMA FaultType ==
  ASSUME TypeOK, Fault
  PROVE  faults' \in 0..MaxFaults
BY MaxFaultsAssumption DEF Fault, TypeOK

LEMMA EnvironmentType ==
  ASSUME TypeOK, NEW i \in Instances, Create(i) \/ Delete(i) \/ Sync(i) \/ Reconcile(i)
  PROVE  TypeOK'
<1>1. \A l \in Lives : [api[i] EXCEPT !.live = l] \in Objects
  BY CopyType DEF TypeOK
<1>2. CASE Create(i)
  <2>1. api' = [api EXCEPT ![i] = [api[i] EXCEPT !.live = "present"]]
    BY <1>2 DEF Create
  <2>2. api' \in [Instances -> Objects]
    BY <1>1, <2>1 DEF TypeOK, Lives
  <2> QED  BY <1>2, <2>2 DEF Create, TypeOK
<1>3. CASE Delete(i)
  <2>1. PICK l \in Lives : api' = [api EXCEPT ![i] = [api[i] EXCEPT !.live = l]]
    BY <1>3 DEF Delete, Lives
  <2>2. api' \in [Instances -> Objects]
    BY <1>1, <2>1 DEF TypeOK
  <2> QED  BY <1>3, <2>2 DEF Delete, TypeOK
<1>4. CASE Sync(i)
  BY <1>4 DEF Sync, TypeOK
<1>5. CASE Reconcile(i)
  <2>1. seen[i] \in Objects /\ seen[i].status \in Statuses
    BY DEF TypeOK, Objects
  <2>2. pc' \in [Instances -> PCs] /\ work' \in [Instances -> Objects]
    BY <1>5, <2>1, BlankType DEF Reconcile, Call, TypeOK
  <2>3. read' \in [Instances -> Statuses] /\ queued' \in [Instances -> BOOLEAN]
    BY <1>5, <2>1 DEF Reconcile, TypeOK
  <2>4. fresh' \in [Instances -> BOOLEAN]
    BY <1>5, Zenon DEF Reconcile, TypeOK
  <2> QED  BY <1>5, <2>2, <2>3, <2>4 DEF Reconcile, TypeOK
<1> QED  BY <1>2, <1>3, <1>4, <1>5

LEMMA RestartType ==
  ASSUME TypeOK, Restart
  PROVE  TypeOK'
<1>1. queued' \in [Instances -> BOOLEAN]
  <2>1. \A i \in Instances : (api[i].live \in {"present", "deleting"}) \in BOOLEAN
    OBVIOUS
  <2> QED  BY <2>1, Zenon DEF Restart
<1> QED  BY <1>1, BlankType, FaultType DEF Restart, TypeOK

\* A call that only moves the reconcile on to its next call.
LEMMA CallStepType ==
  ASSUME TypeOK, NEW i \in Instances, NEW c \in PCs, NEW w \in Objects, Call(i, c, w),
         owner' \in [Hosts -> Instances \cup {NoInstance}],
         UNCHANGED <<api, seen, queued, read, fresh, holds, locked, faults>>
  PROVE  TypeOK'
BY CallType DEF TypeOK

\* A handler that decides on its next call without making one.
LEMMA DecisionType ==
  ASSUME TypeOK, ControlType', UNCHANGED <<api, seen, read, fresh, owner, faults>>
  PROVE  TypeOK'
BY DEF TypeOK, ControlType

LEMMA HandlerType ==
  ASSUME TypeOK, NEW i \in Instances,
         \/ ReconcileInventory(i) \/ ReconcileManagement(i) \/ HandleDeletion(i)
  PROVE  TypeOK'
<1>1. /\ work[i] \in Objects
      /\ {"addFinalizer", "find", "assignGet", "addMgmt", "dropMgmt"} \subseteq PCs
  BY DEF TypeOK, PCs, Updates, InventoryCalls
<1>2. ASSUME NEW c \in PCs, NEW w \in Objects, Call(i, c, w), UNCHANGED <<queued, holds, locked>>
      PROVE  ControlType'
  BY <1>2, CallType DEF ControlType, TypeOK
<1>3. CASE ReconcileInventory(i)
  <2>1. PICK w \in Objects : w = [work[i] EXCEPT !.status.phase = "Allocating",
                                                !.status.allocated = "False"]
    BY <1>1, CopyType DEF Phases, Conditions
  <2>2. PICK v \in Objects : v = [w EXCEPT !.inv = TRUE]
    BY CopyType
  <2>3. \/ Call(i, "addFinalizer", v) /\ UNCHANGED <<queued, holds, locked>>
        \/ Call(i, "find", w) /\ UNCHANGED <<queued, holds, locked>>
        \/ w.ext # NoHost /\ TryLock(i, w.ext) /\ Call(i, "assignGet", w) /\ UNCHANGED queued
        \/ Return(i, w, TRUE)
    BY <1>3, <2>1, <2>2 DEF ReconcileInventory, Call, Return, TryLock
  <2>4. ASSUME w.ext # NoHost, TryLock(i, w.ext), Call(i, "assignGet", w), UNCHANGED queued
        PROVE  ControlType'
    <3>1. w.ext \in Hosts
      BY <2>4 DEF Objects
    <3> QED  BY <1>1, <2>4, <3>1, CallType, TryLockType DEF ControlType, TypeOK
  <2>6. ControlType'
    BY <1>1, <1>2, <2>3, <2>4, ReturnType
  <2> QED  BY <1>3, <2>6, DecisionType DEF ReconcileInventory
<1>4. CASE ReconcileManagement(i)
  <2>1. CASE work[i].mgmt = FALSE
    <3>1. PICK w \in Objects : w = [work[i] EXCEPT !.mgmt = TRUE]
      BY <1>1, CopyType
    <3>2. Call(i, "addMgmt", w) /\ UNCHANGED <<queued, holds, locked>>
      BY <1>4, <2>1, <3>1 DEF ReconcileManagement, Call
    <3>3. ControlType'
      BY <1>1, <1>2, <3>2
    <3> QED  BY <1>4, <3>3, DecisionType DEF ReconcileManagement
  <2>2. CASE work[i].mgmt = TRUE
    <3>1. PICK p \in ManagementOutcomes :
            Return(i, [work[i] EXCEPT !.status.phase = p], p # "Ready")
      BY <1>4, <2>2 DEF ReconcileManagement
    <3>2. PICK w \in Objects : w = [work[i] EXCEPT !.status.phase = p]
      BY <1>1, CopyType, OutcomesAssumption DEF Phases
    <3>3. Return(i, w, p # "Ready")
      BY <3>1, <3>2 DEF Return, Call
    <3>4. ControlType'
      BY <3>3, ReturnType, (p # "Ready") \in BOOLEAN
    <3> QED  BY <1>4, <3>4, DecisionType DEF ReconcileManagement
  <2> QED  BY <1>1, <2>1, <2>2 DEF Objects
<1>5. CASE HandleDeletion(i)
  <2>1. PICK w \in Objects : w = [work[i] EXCEPT !.mgmt = FALSE, !.status.phase = "Deleting"]
    BY <1>1, CopyType DEF Phases
  <2>2. PICK v \in Objects : v = work[i]
    BY <1>1
  <2>3. \/ Call(i, "dropMgmt", w) /\ UNCHANGED <<queued, holds, locked>>
        \/ InventoryCleanup(i, v)
    BY <1>5, <2>1, <2>2 DEF HandleDeletion, InventoryCleanup, Call, Return, TryLock
  <2>4. ControlType'
    BY <1>1, <1>2, <2>3, CleanupType
  <2> QED  BY <1>5, <2>4, DecisionType DEF HandleDeletion
<1> QED  BY <1>3, <1>4, <1>5

\* The actions that update the object and return.
LEMMA ObjectUpdateType ==
  ASSUME TypeOK, NEW i \in Instances,
         \/ AddFinalizer(i) \/ SetHost(i) \/ UnsetHost(i) \/ SetClass(i)
         \/ AddManagementFinalizer(i) \/ DropInventoryFinalizer(i)
  PROVE  TypeOK'
<1>1. CASE AddFinalizer(i) \/ SetHost(i) \/ UnsetHost(i) \/ DropInventoryFinalizer(i)
  <2>1. PICK w \in Objects : w = Answer(i)
    BY StoredType
  <2>2. /\ Apply(i) /\ Return(i, w, FALSE)
        /\ UNCHANGED <<seen, read, fresh, owner, faults>>
    BY <1>1, <2>1 DEF AddFinalizer, SetHost, UnsetHost, DropInventoryFinalizer, Return, Call
  <2> QED  BY <2>2, UpdateType
<1>2. CASE SetClass(i)
  <2>1. PICK a \in Objects : a = Answer(i)
    BY StoredType
  <2>2. PICK w \in Objects : w = [a EXCEPT !.status.phase = "Progressing",
                                          !.status.allocated = "True"]
    BY CopyType DEF Phases, Conditions
  <2>3. /\ Apply(i) /\ Return(i, w, FALSE)
        /\ UNCHANGED <<seen, read, fresh, owner, faults>>
    BY <1>2, <2>1, <2>2 DEF SetClass, Return, Call
  <2> QED  BY <2>3, UpdateType
<1>3. CASE AddManagementFinalizer(i)
  <2>1. PICK a \in Objects : a = Answer(i)
    BY StoredType
  <2>2. PICK w \in Objects : w = [a EXCEPT !.status.phase = "Progressing"]
    BY CopyType DEF Phases
  <2>3. /\ Apply(i) /\ Return(i, w, FALSE)
        /\ UNCHANGED <<seen, read, fresh, owner, faults>>
    BY <1>3, <2>1, <2>2 DEF AddManagementFinalizer, Return, Call
  <2> QED  BY <2>3, UpdateType
<1> QED  BY <1>1, <1>2, <1>3

\* The calls of the inventory.
LEMMA InventoryCallType ==
  ASSUME TypeOK, NEW i \in Instances,
         FindFreeHost(i) \/ AssignGet(i) \/ AssignPut(i) \/ UnassignHost(i)
  PROVE  TypeOK'
<1>1. /\ work[i] \in Objects
      /\ {"setHost", "assignPut", "unsetHost", "setClass", "dropInv"} \subseteq PCs
  BY DEF TypeOK, PCs, Updates, InventoryCalls
<1>2. CASE FindFreeHost(i)
  <2>1. ASSUME NEW h \in Hosts, Call(i, "setHost", [work[i] EXCEPT !.ext = h]),
               UNCHANGED <<queued, holds, locked>>
        PROVE  ControlType'
    <3>1. PICK w \in Objects : w = [work[i] EXCEPT !.ext = h]
      BY <1>1, CopyType
    <3>2. Call(i, "setHost", w)
      BY <2>1, <3>1 DEF Call
    <3> QED  BY <1>1, <2>1, <3>2, CallType DEF ControlType, TypeOK
  <2>2. PICK w \in Objects : w = [work[i] EXCEPT !.status.phase = "Failed"]
    BY <1>1, CopyType DEF Phases
  <2>3. \/ \E h \in Hosts : /\ Call(i, "setHost", [work[i] EXCEPT !.ext = h])
                           /\ UNCHANGED <<queued, holds, locked>>
        \/ Return(i, w, TRUE)
    BY <1>2, <2>2 DEF FindFreeHost, FreeHosts, Return, Call
  <2>4. ControlType'
    BY <2>1, <2>3, ReturnType
  <2> QED  BY <1>2, <2>4, DecisionType DEF FindFreeHost
<1>3. CASE AssignGet(i)
  <2>1. PICK w \in Objects : w = work[i]
    BY <1>1
  <2>2. PICK v \in Objects : v = [work[i] EXCEPT !.ext = NoHost]
    BY <1>1, CopyType
  <2>3. Call(i, "assignPut", w) \/ Call(i, "unsetHost", v)
    BY <1>3, <2>1, <2>2 DEF AssignGet, Call
  <2> QED  BY <1>1, <1>3, <2>3, CallStepType DEF AssignGet, TypeOK
<1>4. CASE AssignPut(i)
  <2>1. PICK w \in Objects : w = [work[i] EXCEPT !.class = TRUE]
    BY <1>1, CopyType
  <2>2. Call(i, "setClass", w) /\ owner' \in [Hosts -> Instances \cup {NoInstance}]
    BY <1>4, <2>1 DEF AssignPut, Call, TypeOK
  <2> QED  BY <1>1, <1>4, <2>2, CallStepType DEF AssignPut
<1>5. CASE UnassignHost(i)
  <2>1. PICK w \in Objects : w = [work[i] EXCEPT !.inv = FALSE]
    BY <1>1, CopyType
  <2>2. Call(i, "dropInv", w) /\ owner' \in [Hosts -> Instances \cup {NoInstance}]
    BY <1>5, <2>1 DEF UnassignHost, Call, TypeOK
  <2> QED  BY <1>1, <1>5, <2>2, CallStepType DEF UnassignHost
<1> QED  BY <1>2, <1>3, <1>4, <1>5

LEMMA DropManagementFinalizerType ==
  ASSUME TypeOK, NEW i \in Instances, DropManagementFinalizer(i)
  PROVE  TypeOK'
<1>1. PICK w \in Objects : w = Answer(i)
  BY StoredType
<1>2. InventoryCleanup(i, w)
  BY <1>1 DEF DropManagementFinalizer, InventoryCleanup, Call, Return, TryLock
<1>3. api' \in [Instances -> Objects]
  BY StoredType DEF DropManagementFinalizer, Apply, TypeOK
<1>4. ControlType'
  BY <1>2, CleanupType
<1> QED  BY <1>3, <1>4, MiddleStepType DEF DropManagementFinalizer, TypeOK

\* Calls that fail, and the end of a reconcile.
LEMMA ErrorType ==
  ASSUME TypeOK, NEW i \in Instances, CallFails(i) \/ AnswerLost(i)
  PROVE  TypeOK'
<1>1. work[i] \in Objects
  BY DEF TypeOK
<1>2. PICK w \in Objects : w = Errored(i)
  BY <1>1, CopyType DEF Errored, Phases
<1>3. Return(i, w, TRUE)
  BY <1>2 DEF CallFails, AnswerLost, Return, Call
<1>4. ControlType'
  BY <1>3, ReturnType
<1>5. faults' \in 0..MaxFaults
  BY FaultType DEF CallFails, AnswerLost, TypeOK
<1>6. CASE CallFails(i)
  BY <1>4, <1>5, <1>6 DEF CallFails, ControlType, TypeOK
<1>7. CASE AnswerLost(i)
  <2>1. api' \in [Instances -> Objects]
    BY <1>7, StoredType DEF AnswerLost, Apply, TypeOK
  <2>2. fresh' \in [Instances -> BOOLEAN]
    BY <1>7, Zenon DEF AnswerLost, TypeOK
  <2>3. owner' \in [Hosts -> Instances \cup {NoInstance}]
    BY <1>7 DEF AnswerLost, TypeOK
  <2> QED  BY <1>4, <1>5, <1>7, <2>1, <2>2, <2>3 DEF AnswerLost, ControlType, TypeOK
<1> QED  BY <1>6, <1>7

LEMMA WriteStatusType ==
  ASSUME TypeOK, NEW i \in Instances, WriteStatus(i)
  PROVE  TypeOK'
<1>1. PICK again \in BOOLEAN : Idle(i, again)
  BY DEF WriteStatus
<1>2. /\ pc' \in [Instances -> PCs] /\ work' \in [Instances -> Objects]
      /\ read' \in [Instances -> Statuses]
  BY <1>1, BlankType DEF Idle, Call, TypeOK
<1>3. fresh' \in [Instances -> BOOLEAN] /\ queued' \in [Instances -> BOOLEAN]
  BY <1>1, Zenon DEF Idle, TypeOK
<1>4. api' \in [Instances -> Objects]
  <2>1. work[i].status \in Statuses /\ api[i] \in Objects
    BY DEF TypeOK, Objects
  <2>2. PICK o \in Objects : o = [api[i] EXCEPT !.status = work[i].status]
    BY <2>1 DEF Objects
  <2>3. api' = api \/ api' = [api EXCEPT ![i] = o]
    BY <2>2 DEF WriteStatus
  <2> QED  BY <2>2, <2>3 DEF TypeOK
<1>5. faults' \in 0..MaxFaults
  BY FaultType DEF WriteStatus, TypeOK
<1> QED  BY <1>2, <1>3, <1>4, <1>5 DEF WriteStatus, TypeOK

LEMMA TypeStep == TypeOK /\ [Next]_vars => TypeOK'
<1> SUFFICES ASSUME TypeOK, [Next]_vars PROVE TypeOK'
  OBVIOUS
<1>1. ASSUME NEW i \in Instances, Step(i) PROVE TypeOK'
  BY <1>1, HandlerType, ObjectUpdateType, InventoryCallType, DropManagementFinalizerType,
     ErrorType, WriteStatusType DEF Step
<1>2. CASE UNCHANGED vars
  BY <1>2 DEF vars, TypeOK
<1> QED  BY <1>1, <1>2, EnvironmentType, RestartType DEF Next

\* Every variable always has its type: no step of the controller, of its
\* callers or of a failure stores a phase or a condition the API lacks.
THEOREM TypeCorrect == Spec => []TypeOK
BY InitType, TypeStep, PTL DEF Spec

-----------------------------------------------------------------------------
(***************************************************************************)
(* The host locks.                                                         *)
(***************************************************************************)
\* The three things a step does to the locks: nothing, take one, release one.
LEMMA KeepLock ==
  ASSUME TypeOK, LockDiscipline, NEW i \in Instances, NEW c \in PCs, NEW w \in Objects,
         Call(i, c, w), UNCHANGED <<holds, locked>>,
         c \in HostCalls => w.ext # NoHost /\ holds[i] = w.ext,
         c \notin UnderLock => holds[i] = NoHost
  PROVE  LockDiscipline'
BY DEF TypeOK, LockDiscipline, Call

LEMMA TakeLock ==
  ASSUME TypeOK, LockDiscipline, NEW i \in Instances, NEW c \in UnderLock, NEW w \in Objects,
         w.ext # NoHost, Call(i, c, w), TryLock(i, w.ext), holds[i] = NoHost
  PROVE  LockDiscipline'
<1>1. w.ext \in Hosts
  BY DEF Objects
<1>2. holds' = [holds EXCEPT ![i] = w.ext]
  BY DEF TryLock
<1>3. \A j \in Instances : holds[j] # w.ext
  BY <1>1 DEF TryLock, LockDiscipline
<1>4. \A j, k \in Instances : holds'[j] = holds'[k] /\ holds'[j] # NoHost => j = k
  BY <1>2, <1>3 DEF TypeOK, LockDiscipline
<1>5. \A h \in Hosts : locked'[h] <=> \E j \in Instances : holds'[j] = h
  <2> SUFFICES ASSUME NEW h \in Hosts
               PROVE  locked'[h] <=> \E j \in Instances : holds'[j] = h
    OBVIOUS
  <2>1. CASE h = w.ext
    BY <1>1, <1>2, <2>1 DEF TryLock, TypeOK
  <2>2. CASE h # w.ext
    <3>1. locked'[h] = locked[h]
      BY <1>1, <2>2 DEF TryLock, TypeOK
    <3>2. \A j \in Instances : holds'[j] = h <=> holds[j] = h
      BY <1>2, <2>2, NoHostAssumption DEF TypeOK
    <3> QED  BY <3>1, <3>2 DEF LockDiscipline
  <2> QED  BY <2>1, <2>2
<1>6. \A j \in Instances :
        /\ pc'[j] \in HostCalls => work'[j].ext # NoHost /\ holds'[j] = work'[j].ext
        /\ pc'[j] \notin UnderLock => holds'[j] = NoHost
  BY <1>2 DEF TypeOK, LockDiscipline, Call
<1> QED  BY <1>4, <1>5, <1>6 DEF LockDiscipline

LEMMA ReleaseLock ==
  ASSUME TypeOK, LockDiscipline, NEW i \in Instances, NEW w \in Objects,
         NEW again \in BOOLEAN, Return(i, w, again)
  PROVE  LockDiscipline'
<1>1. /\ holds' = [holds EXCEPT ![i] = NoHost]
      /\ locked' = [h \in Hosts |-> locked[h] /\ h # holds[i]]
      /\ Call(i, "status", w)
  BY DEF Return, Unlock
<1>2. \A j, k \in Instances : holds'[j] = holds'[k] /\ holds'[j] # NoHost => j = k
  BY <1>1 DEF TypeOK, LockDiscipline
<1>3. \A h \in Hosts : locked'[h] <=> \E j \in Instances : holds'[j] = h
  <2> SUFFICES ASSUME NEW h \in Hosts
               PROVE  locked'[h] <=> \E j \in Instances : holds'[j] = h
    OBVIOUS
  <2>1. locked'[h] <=> locked[h] /\ h # holds[i]
    BY <1>1
  <2>2. \A j \in Instances : holds'[j] = h <=> j # i /\ holds[j] = h
    BY <1>1, NoHostAssumption DEF TypeOK
  <2> QED  BY <2>1, <2>2, NoHostAssumption DEF LockDiscipline
<1>4. \A j \in Instances :
        /\ pc'[j] \in HostCalls => work'[j].ext # NoHost /\ holds'[j] = work'[j].ext
        /\ pc'[j] \notin UnderLock => holds'[j] = NoHost
  BY <1>1 DEF TypeOK, LockDiscipline, Call, HostCalls
<1> QED  BY <1>2, <1>3, <1>4 DEF LockDiscipline

\* Every step of a reconcile respects the locks.
LEMMA LockStep ==
  ASSUME TypeOK, LockDiscipline, NEW i \in Instances, Step(i)
  PROVE  LockDiscipline'
<1>1. /\ work[i] \in Objects /\ Answer(i) \in Objects
      /\ PCs = Updates \cup InventoryCalls \cup {"idle", "handle", "status"}
  BY StoredType DEF TypeOK, PCs
<1>2. ASSUME \E w \in Objects, again \in BOOLEAN : Return(i, w, again)
      PROVE  LockDiscipline'
  BY <1>2, ReleaseLock
<1>3. ASSUME NEW w \in Objects, InventoryCleanup(i, w), holds[i] = NoHost
      PROVE  LockDiscipline'
  <2>1. PICK v \in Objects : v = [w EXCEPT !.inv = FALSE]
    BY CopyType
  <2>2. \/ Call(i, "dropInv", v) /\ UNCHANGED <<holds, locked>>
        \/ w.ext # NoHost /\ TryLock(i, w.ext) /\ Call(i, "unassign", w)
        \/ \E again \in BOOLEAN : Return(i, w, again)
    BY <1>3, <2>1 DEF InventoryCleanup, Call
  <2>3. /\ "dropInv" \in PCs /\ "dropInv" \notin HostCalls
        /\ "dropInv" \in UnderLock /\ "unassign" \in UnderLock
    BY DEF PCs, Updates, UnderLock, HostCalls
  <2> QED  BY <1>2, <1>3, <2>1, <2>2, <2>3, KeepLock, TakeLock
<1>4. CASE ReconcileInventory(i)
  <2>1. PICK w \in Objects : w = [work[i] EXCEPT !.status.phase = "Allocating",
                                                !.status.allocated = "False"]
    BY <1>1, CopyType DEF Phases, Conditions
  <2>2. PICK v \in Objects : v = [w EXCEPT !.inv = TRUE]
    BY CopyType
  <2>3. \/ Call(i, "addFinalizer", v) /\ UNCHANGED <<holds, locked>>
        \/ Call(i, "find", w) /\ UNCHANGED <<holds, locked>>
        \/ w.ext # NoHost /\ TryLock(i, w.ext) /\ Call(i, "assignGet", w)
        \/ Return(i, w, TRUE)
    BY <1>4, <2>1, <2>2 DEF ReconcileInventory, Call, Return, TryLock
  <2>4. holds[i] = NoHost
    BY <1>4 DEF ReconcileInventory, LockDiscipline, UnderLock
  <2>5. /\ {"addFinalizer", "find"} \subseteq PCs \ HostCalls /\ "assignGet" \in UnderLock
    BY DEF PCs, Updates, InventoryCalls, UnderLock, HostCalls
  <2> QED  BY <1>2, <2>2, <2>3, <2>4, <2>5, KeepLock, TakeLock
<1>5. CASE FindFreeHost(i)
  <2>1. holds[i] = NoHost
    BY <1>5 DEF FindFreeHost, LockDiscipline, UnderLock
  <2>2. ASSUME NEW h \in Hosts, Call(i, "setHost", [work[i] EXCEPT !.ext = h]),
               UNCHANGED <<holds, locked>>
        PROVE  LockDiscipline'
    <3>1. PICK w \in Objects : w = [work[i] EXCEPT !.ext = h]
      BY <1>1, CopyType
    <3>2. Call(i, "setHost", w) /\ "setHost" \in PCs \ HostCalls
      BY <2>2, <3>1 DEF Call, PCs, Updates, HostCalls
    <3> QED  BY <2>1, <2>2, <3>2, KeepLock
  <2>3. PICK w \in Objects : w = [work[i] EXCEPT !.status.phase = "Failed"]
    BY <1>1, CopyType DEF Phases
  <2>4. \/ \E h \in Hosts : /\ Call(i, "setHost", [work[i] EXCEPT !.ext = h])
                           /\ UNCHANGED <<holds, locked>>
        \/ Return(i, w, TRUE)
    BY <1>5, <2>3 DEF FindFreeHost, FreeHosts, Return, Call
  <2> QED  BY <1>2, <2>2, <2>4
<1>6. CASE AssignGet(i) \/ AssignPut(i) \/ UnassignHost(i)
  <2>1. work[i].ext # NoHost /\ holds[i] = work[i].ext
    BY <1>6 DEF AssignGet, AssignPut, UnassignHost, LockDiscipline, HostCalls
  <2>2. PICK v \in Objects : v = [work[i] EXCEPT !.ext = NoHost]
    BY <1>1, CopyType
  <2>3. PICK c \in Objects : c = [work[i] EXCEPT !.class = TRUE]
    BY <1>1, CopyType
  <2>4. PICK d \in Objects : d = [work[i] EXCEPT !.inv = FALSE]
    BY <1>1, CopyType
  <2>5. PICK w \in Objects : w = work[i]
    BY <1>1
  <2>6. /\ UNCHANGED <<holds, locked>>
        /\ \/ Call(i, "assignPut", w) \/ Call(i, "unsetHost", v)
           \/ Call(i, "setClass", c) \/ Call(i, "dropInv", d)
    BY <1>6, <2>2, <2>3, <2>4, <2>5 DEF AssignGet, AssignPut, UnassignHost, Call
  <2>7. c.ext = work[i].ext
    BY <1>1, <2>3 DEF Objects
  <2>8. /\ {"assignPut", "unsetHost", "setClass", "dropInv"} \subseteq PCs \cap UnderLock
        /\ {"unsetHost", "dropInv"} \cap HostCalls = {}
    BY DEF PCs, Updates, InventoryCalls, UnderLock, HostCalls
  <2> QED  BY <2>1, <2>5, <2>6, <2>7, <2>8, KeepLock
<1>7. CASE \/ AddFinalizer(i) \/ SetHost(i) \/ UnsetHost(i) \/ DropInventoryFinalizer(i)
           \/ SetClass(i) \/ AddManagementFinalizer(i)
  <2>1. PICK a \in Objects : a = Answer(i)
    BY <1>1
  <2>2. PICK b \in Objects : b = [a EXCEPT !.status.phase = "Progressing",
                                          !.status.allocated = "True"]
    BY CopyType DEF Phases, Conditions
  <2>3. PICK c \in Objects : c = [a EXCEPT !.status.phase = "Progressing"]
    BY CopyType DEF Phases
  <2>4. Return(i, a, FALSE) \/ Return(i, b, FALSE) \/ Return(i, c, FALSE)
    BY <1>7, <2>1, <2>2, <2>3
       DEF AddFinalizer, SetHost, UnsetHost, DropInventoryFinalizer, SetClass,
           AddManagementFinalizer, Return, Call
  <2> QED  BY <1>2, <2>4
<1>8. CASE ReconcileManagement(i)
  <2>1. holds[i] = NoHost
    BY <1>8 DEF ReconcileManagement, LockDiscipline, UnderLock
  <2>2. PICK w \in Objects : w = [work[i] EXCEPT !.mgmt = TRUE]
    BY <1>1, CopyType
  <2>3. \/ Call(i, "addMgmt", w) /\ UNCHANGED <<holds, locked>>
        \/ \E p \in ManagementOutcomes :
             Return(i, [work[i] EXCEPT !.status.phase = p], p # "Ready")
    BY <1>8, <2>2 DEF ReconcileManagement, Call
  <2>4. ASSUME NEW p \in ManagementOutcomes,
               Return(i, [work[i] EXCEPT !.status.phase = p], p # "Ready")
        PROVE  LockDiscipline'
    <3>1. PICK v \in Objects : v = [work[i] EXCEPT !.status.phase = p]
      BY <1>1, CopyType, OutcomesAssumption DEF Phases
    <3>2. Return(i, v, p # "Ready")
      BY <2>4, <3>1 DEF Return, Call
    <3> QED  BY <1>2, <3>2, (p # "Ready") \in BOOLEAN
  <2>5. "addMgmt" \in PCs \ HostCalls
    BY DEF PCs, Updates, HostCalls
  <2> QED  BY <2>1, <2>3, <2>4, <2>5, KeepLock
<1>9. CASE HandleDeletion(i)
  <2>1. holds[i] = NoHost
    BY <1>9 DEF HandleDeletion, LockDiscipline, UnderLock
  <2>2. PICK w \in Objects : w = [work[i] EXCEPT !.mgmt = FALSE, !.status.phase = "Deleting"]
    BY <1>1, CopyType DEF Phases
  <2>3. PICK v \in Objects : v = work[i]
    BY <1>1
  <2>4. \/ Call(i, "dropMgmt", w) /\ UNCHANGED <<holds, locked>>
        \/ InventoryCleanup(i, v)
    BY <1>9, <2>2, <2>3 DEF HandleDeletion, InventoryCleanup, Call, Return, TryLock
  <2>5. "dropMgmt" \in PCs \ HostCalls
    BY DEF PCs, Updates, HostCalls
  <2> QED  BY <1>3, <2>1, <2>4, <2>5, KeepLock
<1>10. CASE DropManagementFinalizer(i)
  <2>1. holds[i] = NoHost
    BY <1>10 DEF DropManagementFinalizer, LockDiscipline, UnderLock
  <2>2. PICK w \in Objects : w = Answer(i)
    BY <1>1
  <2>3. InventoryCleanup(i, w)
    BY <1>10, <2>2 DEF DropManagementFinalizer, InventoryCleanup, Call, Return, TryLock
  <2> QED  BY <1>3, <2>1, <2>3
<1>11. CASE CallFails(i) \/ AnswerLost(i)
  <2>1. PICK w \in Objects : w = Errored(i)
    BY <1>1, CopyType DEF Errored, Phases
  <2>2. Return(i, w, TRUE)
    BY <1>11, <2>1 DEF CallFails, AnswerLost, Return, Call
  <2> QED  BY <1>2, <2>2
<1>12. CASE WriteStatus(i)
  <2>1. holds[i] = NoHost
    BY <1>12 DEF WriteStatus, LockDiscipline, UnderLock
  <2>2. Call(i, "idle", Blank) /\ UNCHANGED <<holds, locked>>
    BY <1>12 DEF WriteStatus, Idle
  <2>3. "idle" \in PCs \ HostCalls
    BY DEF PCs, HostCalls
  <2> QED  BY <2>1, <2>2, <2>3, BlankType, KeepLock
<1> QED  BY <1>4, <1>5, <1>6, <1>7, <1>8, <1>9, <1>10, <1>11, <1>12 DEF Step

LEMMA EnvironmentLock ==
  ASSUME TypeOK, LockDiscipline, NEW i \in Instances,
         Create(i) \/ Delete(i) \/ Sync(i) \/ Reconcile(i)
  PROVE  LockDiscipline'
<1>1. CASE Create(i) \/ Delete(i) \/ Sync(i)
  BY <1>1 DEF Create, Delete, Sync, LockDiscipline
<1>2. CASE Reconcile(i)
  <2>1. PICK w \in Objects : w = seen[i]
    BY DEF TypeOK
  <2>2. /\ UNCHANGED <<holds, locked>>
        /\ Call(i, "handle", w) \/ UNCHANGED <<pc, work>>
    BY <1>2, <2>1 DEF Reconcile, Call
  <2>3. holds[i] = NoHost
    BY <1>2 DEF Reconcile, LockDiscipline, UnderLock
  <2>4. "handle" \in PCs \ HostCalls
    BY DEF PCs, HostCalls
  <2>5. CASE Call(i, "handle", w)
    BY <2>2, <2>3, <2>4, <2>5, KeepLock
  <2>6. CASE UNCHANGED <<pc, work>>
    BY <2>2, <2>6 DEF LockDiscipline
  <2> QED  BY <2>2, <2>5, <2>6
<1> QED  BY <1>1, <1>2

\* Mutual exclusion of the host locks, and no lock without its reconcile.
LEMMA LockInvariant == TypeOK /\ LockDiscipline /\ [Next]_vars => LockDiscipline'
<1> SUFFICES ASSUME TypeOK, LockDiscipline, [Next]_vars PROVE LockDiscipline'
  OBVIOUS
<1>1. CASE Restart
  BY <1>1, NoHostAssumption DEF Restart, LockDiscipline, HostCalls
<1>2. CASE UNCHANGED vars
  BY <1>2 DEF vars, LockDiscipline
<1> QED  BY <1>1, <1>2, LockStep, EnvironmentLock DEF Next

-----------------------------------------------------------------------------
(***************************************************************************)
(* The claims.  A claim changes only under the lock of its host, so what   *)
(* one reconcile read or wrote there stays as it is while it has the lock. *)
(***************************************************************************)
LEMMA AnswerFrame ==
  ASSUME TypeOK, LockDiscipline, AnswerStillValid, NEW i \in Instances,
         \A j \in Instances \ {i} : pc'[j] = pc[j] /\ work'[j] = work[j],
         \A h \in Hosts : h # holds[i] => owner'[h] = owner[h],
         pc'[i] = "assignPut" => owner'[work'[i].ext] \in {NoInstance, i},
         pc'[i] = "setClass" => owner'[work'[i].ext] = i
  PROVE  AnswerStillValid'
<1> SUFFICES ASSUME NEW j \in Instances \ {i}
             PROVE  /\ pc[j] = "assignPut" => owner'[work[j].ext] \in {NoInstance, j}
                    /\ pc[j] = "setClass" => owner'[work[j].ext] = j
  BY DEF AnswerStillValid, Claimable
<1>1. CASE pc[j] \in {"assignPut", "setClass"}
  <2>1. work[j].ext \in Hosts /\ holds[j] = work[j].ext
    BY <1>1 DEF LockDiscipline, HostCalls, TypeOK
  <2>2. work[j].ext # holds[i]
    BY <2>1, NoHostAssumption DEF LockDiscipline
  <2> QED  BY <2>1, <2>2 DEF AnswerStillValid, Claimable
<1> QED  BY <1>1

LEMMA AnswerStep ==
  ASSUME TypeOK, LockDiscipline, AnswerStillValid, NEW i \in Instances, Step(i)
  PROVE  AnswerStillValid'
<1>1. ASSUME NEW c, NEW w, Call(i, c, w), c \notin {"assignPut", "setClass"},
             \A h \in Hosts : h # holds[i] => owner'[h] = owner[h]
      PROVE  AnswerStillValid'
  <2>1. /\ \A j \in Instances \ {i} : pc'[j] = pc[j] /\ work'[j] = work[j]
        /\ pc'[i] \notin {"assignPut", "setClass"}
    BY <1>1 DEF Call, TypeOK
  <2> QED  BY <1>1, <2>1, AnswerFrame
<1>2. CASE AssignGet(i)
  <2>1. CASE owner[work[i].ext] \in {NoInstance, i}
    <3>1. /\ \A j \in Instances \ {i} : pc'[j] = pc[j] /\ work'[j] = work[j]
          /\ pc'[i] = "assignPut" /\ work'[i] = work[i] /\ owner' = owner
      BY <1>2, <2>1 DEF AssignGet, Claimable, Call, TypeOK
    <3> QED  BY <2>1, <3>1, AnswerFrame
  <2>2. CASE owner[work[i].ext] \notin {NoInstance, i}
    <3>1. PICK w : w = [work[i] EXCEPT !.ext = NoHost]
      OBVIOUS
    <3>2. Call(i, "unsetHost", w) /\ owner' = owner
      BY <1>2, <2>2, <3>1 DEF AssignGet, Claimable, Call
    <3> QED  BY <1>1, <3>2
  <2> QED  BY <2>1, <2>2
<1>3. CASE AssignPut(i)
  <2>1. work[i].ext \in Hosts /\ holds[i] = work[i].ext /\ work[i] \in Objects
    BY <1>3 DEF AssignPut, LockDiscipline, HostCalls, TypeOK
  <2>2. /\ \A j \in Instances \ {i} : pc'[j] = pc[j] /\ work'[j] = work[j]
        /\ pc'[i] = "setClass"
        /\ owner' = [owner EXCEPT ![work[i].ext] = i]
    BY <1>3 DEF AssignPut, Call, TypeOK
  <2>3. work'[i].ext = work[i].ext
    BY <1>3, <2>1 DEF AssignPut, Call, TypeOK, Objects
  <2>4. /\ owner'[work'[i].ext] = i
        /\ \A h \in Hosts : h # holds[i] => owner'[h] = owner[h]
    BY <2>1, <2>2, <2>3 DEF TypeOK
  <2> QED  BY <2>2, <2>4, AnswerFrame
<1>4. CASE UnassignHost(i)
  <2>1. holds[i] = work[i].ext
    BY <1>4 DEF UnassignHost, LockDiscipline, HostCalls
  <2>2. PICK w : w = [work[i] EXCEPT !.inv = FALSE]
    OBVIOUS
  <2>3. Call(i, "dropInv", w) /\ \A h \in Hosts : h # holds[i] => owner'[h] = owner[h]
    BY <1>4, <2>1, <2>2 DEF UnassignHost, Call, TypeOK
  <2> QED  BY <1>1, <2>3
<1>5. CASE CallFails(i) \/ AnswerLost(i)
  <2>1. PICK w : w = Errored(i)
    OBVIOUS
  <2>2. Call(i, "status", w)
    BY <1>5, <2>1 DEF CallFails, AnswerLost, Return, Call
  <2>3. pc[i] \in {"assignPut", "unassign"} => holds[i] = work[i].ext
    BY DEF LockDiscipline, HostCalls
  <2>4. \A h \in Hosts : h # holds[i] => owner'[h] = owner[h]
    BY <1>5, <2>3 DEF CallFails, AnswerLost, TypeOK
  <2> QED  BY <1>1, <2>2, <2>4
<1>6. CASE ~(AssignGet(i) \/ AssignPut(i) \/ UnassignHost(i) \/ CallFails(i) \/ AnswerLost(i))
  <2>1. owner' = owner
    BY <1>6 DEF Step, ReconcileInventory, AddFinalizer, FindFreeHost, SetHost, UnsetHost,
                SetClass, ReconcileManagement, AddManagementFinalizer, HandleDeletion,
                DropManagementFinalizer, DropInventoryFinalizer, WriteStatus
  <2>2. /\ \A j \in Instances \ {i} : pc'[j] = pc[j] /\ work'[j] = work[j]
        /\ pc'[i] \notin {"assignPut", "setClass"}
    BY <1>6 DEF Step, ReconcileInventory, AddFinalizer, FindFreeHost, SetHost, UnsetHost,
                SetClass, ReconcileManagement, AddManagementFinalizer, HandleDeletion,
                DropManagementFinalizer, DropInventoryFinalizer, WriteStatus,
                InventoryCleanup, Call, Return, Idle, TypeOK
  <2> QED  BY <2>1, <2>2, AnswerFrame
<1> QED  BY <1>2, <1>3, <1>4, <1>5, <1>6

LEMMA AnswerInvariant ==
  TypeOK /\ LockDiscipline /\ AnswerStillValid /\ [Next]_vars => AnswerStillValid'
<1> SUFFICES ASSUME TypeOK, LockDiscipline, AnswerStillValid, [Next]_vars
             PROVE  AnswerStillValid'
  OBVIOUS
<1>1. CASE Restart
  BY <1>1 DEF Restart, AnswerStillValid, Claimable
<1>2. CASE UNCHANGED vars
  BY <1>2 DEF vars, AnswerStillValid, Claimable
<1>3. ASSUME NEW i \in Instances, Create(i) \/ Delete(i) \/ Sync(i)
      PROVE  AnswerStillValid'
  BY <1>3 DEF Create, Delete, Sync, AnswerStillValid, Claimable
<1>4. ASSUME NEW i \in Instances, Reconcile(i) PROVE AnswerStillValid'
  <2>1. /\ \A j \in Instances \ {i} : pc'[j] = pc[j] /\ work'[j] = work[j]
        /\ pc'[i] \in {"idle", "handle"} /\ owner' = owner
    BY <1>4 DEF Reconcile, Call, TypeOK
  <2> QED  BY <2>1, AnswerFrame
<1> QED  BY <1>1, <1>2, <1>3, <1>4, AnswerStep DEF Next

\* The inductive invariant: the types, the locks, and what a reconcile knows of
\* the host whose lock it has.
IInv == TypeOK /\ LockDiscipline /\ AnswerStillValid

LEMMA InitIInv == Init => IInv
<1> SUFFICES ASSUME Init PROVE LockDiscipline /\ AnswerStillValid
  BY InitType DEF IInv
<1> QED  BY NoHostAssumption DEF Init, LockDiscipline, AnswerStillValid, Claimable, HostCalls

LEMMA NextIInv == IInv /\ [Next]_vars => IInv'
BY TypeStep, LockInvariant, AnswerInvariant DEF IInv

THEOREM Invariance == Spec => []IInv
BY InitIInv, NextIInv, PTL DEF Spec

\* Two reconciles never hold the lock of one host, no lock is left behind, and a
\* reconcile that talks to the inventory about a host holds its lock.
THEOREM LocksAreDisciplined == Spec => []LockDiscipline
BY Invariance, PTL DEF IInv

\* What AssignHost read of a host still holds when it writes the claim, and the
\* claim stands until the host class is stored.
THEOREM AnswersStayValid == Spec => []AnswerStillValid
BY Invariance, PTL DEF IInv

\* A claim of one instance never becomes the claim of another in one step.
THEOREM NobodySteals == Spec => NoStealing
<1> DEFINE Honest == \A h \in Hosts : owner[h] = NoInstance \/ owner'[h] \in {owner[h], NoInstance}
<1>1. IInv /\ [Next]_vars => [Honest]_vars
  <2> SUFFICES ASSUME IInv, Next PROVE Honest
    OBVIOUS
  <2>1. ASSUME NEW i \in Instances, AssignPut(i) \/ (pc[i] = "assignPut" /\ AnswerLost(i))
        PROVE  Honest
    <3>1. owner[work[i].ext] \in {NoInstance, i} /\ work[i].ext \in Hosts
      BY <2>1 DEF IInv, AssignPut, AnswerStillValid, Claimable, LockDiscipline, HostCalls, TypeOK
    <3>2. owner' = [owner EXCEPT ![work[i].ext] = i]
      BY <2>1 DEF AssignPut, AnswerLost, Updates
    <3> QED  BY <3>1, <3>2 DEF IInv, TypeOK
  <2>2. ASSUME NEW i \in Instances, UnassignHost(i) \/ (pc[i] # "assignPut" /\ AnswerLost(i))
        PROVE  Honest
    BY <2>2 DEF IInv, UnassignHost, AnswerLost, TypeOK
  <2>3. CASE UNCHANGED owner
    BY <2>3
  <2>4. ASSUME NEW i \in Instances,
               Step(i), ~(AssignPut(i) \/ UnassignHost(i) \/ AnswerLost(i))
        PROVE  UNCHANGED owner
    BY <2>4 DEF Step, ReconcileInventory, AddFinalizer, FindFreeHost, SetHost, AssignGet,
                UnsetHost, SetClass, ReconcileManagement, AddManagementFinalizer,
                HandleDeletion, DropManagementFinalizer, DropInventoryFinalizer, CallFails,
                WriteStatus
  <2>5. ASSUME NEW i \in Instances, Create(i) \/ Delete(i) \/ Sync(i) \/ Reconcile(i)
        PROVE  UNCHANGED owner
    BY <2>5 DEF Create, Delete, Sync, Reconcile
  <2>6. CASE Restart
    BY <2>3, <2>6 DEF Restart
  <2> QED  BY <2>1, <2>2, <2>3, <2>4, <2>5, <2>6 DEF Next
<1>2. [][Honest]_vars => NoStealing
  BY DEF NoStealing
<1> QED  BY <1>1, <1>2, Invariance, PTL DEF Spec
=============================================================================
