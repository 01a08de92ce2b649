-------------------------- MODULE InstanceRestProofs --------------------------
(***************************************************************************)
(* Proof that the BareMetalInstance controller does not rest too early:    *)
(* every return that leaves work to do has a requeue, or has changed the   *)
(* stored object, which the cache will then bring back to the queue.       *)
(*                                                                         *)
(* The argument: until the instance is in the queue again, the cache shows *)
(* what the reconcile started from.  Each of its updates then differs from *)
(* that copy in a finalizer, the host or the host class, and so does the   *)
(* stored object afterwards; the write of the status cannot undo it.       *)
(***************************************************************************)
EXTENDS InstanceObjectsProofs

\* Two objects that differ in more than the status.
Differ(o, p) == \/ ~(o.inv <=> p.inv) \/ ~(o.mgmt <=> p.mgmt)
                \/ ~(o.class <=> p.class) \/ o.ext # p.ext

Done(o) == /\ o.live # "deleting"
           /\ o.live = "present" => o.status.phase = "Ready"

\* A deletion that is not over has a finalizer to remove.
HasFinalizer(i) == api[i].live = "deleting" => api[i].inv

\* What the copy of the reconcile has to do with the one in the cache.
CopyOfSeen(i) ==
  /\ read[i] = seen[i].status
  /\ pc[i] = "handle" => work[i] = seen[i]
  /\ pc[i] = "find" => seen[i].ext = NoHost
  /\ pc[i] = "assignGet" => seen[i].ext # NoHost
  /\ pc[i] \in {"assignGet", "assignPut"} => ~seen[i].class
  /\ pc[i] \in {"dropMgmt", "unassign"} => seen[i].inv
  /\ pc[i] \in Updates => Differ(work[i], seen[i])

\* At the end there is something to be heard of, or nothing left to do.
EndsWell(i) ==
  pc[i] = "status" /\ fresh[i] =>
    \/ Differ(api[i], seen[i])
    \/ seen[i] = api[i] /\ api[i].live = "present" /\ work[i].status.phase = "Ready"

Comes(i) ==
  ~queued[i] =>
    /\ pc[i] = "idle" => seen[i] # api[i] \/ Done(api[i])
    /\ pc[i] # "idle" => CopyOfSeen(i) /\ EndsWell(i) /\ (~fresh[i] => seen[i] # api[i])

RestInv(i) == HasFinalizer(i) /\ Comes(i)

-----------------------------------------------------------------------------
(***************************************************************************)
(* Steps a reconcile is put together from.                                 *)
(***************************************************************************)
\* A return asks to be run again, or not.
LEMMA ReturnRequeues ==
  ASSUME TypeOK, NEW i \in Instances, NEW w, NEW again \in BOOLEAN, Return(i, w, again)
  PROVE  /\ pc'[i] = "status" /\ work'[i] = w
         /\ queued[i] \/ again => queued'[i]
<1>1. pc'[i] = "status" /\ work'[i] = w
  BY CallParts DEF Return
<1>2. queued'[i] = (queued[i] \/ again)
  BY DEF Return, TypeOK
<1> QED  BY <1>1, <1>2, Zenon

LEMMA QueuedComes ==
  ASSUME NEW i \in Instances, queued'[i]
  PROVE  Comes(i)'
BY DEF Comes

\* A return that does not, and finds what it needs.
LEMMA ReturnComes ==
  ASSUME TypeOK, NEW i \in Instances, pc[i] # "idle", Comes(i), UNCHANGED <<seen, read>>,
         NEW w, NEW again \in BOOLEAN, Return(i, w, again),
         ~queued[i] /\ ~again =>
           /\ ~fresh'[i] => seen[i] # api'[i]
           /\ fresh'[i] => \/ Differ(api'[i], seen[i])
                           \/ /\ seen[i] = api'[i] /\ api'[i].live = "present"
                              /\ w.status.phase = "Ready"
  PROVE  Comes(i)'
<1>1. /\ pc'[i] = "status" /\ work'[i] = w
      /\ queued[i] \/ again => queued'[i]
  BY ReturnRequeues
<1> QED  BY <1>1 DEF Comes, CopyOfSeen, EndsWell, Updates

\* The next call of the handler, which leaves the stored object alone.
LEMMA CallComes ==
  ASSUME TypeOK, NEW i \in Instances, pc[i] # "idle", pc[i] # "status", Comes(i),
         UNCHANGED <<api, seen, read, fresh>>, queued' = queued,
         NEW c, NEW w, Call(i, c, w), c \notin {"idle", "handle", "status"},
         ~queued[i] => /\ c = "find" => seen[i].ext = NoHost
                       /\ c = "assignGet" => seen[i].ext # NoHost
                       /\ c \in {"assignGet", "assignPut"} => ~seen[i].class
                       /\ c \in {"dropMgmt", "unassign"} => seen[i].inv
                       /\ c \in Updates => Differ(w, seen[i])
  PROVE  Comes(i)'
<1>1. pc'[i] = c /\ work'[i] = w
  BY CallParts
<1> QED  BY <1>1 DEF Comes, CopyOfSeen, EndsWell

\* An update that is taken makes the stored object differ from what is seen.
LEMMA UpdateComes ==
  ASSUME TypeOK, NEW i \in Instances, Comes(i), pc[i] \in Updates, Apply(i), ~queued[i]
  PROVE  Differ(api'[i], seen[i]) /\ fresh[i]
<1>1. api'[i] = Stored(i) /\ fresh[i]
  BY DEF Apply, TypeOK
<1>2. Differ(work[i], seen[i])
  BY DEF Comes, CopyOfSeen, Updates
<1> QED  BY <1>1, <1>2, StoredParts DEF Differ

LEMMA CleanupComes ==
  ASSUME TypeOK, NEW i \in Instances, pc[i] \in {"handle", "dropMgmt"}, Comes(i),
         UNCHANGED <<seen, read, fresh>>,
         NEW w \in Objects, InventoryCleanup(i, w),
         ~queued[i] => /\ w.inv => seen[i].inv
                       /\ ~fresh[i] => seen[i] # api'[i]
                       /\ fresh[i] /\ ~w.inv => Differ(api'[i], seen[i])
  PROVE  Comes(i)'
<1>1. CASE ~w.inv /\ Return(i, w, FALSE)
  BY <1>1, ReturnComes
<1>2. CASE Return(i, w, TRUE)
  BY <1>2, ReturnRequeues, QueuedComes
<1>3. CASE w.inv /\ Call(i, "dropInv", [w EXCEPT !.inv = FALSE]) /\ queued' = queued
  <2>1. PICK o : o = [w EXCEPT !.inv = FALSE]
    OBVIOUS
  <2>2. pc'[i] = "dropInv" /\ work'[i] = o /\ ~o.inv
    BY <1>3, <2>1, CallParts DEF Objects
  <2> QED  BY <1>3, <2>2 DEF Comes, CopyOfSeen, EndsWell, Differ
<1>4. CASE w.inv /\ Call(i, "unassign", w) /\ queued' = queued
  <2>1. pc'[i] = "unassign"
    BY <1>4, CallParts
  <2> QED  BY <1>4, <2>1 DEF Comes, CopyOfSeen, EndsWell, Updates
<1> QED  BY <1>1, <1>2, <1>3, <1>4 DEF InventoryCleanup

-----------------------------------------------------------------------------
(***************************************************************************)
(* The steps of a reconcile, for the instance it is about.                 *)
(***************************************************************************)
LEMMA ReconcileInventoryRest ==
  ASSUME TypeOK, NEW i \in Instances, ObjectInv(i), Comes(i), ReconcileInventory(i)
  PROVE  Comes(i)'
<1>1. PICK w \in Objects : w = [work[i] EXCEPT !.status.phase = "Allocating",
                                              !.status.allocated = "False"]
  BY Parts, CopyType DEF Phases, Conditions
<1>2. /\ w.inv = work[i].inv /\ w.ext = work[i].ext /\ w.class = work[i].class
  BY <1>1, Parts DEF Objects
<1>3. pc[i] = "handle" /\ ~w.class /\ UNCHANGED <<api, seen, read, fresh>>
  BY <1>1 DEF ReconcileInventory
<1>4. ~queued[i] => ~seen[i].class /\ seen[i].ext = w.ext /\ (seen[i].inv <=> w.inv)
  BY <1>2, <1>3 DEF Comes, CopyOfSeen
<1>5. CASE Call(i, "addFinalizer", [w EXCEPT !.inv = TRUE]) /\ ~w.inv /\ queued' = queued
  <2>1. PICK o : o = [w EXCEPT !.inv = TRUE]
    OBVIOUS
  <2>2. o.inv
    BY <2>1 DEF Objects
  <2>3. Call(i, "addFinalizer", o) /\ (~queued[i] => Differ(o, seen[i]))
    BY <1>4, <1>5, <2>1, <2>2 DEF Differ
  <2> QED  BY <1>3, <1>5, <2>3, CallComes
<1>6. CASE Call(i, "find", w) /\ w.ext = NoHost /\ queued' = queued
  BY <1>3, <1>4, <1>6, CallComes DEF Updates
<1>7. CASE Call(i, "assignGet", w) /\ w.ext # NoHost /\ queued' = queued
  BY <1>3, <1>4, <1>7, CallComes DEF Updates
<1>8. CASE Return(i, w, TRUE)
  BY <1>8, ReturnRequeues, QueuedComes
<1> QED  BY <1>1, <1>5, <1>6, <1>7, <1>8 DEF ReconcileInventory, NeedsFinalizer

LEMMA AssigningRest ==
  ASSUME TypeOK, NEW i \in Instances, ObjectInv(i), Comes(i),
         FindFreeHost(i) \/ AssignGet(i) \/ AssignPut(i) \/ UnassignHost(i)
  PROVE  Comes(i)'
<1>1. /\ pc[i] \in {"find", "assignGet", "assignPut", "unassign"}
      /\ UNCHANGED <<api, seen, read, fresh>> /\ work[i] \in Objects
  BY Parts DEF FindFreeHost, AssignGet, AssignPut, UnassignHost
<1>2. ~queued[i] => CopyOfSeen(i)
  BY <1>1 DEF Comes
<1>3. CASE FindFreeHost(i)
  <2>1. CASE Return(i, [work[i] EXCEPT !.status.phase = "Failed"], TRUE)
    BY <2>1, ReturnRequeues, QueuedComes
  <2>2. ASSUME NEW h \in Hosts, Call(i, "setHost", [work[i] EXCEPT !.ext = h]), queued' = queued
        PROVE  Comes(i)'
    <3>1. PICK o : o = [work[i] EXCEPT !.ext = h]
      OBVIOUS
    <3>2. o.ext # NoHost
      BY <1>1, <3>1, NoHostAssumption DEF Objects
    <3>3. ~queued[i] => seen[i].ext = NoHost
      BY <1>2, <1>3 DEF CopyOfSeen, FindFreeHost
    <3>4. Call(i, "setHost", o) /\ (~queued[i] => Differ(o, seen[i]))
      BY <2>2, <3>1, <3>2, <3>3 DEF Differ
    <3> QED  BY <1>1, <2>2, <3>4, CallComes
  <2> QED  BY <1>3, <2>1, <2>2 DEF FindFreeHost, FreeHosts
<1>4. CASE AssignGet(i)
  <2>1. ~queued[i] => ~seen[i].class /\ seen[i].ext # NoHost
    BY <1>2, <1>4 DEF CopyOfSeen, AssignGet
  <2>2. CASE Call(i, "assignPut", work[i])
    BY <1>1, <1>4, <2>1, <2>2, CallComes DEF AssignGet, Updates
  <2>3. CASE Call(i, "unsetHost", [work[i] EXCEPT !.ext = NoHost])
    <3>1. PICK o : o = [work[i] EXCEPT !.ext = NoHost]
      OBVIOUS
    <3>2. o.ext = NoHost
      BY <1>1, <3>1 DEF Objects
    <3>3. Call(i, "unsetHost", o) /\ (~queued[i] => Differ(o, seen[i])) /\ queued' = queued
      BY <1>4, <2>1, <2>3, <3>1, <3>2 DEF AssignGet, Differ
    <3> QED  BY <1>1, <3>3, CallComes
  <2> QED  BY <1>4, <2>2, <2>3 DEF AssignGet
<1>5. CASE AssignPut(i)
  <2>1. PICK o : o = [work[i] EXCEPT !.class = TRUE]
    OBVIOUS
  <2>2. o.class
    BY <1>1, <2>1 DEF Objects
  <2>3. ~queued[i] => ~seen[i].class
    BY <1>2, <1>5 DEF CopyOfSeen, AssignPut
  <2>4. Call(i, "setClass", o) /\ (~queued[i] => Differ(o, seen[i])) /\ queued' = queued
    BY <1>5, <2>1, <2>2, <2>3 DEF AssignPut, Differ
  <2> QED  BY <1>1, <2>4, CallComes
<1>6. CASE UnassignHost(i)
  <2>1. PICK o : o = [work[i] EXCEPT !.inv = FALSE]
    OBVIOUS
  <2>2. ~o.inv
    BY <1>1, <2>1 DEF Objects
  <2>3. ~queued[i] => seen[i].inv
    BY <1>2, <1>6 DEF CopyOfSeen, UnassignHost
  <2>4. Call(i, "dropInv", o) /\ (~queued[i] => Differ(o, seen[i])) /\ queued' = queued
    BY <1>6, <2>1, <2>2, <2>3 DEF UnassignHost, Differ
  <2> QED  BY <1>1, <2>4, CallComes
<1> QED  BY <1>3, <1>4, <1>5, <1>6

LEMMA UpdateRest ==
  ASSUME TypeOK, NEW i \in Instances, Comes(i),
         \/ AddFinalizer(i) \/ SetHost(i) \/ UnsetHost(i) \/ SetClass(i)
         \/ AddManagementFinalizer(i) \/ DropInventoryFinalizer(i)
  PROVE  Comes(i)'
<1>1. /\ pc[i] \in Updates /\ Apply(i) /\ UNCHANGED <<seen, read, fresh>>
      /\ \E w : Return(i, w, FALSE)
  BY DEF AddFinalizer, SetHost, UnsetHost, SetClass, AddManagementFinalizer,
         DropInventoryFinalizer, Updates
<1>2. pc[i] # "idle"
  BY <1>1 DEF Updates
<1> QED  BY <1>1, <1>2, UpdateComes, ReturnComes

LEMMA ReconcileManagementRest ==
  ASSUME TypeOK, NEW i \in Instances, ObjectInv(i), Comes(i), ReconcileManagement(i)
  PROVE  Comes(i)'
<1>1. /\ pc[i] = "handle" /\ UNCHANGED <<api, seen, read, fresh>> /\ work[i] \in Objects
      /\ work[i].live = "present"
  BY Parts DEF ReconcileManagement
<1>2. ~queued[i] => work[i] = seen[i]
  BY <1>1 DEF Comes, CopyOfSeen
<1>3. CASE ~work[i].mgmt /\ Call(i, "addMgmt", [work[i] EXCEPT !.mgmt = TRUE]) /\ queued' = queued
  <2>1. PICK o : o = [work[i] EXCEPT !.mgmt = TRUE]
    OBVIOUS
  <2>2. o.mgmt
    BY <1>1, <2>1 DEF Objects
  <2>3. Call(i, "addMgmt", o) /\ (~queued[i] => Differ(o, seen[i]))
    BY <1>2, <1>3, <2>1, <2>2 DEF Differ
  <2> QED  BY <1>1, <1>3, <2>3, CallComes
<1>4. ASSUME NEW p \in ManagementOutcomes,
             Return(i, [work[i] EXCEPT !.status.phase = p], p # "Ready")
      PROVE  Comes(i)'
  <2>1. CASE p # "Ready"
    <3>1. (p # "Ready") = TRUE
      BY <2>1
    <3> QED  BY <1>4, <3>1, ReturnRequeues, QueuedComes
  <2>2. CASE p = "Ready"
    <3>1. PICK w : w = [work[i] EXCEPT !.status.phase = p]
      OBVIOUS
    <3>2. w.status.phase = "Ready"
      BY <1>1, <2>2, <3>1 DEF Objects, Statuses
    <3>3. ~queued[i] /\ fresh[i] => seen[i] = api[i] /\ api[i].live = "present"
      BY <1>1, <1>2 DEF ObjectInv, AtStart
    <3>4. ~queued[i] /\ ~fresh[i] => seen[i] # api[i]
      BY <1>1 DEF Comes
    <3> QED  BY <1>1, <1>4, <3>1, <3>2, <3>3, <3>4, ReturnComes
  <2> QED  BY <2>1, <2>2
<1> QED  BY <1>3, <1>4 DEF ReconcileManagement

LEMMA DeletionRest ==
  ASSUME TypeOK, NEW i \in Instances, ObjectInv(i), HasFinalizer(i), Comes(i),
         HandleDeletion(i) \/ DropManagementFinalizer(i)
  PROVE  Comes(i)'
<1>1. /\ pc[i] \in {"handle", "dropMgmt"} /\ UNCHANGED <<seen, read, fresh>>
      /\ work[i] \in Objects
  BY Parts DEF HandleDeletion, DropManagementFinalizer
<1>2. CASE HandleDeletion(i)
  <2>1. /\ pc[i] = "handle" /\ UNCHANGED api
        /\ ~queued[i] => work[i] = seen[i] /\ (~fresh[i] => seen[i] # api[i])
        /\ Sound(work[i]) /\ work[i].live = "deleting" /\ (fresh[i] => work[i] = api[i])
    BY <1>2 DEF HandleDeletion, Comes, CopyOfSeen, ObjectInv, AtStart
  <2>2. CASE work[i].mgmt /\ queued' = queued
             /\ Call(i, "dropMgmt", [work[i] EXCEPT !.mgmt = FALSE, !.status.phase = "Deleting"])
    <3>1. PICK o : o = [work[i] EXCEPT !.mgmt = FALSE, !.status.phase = "Deleting"]
      OBVIOUS
    <3>2. ~o.mgmt
      BY <1>1, <3>1 DEF Objects
    <3>3. ~queued[i] => seen[i].inv /\ seen[i].mgmt
      BY <2>1, <2>2 DEF Sound
    <3> QED  BY <1>1, <2>1, <2>2, <3>1, <3>2, <3>3, CallComes DEF Differ
  <2>3. CASE InventoryCleanup(i, work[i])
    BY <1>1, <2>1, <2>3, CleanupComes DEF HasFinalizer
  <2> QED  BY <1>2, <2>2, <2>3 DEF HandleDeletion
<1>3. CASE DropManagementFinalizer(i)
  <2>1. pc[i] = "dropMgmt" /\ pc[i] \in Updates /\ Apply(i) /\ InventoryCleanup(i, Answer(i))
    BY <1>3 DEF DropManagementFinalizer, Updates
  <2>2. Answer(i) \in Objects
    BY StoredType
  <2>3. ~queued[i] => seen[i].inv
    BY <2>1 DEF Comes, CopyOfSeen
  <2>4. ~queued[i] => Differ(api'[i], seen[i]) /\ fresh[i]
    BY <2>1, UpdateComes
  <2> QED  BY <1>1, <2>1, <2>2, <2>3, <2>4, CleanupComes
<1> QED  BY <1>2, <1>3

LEMMA ErrorRest ==
  ASSUME TypeOK, NEW i \in Instances, CallFails(i) \/ AnswerLost(i)
  PROVE  Comes(i)'
BY ReturnRequeues, QueuedComes DEF CallFails, AnswerLost

LEMMA WriteStatusRest ==
  ASSUME TypeOK, NEW i \in Instances, ObjectInv(i), Comes(i), WriteStatus(i)
  PROVE  Comes(i)'
<1>1. /\ pc[i] = "status" /\ pc'[i] = "idle" /\ UNCHANGED <<seen, owner>>
  BY DEF WriteStatus, Idle, Call, TypeOK
<1>2. \A again \in BOOLEAN : Idle(i, again) => (queued[i] \/ again => queued'[i])
  <2> SUFFICES ASSUME NEW again \in BOOLEAN, Idle(i, again)
               PROVE  queued[i] \/ again => queued'[i]
    OBVIOUS
  <2>1. queued'[i] = (queued[i] \/ again)
    BY DEF Idle, TypeOK
  <2> QED  BY <2>1, Zenon
<1>3. CASE queued'[i]
  BY <1>3, QueuedComes
<1>4. CASE ~queued'[i]
  <2>1. /\ ~queued[i] /\ read[i] = seen[i].status
        /\ ~fresh[i] => seen[i] # api[i]
        /\ fresh[i] => \/ Differ(api[i], seen[i])
                       \/ /\ seen[i] = api[i] /\ api[i].live = "present"
                          /\ work[i].status.phase = "Ready"
    BY <1>1, <1>2, <1>4 DEF WriteStatus, Comes, CopyOfSeen, EndsWell
  <2>2. CASE api' = api /\ (work[i].status = read[i] \/ api[i].live = "gone")
    BY <1>1, <2>1, <2>2 DEF Comes, Differ, Done
  <2>3. CASE fresh[i] /\ api' = [api EXCEPT ![i].status = work[i].status]
    <3>1. /\ api'[i].status = work[i].status /\ api'[i].live = api[i].live
          /\ api'[i].inv = api[i].inv /\ api'[i].mgmt = api[i].mgmt
          /\ api'[i].class = api[i].class /\ api'[i].ext = api[i].ext
      BY <2>3, Parts DEF TypeOK, Objects
    <3> QED  BY <1>1, <2>1, <2>3, <3>1 DEF Comes, Differ, Done
  <2> QED  BY <1>2, <1>4, <2>2, <2>3 DEF WriteStatus
<1> QED  BY <1>3, <1>4

-----------------------------------------------------------------------------
(***************************************************************************)
(* The environment, and the invariant.                                     *)
(***************************************************************************)
LEMMA EnvironmentRest ==
  ASSUME TypeOK, NEW i \in Instances, ObjectInv(i), Comes(i),
         Create(i) \/ Delete(i) \/ Sync(i) \/ Reconcile(i)
  PROVE  Comes(i)'
<1>1. CASE Create(i)
  <2>1. /\ api[i].live = "absent" /\ api'[i].live = "present"
        /\ UNCHANGED <<seen, queued, pc>>
    BY <1>1, Parts DEF Create, TypeOK, Objects
  <2>2. pc[i] = "idle" /\ seen[i].live = "absent"
    BY <2>1 DEF ObjectInv, CacheFollows
  <2> QED  BY <2>1, <2>2 DEF Comes
<1>2. CASE Delete(i)
  <2>1. /\ api[i].live = "present" /\ api'[i].live \in Ended
        /\ UNCHANGED <<seen, queued, pc, work, read>> /\ ~fresh'[i]
    BY <1>2, Parts DEF Delete, TypeOK, Objects, Ended
  <2>2. seen[i] # api'[i]
    BY <2>1 DEF ObjectInv, CacheFollows, Ended
  <2> QED  BY <2>1, <2>2 DEF Comes, CopyOfSeen, EndsWell
<1>3. CASE Sync(i)
  BY <1>3, QueuedComes DEF Sync, TypeOK
<1>4. CASE Reconcile(i)
  <2>1. UNCHANGED <<api, seen>> /\ pc[i] = "idle"
    BY <1>4 DEF Reconcile
  <2>2. CASE seen[i].live \in {"absent", "gone"} /\ UNCHANGED pc
    BY <2>1, <2>2 DEF Comes, Done
  <2>3. CASE /\ Call(i, "handle", seen[i])
             /\ read' = [read EXCEPT ![i] = seen[i].status]
             /\ fresh' = [fresh EXCEPT ![i] = (seen[i] = api[i])]
    <3>1. pc'[i] = "handle" /\ work'[i] = seen[i]
      BY <2>3, CallParts
    <3>2. ~fresh'[i] => seen[i] # api[i]
      BY <2>3, Zenon DEF TypeOK
    <3>3. read'[i] = seen[i].status
      BY <2>3 DEF TypeOK
    <3> QED  BY <2>1, <3>1, <3>2, <3>3 DEF Comes, CopyOfSeen, EndsWell, Updates
  <2> QED  BY <1>4, <2>2, <2>3 DEF Reconcile
<1> QED  BY <1>1, <1>2, <1>3, <1>4

\* A deletion that is not over keeps the inventory finalizer.
LEMMA KeepsFinalizer ==
  ASSUME TypeOK, NEW i \in Instances, ObjectInv(i), HasFinalizer(i),
         Create(i) \/ Delete(i) \/ Sync(i) \/ Reconcile(i) \/ Step(i)
  PROVE  HasFinalizer(i)'
<1>1. CASE api'[i] = api[i]
  BY <1>1 DEF HasFinalizer
<1>2. CASE pc[i] \in Updates /\ Apply(i)
  <2>1. api'[i] = Stored(i) /\ fresh[i]
    BY <1>2 DEF Apply, TypeOK
  <2>2. CASE pc[i] \in Assigning \cup {"addMgmt"}
    <3>1. work[i].inv
      BY <2>2 DEF ObjectInv, AtAssigning, AtManaging
    <3> QED  BY <2>1, <3>1, StoredParts DEF HasFinalizer
  <2>3. CASE pc[i] \in Releasing
    <3>1. work[i].live = "deleting" /\ ~work[i].mgmt
      BY <2>3 DEF ObjectInv, AtReleasing
    <3> QED  BY <2>1, <3>1, StoredParts DEF HasFinalizer
  <2> QED  BY <1>2, <2>2, <2>3 DEF Updates, Assigning, Releasing
<1>3. CASE Create(i)
  BY <1>3, Parts DEF Create, TypeOK, Objects, HasFinalizer
<1>4. CASE Delete(i)
  <2>1. api[i].mgmt => api[i].inv
    BY DEF ObjectInv, Sound
  <2> QED  BY <1>4, <2>1, Parts DEF Delete, TypeOK, Objects, HasFinalizer
<1>5. CASE api' = [api EXCEPT ![i].status = work[i].status]
  BY <1>5, Parts DEF TypeOK, Objects, HasFinalizer
<1> QED  BY <1>1, <1>2, <1>3, <1>4, <1>5
         DEF Step, Sync, Reconcile, ReconcileInventory, AddFinalizer, FindFreeHost, SetHost,
             AssignGet, AssignPut, UnsetHost, SetClass, ReconcileManagement,
             AddManagementFinalizer, HandleDeletion, DropManagementFinalizer, UnassignHost,
             DropInventoryFinalizer, CallFails, AnswerLost, WriteStatus, Updates

LEMMA RestartRest ==
  ASSUME TypeOK, NEW i \in Instances, HasFinalizer(i), Restart
  PROVE  RestInv(i)'
<1>1. seen'[i] = api[i] /\ pc'[i] = "idle" /\ UNCHANGED api
  BY DEF Restart
<1>2. queued'[i] = (api[i].live \in {"present", "deleting"})
  BY DEF Restart
<1>3. ~queued'[i] => api[i].live \notin {"present", "deleting"}
  BY <1>2, Zenon
<1> QED  BY <1>1, <1>3 DEF RestInv, HasFinalizer, Comes, Done

\* A step of one instance leaves the queue and the status read of another.
LEMMA QueueFrame ==
  ASSUME TypeOK, NEW i \in Instances, NEW j \in Instances \ {i},
         Create(i) \/ Delete(i) \/ Sync(i) \/ Reconcile(i) \/ Step(i)
  PROVE  queued'[j] = queued[j] /\ read'[j] = read[j]
BY DEF Create, Delete, Sync, Reconcile, Step, ReconcileInventory, AddFinalizer, FindFreeHost,
       SetHost, AssignGet, AssignPut, UnsetHost, SetClass, ReconcileManagement,
       AddManagementFinalizer, HandleDeletion, DropManagementFinalizer, UnassignHost,
       DropInventoryFinalizer, CallFails, AnswerLost, WriteStatus, InventoryCleanup, Return,
       Idle, TypeOK

LEMMA FrameRest ==
  ASSUME NEW i \in Instances, RestInv(i),
         api'[i] = api[i], seen'[i] = seen[i], pc'[i] = pc[i], work'[i] = work[i],
         fresh'[i] = fresh[i], queued'[i] = queued[i], read'[i] = read[i]
  PROVE  RestInv(i)'
BY DEF RestInv, HasFinalizer, Comes, CopyOfSeen, EndsWell

AllRest == \A i \in Instances : RestInv(i)

LEMMA InitRest == Init => AllRest
BY DEF Init, AllRest, RestInv, HasFinalizer, Comes, Done, Blank

LEMMA NextRest ==
  ASSUME TypeOK, ObjectsInv, AllRest, [Next]_vars
  PROVE  AllRest'
<1>1. CASE UNCHANGED vars
  BY <1>1, FrameRest DEF vars, AllRest
<1>2. ASSUME NEW i \in Instances,
             Create(i) \/ Delete(i) \/ Sync(i) \/ Reconcile(i) \/ Step(i)
      PROVE  AllRest'
  <2>1. ObjectInv(i) /\ HasFinalizer(i) /\ Comes(i)
    BY DEF ObjectsInv, AllRest, RestInv
  <2>2. Comes(i)'
    BY <1>2, <2>1, EnvironmentRest, ReconcileInventoryRest, AssigningRest, UpdateRest,
       ReconcileManagementRest, DeletionRest, ErrorRest, WriteStatusRest DEF Step
  <2>3. RestInv(i)'
    BY <1>2, <2>1, <2>2, KeepsFinalizer DEF RestInv
  <2>4. \A j \in Instances \ {i} : RestInv(j)'
    BY <1>2, FrameStep, QueueFrame, FrameRest DEF AllRest
  <2> QED  BY <2>3, <2>4 DEF AllRest
<1>3. CASE Restart
  BY <1>3, RestartRest DEF AllRest, RestInv
<1> QED  BY <1>1, <1>2, <1>3 DEF Next

\* The controller rests only on instances that are gone or Ready: whatever the
\* locks, the stale copies, the failed calls and the restarts, it forgets none
\* (Reconcile, handleUpdate and handleDeletion, with the final status write).
THEOREM RestsWhenDone == Spec => []QuiescentIsDone
<1>1. IInv /\ ObjectsInv /\ AllRest /\ [Next]_vars => AllRest'
  BY NextRest DEF IInv
<1>2. AllRest => QuiescentIsDone
  BY DEF AllRest, RestInv, Comes, Done, QuiescentIsDone
<1> QED  BY <1>1, <1>2, InitRest, Invariance, ObjectsInvariance, PTL DEF Spec
=============================================================================
