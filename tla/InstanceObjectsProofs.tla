------------------------ MODULE InstanceObjectsProofs ------------------------
(***************************************************************************)
(* Proofs about the objects of InstanceAllocation: what the stored object, *)
(* the copy in the cache and the copy of a reconcile have to do with each  *)
(* other, and with the claims.                                             *)
(*                                                                         *)
(* The argument: every stored object is sound, and an update is only taken *)
(* from a copy of the stored version, so it is enough to know, at each     *)
(* step of a reconcile, what its copy has changed.  A copy that is out of  *)
(* date can still make a claim; that the finalizer is stored then needs    *)
(* that a reconcile which removes it has seen the deletion, as has the     *)
(* cache from then on.                                                     *)
(***************************************************************************)
EXTENDS InstanceAllocationProofs

\* Where a reconcile is on its way to a host, and where it gives it back.
Assigning == {"addFinalizer", "find", "setHost", "assignGet", "assignPut", "unsetHost",
              "setClass"}
Releasing == {"dropMgmt", "unassign", "dropInv"}
Ended == {"deleting", "gone"}

\* What is so of every object that is ever stored.
Sound(o) ==
  /\ o.class => o.ext # NoHost
  /\ o.mgmt => o.class /\ o.inv
  /\ o.live \in {"absent", "present"} /\ o.ext # NoHost => o.inv
  /\ o.live = "absent" => ~o.inv
  /\ o.live = "gone" => ~o.inv
  /\ o.status.allocated = "True" => o.class
  /\ o.status.phase = "Ready" /\ o.live \in {"absent", "present"} => o.mgmt

\* The cache follows the stored object.
CacheFollows(i) ==
  /\ Sound(seen[i])
  /\ seen[i].live # "absent" => api[i].live # "absent"
  /\ seen[i].live \in Ended => api[i].live \in Ended
  /\ seen[i].live = "present" /\ seen[i].inv => api[i].inv

\* A reconcile starts with the copy in the cache.
AtStart(i) ==
  pc[i] = "handle" =>
    /\ work[i].live \in {"present", "deleting"} /\ Sound(work[i])
    /\ fresh[i] => work[i] = api[i]
    /\ work[i].live = "present" /\ work[i].inv => api[i].inv
    /\ work[i].live = "deleting" => seen[i].live \in Ended

\* On the way to a host it has reset the condition and the phase, and but for
\* the first step its finalizer is stored.
AtAssigning(i) ==
  pc[i] \in Assigning =>
    /\ work[i].live = "present" /\ work[i].inv /\ ~work[i].mgmt
    /\ work[i].class <=> pc[i] = "setClass"
    /\ work[i].status.allocated = "False" /\ work[i].status.phase = "Allocating"
    /\ pc[i] # "addFinalizer" => api[i].inv
    /\ fresh[i] => /\ api[i].live = "present" /\ ~api[i].class
                   /\ pc[i] \notin {"setHost", "unsetHost"} => api[i].ext = work[i].ext

AtManaging(i) ==
  pc[i] = "addMgmt" =>
    /\ work[i].live = "present" /\ work[i].inv /\ work[i].mgmt /\ work[i].class
    /\ work[i].status.phase # "Ready"
    /\ fresh[i] => /\ api[i].live = "present" /\ api[i].class
                   /\ api[i].ext = work[i].ext

\* In a deletion it has the host of the stored object, and removes the
\* inventory finalizer when it has no claim on it.
AtReleasing(i) ==
  pc[i] \in Releasing =>
    /\ work[i].live = "deleting" /\ ~work[i].mgmt /\ seen[i].live \in Ended
    /\ work[i].inv <=> pc[i] # "dropInv"
    /\ work[i].status.allocated = "True" => work[i].class
    /\ fresh[i] => /\ api[i].live = "deleting"
                   /\ api[i].class = work[i].class /\ api[i].ext = work[i].ext
                   /\ pc[i] # "dropMgmt" => ~api[i].mgmt
    /\ pc[i] = "dropInv" /\ work[i].ext # NoHost => owner[work[i].ext] # i

\* What it is about to write to the status of the stored object is so.
AtEnd(i) ==
  pc[i] = "status" /\ fresh[i] =>
    /\ work[i].status.allocated = "True" => api[i].class
    /\ work[i].status.phase = "Ready" /\ api[i].live = "present" => api[i].mgmt

NoClaimLeft(i) == api[i].live = "gone" /\ api[i].ext # NoHost => owner[api[i].ext] # i

ObjectInv(i) ==
  /\ Sound(api[i]) /\ NoClaimLeft(i) /\ CacheFollows(i)
  /\ pc[i] # "idle" => api[i].live # "absent"
  /\ AtStart(i) /\ AtAssigning(i) /\ AtManaging(i) /\ AtReleasing(i) /\ AtEnd(i)

ObjectsInv == \A i \in Instances : ObjectInv(i)

-----------------------------------------------------------------------------
(***************************************************************************)
(* Initial state, and what does not touch the instance.                    *)
(***************************************************************************)
LEMMA InitObjects == Init => ObjectsInv
<1>1. Sound(Blank) /\ Blank.live = "absent"
  BY DEF Sound, Blank, NoStatus
<1> QED  BY <1>1 DEF Init, ObjectsInv, ObjectInv, NoClaimLeft, CacheFollows, AtStart, AtAssigning,
                     AtManaging, AtReleasing, AtEnd, Assigning, Releasing, Ended

\* The steps of others make no claim in its name.
LEMMA OthersStep ==
  ASSUME TypeOK, NEW i \in Instances, ObjectInv(i),
         api'[i] = api[i], seen'[i] = seen[i], pc'[i] = pc[i], work'[i] = work[i],
         fresh'[i] = fresh[i],
         \A h \in Hosts : owner'[h] = i => owner[h] = i
  PROVE  ObjectInv(i)'
<1>1. api[i].ext \in Hosts \cup {NoHost} /\ work[i].ext \in Hosts \cup {NoHost}
  BY DEF TypeOK, Objects
<1> QED  BY <1>1 DEF ObjectInv, NoClaimLeft, CacheFollows, AtStart, AtAssigning, AtManaging,
                     AtReleasing, AtEnd, Sound

\* The handler returns, and leaves the status to be written.
LEMMA EndStep ==
  ASSUME NEW i \in Instances, pc'[i] = "status",
         Sound(api[i])', NoClaimLeft(i)', CacheFollows(i)', api'[i].live # "absent", AtEnd(i)'
  PROVE  ObjectInv(i)'
BY DEF ObjectInv, AtStart, AtAssigning, AtManaging, AtReleasing, Assigning, Releasing

\* The parts of the object, and of the copy, that the invariant is about.
LEMMA Parts ==
  ASSUME TypeOK, NEW i \in Instances
  PROVE  /\ api[i] \in Objects /\ work[i] \in Objects /\ seen[i] \in Objects
         /\ api[i].status \in Statuses /\ work[i].status \in Statuses
         /\ api[i].ext \in Hosts \cup {NoHost} /\ work[i].ext \in Hosts \cup {NoHost}
         /\ api[i].live \in Lives /\ work[i].live \in Lives /\ seen[i].live \in Lives
BY DEF TypeOK, Objects

\* What an update stores, and what it answers.
LEMMA StoredParts ==
  ASSUME TypeOK, NEW i \in Instances
  PROVE  /\ Stored(i).inv = work[i].inv /\ Stored(i).mgmt = work[i].mgmt
         /\ Stored(i).ext = work[i].ext /\ Stored(i).class = work[i].class
         /\ Stored(i).status = api[i].status
         /\ work[i].inv \/ work[i].mgmt \/ work[i].live # "deleting"
              => Stored(i).live = work[i].live
         /\ work[i].live = "deleting" /\ ~work[i].inv /\ ~work[i].mgmt
              => Stored(i).live = "gone"
BY Parts DEF Stored, Objects

LEMMA AnswerParts ==
  ASSUME TypeOK, NEW i \in Instances
  PROVE  /\ Answer(i).inv = work[i].inv /\ Answer(i).mgmt = work[i].mgmt
         /\ Answer(i).ext = work[i].ext /\ Answer(i).class = work[i].class
         /\ Answer(i).live = Stored(i).live
         /\ Answer(i).status.allocated \in {api[i].status.allocated, work[i].status.allocated}
         /\ Answer(i).status.phase \in {api[i].status.phase, work[i].status.phase}
<1>1. Stored(i) \in Objects
  BY StoredType
<1>2. Merge(api[i].status, work[i].status).allocated
        \in {api[i].status.allocated, work[i].status.allocated}
  BY DEF Merge
<1>3. Merge(api[i].status, work[i].status).phase
        \in {api[i].status.phase, work[i].status.phase}
  BY DEF Merge
<1>4. /\ Answer(i).inv = Stored(i).inv /\ Answer(i).mgmt = Stored(i).mgmt
      /\ Answer(i).ext = Stored(i).ext /\ Answer(i).class = Stored(i).class
      /\ Answer(i).live = Stored(i).live
      /\ Answer(i).status = Merge(api[i].status, work[i].status)
  BY <1>1 DEF Answer, Objects
<1> QED  BY <1>2, <1>3, <1>4, StoredParts

\* An update that is taken leaves the object sound, and what its answer says of
\* the status is so.
LEMMA UpdateSound ==
  ASSUME TypeOK, LockDiscipline, NEW i \in Instances, ObjectInv(i),
         pc[i] \in Updates, Apply(i), UNCHANGED <<seen, owner>>
  PROVE  /\ Sound(api[i])' /\ NoClaimLeft(i)' /\ CacheFollows(i)' /\ api'[i].live # "absent"
         /\ Answer(i).status.allocated = "True" => api'[i].class
         /\ Answer(i).status.phase = "Ready" /\ api'[i].live = "present" => api'[i].mgmt
         /\ api'[i] = Stored(i)
<1>1. api'[i] = Stored(i) /\ fresh[i]
  BY DEF Apply, TypeOK
<1>2. Sound(api[i]) /\ CacheFollows(i) /\ api[i].live # "absent"
  BY DEF ObjectInv, Updates
<1>3. CASE pc[i] \in Assigning
  <2>1. /\ work[i].live = "present" /\ work[i].inv /\ ~work[i].mgmt
        /\ work[i].class => work[i].ext # NoHost
        /\ api[i].live = "present" /\ ~api[i].class
        /\ work[i].status.allocated = "False" /\ work[i].status.phase = "Allocating"
    BY <1>1, <1>3 DEF ObjectInv, AtAssigning, LockDiscipline, HostCalls
  <2>2. api[i].status.allocated # "True" /\ api[i].status.phase # "Ready"
    BY <1>2, <2>1 DEF Sound
  <2>3. /\ Stored(i).live = "present" /\ Stored(i).inv /\ ~Stored(i).mgmt
        /\ Stored(i).class => Stored(i).ext # NoHost
        /\ Stored(i).status.allocated # "True" /\ Stored(i).status.phase # "Ready"
    BY <2>1, <2>2, StoredParts
  <2>4. Sound(api[i])' /\ NoClaimLeft(i)'
    BY <1>1, <2>3 DEF Sound, NoClaimLeft
  <2>5. CacheFollows(i)'
    BY <1>1, <1>2, <2>1, <2>3 DEF CacheFollows, Ended, Sound
  <2> QED  BY <1>1, <2>1, <2>2, <2>3, <2>4, <2>5, AnswerParts
<1>4. CASE pc[i] = "addMgmt"
  <2>1. /\ work[i].live = "present" /\ work[i].inv /\ work[i].mgmt /\ work[i].class
        /\ work[i].ext = api[i].ext /\ api[i].live = "present" /\ api[i].class
    BY <1>1, <1>4 DEF ObjectInv, AtManaging
  <2>2. /\ Stored(i).live = "present" /\ Stored(i).inv /\ Stored(i).mgmt
        /\ Stored(i).class /\ Stored(i).ext # NoHost
    BY <1>2, <2>1, StoredParts DEF Sound
  <2>3. Sound(api[i])' /\ NoClaimLeft(i)'
    BY <1>1, <2>2 DEF Sound, NoClaimLeft
  <2>4. CacheFollows(i)'
    BY <1>1, <1>2, <2>1, <2>2 DEF CacheFollows, Ended, Sound
  <2> QED  BY <1>1, <2>2, <2>3, <2>4
<1>5. CASE pc[i] \in Releasing
  <2>1. /\ work[i].live = "deleting" /\ ~work[i].mgmt /\ seen[i].live \in Ended
        /\ work[i].inv <=> pc[i] # "dropInv"
        /\ work[i].status.allocated = "True" => work[i].class
        /\ api[i].live = "deleting" /\ api[i].class = work[i].class /\ api[i].ext = work[i].ext
        /\ pc[i] = "dropInv" /\ work[i].ext # NoHost => owner[work[i].ext] # i
    BY <1>1, <1>5 DEF ObjectInv, AtReleasing
  <2>2. /\ Stored(i).live = IF pc[i] = "dropInv" THEN "gone" ELSE "deleting"
        /\ Stored(i).inv <=> pc[i] # "dropInv"
        /\ ~Stored(i).mgmt /\ Stored(i).class = api[i].class /\ Stored(i).ext = api[i].ext
        /\ Stored(i).status = api[i].status
    BY <2>1, StoredParts
  <2>3. Sound(api[i])'
    BY <1>1, <1>2, <2>2 DEF Sound
  <2>4. NoClaimLeft(i)'
    BY <1>1, <2>1, <2>2 DEF NoClaimLeft
  <2>5. CacheFollows(i)'
    BY <1>1, <1>2, <2>1, <2>2 DEF CacheFollows, Ended, Sound
  <2>6. Answer(i).status.allocated = "True" => api'[i].class
    BY <1>1, <1>2, <2>1, <2>2, AnswerParts DEF Sound
  <2> QED  BY <1>1, <2>2, <2>3, <2>4, <2>5, <2>6
<1> QED  BY <1>3, <1>4, <1>5 DEF Updates, Assigning, Releasing

-----------------------------------------------------------------------------
(***************************************************************************)
(* The steps of a reconcile, for the instance it is about.                 *)
(***************************************************************************)
\* The next call of the handler, with the stored object and the cache as they
\* were.
LEMMA KeptParts ==
  ASSUME TypeOK, NEW i \in Instances, ObjectInv(i), pc[i] # "idle",
         api'[i] = api[i], seen'[i] = seen[i],
         \A h \in Hosts : owner'[h] = i => owner[h] = i \/ api[i].inv
  PROVE  /\ Sound(api[i])' /\ NoClaimLeft(i)' /\ CacheFollows(i)' /\ api'[i].live # "absent"
         /\ Sound(api[i]) /\ api[i].live # "absent"
<1>1. api[i].ext \in Hosts \cup {NoHost}
  BY Parts
<1> QED  BY <1>1 DEF ObjectInv, NoClaimLeft, CacheFollows, Sound

LEMMA CallParts ==
  ASSUME TypeOK, NEW i \in Instances, NEW c, NEW w, Call(i, c, w)
  PROVE  pc'[i] = c /\ work'[i] = w
BY DEF TypeOK, Call

\* The return of a handler whose copy says of the status what is so.
LEMMA ReturnStep ==
  ASSUME TypeOK, NEW i \in Instances, ObjectInv(i), pc[i] # "idle",
         NEW w, NEW again, Return(i, w, again),
         api'[i] = api[i], seen'[i] = seen[i],
         \A h \in Hosts : owner'[h] = i => owner[h] = i \/ api[i].inv,
         fresh'[i] => /\ w.status.allocated = "True" => api[i].class
                      /\ w.status.phase = "Ready" /\ api[i].live = "present" => api[i].mgmt
  PROVE  ObjectInv(i)'
<1>1. pc'[i] = "status" /\ work'[i] = w
  BY CallParts DEF Return
<1> QED  BY <1>1, KeptParts, EndStep DEF AtEnd

LEMMA ReconcileInventoryStep ==
  ASSUME TypeOK, NEW i \in Instances, ObjectInv(i), ReconcileInventory(i)
  PROVE  ObjectInv(i)'
<1>1. PICK w \in Objects : w = [work[i] EXCEPT !.status.phase = "Allocating",
                                              !.status.allocated = "False"]
  BY Parts, CopyType DEF Phases, Conditions
<1>2. /\ w.live = "present" /\ ~w.class /\ w.inv = work[i].inv /\ w.mgmt = work[i].mgmt
      /\ w.ext = work[i].ext
      /\ w.status.phase = "Allocating" /\ w.status.allocated = "False"
  BY <1>1, Parts DEF ReconcileInventory, Objects, Statuses
<1>3. /\ pc[i] = "handle" /\ work[i].live = "present" /\ ~work[i].class
      /\ UNCHANGED <<api, seen, fresh, owner>>
  BY DEF ReconcileInventory
<1>4. /\ ~w.mgmt
      /\ work[i].inv => api[i].inv
      /\ fresh[i] => api[i].live = "present" /\ ~api[i].class /\ api[i].ext = w.ext
  BY <1>2, <1>3 DEF ObjectInv, AtStart, Sound
<1>5. CASE Return(i, w, TRUE)
  BY <1>2, <1>3, <1>5, ReturnStep
<1>6. CASE ~w.inv /\ Call(i, "addFinalizer", [w EXCEPT !.inv = TRUE])
  <2>1. PICK v \in Objects : v = [w EXCEPT !.inv = TRUE]
    BY CopyType
  <2>2. /\ pc'[i] = "addFinalizer" /\ work'[i] = v
        /\ v.live = w.live /\ v.class = w.class /\ v.inv /\ v.mgmt = w.mgmt
        /\ v.ext = w.ext /\ v.status = w.status
    BY <1>6, <2>1, CallParts DEF Objects
  <2> QED  BY <1>2, <1>3, <1>4, <2>2, KeptParts
           DEF ObjectInv, AtStart, AtAssigning, AtManaging, AtReleasing, AtEnd, Assigning,
               Releasing
<1>7. CASE w.inv /\ \E c \in {"find", "assignGet"} : Call(i, c, w)
  <2>1. PICK c \in {"find", "assignGet"} : Call(i, c, w)
    BY <1>7
  <2>2. pc'[i] = c /\ work'[i] = w
    BY <2>1, CallParts
  <2> QED  BY <1>2, <1>3, <1>4, <1>7, <2>2, KeptParts
           DEF ObjectInv, AtStart, AtAssigning, AtManaging, AtReleasing, AtEnd, Assigning,
               Releasing
<1> QED  BY <1>1, <1>5, <1>6, <1>7 DEF ReconcileInventory, NeedsFinalizer

\* The calls of the inventory on the way to a host.
LEMMA AssigningStep ==
  ASSUME TypeOK, NEW i \in Instances, ObjectInv(i),
         FindFreeHost(i) \/ AssignGet(i) \/ AssignPut(i)
  PROVE  ObjectInv(i)'
<1>1. /\ pc[i] \in {"find", "assignGet", "assignPut"} /\ UNCHANGED <<api, seen, fresh>>
      /\ \A h \in Hosts : owner'[h] = i => owner[h] = i \/ pc[i] = "assignPut"
  BY DEF FindFreeHost, AssignGet, AssignPut, TypeOK
<1>2. /\ work[i].live = "present" /\ work[i].inv /\ ~work[i].mgmt /\ ~work[i].class
      /\ work[i].status.allocated = "False" /\ work[i].status.phase = "Allocating"
      /\ api[i].inv
      /\ fresh[i] => api[i].live = "present" /\ ~api[i].class /\ api[i].ext = work[i].ext
  BY <1>1 DEF ObjectInv, AtAssigning, Assigning
<1>3. ASSUME NEW w \in Objects, NEW c \in {"setHost", "assignPut", "unsetHost", "setClass"},
             Call(i, c, w), w.live = work[i].live, w.inv, ~w.mgmt, w.status = work[i].status,
             w.class <=> c = "setClass",
             c \in {"assignPut", "setClass"} => w.ext = work[i].ext
      PROVE  ObjectInv(i)'
  <2>1. pc'[i] = c /\ work'[i] = w
    BY <1>3, CallParts
  <2> QED  BY <1>1, <1>2, <1>3, <2>1, KeptParts
           DEF ObjectInv, AtStart, AtAssigning, AtManaging, AtReleasing, AtEnd, Assigning,
               Releasing
<1>4. CASE FindFreeHost(i)
  <2>1. ASSUME NEW h \in Hosts, Call(i, "setHost", [work[i] EXCEPT !.ext = h])
        PROVE  ObjectInv(i)'
    <3>1. PICK w \in Objects : w = [work[i] EXCEPT !.ext = h]
      BY Parts, CopyType
    <3>2. /\ w.live = work[i].live /\ w.inv = work[i].inv /\ w.mgmt = work[i].mgmt
          /\ w.class = work[i].class /\ w.status = work[i].status
      BY <3>1, Parts DEF Objects
    <3> QED  BY <1>2, <1>3, <2>1, <3>1, <3>2
  <2>2. CASE Return(i, [work[i] EXCEPT !.status.phase = "Failed"], TRUE)
    <3>1. PICK w : w = [work[i] EXCEPT !.status.phase = "Failed"]
      OBVIOUS
    <3>2. w.status.phase = "Failed" /\ w.status.allocated = "False"
      BY <1>2, <3>1, Parts DEF Objects, Statuses
    <3>3. Return(i, w, TRUE)
      BY <2>2, <3>1
    <3> QED  BY <1>1, <1>2, <3>2, <3>3, ReturnStep
  <2> QED  BY <1>4, <2>1, <2>2 DEF FindFreeHost, FreeHosts
<1>5. CASE AssignGet(i)
  <2>1. PICK w \in Objects : w = [work[i] EXCEPT !.ext = NoHost]
    BY Parts, CopyType
  <2>2. /\ w.live = work[i].live /\ w.inv = work[i].inv /\ w.mgmt = work[i].mgmt
        /\ w.class = work[i].class /\ w.status = work[i].status
    BY <2>1, Parts DEF Objects
  <2>3. Call(i, "assignPut", work[i]) \/ Call(i, "unsetHost", w)
    BY <1>5, <2>1 DEF AssignGet
  <2>4. CASE Call(i, "assignPut", work[i])
    BY <1>2, <1>3, <2>4, Parts
  <2>5. CASE Call(i, "unsetHost", w)
    BY <1>2, <1>3, <2>2, <2>5
  <2> QED  BY <2>3, <2>4, <2>5
<1>6. CASE AssignPut(i)
  <2>1. PICK w \in Objects : w = [work[i] EXCEPT !.class = TRUE]
    BY Parts, CopyType
  <2>2. /\ w.live = work[i].live /\ w.inv = work[i].inv /\ w.mgmt = work[i].mgmt
        /\ w.class /\ w.status = work[i].status /\ w.ext = work[i].ext
    BY <2>1, Parts DEF Objects
  <2>3. Call(i, "setClass", w)
    BY <1>6, <2>1 DEF AssignPut
  <2> QED  BY <1>2, <1>3, <2>2, <2>3
<1> QED  BY <1>4, <1>5, <1>6

\* The updates whose answer, with or without another phase, ends the handler.
LEMMA UpdateStep ==
  ASSUME TypeOK, LockDiscipline, NEW i \in Instances, ObjectInv(i),
         \/ AddFinalizer(i) \/ SetHost(i) \/ UnsetHost(i) \/ SetClass(i)
         \/ AddManagementFinalizer(i) \/ DropInventoryFinalizer(i)
  PROVE  ObjectInv(i)'
<1>1. pc[i] \in Updates /\ Apply(i) /\ UNCHANGED <<seen, owner>>
  BY DEF AddFinalizer, SetHost, UnsetHost, SetClass, AddManagementFinalizer,
         DropInventoryFinalizer, Updates
<1>2. ASSUME NEW w, Return(i, w, FALSE),
             w.status.allocated = "True" => api'[i].class,
             w.status.phase = "Ready" /\ api'[i].live = "present" => api'[i].mgmt
      PROVE  ObjectInv(i)'
  <2>1. pc'[i] = "status" /\ work'[i] = w
    BY <1>2, CallParts DEF Return
  <2> QED  BY <1>1, <1>2, <2>1, UpdateSound, EndStep DEF AtEnd
<1>3. CASE Return(i, Answer(i), FALSE)
  BY <1>1, <1>2, <1>3, UpdateSound
<1>4. CASE SetClass(i)
  <2>1. PICK w : w = [Answer(i) EXCEPT !.status.phase = "Progressing",
                                       !.status.allocated = "True"]
    OBVIOUS
  <2>2. w.status.phase = "Progressing" /\ Return(i, w, FALSE)
    BY <1>4, <2>1, StoredType DEF SetClass, Objects, Statuses
  <2>3. api'[i].class
    <3>1. work[i].class
      BY <1>4 DEF SetClass, ObjectInv, AtAssigning, Assigning
    <3>2. api'[i] = Stored(i)
      BY <1>1, UpdateSound
    <3> QED  BY <3>1, <3>2, StoredParts
  <2> QED  BY <1>2, <2>2, <2>3
<1>5. CASE AddManagementFinalizer(i)
  <2>1. PICK w : w = [Answer(i) EXCEPT !.status.phase = "Progressing"]
    OBVIOUS
  <2>2. /\ w.status.phase = "Progressing" /\ Return(i, w, FALSE)
        /\ w.status.allocated = Answer(i).status.allocated
    BY <1>5, <2>1, StoredType DEF AddManagementFinalizer, Objects, Statuses
  <2> QED  BY <1>1, <1>2, <2>2, UpdateSound
<1> QED  BY <1>3, <1>4, <1>5 DEF AddFinalizer, SetHost, UnsetHost, DropInventoryFinalizer

LEMMA ReconcileManagementStep ==
  ASSUME TypeOK, NEW i \in Instances, ObjectInv(i), ReconcileManagement(i)
  PROVE  ObjectInv(i)'
<1>1. /\ pc[i] = "handle" /\ work[i].live = "present" /\ work[i].class
      /\ UNCHANGED <<api, seen, fresh, owner>>
  BY DEF ReconcileManagement
<1>2. Sound(work[i]) /\ (fresh[i] => work[i] = api[i])
  BY <1>1 DEF ObjectInv, AtStart
<1>3. CASE ~work[i].mgmt /\ Call(i, "addMgmt", [work[i] EXCEPT !.mgmt = TRUE])
  <2>1. PICK w \in Objects : w = [work[i] EXCEPT !.mgmt = TRUE]
    BY Parts, CopyType
  <2>2. /\ pc'[i] = "addMgmt" /\ work'[i] = w
        /\ w.live = work[i].live /\ w.inv = work[i].inv /\ w.mgmt
        /\ w.class = work[i].class /\ w.ext = work[i].ext /\ w.status = work[i].status
    BY <1>3, <2>1, Parts, CallParts DEF Objects
  <2>3. w.inv /\ w.status.phase # "Ready"
    BY <1>1, <1>2, <1>3, <2>2 DEF Sound
  <2> QED  BY <1>1, <1>2, <2>2, <2>3, KeptParts
           DEF ObjectInv, AtStart, AtAssigning, AtManaging, AtReleasing, AtEnd, Assigning,
               Releasing
<1>4. ASSUME NEW p \in ManagementOutcomes, work[i].mgmt,
             Return(i, [work[i] EXCEPT !.status.phase = p], p # "Ready")
      PROVE  ObjectInv(i)'
  <2>1. PICK w : w = [work[i] EXCEPT !.status.phase = p]
    OBVIOUS
  <2>2. w.status.allocated = work[i].status.allocated
    BY <2>1, Parts DEF Objects, Statuses
  <2>3. fresh[i] => api[i].mgmt /\ (w.status.allocated = "True" => api[i].class)
    BY <1>1, <1>2, <1>4, <2>2
  <2> QED  BY <1>1, <1>4, <2>1, <2>3, ReturnStep
<1> QED  BY <1>3, <1>4 DEF ReconcileManagement

\* The inventory half of a deletion, on a copy w of the object that is stored.
LEMMA CleanupStep ==
  ASSUME TypeOK, NEW i \in Instances, NEW w \in Objects, InventoryCleanup(i, w),
         Sound(api[i])', NoClaimLeft(i)', CacheFollows(i)',
         w.live = "deleting", ~w.mgmt, seen'[i].live \in Ended, api'[i].live # "absent",
         w.status.allocated = "True" => w.class,
         fresh'[i] => /\ api'[i].live = "deleting" /\ ~api'[i].mgmt
                      /\ api'[i].class = w.class /\ api'[i].ext = w.ext
  PROVE  ObjectInv(i)'
<1>1. CASE \E again : Return(i, w, again)
  <2>1. pc'[i] = "status" /\ work'[i] = w
    BY <1>1, CallParts DEF Return
  <2> QED  BY <2>1, EndStep DEF AtEnd
<1>2. CASE w.ext = NoHost /\ Call(i, "dropInv", [w EXCEPT !.inv = FALSE])
  <2>1. PICK v \in Objects : v = [w EXCEPT !.inv = FALSE]
    BY CopyType
  <2>2. /\ pc'[i] = "dropInv" /\ work'[i] = v
        /\ v.live = w.live /\ ~v.inv /\ v.mgmt = w.mgmt
        /\ v.class = w.class /\ v.ext = w.ext /\ v.status = w.status
    BY <1>2, <2>1, CallParts DEF Objects
  <2> QED  BY <1>2, <2>2
           DEF ObjectInv, AtStart, AtAssigning, AtManaging, AtReleasing, AtEnd, Assigning,
               Releasing
<1>3. CASE w.inv /\ Call(i, "unassign", w)
  <2>1. pc'[i] = "unassign" /\ work'[i] = w
    BY <1>3, CallParts
  <2> QED  BY <1>3, <2>1
           DEF ObjectInv, AtStart, AtAssigning, AtManaging, AtReleasing, AtEnd, Assigning,
               Releasing
<1> QED  BY <1>1, <1>2, <1>3 DEF InventoryCleanup

LEMMA HandleDeletionStep ==
  ASSUME TypeOK, NEW i \in Instances, ObjectInv(i), HandleDeletion(i)
  PROVE  ObjectInv(i)'
<1>1. /\ pc[i] = "handle" /\ work[i].live = "deleting"
      /\ UNCHANGED <<api, seen, fresh, owner>>
  BY DEF HandleDeletion
<1>2. /\ Sound(work[i]) /\ (fresh[i] => work[i] = api[i]) /\ seen[i].live \in Ended
      /\ Sound(api[i])' /\ NoClaimLeft(i)' /\ CacheFollows(i)' /\ api'[i].live # "absent"
  BY <1>1, KeptParts DEF ObjectInv, AtStart
<1>3. CASE work[i].mgmt /\ Call(i, "dropMgmt", [work[i] EXCEPT !.mgmt = FALSE,
                                                              !.status.phase = "Deleting"])
  <2>1. PICK w \in Objects : w = [work[i] EXCEPT !.mgmt = FALSE, !.status.phase = "Deleting"]
    BY Parts, CopyType DEF Phases
  <2>2. /\ pc'[i] = "dropMgmt" /\ work'[i] = w
        /\ w.live = work[i].live /\ w.inv = work[i].inv /\ ~w.mgmt
        /\ w.class = work[i].class /\ w.ext = work[i].ext
        /\ w.status.allocated = work[i].status.allocated
    BY <1>3, <2>1, Parts, CallParts DEF Objects, Statuses
  <2>3. w.inv /\ (w.status.allocated = "True" => w.class)
    BY <1>2, <1>3, <2>2 DEF Sound
  <2> QED  BY <1>1, <1>2, <2>2, <2>3
           DEF ObjectInv, AtStart, AtAssigning, AtManaging, AtReleasing, AtEnd, Assigning,
               Releasing
<1>4. CASE ~work[i].mgmt /\ InventoryCleanup(i, work[i])
  <2>1. work[i].status.allocated = "True" => work[i].class
    BY <1>2 DEF Sound
  <2> QED  BY <1>1, <1>2, <1>4, <2>1, Parts, CleanupStep
<1> QED  BY <1>3, <1>4 DEF HandleDeletion

LEMMA DropManagementFinalizerStep ==
  ASSUME TypeOK, LockDiscipline, NEW i \in Instances, ObjectInv(i), DropManagementFinalizer(i)
  PROVE  ObjectInv(i)'
<1>1. /\ pc[i] = "dropMgmt" /\ pc[i] \in Updates /\ Apply(i) /\ fresh[i]
      /\ UNCHANGED <<seen, fresh, owner>> /\ InventoryCleanup(i, Answer(i))
  BY DEF DropManagementFinalizer, Updates, Apply
<1>2. /\ Sound(api[i])' /\ NoClaimLeft(i)' /\ CacheFollows(i)' /\ api'[i].live # "absent"
      /\ Answer(i).status.allocated = "True" => api'[i].class
      /\ api'[i] = Stored(i)
  BY <1>1, UpdateSound
<1>3. /\ work[i].live = "deleting" /\ ~work[i].mgmt /\ work[i].inv /\ seen[i].live \in Ended
  BY <1>1 DEF ObjectInv, AtReleasing, Releasing
<1>4. /\ api'[i].live = "deleting" /\ ~api'[i].mgmt
      /\ api'[i].class = work[i].class /\ api'[i].ext = work[i].ext
      /\ Answer(i).live = "deleting" /\ ~Answer(i).mgmt
      /\ Answer(i).class = work[i].class /\ Answer(i).ext = work[i].ext
  BY <1>2, <1>3, StoredParts, AnswerParts
<1> QED  BY <1>1, <1>2, <1>3, <1>4, StoredType, CleanupStep

LEMMA UnassignHostStep ==
  ASSUME TypeOK, NEW i \in Instances, ObjectInv(i), UnassignHost(i)
  PROVE  ObjectInv(i)'
<1>1. /\ pc[i] = "unassign" /\ UNCHANGED <<api, seen, fresh>>
      /\ owner' = [owner EXCEPT ![work[i].ext] = NoInstance]
  BY DEF UnassignHost
<1>2. PICK w \in Objects : w = [work[i] EXCEPT !.inv = FALSE]
  BY Parts, CopyType
<1>3. /\ pc'[i] = "dropInv" /\ work'[i] = w
      /\ w.live = work[i].live /\ ~w.inv /\ w.mgmt = work[i].mgmt
      /\ w.class = work[i].class /\ w.ext = work[i].ext /\ w.status = work[i].status
  BY <1>2, Parts, CallParts DEF UnassignHost, Objects
<1>4. /\ \A h \in Hosts : owner'[h] = i => owner[h] = i
      /\ w.ext # NoHost => owner'[w.ext] # i
  BY <1>1, <1>3, Parts, NoInstanceAssumption DEF TypeOK
<1>5. /\ work[i].live = "deleting" /\ ~work[i].mgmt /\ seen[i].live \in Ended
      /\ work[i].status.allocated = "True" => work[i].class
      /\ fresh[i] => /\ api[i].live = "deleting" /\ ~api[i].mgmt
                     /\ api[i].class = work[i].class /\ api[i].ext = work[i].ext
  BY <1>1 DEF ObjectInv, AtReleasing, Releasing
<1> QED  BY <1>1, <1>3, <1>4, <1>5, KeptParts
         DEF ObjectInv, AtStart, AtAssigning, AtManaging, AtReleasing, AtEnd, Assigning,
             Releasing

\* A call that fails without an effect leaves a status that is so.
LEMMA CallFailsStep ==
  ASSUME TypeOK, NEW i \in Instances, ObjectInv(i), CallFails(i)
  PROVE  ObjectInv(i)'
<1>1. /\ pc[i] \in Assigning \cup {"addMgmt"} \cup Releasing
      /\ UNCHANGED <<api, seen, fresh, owner>>
  BY DEF CallFails, Updates, InventoryCalls, Assigning, Releasing
<1>2. PICK w : w = Errored(i)
  OBVIOUS
<1>3. Return(i, w, TRUE)
  BY <1>2 DEF CallFails
<1>4. fresh[i] => /\ w.status.allocated = "True" => api[i].class
                  /\ w.status.phase = "Ready" /\ api[i].live = "present" => api[i].mgmt
  <2> SUFFICES ASSUME fresh[i]
               PROVE  /\ w.status.allocated = "True" => api[i].class
                      /\ w.status.phase = "Ready" /\ api[i].live = "present" => api[i].mgmt
    OBVIOUS
  <2>1. CASE pc[i] \in Assigning
    <3>1. w = work[i]
      BY <1>2, <2>1 DEF Errored, Assigning
    <3> QED  BY <2>1, <3>1 DEF ObjectInv, AtAssigning
  <2>2. CASE pc[i] = "addMgmt"
    <3>1. w.status.phase = "Failed"
      BY <1>2, <2>2, Parts DEF Errored, Objects, Statuses
    <3>2. api[i].class
      BY <2>2 DEF ObjectInv, AtManaging
    <3> QED  BY <3>1, <3>2
  <2>3. CASE pc[i] \in Releasing
    <3>1. w = work[i]
      BY <1>2, <2>3 DEF Errored, Releasing
    <3> QED  BY <2>3, <3>1 DEF ObjectInv, AtReleasing
  <2> QED  BY <1>1, <2>1, <2>2, <2>3
<1>5. pc[i] # "idle"
  BY <1>1 DEF Assigning, Releasing
<1> QED  BY <1>1, <1>3, <1>4, <1>5, ReturnStep

LEMMA AnswerLostStep ==
  ASSUME TypeOK, LockDiscipline, NEW i \in Instances, ObjectInv(i), AnswerLost(i)
  PROVE  ObjectInv(i)'
<1>1. PICK w : w = Errored(i)
  OBVIOUS
<1>2. Return(i, w, TRUE) /\ UNCHANGED seen
  BY <1>1 DEF AnswerLost
<1>3. CASE pc[i] \in Updates /\ Apply(i) /\ UNCHANGED owner
           /\ fresh' = [fresh EXCEPT ![i] = FALSE]
  <2>1. /\ Sound(api[i])' /\ NoClaimLeft(i)' /\ CacheFollows(i)' /\ api'[i].live # "absent"
    BY <1>2, <1>3, UpdateSound
  <2>2. pc'[i] = "status" /\ ~fresh'[i]
    BY <1>2, <1>3, CallParts DEF Return, TypeOK
  <2> QED  BY <2>1, <2>2, EndStep DEF AtEnd
<1>4. CASE /\ pc[i] \in {"assignPut", "unassign"} /\ UNCHANGED <<api, fresh>>
           /\ \A h \in Hosts : owner'[h] = i => owner[h] = i \/ pc[i] = "assignPut"
  <2>1. pc[i] = "assignPut" => api[i].inv
    BY DEF ObjectInv, AtAssigning, Assigning
  <2>2. w = work[i] /\ pc[i] # "idle"
    BY <1>1, <1>4 DEF Errored
  <2>3. fresh[i] => /\ w.status.allocated = "True" => api[i].class
                    /\ w.status.phase = "Ready" /\ api[i].live = "present" => api[i].mgmt
    BY <1>4, <2>2 DEF ObjectInv, AtAssigning, AtReleasing, Assigning, Releasing
  <2>4. \A h \in Hosts : owner'[h] = i => owner[h] = i \/ api[i].inv
    BY <1>4, <2>1
  <2> QED  BY <1>2, <1>4, <2>2, <2>3, <2>4, ReturnStep
<1>5. pc[i] = "assignPut" /\ owner' = [owner EXCEPT ![work[i].ext] = i]
        => \A h \in Hosts : owner'[h] = i => owner[h] = i \/ pc[i] = "assignPut"
  OBVIOUS
<1>6. owner' = [owner EXCEPT ![work[i].ext] = NoInstance]
        => \A h \in Hosts : owner'[h] = i => owner[h] = i
  BY NoInstanceAssumption DEF TypeOK
<1> QED  BY <1>3, <1>4, <1>5, <1>6 DEF AnswerLost

LEMMA WriteStatusStep ==
  ASSUME TypeOK, NEW i \in Instances, ObjectInv(i), WriteStatus(i)
  PROVE  ObjectInv(i)'
<1>1. /\ pc[i] = "status" /\ pc'[i] = "idle" /\ UNCHANGED <<seen, owner>>
  BY DEF WriteStatus, Idle, Call, TypeOK
<1>2. Sound(api[i])' /\ NoClaimLeft(i)' /\ CacheFollows(i)'
  <2>1. CASE UNCHANGED api
    BY <1>1, <2>1, KeptParts
  <2>2. CASE fresh[i] /\ api' = [api EXCEPT ![i].status = work[i].status]
    <3>1. /\ api'[i].status = work[i].status /\ api'[i].live = api[i].live
          /\ api'[i].inv = api[i].inv /\ api'[i].mgmt = api[i].mgmt
          /\ api'[i].class = api[i].class /\ api'[i].ext = api[i].ext
      BY <2>2, Parts DEF TypeOK, Objects
    <3>2. /\ work[i].status.allocated = "True" => api[i].class
          /\ work[i].status.phase = "Ready" /\ api[i].live = "present" => api[i].mgmt
          /\ api[i].live # "absent"
      BY <1>1, <2>2 DEF ObjectInv, AtEnd
    <3> QED  BY <1>1, <3>1, <3>2 DEF ObjectInv, Sound, NoClaimLeft, CacheFollows
  <2> QED  BY <2>1, <2>2 DEF WriteStatus
<1> QED  BY <1>1, <1>2 DEF ObjectInv, AtStart, AtAssigning, AtManaging, AtReleasing, AtEnd,
                           Assigning, Releasing

-----------------------------------------------------------------------------
(***************************************************************************)
(* The environment, and the invariant.                                     *)
(***************************************************************************)
LEMMA CreateStep ==
  ASSUME TypeOK, NEW i \in Instances, ObjectInv(i), Create(i)
  PROVE  ObjectInv(i)'
<1>1. /\ api[i].live = "absent" /\ api'[i].live = "present"
      /\ api'[i].inv = api[i].inv /\ api'[i].mgmt = api[i].mgmt
      /\ api'[i].class = api[i].class /\ api'[i].ext = api[i].ext
      /\ api'[i].status = api[i].status
      /\ UNCHANGED <<seen, pc, work, fresh, owner>>
  BY Parts DEF Create, TypeOK, Objects
<1>2. pc[i] = "idle"
  BY <1>1 DEF ObjectInv
<1> QED  BY <1>1, <1>2 DEF ObjectInv, NoClaimLeft, CacheFollows, Sound, AtStart, AtAssigning,
                           AtManaging, AtReleasing, AtEnd, Assigning, Releasing, Ended

LEMMA DeleteStep ==
  ASSUME TypeOK, NEW i \in Instances, ObjectInv(i), Delete(i)
  PROVE  ObjectInv(i)'
<1>1. /\ api[i].live = "present"
      /\ api'[i].live = IF api[i].inv \/ api[i].mgmt THEN "deleting" ELSE "gone"
      /\ api'[i].inv = api[i].inv /\ api'[i].mgmt = api[i].mgmt
      /\ api'[i].class = api[i].class /\ api'[i].ext = api[i].ext
      /\ api'[i].status = api[i].status
      /\ UNCHANGED <<seen, pc, work, owner>> /\ ~fresh'[i]
  BY Parts DEF Delete, TypeOK, Objects
<1>2. Sound(api[i])' /\ NoClaimLeft(i)' /\ CacheFollows(i)' /\ api'[i].live # "absent"
  BY <1>1 DEF ObjectInv, Sound, NoClaimLeft, CacheFollows, Ended
<1> QED  BY <1>1, <1>2 DEF ObjectInv, Sound, AtStart, AtAssigning, AtManaging, AtReleasing,
                           AtEnd

LEMMA SyncStep ==
  ASSUME TypeOK, NEW i \in Instances, ObjectInv(i), Sync(i)
  PROVE  ObjectInv(i)'
<1>1. seen'[i] = api[i] /\ UNCHANGED <<api, pc, work, fresh, owner>>
  BY DEF Sync, TypeOK
<1>2. seen[i].live \in Ended => seen'[i].live \in Ended
  BY <1>1 DEF ObjectInv, CacheFollows
<1>3. CacheFollows(i)'
  BY <1>1 DEF ObjectInv, CacheFollows, Sound
<1> QED  BY <1>1, <1>2, <1>3 DEF ObjectInv, NoClaimLeft, Sound, AtStart, AtAssigning,
                                 AtManaging, AtReleasing, AtEnd

LEMMA ReconcileStep ==
  ASSUME TypeOK, NEW i \in Instances, ObjectInv(i), Reconcile(i)
  PROVE  ObjectInv(i)'
<1>1. UNCHANGED <<api, seen, owner>>
  BY DEF Reconcile
<1>2. CASE UNCHANGED <<pc, work, read, fresh>>
  BY <1>1, <1>2, OthersStep
<1>3. CASE /\ seen[i].live \in {"present", "deleting"} /\ Call(i, "handle", seen[i])
           /\ fresh' = [fresh EXCEPT ![i] = (seen[i] = api[i])]
  <2>1. pc'[i] = "handle" /\ work'[i] = seen[i]
    BY <1>3, CallParts
  <2>2. fresh'[i] => seen[i] = api[i]
    BY <1>3, Zenon DEF TypeOK
  <2>3. /\ Sound(api[i])' /\ NoClaimLeft(i)' /\ CacheFollows(i)' /\ api'[i].live # "absent"
        /\ Sound(seen[i])
    BY <1>1, <1>3 DEF ObjectInv, CacheFollows, NoClaimLeft, Sound
  <2> QED  BY <1>1, <1>3, <2>1, <2>2, <2>3
           DEF ObjectInv, CacheFollows, AtStart, AtAssigning, AtManaging, AtReleasing, AtEnd,
               Assigning, Releasing, Ended, Sound
<1> QED  BY <1>2, <1>3 DEF Reconcile

LEMMA RestartObjects ==
  ASSUME TypeOK, ObjectsInv, Restart
  PROVE  ObjectsInv'
<1> SUFFICES ASSUME NEW i \in Instances PROVE ObjectInv(i)'
  BY DEF ObjectsInv
<1>1. ObjectInv(i)
  BY DEF ObjectsInv
<1>2. seen'[i] = api[i] /\ pc'[i] = "idle" /\ UNCHANGED <<api, owner>>
  BY DEF Restart
<1> QED  BY <1>1, <1>2 DEF ObjectInv, CacheFollows, NoClaimLeft, Sound, AtStart, AtAssigning,
                           AtManaging, AtReleasing, AtEnd, Assigning, Releasing

\* A step of one instance leaves the object, the copies and the claims of
\* another as they are.
LEMMA FrameStep ==
  ASSUME TypeOK, NEW i \in Instances, NEW j \in Instances \ {i},
         Create(i) \/ Delete(i) \/ Sync(i) \/ Reconcile(i) \/ Step(i)
  PROVE  /\ api'[j] = api[j] /\ seen'[j] = seen[j] /\ pc'[j] = pc[j]
         /\ work'[j] = work[j] /\ fresh'[j] = fresh[j]
         /\ \A h \in Hosts : owner'[h] = j => owner[h] = j
<1>1. CASE Create(i) \/ Delete(i) \/ Sync(i)
  BY <1>1 DEF Create, Delete, Sync, TypeOK
<1>2. CASE Reconcile(i)
  BY <1>2 DEF Reconcile, Call, TypeOK
<1>3. CASE \/ ReconcileInventory(i) \/ FindFreeHost(i) \/ AssignGet(i) \/ AssignPut(i)
           \/ ReconcileManagement(i) \/ HandleDeletion(i)
  BY <1>3 DEF ReconcileInventory, FindFreeHost, AssignGet, AssignPut, ReconcileManagement,
              HandleDeletion, InventoryCleanup, Return, Call, TypeOK
<1>4. CASE \/ AddFinalizer(i) \/ SetHost(i) \/ UnsetHost(i) \/ SetClass(i)
           \/ AddManagementFinalizer(i) \/ DropInventoryFinalizer(i)
           \/ DropManagementFinalizer(i)
  BY <1>4 DEF AddFinalizer, SetHost, UnsetHost, SetClass, AddManagementFinalizer,
              DropInventoryFinalizer, DropManagementFinalizer, InventoryCleanup, Return, Call,
              Apply, TypeOK
<1>5. CASE UnassignHost(i)
  BY <1>5, NoInstanceAssumption DEF UnassignHost, Call, TypeOK
<1>6. CASE CallFails(i) \/ AnswerLost(i)
  BY <1>6, NoInstanceAssumption DEF CallFails, AnswerLost, Apply, Return, Call, TypeOK
<1>7. CASE WriteStatus(i)
  BY <1>7 DEF WriteStatus, Idle, Call, TypeOK
<1> QED  BY <1>1, <1>2, <1>3, <1>4, <1>5, <1>6, <1>7 DEF Step

LEMMA NextObjects ==
  ASSUME TypeOK, LockDiscipline, ObjectsInv, [Next]_vars
  PROVE  ObjectsInv'
<1>1. CASE UNCHANGED vars
  <2>1. \A i \in Instances : ObjectInv(i)'
    BY <1>1, OthersStep DEF vars, ObjectsInv
  <2> QED  BY <2>1 DEF ObjectsInv
<1>2. ASSUME NEW i \in Instances,
             Create(i) \/ Delete(i) \/ Sync(i) \/ Reconcile(i) \/ Step(i)
      PROVE  ObjectsInv'
  <2>1. ObjectInv(i)'
    <3>1. ObjectInv(i)
      BY DEF ObjectsInv
    <3> QED  BY <1>2, <3>1, CreateStep, DeleteStep, SyncStep, ReconcileStep,
                ReconcileInventoryStep, AssigningStep, UpdateStep, ReconcileManagementStep,
                HandleDeletionStep, DropManagementFinalizerStep, UnassignHostStep,
                CallFailsStep, AnswerLostStep, WriteStatusStep DEF Step
  <2>2. \A j \in Instances \ {i} : ObjectInv(j)'
    BY <1>2, FrameStep, OthersStep DEF ObjectsInv
  <2> QED  BY <2>1, <2>2 DEF ObjectsInv
<1> QED  BY <1>1, <1>2, RestartObjects DEF Next

\* Every stored object is sound, the cache follows it, and each step of a
\* reconcile knows what its copy has changed.
THEOREM ObjectsInvariance == Spec => []ObjectsInv
<1>1. Init => ObjectsInv
  BY InitObjects
<1>2. IInv /\ ObjectsInv /\ [Next]_vars => ObjectsInv'
  BY NextObjects DEF IInv
<1> QED  BY <1>1, <1>2, Invariance, PTL DEF Spec

\* An object that is gone does not hold the claim of the host it names, and the
\* inventory finalizer outlives the management finalizer.
THEOREM ReleasedFirst == Spec => []ReleasedBeforeGone
<1>1. ObjectsInv => ReleasedBeforeGone
  BY DEF ObjectsInv, ObjectInv, Sound, NoClaimLeft, ReleasedBeforeGone
<1> QED  BY <1>1, ObjectsInvariance, PTL

\* Allocated is True only with a stored host class, Ready only with both
\* finalizers and a host.
THEOREM StatusIsTrue == Spec => []StatusTruthful
<1>1. ObjectsInv => StatusTruthful
  BY DEF ObjectsInv, ObjectInv, Sound, StatusTruthful
<1> QED  BY <1>1, ObjectsInvariance, PTL

-----------------------------------------------------------------------------
(***************************************************************************)
(* What the steps do.                                                      *)
(***************************************************************************)
\* A claim comes of the request of a reconcile that found the host free.
LEMMA ClaimStep ==
  ASSUME IInv, ObjectsInv, [Next]_vars, NEW i \in Instances, NEW h \in Hosts,
         owner[h] # i, owner'[h] = i
  PROVE  pc[i] = "assignPut" /\ h = work[i].ext /\ UNCHANGED api
<1>1. TypeOK
  BY DEF IInv
<1>2. PICK j \in Instances : Step(j)
  BY DEF Next, Create, Delete, Sync, Reconcile, Restart, vars
<1>3. j = i
  BY <1>1, <1>2, FrameStep
<1>4. CASE AssignPut(i)
  BY <1>1, <1>4 DEF AssignPut, TypeOK
<1>5. CASE AnswerLost(i)
  BY <1>1, <1>5, NoInstanceAssumption DEF AnswerLost, TypeOK
<1>6. CASE UnassignHost(i)
  BY <1>1, <1>6, NoInstanceAssumption DEF UnassignHost, TypeOK
<1> QED  BY <1>2, <1>3, <1>4, <1>5, <1>6
         DEF Step, ReconcileInventory, AddFinalizer, FindFreeHost, SetHost, AssignGet,
             UnsetHost, SetClass, ReconcileManagement, AddManagementFinalizer,
             HandleDeletion, DropManagementFinalizer, DropInventoryFinalizer, CallFails,
             WriteStatus

\* A claim is made only while the stored object has its inventory finalizer.
THEOREM ClaimsUnderFinalizer == Spec => ClaimUnderFinalizer
<1>1. IInv /\ ObjectsInv /\ [Next]_vars =>
        [\A i \in Instances, h \in Hosts : owner[h] # i /\ owner'[h] = i => api[i].inv]_vars
  BY ClaimStep DEF ObjectsInv, ObjectInv, AtAssigning, Assigning
<1> QED  BY <1>1, Invariance, ObjectsInvariance, PTL DEF Spec, ClaimUnderFinalizer

\* An update keeps the host and the class of an object that has its class, and
\* gives the class only to one that has its claim.
LEMMA UpdateKeepsHost ==
  ASSUME IInv, ObjectsInv, NEW i \in Instances, pc[i] \in Updates, Apply(i)
  PROVE  /\ api[i].class => api'[i].class /\ api'[i].ext = api[i].ext
         /\ ~api[i].class /\ api'[i].class =>
              /\ api'[i].ext \in Hosts /\ owner[api'[i].ext] = i
<1>1. TypeOK /\ LockDiscipline /\ AnswerStillValid /\ ObjectInv(i)
  BY DEF IInv, ObjectsInv
<1>2. fresh[i] /\ api'[i].class = work[i].class /\ api'[i].ext = work[i].ext
  BY <1>1, StoredParts DEF Apply, TypeOK
<1>3. CASE pc[i] \in Assigning
  <2>1. ~api[i].class /\ (work[i].class <=> pc[i] = "setClass")
    BY <1>1, <1>2, <1>3 DEF ObjectInv, AtAssigning
  <2>2. pc[i] = "setClass" => owner[work[i].ext] = i /\ work[i].ext \in Hosts
    BY <1>1, Parts DEF AnswerStillValid, LockDiscipline, HostCalls
  <2> QED  BY <1>2, <2>1, <2>2
<1>4. CASE pc[i] = "addMgmt"
  BY <1>1, <1>2, <1>4 DEF ObjectInv, AtManaging
<1>5. CASE pc[i] \in Releasing
  BY <1>1, <1>2, <1>5 DEF ObjectInv, AtReleasing
<1> QED  BY <1>3, <1>4, <1>5 DEF Updates, Assigning, Releasing

\* Of the host and the class of the stored objects, only updates change
\* something.
LEMMA HostChange ==
  ASSUME TypeOK, [Next]_vars, NEW i \in Instances
  PROVE  \/ api'[i].class = api[i].class /\ api'[i].ext = api[i].ext
         \/ /\ pc[i] \in Updates /\ Apply(i) /\ UNCHANGED owner
            /\ \A j \in Instances \ {i} : api'[j] = api[j]
<1>1. CASE UNCHANGED api
  BY <1>1
<1>2. ASSUME NEW j \in Instances, pc[j] \in Updates, Apply(j), UNCHANGED owner
      PROVE  \/ api'[i].class = api[i].class /\ api'[i].ext = api[i].ext
             \/ /\ pc[i] \in Updates /\ Apply(i) /\ UNCHANGED owner
                /\ \A k \in Instances \ {i} : api'[k] = api[k]
  <2>1. \A k \in Instances \ {j} : api'[k] = api[k]
    BY <1>2 DEF Apply, TypeOK
  <2>2. CASE i = j
    BY <1>2, <2>1, <2>2
  <2>3. CASE i # j
    BY <2>1, <2>3
  <2> QED  BY <2>2, <2>3
<1>3. ASSUME NEW j \in Instances, Create(j) \/ Delete(j) \/ WriteStatus(j)
      PROVE  api'[i].class = api[i].class /\ api'[i].ext = api[i].ext
  <2>1. PICK o : /\ o.class = api[j].class /\ o.ext = api[j].ext
                 /\ api' = api \/ api' = [api EXCEPT ![j] = o]
    <3>1. CASE UNCHANGED api
      BY <3>1
    <3>2. CASE \E l : api' = [api EXCEPT ![j].live = l]
      <4>1. PICK l : api' = [api EXCEPT ![j].live = l]
        BY <3>2
      <4>2. PICK o : o = [api[j] EXCEPT !.live = l]
        OBVIOUS
      <4>3. o.class = api[j].class /\ o.ext = api[j].ext
        BY <4>2, Parts DEF Objects
      <4>4. api' = [api EXCEPT ![j] = o]
        BY <4>1, <4>2
      <4> QED  BY <4>3, <4>4
    <3>3. CASE api' = [api EXCEPT ![j].status = work[j].status]
      <4>1. PICK o : o = [api[j] EXCEPT !.status = work[j].status]
        OBVIOUS
      <4>2. o.class = api[j].class /\ o.ext = api[j].ext
        BY <4>1, Parts DEF Objects
      <4>3. api' = [api EXCEPT ![j] = o]
        BY <3>3, <4>1
      <4> QED  BY <4>2, <4>3
    <3> QED  BY <1>3, <3>1, <3>2, <3>3 DEF Create, Delete, WriteStatus
  <2> QED  BY <2>1 DEF TypeOK
<1>4. ASSUME NEW j \in Instances, Step(j), ~WriteStatus(j)
      PROVE  UNCHANGED api \/ (pc[j] \in Updates /\ Apply(j) /\ UNCHANGED owner)
  BY <1>4 DEF Step, ReconcileInventory, AddFinalizer, FindFreeHost, SetHost, AssignGet,
              AssignPut, UnsetHost, SetClass, ReconcileManagement, AddManagementFinalizer,
              HandleDeletion, DropManagementFinalizer, UnassignHost, DropInventoryFinalizer,
              CallFails, AnswerLost, Updates
<1>5. \/ UNCHANGED api
      \/ \E j \in Instances : \/ Create(j) \/ Delete(j)
                              \/ Step(j)
  BY DEF Next, Sync, Reconcile, Restart, vars
<1> QED  BY <1>1, <1>2, <1>3, <1>4, <1>5

\* Once the host class is stored, the instance keeps its host.
THEOREM AllocationStays == Spec => AllocationIsFinal
<1>1. IInv /\ ObjectsInv /\ [Next]_vars =>
        [\A i \in Instances :
           api[i].class => api'[i].class /\ api'[i].ext = api[i].ext]_vars
  BY HostChange, UpdateKeepsHost DEF IInv
<1> QED  BY <1>1, Invariance, ObjectsInvariance, PTL DEF Spec, AllocationIsFinal

\* The host each instance has been told it got.
Bound == [i \in Instances |-> IF api[i].class THEN api[i].ext ELSE NoHost]

\* A step of the claims is a claim of a free host or a release.
LEMMA OwnerChange ==
  ASSUME IInv, ObjectsInv, [Next]_vars, UNCHANGED Bound
  PROVE  [Claims!Next]_(Claims!vars)
<1>1. TypeOK /\ AnswerStillValid
  BY DEF IInv
<1>2. ASSUME NEW i \in Instances, owner' = [owner EXCEPT ![work[i].ext] = i],
             pc[i] = "assignPut"
      PROVE  [Claims!Next]_(Claims!vars)
  <2>1. owner[work[i].ext] \in {NoInstance, i} /\ work[i].ext \in Hosts
    BY <1>1, <1>2, Parts DEF AnswerStillValid, Claimable, IInv, LockDiscipline, HostCalls
  <2>2. CASE owner[work[i].ext] = NoInstance
    BY <1>2, <2>1, <2>2 DEF Claims!Next, Claims!Claim, Bound
  <2>3. CASE owner[work[i].ext] = i
    <3>1. owner' = owner
      BY <1>1, <1>2, <2>1, <2>3 DEF TypeOK
    <3> QED  BY <3>1 DEF Claims!vars, Bound
  <2> QED  BY <2>1, <2>2, <2>3
<1>3. ASSUME NEW i \in Instances, owner' = [owner EXCEPT ![work[i].ext] = NoInstance]
      PROVE  [Claims!Next]_(Claims!vars)
  <2>1. CASE work[i].ext \in Hosts
    BY <1>3, <2>1 DEF Claims!Next, Claims!Release, Bound
  <2>2. CASE work[i].ext \notin Hosts
    <3>1. owner' = owner
      BY <1>1, <1>3, <2>2 DEF TypeOK
    <3> QED  BY <3>1 DEF Claims!vars, Bound
  <2> QED  BY <2>1, <2>2
<1>4. CASE UNCHANGED owner
  BY <1>4 DEF Claims!vars, Bound
<1>5. ASSUME NEW i \in Instances, AssignPut(i) \/ UnassignHost(i) \/ AnswerLost(i)
      PROVE  [Claims!Next]_(Claims!vars)
  <2>1. \/ UNCHANGED owner
        \/ pc[i] = "assignPut" /\ owner' = [owner EXCEPT ![work[i].ext] = i]
        \/ owner' = [owner EXCEPT ![work[i].ext] = NoInstance]
    BY <1>5 DEF AssignPut, UnassignHost, AnswerLost
  <2> QED  BY <1>2, <1>3, <1>4, <2>1
<1>6. \/ UNCHANGED owner
      \/ \E i \in Instances : AssignPut(i) \/ UnassignHost(i) \/ AnswerLost(i)
  BY DEF Next, Step, Create, Delete, Sync, Reconcile, Restart, ReconcileInventory,
         AddFinalizer, FindFreeHost, SetHost, AssignGet, UnsetHost, SetClass,
         ReconcileManagement, AddManagementFinalizer, HandleDeletion,
         DropManagementFinalizer, DropInventoryFinalizer, CallFails, WriteStatus, vars
<1> QED  BY <1>4, <1>5, <1>6

\* Claims are made, reported and released as HostClaims says.
THEOREM ImplementsHostClaims == Spec => ImplementsClaims
<1>1. Init => Claims!Init
  BY DEF Init, Blank, Claims!Init
<1>2. IInv /\ ObjectsInv /\ [Next]_vars => [Claims!Next]_(Claims!vars)
  <2> SUFFICES ASSUME IInv, ObjectsInv, [Next]_vars
               PROVE  [Claims!Next]_(Claims!vars)
    OBVIOUS
  <2>1. CASE \A i \in Instances : api'[i].class = api[i].class /\ api'[i].ext = api[i].ext
    BY <2>1, OwnerChange DEF Bound
  <2>2. ASSUME NEW i \in Instances, pc[i] \in Updates, Apply(i), UNCHANGED owner,
               \A j \in Instances \ {i} : api'[j] = api[j]
        PROVE  [Claims!Next]_(Claims!vars)
    <3>1. CASE api[i].class \/ ~api'[i].class
      <4>1. Bound' = Bound
        BY <2>2, <3>1, UpdateKeepsHost DEF Bound
      <4> QED  BY <2>2, <4>1 DEF Claims!vars, Bound
    <3>2. CASE ~api[i].class /\ api'[i].class
      <4>1. api'[i].ext \in Hosts /\ owner[api'[i].ext] = i
        BY <2>2, <3>2, UpdateKeepsHost
      <4>2. Bound' = [Bound EXCEPT ![i] = api'[i].ext] /\ Bound[i] = NoHost
        <5>1. \A j \in Instances : Bound'[j] = IF j = i THEN api'[i].ext ELSE Bound[j]
          BY <2>2, <3>2 DEF Bound
        <5>2. Bound[i] = NoHost
          BY <3>2 DEF Bound
        <5> QED  BY <5>1, <5>2 DEF Bound
      <4> QED  BY <2>2, <4>1, <4>2 DEF Claims!Next, Claims!Bind, Bound
    <3> QED  BY <3>1, <3>2
  <2> QED  BY <2>1, <2>2, HostChange DEF IInv
<1> QED  BY <1>1, <1>2, Invariance, ObjectsInvariance, PTL
         DEF Spec, ImplementsClaims, Claims!Spec
=============================================================================
