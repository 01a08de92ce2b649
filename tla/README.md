# A TLA+ model of bare-metal-operator

The operator runs two Kubernetes controllers. The **BareMetalInstance** controller gives
each instance a host of an inventory, keeps the power of the host as the instance asks for
it, restarts it on request, runs provisioning jobs on it, and gives it back. The
**BareMetalPool** controller keeps a number of instances per host type, and runs the jobs of
its profile. This directory holds TLA+ modules of the parts whose order of steps is hard to
test, TLC configurations that check them on small instances, and proofs that TLAPS checks for
all values of the constants. `PROJECT.json` maps every definition to the lines it stands for.

Run a check with `tlc -config <run>.cfg <module>`, a proof with `tlapm <module>.tla`.
Line numbers without a file are of `internal/controller/baremetalinstance_controller.go`,
and of `baremetalpool_controller.go` where the text is about `BareMetalPool`.

## 1. The system

| Component | State it keeps | Operations | Interacts with |
|---|---|---|---|
| BareMetalInstance controller, inventory half (104-302, 683-766) | `spec.externalHostID`, `spec.hostClass`, two finalizers, phase, condition Allocated | handleUpdate, reconcileInventory, handleDeletion, status write | API server, informer cache, host locks, inventory client |
| BareMetalInstance controller, power half (304-430, 510-680) | `status.runStrategy`, `status.restartTrigger`, condition PowerSynced | reconcileManagement, reconcilePower, reconcileRestartTrigger, syncBareMetalInstanceStatus | API server, cache, management client |
| Provisioning jobs (432-508, 768-806; pool 552-567, 646-696) | `status.jobs`, condition ProvisionTemplateComplete | reconcileProvisioning, reconcileDeprovisioning | provisioning lifecycle library, job provider |
| Host locks (`inventory/lock.go`) | one mutex per host id, in memory | TryLock, Unlock | workers of one process |
| Inventory clients (`inventory/metal3.go`, `openstack.go`) | claim (consumerRef, or a label of the node) and labels of each host, session | FindFreeHost, AssignHost, UnassignHost, reconnect | BareMetalHost objects, Ironic |
| Management clients (`management/metal3.go`, `openstack.go`) | power target, reboot request of each host | GetPowerState, SetPowerState, TriggerRestart, IsRestartComplete | BareMetalHost objects, Ironic |
| BareMetalPool controller (`baremetalpool_controller.go`) | `status.hostSets`, phase, finalizer, conditions | scaleUp, scaleDown, checkReady, handleDeletion, jobs | cache (list of instances), API server, profiles |
| Profiles (`profile/profile.go`) | immutable map of profiles | LoadProfiles, Get, ValidateParameters | pool controller |
| Start-up (`cmd/main.go`) | configuration | sets up manager and controllers | all |

What makes the system hard:

* every reconcile works on a copy read from a cache that lags behind the API server; the
  resourceVersion check of an update is all that stops an old copy;
* several workers reconcile different instances of the same inventory, and one mutex per
  host is all that orders their calls (Ironic compares nothing);
* an update is answered with the stored status, which overwrites what the reconcile had
  set in memory; the status itself is written by a second call, which may be refused;
* any call may fail, or take effect and lose its answer, and the process may restart
  between any two of them, with another provider and other profiles;
* hosts and instances of a pool are not watched for changes: only an event of the object
  itself, the end of an instance or a requeue makes a controller look again.

What makes each component correct: a host is claimed by one instance at a time and is
told to at most one; a claim and its labels come and go together; a claim is released before
its object vanishes; a deletion ends; no lock is left behind; a trigger leads to one
acknowledged restart; a quiet controller has nothing left to do; a pool reaches, and does not
overshoot, its replicas; a job is not started twice, is undone before the machine is given
back, and Ready waits for it; a release takes an instance's own plain labels and nothing else.

## 2. Modules

| Module | Models | Depends on |
|---|---|---|
| `HostClaims` | abstract: claims on hosts and the binding of instances | - |
| `InstanceAllocation` | inventory half and deletion, host locks, claims, API server, cache, faults | `HostClaims` (refined) |
| `InstanceAllocationMC` | symmetry for TLC | `InstanceAllocation` |
| `InstanceAllocationProofs` | theorems on locks and claims | `InstanceAllocation` |
| `InstanceObjectsProofs` | theorems on objects, finalizers, statuses, refinement | `InstanceAllocationProofs` |
| `InstanceRestProofs` | theorem that the controller does not rest too early | `InstanceObjectsProofs` |
| `HostLabels` | abstract: claim and labels of a host change in one step | - |
| `InventoryLabels` | AssignHost and UnassignHost of both clients, request by request | `HostLabels` (refined) |
| `InventoryLabelsMC` | three instances whose labels meet | `InventoryLabels` |
| `InventoryLabelsProofs` | theorems | `InventoryLabels` |
| `InstancePower` | power half, restarts, both management backends, the machine | - |
| `InstancePowerProofs` | theorems | `InstancePower` |
| `ProvisioningJobs` | jobs of an instance or a pool, the provider, configuration at a restart | - |
| `ProvisioningJobsProofs` | theorems | `ProvisioningJobs` |
| `BareMetalPool` | scaling, readiness, finalizer and deletion of a pool over lagging lists | - |
| `BareMetalPoolProofs` | theorems on types and the finalizer | `BareMetalPool` |
| `BareMetalPoolRestProofs` | theorems that nothing is forgotten | `BareMetalPoolProofs` |

The modules meet where one leaves open what another one shows: `InstanceAllocation` takes
AssignHost and UnassignHost for the claim they make, and `InventoryLabels` shows that their
requests amount to one step; `InstanceAllocation` leaves the phase at the end of a reconcile
open, which `InstancePower` and `ProvisioningJobs` determine; `BareMetalPool` assumes that a
deleted instance goes, which `instance_liveness` shows.

### InstanceAllocation

A reconcile is cut at every call it makes. `pc[i]` names the call that comes next,
`work[i]` is the in-memory copy, `read[i]` the status it came with (`oldstatus`, 113), and
`fresh[i]` says that the copy has the resourceVersion of the stored object.

| Action | Code |
|---|---|
| `Reconcile` | 104-121: the worker takes the key, reads the cache, ignores an object that is not there |
| `ReconcileInventory`, `AddFinalizer`, `FindFreeHost`, `SetHost` | 146-232 |
| `AssignGet`, `AssignPut` | AssignHost: reads the claim, writes the claim; in between anything may happen |
| `UnsetHost`, `SetClass` | 246-302: host lost to another, host won |
| `ReconcileManagement`, `AddManagementFinalizer` | 304-314; the rest of the management half is a free choice of its final phase |
| `HandleDeletion`, `DropManagementFinalizer`, `UnassignHost`, `DropInventoryFinalizer` | 683-766 |
| `WriteStatus` | 123-132 |
| `CallFails`, `AnswerLost` | a call fails before, or after, its effect |
| `Create`, `Delete`, `Sync`, `Restart` | users, the informer, the process |

`Lock` and deferred `Unlock` are part of the actions that take and leave them: `TryLock`
in the step that reads `externalHostID`, `Unlock` in every return (`Return`).

### InventoryLabels

One host, one backend, and the instances that want it. An instance is `new`, `wants` the
host (names it), is `bound` (was told), `releasing` or `gone`. The operation under way is
that of the instance that holds the lock; `request` is what it sends next.

| Action | Code |
|---|---|
| `Find`, `Delete`, `Begin` | 199-244, 728-736: the host is found, the object deleted, the lock taken |
| `GetForAssign` | assignHost: the node is read, its claim checked, `osac_labels` created or not (openstack.go 263-293, metal3.go 217-224) |
| `GetForUnassign` | unassignHost: only what is there is removed; nothing to remove is no request (openstack.go 358-398) |
| `Send`, `Refused` | the request that writes; a BareMetalHost refuses another version, Ironic a removal of what is not there |
| `CallFails`, `AnswerLost` | a request fails before, or after, its effect (also: the update of the object that follows fails) |
| `AuthError` | isAuthError, reconnect: the operation starts again, once (openstack.go 123-149, 247-261, 342-356) |
| `GivenUp`, `LateArrives` | a request times out, or its process ends, and it takes effect later |
| `OtherWrite` | the BareMetalOperator writes the host (the client reads it directly, metal3.go:92) |

### InstancePower

One instance that has its host. `host` has what the machine does (`on`) and what its
backend has been told (`want`, `reboot`). `Reconcile` starts with reconcileRestartTrigger,
whose answer decides the next call: `IsRestartComplete`, `TriggerRestart` or the power state
(`GetPowerState`, `SetPowerState`, `GetPowerStateAgain`, as in 346-392). `Report` is
syncBareMetalInstanceStatus and the end of reconcileManagement. `HostConverges` and
`HostReboots` are the machine. `ChangeStrategy` and `ChangeTrigger` are users. The
two backends differ in what they show of a restart: the annotation of a BareMetalHost is not
a power transition, the target of an Ironic node is.

### ProvisioningJobs

One object of either `kind`; both controllers use the library in the same way, and differ in
what they do around it. `jobs` is what the provider runs, `owed` that something was started and
not undone. Of the jobs in the status the last one of each type is kept.

| Action | Code |
|---|---|
| `Reconcile`, `HandleUpdate` | 104-121, 146-176; pool 103-119, 155-197: missing provider, missing profile, finalizer |
| `AddFinalizer` | 307-314 (the instance returns), pool 281-302 (the pool goes on, with a config version that the answer may have replaced by the one stored before) |
| `Lifecycle`, `Poll`, `CheckRunning`, `TriggerProvision`, `Flush` | the calls RunProvisioningLifecycle makes: 461-491, pool 658-695 |
| `AfterLifecycle`, `Finish` | 316-334, 496-507; pool 212-241 |
| `HandleDeletion`, `TriggerDeprovision`, `PollDeprovision`, `DropFinalizer` | 687-719, 768-806; pool 513-548, 552-567 |
| `CallFails`, `JobLost`, `WriteStatus` | errors, a job whose start was not answered, the status |
| `Edit`, `Delete`, `JobEnds`, `Sync` | users, the provider, the informer |
| `Restart` | the process comes back with or without a provider (main.go 262-287), and for a pool with other profiles (main.go 331-356) |

The lifecycle (`osac-operator/pkg/provisioning`) is not part of this repository. Assumed of it:
a running job is polled, and its end reported through OnSuccess or OnFailed; a job of the
desired config version that has succeeded is not run again; a failed one is left, waited for or
run again (a free choice); before a job is started the given check is asked, and afterwards
the given flush is called; a deprovision job is started unless one is recorded as running or
succeeded, or skipped when nothing is owed; a failed one lets the deletion go on, or blocks it
(which counts as a fault).

### BareMetalPool

One pool; pools do not meet, since each lists the instances that carry its own UID. The cache
of the pool (`poolSeen`) and that of each instance (`seen[i]`, `ready`) lag separately. `listed`
and `made` are the map `currentBareMetalInstances`: the instances of the list that are left, and
the nils appended for what was created.

| Action | Code |
|---|---|
| `Reconcile` | 102-119, with the start of handleUpdate (155-202, validateProfile) or handleDeletion |
| `AddFinalizer` | ensureFinalizer, 281-302 |
| `List` | listAndGroupBareMetalInstances, 305-337 |
| `CreateInstance`, `DeleteInstance` | one turn of the loops of 372-424 |
| `CheckReady` | 223-241, 427-466: the second list, and whether all it shows are Ready |
| `ListAll`, `Teardown`, `DropFinalizer` | handleDeletion, 469-549 |
| `WriteStatus` | 121-130 |
| `CallFails`, `AnswerLost` (and the lost answers in `CreateInstance`, `DeleteInstance`, `Teardown`) | errors of any call |
| `ChangeReplicas`, `DeletePool`, `DeleteInstanceByHand` | users |
| `InstanceGone`, `CollectGarbage`, `BecomesReady`, `InstanceFails` | the instance controller; Kubernetes |
| `SyncPool`, `SyncInstance`, `Restart` | the informers, with the predicates of 133-152; the process |

### Abstractions

* Kubernetes: optimistic concurrency on one version per object; a cache per object that
  skips versions but never goes back; one reconcile per object at a time; an update stores
  all but the status; an object goes with its last finalizer. In `InstanceAllocation` and
  `BareMetalPool`, that a copy is current is decided by value when it is read: a change that
  another one undid is then taken for none, which equals an informer that delivered in between.
* In `InstanceAllocation`, instances are created without `externalHostID` and `hostClass` and
  with an empty template, every host matches every selector, labels are left out
  (`InventoryLabels` has them), and `UnassignHost` is one step. Another process is not modelled.
  An Ironic claim is written unconditionally; a BareMetalHost would refuse a write on top of one it
  has not seen; that module keeps the weaker of the two, `InventoryLabels` both.
* In `InventoryLabels` a label is the instance whose value it has; a crash is an error of
  the request under way, since the instance comes back to the same operation.
* The informer's periodic resync is in `InstancePower` only (`Resync`); in
  `InstanceAllocation` it would only add reconciles of the same objects.
* In `BareMetalPool`, the profile the pool names is right or wrong for good (it is immutable and
  profiles are loaded once), it has no template (`ProvisioningJobs` has the jobs), and random names
  do not collide. The names are used again once an instance is gone and its cache knows. The
  phase of an instance is that the cache shows: that the stored one is ahead of it equals a later
  event. The loops of two host types may interleave, where the code finishes one before the next.
  The periodic resync (every ten hours or so) is left out: what the pool does without it is
  the question.
* In `ProvisioningJobs`, the phase at the end of a reconcile without or after the jobs is left
  open, and a job whose end no copy can ask for is forgotten, so that its id is used again.
* A new restart trigger is always a value not used before.
* Definitions under "Variant:" are deliberate mistakes used to show that a property can
  fail. No action uses them.

## 3. Runs

| Run | Shows | Bounds |
|---|---|---|
| `allocation_safety` | locks, claims, finalizers, statuses, no early rest; refinement of `HostClaims` | 2 instances, 2 hosts, 2 workers, 1 fault |
| `instance_liveness` | a deletion ends, a host that is wanted is allocated | 2 instances, 1 host, 2 workers, 1 fault |
| `labels` | claim and labels of a host; no patch refused; a release ends, a wanted host is claimed; refinement of `HostLabels` | both backends, 3 instances, 4 keys, 3 failures |
| `power` | nothing is forgotten, no early acknowledgement, the instance settles | both backends, 3 edits, 2 faults |
| `jobs` | no job behind a deletion, jobs are undone, Ready waits, no early rest; a deletion ends, every version of the spec runs | instance and pool, 2 templates, 2 jobs at a time, 1 edit, 1 fault |
| `pool` | creation under the finalizer, no deletion forgotten; a deletion ends, nothing left behind, scaling and Ready | 1 host type, at most 1 replica, 2 instances, 1 change of size, loss or failure of an instance, 1 fault |
| `double_booking` | violated: two live instances are told they have one host | 3 instances, 1 host |
| `leaked_claim` | violated: a claim outlives its instance | 2 instances, 2 hosts, 1 fault |
| `ready_not_allocated` | violated: Ready with Allocated False | 2 instances, 1 host, 1 fault |
| `restart_swallowed` | violated: a due restart is acknowledged without one | both backends, 2 edits |
| `duplicate_job` | violated: two provision jobs of one object run at once | instance and pool, 1 template, no edit, no fault |
| `pool_overshoot` | violated: a pool rests with too many instances | 1 host type, up to 2 replicas, no change, no fault |

Why the bounds are enough: locks and claims concern pairs of instances at one host; a
second host is needed to change one's mind, and a third instance only to be told of a host
that was freed under its owner. One fault puts a crash, a lost answer or a failed call at
every step; a refused update on an old copy costs no fault and happens as often as the cache
allows. In `labels`, three instances let one release a host under the claim of another while a
third wants it, the four keys are plain, persistent, plain of one and persistent of the others,
and both; three failures allow a lost answer, an expired session and a second one in one
operation. In `power`, three edits give a trigger and a strategy change during the effects of
an earlier one, two faults a lost answer and then a restart. In `jobs`, two templates make a
new version, and two jobs let a second one start while the first runs, or a deprovision job
run beside a provision job; when both ids are in use the provider takes no more, which delays
a start. In `pool`, one replica and two instances let it create or delete again what an old list
misses, and one change or loss during any step meets one fault; the size a pool starts with is
any. More replicas repeat the loop, and host types share nothing but that loop: that neither
adds a way to break the safety properties is what the theorems of section 5 show, and
`pool_overshoot` has two replicas. A list that is behind is read only while there are names for
what it makes the reconcile create (`NamesLeft`): overshoot by more than the names is cut off.
Most liveness properties say of a state that must not stay that it is left again and again
(`[]<>`), which TLC decides on the state graph alone.
Deadlock is not checked where users may stop and leave nothing to do.

Properties of `InstanceAllocation`:

* `LockDiscipline` - no lock shared, leaked or missing at a call.
* `AnswerStillValid`, `NoStealing` - what AssignHost read is still true when it writes; a host
  is never handed over directly.
* `ClaimUnderFinalizer`, `ReleasedBeforeGone` - no claim for an object that can vanish
  without a deletion pass; an object that is gone does not hold the host it names.
* `AllocationIsFinal` - no old copy undoes or changes an allocation.
* `StatusTruthful` - Allocated and Ready are stored only after what they say.
* `QuiescentIsDone` - when no worker has the instance, it is not in the queue and the cache shows
  what is stored, it is not waiting for its deletion, and if it is kept, it is Ready.
* `ImplementsClaims` - refinement: `bound[i]` is the host of an instance with a host class.
* `DeletionCompletes` - a deletion ends, through contention for the lock and a fault.
* `AllocationCompletes` - an instance that stays is allocated, as long as a host is free or its
  claim is on the host it names; a claim that leaked hides a host, its own too (finding 2).

Properties of `InventoryLabels`:

* `ImplementsLabels` - refinement: whatever fails, is repeated or arrives late, claim and labels
  change as if each operation were one step.
* `HolderHasItsLabels` - who has the claim has all its labels on the host, with its values.
* `PatchIsAccepted` - Ironic refuses no patch: it has what the patch adds to or removes.
* `ReleasedWithItsLabels` - after its release an instance does not hold the host, its plain labels
  are gone (README.md:116) and the release leaves its persistent ones alone (README.md:117). Said of
  the keys that are plain or persistent; for one that is both the code and the types disagree
  (section 4), and the property leaves it out.
* `HolderKeepsItsHost` - what an instance that was told to have the host has there, claim and
  labels, is changed by no request, late, outdated or repeated, but the release of another
  instance that names the same host (finding 1), and that one takes no label but its own plain keys.
* `ReleaseCompletes`, `WantedHostIsTaken` - a release ends; a host that is wanted is claimed.

Properties of `InstancePower`: `QuiescentIsDone` (at rest everything asked for is done),
`AcknowledgedAfterRestart` (no trigger is acknowledged before its restart is over), `Settles`.

Properties of `ProvisioningJobs`:

* `ProvisionsUnderFinalizer` - however old the copy, a provision job starts only while the stored
  object has its finalizer and no deprovision job is recorded.
* `Paired` - the finalizer goes only after what was started is undone, or waived by the
  provider, or the template is gone from the spec or the profile.
* `ReadyIsProvisioned` - an instance with a template becomes Ready only when its recorded job has
  succeeded and the condition says so.
* `QuiescentIsDone` - at rest, a deletion is over or lacks its provider, and an object that is kept
  says that it lacks a provider or profile, or has a job of just its version that has ended.
* `DeletionCompletes` - a deletion ends, if from some time on there is a provider.
* `EveryVersionRuns` - no change of the spec is forgotten: again and again the recorded job is
  one of the current version and has ended.

Properties of `BareMetalPool`:

* `CreatedUnderFinalizer` - however old the copy, an instance is created only while the stored
  pool has its finalizer.
* `DeletionNotForgotten` - a pool that is being deleted is being worked on, in the queue, or still
  to be shown by the cache, whatever the lists miss and whatever fails.
* `QuiescentIsDone` (proved, not run) - if each list shows what there is when it is read, a pool
  that is kept rests only when it has its replicas, counts them and is Ready. Said of pools
  that have their profile and provider, and of which no instance is still being deleted.
* `DeletionCompletes` - a deletion ends, whatever the lists miss and whatever call fails.
* `NothingLeftBehind` - what the last list of a deletion missed goes too, by its owner reference.
* `ScalesWhenUpToDate` - if no list misses what there is, the pool has the replicas asked for in
  the end and is Ready, although nothing tells it that an instance has become Ready. The
  condition is needed: see finding 6.

**Fairness.** A worker makes its next step (`WF` of `Step`): Go runs it and every call has a
result. A queued object is taken (`SF` of `Reconcile`, or of `Begin`, with several objects,
for the work queue is first-in first-out and workers and locks are busy at times; `WF` with
one). The informer delivers (`WF` of `Sync`). In `InstancePower` the machine does what it was
told (`WF`). In `ProvisioningJobs` every job ends (`WF` of `JobEnds`), for the provider has
a timeout of its own. In `BareMetalPool` there is one worker and one pool (`WF` of `Reconcile` or
`Step`), and what is being deleted is gone, what is there Ready in the end (`WF`). There
is no fairness of users, faults, restarts, resyncs or late requests: liveness rests on requeues
and events alone, and faults are finitely many.

## 4. What the code does not keep

The six violation runs, each with a line of the documents it contradicts (`findings` in
`PROJECT.json`):

1. `double_booking`. handleDeletion calls UnassignHost for any host the object names, and
   UnassignHost asks nobody whose claim it clears. A loser that is deleted before it forgets
   the host frees the winner's claim.
2. `leaked_claim`. AssignHost is called for the host of a cached copy. If the stored object has
   forgotten that host since, the claim is never released.
3. `ready_not_allocated`. Allocated True is only in memory when the host class is stored; a crash
   in between leaves it False for good, since reconcileInventory is skipped from then on.
4. `restart_swallowed`. A power change in progress and a restart in progress share the
   PowerSynced condition. A trigger that changes during the first is taken for the second and
   acknowledged without a restart. A restart is counted as due only when the machine runs,
   is meant to run and is not restarting, so that none of the excuses applies.
5. `duplicate_job`. The check against a second job reads the cached client. The event of the
   finalizer has queued the object again; if the cache does not show the status with the first
   job by then, a second one is started. No call has to fail for it.
6. `pool_overshoot`. The pool counts its instances in a cached list. Its status write wakes it,
   and if the list misses what was just created it creates as many again. Created and updated
   instances do not wake it, so it rests with too many until a periodic resync.

The properties of section 3 are the ones that hold beside these: for instance
`AnswerStillValid` holds although `NoDoubleBooking` does not, since the claim stands from its
write to the update of the object, and is freed later.

Met while modelling, without a run of their own:

* A request to Ironic that takes effect after it was given up may overwrite what was written
  since: the creation of `osac_labels` (openstack.go:281) empties a host that another instance
  has by then. With `LateWrites = {"openstack", "metal3"}` the run `labels` fails in
  `ImplementsLabels`, `HolderHasItsLabels`, `PatchIsAccepted`, `HolderKeepsItsHost` and
  `ReleasedWithItsLabels`; a BareMetalHost refuses such a request, which is checked.
* It refuses it because the host has changed. An assignment that was given up and arrives after the
  release of its own instance is accepted if that release found nothing to remove, for an update
  without a change leaves the resourceVersion as it was: the claim of a vanished instance stays.
  `LateArrives` does this; `ReleasedWithItsLabels` speaks of the moment the release is over.
* Without a run strategy the phase is Ready whatever the machine does (390), although Ready
  "means the host is ready and stable" (baremetalinstance_types.go:107).
* Scaled from two to one, a pool deletes one instance; a second reconcile whose list shows both
  may delete the other one (405), the cached list of finding 6 again.
* A restart without a provider sets ProvisionTemplateComplete to False (154-159) also when the
  job has succeeded. With the provider back, a job of the same version is not run again, and
  nothing sets the condition to True: the instance stays Failed. The lifecycle that decides this
  is not part of this repository, so that `QuiescentIsDone` allows it and no run calls it wrong.
* A spec edited while its job runs leads to Ready with the job of the older version, until the
  next reconcile starts one of the new version.
* A template set to the no-op template before the deletion is not undone (693); `Paired` says so.
* An instance whose claim was freed by the release of another forgets the host, and its plain labels
  stay there, although they are to be deleted with it (README.md:116).
* A key that is both plain and persistent is removed at deletion (742), although persistent labels
  "will remain on the host after the BareMetalInstance is deleted" and "override InventoryLabels with
  the same key" (baremetalinstance_types.go:69-71; README.md:117 says the same of profiles). The key
  `y` of `InventoryLabelsMC` is such a one: `HostLabels` follows the code, and no property says
  that it stays, or that it must go.
* A release by an instance that lost the host (finding 1) also takes the winner's labels whose keys
  are among the loser's plain ones, persistent ones of the winner included (the key `x`).
* A pool that is Ready stays Ready when one of its instances fails: such an event does not wake it
  (pool controller 139-144) and a Ready pool does not ask again, although Ready "means the pool and
  all associated resources are ready" (baremetalpool_types.go:34). In the model `InstanceFails` is
  followed by no step of the controller; `ScalesWhenUpToDate` asks that the pool is Ready again
  and again, not that it stops to be. The same line is not kept while the second list of a
  reconcile misses instances created a moment ago (448).

## 5. Proofs

Assumed: the named ASSUMEs of each module (the values for "no host", "no instance" or "no job" are
none, the bounds are naturals, at least one worker, backends are the two known ones, the names of
instances of a pool are finitely many). Number of instances, hosts, workers, templates, labels,
edits and faults are arbitrary. All safety and action properties of the passing runs are proved.

The properties named `QuiescentIsDone` are the safety half of liveness: they say that no return,
lost event, refused update or restart leaves the controller with something to do and nothing that
would make it look. The liveness properties then only add that what is queued is taken. All are
proved along one line: until the object is in the queue again, the copy of the reconcile in
flight is what the cache shows; what the reconcile returns with is a requeue, a change of the stored
object (whose event will queue it), or nothing left to do for that very copy.

`InstanceAllocationProofs`:

* `TypeCorrect`: `TypeOK` is inductive; one lemma per group of actions.
* `LocksAreDisciplined`, `AnswersStayValid`, `NobodySteals` follow from
  `IInv`. Locks alone are inductive with two more facts: which host lock is held at each
  `pc`, and that the copy at a host call still names the host locked. The answers add that a
  claim can change only by the holder of the lock of that host, so what was read under the
  lock stays true until its return.

`InstanceObjectsProofs` (over the above):

* `ObjectsInvariance`: `ObjectsInv` says, for each instance, that every stored object is sound
  (a host class has a host, the second finalizer comes after the first, Ready after both) and
  what a copy has changed at each step. None of the five properties is inductive: an update
  is taken from a fresh copy only, so one has to know how a fresh copy differs from the stored
  object at that step. A copy that is out of date can still make a claim; that the finalizer
  is stored then needs that a reconcile which removes it has seen the deletion, as has the
  cache from then on.
* `ReleasedFirst`, `StatusIsTrue`, `ClaimsUnderFinalizer`, `AllocationStays` follow, and
  `ImplementsHostClaims`: the initial state maps to that of `HostClaims`, every step to one of its
  actions or a stutter.

`InstanceRestProofs` (over the above):

* `RestsWhenDone` (`QuiescentIsDone`). The invariant says of every call what its copy has that the
  cache's copy has not: each update of a reconcile differs from what it started from in a
  finalizer, the host or the host class, so that the cache shows another object until its event
  has come, and the write of the status cannot undo that. Without an update, the status is
  written or the instance is Ready as it was. A deletion that is not over has a finalizer left to
  remove (`HasFinalizer`), so it does not end by chance.

`InventoryLabelsProofs`:

* `TypeCorrect` needs no assumption. The others assume `LateWrites \subseteq {"metal3"}`: no Ironic
  request takes effect after it was given up (section 4 says what happens otherwise).
* `IInv`: every request the backend may still accept is `Grounded`, it says the truth about
  the host. At a BareMetalHost that is so because of the version it carries; at Ironic because
  only the holder of the lock writes. From it, `ClaimWithLabels`, `Atomicity` (the refinement of
  `HostLabels`), `HolderIsLeftAlone` and `ReleaseIsComplete`; and `PatchesApply`, for a patch
  that says the truth about the node is not refused.

`InstancePowerProofs`:

* `IInv` adds to `TypeOK` where the copy came from (`CopyOfSeen`, `CopyOfStored`), what is known
  of the trigger at each call (`TriggerKnown`) and what a return without a requeue leaves
  behind (`ReturnIsDone`, `RestIsDone`). `QuiescentIsDone` is not inductive: at rest, it
  holds because the last return found everything done for the copy it had, and that copy
  was the cache's, which has not changed since or the object would be queued.
* `NothingForgotten` (`QuiescentIsDone`) follows from it, and `NotAcknowledgedEarly`
  (`AcknowledgedAfterRestart`) because a fresh copy was read with the stored status.

`ProvisioningJobsProofs`:

* `IInv` says of the copies what survives their age (`CopiesFollow`: a deletion that a copy shows
  is one, and its spec is final then), that the finalizer a copy shows before the deletion is
  stored (`FinalizerKept`), that a copy from before the deletion shows no deprovision job and there
  is none, since only this worker starts one (`NothingUndone`), that a recorded deprovision job is
  one and its success leaves nothing owed (`Undoing`), and that the condition tells how the last
  job ended (`Readiness`).
* `NothingBehindTheDeletion`, `ProvisionIsPaired`, `ReadyAfterSuccess` follow for the three
  action properties.
* `RestsWhenDone` (`QuiescentIsDone`). `Comes` says that, while the object is not queued and the
  cache is up to date, the reconcile in flight has the stored status and version, a poll asks about
  a job recorded as running, and a status that is as it was read means nothing is left. A job
  that has ended changes the status; a return that waits for one asks to be run again.

`BareMetalPoolProofs`:

* `TypeCorrect` as above; the set of instances is finite, everything else is arbitrary.
* `NoneCreatedWithoutFinalizer` (`CreatedUnderFinalizer`). That the copy shows the finalizer says
  nothing of the stored pool by itself. `IInv` adds that a reconcile takes the finalizer away
  only after the cache showed the deletion (`TearsDown`), that the cache never forgets a deletion
  (`SeenDeletion`), and so a pool the cache shows alive and with its finalizer has it still
  (`SeenFinalizer`), as has one whose instances are being listed or created (`UnderFinalizer`).

`BareMetalPoolRestProofs` (over the above):

* `NoDeletionForgotten` (`DeletionNotForgotten`): a deletion pass ends with a requeue or with the
  update that drops the finalizer, and one that never saw the deletion is followed by its event.
* `RestsWhenDone` (`QuiescentIsDone` of `UpToDateSpec`) counts: from the list on, what is
  listed and what was created add up to what there is, of each host type, unless an instance was
  lost; one that is lost leaves a cache that does not show it yet, and its end queues the pool. That
  the status counts the replicas and says Ready needs that the second list is only taken
  for an answer when nothing is pending. Without `ListIsUpToDate` this is false (finding 6).
  `RestsWhenUpToDate` says the same under the condition of `ScalesWhenUpToDate`, whose safety half
  it is: a pool at rest without its replicas could stay so for ever. `QuiescentIsDone` is defined
  in this module; no run checks it by itself.

Only model-checked: the liveness properties (fairness and ENABLED are outside the prover's
reach), that is `DeletionCompletes` and `AllocationCompletes` of instances, `ReleaseCompletes` and
`WantedHostIsTaken`, `Settles`, `DeletionCompletes` and `EveryVersionRuns` of jobs,
`DeletionCompletes`, `NothingLeftBehind` and `ScalesWhenUpToDate` of pools.

## 6. Not modelled

* `profile/profile.go`: LoadProfiles and ValidateParameters are set inclusions over parsed
  documents without an order of steps. Their results are inputs of the modules: a profile is
  missing, wrong, or without a template.
* What a profile puts on the instances of its pool (createBareMetalInstanceCR, 580-630), and how
  FindFreeHost matches hosts against a selector (199-210 and both clients): conversions of maps
  without a state of their own. The keys written and read are not always the same: metal3.go
  writes labels with a prefix of its own, and a managedBy of a profile goes to another key than
  the one the search reads.
* `cmd/main.go`: straight-line configuration that ends in the manager. Its choices are constants or
  are made by `Restart` (workers, provider, profiles). Two processes, of which one has lost its
  lease and not noticed, are not modelled: the host locks are of one process.
* withAuthRetry of the management client: one repetition of one request, no different from the
  retry by the next reconcile; that of the inventory client, which repeats several requests, is
  `AuthError`. The session itself, replaced without a mutex there, is a pointer to either session.
* Generated code and scheme registration, names of labels and finalizers, `helpers`, deployment
  manifests, scripts and tests: no behaviour of their own that a property could be about.
