--------------------------- MODULE ProvisioningJobs ---------------------------
(***************************************************************************)
(* Provision and deprovision jobs of one object: how a BareMetalInstance   *)
(* with a template (reconcileManagement and handleDeletion of              *)
(* internal/controller/baremetalinstance_controller.go) or a BareMetalPool *)
(* with a profile (baremetalpool_controller.go) has jobs run for it.       *)
(*                                                                         *)
(* A reconcile reads the object from the informer's cache and is cut into  *)
(* one action per call: an update of the object, a call of the provisioning *)
(* provider, the read of the cache that looks for a running job, the write *)
(* of the status.  Meanwhile jobs end, users edit or delete the object, the *)
(* cache catches up and the process restarts, with or without a provider.  *)
(*                                                                         *)
(* RunProvisioningLifecycle and RunDeprovisioningLifecycle belong to a     *)
(* library (osac-operator/pkg/provisioning); they are modelled from what   *)
(* the controllers pass to them and do with their answers.  Where that     *)
(* leaves a choice, the model makes it nondeterministically.  Of the jobs  *)
(* in the status the last one of each type is kept.                        *)
(*                                                                         *)
(* Left to other modules: the inventory (InstanceAllocation), power        *)
(* (InstancePower), the instances of a pool (BareMetalPool).  The finalizer *)
(* here is the management finalizer of an instance, the only one of a pool. *)
(***************************************************************************)
EXTENDS Naturals

CONSTANTS
  Templates,    \* what a spec may ask for; each has its own config version
  NoTemplate,   \* an empty TemplateID, or the no-op template
  Jobs,         \* bound: jobs that are running or recorded as running
  NoJob,
  MaxEdits,     \* bound: changes of the spec
  MaxFaults     \* bound: failed calls, lost answers, restarts, and deprovision
                \* jobs that block the deletion

ASSUME TemplatesAssumption == Templates # {}
ASSUME NoTemplateAssumption == NoTemplate \notin Templates
ASSUME NoJobAssumption == NoJob \notin Jobs
ASSUME BoundsAssumption == MaxEdits \in Nat /\ MaxFaults \in Nat

VARIABLES
  kind,       \* "instance" or "pool"
  provider,   \* this process has a provisioning provider
  registered, \* what the profile of the pool is in this process
  obj,        \* the object as the API server stores it
  seen,       \* the object as the informer's cache shows it
  synced,     \* the cache shows the stored object
  queued,     \* the object is in the work queue
  pc,         \* the next call of the reconcile in flight
  work,       \* the copy of the object the reconcile works on
  read,       \* the status the reconcile read (oldstatus)
  fresh,      \* the copy has the resourceVersion of the stored object
  jobs,       \* the jobs of the provider
  owed,       \* a provision job was started and nothing has undone it
  edits, faults

cluster == <<kind, provider, registered>>
memory == <<pc, work, read, fresh, queued>>
bounds == <<edits, faults>>
vars == <<cluster, obj, seen, synced, memory, jobs, owed, bounds>>

-----------------------------------------------------------------------------
(***************************************************************************)
(* Data.                                                                   *)
(***************************************************************************)
Specs == Templates \cup {NoTemplate}

Phases == {"", "Progressing", "Ready", "Failed", "Deleting"}

\* The ProvisionTemplateComplete condition of an instance: False by the reason
\* Progressing or TemplateFailed, or True.
Conditions == {"absent", "Progressing", "TemplateFailed", "True"}

JobStates == {"none", "running", "succeeded", "failed"}

\* A recorded job; its id is kept as long as it is taken to be running.
Records == [id : Jobs \cup {NoJob}, version : Specs, state : JobStates]

NoRecord == [id |-> NoJob, version |-> NoTemplate, state |-> "none"]

\* "desired" is the config version in the status of a pool, NoTemplate where
\* none is computed yet; that of an instance is computed whenever it is used.
Statuses == [phase : Phases, complete : Conditions, desired : Specs,
             job : Records, undo : Records]

NoStatus == [phase |-> "", complete |-> "absent", desired |-> NoTemplate,
             job |-> NoRecord, undo |-> NoRecord]

Objects == [live : {"present", "deleting", "gone"}, fin : BOOLEAN,
            spec : Specs, status : Statuses]

Blank == [live |-> "gone", fin |-> FALSE, spec |-> NoTemplate, status |-> NoStatus]

JobTypes == {"provision", "deprovision"}

IdleJob == [type |-> "provision", state |-> "none"]

PCs == {"idle", "handle", "addFinalizer", "poll", "check", "trigger", "flush",
        "undoTrigger", "undoPoll", "dropFinalizer", "status"}

\* Calls that may fail without an effect.
Updates == {"addFinalizer", "flush", "dropFinalizer"}
ProviderCalls == {"poll", "trigger", "undoTrigger", "undoPoll"}

Fault == faults < MaxFaults /\ faults' = faults + 1

\* The template a job would run: the instance names it, the profile has it.
HasTemplate(o) == IF kind = "instance" THEN o.spec # NoTemplate
                                       ELSE registered = "template"

\* A spec that cannot be handled without a provider.
NeedsProvider(o) == kind = "pool" \/ o.spec # NoTemplate

\* Which template the object starts with makes no difference.
FirstTemplate == CHOOSE t \in Templates : TRUE

Running(id) == jobs[id].state = "running"

\* A copy of the status has the job as running, and may be asked about it: the
\* provision job of an object that is being deleted is not looked at again.
Known(id) == \E o \in {obj, seen, work} :
               id = o.status.undo.id \/ (id = o.status.job.id /\ o.live = "present")

Unused(id) == ~Running(id) /\ ~Known(id)

\* The id of the next job, when the bound leaves one.
NextJob == CHOOSE id \in Jobs : Unused(id)

IdLeft == \E id \in Jobs : Unused(id)

-----------------------------------------------------------------------------
(***************************************************************************)
(* Steps a reconcile is put together from.                                 *)
(***************************************************************************)
Call(c, w) ==
  /\ pc' = c
  /\ work' = w
  /\ UNCHANGED <<queued, read>>

\* Variant: no return asks to be run again.
ReturnWithoutRequeue(w, again) ==
  /\ pc' = "status"
  /\ work' = w
  /\ UNCHANGED <<queued, read>>

\* The handler returns: with an error or a RequeueAfter when again is TRUE.
Return(w, again) ==
  /\ pc' = "status"
  /\ work' = w
  /\ queued' = (queued \/ again)
  /\ UNCHANGED read

Phase(w, p) == [w EXCEPT !.status.phase = p]

\* The server stores what it is sent and its cache entry is out of date.
Store(o) ==
  /\ obj' = o
  /\ synced' = FALSE

\* Variant: a phase the API does not have.
FinishProvisioned(w) == Return(Phase(w, "Provisioned"), FALSE)

\* What the handler does after the jobs: power and restarts of an instance,
\* the phases of the instances of a pool, both left open here.
Finish(w) ==
  \/ Return(Phase(w, "Ready"), FALSE)
  \/ Return(Phase(w, "Progressing"), TRUE)
  \/ /\ kind = "instance"
     /\ Return(Phase(w, "Failed"), TRUE)

\* Variant: the condition is not looked at.
AfterLifecycleUnchecked(w, again) ==
  IF again THEN Return(Phase(w, "Progressing"), TRUE) ELSE Finish(w)

\* The lifecycle has returned without an error, asking to be run again or not.
AfterLifecycle(w, again) ==
  CASE kind = "pool" /\ again -> Return(w, TRUE)
    [] kind = "pool" /\ ~again -> Finish(w)
    [] kind = "instance" /\ again ->
         Return([w EXCEPT !.status.phase = "Progressing",
                          !.status.complete = IF @ = "TemplateFailed" THEN @
                                                            ELSE "Progressing"], TRUE)
    [] kind = "instance" /\ ~again ->
         IF w.status.complete \in {"absent", "True"} THEN Finish(w)
         ELSE Return(Phase(w, "Failed"), FALSE)

\* Variant: the config version leaves the template out.
VersionWithoutTemplate(w) == IF w.spec = NoTemplate THEN NoTemplate ELSE FirstTemplate

\* The config version of a spec: it differs where the template and its
\* parameters, the host or the labels do.
DesiredVersion(w) == w.spec

\* A pool keeps the version in its status, from the start of handleUpdate on.
WithVersion(w) == IF kind = "pool" THEN [w EXCEPT !.status.desired = DesiredVersion(w)] ELSE w

\* The version the lifecycle is given.
TargetVersion(w) == IF kind = "pool" THEN w.status.desired ELSE DesiredVersion(w)

\* RunProvisioningLifecycle: a job that runs is polled, one of the desired
\* version that has succeeded is not run again, a failed one may be.
Lifecycle(w) ==
  LET job == w.status.job
      Current == job.version = TargetVersion(w)
  IN  \/ job.state = "running" /\ Call("poll", w)
      \/ job.state \in {"succeeded", "failed"} /\ Current /\ AfterLifecycle(w, FALSE)
      \/ job.state = "failed" /\ Current /\ AfterLifecycle(w, TRUE)
      \/ job.state \in {"none", "failed"} /\ Call("check", w)
      \/ job.state = "succeeded" /\ ~Current /\ Call("check", w)

\* Provisioning runs first, if there is a template.
Provision(w) == \/ HasTemplate(w) /\ Lifecycle(w)
                \/ ~HasTemplate(w) /\ Finish(w)

-----------------------------------------------------------------------------
(***************************************************************************)
(* Initial state and environment.                                          *)
(***************************************************************************)
Init ==
  /\ kind \in {"instance", "pool"}
  /\ provider \in BOOLEAN
  /\ registered = "template"
  /\ obj = [Blank EXCEPT !.live = "present", !.spec = FirstTemplate]
  /\ seen = obj
  /\ synced = TRUE
  /\ queued = TRUE
  /\ pc = "idle" /\ work = Blank /\ read = NoStatus /\ fresh = FALSE
  /\ jobs = [id \in Jobs |-> IdleJob]
  /\ owed = FALSE
  /\ edits = 0 /\ faults = 0

\* A user changes the spec; a pool keeps its profile.
Edit(s) ==
  /\ obj.live = "present" /\ edits < MaxEdits
  /\ s # obj.spec /\ (kind = "pool" => s # NoTemplate)
  /\ Store([obj EXCEPT !.spec = s])
  /\ fresh' = FALSE
  /\ edits' = edits + 1
  /\ UNCHANGED <<cluster, seen, pc, work, read, queued, jobs, owed, faults>>

\* Without a finalizer the object goes away at once.
Delete ==
  /\ obj.live = "present"
  /\ Store([obj EXCEPT !.live = IF obj.fin THEN "deleting" ELSE "gone"])
  /\ fresh' = FALSE
  /\ UNCHANGED <<cluster, seen, pc, work, read, queued, jobs, owed, bounds>>

\* The informer catches up and enqueues the object.
Sync ==
  /\ ~synced
  /\ seen' = obj
  /\ synced' = TRUE
  /\ queued' = TRUE
  /\ UNCHANGED <<cluster, obj, pc, work, read, fresh, jobs, owed, bounds>>

\* A job comes to its end.  A deprovision job that succeeds undoes what the
\* provision jobs did.  The end of a job no copy knows of is not kept.
JobEnds(id) ==
  /\ Running(id)
  /\ \E s \in {"succeeded", "failed"} :
       /\ jobs' = [jobs EXCEPT ![id] = IF Known(id) THEN [@ EXCEPT !.state = s] ELSE IdleJob]
       /\ owed' = (owed /\ ~(jobs[id].type = "deprovision" /\ s = "succeeded"))
  /\ UNCHANGED <<cluster, obj, seen, synced, memory, bounds>>

\* The process starts again, with the environment and the profiles it finds
\* then: credentials of the provider, and the profile of a pool, may be there
\* or not.
Restart ==
  /\ Fault
  /\ provider' \in BOOLEAN
  /\ registered' \in IF kind = "pool" THEN {"template", "noop", "missing"} ELSE {"template"}
  /\ seen' = obj
  /\ synced' = TRUE
  /\ queued' = (obj.live # "gone")
  /\ pc' = "idle" /\ work' = Blank /\ read' = NoStatus /\ fresh' = FALSE
  /\ UNCHANGED <<kind, obj, jobs, owed, edits>>

-----------------------------------------------------------------------------
(***************************************************************************)
(* Reconcile and handleUpdate.                                             *)
(***************************************************************************)
Reconcile ==
  /\ pc = "idle" /\ queued
  /\ queued' = FALSE
  /\ \/ /\ seen.live = "gone"
        /\ UNCHANGED <<pc, work, read, fresh>>
     \/ /\ seen.live # "gone"
        /\ pc' = "handle" /\ work' = seen /\ read' = seen.status /\ fresh' = synced
  /\ UNCHANGED <<cluster, obj, seen, synced, jobs, owed, bounds>>

\* Variant: no finalizer is needed to run jobs.
HandleUpdateWithoutFinalizer ==
  /\ pc = "handle" /\ work.live = "present"
  /\ \/ /\ NeedsProvider(work) /\ ~provider
        /\ Return(Phase(work, "Failed"), FALSE)
     \/ /\ provider \/ ~NeedsProvider(work)
        /\ Provision(WithVersion(work))
  /\ UNCHANGED <<cluster, obj, seen, synced, fresh, jobs, owed, bounds>>

\* Up to the first call.  A missing provider or profile ends the reconcile
\* without a requeue.  What it says of a missing provider is said in this
\* condition if the instance is Allocated, which is left open here, and in that
\* one if not.
HandleUpdate ==
  /\ pc = "handle" /\ work.live = "present"
  /\ \/ /\ NeedsProvider(work) /\ ~provider
        /\ \/ Return(Phase(work, "Failed"), FALSE)
           \/ /\ kind = "instance"
              /\ Return([work EXCEPT !.status.phase = "Failed",
                                     !.status.complete = "TemplateFailed"], FALSE)
     \/ /\ provider /\ registered = "missing"
        /\ Return(Phase(WithVersion(work), "Failed"), FALSE)
     \/ /\ provider \/ ~NeedsProvider(work)
        /\ registered # "missing" /\ ~work.fin
        /\ Call("addFinalizer", [WithVersion(work) EXCEPT !.fin = TRUE])
     \/ /\ provider \/ ~NeedsProvider(work)
        /\ registered # "missing" /\ work.fin
        /\ Provision(WithVersion(work))
  /\ UNCHANGED <<cluster, obj, seen, synced, fresh, jobs, owed, bounds>>

\* The answer of an update is decoded over the copy: a version that is stored
\* replaces the one just computed.
Answer(w) == IF obj.status.desired = NoTemplate THEN w
             ELSE [w EXCEPT !.status.desired = obj.status.desired]

\* The instance comes back by the event of its update.  The pool goes on, with
\* the config version of the answer.
AddFinalizer ==
  /\ pc = "addFinalizer" /\ fresh
  /\ Store([obj EXCEPT !.fin = TRUE])
  /\ \/ kind = "instance" /\ Return(Phase(work, "Progressing"), FALSE)
     \/ kind = "pool" /\ Provision(Answer(work))
  /\ UNCHANGED <<cluster, seen, fresh, jobs, owed, bounds>>

\* The provider is asked for the state of the recorded job; OnSuccess and
\* OnFailed are called when it has ended.
Poll ==
  LET state == jobs[work.status.job.id].state
      ended == [work EXCEPT !.status.job.state = state, !.status.job.id = NoJob]
  IN  /\ pc = "poll"
      /\ \/ /\ state = "running"
            /\ AfterLifecycle(work, TRUE)
         \/ /\ state = "succeeded"
            /\ AfterLifecycle([ended EXCEPT !.status.complete =
                                 IF kind = "instance" THEN "True" ELSE @], FALSE)
         \/ /\ state = "failed"
            /\ \E again \in BOOLEAN :
                 AfterLifecycle([ended EXCEPT !.status.phase = "Failed",
                                              !.status.complete =
                                   IF kind = "instance" THEN "TemplateFailed" ELSE @], again)
      /\ UNCHANGED <<cluster, obj, seen, synced, fresh, jobs, owed, bounds>>

\* CheckAPIServerForNonTerminalProvisionJob reads through the client of the
\* manager, which answers from the cache.
CheckRunning ==
  /\ pc = "check"
  /\ \/ seen.status.job.state = "running" /\ AfterLifecycle(work, TRUE)
     \/ seen.status.job.state # "running" /\ Call("trigger", work)
  /\ UNCHANGED <<cluster, obj, seen, synced, fresh, jobs, owed, bounds>>

Start(id, type) == jobs' = [jobs EXCEPT ![id] = [type |-> type, state |-> "running"]]

\* What is recorded of the job that starts.
RunningJob == [id |-> NextJob, version |-> TargetVersion(work), state |-> "running"]

TriggerProvision ==
  /\ pc = "trigger"
  /\ IdLeft
  /\ Start(NextJob, "provision")
  /\ Call("flush", [work EXCEPT !.status.job = RunningJob])
  /\ owed' = TRUE
  /\ UNCHANGED <<cluster, obj, seen, synced, fresh, bounds>>

\* The status is written at once, with the id of the new job.
Flush ==
  /\ pc = "flush" /\ fresh
  /\ Store([obj EXCEPT !.status = work.status])
  /\ AfterLifecycle(work, TRUE)
  /\ UNCHANGED <<cluster, seen, fresh, jobs, owed, bounds>>

-----------------------------------------------------------------------------
(***************************************************************************)
(* handleDeletion.                                                         *)
(***************************************************************************)
Release(w) == Call("dropFinalizer", [w EXCEPT !.fin = FALSE])

\* Variant: without a provider the object is let go.
HandleDeletionWithoutProvider ==
  LET w == Phase(work, "Deleting")
  IN  /\ pc = "handle" /\ work.live = "deleting"
      /\ \/ (~HasTemplate(w) \/ ~provider) /\ Release(w)
         \/ HasTemplate(w) /\ provider /\ Call("undoTrigger", w)
      /\ UNCHANGED <<cluster, obj, seen, synced, fresh, jobs, owed, bounds>>

\* RunDeprovisioningLifecycle starts a job unless one is recorded.
HandleDeletion ==
  LET w == Phase(work, "Deleting")
  IN  /\ pc = "handle" /\ work.live = "deleting"
      /\ \/ /\ ~HasTemplate(w)
            /\ Release(w)
         \/ /\ HasTemplate(w) /\ ~provider
            /\ Return(Phase(w, "Failed"), FALSE)
         \/ /\ HasTemplate(w) /\ provider
            /\ \/ w.status.undo.state = "running" /\ Call("undoPoll", w)
               \/ w.status.undo.state = "succeeded" /\ Release(w)
               \/ w.status.undo.state \in {"none", "failed"} /\ Call("undoTrigger", w)
      /\ UNCHANGED <<cluster, obj, seen, synced, fresh, jobs, owed, bounds>>

\* The provider starts a job, or skips it when there is nothing to undo, which
\* the controllers take for done.
TriggerDeprovision ==
  /\ pc = "undoTrigger"
  /\ \/ /\ IdLeft
        /\ Start(NextJob, "deprovision")
        /\ Return([work EXCEPT !.status.undo = RunningJob], TRUE)
     \/ /\ ~owed
        /\ Release(work)
        /\ UNCHANGED jobs
  /\ UNCHANGED <<cluster, obj, seen, synced, fresh, owed, bounds>>

\* A failed job lets the deletion go on, unless the provider blocks it.
PollDeprovision ==
  LET state == jobs[work.status.undo.id].state
      ended == [work EXCEPT !.status.undo.state = state, !.status.undo.id = NoJob]
  IN  /\ pc = "undoPoll"
      /\ \/ /\ state = "running"
            /\ Return(work, TRUE)
            /\ UNCHANGED <<owed, faults>>
         \/ /\ state = "succeeded"
            /\ Release(ended)
            /\ UNCHANGED <<owed, faults>>
         \/ /\ state = "failed"
            /\ Release(ended)
            /\ owed' = FALSE
            /\ UNCHANGED faults
         \/ /\ state = "failed" /\ Fault
            /\ Return(ended, TRUE)
            /\ UNCHANGED owed
      /\ UNCHANGED <<cluster, obj, seen, synced, fresh, jobs, edits>>

DropFinalizer ==
  /\ pc = "dropFinalizer" /\ fresh
  /\ Store([obj EXCEPT !.fin = FALSE, !.live = "gone"])
  /\ Return(work, FALSE)
  /\ UNCHANGED <<cluster, seen, fresh, jobs, owed, bounds>>

-----------------------------------------------------------------------------
(***************************************************************************)
(* Errors, and the end of a reconcile.                                     *)
(***************************************************************************)
\* An error before the deletion makes an instance Failed; of a pool only the
\* finalizer does.
Errored(w) ==
  IF w.live = "present" /\ (kind = "instance" \/ pc = "addFinalizer")
  THEN Phase(w, "Failed") ELSE w

\* A call fails without an effect: an update because the copy is stale, any
\* call because of a fault.
CallFails ==
  /\ \/ pc \in Updates /\ ~fresh /\ UNCHANGED faults
     \/ pc \in Updates \cup ProviderCalls /\ Fault
  /\ Return(Errored(work), TRUE)
  /\ UNCHANGED <<cluster, obj, seen, synced, fresh, jobs, owed, edits>>

\* A job is started and the answer of the provider is lost.
JobLost ==
  /\ pc \in {"trigger", "undoTrigger"} /\ Fault
  /\ IdLeft
  /\ Start(NextJob, IF pc = "trigger" THEN "provision" ELSE "deprovision")
  /\ owed' = (owed \/ pc = "trigger")
  /\ Return(Errored(work), TRUE)
  /\ UNCHANGED <<cluster, obj, seen, synced, fresh, edits>>

\* The status is written when it differs from the one that was read.  That
\* the object is gone is no error; any other refusal is one.
WriteStatus ==
  /\ pc = "status"
  /\ pc' = "idle" /\ work' = Blank /\ read' = NoStatus /\ fresh' = FALSE
  /\ \/ /\ work.status = read \/ obj.live = "gone"
        /\ UNCHANGED <<obj, synced, queued, faults>>
     \/ /\ work.status # read /\ obj.live # "gone" /\ fresh
        /\ Store([obj EXCEPT !.status = work.status])
        /\ UNCHANGED <<queued, faults>>
     \/ /\ work.status # read /\ obj.live # "gone"
        /\ (~fresh /\ UNCHANGED faults) \/ Fault
        /\ queued' = TRUE
        /\ UNCHANGED <<obj, synced>>
  /\ UNCHANGED <<cluster, seen, jobs, owed, edits>>

Step ==
  \/ HandleUpdate \/ AddFinalizer \/ Poll \/ CheckRunning \/ TriggerProvision \/ Flush
  \/ HandleDeletion \/ TriggerDeprovision \/ PollDeprovision \/ DropFinalizer
  \/ CallFails \/ JobLost \/ WriteStatus

Next ==
  \/ Delete \/ Sync \/ Restart \/ Reconcile \/ Step
  \/ \E s \in Specs : Edit(s)
  \/ \E id \in Jobs : JobEnds(id)

Spec == Init /\ [][Next]_vars

-----------------------------------------------------------------------------
(***************************************************************************)
(* Fairness.  The worker takes what is queued and makes its next step, the *)
(* informer delivers, every job ends.  Nothing makes users act, calls fail *)
(* or the process restart.                                                 *)
(***************************************************************************)
Fairness == /\ WF_vars(Step)
            /\ WF_vars(Reconcile)
            /\ WF_vars(Sync)
            /\ \A id \in Jobs : WF_vars(JobEnds(id))

FairSpec == Spec /\ Fairness

-----------------------------------------------------------------------------
(***************************************************************************)
(* Properties.                                                             *)
(***************************************************************************)
\* Every variable has its type.
TypeOK ==
  /\ kind \in {"instance", "pool"}
  /\ provider \in BOOLEAN
  /\ registered \in {"template", "noop", "missing"}
  /\ obj \in Objects /\ seen \in Objects /\ work \in Objects
  /\ read \in Statuses
  /\ pc \in PCs
  /\ synced \in BOOLEAN /\ queued \in BOOLEAN /\ fresh \in BOOLEAN
  /\ jobs \in [Jobs -> [type : JobTypes, state : JobStates]]
  /\ owed \in BOOLEAN
  /\ edits \in 0..MaxEdits /\ faults \in 0..MaxFaults

\* A provision job starts in this step.
Starts(id) ==
  /\ jobs[id].state # "running"
  /\ jobs'[id].state = "running" /\ jobs'[id].type = "provision"

\* A provision job is started only while the stored object has its finalizer
\* and no deprovision job is recorded, however old the copy of the object is:
\* nothing is provisioned behind the back of a deletion (controller :307,
\* :690; pool controller :190, :284).
ProvisionsUnderFinalizer ==
  [][\A id \in Jobs : Starts(id) => obj.fin /\ obj.status.undo.state = "none"]_vars

\* "every provision action is paired with a deprovision action"
\* (baremetalinstance_controller_test.go:1016): the finalizer is not given up
\* before what was started is undone or the provider has waived it - unless
\* the template is gone by then.
Paired == [][obj.fin /\ ~obj'.fin => ~owed \/ ~HasTemplate(obj)]_vars

\* An instance with a template becomes Ready only when its last job has
\* succeeded, and it says so (controller :316-333) - whatever was edited, lost
\* or restarted before.  The job may be of an older version when the spec
\* changed while it ran; EveryVersionRuns sees to the rest.
ReadyIsProvisioned ==
  [][/\ kind = "instance" /\ obj.status.phase # "Ready"
     /\ obj'.status.phase = "Ready" /\ HasTemplate(obj')
     => /\ obj'.status.job.state = "succeeded"
        /\ obj'.status.complete = "True"]_vars

Ended(job) == job.state \in {"succeeded", "failed"}

\* Nothing is left to do for the object: a deletion waits for a provider the
\* process does not have; an object that is kept says that it lacks something,
\* or a job of just its version has ended.
Done(o) ==
  /\ o.live = "deleting" => HasTemplate(o) /\ ~provider
  /\ o.live = "present" =>
       \/ /\ o.status.phase = "Failed"
          /\ (NeedsProvider(o) /\ ~provider) \/ registered = "missing"
       \/ /\ o.status.phase \in {"Ready", "Failed"}
          /\ HasTemplate(o) => /\ o.status.job.version = DesiredVersion(o)
                               /\ Ended(o.status.job)

\* The controller never rests too early: with nothing under way any more,
\* nothing is left to do - whatever was edited, lost, refused or restarted
\* (handleUpdate, handleDeletion, the lifecycle and the status write at the
\* end).  That a job which succeeded leaves the object Ready is not said: one
\* that was handled without a provider in between stays Failed.
QuiescentIsDone == pc = "idle" /\ ~queued /\ synced => Done(obj)

\* As long as the process has what it needs, a deletion comes to its end:
\* every return that waits for a job has a requeue, and one without a provider
\* is made good by the restart that brings it.  (From "deleting" an object only
\* goes to "gone".)
DeletionCompletes == <>[]provider => []<>(obj.live # "deleting")

\* An object that asks for a template again and again has a recorded job of
\* just this version that has ended: no change of the spec is forgotten,
\* whatever is edited while a job runs.
EveryVersionRuns ==
  <>[](provider /\ registered = "template") =>
    []<>(\/ obj.live # "present" \/ ~HasTemplate(obj)
         \/ /\ obj.status.job.version = obj.spec
            /\ obj.status.job.state \in {"succeeded", "failed"})

-----------------------------------------------------------------------------
(***************************************************************************)
(* What the documents say and the code does not keep.                      *)
(***************************************************************************)
\* "Check API server for non-terminal provision job to prevent duplicates"
\* (pool controller :683): no two provision jobs of an object run at once.
NoDuplicateJob ==
  \A i, j \in Jobs :
    /\ Running(i) /\ jobs[i].type = "provision"
    /\ Running(j) /\ jobs[j].type = "provision"
    => i = j
=============================================================================
