------------------------ MODULE ProvisioningJobsProofs ------------------------
(***************************************************************************)
(* Proofs about ProvisioningJobs, for any templates, any jobs and any      *)
(* bounds.                                                                 *)
(*                                                                         *)
(* Neither the copy in the cache nor the one a reconcile works on need     *)
(* show the stored object.  What can be said of them is what the proofs    *)
(* rest on: a deletion that a copy shows is one; a copy from before the    *)
(* deletion shows no deprovision job, and there is none yet either, since  *)
(* only this worker starts one; its finalizer is still there.              *)
(***************************************************************************)
EXTENDS ProvisioningJobs, TLAPS

\* Where the reconcile is, and what its copies have to do with the object.
CopiesFollow ==
  /\ pc # "idle" => work.live # "gone"
  /\ pc \in {"addFinalizer", "poll", "check", "trigger", "flush"} => work.live = "present"
  /\ pc \in {"undoTrigger", "undoPoll", "dropFinalizer"} => work.live = "deleting"
  /\ seen.live # "present" => obj.live # "present"
  /\ work.live = "deleting" => seen.live # "present"
  /\ seen.live = "deleting" => seen.spec = obj.spec
  /\ work.live = "deleting" => work.spec = obj.spec
  /\ synced => seen = obj
  /\ fresh => work.spec = obj.spec

\* The finalizer a copy shows before the deletion is there.
FinalizerKept ==
  /\ seen.live = "present" /\ seen.fin => obj.fin
  /\ pc = "handle" /\ work.live = "present" /\ work.fin => obj.fin
  /\ pc \in {"poll", "check", "trigger", "flush"} => obj.fin

NotUndone(o) == o.status.undo.state = "none"

\* As long as a copy is from before the deletion, nothing has been undone.
NothingUndone ==
  /\ seen.live = "present" => NotUndone(obj) /\ NotUndone(seen)
  /\ work.live = "present" => NotUndone(obj) /\ NotUndone(seen) /\ NotUndone(work)

\* A deprovision job that is recorded is one, and once it has succeeded
\* nothing is owed.
UndoRecorded(o) ==
  LET undo == o.status.undo
  IN  /\ undo.state = "running" =>
           /\ undo.id \in Jobs /\ jobs[undo.id].type = "deprovision"
           /\ jobs[undo.id].state = "succeeded" => ~owed
      /\ undo.state = "succeeded" => ~owed

Undoing ==
  /\ UndoRecorded(obj) /\ UndoRecorded(seen) /\ UndoRecorded(work)
  /\ pc = "undoPoll" => work.status.undo.state = "running"
  /\ pc = "dropFinalizer" => ~owed \/ ~HasTemplate(obj)

\* The condition of an instance tells how its last job ended.
EndTold(o) ==
  /\ o.status.job.state = "failed" => o.status.complete = "TemplateFailed"
  /\ o.status.job.state = "succeeded" => o.status.complete # "absent"

\* An instance that is about to become Ready has reasons to.
MayBeReady ==
  obj.status.phase = "Ready" \/ ~HasTemplate(work)
  \/ (work.status.job.state = "succeeded" /\ work.status.complete = "True")

Readiness ==
  kind = "instance" =>
    /\ EndTold(obj) /\ EndTold(seen) /\ EndTold(work)
    /\ fresh /\ pc \notin {"idle", "status"} /\ work.status.phase = "Ready"
         => obj.status.phase = "Ready"
    /\ fresh /\ pc = "status" /\ work.status.phase = "Ready" => MayBeReady

JobsInv == CopiesFollow /\ FinalizerKept /\ NothingUndone /\ Undoing /\ Readiness

IInv == TypeOK /\ JobsInv

-----------------------------------------------------------------------------
(***************************************************************************)
(* Types of what the steps are put together from.                          *)
(***************************************************************************)
LEMMA BlankType == Blank \in Objects /\ NoStatus \in Statuses /\ NoRecord \in Records
BY DEF Blank, Objects, NoStatus, Statuses, NoRecord, Records, Phases, Conditions, JobStates,
       Specs

\* The parts of an object, and the object with another one.
LEMMA ObjectType ==
  ASSUME NEW o \in Objects
  PROVE  /\ o.status \in Statuses /\ o.spec \in Specs /\ o.fin \in BOOLEAN
         /\ o.live \in {"present", "deleting", "gone"}
         /\ o.status.phase \in Phases /\ o.status.complete \in Conditions
         /\ o.status.job \in Records /\ o.status.undo \in Records
         /\ o.status.desired \in Specs
         /\ \A s \in Statuses : [o EXCEPT !.status = s] \in Objects
         /\ \A s \in Specs : [o EXCEPT !.spec = s] \in Objects
         /\ \A b \in BOOLEAN : [o EXCEPT !.fin = b] \in Objects
         /\ \A l \in {"present", "deleting", "gone"} : [o EXCEPT !.live = l] \in Objects
BY DEF Objects, Statuses

\* The object with another entry of its status.
LEMMA StatusType ==
  ASSUME NEW o \in Objects
  PROVE  /\ \A p \in Phases : [o EXCEPT !.status.phase = p] \in Objects
         /\ \A c \in Conditions : [o EXCEPT !.status.complete = c] \in Objects
         /\ \A v \in Specs : [o EXCEPT !.status.desired = v] \in Objects
         /\ \A r \in Records : [o EXCEPT !.status.job = r] \in Objects
         /\ \A r \in Records : [o EXCEPT !.status.undo = r] \in Objects
BY DEF Objects, Statuses

\* A record of a job that has ended.
LEMMA EndedType ==
  ASSUME NEW o \in Objects, NEW s \in JobStates
  PROVE  /\ [o EXCEPT !.status.job.state = s, !.status.job.id = NoJob] \in Objects
         /\ [o EXCEPT !.status.undo.state = s, !.status.undo.id = NoJob] \in Objects
BY DEF Objects, Statuses, Records

LEMMA FaultType ==
  ASSUME TypeOK, Fault
  PROVE  faults' \in 0..MaxFaults
BY BoundsAssumption DEF Fault, TypeOK

\* The next job is one that nobody knows of.
LEMMA NextJobUnused ==
  ASSUME IdLeft
  PROVE  NextJob \in Jobs /\ ~Running(NextJob) /\ ~Known(NextJob)
BY DEF IdLeft, NextJob, Unused

LEMMA RunningJobType ==
  ASSUME TypeOK, IdLeft
  PROVE  RunningJob \in Records
<1>1. TargetVersion(work) \in Specs
  BY ObjectType DEF TypeOK, TargetVersion, DesiredVersion
<1> QED  BY <1>1, NextJobUnused DEF RunningJob, Records, JobStates

LEMMA StartType ==
  ASSUME TypeOK, NEW id \in Jobs, NEW type \in JobTypes, Start(id, type)
  PROVE  jobs' \in [Jobs -> [type : JobTypes, state : JobStates]]
BY DEF TypeOK, Start, JobStates

-----------------------------------------------------------------------------
(***************************************************************************)
(* What the parts of a handler do to the copy.  None of them touches more  *)
(* than the phase and the condition.                                       *)
(***************************************************************************)
Alike(v, w) ==
  /\ v \in Objects
  /\ v.live = w.live /\ v.fin = w.fin /\ v.spec = w.spec
  /\ v.status.job = w.status.job /\ v.status.undo = w.status.undo

\* An instance does not become Ready unless there is no template, or its last
\* job has succeeded and the condition says so.
ReadyFor(v, w) ==
  kind = "instance" /\ EndTold(w) =>
    /\ EndTold(v)
    /\ v.status.phase = "Ready" =>
         ~HasTemplate(v) \/ (v.status.job.state = "succeeded" /\ v.status.complete = "True")

\* The config version is no matter of the rest of the copy.
LEMMA VersionOutcome ==
  ASSUME TypeOK, NEW w \in Objects, NEW v \in {w, WithVersion(w), Answer(w)}
  PROVE  /\ Alike(v, w) /\ v.status.phase = w.status.phase
         /\ v.status.complete = w.status.complete
<1>1. w.spec \in Specs /\ obj.status.desired \in Specs
  BY ObjectType DEF TypeOK
<1>2. \A d \in Specs : /\ Alike([w EXCEPT !.status.desired = d], w)
                       /\ [w EXCEPT !.status.desired = d].status.phase = w.status.phase
                       /\ [w EXCEPT !.status.desired = d].status.complete = w.status.complete
  BY StatusType DEF Alike, Objects, Statuses
<1>3. Alike(w, w)
  BY DEF Alike
<1> QED  BY <1>1, <1>2, <1>3 DEF WithVersion, DesiredVersion, Answer

LEMMA AlikePhase ==
  ASSUME NEW w \in Objects, NEW p \in Phases
  PROVE  /\ Alike(Phase(w, p), w)
         /\ Phase(w, p).status.phase = p
         /\ Phase(w, p).status.complete = w.status.complete
BY StatusType DEF Alike, Phase, Objects, Statuses

LEMMA ReturnOutcome ==
  ASSUME TypeOK, NEW w \in Objects, NEW again \in BOOLEAN, Return(w, again)
  PROVE  /\ pc' = "status" /\ work' = w /\ read' = read /\ queued' \in BOOLEAN
<1>1. queued' = (queued \/ again)
  BY DEF Return
<1>2. queued' \in BOOLEAN
  BY <1>1, Zenon DEF TypeOK
<1> QED  BY <1>2 DEF Return

LEMMA FinishOutcome ==
  ASSUME TypeOK, NEW w \in Objects, Finish(w)
  PROVE  /\ pc' = "status" /\ read' = read /\ queued' \in BOOLEAN
         /\ Alike(work', w) /\ work'.status.complete = w.status.complete
<1>1. \A p \in {"Ready", "Progressing", "Failed"} : p \in Phases
  BY DEF Phases
<1>2. PICK p \in {"Ready", "Progressing", "Failed"}, again \in BOOLEAN : Return(Phase(w, p), again)
  BY DEF Finish
<1>3. Alike(Phase(w, p), w) /\ Phase(w, p).status.complete = w.status.complete
  BY <1>1, AlikePhase
<1>4. Phase(w, p) \in Objects
  BY <1>3 DEF Alike
<1> QED  BY <1>2, <1>3, <1>4, ReturnOutcome

LEMMA AfterLifecycleOutcome ==
  ASSUME TypeOK, NEW w \in Objects, NEW again \in BOOLEAN, AfterLifecycle(w, again),
         again \/ w.status.job.state \in {"succeeded", "failed"}
  PROVE  /\ pc' = "status" /\ read' = read /\ queued' \in BOOLEAN
         /\ Alike(work', w) /\ ReadyFor(work', w)
<1>1. kind \in {"instance", "pool"} /\ Alike(w, w)
  BY DEF TypeOK, Alike
<1>2. CASE kind = "pool" /\ again
  BY <1>1, <1>2, ReturnOutcome DEF AfterLifecycle, ReadyFor
<1>3. CASE kind = "pool" /\ ~again
  BY <1>3, FinishOutcome DEF AfterLifecycle, ReadyFor
<1>4. CASE kind = "instance" /\ again
  <2>1. PICK v : /\ v = [w EXCEPT !.status.phase = "Progressing",
                                  !.status.complete = IF @ = "TemplateFailed" THEN @
                                                                      ELSE "Progressing"]
                 /\ Return(v, TRUE)
    BY <1>4 DEF AfterLifecycle
  <2>2. /\ Alike(v, w) /\ v.status.phase = "Progressing"
        /\ v.status.complete = IF w.status.complete = "TemplateFailed" THEN "TemplateFailed"
                                                                       ELSE "Progressing"
    BY <2>1 DEF Alike, Objects, Statuses, Phases, Conditions
  <2>3. v \in Objects
    BY <2>2 DEF Alike
  <2> QED  BY <2>1, <2>2, <2>3, ReturnOutcome DEF ReadyFor, EndTold, Alike
<1>5. CASE kind = "instance" /\ ~again
  <2>1. CASE w.status.complete \in {"absent", "True"} /\ Finish(w)
    BY <1>5, <2>1, FinishOutcome DEF ReadyFor, EndTold, Alike
  <2>2. CASE Return(Phase(w, "Failed"), FALSE)
    <3>1. /\ Alike(Phase(w, "Failed"), w) /\ Phase(w, "Failed").status.phase = "Failed"
          /\ Phase(w, "Failed").status.complete = w.status.complete
      BY AlikePhase DEF Phases
    <3>2. Phase(w, "Failed") \in Objects
      BY <3>1 DEF Alike
    <3> QED  BY <2>2, <3>1, <3>2, ReturnOutcome DEF ReadyFor, EndTold, Alike
  <2> QED  BY <1>5, <2>1, <2>2 DEF AfterLifecycle
<1> QED  BY <1>1, <1>2, <1>3, <1>4, <1>5

LEMMA ProvisionOutcome ==
  ASSUME TypeOK, NEW w \in Objects, Provision(w)
  PROVE  /\ pc' \in {"poll", "check", "status"} /\ read' = read /\ queued' \in BOOLEAN
         /\ Alike(work', w)
         /\ pc' # "status" => work' = w
         /\ pc' = "status" => ReadyFor(work', w)
<1>1. Alike(w, w)
  BY DEF Alike
<1>2. CASE Call("poll", w) \/ Call("check", w)
  BY <1>1, <1>2 DEF Call, TypeOK
<1>3. CASE ~HasTemplate(w) /\ Finish(w)
  <2>1. HasTemplate(work') = HasTemplate(w)
    BY <1>3, FinishOutcome DEF HasTemplate, Alike
  <2> QED  BY <1>3, <2>1, FinishOutcome DEF ReadyFor, EndTold, Alike
<1>4. CASE \E again \in BOOLEAN : /\ w.status.job.state \in {"succeeded", "failed"}
                                  /\ AfterLifecycle(w, again)
  BY <1>4, AfterLifecycleOutcome
<1> QED  BY <1>2, <1>3, <1>4 DEF Provision, Lifecycle

-----------------------------------------------------------------------------
(***************************************************************************)
(* Type correctness.                                                       *)
(***************************************************************************)
LEMMA InitType ==
  ASSUME Init
  PROVE  TypeOK
<1>1. FirstTemplate \in Specs
  BY TemplatesAssumption DEF FirstTemplate, Specs
<1>2. obj \in Objects
  BY <1>1, BlankType DEF Init, Objects, Blank
<1>3. jobs \in [Jobs -> [type : JobTypes, state : JobStates]]
  BY DEF Init, IdleJob, JobTypes, JobStates
<1>4. edits \in 0..MaxEdits /\ faults \in 0..MaxFaults
  BY BoundsAssumption DEF Init
<1>5. /\ kind \in {"instance", "pool"} /\ provider \in BOOLEAN
      /\ registered \in {"template", "noop", "missing"}
      /\ seen \in Objects /\ work \in Objects /\ read \in Statuses /\ pc \in PCs
      /\ synced \in BOOLEAN /\ queued \in BOOLEAN /\ fresh \in BOOLEAN /\ owed \in BOOLEAN
  BY <1>2, BlankType DEF Init, PCs
<1> QED  BY <1>2, <1>3, <1>4, <1>5 DEF TypeOK

\* Users, the informer and the process.
LEMMA UserType ==
  ASSUME TypeOK, Delete \/ \E s \in Specs : Edit(s)
  PROVE  TypeOK'
<1>1. CASE Delete
  <2>1. obj' \in Objects
    BY <1>1 DEF Delete, Store, TypeOK, Objects
  <2> QED  BY <1>1, <2>1 DEF Delete, Store, TypeOK, cluster, bounds
<1>2. ASSUME NEW s \in Specs, Edit(s)
      PROVE  TypeOK'
  <2>1. obj' \in Objects
    BY <1>2, ObjectType DEF Edit, Store, TypeOK
  <2>2. edits' \in 0..MaxEdits
    BY <1>2, BoundsAssumption DEF Edit, TypeOK
  <2> QED  BY <1>2, <2>1, <2>2 DEF Edit, Store, TypeOK, cluster
<1> QED  BY <1>1, <1>2

LEMMA ProcessType ==
  ASSUME TypeOK, Sync \/ Restart \/ Reconcile
  PROVE  TypeOK'
<1>1. CASE Sync
  BY <1>1 DEF Sync, TypeOK, cluster, bounds
<1>2. CASE Restart
  <2>1. faults' \in 0..MaxFaults
    BY <1>2, FaultType DEF Restart
  <2>2. registered' \in {"template", "noop", "missing"}
    BY <1>2 DEF Restart
  <2>3. queued' \in BOOLEAN
    BY <1>2, Zenon DEF Restart
  <2> QED  BY <1>2, <2>1, <2>2, <2>3, BlankType DEF Restart, TypeOK, PCs
<1>3. CASE Reconcile
  <2>1. seen.status \in Statuses
    BY ObjectType DEF TypeOK
  <2> QED  BY <1>3, <2>1 DEF Reconcile, TypeOK, PCs, cluster, bounds
<1> QED  BY <1>1, <1>2, <1>3

LEMMA JobEndsType ==
  ASSUME TypeOK, NEW id \in Jobs, JobEnds(id)
  PROVE  TypeOK'
<1>1. PICK s \in {"succeeded", "failed"} :
        /\ jobs' = [jobs EXCEPT ![id] = IF Known(id) THEN [@ EXCEPT !.state = s] ELSE IdleJob]
        /\ owed' = (owed /\ ~(jobs[id].type = "deprovision" /\ s = "succeeded"))
  BY DEF JobEnds
<1>2. IdleJob \in [type : JobTypes, state : JobStates]
  BY DEF IdleJob, JobTypes, JobStates
<1>3. [jobs[id] EXCEPT !.state = s] \in [type : JobTypes, state : JobStates]
  BY DEF TypeOK, JobStates
<1>4. jobs' \in [Jobs -> [type : JobTypes, state : JobStates]]
  BY <1>1, <1>2, <1>3 DEF TypeOK
<1>5. owed' \in BOOLEAN
  BY <1>1, Zenon DEF TypeOK
<1> QED  BY <1>4, <1>5 DEF JobEnds, TypeOK, cluster, memory, bounds

\* Steps of a handler that only change the copy, and perhaps what is owed.
LEMMA HandlerType ==
  ASSUME TypeOK, work' \in Objects, pc' \in PCs, queued' \in BOOLEAN, read' = read,
         jobs' \in [Jobs -> [type : JobTypes, state : JobStates]], owed' \in BOOLEAN,
         obj' \in Objects, synced' \in BOOLEAN, faults' \in 0..MaxFaults,
         UNCHANGED <<cluster, seen, fresh, edits>>
  PROVE  TypeOK'
BY DEF TypeOK, cluster

LEMMA HandleUpdateType ==
  ASSUME TypeOK, HandleUpdate
  PROVE  TypeOK'
<1>1. UNCHANGED <<cluster, obj, seen, synced, fresh, jobs, owed, bounds>>
  BY DEF HandleUpdate
<1>2. work' \in Objects /\ pc' \in PCs /\ queued' \in BOOLEAN /\ read' = read
  <2>1. work \in Objects /\ work.status.complete \in Conditions
    BY ObjectType DEF TypeOK
  <2>2. CASE Call("addFinalizer", [WithVersion(work) EXCEPT !.fin = TRUE])
    <3>1. WithVersion(work) \in Objects
      BY <2>1, VersionOutcome DEF Alike
    <3> QED  BY <2>2, <3>1, ObjectType DEF Call, PCs, TypeOK
  <2>3. CASE Provision(WithVersion(work))
    <3>1. WithVersion(work) \in Objects
      BY <2>1, VersionOutcome DEF Alike
    <3> QED  BY <2>3, <3>1, ProvisionOutcome DEF Alike, PCs
  <2>4. ASSUME NEW w \in {work, WithVersion(work)}, Return(Phase(w, "Failed"), FALSE)
        PROVE  work' \in Objects /\ pc' \in PCs /\ queued' \in BOOLEAN /\ read' = read
    <3>1. w \in Objects
      BY <2>1, VersionOutcome DEF Alike
    <3>2. Phase(w, "Failed") \in Objects
      BY <3>1, StatusType DEF Phase, Phases
    <3> QED  BY <2>4, <3>2, ReturnOutcome DEF PCs
  <2>5. CASE Return([work EXCEPT !.status.phase = "Failed",
                                 !.status.complete = "TemplateFailed"], FALSE)
    <3>1. [work EXCEPT !.status.phase = "Failed", !.status.complete = "TemplateFailed"]
            \in Objects
      BY <2>1 DEF Objects, Statuses, Phases, Conditions
    <3> QED  BY <2>5, <3>1, ReturnOutcome DEF PCs
  <2> QED  BY <2>2, <2>3, <2>4, <2>5 DEF HandleUpdate
<1> QED  BY <1>1, <1>2, HandlerType DEF TypeOK, bounds

LEMMA AddFinalizerType ==
  ASSUME TypeOK, AddFinalizer
  PROVE  TypeOK'
<1>1. work \in Objects /\ obj' \in Objects /\ synced' \in BOOLEAN
  BY ObjectType DEF TypeOK, AddFinalizer, Store
<1>2. work' \in Objects /\ pc' \in PCs /\ queued' \in BOOLEAN /\ read' = read
  <2>1. CASE Provision(Answer(work))
    <3>1. Answer(work) \in Objects
      BY <1>1, VersionOutcome DEF Alike
    <3> QED  BY <2>1, <3>1, ProvisionOutcome DEF Alike, PCs
  <2>2. CASE Return(Phase(work, "Progressing"), FALSE)
    <3>1. Phase(work, "Progressing") \in Objects
      BY <1>1, StatusType DEF Phase, Phases
    <3> QED  BY <2>2, <3>1, ReturnOutcome DEF PCs
  <2> QED  BY <2>1, <2>2 DEF AddFinalizer
<1> QED  BY <1>1, <1>2, HandlerType DEF TypeOK, AddFinalizer, bounds

\* A poll leaves all of the copy alone but its job, phase and condition.
LEMMA PollOutcome ==
  ASSUME TypeOK, Poll
  PROVE  /\ pc' = "status" /\ read' = read /\ queued' \in BOOLEAN /\ work' \in Objects
         /\ work'.live = work.live /\ work'.fin = work.fin /\ work'.spec = work.spec
         /\ work'.status.undo = work.status.undo
         /\ ReadyFor(work', work)
<1> DEFINE state == jobs[work.status.job.id].state
           ended(s) == [work EXCEPT !.status.job.state = s, !.status.job.id = NoJob]
<1>1. work \in Objects /\ work.status.complete \in Conditions
  BY ObjectType DEF TypeOK
<1>2. CASE state = "running" /\ AfterLifecycle(work, TRUE)
  BY <1>1, <1>2, AfterLifecycleOutcome DEF Alike
<1>3. ASSUME NEW v \in Objects, NEW again \in BOOLEAN, AfterLifecycle(v, again),
             v.live = work.live, v.fin = work.fin, v.spec = work.spec,
             v.status.undo = work.status.undo,
             v.status.job.state \in {"succeeded", "failed"},
             kind = "instance" => EndTold(v)
      PROVE  /\ pc' = "status" /\ read' = read /\ queued' \in BOOLEAN /\ work' \in Objects
             /\ work'.live = work.live /\ work'.fin = work.fin /\ work'.spec = work.spec
             /\ work'.status.undo = work.status.undo
             /\ ReadyFor(work', work)
  BY <1>3, AfterLifecycleOutcome DEF Alike, ReadyFor
<1>4. CASE /\ state = "succeeded"
           /\ AfterLifecycle([ended(state) EXCEPT !.status.complete =
                                IF kind = "instance" THEN "True" ELSE @], FALSE)
  <2>1. PICK v : v = [ended("succeeded") EXCEPT !.status.complete =
                        IF kind = "instance" THEN "True" ELSE work.status.complete]
    OBVIOUS
  <2>2. /\ v \in Objects
        /\ v.live = work.live /\ v.fin = work.fin /\ v.spec = work.spec
        /\ v.status.undo = work.status.undo
        /\ v.status.job.state = "succeeded"
        /\ kind = "instance" => v.status.complete = "True"
    BY <1>1, <2>1 DEF Objects, Statuses, Records, JobStates, Conditions
  <2>3. AfterLifecycle(v, FALSE)
    BY <1>4, <2>1
  <2> QED  BY <1>3, <2>2, <2>3 DEF EndTold
<1>5. ASSUME NEW again \in BOOLEAN, state = "failed",
             AfterLifecycle([ended(state) EXCEPT !.status.phase = "Failed",
                                                 !.status.complete =
                               IF kind = "instance" THEN "TemplateFailed" ELSE @], again)
      PROVE  /\ pc' = "status" /\ read' = read /\ queued' \in BOOLEAN /\ work' \in Objects
             /\ work'.live = work.live /\ work'.fin = work.fin /\ work'.spec = work.spec
             /\ work'.status.undo = work.status.undo
             /\ ReadyFor(work', work)
  <2>1. PICK v : v = [ended("failed") EXCEPT !.status.phase = "Failed", !.status.complete =
                        IF kind = "instance" THEN "TemplateFailed" ELSE work.status.complete]
    OBVIOUS
  <2>2. /\ v \in Objects
        /\ v.live = work.live /\ v.fin = work.fin /\ v.spec = work.spec
        /\ v.status.undo = work.status.undo
        /\ v.status.job.state = "failed"
        /\ kind = "instance" => v.status.complete = "TemplateFailed"
    BY <1>1, <2>1 DEF Objects, Statuses, Records, JobStates, Conditions, Phases
  <2>3. AfterLifecycle(v, again)
    BY <1>5, <2>1
  <2> QED  BY <1>3, <2>2, <2>3 DEF EndTold
<1> QED  BY <1>2, <1>4, <1>5 DEF Poll

LEMMA LifecycleType ==
  ASSUME TypeOK, Poll \/ CheckRunning \/ TriggerProvision \/ Flush
  PROVE  TypeOK'
<1>1. work \in Objects
  BY DEF TypeOK
<1>2. CASE Poll
  BY <1>2, PollOutcome, HandlerType DEF Poll, TypeOK, PCs, bounds
<1>3. CASE CheckRunning
  <2>1. CASE AfterLifecycle(work, TRUE)
    BY <1>1, <1>3, <2>1, AfterLifecycleOutcome, HandlerType
       DEF CheckRunning, TypeOK, PCs, bounds, Alike
  <2>2. CASE Call("trigger", work)
    BY <1>3, <2>2, HandlerType DEF CheckRunning, Call, TypeOK, PCs, bounds
  <2> QED  BY <1>3, <2>1, <2>2 DEF CheckRunning
<1>4. CASE TriggerProvision
  <2>1. jobs' \in [Jobs -> [type : JobTypes, state : JobStates]]
    BY <1>4, StartType, NextJobUnused, "provision" \in JobTypes DEF TriggerProvision, JobTypes
  <2>2. [work EXCEPT !.status.job = RunningJob] \in Objects
    BY <1>1, <1>4, RunningJobType, StatusType DEF TriggerProvision
  <2> QED  BY <1>4, <2>1, <2>2, HandlerType DEF TriggerProvision, Call, TypeOK, PCs, bounds
<1>5. CASE Flush
  <2>1. obj' \in Objects /\ synced' \in BOOLEAN
    BY <1>1, <1>5, ObjectType DEF Flush, Store, TypeOK
  <2> QED
    BY <1>1, <1>5, <2>1, AfterLifecycleOutcome, HandlerType DEF Flush, TypeOK, PCs, bounds, Alike
<1> QED  BY <1>2, <1>3, <1>4, <1>5

\* What giving the object up, in memory, makes of a copy.
LEMMA ReleaseOutcome ==
  ASSUME TypeOK, NEW w \in Objects, Release(w)
  PROVE  /\ pc' = "dropFinalizer" /\ read' = read /\ queued' \in BOOLEAN /\ work' \in Objects
         /\ work'.live = w.live /\ work'.spec = w.spec /\ work'.status = w.status
BY ObjectType DEF Release, Call, Objects, TypeOK

\* A deletion works on: what its copy is in each step.
LEMMA HandleDeletionOutcome ==
  ASSUME TypeOK, HandleDeletion
  PROVE  /\ pc' \in {"dropFinalizer", "status", "undoPoll", "undoTrigger"}
         /\ read' = read /\ queued' \in BOOLEAN /\ work' \in Objects
         /\ work'.live = work.live /\ work'.spec = work.spec
         /\ work'.status.job = work.status.job /\ work'.status.undo = work.status.undo
         /\ work'.status.complete = work.status.complete
         /\ work'.status.phase # "Ready"
         /\ pc' = "dropFinalizer" => ~HasTemplate(work) \/ work.status.undo.state = "succeeded"
         /\ pc' = "undoPoll" => work.status.undo.state = "running"
<1> DEFINE w == Phase(work, "Deleting")
<1>1. work \in Objects /\ "Deleting" \in Phases /\ "Failed" \in Phases
  BY DEF TypeOK, Phases
<1>2. /\ Alike(w, work) /\ w \in Objects /\ w.status.phase = "Deleting"
      /\ w.status.complete = work.status.complete
  BY <1>1, AlikePhase DEF Alike
<1>3. HasTemplate(w) = HasTemplate(work)
  BY <1>2 DEF HasTemplate, Alike
<1>4. CASE Release(w) /\ (~HasTemplate(w) \/ w.status.undo.state = "succeeded")
  BY <1>2, <1>3, <1>4, ReleaseOutcome DEF Alike
<1>5. CASE Return(Phase(w, "Failed"), FALSE)
  <2>1. /\ Alike(Phase(w, "Failed"), w) /\ Phase(w, "Failed").status.phase = "Failed"
        /\ Phase(w, "Failed").status.complete = w.status.complete
    BY <1>1, <1>2, AlikePhase
  <2>2. Phase(w, "Failed") \in Objects
    BY <2>1 DEF Alike
  <2> QED  BY <1>2, <1>5, <2>1, <2>2, ReturnOutcome DEF Alike
<1>6. CASE Call("undoPoll", w) /\ w.status.undo.state = "running"
  BY <1>2, <1>6 DEF Call, Alike, TypeOK
<1>7. CASE Call("undoTrigger", w)
  BY <1>2, <1>7 DEF Call, Alike, TypeOK
<1> QED  BY <1>4, <1>5, <1>6, <1>7 DEF HandleDeletion

LEMMA TriggerDeprovisionOutcome ==
  ASSUME TypeOK, TriggerDeprovision
  PROVE  /\ read' = read /\ queued' \in BOOLEAN /\ work' \in Objects
         /\ work'.live = work.live /\ work'.spec = work.spec
         /\ work'.status.job = work.status.job /\ work'.status.phase = work.status.phase
         /\ work'.status.complete = work.status.complete
         /\ \/ /\ pc' = "status" /\ IdLeft /\ Start(NextJob, "deprovision")
               /\ work'.status.undo = RunningJob
            \/ /\ pc' = "dropFinalizer" /\ ~owed /\ UNCHANGED jobs
               /\ work'.status.undo = work.status.undo
<1>1. work \in Objects
  BY DEF TypeOK
<1>2. CASE /\ IdLeft /\ Start(NextJob, "deprovision")
           /\ Return([work EXCEPT !.status.undo = RunningJob], TRUE)
  <2>1. PICK v : v = [work EXCEPT !.status.undo = RunningJob]
    OBVIOUS
  <2>2. /\ v \in Objects /\ v.live = work.live /\ v.spec = work.spec
        /\ v.status.job = work.status.job /\ v.status.phase = work.status.phase
        /\ v.status.complete = work.status.complete /\ v.status.undo = RunningJob
    BY <1>1, <1>2, <2>1, RunningJobType, StatusType DEF Objects, Statuses
  <2>3. Return(v, TRUE)
    BY <1>2, <2>1
  <2> QED  BY <1>2, <2>2, <2>3, ReturnOutcome
<1>3. CASE ~owed /\ Release(work) /\ UNCHANGED jobs
  BY <1>1, <1>3, ReleaseOutcome
<1> QED  BY <1>2, <1>3 DEF TriggerDeprovision

LEMMA PollDeprovisionOutcome ==
  ASSUME TypeOK, PollDeprovision
  PROVE  /\ pc' \in {"status", "dropFinalizer"}
         /\ read' = read /\ queued' \in BOOLEAN /\ work' \in Objects
         /\ work'.live = work.live /\ work'.spec = work.spec
         /\ work'.status.job = work.status.job /\ work'.status.phase = work.status.phase
         /\ work'.status.complete = work.status.complete
         /\ \/ /\ pc' = "status" /\ work' = work /\ UNCHANGED owed
            \/ /\ pc' = "status" /\ work'.status.undo.state = "failed" /\ UNCHANGED owed
            \/ /\ pc' = "dropFinalizer" /\ work'.status.undo.state = "succeeded"
               /\ jobs[work.status.undo.id].state = "succeeded" /\ UNCHANGED owed
            \/ /\ pc' = "dropFinalizer" /\ work'.status.undo.state = "failed" /\ owed' = FALSE
<1> DEFINE state == jobs[work.status.undo.id].state
           ended(s) == [work EXCEPT !.status.undo.state = s, !.status.undo.id = NoJob]
<1>1. work \in Objects
  BY DEF TypeOK
<1>2. ASSUME NEW s \in {"succeeded", "failed"}
      PROVE  /\ ended(s) \in Objects /\ ended(s).live = work.live /\ ended(s).spec = work.spec
             /\ ended(s).status.job = work.status.job
             /\ ended(s).status.phase = work.status.phase
             /\ ended(s).status.complete = work.status.complete
             /\ ended(s).status.undo.state = s
  BY <1>1 DEF Objects, Statuses, Records, JobStates
<1>3. CASE Return(work, TRUE) /\ UNCHANGED owed
  BY <1>1, <1>3, ReturnOutcome
<1>4. ASSUME NEW s \in {"succeeded", "failed"}, state = s, Release(ended(state)),
             (s = "succeeded" /\ UNCHANGED owed) \/ (s = "failed" /\ owed' = FALSE)
      PROVE  /\ read' = read /\ queued' \in BOOLEAN /\ work' \in Objects
             /\ work'.live = work.live /\ work'.spec = work.spec
             /\ work'.status.job = work.status.job /\ work'.status.phase = work.status.phase
             /\ work'.status.complete = work.status.complete
             /\ pc' = "dropFinalizer" /\ work'.status.undo.state = s
  <2>1. PICK v : v = ended(s)
    OBVIOUS
  <2>2. Release(v)
    BY <1>4, <2>1
  <2>3. v \in Objects
    BY <1>2, <2>1
  <2>4. work'.live = v.live /\ work'.spec = v.spec /\ work'.status = v.status
    BY <2>2, <2>3, ReleaseOutcome
  <2> QED  BY <1>2, <2>1, <2>2, <2>3, <2>4, ReleaseOutcome
<1>5. CASE state = "failed" /\ Return(ended(state), TRUE) /\ UNCHANGED owed
  <2>1. PICK v : v = ended("failed")
    OBVIOUS
  <2>2. Return(v, TRUE)
    BY <1>5, <2>1
  <2> QED  BY <1>2, <1>5, <2>1, <2>2, ReturnOutcome
<1> QED  BY <1>3, <1>4, <1>5 DEF PollDeprovision

LEMMA DeletionType ==
  ASSUME TypeOK, HandleDeletion \/ TriggerDeprovision \/ PollDeprovision \/ DropFinalizer
  PROVE  TypeOK'
<1>1. CASE HandleDeletion
  BY <1>1, HandleDeletionOutcome, HandlerType DEF HandleDeletion, TypeOK, PCs, bounds
<1>2. CASE TriggerDeprovision
  <2>1. jobs' \in [Jobs -> [type : JobTypes, state : JobStates]]
    BY <1>2, TriggerDeprovisionOutcome, StartType, NextJobUnused DEF JobTypes, TypeOK
  <2> QED
    BY <1>2, <2>1, TriggerDeprovisionOutcome, HandlerType DEF TriggerDeprovision, TypeOK, PCs, bounds
<1>3. CASE PollDeprovision
  <2>1. faults' \in 0..MaxFaults /\ owed' \in BOOLEAN
    BY <1>3, FaultType DEF PollDeprovision, TypeOK
  <2> QED  BY <1>3, <2>1, PollDeprovisionOutcome, HandlerType DEF PollDeprovision, TypeOK, PCs
<1>4. CASE DropFinalizer
  <2>1. obj' \in Objects /\ synced' \in BOOLEAN /\ work \in Objects
    BY <1>4 DEF DropFinalizer, Store, TypeOK, Objects
  <2> QED  BY <1>4, <2>1, ReturnOutcome, HandlerType DEF DropFinalizer, TypeOK, PCs, bounds
<1> QED  BY <1>1, <1>2, <1>3, <1>4

\* An error leaves the copy as it is, or makes it Failed.
LEMMA ErroredOutcome ==
  ASSUME TypeOK
  PROVE  /\ Alike(Errored(work), work) /\ Errored(work) \in Objects
         /\ Errored(work).status.complete = work.status.complete
         /\ Errored(work).status.phase \in {work.status.phase, "Failed"}
<1>1. work \in Objects /\ "Failed" \in Phases
  BY DEF TypeOK, Phases
<1>2. Alike(work, work)
  BY <1>1 DEF Alike
<1> QED  BY <1>1, <1>2, AlikePhase DEF Errored, Alike

LEMMA FailureType ==
  ASSUME TypeOK, CallFails \/ JobLost
  PROVE  TypeOK'
<1>1. /\ work' = Errored(work) /\ pc' = "status" /\ read' = read /\ queued' \in BOOLEAN
  BY ErroredOutcome, ReturnOutcome DEF CallFails, JobLost
<1>2. faults' \in 0..MaxFaults
  BY FaultType DEF CallFails, JobLost, TypeOK
<1>3. jobs' \in [Jobs -> [type : JobTypes, state : JobStates]]
  <2>1. CASE CallFails
    BY <2>1 DEF CallFails, TypeOK
  <2>2. CASE JobLost
    BY <2>2, StartType, NextJobUnused DEF JobLost, JobTypes
  <2> QED  BY <2>1, <2>2
<1>4. owed' \in BOOLEAN
  <2>1. owed' = owed \/ owed' = (owed \/ pc = "trigger")
    BY DEF CallFails, JobLost
  <2> QED  BY <2>1, Zenon DEF TypeOK
<1> QED
  BY <1>1, <1>2, <1>3, <1>4, ErroredOutcome, HandlerType DEF CallFails, JobLost, TypeOK, PCs

LEMMA WriteType ==
  ASSUME TypeOK, WriteStatus
  PROVE  TypeOK'
<1>1. obj' \in Objects
  <2>1. obj \in Objects /\ work.status \in Statuses
    BY ObjectType DEF TypeOK
  <2>2. obj' = obj \/ obj' = [obj EXCEPT !.status = work.status]
    BY DEF WriteStatus, Store
  <2> QED  BY <2>1, <2>2, ObjectType
<1>2. faults' \in 0..MaxFaults /\ queued' \in BOOLEAN /\ synced' \in BOOLEAN
  BY FaultType DEF TypeOK, WriteStatus, Store
<1> QED  BY <1>1, <1>2, BlankType DEF WriteStatus, TypeOK, PCs, cluster

LEMMA NextType == TypeOK /\ [Next]_vars => TypeOK'
<1>1. ASSUME TypeOK, Step
      PROVE  TypeOK'
  BY <1>1, HandleUpdateType, AddFinalizerType, LifecycleType, DeletionType, FailureType, WriteType
     DEF Step
<1>2. ASSUME TypeOK, UNCHANGED vars
      PROVE  TypeOK'
  BY <1>2 DEF TypeOK, vars, cluster, memory, bounds
<1> QED  BY <1>1, <1>2, UserType, ProcessType, JobEndsType DEF Next

\* Every variable always has its type: the statuses written have the phases,
\* conditions and jobs of the API (api/v1alpha1).
THEOREM TypeCorrect == Spec => []TypeOK
<1>1. Init => TypeOK
  BY InitType
<1> QED  BY <1>1, NextType, PTL DEF Spec

-----------------------------------------------------------------------------
(***************************************************************************)
(* What keeps each part of the invariant in a step of a handler.           *)
(***************************************************************************)
LEMMA CopiesKept ==
  ASSUME CopiesFollow,
         obj'.live \in {obj.live, "gone"}, obj'.spec = obj.spec,
         synced' = FALSE \/ UNCHANGED <<obj, synced>>,
         UNCHANGED <<seen, fresh>>,
         work'.live = work.live, work'.spec = work.spec,
         pc # "idle", pc' # "idle",
         pc' \in {"addFinalizer", "poll", "check", "trigger", "flush"} => work.live = "present",
         pc' \in {"undoTrigger", "undoPoll", "dropFinalizer"} => work.live = "deleting"
  PROVE  CopiesFollow'
BY DEF CopiesFollow

LEMMA FinalizerStays ==
  ASSUME FinalizerKept, obj.fin => obj'.fin, UNCHANGED seen, pc' # "handle",
         pc' \in {"poll", "check", "trigger", "flush"} => obj'.fin
  PROVE  FinalizerKept'
BY DEF FinalizerKept

LEMMA NothingUndoneKept ==
  ASSUME NothingUndone, UNCHANGED seen, work'.live = work.live,
         NotUndone(obj) => NotUndone(obj'),
         work.live = "present" => work'.status.undo = work.status.undo
  PROVE  NothingUndone'
BY DEF NothingUndone, NotUndone

LEMMA UndoingKept ==
  ASSUME Undoing, UNCHANGED <<kind, registered, seen, jobs, owed>>,
         obj'.spec = obj.spec, obj'.status.undo \in {obj.status.undo, work.status.undo},
         work'.status.undo = work.status.undo,
         pc' = "undoPoll" => work.status.undo.state = "running",
         pc' = "dropFinalizer" => ~owed \/ ~HasTemplate(obj)
  PROVE  Undoing'
BY DEF Undoing, UndoRecorded, HasTemplate

LEMMA ReadinessKept ==
  ASSUME Readiness, UNCHANGED <<kind, registered, obj, seen, fresh>>,
         pc \notin {"idle", "status"},
         \/ pc' = "status" /\ ReadyFor(work', work)
         \/ /\ work'.status.complete = work.status.complete
            /\ work'.status.job = work.status.job
            /\ work'.status.phase = "Ready" => work.status.phase = "Ready"
  PROVE  Readiness'
BY DEF Readiness, EndTold, MayBeReady, ReadyFor, HasTemplate

-----------------------------------------------------------------------------
(***************************************************************************)
(* The steps of handleUpdate.                                              *)
(***************************************************************************)
LEMMA HandleUpdateOutcome ==
  ASSUME TypeOK, HandleUpdate
  PROVE  /\ pc' \in {"addFinalizer", "poll", "check", "status"}
         /\ work'.live = work.live /\ work'.spec = work.spec
         /\ work'.status.job = work.status.job /\ work'.status.undo = work.status.undo
         /\ pc' \in {"poll", "check"} => work.fin
         /\ pc' = "status" => ReadyFor(work', work)
         /\ pc' # "status" => /\ work'.status.phase = work.status.phase
                              /\ work'.status.complete = work.status.complete
<1>1. /\ work \in Objects /\ "Failed" \in Phases
      /\ \A w \in {work, WithVersion(work)} : /\ Alike(w, work)
                                             /\ w.status.phase = work.status.phase
                                             /\ w.status.complete = work.status.complete
  BY VersionOutcome DEF TypeOK, Phases
<1>2. CASE Call("addFinalizer", [WithVersion(work) EXCEPT !.fin = TRUE])
  BY <1>1, <1>2 DEF Call, Alike, Objects
<1>3. CASE Provision(WithVersion(work)) /\ work.fin
  <2>1. ReadyFor(work', WithVersion(work)) => ReadyFor(work', work)
    BY <1>1 DEF ReadyFor, EndTold, Alike
  <2> QED  BY <1>1, <1>3, <2>1, ProvisionOutcome DEF Alike
<1>4. ASSUME NEW w \in {work, WithVersion(work)}, Return(Phase(w, "Failed"), FALSE)
      PROVE  /\ pc' = "status" /\ Alike(work', work) /\ ReadyFor(work', work)
  <2>1. w \in Objects /\ Alike(w, work) /\ w.status.complete = work.status.complete
    BY <1>1 DEF Alike
  <2>2. /\ Alike(Phase(w, "Failed"), w) /\ Phase(w, "Failed").status.phase = "Failed"
        /\ Phase(w, "Failed").status.complete = w.status.complete
    BY <1>1, <2>1, AlikePhase
  <2>3. work' = Phase(w, "Failed") /\ pc' = "status"
    BY <1>4 DEF Return
  <2> QED  BY <2>1, <2>2, <2>3 DEF ReadyFor, EndTold, Alike
<1>5. CASE Return([work EXCEPT !.status.phase = "Failed",
                               !.status.complete = "TemplateFailed"], FALSE)
  <2>1. /\ work' = [work EXCEPT !.status.phase = "Failed",
                               !.status.complete = "TemplateFailed"]
        /\ pc' = "status"
    BY <1>5 DEF Return
  <2>2. /\ work'.live = work.live /\ work'.spec = work.spec
        /\ work'.status.job = work.status.job /\ work'.status.undo = work.status.undo
        /\ work'.status.phase = "Failed" /\ work'.status.complete = "TemplateFailed"
    BY <1>1, <2>1 DEF Objects, Statuses
  <2> QED  BY <2>1, <2>2 DEF ReadyFor, EndTold
<1> QED  BY <1>2, <1>3, <1>4, <1>5 DEF HandleUpdate, Alike

LEMMA HandleUpdateKeeps ==
  ASSUME IInv, HandleUpdate
  PROVE  JobsInv'
<1>1. /\ UNCHANGED <<kind, registered, obj, seen, synced, fresh, jobs, owed>>
      /\ pc = "handle" /\ work.live = "present"
  BY DEF HandleUpdate, cluster
<1>2. TypeOK /\ CopiesFollow /\ FinalizerKept /\ NothingUndone /\ Undoing /\ Readiness
  BY DEF IInv, JobsInv
<1>3. CopiesFollow'
  BY <1>1, <1>2, HandleUpdateOutcome, CopiesKept
<1>4. FinalizerKept'
  BY <1>1, <1>2, HandleUpdateOutcome, FinalizerStays DEF FinalizerKept
<1>5. NothingUndone'
  BY <1>1, <1>2, HandleUpdateOutcome, NothingUndoneKept
<1>6. Undoing'
  BY <1>1, <1>2, HandleUpdateOutcome, UndoingKept
<1>7. Readiness'
  BY <1>1, <1>2, HandleUpdateOutcome, ReadinessKept
<1> QED  BY <1>3, <1>4, <1>5, <1>6, <1>7 DEF JobsInv

LEMMA AddFinalizerKeeps ==
  ASSUME IInv, AddFinalizer
  PROVE  JobsInv'
<1>1. /\ UNCHANGED <<kind, registered, seen, fresh, jobs, owed>> /\ synced' = FALSE
      /\ pc = "addFinalizer" /\ obj' = [obj EXCEPT !.fin = TRUE]
  BY DEF AddFinalizer, Store, cluster
<1>2. TypeOK /\ CopiesFollow /\ FinalizerKept /\ NothingUndone /\ Undoing /\ Readiness
  BY DEF IInv, JobsInv
<1>3. work.live = "present" /\ work \in Objects
  BY <1>1, <1>2 DEF CopiesFollow, TypeOK
<1>4. /\ obj'.live = obj.live /\ obj'.spec = obj.spec /\ obj'.fin
      /\ obj'.status = obj.status
  BY <1>1, <1>2 DEF TypeOK, Objects
<1>5. /\ pc' \in {"poll", "check", "status"}
      /\ work'.live = work.live /\ work'.spec = work.spec
      /\ work'.status.undo = work.status.undo
      /\ pc' = "status" => ReadyFor(work', work)
      /\ pc' # "status" => /\ work'.status.job = work.status.job
                           /\ work'.status.phase = work.status.phase
                           /\ work'.status.complete = work.status.complete
  <2>1. CASE Provision(Answer(work))
    <3>1. /\ Alike(Answer(work), work) /\ Answer(work).status.phase = work.status.phase
          /\ Answer(work).status.complete = work.status.complete
      BY <1>2, <1>3, VersionOutcome
    <3>2. ReadyFor(work', Answer(work)) => ReadyFor(work', work)
      BY <3>1 DEF ReadyFor, EndTold, Alike
    <3> QED  BY <1>2, <2>1, <3>1, <3>2, ProvisionOutcome DEF Alike
  <2>2. CASE Return(Phase(work, "Progressing"), FALSE)
    <3>1. /\ Alike(Phase(work, "Progressing"), work)
          /\ Phase(work, "Progressing").status.phase = "Progressing"
          /\ Phase(work, "Progressing").status.complete = work.status.complete
      BY <1>3, AlikePhase, "Progressing" \in Phases DEF Phases
    <3>2. work' = Phase(work, "Progressing") /\ pc' = "status"
      BY <2>2 DEF Return
    <3> QED  BY <3>1, <3>2 DEF ReadyFor, EndTold, Alike
  <2> QED  BY <2>1, <2>2 DEF AddFinalizer
<1>6. CopiesFollow'
  BY <1>1, <1>2, <1>3, <1>4, <1>5, CopiesKept
<1>7. FinalizerKept'
  BY <1>1, <1>2, <1>4, <1>5, FinalizerStays
<1>8. NothingUndone'
  BY <1>1, <1>2, <1>4, <1>5, NothingUndoneKept DEF NotUndone
<1>9. Undoing'
  BY <1>1, <1>2, <1>4, <1>5, UndoingKept
<1>10. Readiness'
  BY <1>1, <1>2, <1>4, <1>5 DEF Readiness, EndTold, MayBeReady, ReadyFor, HasTemplate
<1> QED  BY <1>6, <1>7, <1>8, <1>9, <1>10 DEF JobsInv

LEMMA PollKeeps ==
  ASSUME IInv, Poll \/ CheckRunning
  PROVE  JobsInv'
<1>1. /\ UNCHANGED <<kind, registered, obj, seen, synced, fresh, jobs, owed>>
      /\ pc \in {"poll", "check"}
  BY DEF Poll, CheckRunning, cluster
<1>2. TypeOK /\ CopiesFollow /\ FinalizerKept /\ NothingUndone /\ Undoing /\ Readiness
  BY DEF IInv, JobsInv
<1>3. work.live = "present" /\ work \in Objects /\ obj.fin
  BY <1>1, <1>2 DEF CopiesFollow, FinalizerKept, TypeOK
<1>4. /\ pc' \in {"trigger", "status"}
      /\ work'.live = work.live /\ work'.spec = work.spec
      /\ work'.status.undo = work.status.undo
      /\ pc' = "status" => ReadyFor(work', work)
      /\ pc' # "status" => work' = work
  <2>1. CASE Poll
    BY <1>2, <2>1, PollOutcome
  <2>2. CASE AfterLifecycle(work, TRUE)
    BY <1>2, <1>3, <2>2, AfterLifecycleOutcome DEF Alike
  <2>3. CASE Call("trigger", work)
    BY <2>3 DEF Call
  <2> QED  BY <2>1, <2>2, <2>3 DEF CheckRunning
<1>5. CopiesFollow'
  BY <1>1, <1>2, <1>3, <1>4, CopiesKept
<1>6. FinalizerKept'
  BY <1>1, <1>2, <1>3, <1>4, FinalizerStays
<1>7. NothingUndone'
  BY <1>1, <1>2, <1>4, NothingUndoneKept
<1>8. Undoing'
  BY <1>1, <1>2, <1>4, UndoingKept
<1>9. Readiness'
  BY <1>1, <1>2, <1>4, ReadinessKept
<1> QED  BY <1>5, <1>6, <1>7, <1>8, <1>9 DEF JobsInv

\* A job that starts is not one that a copy knows as its deprovision job.
LEMMA StartKeepsUndo ==
  ASSUME TypeOK, IdLeft, NEW type \in JobTypes, Start(NextJob, type),
         NEW o \in {obj, seen, work}, UndoRecorded(o), UNCHANGED owed \/ NotUndone(o)
  PROVE  LET undo == o.status.undo
         IN  /\ undo.state = "running" =>
                  /\ undo.id \in Jobs /\ jobs'[undo.id].type = "deprovision"
                  /\ jobs'[undo.id].state = "succeeded" => ~owed'
             /\ undo.state = "succeeded" => ~owed'
<1>1. NextJob # o.status.undo.id
  BY NextJobUnused DEF Known
<1>2. o.status.undo.id \in Jobs => jobs'[o.status.undo.id] = jobs[o.status.undo.id]
  BY <1>1 DEF Start, TypeOK
<1> QED  BY <1>2 DEF UndoRecorded, NotUndone

LEMMA TriggerProvisionKeeps ==
  ASSUME IInv, TriggerProvision
  PROVE  JobsInv'
<1>1. /\ UNCHANGED <<kind, registered, obj, seen, synced, fresh>>
      /\ pc = "trigger" /\ pc' = "flush" /\ work' = [work EXCEPT !.status.job = RunningJob]
      /\ IdLeft /\ Start(NextJob, "provision") /\ owed' = TRUE
  BY DEF TriggerProvision, Call, cluster
<1>2. TypeOK /\ CopiesFollow /\ FinalizerKept /\ NothingUndone /\ Undoing /\ Readiness
  BY DEF IInv, JobsInv
<1>3. /\ work.live = "present" /\ work \in Objects /\ obj.fin
      /\ NotUndone(obj) /\ NotUndone(seen) /\ NotUndone(work)
  BY <1>1, <1>2 DEF CopiesFollow, FinalizerKept, NothingUndone, TypeOK
<1>4. /\ work'.live = work.live /\ work'.spec = work.spec
      /\ work'.status.undo = work.status.undo
      /\ work'.status.phase = work.status.phase
      /\ work'.status.job.state = "running"
  BY <1>1, <1>3 DEF Objects, Statuses, RunningJob
<1>5. CopiesFollow'
  BY <1>1, <1>2, <1>3, <1>4, CopiesKept
<1>6. FinalizerKept'
  BY <1>1, <1>2, <1>3, FinalizerStays
<1>7. NothingUndone'
  BY <1>1, <1>2, <1>4, NothingUndoneKept
<1>8. Undoing'
  BY <1>1, <1>3, <1>4 DEF Undoing, UndoRecorded, NotUndone
<1>9. Readiness'
  BY <1>1, <1>2, <1>4 DEF Readiness, EndTold, MayBeReady
<1> QED  BY <1>5, <1>6, <1>7, <1>8, <1>9 DEF JobsInv

LEMMA FlushKeeps ==
  ASSUME IInv, Flush
  PROVE  JobsInv'
<1>1. /\ UNCHANGED <<kind, registered, seen, fresh, jobs, owed>> /\ synced' = FALSE
      /\ pc = "flush" /\ obj' = [obj EXCEPT !.status = work.status]
      /\ AfterLifecycle(work, TRUE)
  BY DEF Flush, Store, cluster
<1>2. TypeOK /\ CopiesFollow /\ FinalizerKept /\ NothingUndone /\ Undoing /\ Readiness
  BY DEF IInv, JobsInv
<1>3. work.live = "present" /\ work \in Objects /\ NotUndone(work)
  BY <1>1, <1>2 DEF CopiesFollow, NothingUndone, TypeOK
<1>4. /\ obj'.live = obj.live /\ obj'.spec = obj.spec /\ obj'.fin = obj.fin
      /\ obj'.status = work.status
  BY <1>1, <1>2 DEF TypeOK, Objects
<1>5. /\ pc' = "status" /\ work'.live = work.live /\ work'.spec = work.spec
      /\ work'.status.undo = work.status.undo /\ ReadyFor(work', work)
  BY <1>1, <1>2, <1>3, AfterLifecycleOutcome DEF Alike
<1>6. CopiesFollow'
  BY <1>1, <1>2, <1>3, <1>4, <1>5, CopiesKept
<1>7. FinalizerKept'
  BY <1>1, <1>2, <1>4, <1>5, FinalizerStays
<1>8. NothingUndone'
  BY <1>1, <1>2, <1>3, <1>4, <1>5, NothingUndoneKept DEF NotUndone
<1>9. Undoing'
  BY <1>1, <1>2, <1>4, <1>5, UndoingKept
<1>10. Readiness'
  BY <1>1, <1>2, <1>4, <1>5 DEF Readiness, EndTold, MayBeReady, ReadyFor, HasTemplate
<1> QED  BY <1>6, <1>7, <1>8, <1>9, <1>10 DEF JobsInv

-----------------------------------------------------------------------------
(***************************************************************************)
(* The steps of handleDeletion.                                            *)
(***************************************************************************)
LEMMA HandleDeletionKeeps ==
  ASSUME IInv, HandleDeletion
  PROVE  JobsInv'
<1>1. /\ UNCHANGED <<kind, registered, obj, seen, synced, fresh, jobs, owed>>
      /\ pc = "handle" /\ work.live = "deleting"
  BY DEF HandleDeletion, cluster
<1>2. TypeOK /\ CopiesFollow /\ FinalizerKept /\ NothingUndone /\ Undoing /\ Readiness
  BY DEF IInv, JobsInv
<1>3. CopiesFollow'
  BY <1>1, <1>2, HandleDeletionOutcome, CopiesKept
<1>4. FinalizerKept'
  BY <1>1, <1>2, HandleDeletionOutcome, FinalizerStays
<1>5. NothingUndone'
  BY <1>1, <1>2, HandleDeletionOutcome, NothingUndoneKept
<1>6. Undoing'
  <2>1. work.spec = obj.spec
    BY <1>1, <1>2 DEF CopiesFollow
  <2>2. pc' = "dropFinalizer" => ~owed \/ ~HasTemplate(obj)
    BY <1>2, <2>1, HandleDeletionOutcome DEF Undoing, UndoRecorded, HasTemplate
  <2> QED  BY <1>1, <1>2, <2>2, HandleDeletionOutcome, UndoingKept
<1>7. Readiness'
  BY <1>1, <1>2, HandleDeletionOutcome, ReadinessKept
<1> QED  BY <1>3, <1>4, <1>5, <1>6, <1>7 DEF JobsInv

LEMMA TriggerDeprovisionKeeps ==
  ASSUME IInv, TriggerDeprovision
  PROVE  JobsInv'
<1>1. /\ UNCHANGED <<kind, registered, obj, seen, synced, fresh, owed>>
      /\ pc = "undoTrigger"
  BY DEF TriggerDeprovision, cluster
<1>2. TypeOK /\ CopiesFollow /\ FinalizerKept /\ NothingUndone /\ Undoing /\ Readiness
  BY DEF IInv, JobsInv
<1>3. work.live = "deleting"
  BY <1>1, <1>2 DEF CopiesFollow
<1>4. CopiesFollow'
  BY <1>1, <1>2, <1>3, TriggerDeprovisionOutcome, CopiesKept
<1>5. FinalizerKept'
  BY <1>1, <1>2, TriggerDeprovisionOutcome, FinalizerStays
<1>6. NothingUndone'
  BY <1>1, <1>2, <1>3, TriggerDeprovisionOutcome, NothingUndoneKept
<1>7. Undoing'
  <2>1. CASE pc' = "dropFinalizer" /\ ~owed /\ UNCHANGED jobs
             /\ work'.status.undo = work.status.undo
    BY <1>1, <1>2, <2>1, UndoingKept
  <2>2. CASE /\ pc' = "status" /\ IdLeft /\ Start(NextJob, "deprovision")
             /\ work'.status.undo = RunningJob
    <3>1. UndoRecorded(obj)' /\ UndoRecorded(seen)'
      BY <1>1, <1>2, <2>2, StartKeepsUndo, "deprovision" \in JobTypes
         DEF Undoing, UndoRecorded, JobTypes
    <3>2. NextJob \in Jobs /\ jobs'[NextJob] = [type |-> "deprovision", state |-> "running"]
      BY <1>2, <2>2, NextJobUnused DEF Start, TypeOK
    <3>3. UndoRecorded(work)'
      BY <2>2, <3>2 DEF UndoRecorded, RunningJob
    <3> QED  BY <2>2, <3>1, <3>3 DEF Undoing
  <2> QED  BY <1>2, <2>1, <2>2, TriggerDeprovisionOutcome
<1>8. Readiness'
  BY <1>1, <1>2, TriggerDeprovisionOutcome, ReadinessKept
<1> QED  BY <1>4, <1>5, <1>6, <1>7, <1>8 DEF JobsInv

LEMMA PollDeprovisionKeeps ==
  ASSUME IInv, PollDeprovision
  PROVE  JobsInv'
<1>1. /\ UNCHANGED <<kind, registered, obj, seen, synced, fresh, jobs>>
      /\ pc = "undoPoll"
  BY DEF PollDeprovision, cluster
<1>2. TypeOK /\ CopiesFollow /\ FinalizerKept /\ NothingUndone /\ Undoing /\ Readiness
  BY DEF IInv, JobsInv
<1>3. work.live = "deleting"
  BY <1>1, <1>2 DEF CopiesFollow
<1>4. CopiesFollow'
  BY <1>1, <1>2, <1>3, PollDeprovisionOutcome, CopiesKept
<1>5. FinalizerKept'
  BY <1>1, <1>2, PollDeprovisionOutcome, FinalizerStays
<1>6. NothingUndone'
  BY <1>1, <1>2, <1>3, PollDeprovisionOutcome, NothingUndoneKept
<1>7. Undoing'
  <2>1. /\ UndoRecorded(obj) /\ UndoRecorded(seen) /\ UndoRecorded(work)
        /\ work.status.undo.state = "running"
    BY <1>1, <1>2 DEF Undoing
  <2>2. CASE UNCHANGED owed
    <3>1. UndoRecorded(obj)' /\ UndoRecorded(seen)'
      BY <1>1, <2>1, <2>2 DEF UndoRecorded
    <3>2. UndoRecorded(work)' /\ (pc' = "dropFinalizer" => ~owed')
      BY <1>1, <1>2, <2>1, <2>2, PollDeprovisionOutcome DEF UndoRecorded
    <3>3. pc' # "undoPoll"
      BY <1>2, PollDeprovisionOutcome
    <3> QED  BY <3>1, <3>2, <3>3 DEF Undoing
  <2>3. CASE owed' = FALSE /\ pc' = "dropFinalizer" /\ work'.status.undo.state = "failed"
    BY <1>1, <2>1, <2>3 DEF Undoing, UndoRecorded
  <2> QED  BY <1>2, <2>2, <2>3, PollDeprovisionOutcome
<1>8. Readiness'
  BY <1>1, <1>2, PollDeprovisionOutcome, ReadinessKept
<1> QED  BY <1>4, <1>5, <1>6, <1>7, <1>8 DEF JobsInv

LEMMA DropFinalizerKeeps ==
  ASSUME IInv, DropFinalizer
  PROVE  JobsInv'
<1>1. /\ UNCHANGED <<kind, registered, seen, fresh, jobs, owed>> /\ synced' = FALSE
      /\ pc = "dropFinalizer" /\ obj' = [obj EXCEPT !.fin = FALSE, !.live = "gone"]
      /\ work' = work /\ pc' = "status"
  BY DEF DropFinalizer, Store, Return, cluster
<1>2. TypeOK /\ CopiesFollow /\ FinalizerKept /\ NothingUndone /\ Undoing /\ Readiness
  BY DEF IInv, JobsInv
<1>3. work.live = "deleting" /\ seen.live # "present"
  BY <1>1, <1>2 DEF CopiesFollow
<1>4. /\ obj'.live = "gone" /\ obj'.spec = obj.spec /\ obj'.status = obj.status
  BY <1>1, <1>2 DEF TypeOK, Objects
<1>5. CopiesFollow'
  BY <1>1, <1>2, <1>3, <1>4, CopiesKept
<1>6. FinalizerKept'
  BY <1>1, <1>3 DEF FinalizerKept
<1>7. NothingUndone'
  BY <1>1, <1>2, <1>4, NothingUndoneKept DEF NotUndone
<1>8. Undoing'
  BY <1>1, <1>2, <1>4, UndoingKept
<1>9. Readiness'
  BY <1>1, <1>2, <1>4 DEF Readiness, EndTold, MayBeReady
<1> QED  BY <1>5, <1>6, <1>7, <1>8, <1>9 DEF JobsInv

-----------------------------------------------------------------------------
(***************************************************************************)
(* Errors, the status, and everything that is not a step of a handler.     *)
(***************************************************************************)
LEMMA FailureKeeps ==
  ASSUME IInv, CallFails \/ JobLost
  PROVE  JobsInv'
<1>1. /\ UNCHANGED <<kind, registered, obj, seen, synced, fresh>>
      /\ pc \notin {"idle", "status"} /\ pc' = "status" /\ work' = Errored(work)
  BY DEF CallFails, JobLost, Return, cluster, Updates, ProviderCalls
<1>2. TypeOK /\ CopiesFollow /\ FinalizerKept /\ NothingUndone /\ Undoing /\ Readiness
  BY DEF IInv, JobsInv
<1>3. /\ Alike(work', work) /\ work'.status.complete = work.status.complete
      /\ work'.status.phase \in {work.status.phase, "Failed"}
  BY <1>1, <1>2, ErroredOutcome
<1>4. CopiesFollow'
  BY <1>1, <1>2, <1>3, CopiesKept DEF Alike
<1>5. FinalizerKept'
  BY <1>1, <1>2, FinalizerStays
<1>6. NothingUndone'
  BY <1>1, <1>2, <1>3, NothingUndoneKept DEF Alike
<1>7. Undoing'
  <2>1. CASE CallFails
    BY <1>1, <1>2, <1>3, <2>1, UndoingKept DEF CallFails, Alike
  <2>2. CASE JobLost
    <3>1. PICK type \in JobTypes : Start(NextJob, type)
      BY <2>2 DEF JobLost, JobTypes
    <3>2. IdLeft
      BY <2>2 DEF JobLost
    <3>3. \/ UNCHANGED owed
          \/ NotUndone(obj) /\ NotUndone(seen) /\ NotUndone(work)
      BY <1>2, <2>2 DEF JobLost, CopiesFollow, NothingUndone, TypeOK
    <3>4. UndoRecorded(obj)' /\ UndoRecorded(seen)'
      BY <1>1, <1>2, <3>1, <3>2, <3>3, StartKeepsUndo DEF Undoing, UndoRecorded
    <3>5. UndoRecorded(work)'
      BY <1>2, <1>3, <3>1, <3>2, <3>3, StartKeepsUndo DEF Undoing, UndoRecorded, Alike
    <3> QED  BY <1>1, <3>4, <3>5 DEF Undoing
  <2> QED  BY <2>1, <2>2
<1>8. Readiness'
  BY <1>1, <1>2, <1>3, ReadinessKept DEF Alike
<1> QED  BY <1>4, <1>5, <1>6, <1>7, <1>8 DEF JobsInv

\* The end of a reconcile: the copy is forgotten, its status perhaps stored.
LEMMA WriteKeeps ==
  ASSUME IInv, WriteStatus
  PROVE  JobsInv'
<1>1. /\ UNCHANGED <<kind, registered, seen, jobs, owed>>
      /\ pc = "status" /\ pc' = "idle" /\ work' = Blank /\ fresh' = FALSE
      /\ \/ UNCHANGED <<obj, synced>>
         \/ /\ fresh /\ synced' = FALSE
            /\ obj' = [obj EXCEPT !.status = work.status]
  BY DEF WriteStatus, Store, cluster
<1>2. TypeOK /\ CopiesFollow /\ FinalizerKept /\ NothingUndone /\ Undoing /\ Readiness
  BY DEF IInv, JobsInv
<1>3. /\ obj'.live = obj.live /\ obj'.spec = obj.spec /\ obj'.fin = obj.fin
      /\ obj'.status = obj.status \/ obj'.status = work.status
  BY <1>1, <1>2 DEF TypeOK, Objects
<1>4. /\ work'.live = "gone" /\ work'.status.undo.state = "none"
      /\ work'.status.job.state = "none"
  BY <1>1 DEF Blank, NoStatus, NoRecord
<1>5. pc # "idle" /\ work.live \in {"present", "deleting"}
  BY <1>1, <1>2 DEF CopiesFollow, TypeOK, Objects
<1>6. CopiesFollow'
  BY <1>1, <1>2, <1>3, <1>4 DEF CopiesFollow
<1>7. FinalizerKept'
  BY <1>1, <1>2, <1>3 DEF FinalizerKept
<1>8. NothingUndone'
  BY <1>1, <1>2, <1>3, <1>4, <1>5 DEF NothingUndone, NotUndone, CopiesFollow
<1>9. Undoing'
  BY <1>1, <1>2, <1>3, <1>4 DEF Undoing, UndoRecorded
<1>10. Readiness'
  BY <1>1, <1>2, <1>3, <1>4 DEF Readiness, EndTold
<1> QED  BY <1>6, <1>7, <1>8, <1>9, <1>10 DEF JobsInv

LEMMA InitKeeps ==
  ASSUME Init
  PROVE  JobsInv
<1>1. /\ obj.live = "present" /\ obj.fin = FALSE
      /\ obj.status.undo.state = "none" /\ obj.status.job.state = "none"
      /\ seen = obj
  BY DEF Init, Blank, NoStatus, NoRecord
<1>2. /\ work.live = "gone" /\ work.status.undo.state = "none"
      /\ work.status.job.state = "none" /\ pc = "idle" /\ fresh = FALSE
  BY DEF Init, Blank, NoStatus, NoRecord
<1>3. CopiesFollow /\ FinalizerKept /\ NothingUndone
  BY <1>1, <1>2 DEF CopiesFollow, FinalizerKept, NothingUndone, NotUndone
<1>4. Undoing /\ Readiness
  BY <1>1, <1>2 DEF Undoing, UndoRecorded, Readiness, EndTold
<1> QED  BY <1>3, <1>4 DEF JobsInv

\* An edit changes the spec of an object that nobody has seen deleted; a
\* deletion lets an object without a finalizer go.
LEMMA UserKeeps ==
  ASSUME IInv, Delete \/ \E s \in Specs : Edit(s)
  PROVE  JobsInv'
<1>1. /\ UNCHANGED <<kind, registered, seen, jobs, owed, pc, work>>
      /\ synced' = FALSE /\ fresh' = FALSE /\ obj.live = "present"
  BY DEF Delete, Edit, Store, cluster
<1>2. TypeOK /\ CopiesFollow /\ FinalizerKept /\ NothingUndone /\ Undoing /\ Readiness
  BY DEF IInv, JobsInv
<1>3. obj'.fin = obj.fin /\ obj'.status = obj.status
  BY <1>2 DEF Delete, Edit, Store, TypeOK, Objects
<1>4. seen.live = "present" /\ work.live # "deleting"
  BY <1>1, <1>2 DEF CopiesFollow
<1>5. CopiesFollow'
  BY <1>1, <1>2, <1>4 DEF CopiesFollow
<1>6. FinalizerKept'
  BY <1>1, <1>2, <1>3 DEF FinalizerKept
<1>7. NothingUndone'
  BY <1>1, <1>2, <1>3 DEF NothingUndone, NotUndone
<1>8. Undoing'
  <2>1. pc # "dropFinalizer"
    BY <1>2, <1>4 DEF CopiesFollow
  <2> QED  BY <1>1, <1>2, <1>3, <2>1 DEF Undoing, UndoRecorded
<1>9. Readiness'
  BY <1>1, <1>2, <1>3 DEF Readiness, EndTold
<1> QED  BY <1>5, <1>6, <1>7, <1>8, <1>9 DEF JobsInv

LEMMA SyncKeeps ==
  ASSUME IInv, Sync
  PROVE  JobsInv'
<1>1. /\ UNCHANGED <<kind, registered, obj, jobs, owed, pc, work, fresh>>
      /\ seen' = obj
  BY DEF Sync, cluster
<1>2. TypeOK /\ CopiesFollow /\ FinalizerKept /\ NothingUndone /\ Undoing /\ Readiness
  BY DEF IInv, JobsInv
<1>3. CopiesFollow'
  BY <1>1, <1>2 DEF CopiesFollow
<1>4. FinalizerKept'
  BY <1>1, <1>2 DEF FinalizerKept
<1>5. NothingUndone'
  BY <1>1, <1>2 DEF NothingUndone, NotUndone, CopiesFollow
<1>6. Undoing'
  BY <1>1, <1>2 DEF Undoing, UndoRecorded, HasTemplate
<1>7. Readiness'
  BY <1>1, <1>2 DEF Readiness, EndTold, MayBeReady, HasTemplate
<1> QED  BY <1>3, <1>4, <1>5, <1>6, <1>7 DEF JobsInv

LEMMA RestartKeeps ==
  ASSUME IInv, Restart
  PROVE  JobsInv'
<1>1. /\ UNCHANGED <<kind, obj, jobs, owed>>
      /\ seen' = obj /\ pc' = "idle" /\ work' = Blank /\ fresh' = FALSE
  BY DEF Restart
<1>2. TypeOK /\ CopiesFollow /\ FinalizerKept /\ NothingUndone /\ Undoing /\ Readiness
  BY DEF IInv, JobsInv
<1>3. /\ work'.live = "gone" /\ work'.status.undo.state = "none"
      /\ work'.status.job.state = "none"
  BY <1>1 DEF Blank, NoStatus, NoRecord
<1>4. CopiesFollow' /\ FinalizerKept'
  BY <1>1, <1>3 DEF CopiesFollow, FinalizerKept
<1>5. NothingUndone'
  BY <1>1, <1>2, <1>3 DEF NothingUndone, NotUndone, CopiesFollow
<1>6. Undoing' /\ Readiness'
  BY <1>1, <1>2, <1>3 DEF Undoing, UndoRecorded, Readiness, EndTold
<1> QED  BY <1>4, <1>5, <1>6 DEF JobsInv

LEMMA ReconcileKeeps ==
  ASSUME IInv, Reconcile
  PROVE  JobsInv'
<1>1. UNCHANGED <<kind, registered, obj, seen, synced, jobs, owed>> /\ pc = "idle"
  BY DEF Reconcile, cluster
<1>2. TypeOK /\ CopiesFollow /\ FinalizerKept /\ NothingUndone /\ Undoing /\ Readiness
  BY DEF IInv, JobsInv
<1>3. CASE UNCHANGED <<pc, work, fresh>>
  BY <1>1, <1>2, <1>3 DEF JobsInv, CopiesFollow, FinalizerKept, NothingUndone, NotUndone,
     Undoing, UndoRecorded, HasTemplate, Readiness, EndTold, MayBeReady
<1>4. CASE seen.live # "gone" /\ pc' = "handle" /\ work' = seen /\ fresh' = synced
  <2>1. CopiesFollow'
    BY <1>1, <1>2, <1>4 DEF CopiesFollow, TypeOK, Objects
  <2>2. FinalizerKept' /\ NothingUndone'
    BY <1>1, <1>2, <1>4 DEF FinalizerKept, NothingUndone, NotUndone
  <2>3. Undoing'
    BY <1>1, <1>2, <1>4 DEF Undoing, UndoRecorded
  <2>4. Readiness'
    BY <1>1, <1>2, <1>4 DEF Readiness, EndTold, CopiesFollow
  <2> QED  BY <2>1, <2>2, <2>3, <2>4 DEF JobsInv
<1> QED  BY <1>3, <1>4 DEF Reconcile

\* Of a job that ends, what it undid is not owed any more, and it stays known
\* to the copies that have it as running.
LEMMA JobEndsKeeps ==
  ASSUME IInv, NEW id \in Jobs, JobEnds(id)
  PROVE  JobsInv'
<1>1. UNCHANGED <<kind, registered, obj, seen, synced, pc, work, fresh>>
  BY DEF JobEnds, cluster, memory
<1>2. TypeOK /\ CopiesFollow /\ FinalizerKept /\ NothingUndone /\ Undoing /\ Readiness
  BY DEF IInv, JobsInv
<1>3. PICK s \in {"succeeded", "failed"} :
        /\ jobs' = [jobs EXCEPT ![id] = IF Known(id) THEN [@ EXCEPT !.state = s] ELSE IdleJob]
        /\ owed' = (owed /\ ~(jobs[id].type = "deprovision" /\ s = "succeeded"))
  BY DEF JobEnds
<1>4. owed' => owed /\ ~(jobs[id].type = "deprovision" /\ s = "succeeded")
  BY <1>3
<1>5. ASSUME NEW o \in {obj, seen, work}, UndoRecorded(o)
      PROVE  LET undo == o.status.undo
             IN  /\ undo.state = "running" =>
                      /\ undo.id \in Jobs /\ jobs'[undo.id].type = "deprovision"
                      /\ jobs'[undo.id].state = "succeeded" => ~owed'
                 /\ undo.state = "succeeded" => ~owed'
  <2>1. CASE id = o.status.undo.id
    <3>1. Known(id)
      BY <2>1 DEF Known
    <3>2. jobs'[id].type = jobs[id].type /\ jobs'[id].state = s
      BY <1>2, <1>3, <3>1 DEF TypeOK
    <3> QED  BY <1>4, <1>5, <2>1, <3>2 DEF UndoRecorded
  <2>2. CASE id # o.status.undo.id
    <3>1. o.status.undo.id \in Jobs => jobs'[o.status.undo.id] = jobs[o.status.undo.id]
      BY <1>2, <1>3, <2>2 DEF TypeOK
    <3> QED  BY <1>4, <1>5, <3>1 DEF UndoRecorded
  <2> QED  BY <2>1, <2>2
<1>6. UndoRecorded(obj)' /\ UndoRecorded(seen)' /\ UndoRecorded(work)'
  BY <1>1, <1>2, <1>5 DEF Undoing, UndoRecorded
<1>7. Undoing'
  BY <1>1, <1>2, <1>4, <1>6 DEF Undoing, HasTemplate
<1>8. CopiesFollow' /\ FinalizerKept' /\ NothingUndone'
  BY <1>1, <1>2 DEF CopiesFollow, FinalizerKept, NothingUndone, NotUndone
<1>9. Readiness'
  BY <1>1, <1>2 DEF Readiness, EndTold, MayBeReady, HasTemplate
<1> QED  BY <1>7, <1>8, <1>9 DEF JobsInv

LEMMA NextKeeps == IInv /\ [Next]_vars => JobsInv'
<1>1. ASSUME IInv, Step
      PROVE  JobsInv'
  BY <1>1, HandleUpdateKeeps, AddFinalizerKeeps, PollKeeps, TriggerProvisionKeeps, FlushKeeps,
     HandleDeletionKeeps, TriggerDeprovisionKeeps, PollDeprovisionKeeps, DropFinalizerKeeps,
     FailureKeeps, WriteKeeps DEF Step
<1>2. ASSUME IInv, UNCHANGED vars
      PROVE  JobsInv'
  BY <1>2 DEF vars, cluster, memory, IInv, JobsInv, CopiesFollow, FinalizerKept, NothingUndone,
     NotUndone, Undoing, UndoRecorded, HasTemplate, Readiness, EndTold, MayBeReady
<1> QED
  BY <1>1, <1>2, UserKeeps, SyncKeeps, RestartKeeps, ReconcileKeeps, JobEndsKeeps DEF Next

-----------------------------------------------------------------------------
(***************************************************************************)
(* Theorems.                                                               *)
(***************************************************************************)
\* The invariant holds in every reachable state.
THEOREM Invariance == Spec => []IInv
<1>1. Init => IInv
  BY InitType, InitKeeps DEF IInv
<1>2. IInv /\ [Next]_vars => IInv'
  BY NextType, NextKeeps DEF IInv
<1> QED  BY <1>1, <1>2, PTL DEF Spec

\* A provision job is started only under the stored finalizer, and only as
\* long as no deprovision job is recorded (controller :307, :690).
THEOREM NothingBehindTheDeletion == Spec => ProvisionsUnderFinalizer
<1> DEFINE Covered == \A id \in Jobs : Starts(id) => obj.fin /\ obj.status.undo.state = "none"
<1>1. IInv /\ [Next]_vars => [Covered]_vars
  <2> SUFFICES ASSUME IInv, Next, NEW id \in Jobs, Starts(id)
               PROVE  obj.fin /\ obj.status.undo.state = "none"
    OBVIOUS
  <2>1. TypeOK /\ jobs'[id].state = "running" /\ jobs'[id].type = "provision" /\ jobs' # jobs
    BY DEF Starts, IInv
  <2>2. CASE pc = "trigger"
    BY <2>2 DEF IInv, JobsInv, CopiesFollow, FinalizerKept, NothingUndone, NotUndone
  <2>3. ASSUME NEW other, Start(other, "deprovision")
        PROVE  FALSE
    <3>1. jobs'[id] = jobs[id] \/ jobs'[id].type = "deprovision"
      BY <2>1, <2>3 DEF Start, TypeOK
    <3> QED  BY <2>1, <3>1 DEF Starts
  <2>4. ASSUME NEW j \in Jobs, JobEnds(j)
        PROVE  FALSE
    <3>1. PICK s \in {"succeeded", "failed"} :
            jobs' = [jobs EXCEPT ![j] = IF Known(j) THEN [@ EXCEPT !.state = s] ELSE IdleJob]
      BY <2>4 DEF JobEnds
    <3>2. jobs'[id] = jobs[id] \/ jobs'[id].state \in {"succeeded", "failed", "none"}
      BY <2>1, <3>1 DEF TypeOK, IdleJob
    <3> QED  BY <2>1, <3>2 DEF Starts
  <2>5. CASE Step
    <3>1. CASE TriggerProvision
      BY <2>2, <3>1 DEF TriggerProvision
    <3>2. CASE JobLost
      BY <2>2, <2>3, <3>2 DEF JobLost
    <3>3. CASE TriggerDeprovision
      BY <2>1, <2>3, <3>3 DEF TriggerDeprovision
    <3> QED
      BY <2>1, <2>5, <3>1, <3>2, <3>3 DEF Step, HandleUpdate, AddFinalizer, Poll, CheckRunning,
         Flush, HandleDeletion, PollDeprovision, DropFinalizer, CallFails, WriteStatus
  <2>6. CASE Delete \/ Sync \/ Restart \/ Reconcile \/ \E s \in Specs : Edit(s)
    BY <2>1, <2>6 DEF Delete, Sync, Restart, Reconcile, Edit
  <2> QED  BY <2>4, <2>5, <2>6 DEF Next
<1> QED  BY <1>1, Invariance, PTL DEF Spec, ProvisionsUnderFinalizer

\* Where a step takes the object, its status and its finalizer.
LEMMA ObjectStep ==
  ASSUME IInv, Next
  PROVE  \/ UNCHANGED obj
         \/ pc = "dropFinalizer" /\ obj'.status = obj.status
         \/ obj'.fin = obj.fin /\ obj'.status = obj.status
         \/ obj'.fin /\ obj'.status = obj.status
         \/ /\ pc \in {"flush", "status"} /\ fresh
            /\ obj'.fin = obj.fin /\ obj'.spec = obj.spec /\ obj'.status = work.status
<1>1. obj \in Objects
  BY DEF IInv, TypeOK
<1>2. CASE Step
  <2>1. CASE AddFinalizer
    BY <1>1, <2>1 DEF AddFinalizer, Store, Objects
  <2>2. CASE Flush \/ WriteStatus
    BY <1>1, <2>2 DEF Flush, WriteStatus, Store, Objects
  <2>3. CASE DropFinalizer
    BY <1>1, <2>3 DEF DropFinalizer, Store, Objects
  <2> QED
    BY <1>2, <2>1, <2>2, <2>3 DEF Step, HandleUpdate, Poll, CheckRunning, TriggerProvision,
       HandleDeletion, TriggerDeprovision, PollDeprovision, CallFails, JobLost
<1>3. CASE Delete \/ \E s \in Specs : Edit(s)
  BY <1>1, <1>3 DEF Delete, Edit, Store, Objects
<1>4. CASE Sync \/ Restart \/ Reconcile \/ \E id \in Jobs : JobEnds(id)
  BY <1>4 DEF Sync, Restart, Reconcile, JobEnds
<1> QED  BY <1>2, <1>3, <1>4 DEF Next

\* Every provision action is paired with a deprovision action: the finalizer
\* stays as long as something is owed, unless no template is left to undo it
\* (baremetalinstance_controller_test.go:1016).
THEOREM ProvisionIsPaired == Spec => Paired
<1> DEFINE Settled == obj.fin /\ ~obj'.fin => ~owed \/ ~HasTemplate(obj)
<1>1. IInv /\ [Next]_vars => [Settled]_vars
  <2> SUFFICES ASSUME IInv, Next, obj.fin, ~obj'.fin
               PROVE  ~owed \/ ~HasTemplate(obj)
    OBVIOUS
  <2> QED  BY ObjectStep DEF IInv, JobsInv, Undoing
<1> QED  BY <1>1, Invariance, PTL DEF Spec, Paired

\* An instance with a template becomes Ready only when its last job has
\* succeeded, and its condition says so (controller :316-333).
THEOREM ReadyAfterSuccess == Spec => ReadyIsProvisioned
<1> DEFINE Earned == /\ kind = "instance" /\ obj.status.phase # "Ready"
                     /\ obj'.status.phase = "Ready" /\ HasTemplate(obj')
                     => /\ obj'.status.job.state = "succeeded"
                        /\ obj'.status.complete = "True"
<1>1. IInv /\ [Next]_vars => [Earned]_vars
  <2> SUFFICES ASSUME IInv, Next, kind = "instance", obj.status.phase # "Ready",
                      obj'.status.phase = "Ready", HasTemplate(obj')
               PROVE  obj'.status.job.state = "succeeded" /\ obj'.status.complete = "True"
    OBVIOUS
  <2>1. /\ pc \in {"flush", "status"} /\ fresh
        /\ obj'.spec = obj.spec /\ obj'.status = work.status
    BY ObjectStep
  <2>2. HasTemplate(work)
    BY <2>1 DEF HasTemplate, IInv, JobsInv, CopiesFollow
  <2>3. pc = "status"
    BY <2>1 DEF IInv, JobsInv, Readiness
  <2> QED  BY <2>1, <2>2, <2>3 DEF IInv, JobsInv, Readiness, MayBeReady
<1> QED  BY <1>1, Invariance, PTL DEF Spec, ReadyIsProvisioned

-----------------------------------------------------------------------------
(***************************************************************************)
(* The controller never rests too early.  While nothing has asked for      *)
(* another reconcile and the cache is up to date, the one in flight works  *)
(* on the stored object, and what it returns with is either a change of    *)
(* the status, whose event brings the object back, or nothing is left.     *)
(***************************************************************************)
Comes ==
  ~queued /\ synced =>
    /\ pc = "idle" => Done(obj)
    /\ pc # "idle" => read = obj.status /\ fresh
    /\ pc = "handle" => work = obj
    /\ pc = "poll" => read.job.state = "running"
    /\ pc = "status" /\ work.status = read => Done(obj)

\* Done does not look at the finalizer.
LEMMA DoneAlike ==
  ASSUME NEW v, NEW w, Done(v), v.live = w.live, v.spec = w.spec, v.status = w.status
  PROVE  Done(w)
BY DEF Done, HasTemplate, NeedsProvider, DesiredVersion, Ended

\* Return forgets no request, and one that asks is heard.
LEMMA ReturnQueues ==
  ASSUME NEW w, NEW again \in BOOLEAN, Return(w, again), ~queued'
  PROVE  ~queued /\ ~again /\ work' = w /\ pc' = "status"
<1>1. queued' = (queued \/ again)
  BY DEF Return
<1>2. ~queued /\ ~again
  BY <1>1, Zenon
<1> QED  BY <1>2 DEF Return

\* A handler that is done with an object that is kept and does not ask to be
\* run again leaves it Ready, or an instance Failed.
LEMMA FinishRests ==
  ASSUME TypeOK, NEW w \in Objects, Finish(w), ~queued'
  PROVE  /\ ~queued /\ pc' = "status" /\ Alike(work', w)
         /\ work'.status.phase \in {"Ready", "Failed"}
<1>1. Finish(w) => Return(Phase(w, "Ready"), FALSE) \/ \E p : Return(Phase(w, p), TRUE)
  BY DEF Finish
<1>2. ~\E p : Return(Phase(w, p), TRUE)
  BY ReturnQueues
<1>3. Return(Phase(w, "Ready"), FALSE)
  BY <1>1, <1>2
<1> QED  BY <1>3, ReturnQueues, AlikePhase DEF Phases

LEMMA AfterLifecycleRests ==
  ASSUME TypeOK, NEW w \in Objects, NEW again \in BOOLEAN, AfterLifecycle(w, again), ~queued'
  PROVE  /\ ~queued /\ ~again /\ pc' = "status" /\ Alike(work', w)
         /\ work'.status.phase \in {"Ready", "Failed"}
<1>1. kind \in {"instance", "pool"}
  BY DEF TypeOK
<1>2. CASE again
  <2>1. \E v : Return(v, TRUE)
    BY <1>1, <1>2 DEF AfterLifecycle
  <2> QED  BY <2>1, ReturnQueues
<1>3. CASE ~again
  <2>1. Finish(w) \/ Return(Phase(w, "Failed"), FALSE)
    BY <1>1, <1>3 DEF AfterLifecycle
  <2>2. CASE Return(Phase(w, "Failed"), FALSE)
    BY <1>3, <2>2, ReturnQueues, AlikePhase DEF Phases
  <2> QED  BY <1>3, <2>1, <2>2, FinishRests
<1> QED  BY <1>2, <1>3

LEMMA ProvisionRests ==
  ASSUME TypeOK, NEW w \in Objects, Provision(w), w.live = "present", ~queued',
         TargetVersion(w) = DesiredVersion(w)
  PROVE  /\ ~queued /\ pc' \in {"poll", "check", "status"}
         /\ pc' = "poll" => w.status.job.state = "running"
         /\ pc' = "status" => Alike(work', w) /\ Done(work')
<1>1. CASE w.status.job.state = "running" /\ Call("poll", w)
  BY <1>1 DEF Call
<1>2. CASE Call("check", w)
  BY <1>2 DEF Call
<1>3. ASSUME NEW again \in BOOLEAN, AfterLifecycle(w, again), Ended(w.status.job),
             w.status.job.version = TargetVersion(w)
      PROVE  ~queued /\ pc' = "status" /\ Alike(work', w) /\ Done(work')
  <2>1. /\ ~queued /\ pc' = "status" /\ Alike(work', w)
        /\ work'.status.phase \in {"Ready", "Failed"}
    BY <1>3, AfterLifecycleRests
  <2> QED  BY <1>3, <2>1 DEF Done, Alike, DesiredVersion
<1>4. CASE ~HasTemplate(w) /\ Finish(w)
  <2>1. /\ ~queued /\ pc' = "status" /\ Alike(work', w)
        /\ work'.status.phase \in {"Ready", "Failed"}
    BY <1>4, FinishRests
  <2> QED  BY <1>4, <2>1 DEF Done, Alike, HasTemplate
<1> QED  BY <1>1, <1>2, <1>3, <1>4 DEF Provision, Lifecycle, Ended

\* What a step of a handler leaves alone, and what it may leave to do.
LEMMA StepComes ==
  ASSUME Comes, UNCHANGED <<cluster, obj, synced, fresh, read>>,
         ~queued' => ~queued, pc # "idle",
         ~queued' /\ synced => /\ pc' \notin {"idle", "handle"}
                               /\ pc' = "poll" => read.job.state = "running"
                               /\ pc' = "status" /\ work'.status = read => Done(obj)
  PROVE  Comes'
BY DEF Comes, Done, HasTemplate, NeedsProvider, DesiredVersion, Ended, cluster

LEMMA HandleUpdateComes ==
  ASSUME IInv, Comes, HandleUpdate
  PROVE  Comes'
<1>1. /\ UNCHANGED <<cluster, obj, synced, fresh>> /\ pc = "handle" /\ work.live = "present"
      /\ TypeOK /\ work \in Objects
  BY DEF HandleUpdate, IInv, TypeOK
<1>0. \A w \in {work, WithVersion(work)} : Alike(w, work)
  BY <1>1, VersionOutcome
<1>2. UNCHANGED read
  <2>1. WithVersion(work) \in Objects
    BY <1>0 DEF Alike
  <2> QED  BY <1>1, <2>1, ProvisionOutcome DEF HandleUpdate, Return, Call
<1>3. ASSUME ~queued'
      PROVE  /\ ~queued /\ pc' \in {"addFinalizer", "poll", "check", "status"}
             /\ pc' = "poll" => work.status.job.state = "running"
             /\ pc' = "status" =>
                  work'.live = work.live /\ work'.spec = work.spec /\ Done(work')
  <2>1. CASE Provision(WithVersion(work))
    <3>1. /\ WithVersion(work) \in Objects /\ WithVersion(work).live = "present"
          /\ WithVersion(work).status.job = work.status.job
      BY <1>0, <1>1 DEF Alike
    <3>2. TargetVersion(WithVersion(work)) = DesiredVersion(WithVersion(work))
      BY <1>1 DEF TargetVersion, DesiredVersion, WithVersion, Objects, Statuses
    <3> QED  BY <1>0, <1>1, <1>3, <2>1, <3>1, <3>2, ProvisionRests DEF Alike
  <2>2. CASE Call("addFinalizer", [WithVersion(work) EXCEPT !.fin = TRUE])
    BY <1>3, <2>2 DEF Call
  <2>3. ASSUME NEW w \in {work, WithVersion(work)}, Return(Phase(w, "Failed"), FALSE),
               (NeedsProvider(work) /\ ~provider) \/ registered = "missing"
        PROVE  /\ ~queued /\ pc' = "status"
               /\ work'.live = work.live /\ work'.spec = work.spec /\ Done(work')
    <3>1. ~queued /\ pc' = "status" /\ work' = Phase(w, "Failed")
      BY <1>3, <2>3, ReturnQueues
    <3>2. Alike(work', w) /\ work'.status.phase = "Failed" /\ Alike(w, work)
      BY <1>0, <3>1, AlikePhase DEF Phases, Alike
    <3> QED  BY <1>1, <2>3, <3>1, <3>2 DEF Done, Alike, NeedsProvider
  <2>4. CASE /\ NeedsProvider(work) /\ ~provider
             /\ Return([work EXCEPT !.status.phase = "Failed",
                               !.status.complete = "TemplateFailed"], FALSE)
    <3>1. PICK v : /\ v = [work EXCEPT !.status.phase = "Failed",
                               !.status.complete = "TemplateFailed"]
                   /\ Return(v, FALSE)
      BY <2>4
    <3>2. v.live = work.live /\ v.spec = work.spec /\ v.status.phase = "Failed"
      BY <1>1, <3>1 DEF Objects, Statuses
    <3>3. ~queued /\ pc' = "status" /\ work' = v
      BY <1>3, <3>1, ReturnQueues
    <3> QED  BY <1>1, <2>4, <3>2, <3>3 DEF Done, NeedsProvider
  <2> QED  BY <2>1, <2>2, <2>3, <2>4 DEF HandleUpdate
<1>4. ASSUME ~queued', synced
      PROVE  /\ pc' \notin {"idle", "handle"}
             /\ pc' = "poll" => read.job.state = "running"
             /\ pc' = "status" /\ work'.status = read => Done(obj)
  <2>1. work = obj /\ read = obj.status
    BY <1>1, <1>3, <1>4 DEF Comes
  <2>2. pc' = "status" /\ work'.status = read => Done(obj)
    BY <1>3, <1>4, <2>1, DoneAlike
  <2> QED  BY <1>3, <1>4, <2>1, <2>2
<1> QED  BY <1>1, <1>2, <1>3, <1>4, StepComes

\* A job that has ended changes the status.
LEMMA PollComes ==
  ASSUME IInv, Comes, Poll
  PROVE  Comes'
<1> DEFINE state == jobs[work.status.job.id].state
           ended == [work EXCEPT !.status.job.state = state, !.status.job.id = NoJob]
<1>1. /\ UNCHANGED <<cluster, obj, synced, fresh>> /\ pc = "poll"
      /\ TypeOK /\ work \in Objects /\ work.status.complete \in Conditions
  BY ObjectType DEF Poll, IInv, TypeOK
<1>2. UNCHANGED read /\ pc' = "status"
  BY <1>1, PollOutcome
<1>3. ASSUME ~queued'
      PROVE  ~queued /\ work'.status.job.state \in {"succeeded", "failed"}
  <2>1. CASE AfterLifecycle(work, TRUE)
    BY <1>1, <1>3, <2>1, AfterLifecycleRests
  <2>2. ASSUME NEW again \in BOOLEAN, NEW v \in Objects, AfterLifecycle(v, again),
               v.status.job.state \in {"succeeded", "failed"}
        PROVE  ~queued /\ work'.status.job.state \in {"succeeded", "failed"}
    BY <1>1, <1>3, <2>2, AfterLifecycleRests DEF Alike
  <2>3. CASE /\ state = "succeeded"
             /\ AfterLifecycle([ended EXCEPT !.status.complete =
                                  IF kind = "instance" THEN "True" ELSE @], FALSE)
    <3>1. PICK v : /\ v = [ended EXCEPT !.status.complete =
                             IF kind = "instance" THEN "True" ELSE @]
                   /\ AfterLifecycle(v, FALSE)
      BY <2>3
    <3>2. v \in Objects /\ v.status.job.state = "succeeded"
      BY <1>1, <2>3, <3>1 DEF Objects, Statuses, Records, JobStates, Conditions
    <3> QED  BY <2>2, <3>1, <3>2
  <2>4. ASSUME NEW again \in BOOLEAN, state = "failed",
               AfterLifecycle([ended EXCEPT !.status.phase = "Failed", !.status.complete =
                                  IF kind = "instance" THEN "TemplateFailed" ELSE @], again)
        PROVE  ~queued /\ work'.status.job.state \in {"succeeded", "failed"}
    <3>1. PICK v : /\ v = [ended EXCEPT !.status.phase = "Failed", !.status.complete =
                             IF kind = "instance" THEN "TemplateFailed" ELSE @]
                   /\ AfterLifecycle(v, again)
      BY <2>4
    <3>2. v \in Objects /\ v.status.job.state = "failed"
      BY <1>1, <2>4, <3>1 DEF Objects, Statuses, Records, JobStates, Conditions, Phases
    <3> QED  BY <2>2, <3>1, <3>2
  <2> QED  BY <2>1, <2>3, <2>4 DEF Poll
<1>4. ASSUME ~queued', synced
      PROVE  work'.status # read
  BY <1>1, <1>3, <1>4 DEF Comes
<1> QED  BY <1>1, <1>2, <1>3, <1>4, StepComes

LEMMA LifecycleComes ==
  ASSUME IInv, Comes, CheckRunning \/ TriggerProvision
  PROVE  Comes'
<1>1. /\ UNCHANGED <<cluster, obj, synced, fresh>> /\ pc # "idle"
      /\ TypeOK /\ work \in Objects
  BY DEF CheckRunning, TriggerProvision, IInv, TypeOK
<1>2. CASE CheckRunning /\ AfterLifecycle(work, TRUE)
  <2>1. UNCHANGED read
    BY <1>1, <1>2, AfterLifecycleOutcome
  <2>2. queued'
    BY <1>1, <1>2, AfterLifecycleRests
  <2> QED  BY <1>1, <2>1, <2>2, StepComes
<1>3. ASSUME NEW c \in {"trigger", "flush"}, NEW w, Call(c, w)
      PROVE  Comes'
  BY <1>1, <1>3, StepComes DEF Call
<1> QED  BY <1>2, <1>3 DEF CheckRunning, TriggerProvision

\* A deletion asks to be run again, or goes on to the finalizer, unless it
\* lacks a provider.
LEMMA DeletionComes ==
  ASSUME IInv, Comes, HandleDeletion \/ TriggerDeprovision \/ PollDeprovision
  PROVE  Comes'
<1>1. /\ UNCHANGED <<cluster, obj, synced, fresh>> /\ pc # "idle"
      /\ TypeOK /\ work \in Objects
  BY DEF HandleDeletion, TriggerDeprovision, PollDeprovision, IInv, TypeOK
<1>2. ASSUME NEW c \in {"undoPoll", "undoTrigger", "dropFinalizer"}, NEW w, Call(c, w)
      PROVE  Comes'
  BY <1>1, <1>2, StepComes DEF Call
<1>3. ASSUME NEW w, Release(w)
      PROVE  Comes'
  BY <1>2, <1>3 DEF Release
<1>4. ASSUME NEW w, Return(w, TRUE)
      PROVE  Comes'
  <2>1. queued' /\ UNCHANGED read
    BY <1>4, ReturnQueues DEF Return
  <2> QED  BY <1>1, <2>1, StepComes
<1>5. ASSUME HandleDeletion, NEW w, HasTemplate(Phase(work, "Deleting")), ~provider,
             Return(w, FALSE)
      PROVE  Comes'
  <2>1. UNCHANGED read /\ pc' = "status" /\ pc = "handle" /\ work.live = "deleting"
    BY <1>5 DEF HandleDeletion, Return
  <2>2. HasTemplate(work)
    <3>1. Alike(Phase(work, "Deleting"), work)
      BY <1>1, AlikePhase DEF Phases
    <3> QED  BY <1>5, <3>1 DEF HasTemplate, Alike
  <2>3. ~queued' => ~queued
    BY <1>5, ReturnQueues
  <2>4. ~queued' /\ synced => Done(obj)
    BY <1>5, <2>1, <2>2, <2>3 DEF Comes, Done
  <2> QED  BY <1>1, <2>1, <2>3, <2>4, StepComes
<1>6. CASE HandleDeletion
  BY <1>2, <1>3, <1>5, <1>6 DEF HandleDeletion
<1>7. CASE TriggerDeprovision
  BY <1>3, <1>4, <1>7 DEF TriggerDeprovision
<1>8. CASE PollDeprovision
  BY <1>3, <1>4, <1>8 DEF PollDeprovision
<1> QED  BY <1>6, <1>7, <1>8

LEMMA FailureComes ==
  ASSUME IInv, Comes, CallFails \/ JobLost
  PROVE  Comes'
<1>1. UNCHANGED <<cluster, obj, synced, fresh, read>> /\ Return(Errored(work), TRUE) /\ pc # "idle"
  BY DEF CallFails, JobLost, Return, Updates, ProviderCalls
<1>2. queued'
  BY <1>1, ReturnQueues
<1> QED  BY <1>1, <1>2, StepComes

\* A status that is not written because nothing has changed leaves nothing to
\* do; one that is stored has an event, one that is refused a retry.
LEMMA WriteComes ==
  ASSUME IInv, Comes, WriteStatus
  PROVE  Comes'
<1>1. UNCHANGED cluster /\ pc = "status" /\ pc' = "idle"
  BY DEF WriteStatus
<1>2. CASE (work.status = read \/ obj.live = "gone") /\ UNCHANGED <<obj, synced, queued>>
  <2>1. ~queued /\ synced => Done(obj)
    BY <1>1, <1>2 DEF Comes, Done
  <2> QED
    BY <1>1, <1>2, <2>1 DEF Comes, Done, HasTemplate, NeedsProvider, DesiredVersion, Ended, cluster
<1>3. CASE synced' = FALSE
  BY <1>3 DEF Comes
<1>4. CASE queued' = TRUE
  BY <1>4 DEF Comes
<1> QED  BY <1>2, <1>3, <1>4 DEF WriteStatus, Store

\* The event of a change, and the list after a start, bring the object back.
LEMMA ProcessComes ==
  ASSUME IInv, Comes, Sync \/ Restart \/ Reconcile
  PROVE  Comes'
<1>1. CASE Sync
  BY <1>1 DEF Sync, Comes
<1>2. CASE Restart
  <2>1. queued' = (obj.live # "gone") /\ pc' = "idle" /\ UNCHANGED obj
    BY <1>2 DEF Restart
  <2>2. ~queued' => obj.live = "gone"
    BY <2>1, Zenon
  <2> QED  BY <2>1, <2>2 DEF Comes, Done
<1>3. CASE Reconcile
  <2>1. UNCHANGED <<cluster, obj, synced>> /\ pc = "idle" /\ (synced => seen = obj)
    BY <1>3 DEF Reconcile, IInv, JobsInv, CopiesFollow
  <2>2. CASE seen.live = "gone" /\ UNCHANGED <<pc, work, read, fresh>>
    BY <2>1, <2>2 DEF Comes, Done
  <2>3. CASE pc' = "handle" /\ work' = seen /\ read' = seen.status /\ fresh' = synced
    BY <2>1, <2>3 DEF Comes
  <2> QED  BY <1>3, <2>2, <2>3 DEF Reconcile
<1> QED  BY <1>1, <1>2, <1>3

LEMMA NextComes == IInv /\ Comes /\ [Next]_vars => Comes'
<1> SUFFICES ASSUME IInv, Comes, [Next]_vars
             PROVE  Comes'
  OBVIOUS
<1>1. CASE AddFinalizer \/ Flush \/ DropFinalizer \/ Delete \/ \E s \in Specs : Edit(s)
  BY <1>1 DEF AddFinalizer, Flush, DropFinalizer, Delete, Edit, Store, Comes
<1>2. CASE Step
  BY <1>1, <1>2, HandleUpdateComes, PollComes, LifecycleComes, DeletionComes, FailureComes,
     WriteComes DEF Step
<1>3. CASE UNCHANGED vars \/ \E id \in Jobs : JobEnds(id)
  <2>1. UNCHANGED <<cluster, obj, synced, memory>>
    BY <1>3 DEF JobEnds, vars
  <2> QED
    BY <2>1 DEF Comes, Done, HasTemplate, NeedsProvider, DesiredVersion, Ended, cluster, memory
<1> QED  BY <1>1, <1>2, <1>3, ProcessComes DEF Next

\* The controller never rests with something left to do: a deletion that could
\* go on, an object whose phase is not settled, or a version of the spec that
\* no job has run (handleUpdate, handleDeletion, the status write).
THEOREM RestsWhenDone == Spec => []QuiescentIsDone
<1>1. Init => Comes
  BY DEF Init, Comes
<1>2. Comes => QuiescentIsDone
  BY DEF Comes, QuiescentIsDone
<1> QED  BY <1>1, <1>2, NextComes, Invariance, PTL DEF Spec
=============================================================================
