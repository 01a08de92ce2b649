--------------------------- MODULE InstancePower ----------------------------
(***************************************************************************)
(* Power and restarts of one allocated BareMetalInstance: the management   *)
(* half of its controller (reconcileManagement, reconcilePower,            *)
(* reconcileRestartTrigger and syncBareMetalInstanceStatus in              *)
(* internal/controller/baremetalinstance_controller.go) and the two        *)
(* management backends (internal/management/metal3.go, openstack.go).      *)
(*                                                                         *)
(* The object has its host, its finalizers and a noop template.  Users     *)
(* change the run strategy and the restart trigger; a reconcile works on a *)
(* copy read from the informer's cache, which may lag, makes one call of   *)
(* the backend per action, and writes the status at its end.  The host     *)
(* follows its commands in its own time.                                   *)
(*                                                                         *)
(* A definition under "Variant:" is a deliberate mistake in the one that   *)
(* follows; no action uses it.  Substituting it shows that a property can  *)
(* fail.                                                                   *)
(***************************************************************************)
EXTENDS Naturals

CONSTANTS
  Backends,   \* the management backends to consider
  MaxEdits,   \* bound: changes of the spec in a behaviour
  MaxFaults   \* bound: failed calls and restarts of the process

ASSUME BackendsAssumption == Backends \subseteq {"metal3", "openstack"}
ASSUME BoundsAssumption == MaxEdits \in Nat /\ MaxFaults \in Nat

VARIABLES
  api,      \* the object as the API server stores it
  seen,     \* the object as the informer's cache shows it
  queued,   \* the object is in the work queue
  pc,       \* the next call of the reconcile in flight
  work,     \* the copy of the object the reconcile works on
  read,     \* the status it read (oldstatus)
  fresh,    \* the copy has the resourceVersion of the stored object
  host,     \* the machine and what its backend has been told
  edits,    \* changes of the spec so far
  faults,   \* faults so far
  due       \* history: a restart is owed (ChangeTrigger) and none was accepted since

vars == <<api, seen, queued, pc, work, read, fresh, host, edits, faults, due>>

-----------------------------------------------------------------------------
(***************************************************************************)
(* Data.                                                                   *)
(***************************************************************************)
Strategies == {"", "Always", "Halted"}

\* Runs reach the first MaxEdits of them.
Triggers == Nat

\* The PowerSynced condition: its reason while it is False.
Synced == {"absent", "True", "Progressing", "PowerSyncFailed", "IronicAPIFailure"}

Statuses == [phase    : {"Progressing", "Ready", "Failed"},
             observed : Strategies,      \* status.runStrategy
             trigger  : Triggers,        \* status.restartTrigger
             synced   : Synced]

Objects == [strategy : Strategies, trigger : Triggers, status : Statuses]

FirstStatus == [phase |-> "Progressing", observed |-> "", trigger |-> 0, synced |-> "absent"]

Blank == [strategy |-> "", trigger |-> 0, status |-> FirstStatus]

\* want is spec.online of a BareMetalHost, or the target of a power change of an
\* Ironic node; reboot is the reboot annotation, or the target "rebooting".
HostStates == [backend : Backends, on : BOOLEAN, want : BOOLEAN, reboot : BOOLEAN]

Calls == {"isComplete", "trigger", "get", "set", "getAgain"}

Fault == faults < MaxFaults /\ faults' = faults + 1

-----------------------------------------------------------------------------
(***************************************************************************)
(* The management backends.                                                *)
(***************************************************************************)
\* metal3.go:126 compares what is wanted with what is; an Ironic node shows a
\* target as long as it changes power, and while it reboots.
Transitioning ==
  \/ host.want # host.on
  \/ host.backend = "openstack" /\ host.reboot

\* The machine's power state, in the terms of a run strategy.
PowerState == IF host.on THEN "Always" ELSE "Halted"

\* Variant: a restart counts as complete as soon as it was asked for.
RestartAlwaysComplete == TRUE

RestartComplete ==
  IF host.backend = "metal3" THEN ~host.reboot ELSE ~Transitioning

\* A BareMetalHost takes a second restart only without the annotation of a
\* first; an Ironic node that changes power answers 409.
AcceptsRestart ==
  IF host.backend = "metal3" THEN ~host.reboot ELSE ~Transitioning

\* Both refuse a power change during another; a BareMetalHost by looking first.
AcceptsPowerChange == ~Transitioning

\* The machine reaches the power state that was asked for (external).
HostConverges ==
  /\ host.want # host.on /\ ~host.reboot
  /\ host' = [host EXCEPT !.on = host.want]
  /\ UNCHANGED <<api, seen, queued, pc, work, read, fresh, edits, faults, due>>

\* A reboot (external).  The bare metal operator powers the machine off, drops
\* the annotation and lets it come up as wanted; Ironic powers it off and on.
HostReboots ==
  /\ host.reboot
  /\ \/ /\ host.backend = "metal3"
        /\ host' = [host EXCEPT !.on = FALSE, !.reboot = FALSE]
     \/ /\ host.backend = "openstack" /\ host.on
        /\ host' = [host EXCEPT !.on = FALSE]
     \/ /\ host.backend = "openstack" /\ ~host.on
        /\ host' = [host EXCEPT !.on = TRUE, !.want = TRUE, !.reboot = FALSE]
  /\ UNCHANGED <<api, seen, queued, pc, work, read, fresh, edits, faults, due>>

-----------------------------------------------------------------------------
(***************************************************************************)
(* Initial state and users.                                                *)
(***************************************************************************)
Init ==
  /\ \E s \in Strategies :
       api = [strategy |-> s, trigger |-> 0, status |-> FirstStatus]
  /\ \E b \in Backends, on \in BOOLEAN :
       host = [backend |-> b, on |-> on, want |-> on, reboot |-> FALSE]
  /\ seen = api
  /\ queued = TRUE
  /\ pc = "idle"
  /\ work = Blank
  /\ read = FirstStatus
  /\ fresh = FALSE
  /\ edits = 0 /\ faults = 0
  /\ due = FALSE

Edit(o) ==
  /\ edits < MaxEdits /\ edits' = edits + 1
  /\ api' = o
  /\ fresh' = FALSE
  /\ UNCHANGED <<seen, queued, pc, work, read, host, faults>>

\* No restart is owed to an instance that is halted.
ChangeStrategy ==
  \E s \in Strategies \ {api.strategy} :
    /\ Edit([api EXCEPT !.strategy = s])
    /\ due' = (due /\ s # "Halted")

\* Every change is to a new value.  A restart is owed for it when the machine
\* runs, is meant to run, and is not restarting already.
ChangeTrigger ==
  /\ Edit([api EXCEPT !.trigger = @ + 1])
  /\ due' = (api.strategy # "Halted" /\ host.on /\ host.want /\ ~host.reboot)

\* The informer catches up and enqueues the object.
Sync ==
  /\ seen # api
  /\ seen' = api
  /\ queued' = TRUE
  /\ UNCHANGED <<api, pc, work, read, fresh, host, edits, faults, due>>

\* The informer's periodic resync enqueues every object; so does the event of
\* an edit that another one undoes.
Resync ==
  /\ queued' = TRUE
  /\ UNCHANGED <<api, seen, pc, work, read, fresh, host, edits, faults, due>>

\* The process ends and starts again.
Restart ==
  /\ Fault
  /\ seen' = api /\ queued' = TRUE
  /\ pc' = "idle" /\ fresh' = FALSE
  /\ work' = Blank /\ read' = FirstStatus
  /\ UNCHANGED <<api, host, edits, due>>

-----------------------------------------------------------------------------
(***************************************************************************)
(* The reconcile.                                                          *)
(***************************************************************************)
\* The next call is c, made with the copy w.
Call(c, w) == pc' = c /\ work' = w

\* Variant: no return asks to be run again.
ReturnWithoutRequeue(s, again) ==
  Call("status", [work EXCEPT !.status = s]) /\ queued' = queued

\* The handler returns with the status s: with an error or a RequeueAfter when
\* again is TRUE.
Return(s, again) ==
  /\ Call("status", [work EXCEPT !.status = s])
  /\ queued' = (queued \/ again)

\* Variant: a phase the API does not have.
FailureBadPhase(reason) ==
  /\ Fault
  /\ Return([work.status EXCEPT !.phase = "Error", !.synced = reason], TRUE)

\* A call of the backend fails, and the handler returns its error.
Failure(reason) ==
  /\ Fault
  /\ Return([work.status EXCEPT !.phase = "Failed", !.synced = reason], TRUE)

\* The restart trigger is up to date.
Acknowledge(w) == [w EXCEPT !.status.trigger = w.trigger, !.status.synced = "True"]

\* What a changed trigger leads to depends on the PowerSynced condition, which
\* a restart and a power change share.
ReconcileRestartTrigger(w) ==
  \/ /\ w.trigger = w.status.trigger \/ w.strategy = "Halted"
     /\ Call("get", Acknowledge(w))
  \/ /\ w.trigger # w.status.trigger /\ w.strategy # "Halted"
     /\ Call(IF w.status.synced = "Progressing" THEN "isComplete" ELSE "trigger", w)

\* A worker reads the object from the cache.
Reconcile ==
  /\ pc = "idle" /\ queued
  /\ queued' = FALSE
  /\ ReconcileRestartTrigger(seen)
  /\ read' = seen.status
  /\ fresh' = (seen = api)
  /\ UNCHANGED <<api, seen, host, edits, faults, due>>

IsRestartComplete ==
  /\ pc = "isComplete"
  /\ \/ /\ RestartComplete
        /\ Call("get", Acknowledge(work))
        /\ UNCHANGED <<queued, faults>>
     \/ /\ ~RestartComplete
        /\ Return([work.status EXCEPT !.phase = "Progressing"], TRUE)
        /\ UNCHANGED faults
     \/ Failure("PowerSyncFailed")
  /\ UNCHANGED <<api, seen, read, fresh, host, edits, due>>

\* The backend takes a restart; its answer may be lost.
TriggerRestart ==
  /\ pc = "trigger" /\ AcceptsRestart
  /\ host' = [host EXCEPT !.reboot = TRUE]
  /\ due' = FALSE
  /\ \/ /\ Return([work.status EXCEPT !.phase = "Progressing", !.synced = "Progressing"], TRUE)
        /\ UNCHANGED faults
     \/ Failure("PowerSyncFailed")
  /\ UNCHANGED <<api, seen, read, fresh, edits>>

\* ErrTransitioning, or a call that failed.
RestartRefused ==
  /\ pc = "trigger"
  /\ \/ /\ ~AcceptsRestart
        /\ Return([work.status EXCEPT !.phase = "Progressing", !.synced = "PowerSyncFailed"], TRUE)
        /\ UNCHANGED faults
     \/ Failure("PowerSyncFailed")
  /\ UNCHANGED <<api, seen, read, fresh, host, edits, due>>

\* syncBareMetalInstanceStatus and the end of reconcileManagement, on a power
\* status just read.  Only a managed instance is looked at again.
Report ==
  LET off   == work.strategy # "" /\ work.strategy # PowerState
      again == work.strategy # "" /\ (Transitioning \/ off)
  IN  /\ Return([work.status EXCEPT
                   !.observed = PowerState,
                   !.synced = IF Transitioning \/ off THEN "Progressing" ELSE "True",
                   !.phase = IF again THEN "Progressing" ELSE "Ready"], again)
      /\ UNCHANGED faults

GetPowerState ==
  /\ pc = "get"
  /\ \/ work.strategy = "" /\ Report
     \/ /\ work.strategy # ""
        /\ Call(IF ~Transitioning /\ work.strategy # PowerState THEN "set" ELSE "getAgain", work)
        /\ UNCHANGED <<queued, faults>>
     \/ Failure("IronicAPIFailure")
  /\ UNCHANGED <<api, seen, read, fresh, host, edits, due>>

\* The backend takes the power change unless it changes power already (an
\* answer, not an error); its answer may be lost.
SetPowerState ==
  /\ pc = "set"
  /\ host' = IF AcceptsPowerChange THEN [host EXCEPT !.want = (work.strategy = "Always")]
                                   ELSE host
  /\ \/ /\ Call("getAgain", work)
        /\ UNCHANGED <<queued, faults>>
     \/ AcceptsPowerChange /\ Failure("IronicAPIFailure")
  /\ UNCHANGED <<api, seen, read, fresh, edits, due>>

PowerChangeFails ==
  /\ pc = "set" /\ Failure("IronicAPIFailure")
  /\ UNCHANGED <<api, seen, read, fresh, host, edits, due>>

\* The second look at the power state is the one that is reported.
GetPowerStateAgain ==
  /\ pc = "getAgain"
  /\ Report \/ Failure("IronicAPIFailure")
  /\ UNCHANGED <<api, seen, read, fresh, host, edits, due>>

\* The status is written when it differs from the one that was read; the API
\* server takes it only with the current resourceVersion.
WriteStatus ==
  /\ pc = "status"
  /\ pc' = "idle" /\ work' = Blank /\ read' = FirstStatus /\ fresh' = FALSE
  /\ \/ /\ work.status = read
        /\ UNCHANGED <<api, queued, faults>>
     \/ /\ work.status # read /\ fresh
        /\ api' = [api EXCEPT !.status = work.status]
        /\ UNCHANGED <<queued, faults>>
     \/ /\ work.status # read
        /\ (~fresh /\ UNCHANGED faults) \/ Fault
        /\ queued' = TRUE
        /\ UNCHANGED api
  /\ UNCHANGED <<seen, host, edits, due>>

Step ==
  \/ IsRestartComplete \/ TriggerRestart \/ RestartRefused
  \/ GetPowerState \/ SetPowerState \/ PowerChangeFails \/ GetPowerStateAgain
  \/ WriteStatus

Next ==
  \/ ChangeStrategy \/ ChangeTrigger \/ Sync \/ Resync \/ Restart
  \/ Reconcile \/ Step
  \/ HostConverges \/ HostReboots

Spec == Init /\ [][Next]_vars

\* A worker takes the object and makes its next step, the informer delivers,
\* and a machine does in the end what it has been told.
Fairness == /\ WF_vars(Reconcile) /\ WF_vars(Step) /\ WF_vars(Sync)
            /\ WF_vars(HostConverges) /\ WF_vars(HostReboots)

FairSpec == Spec /\ Fairness

-----------------------------------------------------------------------------
(***************************************************************************)
(* Properties.                                                             *)
(***************************************************************************)
\* Every variable has its type.
TypeOK ==
  /\ api \in Objects /\ seen \in Objects /\ work \in Objects
  /\ queued \in BOOLEAN /\ fresh \in BOOLEAN /\ due \in BOOLEAN
  /\ pc \in Calls \cup {"idle", "status"}
  /\ read \in Statuses
  /\ host \in HostStates
  /\ edits \in 0..MaxEdits /\ faults \in 0..MaxFaults

\* When the controller has nothing in flight, nothing queued and nothing left
\* to hear of, there is nothing left to do: the instance is Ready, its restart
\* trigger is acknowledged and, when its power is managed, the machine has been
\* told what the run strategy wants (it may still have a restart of a
\* BareMetalHost before it, when the instance was halted in between).  No
\* return forgets to come back (the requeues of
\* baremetalinstance_controller.go:337-344, :384-387 and :600-631 and the
\* refused status write of :123-128).
QuiescentIsDone ==
  pc = "idle" /\ ~queued /\ seen = api =>
    /\ api.status.phase = "Ready"
    /\ api.status.trigger = api.trigger
    /\ api.strategy # "" => host.want = (api.strategy = "Always")

\* A trigger is not acknowledged while the machine still has a restart before
\* it, unless the instance is halted (baremetalinstance_controller.go:583-616).
AcknowledgedAfterRestart ==
  [][api'.status.trigger # api.status.trigger =>
       api.strategy = "Halted" \/ ~host.reboot]_vars

\* Once users stop changing the object and calls stop failing, the instance
\* becomes and stays Ready, with its trigger acknowledged and its machine in
\* the power state asked for, whatever the order in which the controller and
\* the machine moved before.
Settles ==
  <>[](/\ api.status.phase = "Ready"
       /\ api.status.trigger = api.trigger
       /\ api.strategy # "" => api.status.observed = api.strategy /\ PowerState = api.strategy)

-----------------------------------------------------------------------------
(***************************************************************************)
(* What the documents say and the code does not keep.                      *)
(***************************************************************************)
\* "Change it to any value to trigger the restart": a restart that is owed to
\* a running machine is not acknowledged before it was asked for
\* (baremetalinstance_types.go:91).
RestartHonoured == ~(due /\ api.status.trigger = api.trigger)
=============================================================================
