-------------------------- MODULE InstancePowerProofs --------------------------
(***************************************************************************)
(* Proofs about InstancePower, for both backends and any bounds.           *)
(*                                                                         *)
(* QuiescentIsDone is not inductive: that nothing is left to do when the   *)
(* controller rests follows from what it knew when it last returned, and   *)
(* that from where its copy came from.  IInv says both.                    *)
(***************************************************************************)
EXTENDS InstancePower, TLAPS

\* The machine has been told what the run strategy s wants, and no restart
\* will tell it otherwise.
Told(s) ==
  s # "" => /\ host.want = (s = "Always")
            /\ host.backend = "openstack" => ~host.reboot

\* As long as the object is not in the queue, the copy is that of the cache.
CopyOfSeen ==
  pc # "idle" /\ ~queued =>
    work.strategy = seen.strategy /\ work.trigger = seen.trigger /\ read = seen.status

\* A fresh copy has the spec and was read with the status that are stored.
CopyOfStored ==
  pc # "idle" /\ fresh =>
    work.strategy = api.strategy /\ work.trigger = api.trigger /\ read = api.status

\* What is known of the restart trigger at each call.
TriggerKnown ==
  /\ pc \in {"isComplete", "trigger"} => work.status = read
  /\ pc \in {"get", "set", "getAgain"} => work.status.trigger = work.trigger
  /\ pc = "set" => work.strategy # ""
  /\ pc \in {"get", "set", "getAgain", "status"} /\ work.status.trigger # read.trigger
       => work.strategy = "Halted" \/ ~host.reboot

\* A return that does not ask to be run again leaves nothing to do.
ReturnIsDone ==
  pc = "status" /\ ~queued =>
    work.status.phase = "Ready" /\ work.status.trigger = work.trigger /\ Told(work.strategy)

\* Nor does a controller at rest, unless the status it wrote is still to be seen.
RestIsDone ==
  pc = "idle" /\ ~queued /\ seen.status = api.status =>
    seen.status.phase = "Ready" /\ seen.status.trigger = seen.trigger /\ Told(seen.strategy)

IInv == /\ TypeOK /\ CopyOfSeen /\ CopyOfStored
        /\ TriggerKnown /\ ReturnIsDone /\ RestIsDone

-----------------------------------------------------------------------------
(***************************************************************************)
(* Lemmas about the steps of a reconcile.                                  *)
(***************************************************************************)
\* A status stays a status when its fields are replaced.
LEMMA StatusType ==
  ASSUME NEW s \in Statuses,
         NEW p \in {"Progressing", "Ready", "Failed"}, NEW o \in Strategies, NEW y \in Synced
  PROVE  /\ [s EXCEPT !.phase = p] \in Statuses
         /\ [s EXCEPT !.phase = p, !.synced = y] \in Statuses
         /\ [s EXCEPT !.observed = o, !.synced = y, !.phase = p] \in Statuses
BY DEF Statuses

\* The parts of an object, and the object with another status.
LEMMA ObjectType ==
  ASSUME NEW w \in Objects
  PROVE  /\ w.status \in Statuses /\ w.strategy \in Strategies /\ w.trigger \in Triggers
         /\ \A s \in Statuses : /\ [w EXCEPT !.status = s] \in Objects
                                /\ [w EXCEPT !.status = s].status = s
                                /\ [w EXCEPT !.status = s].strategy = w.strategy
                                /\ [w EXCEPT !.status = s].trigger = w.trigger
BY DEF Objects

\* Acknowledging the trigger changes the status only.
LEMMA AcknowledgeType ==
  ASSUME NEW w \in Objects
  PROVE  /\ Acknowledge(w) \in Objects
         /\ Acknowledge(w).strategy = w.strategy
         /\ Acknowledge(w).trigger = w.trigger
         /\ Acknowledge(w).status.trigger = w.trigger
BY DEF Acknowledge, Objects, Statuses, Synced

LEMMA BlankType == Blank \in Objects /\ FirstStatus \in Statuses
BY BoundsAssumption DEF Blank, Objects, FirstStatus, Statuses, Strategies, Synced, Triggers

LEMMA FaultType ==
  ASSUME TypeOK, Fault
  PROVE  faults' \in 0..MaxFaults
BY BoundsAssumption DEF Fault, TypeOK

\* What Return does.
LEMMA ReturnEffect ==
  ASSUME TypeOK, NEW s \in Statuses, NEW again \in BOOLEAN, Return(s, again)
  PROVE  /\ pc' = "status" /\ queued' \in BOOLEAN /\ work' \in Objects
         /\ work'.status = s /\ work'.strategy = work.strategy /\ work'.trigger = work.trigger
         /\ again => queued'
         /\ ~queued' => ~queued
<1>1. work \in Objects
  BY DEF TypeOK
<1>2. pc' = "status" /\ work' = [work EXCEPT !.status = s]
  BY DEF Return, Call
<1>3. queued' = (queued \/ again)
  BY DEF Return
<1>4. queued' \in BOOLEAN /\ (again => queued') /\ (~queued' => ~queued)
  BY <1>3, Zenon DEF TypeOK
<1> QED  BY <1>1, <1>2, <1>4, ObjectType

\* A return that asks to be run again leaves nothing to prove but that the
\* trigger is not acknowledged before its time.
LEMMA RequeueKeeps ==
  ASSUME IInv, NEW s \in Statuses, Return(s, TRUE), pc \in Calls,
         UNCHANGED <<api, seen, read, fresh, edits>>,
         host' \in HostStates, due' \in BOOLEAN, faults' \in 0..MaxFaults,
         s.trigger # read.trigger => work.strategy = "Halted" \/ ~host'.reboot
  PROVE  IInv'
<1>1. /\ pc' = "status" /\ queued' = TRUE /\ work' \in Objects
      /\ work'.status = s /\ work'.strategy = work.strategy /\ work'.trigger = work.trigger
  BY ReturnEffect DEF IInv
<1>2. TypeOK'
  BY <1>1 DEF IInv, TypeOK
<1>3. CopyOfStored'
  BY <1>1 DEF IInv, CopyOfStored, Calls
<1>4. TriggerKnown'
  BY <1>1 DEF TriggerKnown
<1> QED  BY <1>1, <1>2, <1>3, <1>4 DEF IInv, CopyOfSeen, ReturnIsDone, RestIsDone

\* A failed call, at which the machine may have taken a command.
LEMMA FailureKeeps ==
  ASSUME IInv, NEW reason \in Synced, Failure(reason), pc \in Calls,
         UNCHANGED <<api, seen, read, fresh, edits>>,
         host' \in HostStates, due' \in BOOLEAN,
         host'.reboot => host.reboot \/ pc = "trigger"
  PROVE  IInv'
<1>1. work.status \in Statuses
  BY ObjectType DEF IInv, TypeOK
<1>2. PICK s \in Statuses : s = [work.status EXCEPT !.phase = "Failed", !.synced = reason]
  BY <1>1, StatusType DEF Strategies
<1>3. Return(s, TRUE)
  BY <1>2 DEF Failure, Return, Call
<1>4. faults' \in 0..MaxFaults
  BY FaultType DEF Failure, IInv
<1>5. s.trigger = work.status.trigger
  BY <1>1, <1>2 DEF Statuses
<1>6. work.status.trigger # read.trigger => work.strategy = "Halted" \/ ~host'.reboot
  BY DEF IInv, TriggerKnown, Calls, TypeOK, HostStates
<1> QED  BY <1>3, <1>4, <1>5, <1>6, RequeueKeeps

\* The reconcile moves on to another read of the power state.
LEMMA CallKeeps ==
  ASSUME IInv, NEW c \in {"get", "set", "getAgain"}, NEW w \in Objects, Call(c, w),
         pc \in Calls,
         w.strategy = work.strategy, w.trigger = work.trigger, w.status.trigger = w.trigger,
         c = "set" => w.strategy # "",
         w.status.trigger # read.trigger => w.strategy = "Halted" \/ ~host'.reboot,
         host' \in HostStates,
         UNCHANGED <<api, seen, queued, read, fresh, edits, faults, due>>
  PROVE  IInv'
<1>1. pc' = c /\ work' = w
  BY DEF Call
<1>2. TypeOK'
  BY <1>1 DEF IInv, TypeOK, Calls
<1>3. CopyOfSeen' /\ CopyOfStored'
  BY <1>1 DEF IInv, CopyOfSeen, CopyOfStored, Calls
<1>4. TriggerKnown'
  BY <1>1 DEF TriggerKnown
<1> QED  BY <1>1, <1>2, <1>3, <1>4 DEF IInv, ReturnIsDone, RestIsDone

-----------------------------------------------------------------------------
(***************************************************************************)
(* The invariant: it holds initially, and every action keeps it.           *)
(***************************************************************************)
LEMMA InitInvariant ==
  ASSUME Init
  PROVE  IInv
<1>1. PICK s \in Strategies : api = [strategy |-> s, trigger |-> 0, status |-> FirstStatus]
  BY DEF Init
<1>2. PICK b \in Backends, on \in BOOLEAN :
        host = [backend |-> b, on |-> on, want |-> on, reboot |-> FALSE]
  BY DEF Init
<1>3. api \in Objects /\ host \in HostStates
  BY <1>1, <1>2, BlankType, BoundsAssumption DEF Objects, HostStates, Triggers
<1>4. /\ edits \in 0..MaxEdits /\ faults \in 0..MaxFaults
      /\ pc \in Calls \cup {"idle", "status"}
  BY BoundsAssumption DEF Init
<1>5. /\ seen \in Objects /\ work \in Objects /\ read \in Statuses
      /\ queued \in BOOLEAN /\ fresh \in BOOLEAN /\ due \in BOOLEAN
  BY <1>3, BlankType DEF Init
<1>6. TypeOK
  BY <1>3, <1>4, <1>5 DEF TypeOK
<1> QED
  BY <1>6 DEF Init, IInv, CopyOfSeen, CopyOfStored, TriggerKnown, ReturnIsDone, RestIsDone

\* Users, the informer and the machine.
LEMMA EditKeeps ==
  ASSUME IInv, NEW o \in Objects, Edit(o), o.status = api.status, due' \in BOOLEAN
  PROVE  IInv'
<1>1. edits' \in 0..MaxEdits
  BY BoundsAssumption DEF Edit, IInv, TypeOK
<1>2. /\ api' \in Objects /\ fresh' \in BOOLEAN
      /\ UNCHANGED <<seen, queued, pc, work, read, host, faults>>
  BY DEF Edit
<1>3. TypeOK'
  BY <1>1, <1>2 DEF IInv, TypeOK
<1> QED
  BY <1>3 DEF Edit, IInv, CopyOfSeen, CopyOfStored, TriggerKnown, ReturnIsDone, RestIsDone, Told

LEMMA UserKeeps ==
  ASSUME IInv, ChangeStrategy \/ ChangeTrigger
  PROVE  IInv'
<1>1. api \in Objects /\ edits \in 0..MaxEdits
  BY DEF IInv, TypeOK
<1>2. CASE ChangeStrategy
  <2>1. PICK s \in Strategies \ {api.strategy} :
          /\ Edit([api EXCEPT !.strategy = s])
          /\ due' = (due /\ s # "Halted")
    BY <1>2 DEF ChangeStrategy
  <2>2. PICK o : o = [api EXCEPT !.strategy = s]
    OBVIOUS
  <2>3. o \in Objects /\ o.status = api.status
    BY <1>1, <2>1, <2>2 DEF Objects
  <2>4. Edit(o) /\ due' \in BOOLEAN
    BY <2>1, <2>2 DEF Edit
  <2> QED  BY <2>3, <2>4, EditKeeps
<1>3. CASE ChangeTrigger
  <2>1. PICK o : o = [api EXCEPT !.trigger = @ + 1]
    OBVIOUS
  <2>2. Edit(o) /\ due' \in BOOLEAN
    BY <1>3, <2>1 DEF ChangeTrigger, Edit
  <2>3. o \in Objects /\ o.status = api.status
    BY <1>1, <2>1 DEF Objects, Triggers
  <2> QED  BY <2>2, <2>3, EditKeeps
<1> QED  BY <1>2, <1>3

LEMMA SyncKeeps ==
  ASSUME IInv, Sync \/ Resync
  PROVE  IInv'
<1>1. queued' = TRUE /\ seen' \in Objects
  BY DEF IInv, TypeOK, Sync, Resync
<1>2. TypeOK'
  BY <1>1 DEF IInv, TypeOK, Sync, Resync
<1>3. UNCHANGED <<api, pc, work, read, fresh, host>>
  BY DEF Sync, Resync
<1>4. CopyOfStored'
  BY <1>3 DEF IInv, CopyOfStored
<1>5. TriggerKnown'
  BY <1>3 DEF IInv, TriggerKnown
<1> QED  BY <1>1, <1>2, <1>4, <1>5 DEF IInv, CopyOfSeen, ReturnIsDone, RestIsDone

LEMMA RestartKeeps ==
  ASSUME IInv, Restart
  PROVE  IInv'
<1>1. faults' \in 0..MaxFaults
  BY FaultType DEF IInv, Restart
<1>2. TypeOK'
  BY <1>1, BlankType DEF IInv, TypeOK, Restart
<1> QED
  BY <1>2 DEF Restart, IInv, CopyOfSeen, CopyOfStored, TriggerKnown, ReturnIsDone, RestIsDone

LEMMA HostKeeps ==
  ASSUME IInv, HostConverges \/ HostReboots
  PROVE  IInv'
<1>1. /\ host' \in HostStates
      /\ host'.backend = host.backend
      /\ host'.reboot => host.reboot
      /\ host'.want = host.want \/ (host.backend = "openstack" /\ host.reboot)
  BY DEF IInv, TypeOK, HostConverges, HostReboots, HostStates
<1>2. UNCHANGED <<api, seen, queued, pc, work, read, fresh, edits, faults, due>>
  BY DEF HostConverges, HostReboots
<1>3. \A s \in Strategies : Told(s) => Told(s)'
  BY <1>1 DEF Told, IInv, TypeOK, HostStates
<1>4. work.strategy \in Strategies /\ seen.strategy \in Strategies
  BY ObjectType DEF IInv, TypeOK
<1>5. TypeOK' /\ CopyOfSeen' /\ CopyOfStored'
  BY <1>1, <1>2 DEF IInv, TypeOK, CopyOfSeen, CopyOfStored
<1>6. TriggerKnown'
  BY <1>1, <1>2 DEF IInv, TypeOK, HostStates, TriggerKnown
<1>7. ReturnIsDone' /\ RestIsDone'
  BY <1>1, <1>2, <1>3, <1>4 DEF IInv, ReturnIsDone, RestIsDone, Told
<1> QED  BY <1>5, <1>6, <1>7 DEF IInv

\* The controller.
LEMMA ReconcileKeeps ==
  ASSUME IInv, Reconcile
  PROVE  IInv'
<1>1. /\ seen \in Objects /\ api \in Objects
      /\ queued' = FALSE /\ read' = seen.status /\ fresh' = (seen = api)
      /\ UNCHANGED <<api, seen, host, edits, faults, due>>
  BY DEF IInv, TypeOK, Reconcile
<1>2. fresh' \in BOOLEAN /\ (fresh' => seen = api)
  BY <1>1, Zenon
<1>3. CASE /\ seen.trigger = seen.status.trigger \/ seen.strategy = "Halted"
           /\ Call("get", Acknowledge(seen))
  <2>1. PICK w \in Objects : w = Acknowledge(seen)
    BY <1>1, AcknowledgeType
  <2>2. /\ w.strategy = seen.strategy /\ w.trigger = seen.trigger
        /\ w.status.trigger = w.trigger
    BY <1>1, <2>1, AcknowledgeType
  <2>3. pc' = "get" /\ work' = w
    BY <1>3, <2>1 DEF Call
  <2>4. TypeOK'
    BY <1>1, <1>2, <2>3, ObjectType DEF IInv, TypeOK, Calls
  <2>5. CopyOfSeen' /\ CopyOfStored'
    BY <1>1, <1>2, <2>2, <2>3 DEF CopyOfSeen, CopyOfStored
  <2>6. TriggerKnown'
    BY <1>1, <1>3, <2>2, <2>3 DEF TriggerKnown
  <2> QED  BY <2>3, <2>4, <2>5, <2>6 DEF IInv, ReturnIsDone, RestIsDone
<1>4. CASE \E c \in {"isComplete", "trigger"} : Call(c, seen)
  <2>1. pc' \in {"isComplete", "trigger"} /\ work' = seen
    BY <1>4 DEF Call
  <2>2. TypeOK'
    BY <1>1, <1>2, <2>1, ObjectType DEF IInv, TypeOK, Calls
  <2>3. CopyOfSeen' /\ CopyOfStored'
    BY <1>1, <1>2, <2>1 DEF CopyOfSeen, CopyOfStored
  <2>4. TriggerKnown'
    BY <1>1, <2>1 DEF TriggerKnown
  <2> QED  BY <2>1, <2>2, <2>3, <2>4 DEF IInv, ReturnIsDone, RestIsDone
<1> QED  BY <1>3, <1>4 DEF Reconcile, ReconcileRestartTrigger

LEMMA IsRestartCompleteKeeps ==
  ASSUME IInv, IsRestartComplete
  PROVE  IInv'
<1>1. /\ pc = "isComplete" /\ pc \in Calls
      /\ UNCHANGED <<api, seen, read, fresh, host, edits, due>>
      /\ host' \in HostStates /\ due' \in BOOLEAN
      /\ work \in Objects /\ work.status = read
  BY DEF IInv, TypeOK, IsRestartComplete, Calls, TriggerKnown
<1>2. CASE RestartComplete /\ Call("get", Acknowledge(work)) /\ UNCHANGED <<queued, faults>>
  <2>1. PICK w \in Objects : w = Acknowledge(work)
    BY <1>1, AcknowledgeType
  <2>2. /\ w.strategy = work.strategy /\ w.trigger = work.trigger
        /\ w.status.trigger = w.trigger /\ Call("get", w)
    BY <1>1, <1>2, <2>1, AcknowledgeType DEF Call
  <2>3. ~host'.reboot
    BY <1>1, <1>2, BackendsAssumption DEF RestartComplete, Transitioning, HostStates
  <2> QED  BY <1>1, <1>2, <2>2, <2>3, CallKeeps
<1>3. CASE Return([work.status EXCEPT !.phase = "Progressing"], TRUE) /\ UNCHANGED faults
  <2>1. PICK s \in Statuses : s = [work.status EXCEPT !.phase = "Progressing"]
    BY <1>1, ObjectType, StatusType DEF Strategies, Synced
  <2>2. Return(s, TRUE) /\ s.trigger = read.trigger
    BY <1>1, <1>3, <2>1, ObjectType DEF Return, Call, Statuses
  <2>3. faults' \in 0..MaxFaults
    BY <1>3 DEF IInv, TypeOK
  <2> QED  BY <1>1, <2>2, <2>3, RequeueKeeps
<1>4. CASE Failure("PowerSyncFailed")
  BY <1>1, <1>4, FailureKeeps DEF Synced
<1> QED  BY <1>2, <1>3, <1>4 DEF IsRestartComplete

LEMMA TriggerRestartKeeps ==
  ASSUME IInv, TriggerRestart \/ RestartRefused
  PROVE  IInv'
<1>1. /\ pc = "trigger" /\ pc \in Calls
      /\ UNCHANGED <<api, seen, read, fresh, edits>>
      /\ host' \in HostStates /\ due' \in BOOLEAN
      /\ work \in Objects /\ work.status = read /\ work.status \in Statuses
  BY DEF IInv, TypeOK, TriggerRestart, RestartRefused, Calls, TriggerKnown, HostStates
<1>2. CASE Failure("PowerSyncFailed")
  BY <1>1, <1>2, FailureKeeps DEF Synced
<1>3. ASSUME NEW y \in {"Progressing", "PowerSyncFailed"},
             Return([work.status EXCEPT !.phase = "Progressing", !.synced = y], TRUE),
             UNCHANGED faults
      PROVE  IInv'
  <2>1. PICK s \in Statuses : s = [work.status EXCEPT !.phase = "Progressing", !.synced = y]
    BY <1>1, StatusType DEF Strategies, Synced
  <2>2. Return(s, TRUE) /\ s.trigger = read.trigger
    BY <1>1, <1>3, <2>1 DEF Return, Call, Statuses
  <2>3. faults' \in 0..MaxFaults
    BY <1>3 DEF IInv, TypeOK
  <2> QED  BY <1>1, <2>2, <2>3, RequeueKeeps
<1> QED  BY <1>2, <1>3 DEF TriggerRestart, RestartRefused

\* Reporting the power state: the one return that may rest.
LEMMA ReportKeeps ==
  ASSUME IInv, Report, pc \in {"get", "getAgain"},
         UNCHANGED <<api, seen, read, fresh, host, edits, due>>
  PROVE  IInv'
<1>1. work \in Objects /\ host \in HostStates /\ work.status \in Statuses
  BY ObjectType DEF IInv, TypeOK
<1> DEFINE off == work.strategy # "" /\ work.strategy # PowerState
           again == work.strategy # "" /\ (Transitioning \/ off)
           y == IF Transitioning \/ off THEN "Progressing" ELSE "True"
           p == IF again THEN "Progressing" ELSE "Ready"
<1>2. PICK s \in Statuses :
        s = [work.status EXCEPT !.observed = PowerState, !.synced = y, !.phase = p]
  BY <1>1, StatusType DEF PowerState, Strategies, Synced
<1>3. Return(s, again) /\ UNCHANGED faults
  BY <1>2 DEF Report, Return, Call
<1>4. /\ s.trigger = work.status.trigger /\ s.phase = p
      /\ s.trigger = work.trigger
      /\ s.trigger # read.trigger => work.strategy = "Halted" \/ ~host.reboot
  BY <1>1, <1>2 DEF Statuses, IInv, TriggerKnown
<1>5. again \in BOOLEAN
  OBVIOUS
<1>6. CASE again = TRUE
  <2>1. Return(s, TRUE) /\ faults' \in 0..MaxFaults /\ due' \in BOOLEAN
    BY <1>3, <1>6 DEF IInv, TypeOK
  <2> QED  BY <1>1, <1>4, <2>1, RequeueKeeps DEF Calls
<1>7. CASE again = FALSE
  <2>1. Return(s, FALSE)
    BY <1>3, <1>7
  <2>2. /\ pc' = "status" /\ queued' \in BOOLEAN /\ work' \in Objects
        /\ work'.status = s /\ work'.strategy = work.strategy /\ work'.trigger = work.trigger
        /\ ~queued' => ~queued
    BY <2>1, ReturnEffect DEF IInv
  <2>3. Told(work.strategy)
    BY <1>1, <1>7 DEF Told, Transitioning, PowerState, HostStates, Objects, Strategies
  <2>4. TypeOK'
    BY <1>3, <2>2 DEF IInv, TypeOK
  <2>5. CopyOfSeen' /\ CopyOfStored'
    BY <2>2 DEF IInv, CopyOfSeen, CopyOfStored
  <2>6. TriggerKnown'
    BY <1>4, <2>2 DEF TriggerKnown
  <2>7. ReturnIsDone'
    BY <1>4, <1>7, <2>2, <2>3 DEF ReturnIsDone, Told
  <2> QED  BY <2>2, <2>4, <2>5, <2>6, <2>7 DEF IInv, RestIsDone
<1> QED  BY <1>5, <1>6, <1>7

LEMMA GetPowerStateKeeps ==
  ASSUME IInv, GetPowerState \/ GetPowerStateAgain
  PROVE  IInv'
<1>1. /\ pc \in {"get", "getAgain"} /\ pc \in Calls
      /\ UNCHANGED <<api, seen, read, fresh, host, edits, due>>
      /\ host' \in HostStates /\ due' \in BOOLEAN /\ work \in Objects
  BY DEF IInv, TypeOK, GetPowerState, GetPowerStateAgain, Calls
<1>2. CASE Report
  BY <1>1, <1>2, ReportKeeps
<1>3. CASE Failure("IronicAPIFailure")
  BY <1>1, <1>3, FailureKeeps DEF Synced
<1>4. ASSUME NEW c \in {"set", "getAgain"}, Call(c, work), work.strategy # "",
             UNCHANGED <<queued, faults>>
      PROVE  IInv'
  <2>1. PICK w \in Objects : w = work
    BY <1>1
  <2>2. Call(c, w)
    BY <1>4, <2>1 DEF Call
  <2>3. /\ w.status.trigger = w.trigger
        /\ w.status.trigger # read.trigger => w.strategy = "Halted" \/ ~host'.reboot
    BY <1>1, <2>1 DEF IInv, TriggerKnown
  <2> QED  BY <1>1, <1>4, <2>1, <2>2, <2>3, CallKeeps
<1> QED  BY <1>2, <1>3, <1>4 DEF GetPowerState, GetPowerStateAgain

LEMMA SetPowerStateKeeps ==
  ASSUME IInv, SetPowerState \/ PowerChangeFails
  PROVE  IInv'
<1>1. /\ pc = "set" /\ pc \in Calls
      /\ UNCHANGED <<api, seen, read, fresh, edits, due>>
      /\ due' \in BOOLEAN /\ work \in Objects
  BY DEF IInv, TypeOK, SetPowerState, PowerChangeFails, Calls
<1>2. host' \in HostStates /\ host'.reboot = host.reboot
  <2>1. (work.strategy = "Always") \in BOOLEAN /\ host \in HostStates
    BY DEF IInv, TypeOK
  <2>2. PICK b \in BOOLEAN : b = (work.strategy = "Always")
    BY <2>1
  <2>3. host' = host \/ host' = [host EXCEPT !.want = b]
    BY <2>2 DEF SetPowerState, PowerChangeFails
  <2> QED  BY <2>1, <2>3 DEF HostStates
<1>3. CASE Failure("IronicAPIFailure")
  BY <1>1, <1>2, <1>3, FailureKeeps DEF Synced
<1>4. CASE Call("getAgain", work) /\ UNCHANGED <<queued, faults>>
  <2>1. PICK w \in Objects : w = work
    BY <1>1
  <2>2. Call("getAgain", w)
    BY <1>4, <2>1 DEF Call
  <2>3. /\ w.status.trigger = w.trigger
        /\ w.status.trigger # read.trigger => w.strategy = "Halted" \/ ~host'.reboot
    BY <1>1, <1>2, <2>1 DEF IInv, TriggerKnown
  <2> QED  BY <1>1, <1>2, <1>4, <2>1, <2>2, <2>3, CallKeeps
<1> QED  BY <1>3, <1>4 DEF SetPowerState, PowerChangeFails

LEMMA WriteStatusKeeps ==
  ASSUME IInv, WriteStatus
  PROVE  IInv'
<1>1. /\ pc = "status" /\ pc' = "idle" /\ work' = Blank /\ read' = FirstStatus /\ fresh' = FALSE
      /\ UNCHANGED <<seen, host, edits, due>>
      /\ work \in Objects /\ work.status \in Statuses
  BY ObjectType DEF IInv, TypeOK, WriteStatus
<1>2. TypeOK'
  <2>1. api' \in Objects
    <3>1. PICK s \in Statuses : s = work.status
      BY <1>1
    <3>2. api' = api \/ api' = [api EXCEPT !.status = s]
      BY <3>1 DEF WriteStatus
    <3> QED  BY <3>2, ObjectType DEF IInv, TypeOK
  <2>2. queued' \in BOOLEAN /\ faults' \in 0..MaxFaults
    BY FaultType DEF IInv, TypeOK, WriteStatus
  <2> QED  BY <1>1, <2>1, <2>2, BlankType DEF IInv, TypeOK
<1>3. RestIsDone'
  <2>1. CASE work.status = read /\ UNCHANGED <<api, queued>>
    BY <1>1, <2>1 DEF IInv, CopyOfSeen, ReturnIsDone, RestIsDone, Told
  <2>2. CASE work.status # read /\ api' = [api EXCEPT !.status = work.status] /\ queued' = queued
    <3>1. api'.status = work.status
      BY <2>2 DEF IInv, TypeOK, Objects
    <3> QED  BY <1>1, <2>2, <3>1 DEF IInv, CopyOfSeen, RestIsDone
  <2>3. CASE queued' = TRUE
    BY <2>3 DEF RestIsDone
  <2> QED  BY <2>1, <2>2, <2>3 DEF WriteStatus
<1> QED
  BY <1>1, <1>2, <1>3 DEF IInv, CopyOfSeen, CopyOfStored, TriggerKnown, ReturnIsDone

LEMMA NextInvariant ==
  ASSUME IInv, [Next]_vars
  PROVE  IInv'
<1>1. CASE UNCHANGED vars
  BY <1>1 DEF vars, IInv, TypeOK, CopyOfSeen, CopyOfStored, TriggerKnown, ReturnIsDone,
              RestIsDone, Told
<1>2. CASE Next
  BY <1>2, UserKeeps, SyncKeeps, RestartKeeps, HostKeeps, ReconcileKeeps,
     IsRestartCompleteKeeps, TriggerRestartKeeps, GetPowerStateKeeps, SetPowerStateKeeps,
     WriteStatusKeeps DEF Next, Step
<1> QED  BY <1>1, <1>2

-----------------------------------------------------------------------------
(***************************************************************************)
(* Theorems.                                                               *)
(***************************************************************************)
\* The invariant holds in every reachable state.
THEOREM Invariance == Spec => []IInv
<1>1. Init => IInv
  BY InitInvariant
<1>2. IInv /\ [Next]_vars => IInv'
  BY NextInvariant
<1> QED  BY <1>1, <1>2, PTL DEF Spec

\* The variables have their types (reconcileManagement and what it calls).
THEOREM TypeCorrect == Spec => []TypeOK
<1>1. IInv => TypeOK
  BY DEF IInv
<1> QED  BY <1>1, Invariance, PTL

\* A controller at rest has nothing left to do: no return of
\* reconcileManagement forgets to come back.
THEOREM NothingForgotten == Spec => []QuiescentIsDone
<1>1. IInv => QuiescentIsDone
  BY DEF IInv, RestIsDone, QuiescentIsDone, Told
<1> QED  BY <1>1, Invariance, PTL

\* A restart trigger is acknowledged only when no restart is pending any more,
\* or the instance is halted (reconcileRestartTrigger).
THEOREM NotAcknowledgedEarly == Spec => AcknowledgedAfterRestart
<1>1. IInv /\ [Next]_vars =>
        [api'.status.trigger # api.status.trigger =>
           api.strategy = "Halted" \/ ~host.reboot]_vars
  <2>1. SUFFICES ASSUME IInv, Next, api'.status.trigger # api.status.trigger
                 PROVE  api.strategy = "Halted" \/ ~host.reboot
    OBVIOUS
  <2>2. CASE WriteStatus
    <3>1. /\ pc = "status" /\ fresh
          /\ api' = [api EXCEPT !.status = work.status]
      BY <2>1, <2>2 DEF WriteStatus
    <3>2. api'.status = work.status
      BY <2>1, <3>1 DEF IInv, TypeOK, Objects
    <3> QED  BY <2>1, <3>1, <3>2 DEF IInv, CopyOfStored, TriggerKnown
  <2>3. CASE ChangeStrategy \/ ChangeTrigger
    BY <2>1, <2>3 DEF ChangeStrategy, ChangeTrigger, Edit, IInv, TypeOK, Objects
  <2>4. CASE ~(WriteStatus \/ ChangeStrategy \/ ChangeTrigger)
    BY <2>1, <2>4 DEF Next, Step, Sync, Resync, Restart, Reconcile, HostConverges, HostReboots,
       IsRestartComplete, TriggerRestart, RestartRefused, GetPowerState, SetPowerState,
       PowerChangeFails, GetPowerStateAgain
  <2> QED  BY <2>2, <2>3, <2>4
<1> QED  BY <1>1, Invariance, PTL DEF Spec, AcknowledgedAfterRestart
=============================================================================
