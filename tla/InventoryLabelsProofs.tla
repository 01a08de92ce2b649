------------------------ MODULE InventoryLabelsProofs ------------------------
(***************************************************************************)
(* Proofs about InventoryLabels, for any instances, any labels and any     *)
(* bound on the failures, as long as a request that was given up does not  *)
(* arrive later at Ironic, which applies a patch to whatever is stored.    *)
(*                                                                         *)
(* The argument: a request that can still take effect says the truth about *)
(* the host.  At a BareMetalHost that is what the version of the object is *)
(* for; at Ironic it takes the lock, under which nobody else writes.       *)
(***************************************************************************)
EXTENDS InventoryLabels, TLAPS

\* A request says of the host what is so.
Grounded(r) ==
  /\ r.type = "init" => ~host.created
  /\ r.type = "assign" =>
       /\ r.by \in Instances /\ r.keys = Combined(r.by)
       /\ host.claim \in {None, r.by} /\ host.created
  /\ r.type = "unassign" =>
       /\ r.by \in Instances /\ r.keys = Removed(r.by) \cap Present
       /\ r.claimed <=> host.claim # None

\* All requests that the backend may still accept do.
RequestsGrounded ==
  /\ backend = "openstack" \/ request.current => Grounded(request)
  /\ \A r \in late : r.current => Grounded(r)

\* A host without a label object has no claim and no labels.
BlankHost ==
  ~host.created => backend = "openstack" /\ host.claim = None /\ Present = {}

\* There is something that it takes from the host.
Removes(r) == r.keys # {} \/ r.claimed

\* Whose requests there are, and how far these instances are.
Stations ==
  /\ pc = "send" =>
       /\ request.by = locked
       /\ request.type = "unassign" <=> stage[locked] = "releasing"
  /\ \A r \in late :
       r.current /\ r.type = "unassign" /\ Removes(r) => stage[r.by] = "releasing"

LateOnlyAtMetal3 == late = {} \/ backend = "metal3"

LabelsInv == /\ RequestsGrounded /\ BlankHost /\ Stations /\ LateOnlyAtMetal3
             /\ HolderHasItsLabels

IInv == TypeOK /\ LabelsInv

-----------------------------------------------------------------------------
(***************************************************************************)
(* Type correctness.                                                       *)
(***************************************************************************)
\* What the lock, the step and the request have to do with each other.
OperationType ==
  /\ locked \in Instances \cup {None}
  /\ pc \in {"idle", "get", "send"} /\ (pc = "idle" <=> locked = None)
  /\ request \in Requests /\ (pc = "send" <=> request.type # "none")
  /\ retried \in BOOLEAN

LEMMA NoRequestType == NoRequest \in Requests /\ NoRequest.type = "none"
BY DEF NoRequest, Requests

\* The requests the operations send are requests.
LEMMA RequestType ==
  ASSUME NEW i \in Instances
  PROVE  /\ AssignRequest(i) \in Requests /\ AssignRequest(i).type = "assign"
         /\ InitRequest(i) \in Requests /\ InitRequest(i).type = "init"
         /\ UnassignRequest(i) \in Requests /\ UnassignRequest(i).type = "unassign"
<1>1. Combined(i) \subseteq Keys /\ Removed(i) \subseteq Keys
  BY PlainAssumption, PersistentAssumption DEF Combined, Removed
<1>3. AssignRequest(i) \in Requests /\ AssignRequest(i).type = "assign"
  BY <1>1 DEF AssignRequest, Requests
<1>4. InitRequest(i) \in Requests /\ InitRequest(i).type = "init"
  BY DEF InitRequest, NoRequest, Requests
<1>5. UnassignRequest(i) \in Requests /\ UnassignRequest(i).type = "unassign"
  BY <1>1 DEF UnassignRequest, Requests
<1> QED  BY <1>3, <1>4, <1>5

\* A host stays a host with whatever request it takes.
LEMMA EffectType ==
  ASSUME host \in HostStates, NEW r \in Requests, r.type # "none"
  PROVE  Effect(r) \in HostStates
<1>1. /\ r.by \in Instances \cup {None} /\ r.type \in {"init", "assign", "unassign"}
      /\ host.claim \in Instances \cup {None}
      /\ host.labels \in [Keys -> Instances \cup {None}]
  BY DEF Requests, HostStates
<1>2. CASE r.type = "init"
  BY <1>2 DEF Effect, HostStates
<1>3. CASE r.type = "assign"
  <2>1. Effect(r) = [host EXCEPT !.claim = r.by,
                       !.labels = [k \in Keys |-> IF k \in r.keys THEN r.by ELSE @[k]]]
    BY <1>3 DEF Effect
  <2>2. [k \in Keys |-> IF k \in r.keys THEN r.by ELSE host.labels[k]]
          \in [Keys -> Instances \cup {None}]
    BY <1>1
  <2> QED  BY <1>1, <2>1, <2>2 DEF HostStates
<1>4. CASE r.type = "unassign"
  <2>1. Effect(r) = [host EXCEPT !.claim = IF r.claimed THEN None ELSE @,
                       !.labels = [k \in Keys |-> IF k \in r.keys THEN None ELSE @[k]]]
    BY <1>4 DEF Effect
  <2>2. [k \in Keys |-> IF k \in r.keys THEN None ELSE host.labels[k]]
          \in [Keys -> Instances \cup {None}]
    BY <1>1
  <2> QED  BY <1>1, <2>1, <2>2 DEF HostStates
<1> QED  BY <1>1, <1>2, <1>3, <1>4

LEMMA OutdatedType ==
  ASSUME NEW r \in Requests
  PROVE  /\ Outdated(r) \in Requests
         /\ Outdated(r).type = r.type /\ Outdated(r).by = r.by /\ Outdated(r).keys = r.keys
         /\ Outdated(r).claimed = r.claimed
         /\ Outdated(r).current => r.current /\ host' = host
BY DEF Outdated, Requests

\* The end of an operation, and the next request of it.
LEMMA EndType == ASSUME End PROVE OperationType'
BY DEF End, OperationType, NoRequest, Requests

LEMMA PrepareType ==
  ASSUME TypeOK, pc # "idle", NEW r \in Requests, r.type # "none", Prepare(r)
  PROVE  OperationType' /\ stage' \in [Instances -> Stages]
BY DEF Prepare, OperationType, TypeOK

LEMMA ReachesType ==
  ASSUME TypeOK, NEW s \in Stages, Reaches(s)
  PROVE  stage' \in [Instances -> Stages]
BY DEF Reaches, TypeOK

LEMMA FaultType ==
  ASSUME TypeOK, Fault
  PROVE  faults' \in 0..MaxFaults
BY FaultsAssumption DEF Fault, TypeOK

LEMMA InitType == Init => TypeOK
<1> SUFFICES ASSUME Init PROVE TypeOK
  OBVIOUS
<1>1. host \in HostStates
  <2>1. (backend = "metal3") \in BOOLEAN
    OBVIOUS
  <2>2. [k \in Keys |-> None] \in [Keys -> Instances \cup {None}]
    OBVIOUS
  <2> QED  BY <2>1, <2>2, Zenon DEF Init, HostStates
<1>2. request \in Requests /\ request.type = "none"
  BY NoRequestType DEF Init
<1>3. faults \in 0..MaxFaults
  BY FaultsAssumption DEF Init
<1> QED  BY <1>1, <1>2, <1>3 DEF Init, TypeOK, Stages

\* The steps of an operation.
LEMMA GetType ==
  ASSUME TypeOK, GetForAssign \/ GetForUnassign
  PROVE  TypeOK'
<1>1. locked \in Instances /\ pc # "idle" /\ {"new", "gone"} \subseteq Stages
  BY DEF TypeOK, GetForAssign, GetForUnassign, Stages
<1>2. UNCHANGED <<backend, host, late, faults>>
  BY DEF GetForAssign, GetForUnassign
<1>3. OperationType' /\ stage' \in [Instances -> Stages]
  <2>1. CASE \E s \in {"new", "gone"} : Reaches(s) /\ End
    BY <1>1, <2>1, ReachesType, EndType
  <2>2. CASE \E r \in {AssignRequest(locked), InitRequest(locked), UnassignRequest(locked)} :
               Prepare(r)
    BY <1>1, <2>2, PrepareType, RequestType
  <2> QED  BY <2>1, <2>2 DEF GetForAssign, GetForUnassign
<1> QED  BY <1>2, <1>3 DEF TypeOK, OperationType

LEMMA SendType ==
  ASSUME TypeOK, Send
  PROVE  TypeOK'
<1>1. /\ locked \in Instances /\ pc # "idle" /\ {"bound", "gone"} \subseteq Stages
      /\ request \in Requests /\ request.type # "none"
  BY DEF TypeOK, Send, Stages
<1>2. host' \in HostStates
  BY <1>1, EffectType DEF Send, TypeOK
<1>3. late' \subseteq {r \in Requests : r.type # "none"}
  BY OutdatedType DEF Send, TypeOK
<1>4. OperationType' /\ stage' \in [Instances -> Stages]
  BY <1>1, ReachesType, EndType, PrepareType, RequestType DEF Send
<1> QED  BY <1>2, <1>3, <1>4 DEF TypeOK, OperationType, Send

LEMMA FailureType ==
  ASSUME TypeOK, Refused \/ CallFails \/ AnswerLost \/ AuthError \/ GivenUp
  PROVE  TypeOK'
<1>1. faults' \in 0..MaxFaults
  BY FaultType DEF Refused, CallFails, AnswerLost, AuthError, GivenUp, TypeOK
<1>2. OperationType'
  <2>1. CASE End
    BY <2>1, EndType
  <2>2. CASE retried' = TRUE /\ pc' = "get" /\ request' = NoRequest /\ UNCHANGED locked
                /\ pc \in {"get", "send"}
    BY <2>2 DEF OperationType, TypeOK, NoRequest, Requests
  <2> QED  BY <2>1, <2>2 DEF Refused, CallFails, AnswerLost, AuthError, GivenUp
<1>3. host' \in HostStates /\ late' \subseteq {r \in Requests : r.type # "none"}
  <2>1. CASE AnswerLost
    <3>1. request \in Requests /\ request.type # "none"
      BY <2>1 DEF TypeOK, AnswerLost
    <3> QED  BY <2>1, <3>1, EffectType, OutdatedType DEF AnswerLost, TypeOK
  <2>2. CASE ~AnswerLost
    BY <2>2 DEF Refused, CallFails, AuthError, GivenUp, TypeOK
  <2> QED  BY <2>1, <2>2
<1>4. UNCHANGED <<backend, stage>>
  BY DEF Refused, CallFails, AnswerLost, AuthError, GivenUp
<1> QED  BY <1>1, <1>2, <1>3, <1>4 DEF TypeOK, OperationType

\* The steps outside of the operation.
LEMMA OutsideType ==
  ASSUME TypeOK,
         \/ \E i \in Instances : Find(i) \/ Delete(i) \/ Begin(i)
         \/ OtherWrite
         \/ \E r \in late : LateArrives(r)
  PROVE  TypeOK'
<1>1. CASE \E i \in Instances : Find(i) \/ Delete(i)
  BY <1>1 DEF TypeOK, Find, Delete, Stages, operation
<1>2. CASE \E i \in Instances : Begin(i)
  BY <1>2, NoneAssumption, NoRequestType DEF TypeOK, Begin
<1>3. CASE OtherWrite
  <2>1. \A r \in Requests : /\ [r EXCEPT !.current = FALSE] \in Requests
                            /\ [r EXCEPT !.current = FALSE].type = r.type
    BY DEF Requests
  <2>2. request' \in Requests /\ request'.type = request.type
    BY <1>3, <2>1 DEF TypeOK, OtherWrite
  <2>3. \A q \in late' : q \in Requests /\ q.type # "none"
    <3>1. late' = {[r EXCEPT !.current = FALSE] : r \in late}
      BY <1>3 DEF OtherWrite
    <3>2. \A r \in late : r \in Requests /\ r.type # "none"
      BY DEF TypeOK
    <3> QED  BY <2>1, <3>1, <3>2, Zenon
  <2>4. faults' \in 0..MaxFaults
    BY <1>3, FaultType DEF OtherWrite
  <2> QED  BY <1>3, <2>2, <2>3, <2>4 DEF TypeOK, OtherWrite
<1>4. CASE \E r \in late : LateArrives(r)
  <2>1. PICK r \in late : LateArrives(r)
    BY <1>4
  <2>2. r \in Requests /\ r.type # "none" /\ late' \subseteq {q \in Requests : q.type # "none"}
    BY <2>1, OutdatedType DEF LateArrives, TypeOK
  <2>3. host' \in HostStates
    BY <2>1, <2>2, EffectType DEF LateArrives, TypeOK
  <2>4. request' \in Requests /\ request'.type = request.type
    BY <2>1, OutdatedType DEF LateArrives, TypeOK
  <2> QED  BY <2>1, <2>2, <2>3, <2>4 DEF LateArrives, TypeOK
<1> QED  BY <1>1, <1>2, <1>3, <1>4

LEMMA NextType == TypeOK /\ [Next]_vars => TypeOK'
<1>1. CASE UNCHANGED vars
  BY <1>1 DEF vars, operation, TypeOK
<1> QED  BY <1>1, GetType, SendType, FailureType, OutsideType DEF Next, Step

\* In every reachable state the variables have their types: there is an
\* operation exactly while the host is locked, and a request exactly while one
\* is to be sent, whatever fails (openstack.go:247-261, 342-356).
THEOREM TypeCorrect == Spec => []TypeOK
<1> QED  BY InitType, NextType, PTL DEF Spec


-----------------------------------------------------------------------------
(***************************************************************************)
(* What a request does to the host.                                        *)
(***************************************************************************)
\* The steps of the abstract specification, on the host of this module.
Assigned(i) ==
  /\ host.claim \in {None, i}
  /\ host'.claim = i
  /\ host'.labels = [k \in Keys |-> IF k \in Plain[i] \cup Persistent[i]
                                      THEN i ELSE host.labels[k]]

Released(i) ==
  /\ host'.claim = None
  /\ host'.labels = [k \in Keys |-> IF k \in Plain[i] THEN None ELSE host.labels[k]]

Created == host'.claim = host.claim /\ host'.labels = host.labels

\* The state is one of the invariant, and r a request that says the truth and
\* takes effect.
Applies(r) == /\ r \in Requests /\ r.type # "none" /\ Grounded(r)
              /\ host' = Effect(r)

LEMMA InitEffect ==
  ASSUME IInv, NEW r, Applies(r), r.type = "init"
  PROVE  Created /\ host'.created /\ host.claim = None /\ ~host.created
<1>1. ~host.created
  BY DEF Applies, Grounded
<1>2. host.claim = None /\ Present = {}
  BY <1>1 DEF IInv, LabelsInv, BlankHost
<1>3. host.labels \in [Keys -> Instances \cup {None}]
  BY DEF IInv, TypeOK, HostStates
<1>4. \A k \in Keys : host.labels[k] = None
  BY <1>2 DEF Present
<1>5. host' = [claim |-> None, labels |-> [k \in Keys |-> None], created |-> TRUE]
  BY DEF Applies, Effect
<1>6. host.labels = [k \in Keys |-> None]
  BY <1>3, <1>4
<1> QED  BY <1>1, <1>2, <1>5, <1>6 DEF Created

LEMMA AssignEffect ==
  ASSUME IInv, NEW r, Applies(r), r.type = "assign"
  PROVE  r.by \in Instances /\ Assigned(r.by) /\ host'.created /\ host.created
<1>1. /\ r.by \in Instances /\ r.keys = Plain[r.by] \cup Persistent[r.by]
      /\ host.claim \in {None, r.by} /\ host.created
  BY DEF Applies, Grounded, Combined
<1>2. host' = [host EXCEPT !.claim = r.by,
                 !.labels = [k \in Keys |-> IF k \in r.keys THEN r.by ELSE @[k]]]
  BY DEF Applies, Effect
<1>3. host \in HostStates
  BY DEF IInv, TypeOK
<1> QED  BY <1>1, <1>2, <1>3 DEF Assigned, HostStates

\* A key that is not there need not be removed.
LEMMA UnassignEffect ==
  ASSUME IInv, NEW r, Applies(r), r.type = "unassign"
  PROVE  r.by \in Instances /\ Released(r.by) /\ host'.created = host.created
<1>1. /\ r.by \in Instances /\ r.keys = Plain[r.by] \cap Present
      /\ r.claimed <=> host.claim # None
  BY DEF Applies, Grounded, Removed
<1>2. host' = [host EXCEPT !.claim = IF r.claimed THEN None ELSE @,
                 !.labels = [k \in Keys |-> IF k \in r.keys THEN None ELSE @[k]]]
  BY DEF Applies, Effect
<1>3. host \in HostStates
  BY DEF IInv, TypeOK
<1>4. host'.claim = None
  BY <1>1, <1>2, <1>3 DEF HostStates
<1>5. host'.labels = [k \in Keys |-> IF k \in r.keys THEN None ELSE host.labels[k]]
  BY <1>2, <1>3 DEF HostStates
<1>6. \A k \in Keys : (IF k \in r.keys THEN None ELSE host.labels[k])
                      = (IF k \in Plain[r.by] THEN None ELSE host.labels[k])
  BY <1>1 DEF Present
<1>7. host'.labels = [k \in Keys |-> IF k \in Plain[r.by] THEN None ELSE host.labels[k]]
  BY <1>5, <1>6
<1> QED  BY <1>1, <1>2, <1>3, <1>4, <1>7 DEF Released, HostStates

\* Whatever request it is, the claim and the labels are those of one step.
LEMMA HostStep ==
  ASSUME IInv, NEW r, Applies(r)
  PROVE  /\ HolderHasItsLabels'
         /\ BlankHost' \/ backend' # backend
         /\ Created \/ \E i \in Instances : Assigned(i) \/ Released(i)
<1>1. host.labels \in [Keys -> Instances \cup {None}]
  BY DEF IInv, TypeOK, HostStates
<1>2. \A i \in Instances : Plain[i] \subseteq Keys /\ Persistent[i] \subseteq Keys
  BY PlainAssumption, PersistentAssumption
<1>3. HolderHasItsLabels
  BY DEF IInv, LabelsInv
<1>4. r.type \in {"init", "assign", "unassign"}
  BY DEF Applies, Requests
<1>5. CASE r.type = "init"
  <2>1. Created /\ host'.created
    BY <1>5, InitEffect
  <2>2. HolderHasItsLabels'
    BY <1>3, <2>1 DEF Created, HolderHasItsLabels, Combined
  <2> QED  BY <2>1, <2>2 DEF BlankHost
<1>6. CASE r.type = "assign"
  <2>1. r.by \in Instances /\ Assigned(r.by) /\ host'.created
    BY <1>6, AssignEffect
  <2>2. HolderHasItsLabels'
    BY <1>2, <2>1 DEF Assigned, HolderHasItsLabels, Combined
  <2> QED  BY <2>1, <2>2 DEF BlankHost
<1>7. CASE r.type = "unassign"
  <2>1. r.by \in Instances /\ Released(r.by) /\ host'.created = host.created
    BY <1>7, UnassignEffect
  <2>2. HolderHasItsLabels'
    BY <2>1, NoneAssumption DEF Released, HolderHasItsLabels
  <2>3. BlankHost' \/ backend' # backend
    <3>1. CASE host.created
      BY <2>1, <3>1 DEF BlankHost
    <3>2. CASE ~host.created
      <4>1. backend = "openstack" /\ host.claim = None /\ Present = {}
        BY <3>2 DEF IInv, LabelsInv, BlankHost
      <4>2. \A k \in Keys : host.labels[k] = None
        BY <4>1 DEF Present
      <4>3. \A k \in Keys : host'.labels[k] = None
        BY <2>1, <4>2 DEF Released
      <4>4. Present' = {}
        BY <4>3 DEF Present
      <4> QED  BY <2>1, <4>1, <4>4 DEF BlankHost, Released
    <3> QED  BY <3>1, <3>2
  <2> QED  BY <2>1, <2>2, <2>3
<1> QED  BY <1>4, <1>5, <1>6, <1>7

\* A request that takes effect says the truth: at a BareMetalHost it is one for
\* the stored version, at Ironic the one of the operation that has the lock.
LEMMA AcceptedIsTrue ==
  ASSUME IInv, NEW r, Accepts(r), \/ r = request /\ pc = "send"
                                  \/ r \in late,
         host' = Effect(r)
  PROVE  Applies(r)
<1>1. r \in Requests /\ r.type # "none"
  BY DEF IInv, TypeOK
<1>2. Grounded(r)
  <2>1. CASE r.current
    BY <2>1 DEF IInv, LabelsInv, RequestsGrounded
  <2>2. CASE ~r.current
    <3>1. backend = "openstack"
      BY <2>2 DEF Accepts
    <3>2. late = {}
      BY <3>1 DEF IInv, LabelsInv, LateOnlyAtMetal3
    <3> QED  BY <3>1, <3>2 DEF IInv, LabelsInv, RequestsGrounded
  <2> QED  BY <2>1, <2>2
<1> QED  BY <1>1, <1>2 DEF Applies

-----------------------------------------------------------------------------
(***************************************************************************)
(* The invariant.                                                          *)
(***************************************************************************)
\* What it says of the request of the operation, and of those given up.
RequestTrue ==
  /\ backend = "openstack" \/ request.current => Grounded(request)
  /\ pc = "send" => /\ request.by = locked
                    /\ request.type = "unassign" <=> stage[locked] = "releasing"

LateTrue ==
  \A r \in late : r.current =>
     /\ Grounded(r)
     /\ r.type = "unassign" /\ Removes(r) => stage[r.by] = "releasing"

HostTrue == BlankHost /\ LateOnlyAtMetal3 /\ HolderHasItsLabels

LEMMA InvParts == LabelsInv <=> RequestTrue /\ LateTrue /\ HostTrue
BY DEF LabelsInv, RequestsGrounded, BlankHost, Stations, RequestTrue, LateTrue, HostTrue

LEMMA InvPartsNext == ASSUME RequestTrue', LateTrue', HostTrue' PROVE LabelsInv'
BY DEF LabelsInv, RequestsGrounded, BlankHost, Stations, RequestTrue, LateTrue, HostTrue

\* A claim of the truth is about the host and the request only.
LEMMA GroundedKept ==
  ASSUME UNCHANGED host, NEW r, Grounded(r), NEW q, q = r
  PROVE  Grounded(q)'
BY DEF Grounded, Present

LEMMA EndTrue == ASSUME End PROVE RequestTrue'
BY DEF End, RequestTrue, NoRequest, Grounded

\* A request is out of date when the host has changed.
LEMMA LateOutdated ==
  ASSUME IInv, late' \subseteq {Outdated(r) : r \in late},
         \A r \in late : host' = host /\ r.current /\ r.type = "unassign" /\ Removes(r)
                           => stage'[r.by] = "releasing"
  PROVE  LateTrue'
<1> SUFFICES ASSUME NEW q \in late', q.current
             PROVE  /\ Grounded(q)'
                    /\ q.type = "unassign" /\ Removes(q) => stage'[q.by] = "releasing"
  BY DEF LateTrue
<1>1. PICK r \in late : q = Outdated(r)
  OBVIOUS
<1>2. r \in Requests
  BY DEF IInv, TypeOK
<1>3. /\ r.current /\ host' = host
      /\ q.type = r.type /\ q.by = r.by /\ q.keys = r.keys /\ q.claimed = r.claimed
  BY <1>1, <1>2, OutdatedType
<1>4. Grounded(r)
  BY <1>3 DEF IInv, LabelsInv, RequestsGrounded
<1>5. Grounded(q)'
  BY <1>3, <1>4 DEF Grounded, Present
<1> QED  BY <1>3, <1>5 DEF Removes

LEMMA LateUnchanged ==
  ASSUME IInv, UNCHANGED <<host, late>>,
         \A i \in Instances : stage[i] = "releasing" => stage'[i] = "releasing"
  PROVE  LateTrue'
BY InvParts DEF IInv, LateTrue, Grounded, Present

LEMMA HostUnchanged ==
  ASSUME IInv, UNCHANGED <<backend, host>>, late' = {} \/ backend = "metal3"
  PROVE  HostTrue'
BY InvParts DEF IInv, HostTrue, BlankHost, LateOnlyAtMetal3, HolderHasItsLabels, Present

\* After a change of the host.
LEMMA HostChanged ==
  ASSUME IInv, NEW r, Applies(r), UNCHANGED backend, late' \subseteq {Outdated(q) : q \in late}
  PROVE  HostTrue'
<1>1. HolderHasItsLabels' /\ BlankHost'
  BY HostStep
<1>2. LateOnlyAtMetal3'
  <2>1. late = {} => late' = {}
    OBVIOUS
  <2> QED  BY <2>1 DEF IInv, LabelsInv, LateOnlyAtMetal3
<1> QED  BY <1>1, <1>2 DEF HostTrue

LEMMA RequestFields ==
  ASSUME NEW i
  PROVE  /\ AssignRequest(i).by = i /\ AssignRequest(i).type = "assign"
         /\ AssignRequest(i).keys = Combined(i)
         /\ InitRequest(i).by = i /\ InitRequest(i).type = "init"
         /\ UnassignRequest(i).by = i /\ UnassignRequest(i).type = "unassign"
         /\ UnassignRequest(i).keys = Removed(i) \cap Present
         /\ UnassignRequest(i).claimed <=> host.claim # None
<1>1. /\ InitRequest(i).by = i /\ InitRequest(i).type = "init"
  BY DEF InitRequest, NoRequest
<1>2. UnassignRequest(i).claimed <=> host.claim # None
  BY Zenon DEF UnassignRequest
<1>3. /\ UnassignRequest(i).by = i /\ UnassignRequest(i).type = "unassign"
      /\ UnassignRequest(i).keys = Removed(i) \cap Present
  BY Zenon DEF UnassignRequest
<1> QED  BY <1>1, <1>2, <1>3 DEF AssignRequest

\* What the client prepares after a look at the host is true of it.
LEMMA PreparedIsTrue ==
  ASSUME IInv, pc = "get", UNCHANGED <<backend, host>>,
         NEW r \in {AssignRequest(locked), InitRequest(locked), UnassignRequest(locked)},
         Prepare(r), r.type = "unassign" <=> stage[locked] = "releasing",
         r.type = "assign" => host.claim \in {None, locked} /\ host.created,
         r.type = "init" => ~host.created
  PROVE  RequestTrue'
<1>1. locked \in Instances /\ r.by = locked
  BY RequestFields DEF IInv, TypeOK
<1>2. /\ r.type = "assign" => r.keys = Combined(r.by)
      /\ r.type = "unassign" => /\ r.keys = Removed(r.by) \cap Present
                                /\ r.claimed <=> host.claim # None
  BY <1>1, RequestFields
<1>3. Grounded(r)
  BY <1>1, <1>2 DEF Grounded
<1>4. Grounded(request)'
  BY <1>3, GroundedKept DEF Prepare, Grounded, Present
<1> QED  BY <1>1, <1>4 DEF Prepare, RequestTrue

LEMMA InitInv == Init => LabelsInv
<1> SUFFICES ASSUME Init PROVE LabelsInv
  OBVIOUS
<1>1. RequestTrue /\ LateTrue
  BY DEF Init, RequestTrue, LateTrue, Grounded, NoRequest
<1>2. HostTrue
  BY NoneAssumption DEF Init, HostTrue, BlankHost, LateOnlyAtMetal3, HolderHasItsLabels,
                        Present, Backends
<1> QED  BY <1>1, <1>2, InvParts

LEMMA GetInv ==
  ASSUME IInv, GetForAssign \/ GetForUnassign
  PROVE  LabelsInv'
<1>1. /\ pc = "get" /\ locked \in Instances /\ UNCHANGED <<backend, host, late>>
      /\ \A i \in Instances : i # locked => stage'[i] = stage[i]
  BY DEF GetForAssign, GetForUnassign, Reaches, Prepare, End, IInv, TypeOK
<1>2. HostTrue'
  BY <1>1, HostUnchanged DEF IInv, LabelsInv, LateOnlyAtMetal3
<1>3. RequestTrue'
  <2>1. CASE End
    BY <2>1, EndTrue
  <2>2. CASE ~End
    <3>1. CASE GetForAssign
      <4>1. PICK r \in {AssignRequest(locked), InitRequest(locked)} :
              /\ Prepare(r)
              /\ r.type = "assign" => host.claim \in {None, locked} /\ host.created
              /\ r.type = "init" => ~host.created
        BY <2>2, <3>1, RequestType, <1>1 DEF GetForAssign
      <4>2. r.type # "unassign" /\ stage[locked] # "releasing"
        BY <1>1, <3>1, <4>1, RequestType DEF GetForAssign
      <4> QED  BY <1>1, <4>1, <4>2, PreparedIsTrue
    <3>2. CASE GetForUnassign
      <4>1. Prepare(UnassignRequest(locked)) /\ stage[locked] = "releasing"
        BY <2>2, <3>2 DEF GetForUnassign
      <4> QED  BY <1>1, <4>1, PreparedIsTrue, RequestType
    <3> QED  BY <3>1, <3>2
  <2> QED  BY <2>1, <2>2
<1>4. LateTrue'
  <2>1. CASE GetForAssign
    <3>1. stage[locked] # "releasing"
      BY <2>1 DEF GetForAssign
    <3>2. \A i \in Instances : stage[i] = "releasing" => stage'[i] = "releasing"
      BY <2>1, <3>1 DEF GetForAssign, Reaches, Prepare, IInv, TypeOK
    <3> QED  BY <1>1, <3>2, LateUnchanged
  <2>2. CASE GetForUnassign
    <3>1. late = {} \/ UNCHANGED stage
      BY <2>2 DEF GetForUnassign, Prepare, IInv, LabelsInv, LateOnlyAtMetal3
    <3>2. CASE late = {}
      BY <1>1, <3>2 DEF LateTrue
    <3>3. CASE UNCHANGED stage
      BY <1>1, <3>3, LateUnchanged
    <3> QED  BY <3>1, <3>2, <3>3
  <2> QED  BY <2>1, <2>2
<1> QED  BY <1>2, <1>3, <1>4, InvPartsNext

\* The request of an operation takes effect, whether its answer comes or not.
LEMMA RequestApplies ==
  ASSUME IInv, pc = "send", Accepts(request), host' = Effect(request)
  PROVE  /\ Applies(request) /\ locked \in Instances /\ request.by = locked
         /\ request.type = "unassign" <=> stage[locked] = "releasing"
BY AcceptedIsTrue DEF IInv, TypeOK, LabelsInv, Stations

LEMMA SendInv ==
  ASSUME IInv, Send
  PROVE  LabelsInv'
<1>1. /\ Applies(request) /\ locked \in Instances /\ request.by = locked
      /\ request.type = "unassign" <=> stage[locked] = "releasing"
  BY RequestApplies DEF Send
<1>2. HostTrue'
  BY <1>1, HostChanged DEF Send
<1>3. RequestTrue'
  <2>1. CASE End
    BY <2>1, EndTrue
  <2>2. CASE request.type = "init" /\ Prepare(AssignRequest(locked))
    <3>1. Created /\ host'.created /\ host.claim = None
      BY <1>1, <2>2, InitEffect
    <3>2. /\ request' = AssignRequest(locked) /\ pc' = "send"
          /\ locked' = locked /\ stage' = stage
      BY <2>2 DEF Prepare
    <3>3. /\ AssignRequest(locked).by = locked /\ AssignRequest(locked).type = "assign"
          /\ AssignRequest(locked).keys = Combined(locked)
      BY RequestFields
    <3>4. Grounded(request)'
      BY <1>1, <3>1, <3>2, <3>3 DEF Grounded, Created, Combined
    <3> QED  BY <1>1, <2>2, <3>2, <3>3, <3>4 DEF RequestTrue
  <2> QED  BY <2>1, <2>2 DEF Send
<1>4. LateTrue'
  <2>1. \A r \in late : host' = host /\ r.current /\ r.type = "unassign" /\ Removes(r)
                          => stage'[r.by] = "releasing"
    <3> SUFFICES ASSUME NEW r \in late, host' = host, r.current,
                        r.type = "unassign", Removes(r)
                 PROVE  stage'[r.by] = "releasing"
      OBVIOUS
    <3>1. /\ stage[r.by] = "releasing" /\ r.by \in Instances
          /\ r.keys = Plain[r.by] \cap Present
          /\ r.claimed <=> host.claim # None
      BY DEF IInv, LabelsInv, RequestsGrounded, Stations, Grounded, Removed
    <3>2. CASE r.by # locked
      BY <3>1, <3>2 DEF Send, Reaches, Prepare, IInv, TypeOK
    <3>3. CASE r.by = locked
      <4>1. request.type = "unassign"
        BY <1>1, <3>1, <3>3
      <4>2. Released(locked)
        BY <1>1, <4>1, UnassignEffect
      <4>3. host.claim # None \/ \E k \in Keys : k \in Plain[locked] /\ host.labels[k] # None
        BY <3>1, <3>3 DEF Removes, Present
      <4>4. host'.claim = None /\ \A k \in Keys : k \in Plain[locked] => host'.labels[k] = None
        BY <4>2 DEF Released
      <4> QED  BY <4>3, <4>4
    <3> QED  BY <3>2, <3>3
  <2> QED  BY <2>1, LateOutdated DEF Send
<1> QED  BY <1>2, <1>3, <1>4, InvPartsNext

LEMMA AnswerLostInv ==
  ASSUME IInv, AnswerLost
  PROVE  LabelsInv'
<1>1. Applies(request)
  BY RequestApplies DEF AnswerLost
<1>2. HostTrue'
  BY <1>1, HostChanged DEF AnswerLost
<1>3. LateTrue'
  <2>1. \A r \in late : r.current /\ r.type = "unassign" /\ Removes(r)
                          => stage[r.by] = "releasing"
    BY DEF IInv, LabelsInv, Stations
  <2> QED  BY <2>1, LateOutdated DEF AnswerLost
<1> QED  BY <1>2, <1>3, EndTrue, InvPartsNext DEF AnswerLost

\* The failures that leave the host alone and give nothing up.
LEMMA FailureInv ==
  ASSUME IInv, Refused \/ CallFails \/ AuthError
  PROVE  LabelsInv'
<1>1. UNCHANGED <<backend, host, stage, late>>
  BY DEF Refused, CallFails, AuthError
<1>2. HostTrue' /\ LateTrue'
  BY <1>1, HostUnchanged, LateUnchanged DEF IInv, LabelsInv, LateOnlyAtMetal3
<1>3. RequestTrue'
  <2>1. CASE End
    BY <2>1, EndTrue
  <2>2. CASE pc' = "get" /\ request' = NoRequest
    BY <2>2 DEF RequestTrue, NoRequest, Grounded
  <2> QED  BY <2>1, <2>2 DEF Refused, CallFails, AuthError
<1> QED  BY <1>2, <1>3, InvPartsNext

\* Only at a BareMetalHost does a request that was given up arrive later.
LEMMA GivenUpInv ==
  ASSUME IInv, LateWrites \subseteq {"metal3"}, GivenUp
  PROVE  LabelsInv'
<1>1. UNCHANGED <<backend, host, stage>> /\ backend = "metal3"
  BY DEF GivenUp
<1>2. HostTrue'
  BY <1>1, HostUnchanged
<1>3. LateTrue'
  <2>1. \A r \in late : r.current => /\ Grounded(r)
                                     /\ r.type = "unassign" /\ Removes(r)
                                          => stage[r.by] = "releasing"
    BY DEF IInv, LabelsInv, RequestsGrounded, Stations
  <2>2. request.current => /\ Grounded(request)
                           /\ request.type = "unassign" => stage[request.by] = "releasing"
    BY DEF IInv, LabelsInv, RequestsGrounded, Stations, GivenUp
  <2> QED  BY <1>1, <2>1, <2>2 DEF GivenUp, LateTrue, Grounded, Present
<1> QED  BY <1>2, <1>3, EndTrue, InvPartsNext DEF GivenUp

LEMMA LateArrivesInv ==
  ASSUME IInv, NEW r \in late, LateArrives(r)
  PROVE  LabelsInv'
<1>1. /\ backend = "metal3" /\ backend' = backend
      /\ request \in Requests /\ UNCHANGED <<stage, locked, pc>>
      /\ late' \subseteq {Outdated(q) : q \in late}
  BY DEF LateArrives, IInv, TypeOK, LabelsInv, LateOnlyAtMetal3
<1>2. HostTrue'
  <2>1. CASE Accepts(r) /\ host' = Effect(r)
    BY <1>1, <2>1, AcceptedIsTrue, HostChanged
  <2>2. CASE UNCHANGED host
    BY <1>1, <2>2, HostUnchanged
  <2> QED  BY <2>1, <2>2 DEF LateArrives
<1>3. LateTrue'
  <2>1. \A q \in late : q.current /\ q.type = "unassign" /\ Removes(q)
                          => stage[q.by] = "releasing"
    BY DEF IInv, LabelsInv, Stations
  <2> QED  BY <1>1, <2>1, LateOutdated
<1>4. RequestTrue'
  <2>1. CASE request' = Outdated(request)
    <3>1. /\ request'.by = request.by /\ request'.type = request.type
          /\ request'.keys = request.keys /\ request'.claimed = request.claimed
          /\ request'.current => request.current /\ host' = host
      BY <1>1, <2>1, OutdatedType
    <3>2. request'.current => Grounded(request)'
      <4> SUFFICES ASSUME request'.current PROVE Grounded(request)'
        OBVIOUS
      <4>1. Grounded(request) /\ host' = host
        BY <3>1 DEF IInv, LabelsInv, RequestsGrounded
      <4> QED  BY <3>1, <4>1 DEF Grounded, Present
    <3> QED  BY <1>1, <3>1, <3>2 DEF RequestTrue, IInv, LabelsInv, Stations
  <2>2. CASE UNCHANGED <<host, request>>
    BY <1>1, <2>2, InvParts DEF IInv, RequestTrue, Grounded, Present
  <2> QED  BY <2>1, <2>2 DEF LateArrives
<1> QED  BY <1>2, <1>3, <1>4, InvPartsNext

LEMMA OtherWriteInv ==
  ASSUME IInv, OtherWrite
  PROVE  LabelsInv'
<1>1. /\ backend = "metal3" /\ UNCHANGED <<backend, host, stage, locked, pc>>
      /\ request' = [request EXCEPT !.current = FALSE] /\ request \in Requests
      /\ late' = {[r EXCEPT !.current = FALSE] : r \in late}
      /\ late \subseteq Requests
  BY DEF OtherWrite, IInv, TypeOK
<1>2. HostTrue'
  BY <1>1, HostUnchanged
<1>3. ~request'.current /\ request'.by = request.by /\ request'.type = request.type
  BY <1>1 DEF Requests
<1>4. RequestTrue'
  BY <1>1, <1>3 DEF RequestTrue, IInv, LabelsInv, Stations
<1>5. LateTrue'
  <2>1. \A r \in Requests : ~[r EXCEPT !.current = FALSE].current
    BY DEF Requests
  <2>2. \A q \in late' : ~q.current
    BY <1>1, <2>1, Zenon
  <2> QED  BY <2>2 DEF LateTrue
<1> QED  BY <1>2, <1>4, <1>5, InvPartsNext

\* What happens between the operations.
LEMMA BetweenInv ==
  ASSUME IInv, NEW i \in Instances, Find(i) \/ Delete(i) \/ Begin(i)
  PROVE  LabelsInv'
<1>1. UNCHANGED <<backend, host, late>>
  BY DEF Find, Delete, Begin
<1>2. HostTrue'
  BY <1>1, HostUnchanged DEF IInv, LabelsInv, LateOnlyAtMetal3
<1>3. LateTrue'
  <2>1. \A j \in Instances : stage[j] = "releasing" => stage'[j] = "releasing"
    BY DEF Find, Delete, Begin, IInv, TypeOK
  <2> QED  BY <1>1, <2>1, LateUnchanged
<1>4. RequestTrue'
  <2>1. CASE Begin(i)
    BY <2>1 DEF Begin, RequestTrue, NoRequest, Grounded
  <2>2. CASE Find(i) \/ Delete(i)
    <3>1. UNCHANGED <<locked, pc, request>>
      BY <2>2 DEF Find, Delete, operation
    <3>2. pc = "send" => (stage'[locked] = "releasing" <=> stage[locked] = "releasing")
      BY <2>2 DEF Find, Delete, IInv, TypeOK
    <3> QED  BY <1>1, <3>1, <3>2, InvParts DEF IInv, RequestTrue, Grounded, Present
  <2> QED  BY <2>1, <2>2
<1> QED  BY <1>2, <1>3, <1>4, InvPartsNext

LEMMA NextInv ==
  ASSUME LateWrites \subseteq {"metal3"}, IInv, [Next]_vars
  PROVE  IInv'
<1>1. TypeOK'
  BY NextType DEF IInv
<1>2. LabelsInv'
  <2>1. CASE UNCHANGED vars
    <3>1. UNCHANGED <<backend, host, stage, locked, pc, request, late>>
      BY <2>1 DEF vars, operation
    <3>2. HostTrue' /\ LateTrue'
      BY <3>1, HostUnchanged, LateUnchanged DEF IInv, LabelsInv, LateOnlyAtMetal3
    <3>3. RequestTrue'
      BY <3>1, InvParts DEF IInv, RequestTrue, Grounded, Present
    <3> QED  BY <3>2, <3>3, InvPartsNext
  <2> QED  BY <2>1, GetInv, SendInv, AnswerLostInv, FailureInv, GivenUpInv, LateArrivesInv,
              OtherWriteInv, BetweenInv DEF Next, Step
<1> QED  BY <1>1, <1>2 DEF IInv

-----------------------------------------------------------------------------
(***************************************************************************)
(* The theorems, without late writes at Ironic.                            *)
(***************************************************************************)
\* A request that can still take effect says the truth about the host
\* (openstack.go:247-261, metal3.go:204-281).
THEOREM Invariance ==
  ASSUME LateWrites \subseteq {"metal3"}
  PROVE  Spec => []IInv
<1>1. Init => IInv
  BY InitType, InitInv DEF IInv
<1>2. IInv /\ [Next]_vars => IInv'
  BY NextInv
<1> QED  BY <1>1, <1>2, PTL DEF Spec

\* The instance that has the claim has all its labels on the host, whatever
\* fails or is repeated (openstack.go:290-310, metal3.go:221-250).
THEOREM ClaimWithLabels ==
  ASSUME LateWrites \subseteq {"metal3"}
  PROVE  Spec => []HolderHasItsLabels
<1>1. IInv => HolderHasItsLabels
  BY DEF IInv, LabelsInv
<1> QED  BY <1>1, Invariance, PTL

\* What a step does to the claim and the labels.
LEMMA StepOfHost ==
  ASSUME IInv, [Next]_vars
  PROVE  Created \/ \E i \in Instances : Assigned(i) \/ Released(i)
<1>1. CASE UNCHANGED host
  BY <1>1 DEF Created
<1>2. CASE Send \/ AnswerLost
  <2>1. Applies(request)
    BY <1>2, RequestApplies DEF Send, AnswerLost
  <2> QED  BY <2>1, HostStep
<1>3. CASE \E r \in late : Accepts(r) /\ host' = Effect(r)
  <2>1. PICK r \in late : Accepts(r) /\ host' = Effect(r)
    BY <1>3
  <2>2. Applies(r)
    BY <2>1, AcceptedIsTrue
  <2> QED  BY <2>2, HostStep
<1>4. UNCHANGED host \/ Send \/ AnswerLost \/ \E r \in late : Accepts(r) /\ host' = Effect(r)
  BY DEF Next, Step, Find, Delete, Begin, OtherWrite, LateArrives, GetForAssign,
         GetForUnassign, Refused, CallFails, AuthError, GivenUp, vars
<1> QED  BY <1>1, <1>2, <1>3, <1>4

\* The claim and the labels of the host change as if AssignHost and
\* UnassignHost were one step each (client.go:55).
THEOREM Atomicity ==
  ASSUME LateWrites \subseteq {"metal3"}
  PROVE  Spec => ImplementsLabels
<1>1. Init => Labels!Init
  BY DEF Init, Labels!Init
<1>2. IInv /\ [Next]_vars => [Labels!Next]_(Labels!vars)
  <2> SUFFICES ASSUME IInv, [Next]_vars PROVE [Labels!Next]_(Labels!vars)
    OBVIOUS
  <2>1. Created \/ \E i \in Instances : Assigned(i) \/ Released(i)
    BY StepOfHost
  <2>2. CASE Created
    BY <2>2 DEF Created, Labels!vars
  <2>3. CASE \E i \in Instances : Assigned(i) \/ Released(i)
    BY <2>3 DEF Assigned, Released, Labels!Next, Labels!Assign, Labels!Release
  <2> QED  BY <2>1, <2>2, <2>3
<1> QED  BY <1>1, <1>2, Invariance, PTL DEF Spec, ImplementsLabels, Labels!Spec

\* A request that changes a host on which another instance is bound is the
\* release of an instance that is being deleted.
LEMMA OnlyReleasesDisturb ==
  ASSUME IInv, NEW r, Applies(r), host' # host, NEW i \in Instances,
         host.claim = i, stage[i] = "bound",
         r.type = "unassign" /\ Removes(r) => stage[r.by] = "releasing"
  PROVE  /\ r.by \in Instances \ {i} /\ stage[r.by] = "releasing"
         /\ \A k \in Keys \ Plain[r.by] : host'.labels[k] = host.labels[k]
<1>1. r.type \in {"init", "assign", "unassign"} /\ host \in HostStates
  BY DEF Applies, Requests, IInv, TypeOK
<1>2. r.type # "init"
  BY NoneAssumption, InitEffect
<1>3. CASE r.type = "assign"
  <2>1. r.by \in Instances /\ Assigned(r.by) /\ host'.created /\ host.created
    BY <1>3, AssignEffect
  <2>2. r.by = i
    BY <2>1, NoneAssumption DEF Assigned
  <2>3. \A k \in Plain[i] \cup Persistent[i] : host.labels[k] = i
    BY DEF IInv, LabelsInv, HolderHasItsLabels, Combined
  <2>4. host' = [host EXCEPT !.claim = r.by,
                   !.labels = [k \in Keys |-> IF k \in r.keys THEN r.by ELSE @[k]]]
    BY <1>3 DEF Applies, Effect
  <2>5. host'.labels = host.labels
    <3>1. host'.labels = [k \in Keys |-> IF k \in Plain[i] \cup Persistent[i]
                                            THEN i ELSE host.labels[k]]
      BY <2>1, <2>2 DEF Assigned
    <3>2. host.labels = [k \in Keys |-> host.labels[k]]
      BY <1>1 DEF HostStates
    <3> QED  BY <2>3, <3>1, <3>2
  <2>6. host' = host
    BY <1>1, <2>2, <2>4, <2>5 DEF HostStates
  <2> QED  BY <2>6
<1>4. CASE r.type = "unassign"
  <2>1. r.by \in Instances /\ Released(r.by)
    BY <1>4, UnassignEffect
  <2>2. r.claimed
    BY <1>4, NoneAssumption DEF Applies, Grounded
  <2>3. stage[r.by] = "releasing"
    BY <1>4, <2>2 DEF Removes
  <2> QED  BY <2>1, <2>3 DEF Released
<1> QED  BY <1>1, <1>2, <1>3, <1>4

\* What an instance that is bound has on its host only changes through the
\* release of another one (metal3.go:204-281, openstack.go:247-402).
THEOREM HolderIsLeftAlone ==
  ASSUME LateWrites \subseteq {"metal3"}
  PROVE  Spec => HolderKeepsItsHost
<1>1. IInv /\ [Next]_vars =>
        [\A i \in Instances :
           stage[i] = "bound" /\ stage'[i] = "bound" /\ host.claim = i /\ host' # host =>
             \E j \in Instances \ {i} :
               /\ stage[j] = "releasing"
               /\ \A k \in Keys \ Plain[j] : host'.labels[k] = host.labels[k]]_vars
  <2> SUFFICES ASSUME IInv, [Next]_vars, NEW i \in Instances,
                      stage[i] = "bound", host.claim = i, host' # host
               PROVE  \E j \in Instances \ {i} :
                        /\ stage[j] = "releasing"
                        /\ \A k \in Keys \ Plain[j] : host'.labels[k] = host.labels[k]
    OBVIOUS
  <2>1. CASE Send \/ AnswerLost
    <3>1. /\ Applies(request) /\ request.by = locked
          /\ request.type = "unassign" <=> stage[locked] = "releasing"
      BY <2>1, RequestApplies DEF Send, AnswerLost
    <3> QED  BY <3>1, OnlyReleasesDisturb
  <2>2. CASE \E r \in late : Accepts(r) /\ host' = Effect(r)
    <3>1. PICK r \in late : Accepts(r) /\ host' = Effect(r)
      BY <2>2
    <3>2. Applies(r)
      BY <3>1, AcceptedIsTrue
    <3>3. r.current
      <4>1. backend = "metal3"
        BY <3>1 DEF IInv, LabelsInv, LateOnlyAtMetal3
      <4> QED  BY <3>1, <4>1 DEF Accepts
    <3>4. r.type = "unassign" /\ Removes(r) => stage[r.by] = "releasing"
      BY <3>1, <3>3 DEF IInv, LabelsInv, Stations
    <3> QED  BY <3>2, <3>4, OnlyReleasesDisturb
  <2> QED  BY <2>1, <2>2
           DEF Next, Step, Find, Delete, Begin, OtherWrite, LateArrives, GetForAssign,
               GetForUnassign, Refused, CallFails, AuthError, GivenUp, vars
<1> QED  BY <1>1, Invariance, PTL DEF Spec, HolderKeepsItsHost

\* When a release is over, the instance does not hold the host, the labels that
\* are to go with it are gone and those that are to stay are left alone
\* (README.md:116-117), for the keys that are not in both of its sets.
THEOREM ReleaseIsComplete ==
  ASSUME LateWrites \subseteq {"metal3"}
  PROVE  Spec => ReleasedWithItsLabels
<1>1. IInv /\ [Next]_vars =>
        [\A i \in Instances : stage[i] = "releasing" /\ stage'[i] = "gone" =>
           /\ host'.claim # i
           /\ \A k \in Plain[i] \ Persistent[i] : host'.labels[k] # i
           /\ \A k \in Persistent[i] \ Plain[i] : host'.labels[k] = host.labels[k]]_vars
  <2> SUFFICES ASSUME IInv, [Next]_vars, NEW i \in Instances,
                      stage[i] = "releasing", stage'[i] = "gone"
               PROVE  /\ host'.claim = None
                      /\ \A k \in Plain[i] : host'.labels[k] = None
                      /\ \A k \in Persistent[i] \ Plain[i] : host'.labels[k] = host.labels[k]
    BY NoneAssumption
  <2>1. Plain[i] \subseteq Keys /\ Persistent[i] \subseteq Keys
    BY PlainAssumption, PersistentAssumption
  <2>2. stage \in [Instances -> Stages] /\ stage' # stage
    BY DEF IInv, TypeOK
  <2>3. CASE GetForUnassign
    <3>1. i = locked
      BY <2>2, <2>3 DEF GetForUnassign, Reaches, Prepare
    <3>2. UnassignRequest(i).keys = {} /\ ~UnassignRequest(i).claimed /\ host' = host
      BY <2>2, <2>3, <3>1 DEF GetForUnassign, Prepare
    <3>3. Plain[i] \cap Present = {} /\ host.claim = None
      BY <3>2, RequestFields DEF Removed
    <3> QED  BY <2>1, <3>2, <3>3 DEF Present
  <2>4. CASE Send
    <3>1. i = locked
      BY <2>2, <2>4 DEF Send, Reaches, Prepare
    <3>2. /\ Applies(request) /\ request.by = locked
          /\ request.type = "unassign" <=> stage[locked] = "releasing"
      BY <2>4, RequestApplies DEF Send
    <3>3. Released(i)
      BY <3>1, <3>2, UnassignEffect
    <3> QED  BY <2>1, <3>3 DEF Released
  <2>5. GetForUnassign \/ Send
    <3>1. CASE \E j \in Instances : Find(j) \/ Delete(j) \/ Begin(j)
      BY <2>2, <3>1 DEF Find, Delete, Begin
    <3>2. CASE GetForAssign
      BY <2>2, <3>2 DEF GetForAssign, Reaches, Prepare
    <3> QED  BY <2>2, <3>1, <3>2
             DEF Next, Step, OtherWrite, LateArrives, Refused, CallFails, AnswerLost,
                 AuthError, GivenUp, vars
  <2> QED  BY <2>3, <2>4, <2>5
<1> QED  BY <1>1, Invariance, PTL DEF Spec, ReleasedWithItsLabels

\* A patch of an Ironic node is never refused, for what was read of the node
\* under the lock still holds (openstack.go:281-340, :358-402).
THEOREM PatchesApply ==
  ASSUME LateWrites \subseteq {"metal3"}
  PROVE  Spec => []PatchIsAccepted
<1>1. IInv => PatchIsAccepted
  <2> SUFFICES ASSUME IInv, pc = "send", backend = "openstack"
               PROVE  Accepts(request)
    BY DEF PatchIsAccepted
  <2>1. /\ Grounded(request)
        /\ request.type \in {"init", "assign", "unassign"}
    BY DEF IInv, LabelsInv, RequestsGrounded, TypeOK, Requests
  <2> QED  BY <2>1 DEF Accepts, Grounded
<1> QED  BY <1>1, Invariance, PTL
=============================================================================
