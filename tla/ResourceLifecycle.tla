------------------------- MODULE ResourceLifecycle -------------------------
(***************************************************************************)
(* One instance of one resource type of the provider, from the first       *)
(* "terraform apply" that declares it to the run that has forgotten it.    *)
(*                                                                         *)
(* Every resource type registers a Create, a Read and a Delete handler     *)
(* (provider.go, ResourcesMap).  The handlers of all the types share one   *)
(* skeleton: ask the service, follow the task it answered with, put the id *)
(* into the resource data, read the object back.  They differ in a few     *)
(* decisions, which Table[kind] gives: whether the service answers at once *)
(* or with a task, what the handler does between the answer and SetId,     *)
(* whether it returns the diagnostics of the read-back, how Read treats an *)
(* object that is gone, and what Delete checks before it lets the id go.   *)
(*                                                                         *)
(* A failed step is one of two sorts.  A refusal is an error answer to one *)
(* call, which changes nothing at the service; a handler that waits for a  *)
(* task makes such calls too.  A cut is everything after which the         *)
(* provider does not know what the service did: a lost answer, a wait that *)
(* ran into its timeout, a task that failed half way, a killed provider.   *)
(* Both are bounded, by MaxRefusals and MaxCuts; MaxChanges bounds the     *)
(* edits of the configuration and the objects removed behind Terraform's   *)
(* back.                                                                   *)
(***************************************************************************)
EXTENDS Naturals, FiniteSets

CONSTANTS
  Kinds,        \* the resource types
  Table,        \* what the handlers of each type do
  CarefulKinds, \* the types that promise to keep the contract, see below
  LeakyKinds,   \* the types that lose an object to an error answer alone
  WedgingKinds, \* the types whose Read fails on an object that is gone
  Objects,      \* ids of the objects the service can hold
  None,         \* no id
  MaxRefusals,
  MaxCuts,
  MaxChanges

CreateTraits ==
  [serve : {"sync", "task", "disabled"},
   before : {"none", "lose", "undo", "undoThenKeep"},
   afterFails : BOOLEAN,
   afterSkips : BOOLEAN,
   readback : {"none", "ignored", "returned"}]

ReadTraits == {"clear", "error", "keep"}

DeleteTraits ==
  [serve : {"sync", "task", "async"},
   verify : {"gone", "unreadable", "blind", "unchecked"},
   missing : {"done", "error", "panic"},
   conflict : {"error", "forget"}]

Traits == [create : CreateTraits, read : ReadTraits, delete : DeleteTraits]

ASSUME TableAssumption == Table \in [Kinds -> Traits]
ASSUME CarefulAssumption == CarefulKinds \subseteq Kinds
ASSUME NoneAssumption == None \notin Objects
ASSUME BoundsAssumption ==
  MaxRefusals \in Nat /\ MaxCuts \in Nat /\ MaxChanges \in Nat

VARIABLES
  kind,      \* the resource type of the instance
  wanted,    \* does the configuration declare the instance?
  sid,       \* the id in Terraform's state
  tainted,   \* is the recorded object marked for replacement?
  pc,        \* where the run and the handler it called are
  obj,       \* the object the running handler works on
  remote,    \* what the service holds
  result,    \* outcome of the call or task the handler follows
  refusals, cuts, changes

env == <<refusals, cuts, changes>>
vars == <<kind, wanted, sid, tainted, pc, obj, remote, result, env>>

CreatePhases == {"created", "preparing", "undoing", "finishing", "reading"}
DeletePhases == {"deleting", "deleted"}
Phases ==
  {"idle", "refreshing", "planning", "creating"} \cup CreatePhases \cup DeletePhases

Creating == Table[kind].create
Reading == Table[kind].read
Deleting == Table[kind].delete

Exists(o) == remote[o] # "absent"

TypeOK ==
  /\ kind \in Kinds
  /\ wanted \in BOOLEAN
  /\ sid \in Objects \cup {None}
  /\ tainted \in BOOLEAN
  /\ pc \in Phases
  /\ obj \in IF pc \in CreatePhases \cup DeletePhases THEN Objects ELSE {None}
  /\ remote \in [Objects -> {"absent", "building", "live", "deleting"}]
  /\ result \in {"pending", "finished", "failed"}
  /\ refusals \in 0..MaxRefusals
  /\ cuts \in 0..MaxCuts
  /\ changes \in 0..MaxChanges

(***************************************************************************)
(* The instance is new, or an earlier run has recorded a live object.      *)
(***************************************************************************)
Init ==
  /\ kind \in Kinds
  /\ wanted = TRUE
  /\ sid \in Objects \cup {None}
  /\ remote = [o \in Objects |-> IF o = sid THEN "live" ELSE "absent"]
  /\ tainted = FALSE
  /\ pc = "idle"
  /\ obj = None
  /\ result = "pending"
  /\ refusals = 0 /\ cuts = 0 /\ changes = 0

-----------------------------------------------------------------------------
(***************************************************************************)
(* Helpers.  A handler's resource data reaches Terraform's state only when *)
(* the handler returns, so Return is the one place that writes sid.        *)
(***************************************************************************)
Return(id, bad) ==
  /\ pc' = "idle"
  /\ sid' = id
  /\ tainted' = bad
  /\ obj' = None
  /\ result' = "pending"

GoTo(phase) == pc' = phase /\ UNCHANGED <<sid, tainted, obj, result>>

(* After d.SetId: the rest of the create handler. *)
SetId ==
  GoTo(IF Creating.afterFails \/ Creating.afterSkips THEN "finishing" ELSE "reading")

Refusal == refusals < MaxRefusals /\ refusals' = refusals + 1 /\ UNCHANGED <<cuts, changes>>
Cut == cuts < MaxCuts /\ cuts' = cuts + 1 /\ UNCHANGED <<refusals, changes>>
Change == changes < MaxChanges /\ changes' = changes + 1 /\ UNCHANGED <<refusals, cuts>>

Still == UNCHANGED <<kind, wanted, remote>>

-----------------------------------------------------------------------------
(* A run of Terraform: refresh what is recorded, then plan. *)

StartRun ==
  /\ pc = "idle"
  /\ GoTo(IF sid = None THEN "planning" ELSE "refreshing")
  /\ Still /\ UNCHANGED env

RefreshFinds ==
  /\ pc = "refreshing" /\ Exists(sid)
  /\ GoTo("planning")
  /\ Still /\ UNCHANGED env

RefreshMisses ==
  /\ pc = "refreshing" /\ ~Exists(sid)
  /\ \/ Reading = "clear" /\ pc' = "planning" /\ sid' = None /\ tainted' = FALSE
                          /\ UNCHANGED <<obj, result>>
     \/ Reading = "keep" /\ GoTo("planning")
     \/ Reading = "error" /\ Return(sid, tainted)
  /\ Still /\ UNCHANGED env

RefreshFails ==
  /\ pc = "refreshing"
  /\ Return(sid, tainted)
  /\ Still /\ Refusal

PlanCreate ==
  /\ pc = "planning" /\ wanted /\ sid = None
  /\ GoTo("creating")
  /\ Still /\ UNCHANGED env

(* Destroy, or the first half of a replacement. *)
PlanDelete ==
  /\ pc = "planning" /\ sid # None /\ (tainted \/ ~wanted)
  /\ pc' = "deleting" /\ obj' = sid
  /\ Still /\ UNCHANGED <<sid, tainted, result, env>>

PlanNothing ==
  /\ pc = "planning"
  /\ IF sid = None THEN ~wanted ELSE wanted /\ ~tainted
  /\ GoTo("idle")
  /\ Still /\ UNCHANGED env

-----------------------------------------------------------------------------
(* The create handler. *)

CreateDisabled ==
  /\ pc = "creating" /\ Creating.serve = "disabled"
  /\ Return(None, FALSE)
  /\ Still /\ UNCHANGED env

CreateRefused ==
  /\ pc = "creating" /\ Creating.serve # "disabled"
  /\ Return(None, FALSE)
  /\ Still /\ Refusal

CreateAccepted(o) ==
  /\ pc = "creating" /\ Creating.serve # "disabled"
  /\ ~Exists(o)
  /\ pc' = "created" /\ obj' = o
  /\ IF Creating.serve = "sync"
       THEN remote' = [remote EXCEPT ![o] = "live"] /\ result' = "finished"
       ELSE remote' = [remote EXCEPT ![o] = "building"] /\ result' = "pending"
  /\ UNCHANGED <<kind, wanted, sid, tainted, env>>

(* The answer, or the end of the awaited task. *)
CreateAnswered ==
  /\ pc = "created"
  /\ \/ result = "failed" /\ Return(None, FALSE)
     \/ result = "finished" /\ Creating.before = "none" /\ SetId
     \/ result = "finished" /\ Creating.before # "none" /\ GoTo("preparing")
  /\ Still /\ UNCHANGED env

(* The calls of a wait: the client for the tasks, then one poll after the  *)
(* other.  An error answer to any of them ends the handler, and the task   *)
(* goes on without it.                                                     *)
Awaits == IF pc = "created" THEN Creating.serve = "task" ELSE Deleting.serve = "task"

WaitFails ==
  /\ pc \in {"created", "deleted"} /\ Awaits
  /\ Return(sid, tainted)
  /\ Still /\ Refusal

(* A further call made while the id is still unknown to Terraform: for a   *)
(* task, the one that looks up what it has created.                        *)
PrepareDone ==
  /\ pc = "preparing"
  /\ SetId
  /\ Still /\ UNCHANGED env

PrepareFails ==
  /\ pc = "preparing"
  /\ \/ Creating.before \in {"lose", "undoThenKeep"} /\ Return(None, FALSE)
     \/ Creating.before \in {"undo", "undoThenKeep"} /\ GoTo("undoing")
  /\ Still /\ Refusal

UndoDone ==
  /\ pc = "undoing"
  /\ remote' = [remote EXCEPT ![obj] = "absent"]
  /\ IF Creating.before = "undoThenKeep" THEN SetId ELSE Return(None, FALSE)
  /\ UNCHANGED <<kind, wanted, env>>

UndoFails ==
  /\ pc = "undoing"
  /\ Return(None, FALSE)
  /\ Still /\ Refusal

(* A further call made after SetId: its error taints the new object. *)
FinishDone ==
  /\ pc = "finishing"
  /\ \/ GoTo("reading")
     \/ Creating.afterSkips /\ Return(obj, FALSE)
  /\ Still /\ UNCHANGED env

FinishFails ==
  /\ pc = "finishing" /\ Creating.afterFails
  /\ Return(obj, TRUE)
  /\ Still /\ Refusal

ReadbackDone ==
  /\ pc = "reading"
  /\ \/ (Creating.readback = "none" \/ Exists(obj)) /\ Return(obj, FALSE)
     \/ /\ Creating.readback # "none" /\ ~Exists(obj)
        /\ \/ Reading = "clear" /\ Return(None, FALSE)
           \/ Reading = "keep" /\ Return(obj, FALSE)
           \/ Reading = "error" /\ Return(obj, Creating.readback = "returned")
  /\ Still /\ UNCHANGED env

ReadbackFails ==
  /\ pc = "reading" /\ Creating.readback # "none"
  /\ Return(obj, Creating.readback = "returned")
  /\ Still /\ Refusal

-----------------------------------------------------------------------------
(* The delete handler.  Returning without an error forgets the id. *)

DeleteAccepted ==
  /\ pc = "deleting" /\ remote[obj] = "live"
  /\ pc' = "deleted"
  /\ IF Deleting.serve = "sync"
       THEN remote' = [remote EXCEPT ![obj] = "absent"] /\ result' = "finished"
       ELSE remote' = [remote EXCEPT ![obj] = "deleting"] /\ result' = "pending"
  /\ UNCHANGED <<kind, wanted, sid, tainted, obj, env>>

DeleteMisses ==
  /\ pc = "deleting" /\ ~Exists(obj)
  /\ IF Deleting.missing = "done" THEN Return(None, FALSE) ELSE Return(sid, tainted)
  /\ Still /\ UNCHANGED env

(* 409: an earlier deletion is still running ... *)
DeleteBusy ==
  /\ pc = "deleting" /\ remote[obj] = "deleting"
  /\ IF Deleting.conflict = "forget" THEN Return(None, FALSE) ELSE Return(sid, tainted)
  /\ Still /\ UNCHANGED env

(* ... or something else uses the object. *)
DeleteInUse ==
  /\ pc = "deleting" /\ remote[obj] = "live"
  /\ IF Deleting.conflict = "forget" THEN Return(None, FALSE) ELSE Return(sid, tainted)
  /\ Still /\ Refusal

DeleteFails ==
  /\ pc = "deleting"
  /\ Return(sid, tainted)
  /\ Still /\ Refusal

DeleteAnswered ==
  /\ pc = "deleted"
  /\ \/ Deleting.serve \in {"sync", "async"} /\ Return(None, FALSE)
     \/ Deleting.serve = "task" /\ result = "failed" /\ Return(sid, tainted)
     \/ /\ Deleting.serve = "task" /\ result = "finished"
        /\ IF Deleting.verify \in {"gone", "unreadable"} /\ Exists(obj)
             THEN Return(sid, tainted)
             ELSE Return(None, FALSE)
  /\ Still /\ UNCHANGED env

(* The read that should show the object gone fails for another reason. *)
VerifyFails ==
  /\ pc = "deleted" /\ Deleting.serve = "task" /\ result = "finished"
  /\ Deleting.verify # "unchecked"
  /\ IF Deleting.verify = "unreadable" THEN Return(None, FALSE) ELSE Return(sid, tainted)
  /\ Still /\ Refusal

-----------------------------------------------------------------------------
(* The provider is killed, gives up waiting, or loses the answer. *)
LosesContact ==
  /\ pc # "idle"
  /\ Return(sid, tainted)
  /\ Still /\ Cut

-----------------------------------------------------------------------------
(* The service ends a task; the handler that follows it learns the outcome. *)

Outcome(o, res) ==
  result' = IF o = obj /\ pc \in {"created", "deleted"} THEN res ELSE result

TaskEnds(o) ==
  /\ \/ remote[o] = "building" /\ remote' = [remote EXCEPT ![o] = "live"]
     \/ remote[o] = "deleting" /\ remote' = [remote EXCEPT ![o] = "absent"]
  /\ Outcome(o, "finished")
  /\ UNCHANGED <<kind, wanted, sid, tainted, pc, obj, env>>

(* A failed creation may leave something behind; a failed deletion does. *)
TaskFails(o) ==
  /\ \/ remote[o] = "building" /\ \E left \in {"absent", "live"} :
                                    remote' = [remote EXCEPT ![o] = left]
     \/ remote[o] = "deleting" /\ remote' = [remote EXCEPT ![o] = "live"]
  /\ Outcome(o, "failed")
  /\ UNCHANGED <<kind, wanted, sid, tainted, pc, obj>> /\ Cut

(* A deletion reported as finished although the object is still there. *)
TaskLies(o) ==
  /\ remote[o] = "deleting" /\ remote' = [remote EXCEPT ![o] = "live"]
  /\ Outcome(o, "finished")
  /\ UNCHANGED <<kind, wanted, sid, tainted, pc, obj>> /\ Cut

(* Somebody removes an object without Terraform. *)
RemovedOutside(o) ==
  /\ remote[o] = "live" /\ remote' = [remote EXCEPT ![o] = "absent"]
  /\ UNCHANGED <<kind, wanted, sid, tainted, pc, obj, result>> /\ Change

(* The user adds the resource block or takes it away. *)
ChangeMind ==
  /\ pc = "idle" /\ wanted' = ~wanted
  /\ UNCHANGED <<kind, sid, tainted, pc, obj, remote, result>> /\ Change

-----------------------------------------------------------------------------
(* The steps a run takes when nothing goes wrong ... *)
Handler ==
  \/ RefreshFinds \/ RefreshMisses
  \/ PlanCreate \/ PlanDelete \/ PlanNothing
  \/ CreateDisabled \/ (\E o \in Objects : CreateAccepted(o)) \/ CreateAnswered
  \/ PrepareDone \/ UndoDone \/ FinishDone \/ ReadbackDone
  \/ DeleteAccepted \/ DeleteMisses \/ DeleteBusy \/ DeleteAnswered

(* ... and those in which something does. *)
Failure ==
  \/ RefreshFails
  \/ CreateRefused \/ WaitFails \/ PrepareFails \/ UndoFails \/ FinishFails \/ ReadbackFails
  \/ DeleteInUse \/ DeleteFails \/ VerifyFails
  \/ LosesContact

Service ==
  \E o \in Objects : TaskEnds(o) \/ TaskFails(o) \/ TaskLies(o) \/ RemovedOutside(o)

Next == StartRun \/ Handler \/ Failure \/ Service \/ ChangeMind

Spec == Init /\ [][Next]_vars

(***************************************************************************)
(* A running handler goes on, Terraform is run again, tasks end.           *)
(***************************************************************************)
Fairness ==
  /\ WF_vars(Handler)
  /\ WF_vars(StartRun)
  /\ \A o \in Objects : WF_vars(TaskEnds(o))

FairSpec == Spec /\ Fairness

-----------------------------------------------------------------------------
(***************************************************************************)
(* The lifecycle seen as the contract of ResourceContract: a created       *)
(* object is on offer as long as a create handler works on it.  Types that *)
(* promise nothing show the contract an empty picture.                     *)
(***************************************************************************)
Promised == kind \in CarefulKinds

Recorded == IF Promised THEN sid ELSE None
Alive == {o \in Objects : Promised /\ Exists(o)}
Offered == IF Promised /\ pc \in CreatePhases THEN {obj} ELSE {}

Contract == INSTANCE ResourceContract
              WITH recorded <- Recorded, alive <- Alive, offered <- Offered

(* A type whose delete handler lets the id go only once it has been told   *)
(* that the object is gone, and whose create handler never records an      *)
(* object it has deleted.                                                  *)
Careful(t) ==
  /\ t.create.before # "undoThenKeep"
  /\ t.delete.conflict = "error"
  /\ \/ t.delete.serve = "sync"
     \/ t.delete.serve = "task" /\ t.delete.verify = "gone"

(* The ids of careful types in Terraform's state follow the contract: an   *)
(* id is recorded only for an object created for this instance, and        *)
(* dropped only when its object is gone, whatever answers, tasks and       *)
(* processes fail on the way.                                              *)
KeepsContract == Contract!Spec

-----------------------------------------------------------------------------
(* A type whose create handler makes no call between the answer and SetId, *)
(* none to follow a task either, and whose delete handler does not take a  *)
(* conflict for the end.                                                   *)
Tight(t) ==
  /\ t.create.serve # "task" /\ t.create.before = "none"
  /\ t.delete.conflict = "error"

(* An object that neither the state nor a handler knows is the result of a *)
(* failure, one object each, however the failures fall together over the   *)
(* runs.  For types that are not leaky the failure is a lost contact or a  *)
(* failed task: their error answers, wherever they come, orphan nothing.   *)
Leaked == {o \in Objects \ {sid, obj} : remote[o] \in {"building", "live"}}
Charged == IF kind \in LeakyKinds THEN refusals ELSE 0
Failures == cuts + Charged
LeaksAreFailures == Cardinality(Leaked) <= Failures

(* For the types whose Read fails on a missing object no later run, and    *)
(* no destroy, gets past the refresh: the id of a lost object stays in the *)
(* state until somebody edits the state by hand.                           *)
Lost == pc \in {"idle", "refreshing"} /\ sid # None /\ ~Exists(sid)
StaysLost == (kind \in WedgingKinds /\ Lost) => (Lost' /\ sid' = sid)
LostObjectWedges == [][StaysLost]_vars
=============================================================================
