---------------------- MODULE ResourceLifecycle_proofs ----------------------
(***************************************************************************)
(* Theorems about ResourceLifecycle for every table of handlers, every set *)
(* of objects and all bounds: type correctness; for tables whose entries   *)
(* are all careful, the contract of ResourceContract; how many objects can *)
(* be orphaned, and by what; and where a lost object leaves a type whose   *)
(* Read reports it as an error.  Last, that the table of the provider is   *)
(* one of these.                                                           *)
(***************************************************************************)
EXTENDS MCResourceLifecycle, FiniteSetTheorems, TLAPS

(* What the table gives for the kind in hand is of the declared form. *)
LEMMA KindTraits ==
  ASSUME kind \in Kinds
  PROVE  /\ Creating \in CreateTraits
         /\ Reading \in ReadTraits
         /\ Deleting \in DeleteTraits
  BY TableAssumption DEF Creating, Reading, Deleting, Traits

(* A handler that returns what was recorded, or nothing, stays in type. *)
LEMMA ReturnTypes ==
  ASSUME TypeOK, Return(sid, tainted) \/ Return(None, FALSE), Still,
         Refusal \/ UNCHANGED env
  PROVE  TypeOK'
<1>1. /\ refusals' \in 0..MaxRefusals
      /\ cuts' \in 0..MaxCuts
      /\ changes' \in 0..MaxChanges
  <2>1. CASE Refusal BY <2>1, BoundsAssumption DEF TypeOK, Refusal
  <2>2. CASE UNCHANGED env BY <2>2 DEF TypeOK, env
  <2> QED BY <2>1, <2>2
<1>2. /\ pc' = "idle" /\ obj' = None /\ result' = "pending"
      /\ sid' \in Objects \cup {None} /\ tainted' \in BOOLEAN
  BY DEF TypeOK, Return
<1> QED
  BY <1>1, <1>2 DEF TypeOK, Still, Phases, CreatePhases, DeletePhases

(* Every end of the delete handler is such a return. *)
LEMMA DeleteReturns ==
  ASSUME DeleteMisses \/ DeleteBusy \/ DeleteAnswered
           \/ DeleteInUse \/ DeleteFails \/ VerifyFails
  PROVE  /\ Return(sid, tainted) \/ Return(None, FALSE)
         /\ Still
         /\ Refusal \/ UNCHANGED env
<1>1. CASE DeleteMisses \/ DeleteBusy BY <1>1 DEF DeleteMisses, DeleteBusy
<1>2. CASE DeleteAnswered BY <1>2 DEF DeleteAnswered
<1>3. CASE DeleteInUse \/ DeleteFails BY <1>3 DEF DeleteInUse, DeleteFails
<1>4. CASE VerifyFails BY <1>4 DEF VerifyFails
<1> QED BY <1>1, <1>2, <1>3, <1>4

(* So are a failed refresh, a refused creation, wait or undo. *)
LEMMA FailureReturns ==
  ASSUME RefreshFails \/ CreateRefused \/ WaitFails \/ UndoFails
  PROVE  /\ Return(sid, tainted) \/ Return(None, FALSE)
         /\ Still
         /\ Refusal \/ UNCHANGED env
  BY DEF RefreshFails, CreateRefused, WaitFails, UndoFails

(* Each step of a run, of the service and of the user keeps every variable *)
(* in its type, with an object in hand exactly while a handler works.      *)
LEMMA TypeStep ==
  ASSUME TypeOK, [Next]_vars
  PROVE  TypeOK'
<1> USE NoneAssumption, BoundsAssumption DEF TypeOK, Phases, CreatePhases, DeletePhases
<1>1. CASE StartRun
  BY <1>1 DEF StartRun, GoTo, Still, env
<1>2. CASE RefreshFinds \/ RefreshMisses
  BY <1>2 DEF RefreshFinds, RefreshMisses, Return, GoTo, Still, env
<1>3. CASE PlanCreate \/ PlanDelete \/ PlanNothing
  BY <1>3 DEF PlanCreate, PlanDelete, PlanNothing, GoTo, Still, env
<1>4. CASE CreateDisabled
  BY <1>4 DEF CreateDisabled, Return, Still, env
<1>5. ASSUME NEW o \in Objects, CreateAccepted(o)
      PROVE  TypeOK'
  BY <1>5 DEF CreateAccepted, env
<1>6. CASE CreateAnswered
  BY <1>6 DEF CreateAnswered, SetId, Return, GoTo, Still, env
<1>7. CASE PrepareDone \/ UndoDone \/ FinishDone \/ ReadbackDone
  BY <1>7 DEF PrepareDone, UndoDone, FinishDone, ReadbackDone, SetId, Return, GoTo, Still, env
<1>8. CASE DeleteAccepted
  BY <1>8 DEF DeleteAccepted, env
<1>9. CASE DeleteMisses \/ DeleteBusy \/ DeleteAnswered
  BY <1>9, DeleteReturns, ReturnTypes
<1>10. CASE RefreshFails \/ CreateRefused \/ WaitFails \/ UndoFails
  BY <1>10, FailureReturns, ReturnTypes
<1>11. CASE DeleteInUse \/ DeleteFails \/ VerifyFails
  BY <1>11, DeleteReturns, ReturnTypes
<1>18. CASE PrepareFails
  <2>1. CASE Return(None, FALSE)
    BY <1>18, <2>1, ReturnTypes DEF PrepareFails
  <2>2. CASE GoTo("undoing")
    BY <1>18, <2>2 DEF PrepareFails, GoTo, Still, Refusal
  <2> QED BY <1>18, <2>1, <2>2 DEF PrepareFails
<1>19. CASE FinishFails
  BY <1>19 DEF FinishFails, Return, Still, Refusal
<1>20. CASE ReadbackFails
  <2>1. (Creating.readback = "returned") \in BOOLEAN
    OBVIOUS
  <2>2. obj \in Objects
    BY <1>20 DEF ReadbackFails
  <2> QED BY <1>20, <2>1, <2>2 DEF ReadbackFails, Return, Still, Refusal
<1>12. CASE LosesContact
  BY <1>12 DEF LosesContact, Return, Still, Cut
<1>13. ASSUME NEW o \in Objects, TaskEnds(o)
       PROVE  TypeOK'
  BY <1>13 DEF TaskEnds, Outcome, env
<1>14. ASSUME NEW o \in Objects, TaskFails(o) \/ TaskLies(o)
       PROVE  TypeOK'
  BY <1>14 DEF TaskFails, TaskLies, Outcome, Cut
<1>15. ASSUME NEW o \in Objects, RemovedOutside(o)
       PROVE  TypeOK'
  BY <1>15 DEF RemovedOutside, Change
<1>16. CASE ChangeMind
  BY <1>16 DEF ChangeMind, Change
<1>17. CASE UNCHANGED vars
  BY <1>17 DEF vars, env
<1> QED
  BY <1>1, <1>2, <1>3, <1>4, <1>5, <1>6, <1>7, <1>8, <1>9, <1>10, <1>11, <1>12,
     <1>13, <1>14, <1>15, <1>16, <1>17, <1>18, <1>19, <1>20
     DEF Next, Handler, Failure, Service

(* Before the first run nothing exists and nothing is recorded. *)
LEMMA InitTypes == Init => TypeOK
<1> SUFFICES ASSUME Init PROVE TypeOK
  OBVIOUS
<1>1. remote \in [Objects -> {"absent", "building", "live", "deleting"}]
  BY DEF Init
<1>2. refusals \in 0..MaxRefusals /\ cuts \in 0..MaxCuts /\ changes \in 0..MaxChanges
  BY BoundsAssumption DEF Init
<1> QED
  BY <1>1, <1>2 DEF Init, TypeOK, Phases, CreatePhases, DeletePhases

(* The state of the instance, of its handler and of the service is well    *)
(* typed in every reachable state, whatever the handlers decide.           *)
THEOREM TypeCorrect == Spec => []TypeOK
<1>1. TypeOK /\ [Next]_vars => TypeOK'
  BY TypeStep
<1> QED
  BY InitTypes, <1>1, PTL DEF Spec

-----------------------------------------------------------------------------
(***************************************************************************)
(* The contract.  What connects the program counter with the ids: a create *)
(* handler runs only while nothing is recorded, a delete handler works on  *)
(* the recorded object, and once a synchronous delete call is answered the *)
(* object is gone for as long as the handler takes to return.              *)
(***************************************************************************)
PhaseInv ==
  /\ pc \in CreatePhases \cup {"creating"} => sid = None
  /\ pc \in DeletePhases => obj = sid
  /\ pc = "refreshing" => sid # None
  /\ pc = "deleted" /\ Deleting.serve = "sync" => ~Exists(obj)

CInv == TypeOK /\ PhaseInv

(* The phases keep their ids; a delete handler's object, once absent, is   *)
(* not created again while the handler runs.                               *)
LEMMA PhaseStep ==
  ASSUME CInv, [Next]_vars
  PROVE  PhaseInv'
<1> USE NoneAssumption DEF CInv, PhaseInv, CreatePhases, DeletePhases, Exists, Deleting
<1>1. CASE StartRun
  BY <1>1 DEF StartRun, GoTo, Still
<1>2. CASE RefreshFinds \/ RefreshMisses
  BY <1>2 DEF RefreshFinds, RefreshMisses, Return, GoTo, Still
<1>3. CASE PlanCreate \/ PlanDelete \/ PlanNothing
  BY <1>3 DEF PlanCreate, PlanDelete, PlanNothing, GoTo, Still
<1>4. ASSUME NEW o \in Objects, CreateAccepted(o)
      PROVE  PhaseInv'
  BY <1>4 DEF CreateAccepted
<1>5. CASE CreateAnswered \/ PrepareDone
  BY <1>5 DEF CreateAnswered, PrepareDone, SetId, Return, GoTo, Still
<1>6. CASE UndoDone
  BY <1>6 DEF UndoDone, SetId, Return, GoTo
<1>7. CASE FinishDone \/ PrepareFails
  BY <1>7 DEF FinishDone, PrepareFails, Return, GoTo, Still
<1>8. CASE DeleteAccepted
  BY <1>8 DEF DeleteAccepted, TypeOK
<1>9. CASE pc' = "idle"
  BY <1>9
<1>10. ASSUME NEW o \in Objects, TaskEnds(o)
       PROVE  PhaseInv'
  BY <1>10 DEF TaskEnds, TypeOK
<1>11. ASSUME NEW o \in Objects, TaskFails(o) \/ TaskLies(o)
       PROVE  PhaseInv'
  BY <1>11 DEF TaskFails, TaskLies, TypeOK
<1>12. ASSUME NEW o \in Objects, RemovedOutside(o)
       PROVE  PhaseInv'
  BY <1>12 DEF RemovedOutside, TypeOK
<1>13. CASE UNCHANGED vars
  BY <1>13 DEF vars
<1>14. CASE \/ CreateDisabled \/ ReadbackDone \/ DeleteMisses \/ DeleteBusy
            \/ DeleteAnswered
  BY <1>9, <1>14 DEF CreateDisabled, ReadbackDone, DeleteMisses, DeleteBusy,
                     DeleteAnswered, Return
<1>15. CASE \/ RefreshFails \/ CreateRefused \/ WaitFails \/ UndoFails \/ FinishFails
            \/ ReadbackFails \/ DeleteInUse \/ DeleteFails \/ VerifyFails
            \/ LosesContact
  BY <1>9, <1>15 DEF RefreshFails, CreateRefused, WaitFails, UndoFails, FinishFails, ReadbackFails,
                     DeleteInUse, DeleteFails, VerifyFails, LosesContact, Return
<1>16. CASE ChangeMind
  BY <1>16 DEF ChangeMind
<1> QED
  BY <1>1, <1>2, <1>3, <1>4, <1>5, <1>6, <1>7, <1>8, <1>10, <1>11, <1>12, <1>13,
     <1>14, <1>15, <1>16
     DEF Next, Handler, Failure, Service

(* The phases of a handler and the presence of its object agree, always. *)
THEOREM PhasesHold == Spec => []CInv
<1>1. Init => CInv
  <2>1. Init => PhaseInv
    BY DEF Init, PhaseInv, CreatePhases, DeletePhases
  <2> QED BY <2>1, InitTypes DEF CInv
<1>2. CInv /\ [Next]_vars => CInv'
  BY TypeStep, PhaseStep DEF CInv
<1> QED
  BY <1>1, <1>2, PTL DEF Spec

-----------------------------------------------------------------------------
(***************************************************************************)
(* Every step of an instance of careful handlers is a step of the contract *)
(* or leaves its variables alone.                                          *)
(***************************************************************************)
CarefulTable == \A k \in CarefulKinds : Careful(Table[k])

(* The kind in hand is careful when it is one of those that promise to be. *)
LEMMA CarefulKind ==
  ASSUME TypeOK, CarefulTable, Promised
  PROVE  /\ Creating.before # "undoThenKeep"
         /\ Deleting.conflict = "error"
         /\ Deleting.serve # "async"
         /\ Deleting.serve = "task" => Deleting.verify = "gone"
  BY DEF TypeOK, CarefulTable, Careful, Promised, Creating, Deleting

Quiet == UNCHANGED <<Recorded, Alive, Offered>>

(* What the lemmas below assume of a step besides its action. *)
KindKept == Promised /\ kind' = kind

(* Steps before and after the handlers. *)
LEMMA ContractRun ==
  ASSUME CInv, KindKept,
         StartRun \/ RefreshFinds \/ RefreshMisses \/ RefreshFails
                 \/ PlanCreate \/ PlanDelete \/ PlanNothing \/ ChangeMind
  PROVE  Quiet \/ Contract!Forget
<1> USE DEF CInv, PhaseInv, CreatePhases, DeletePhases, Alive, Offered, Exists, Quiet,
           Recorded, Promised, KindKept
<1>1. CASE StartRun \/ RefreshFinds \/ RefreshFails \/ ChangeMind
  BY <1>1 DEF StartRun, RefreshFinds, RefreshFails, ChangeMind, GoTo, Return, Still
<1>2. CASE RefreshMisses
  BY <1>2 DEF RefreshMisses, GoTo, Return, Still, Contract!Forget
<1>3. CASE PlanCreate \/ PlanDelete \/ PlanNothing
  BY <1>3 DEF PlanCreate, PlanDelete, PlanNothing, GoTo, Still
<1> QED BY <1>1, <1>2, <1>3

(* The create handler. *)
LEMMA ContractCreate ==
  ASSUME CInv, KindKept, CarefulTable,
         \/ CreateDisabled \/ CreateRefused \/ CreateAnswered
         \/ (\E o \in Objects : CreateAccepted(o))
         \/ PrepareDone \/ PrepareFails \/ UndoDone \/ UndoFails
         \/ FinishDone \/ FinishFails \/ ReadbackDone \/ ReadbackFails
  PROVE  \/ Quiet \/ Contract!Withdraw
         \/ \E o \in Objects : Contract!Offer(o) \/ Contract!Record(o)
<1> USE DEF CInv, PhaseInv, CreatePhases, DeletePhases, Alive, Offered, Exists, Quiet,
           Recorded, Promised, KindKept
<1>1. CASE CreateDisabled \/ CreateRefused
  BY <1>1 DEF CreateDisabled, CreateRefused, Return, Still
<1>2. ASSUME NEW o \in Objects, CreateAccepted(o)
      PROVE  Contract!Offer(o)
  BY <1>2 DEF CreateAccepted, Contract!Offer, TypeOK
<1>3. CASE CreateAnswered
  BY <1>3 DEF CreateAnswered, SetId, GoTo, Return, Still, Contract!Withdraw
<1>4. CASE PrepareDone \/ PrepareFails
  BY <1>4 DEF PrepareDone, PrepareFails, SetId, GoTo, Return, Still, Contract!Withdraw
<1>5. CASE UndoDone
  BY <1>5, CarefulKind DEF UndoDone, Return, Contract!Withdraw, TypeOK
<1>6. CASE UndoFails
  BY <1>6 DEF UndoFails, Return, Still, Contract!Withdraw
<1>7. ASSUME pc \in {"finishing", "reading"}, Still,
             NEW id \in {obj, None}, NEW bad, Return(id, bad)
      PROVE  Contract!Withdraw \/ \E o \in Objects : Contract!Record(o)
  <2>1. CASE id = obj
    <3>1. obj \in Objects BY <1>7 DEF TypeOK
    <3>2. Contract!Record(obj) BY <1>7, <2>1 DEF Return, Still, Contract!Record
    <3> QED BY <3>1, <3>2
  <2>2. CASE id = None
    BY <1>7, <2>2 DEF Return, Still, Contract!Withdraw
  <2> QED BY <1>7, <2>1, <2>2
<1>8. CASE FinishDone \/ FinishFails
  <2>1. CASE GoTo("reading")
    BY <1>8, <2>1 DEF FinishDone, FinishFails, GoTo, Still
  <2>2. CASE \E bad \in BOOLEAN : Return(obj, bad)
    BY <1>7, <1>8, <2>2 DEF FinishDone, FinishFails
  <2> QED BY <1>8, <2>1, <2>2 DEF FinishDone, FinishFails
<1>9. CASE ReadbackDone \/ ReadbackFails
  BY <1>7, <1>9 DEF ReadbackDone, ReadbackFails
<1> QED BY <1>1, <1>2, <1>3, <1>4, <1>5, <1>6, <1>8, <1>9

(* The delete handler. *)
LEMMA ContractDelete ==
  ASSUME CInv, KindKept, CarefulTable,
         \/ DeleteAccepted \/ DeleteMisses \/ DeleteBusy \/ DeleteAnswered
         \/ DeleteInUse \/ DeleteFails \/ VerifyFails
  PROVE  \/ Quiet \/ Contract!Forget
         \/ \E o \in Objects : Contract!Vanish(o)
<1> USE DEF CInv, PhaseInv, CreatePhases, DeletePhases, Alive, Offered, Exists, Quiet,
           Recorded, Promised, KindKept
<1>1. CASE DeleteAccepted
  <2>1. obj \in Objects BY <1>1 DEF DeleteAccepted, TypeOK
  <2>2. CASE Deleting.serve = "sync"
    <3>1. remote' = [remote EXCEPT ![obj] = "absent"] /\ remote[obj] = "live"
      BY <1>1, <2>2 DEF DeleteAccepted
    <3>2. Alive' = Alive \ {obj} /\ obj \in Alive
      BY <2>1, <3>1 DEF TypeOK
    <3>3. UNCHANGED <<Recorded, Offered>>
      BY <1>1 DEF DeleteAccepted
    <3> HIDE DEF Alive, Offered
    <3>4. Contract!Vanish(obj)
      BY <3>2, <3>3 DEF Contract!Vanish
    <3> QED BY <2>1, <3>4
  <2>3. CASE Deleting.serve # "sync"
    BY <1>1, <2>1, <2>3 DEF DeleteAccepted, TypeOK
  <2> QED BY <2>2, <2>3
<1>2. CASE DeleteMisses
  BY <1>2 DEF DeleteMisses, Return, Still, Contract!Forget
<1>3. CASE DeleteBusy \/ DeleteInUse \/ DeleteFails
  BY <1>3, CarefulKind DEF DeleteBusy, DeleteInUse, DeleteFails, Return, Still
<1>4. CASE DeleteAnswered
  BY <1>4, CarefulKind DEF DeleteAnswered, Return, Still, Contract!Forget
<1>5. CASE VerifyFails
  BY <1>5, CarefulKind DEF VerifyFails, Return, Still
<1> QED BY <1>1, <1>2, <1>3, <1>4, <1>5

(* Lost contact, an interrupted wait, and what the service and others do. *)
LEMMA ContractService ==
  ASSUME CInv, KindKept, LosesContact \/ WaitFails \/ Service
  PROVE  \/ Quiet \/ Contract!Withdraw
         \/ \E o \in Objects : Contract!Vanish(o)
<1> USE DEF CInv, PhaseInv, CreatePhases, DeletePhases, Alive, Offered, Exists, Quiet,
           Recorded, Promised, KindKept
<1>1. CASE LosesContact \/ WaitFails
  BY <1>1 DEF LosesContact, WaitFails, Return, Still, Contract!Withdraw
<1>2. ASSUME NEW o \in Objects, TaskEnds(o)
      PROVE  Quiet \/ Contract!Vanish(o)
  BY <1>2 DEF TaskEnds, Contract!Vanish, TypeOK
<1>3. ASSUME NEW o \in Objects, TaskFails(o)
      PROVE  Quiet \/ Contract!Vanish(o)
  BY <1>3 DEF TaskFails, Contract!Vanish, TypeOK
<1>4. ASSUME NEW o \in Objects, TaskLies(o)
      PROVE  Quiet
  BY <1>4 DEF TaskLies, TypeOK
<1>5. ASSUME NEW o \in Objects, RemovedOutside(o)
      PROVE  Contract!Vanish(o)
  BY <1>5 DEF RemovedOutside, Contract!Vanish, TypeOK
<1> QED BY <1>1, <1>2, <1>3, <1>4, <1>5 DEF Service

(* No step changes the type of the instance. *)
LEMMA KindStays ==
  ASSUME Next
  PROVE  kind' = kind
<1>1. CASE Handler \/ Failure
  BY <1>1
     DEF Handler, Failure, RefreshFinds, RefreshMisses, RefreshFails, PlanCreate, PlanDelete,
         PlanNothing, CreateDisabled, CreateRefused, CreateAnswered, CreateAccepted,
         PrepareDone, PrepareFails, UndoDone, UndoFails, FinishDone, FinishFails,
         ReadbackDone, ReadbackFails, DeleteAccepted, DeleteMisses, DeleteBusy,
         DeleteAnswered, DeleteInUse, DeleteFails, VerifyFails, WaitFails,
         LosesContact, SetId, Return, GoTo, Still
<1>2. CASE StartRun \/ ChangeMind \/ Service
  BY <1>2 DEF StartRun, ChangeMind, Service, TaskEnds, TaskFails, TaskLies,
              RemovedOutside, GoTo, Still
<1> QED BY <1>1, <1>2 DEF Next

(* A provider whose CarefulKinds have careful handlers keeps the contract: *)
(* it records only objects created for the instance and forgets an id only *)
(* when its object is gone, under any number of failures.                  *)
THEOREM CarefulHandlersKeepContract ==
  ASSUME CarefulTable
  PROVE  Spec => KeepsContract
<1>1. Init => Contract!Init
  BY NoneAssumption DEF Init, Contract!Init, Recorded, Alive, Offered, Exists, CreatePhases
<1>2. CInv /\ [Next]_vars => [Contract!Next]_(Contract!vars)
  <2> SUFFICES ASSUME CInv, [Next]_vars
               PROVE  [Contract!Next]_(Contract!vars)
    OBVIOUS
  <2>1. CASE Quiet
    BY <2>1 DEF Quiet, Contract!vars
  <2>2. CASE UNCHANGED vars
    BY <2>2 DEF vars, Contract!vars, Recorded, Alive, Offered, Promised, Exists
  <2>3. CASE Next /\ ~Promised
    BY <2>3, KindStays DEF Contract!vars, Recorded, Alive, Offered, Promised
  <2>4. CASE Next /\ KindKept /\ ~Quiet
    BY <2>4, ContractRun, ContractCreate, ContractDelete, ContractService
       DEF Next, Handler, Failure, Contract!Next
  <2> QED BY <2>1, <2>2, <2>3, <2>4, KindStays DEF KindKept
<1> QED
  BY PhasesHold, <1>1, <1>2, PTL DEF KeepsContract, Spec, Contract!Spec

-----------------------------------------------------------------------------
(***************************************************************************)
(* Orphans.  An object is given up without being told gone in three places *)
(* only: where a handler is cut off, at the end of one whose task has      *)
(* failed or lied, and in the handlers of leaky types, at an error answer. *)
(* Each object the second may orphan is counted from the moment the task   *)
(* has ended, so that every step adds one object at most and then is a cut *)
(* or a refusal.                                                           *)
(***************************************************************************)
TightTable == \A k \in Kinds \ LeakyKinds : Tight(Table[k])

Present == {"building", "live"}
GivingUp == (pc = "created" /\ result = "failed") \/ pc = "deleted"
Lapsed == {o \in Objects : o = obj /\ GivingUp /\ remote[o] \in Present}
Owed == Leaked \cup Lapsed

OwedBound == IsFiniteSet(Owed) /\ Cardinality(Owed) <= Failures
Straight == kind \in LeakyKinds \/ pc \notin {"preparing", "undoing"}

OInv == CInv /\ Straight /\ OwedBound

(* The handlers of a type that is not leaky are tight. *)
LEMMA TightKind ==
  ASSUME TypeOK, TightTable, kind \notin LeakyKinds
  PROVE  /\ Creating.serve # "task" /\ Creating.before = "none"
         /\ Deleting.conflict = "error"
  BY DEF TypeOK, TightTable, Tight, Creating, Deleting

(* The counters only grow, one at a time. *)
LEMMA Counters ==
  ASSUME [Next]_vars
  PROVE  UNCHANGED env \/ Refusal \/ Cut \/ Change
<1>1. CASE Handler
  BY <1>1 DEF Handler, RefreshFinds, RefreshMisses, PlanCreate, PlanDelete, PlanNothing,
              CreateDisabled, CreateAnswered, CreateAccepted, PrepareDone, UndoDone,
              FinishDone, ReadbackDone, DeleteAccepted, DeleteMisses, DeleteBusy,
              DeleteAnswered, env
<1>2. CASE Failure
  BY <1>2 DEF Failure, RefreshFails, CreateRefused, WaitFails, PrepareFails, UndoFails,
              FinishFails, ReadbackFails, DeleteInUse, DeleteFails, VerifyFails, LosesContact
<1>3. CASE StartRun \/ ChangeMind \/ Service
  BY <1>3 DEF StartRun, ChangeMind, Service, TaskEnds, TaskFails, TaskLies, RemovedOutside, env
<1>4. CASE UNCHANGED vars
  BY <1>4 DEF vars
<1> QED BY <1>1, <1>2, <1>3, <1>4 DEF Next

(* What a step may owe: nothing new, or one object for the failure it is.  *)
Pays == Cut \/ (Refusal /\ kind \in LeakyKinds)
OwesOne == \E o \in Objects \cup {None} : Owed' \subseteq Owed \cup {o}
PaidFor == Owed' \subseteq Owed \/ (Pays /\ OwesOne)

(* Sums grow with their parts. *)
LEMMA Sums ==
  ASSUME NEW a \in Nat, NEW b \in Nat, NEW a1 \in Nat, NEW b1 \in Nat
  PROVE  /\ a + b \in Nat
         /\ a1 >= a /\ b1 >= b => a1 + b1 >= a + b
         /\ a1 >= a + 1 /\ b1 >= b => a1 + b1 >= (a + b) + 1
         /\ a1 >= a /\ b1 >= b + 1 => a1 + b1 >= (a + b) + 1
  OBVIOUS

(* The bound survives every such step.                                     *)
LEMMA OwedStays ==
  ASSUME TypeOK, OwedBound, PaidFor, kind' = kind, UNCHANGED env \/ Refusal \/ Cut \/ Change
  PROVE  OwedBound'
<1>1. /\ refusals \in Nat /\ cuts \in Nat /\ refusals' \in Nat /\ cuts' \in Nat
      /\ refusals' >= refusals /\ cuts' >= cuts
  BY BoundsAssumption DEF TypeOK, env, Refusal, Cut, Change
<1>2. /\ Charged \in Nat /\ Charged' \in Nat
      /\ Charged' >= Charged
  BY <1>1 DEF Charged
<1>3. /\ Failures \in Nat /\ Failures' \in Nat
      /\ Failures' >= Failures
  BY <1>1, <1>2, Sums DEF Failures
<1>4. ASSUME Pays
      PROVE  Failures' >= Failures + 1
  <2>1. CASE Cut
    <3>1. cuts' >= cuts + 1
      BY <1>1, <2>1 DEF Cut
    <3> QED BY <1>1, <1>2, <3>1, Sums DEF Failures
  <2>2. CASE Refusal /\ kind \in LeakyKinds
    <3>1. Charged' >= Charged + 1
      BY <1>1, <2>2 DEF Charged, Refusal
    <3> QED BY <1>1, <1>2, <3>1, Sums DEF Failures
  <2> QED BY <1>4, <2>1, <2>2 DEF Pays
<1>5. IsFiniteSet(Owed) /\ Cardinality(Owed) \in Nat /\ Cardinality(Owed) <= Failures
  BY FS_CardinalityType DEF OwedBound
<1>6. CASE Owed' \subseteq Owed
  <2>1. IsFiniteSet(Owed') /\ Cardinality(Owed') <= Cardinality(Owed)
    BY <1>5, <1>6, FS_Subset
  <2>2. Cardinality(Owed') \in Nat
    BY <2>1, FS_CardinalityType
  <2> QED BY <1>5, <1>3, <2>1, <2>2 DEF OwedBound
<1>7. ASSUME Pays, NEW o, Owed' \subseteq Owed \cup {o}
      PROVE  OwedBound'
  <2>1. /\ IsFiniteSet(Owed \cup {o})
        /\ \/ Cardinality(Owed \cup {o}) = Cardinality(Owed)
           \/ Cardinality(Owed \cup {o}) = Cardinality(Owed) + 1
    BY <1>5, FS_AddElement
  <2>2. IsFiniteSet(Owed') /\ Cardinality(Owed') <= Cardinality(Owed \cup {o})
    BY <1>7, <2>1, FS_Subset
  <2>3. Cardinality(Owed') \in Nat
    BY <2>2, FS_CardinalityType
  <2> QED BY <1>5, <1>7, <1>3, <1>4, <2>1, <2>2, <2>3 DEF OwedBound
<1> QED BY <1>6, <1>7 DEF PaidFor, OwesOne

(* A step of a run that nothing is given up in. *)
LEMMA OwesRun ==
  ASSUME CInv, \/ StartRun \/ RefreshFinds \/ RefreshMisses \/ RefreshFails
               \/ PlanCreate \/ PlanDelete \/ PlanNothing \/ ChangeMind
  PROVE  Owed' \subseteq Owed
<1> USE NoneAssumption DEF CInv, TypeOK, PhaseInv, Owed, Leaked, Lapsed, GivingUp, Present,
                           CreatePhases, DeletePhases
<1>1. CASE StartRun \/ RefreshFinds \/ PlanCreate \/ PlanNothing \/ ChangeMind
  BY <1>1 DEF StartRun, RefreshFinds, PlanCreate, PlanNothing, ChangeMind, GoTo, Still
<1>2. CASE RefreshMisses
  BY <1>2 DEF RefreshMisses, GoTo, Return, Still, Exists
<1>3. CASE RefreshFails
  BY <1>3 DEF RefreshFails, Return, Still
<1>4. CASE PlanDelete
  BY <1>4 DEF PlanDelete, Still
<1> QED BY <1>1, <1>2, <1>3, <1>4

(* The create handler gives up an object after its task has failed, and    *)
(* where an error answer loses the id.                                     *)
LEMMA OwesCreate ==
  ASSUME CInv, \/ CreateDisabled \/ CreateRefused \/ CreateAnswered
               \/ (\E o \in Objects : CreateAccepted(o))
               \/ PrepareDone \/ UndoDone
               \/ FinishDone \/ FinishFails \/ ReadbackDone \/ ReadbackFails
  PROVE  Owed' \subseteq Owed
<1> USE NoneAssumption DEF CInv, TypeOK, PhaseInv, Owed, Leaked, Lapsed, GivingUp, Present,
                           CreatePhases, DeletePhases
<1>1. CASE CreateDisabled \/ CreateRefused
  BY <1>1 DEF CreateDisabled, CreateRefused, Return, Still
<1>2. ASSUME NEW o \in Objects, CreateAccepted(o)
      PROVE  Owed' \subseteq Owed
  BY <1>2 DEF CreateAccepted
<1>3. CASE CreateAnswered
  BY <1>3 DEF CreateAnswered, SetId, GoTo, Return, Still
<1>4. CASE FinishDone \/ FinishFails
  BY <1>4 DEF FinishDone, FinishFails, GoTo, Return, Still
<1>5. CASE ReadbackDone \/ ReadbackFails
  BY <1>5 DEF ReadbackDone, ReadbackFails, Return, Still, Exists
<1>6. CASE PrepareDone
  BY <1>6 DEF PrepareDone, SetId, GoTo, Still
<1>7. CASE UndoDone
  BY <1>7 DEF UndoDone, SetId, GoTo, Return
<1> QED BY <1>1, <1>2, <1>3, <1>4, <1>5, <1>6, <1>7

LEMMA LosesCreate ==
  ASSUME CInv, Straight, TightTable,
         PrepareFails \/ UndoFails \/ (WaitFails /\ pc = "created")
  PROVE  Pays /\ OwesOne
<1>1. Refusal /\ Still /\ (GoTo("undoing") \/ Return(None, FALSE) \/ Return(sid, tainted))
  BY DEF PrepareFails, UndoFails, WaitFails
<1>2. kind \in LeakyKinds
  BY TightKind DEF CInv, Straight, PrepareFails, UndoFails, WaitFails, Awaits
<1>3. Owed' \subseteq Owed \cup {obj} /\ obj \in Objects \cup {None}
  <2>1. pc \in CreatePhases
    BY DEF PrepareFails, UndoFails, WaitFails, CreatePhases
  <2> QED
    BY <1>1, <2>1, NoneAssumption
       DEF CInv, TypeOK, PhaseInv, Owed, Leaked, Lapsed, GivingUp, Present, CreatePhases,
           DeletePhases, GoTo, Return, Still
<1> QED BY <1>1, <1>2, <1>3 DEF Pays, OwesOne

(* The delete handler forgets what is gone, what a task has left, and,     *)
(* where a conflict is only a warning, what is in use.                     *)
LEMMA OwesDelete ==
  ASSUME CInv, \/ DeleteAccepted \/ DeleteMisses \/ DeleteBusy \/ DeleteAnswered
               \/ DeleteFails \/ VerifyFails \/ (WaitFails /\ pc = "deleted")
  PROVE  Owed' \subseteq Owed
<1> USE NoneAssumption DEF CInv, TypeOK, PhaseInv, Owed, Leaked, Lapsed, GivingUp, Present,
                           CreatePhases, DeletePhases
<1>1. CASE DeleteAccepted
  BY <1>1 DEF DeleteAccepted
<1>2. CASE DeleteMisses
  BY <1>2 DEF DeleteMisses, Return, Still, Exists
<1>3. CASE DeleteBusy \/ DeleteFails
  BY <1>3 DEF DeleteBusy, DeleteFails, Return, Still
<1>4. CASE DeleteAnswered
  BY <1>4 DEF DeleteAnswered, Return, Still
<1>5. CASE VerifyFails
  BY <1>5 DEF VerifyFails, Return, Still
<1>6. CASE WaitFails /\ pc = "deleted"
  BY <1>6 DEF WaitFails, Return, Still
<1> QED BY <1>1, <1>2, <1>3, <1>4, <1>5, <1>6

LEMMA LosesDelete ==
  ASSUME CInv, TightTable, DeleteInUse
  PROVE  PaidFor
<1>1. CASE Deleting.conflict = "forget"
  <2>1. kind \in LeakyKinds
    BY <1>1, TightKind DEF CInv
  <2>2. Owed' \subseteq Owed \cup {obj} /\ obj \in Objects
    BY NoneAssumption
       DEF DeleteInUse, Return, Still, CInv, TypeOK, PhaseInv, Owed, Leaked, Lapsed,
           GivingUp, Present, CreatePhases, DeletePhases
  <2> QED BY <2>1, <2>2 DEF DeleteInUse, Pays, OwesOne, PaidFor
<1>2. CASE Deleting.conflict # "forget"
  <2>1. Owed' \subseteq Owed
    BY <1>2, NoneAssumption
       DEF DeleteInUse, Return, Still, CInv, TypeOK, PhaseInv, Owed, Leaked, Lapsed,
           GivingUp, Present, CreatePhases, DeletePhases
  <2> QED BY <2>1 DEF PaidFor
<1> QED BY <1>1, <1>2

(* Tasks that end well, and removals, orphan nothing; a cut orphans the    *)
(* object that is in hand or whose task it is about.                       *)
LEMMA OwesService ==
  ASSUME CInv, LosesContact \/ Service
  PROVE  PaidFor
<1> USE NoneAssumption DEF CInv, TypeOK, PhaseInv, Owed, Leaked, Lapsed, GivingUp, Present,
                           CreatePhases, DeletePhases
<1>1. CASE LosesContact
  <2>1. Owed' \subseteq Owed \cup {obj}
    BY <1>1 DEF LosesContact, Return, Still
  <2>2. Cut /\ obj \in Objects \cup {None}
    BY <1>1 DEF LosesContact
  <2> QED BY <2>1, <2>2 DEF PaidFor, Pays, OwesOne
<1>2. ASSUME NEW o \in Objects, TaskEnds(o)
      PROVE  Owed' \subseteq Owed
  BY <1>2 DEF TaskEnds, Outcome
<1>3. ASSUME NEW o \in Objects, TaskFails(o) \/ TaskLies(o)
      PROVE  Cut /\ Owed' \subseteq Owed \cup {o}
  BY <1>3 DEF TaskFails, TaskLies, Outcome
<1>4. ASSUME NEW o \in Objects, RemovedOutside(o)
      PROVE  Owed' \subseteq Owed
  BY <1>4 DEF RemovedOutside
<1> HIDE DEF Owed
<1>5. CASE Service
  <2>1. PICK o \in Objects : TaskEnds(o) \/ TaskFails(o) \/ TaskLies(o) \/ RemovedOutside(o)
    BY <1>5 DEF Service
  <2> QED BY <1>2, <1>3, <1>4, <2>1 DEF PaidFor, Pays, OwesOne
<1> QED BY <1>1, <1>5

(* A tight type never gets to the phases of the other create handlers. *)
LEMMA StraightStep ==
  ASSUME TypeOK, TightTable, Straight, [Next]_vars
  PROVE  Straight'
<1> SUFFICES ASSUME kind \notin LeakyKinds, pc \notin {"preparing", "undoing"}
             PROVE  pc' \notin {"preparing", "undoing"}
  BY KindStays DEF Straight, vars
<1>1. CASE Handler
  BY <1>1, TightKind
     DEF Handler, RefreshFinds, RefreshMisses, PlanCreate, PlanDelete, PlanNothing,
         CreateDisabled, CreateAnswered, CreateAccepted, PrepareDone, UndoDone,
         FinishDone, ReadbackDone, DeleteAccepted, DeleteMisses, DeleteBusy,
         DeleteAnswered, SetId, Return, GoTo
<1>2. CASE Failure
  BY <1>2 DEF Failure, RefreshFails, CreateRefused, WaitFails, PrepareFails, UndoFails,
              FinishFails, ReadbackFails, DeleteInUse, DeleteFails, VerifyFails,
              LosesContact, Return
<1>3. CASE StartRun \/ ChangeMind \/ Service
  BY <1>3 DEF StartRun, ChangeMind, Service, TaskEnds, TaskFails, TaskLies,
              RemovedOutside, GoTo
<1>4. CASE UNCHANGED vars
  BY <1>4 DEF vars
<1> QED BY <1>1, <1>2, <1>3, <1>4 DEF Next

(* Every step keeps the bound.                                             *)
LEMMA OwedStep ==
  ASSUME OInv, TightTable, [Next]_vars
  PROVE  OwedBound'
<1>1. CInv /\ TypeOK /\ Straight
  BY DEF OInv, CInv
<1>2. CASE UNCHANGED vars
  <2>1. Owed' = Owed
    BY <1>2 DEF vars, Owed, Leaked, Lapsed, GivingUp
  <2> QED BY <1>1, <1>2, <2>1, OwedStays DEF OInv, PaidFor, vars
<1>3. CASE Next
  <2>1. PaidFor
    <3>1. CASE LosesContact \/ Service
      BY <1>1, <3>1, OwesService
    <3>2. CASE StartRun \/ Handler \/ ChangeMind
      BY <1>1, <3>2, OwesRun, OwesCreate, OwesDelete DEF Handler, PaidFor
    <3>3. CASE Failure /\ ~LosesContact
      <4>1. CASE WaitFails
        BY <1>1, <4>1, LosesCreate, OwesDelete DEF WaitFails, PaidFor
      <4>2. CASE PrepareFails \/ UndoFails
        BY <1>1, <4>2, LosesCreate DEF PaidFor
      <4>3. CASE DeleteInUse
        BY <1>1, <4>3, LosesDelete
      <4>4. CASE ~(WaitFails \/ PrepareFails \/ UndoFails \/ DeleteInUse)
        BY <1>1, <3>3, <4>4, OwesRun, OwesCreate, OwesDelete DEF Failure, PaidFor
      <4> QED BY <4>1, <4>2, <4>3, <4>4
    <3> QED BY <1>3, <3>1, <3>2, <3>3 DEF Next
  <2> QED BY <1>1, <1>3, <2>1, KindStays, Counters, OwedStays DEF OInv
<1> QED BY <1>2, <1>3

(* Every orphaned object is paid for by a failure of its own: for types    *)
(* with tight handlers a lost contact or a failed task, for all others an  *)
(* error answer at worst; for any number of runs, objects and edits.       *)
THEOREM EveryLeakIsAFailure ==
  ASSUME TightTable
  PROVE  Spec => []LeaksAreFailures
<1>1. Init => OInv
  <2> SUFFICES ASSUME Init PROVE OInv
    OBVIOUS
  <2>1. CInv
    BY InitTypes DEF Init, CInv, PhaseInv, CreatePhases, DeletePhases
  <2>2. Owed = {} /\ cuts = 0 /\ refusals = 0 /\ pc = "idle"
    BY DEF Init, Owed, Leaked, Lapsed, GivingUp, Present
  <2> QED BY <2>1, <2>2, FS_EmptySet DEF OInv, OwedBound, Failures, Charged, Straight
<1>2. OInv /\ [Next]_vars => OInv'
  BY TypeStep, PhaseStep, StraightStep, OwedStep DEF OInv, CInv
<1>3. OInv => LeaksAreFailures
  <2> SUFFICES ASSUME OInv
               PROVE  Cardinality(Leaked) <= Failures
    BY DEF LeaksAreFailures
  <2>1. IsFiniteSet(Owed) /\ Cardinality(Owed) <= Failures
    BY DEF OInv, OwedBound
  <2>2. Failures \in Nat
    BY BoundsAssumption DEF OInv, CInv, TypeOK, Failures, Charged
  <2>3. /\ IsFiniteSet(Leaked) /\ Cardinality(Leaked) <= Cardinality(Owed)
        /\ Cardinality(Leaked) \in Nat /\ Cardinality(Owed) \in Nat
    BY <2>1, FS_Subset, FS_CardinalityType DEF Owed
  <2> QED BY <2>1, <2>2, <2>3
<1> QED
  BY <1>1, <1>2, <1>3, PTL DEF Spec

-----------------------------------------------------------------------------
(* If Read reports a missing object as an error, a run that refreshes one  *)
(* ends there, and nobody can give it back its object: no number of runs,  *)
(* destroys or edits gets the id out of the state.                         *)
WedgingTable == \A k \in Kinds \cap WedgingKinds : Table[k].read = "error"

THEOREM LostObjectsWedge ==
  ASSUME WedgingTable
  PROVE  Spec => LostObjectWedges
<1>1. CInv /\ [Next]_vars => StaysLost
  <2> SUFFICES ASSUME CInv, [Next]_vars, kind \in WedgingKinds, Lost
               PROVE  Lost' /\ sid' = sid
    BY DEF StaysLost
  <2>1. /\ Reading = "error" /\ pc \in {"idle", "refreshing"} /\ sid # None
        /\ sid \in Objects /\ remote[sid] = "absent"
    BY DEF CInv, TypeOK, WedgingTable, Reading, Lost, Exists
  <2>2. CASE StartRun \/ RefreshMisses \/ RefreshFails \/ LosesContact \/ ChangeMind
    BY <2>1, <2>2 DEF StartRun, RefreshMisses, RefreshFails, LosesContact, ChangeMind,
                      GoTo, Return, Still, Lost, Exists
  <2>3. CASE Service
    BY <2>1, <2>3 DEF Service, TaskEnds, TaskFails, TaskLies, RemovedOutside, Lost, Exists,
                      CInv, TypeOK
  <2>4. CASE UNCHANGED vars
    BY <2>4 DEF vars, Lost, Exists
  <2>5. \/ StartRun \/ RefreshMisses \/ RefreshFails \/ LosesContact \/ ChangeMind
        \/ Service \/ UNCHANGED vars
    BY <2>1 DEF Next, Handler, Failure, RefreshFinds, Exists, PlanCreate, PlanDelete,
                PlanNothing, CreateDisabled, CreateAccepted, CreateAnswered, PrepareDone,
                UndoDone, FinishDone, ReadbackDone, DeleteAccepted, DeleteMisses,
                DeleteBusy, DeleteAnswered, CreateRefused, WaitFails, PrepareFails, UndoFails,
                FinishFails, ReadbackFails, DeleteInUse, DeleteFails, VerifyFails
  <2> QED BY <2>2, <2>3, <2>4, <2>5
<1> QED
  BY PhasesHold, <1>1, PTL DEF LostObjectWedges, Spec

-----------------------------------------------------------------------------
(***************************************************************************)
(* The table of the provider, with the exceptions named in                 *)
(* MCResourceLifecycle, meets the conditions.  The provers look up a row   *)
(* at a time, after the entries that are variations of others.             *)
(***************************************************************************)
LEMMA CreateVariations ==
  /\ \A c \in {StorageSFTPCreate, WaapApiPathCreate} : c.serve = "sync" /\ c.before = "none"
  /\ \A r \in {"ignored", "returned"} : CreatesByTask(r).before = "lose"
  /\ ServerGroupCreate.before = "undo" /\ K8sV2Create.before = "lose"
  /\ DNSZoneCreate.before = "lose" /\ FastEdgeBinaryCreate.before = "lose"
  BY DEF Creates, CreatesByTask, ServerGroupCreate, StorageSFTPCreate, DNSZoneCreate,
         FastEdgeBinaryCreate, K8sV2Create, WaapApiPathCreate

LEMMA DeleteVariations ==
  /\ \A d \in {ReservedFixedIPDelete, LBPoolDelete, LBMemberDelete} :
       d.serve = "task" /\ d.verify = "gone" /\ d.conflict = "error"
  /\ \A d \in {SecurityGroupDelete, FaaSKeyDelete, DNSNetworkMappingDelete} :
       d.serve = "sync" /\ d.conflict = "error"
  /\ UnawaitedDelete.serve = "async" /\ UnawaitedDelete.conflict = "error"
  /\ ForgetfulDelete.serve = "sync" /\ ForgetfulDelete.conflict = "forget"
  BY DEF AwaitedDelete, DirectDelete,
         UnawaitedDelete, ForgetfulDelete, ReservedFixedIPDelete, SecurityGroupDelete,
         LBPoolDelete, LBMemberDelete, FaaSKeyDelete, DNSNetworkMappingDelete

(* What the create handlers wait for, and what they leave when a call      *)
(* before SetId fails.                                                     *)
LEMMA CreatesOfTheProvider ==
  /\ \A k \in ProviderKinds \ Hasty : ProviderTable[k].create.before # "undoThenKeep"
  /\ \A k \in ProviderKinds \ Leaky : ProviderTable[k].create.before = "none"
  /\ \A k \in ProviderKinds \ Leaky : ProviderTable[k].create.serve # "task"
<1> USE CreateVariations
    DEF ProviderKinds, ProviderTable, Handlers, Creates,
        VolumeCreate, NetworkCreate, SubnetCreate, SnapshotCreate, FloatingIPCreate,
        ReservedFixedIPCreate, RouterCreate, InstanceCreate, InstanceV2Create,
        BmInstanceCreate, SecurityGroupCreate, SecretCreate, KeypairCreate,
        LoadBalancerCreate, LoadBalancerV2Create, LBListenerCreate, LBPoolCreate,
        LBMemberCreate, FileShareCreate, PostgresClusterCreate,
        LifecyclePolicyCreate, AIClusterCreate, InferenceDeploymentCreate,
        InferenceSecretCreate, RegistryCredentialCreate, LaaSTopicCreate,
        FaaSNamespaceCreate, FaaSFunctionCreate, FaaSKeyCreate, GPUClusterCreate,
        GPUImageCreate, StorageS3Create, StorageS3BucketCreate, StorageSFTPKeyCreate,
        DNSZoneRecordCreate, DNSNetworkMappingCreate, CDNResourceCreate, CDNRuleCreate,
        CDNOriginGroupCreate, CDNCertCreate, CDNCACertCreate, RuleTemplateCreate,
        CDNLogsUploaderConfigCreate, CDNLogsUploaderPolicyCreate,
        CDNLogsUploaderTargetCreate, CDNAppliedPresetCreate, FastEdgeAppCreate,
        FastEdgeTemplateCreate, FastEdgeSecretCreate, WaapAdvancedRuleCreate,
        WaapCustomPageSetCreate, CustomRulesCreate, WaapFirewallRuleCreate,
        SecurityInsightSilenceCreate
<1>1. \A k \in ProviderKinds \ Hasty : ProviderTable[k].create.before # "undoThenKeep"
  BY SMTT(60) DEF Hasty
<1>2. \A k \in ProviderKinds \ Leaky : ProviderTable[k].create.before = "none"
  BY SMTT(60) DEF Leaky, AwaitedKinds
<1>3. \A k \in ProviderKinds \ Leaky : ProviderTable[k].create.serve # "task"
  BY SMTT(60) DEF Leaky, AwaitedKinds
<1> QED BY ONLY <1>1, <1>2, <1>3

(* What the delete handlers check. *)
LEMMA DeletesOfTheProvider ==
  /\ \A k \in ProviderKinds \ Hasty : ProviderTable[k].delete.conflict = "error"
  /\ \A k \in ProviderKinds \ Hasty : ProviderTable[k].delete.serve \in {"sync", "task"}
  /\ \A k \in ProviderKinds \ Hasty :
       ProviderTable[k].delete.serve = "task" => ProviderTable[k].delete.verify = "gone"
  /\ \A k \in ProviderKinds \ Leaky : ProviderTable[k].delete.conflict = "error"
<1> USE DeleteVariations
    DEF ProviderKinds, ProviderTable, Handlers,
        AwaitedDelete, DirectDelete, AwaitedDelete, VolumeDelete, NetworkDelete, SubnetDelete,
        SnapshotDelete, FloatingIPDelete, RouterDelete, InstanceDelete,
        InstanceV2Delete, BmInstanceDelete, ServerGroupDelete, SecretDelete,
        KeypairDelete, LoadBalancerDelete, LoadBalancerV2Delete, LBListenerDelete,
        K8sV2Delete, FileShareDelete, PostgresClusterDelete, LifecyclePolicyDelete,
        AIClusterDelete, DDoSProtectionDelete, InferenceDeploymentDelete,
        InferenceSecretDelete, RegistryCredentialDelete, LaaSTopicDelete,
        FaaSNamespaceDelete, FaaSFunctionDelete, GPUClusterDelete, GPUImageDelete,
        StorageS3Delete, StorageS3BucketDelete, StorageSFTPDelete, StorageSFTPKeyDelete,
        DNSZoneDelete, DNSZoneRecordDelete, CDNResourceDelete, CDNRuleDelete,
        CDNOriginGroupDelete, CDNCertDelete, CDNCACertDelete, RuleTemplateDelete,
        CDNLogsUploaderConfigDelete, CDNLogsUploaderPolicyDelete,
        CDNLogsUploaderTargetDelete, CDNAppliedPresetDelete, FastEdgeBinaryDelete,
        FastEdgeAppDelete, FastEdgeTemplateDelete, FastEdgeSecretDelete,
        WaapAdvancedRuleDelete, WaapApiPathDelete, WaapCustomPageSetDelete,
        CustomRulesDelete, WaapFirewallRuleDelete, SecurityInsightSilenceDelete
<1>1. \A k \in ProviderKinds \ Hasty : ProviderTable[k].delete.conflict = "error"
  BY SMTT(60) DEF Hasty
<1>2. \A k \in ProviderKinds \ Hasty : ProviderTable[k].delete.serve \in {"sync", "task"}
  BY SMTT(60) DEF Hasty
<1>3. \A k \in ProviderKinds \ Hasty :
        ProviderTable[k].delete.serve = "task" => ProviderTable[k].delete.verify = "gone"
  BY SMTT(60) DEF Hasty
<1>4. \A k \in ProviderKinds \ Leaky : ProviderTable[k].delete.conflict = "error"
  BY SMTT(60) DEF Leaky, AwaitedKinds
<1> QED BY ONLY <1>1, <1>2, <1>3, <1>4

(* What the read handlers of the types named Wedging make of a 404. *)
LEMMA ReadsOfTheProvider == \A k \in Wedging : ProviderTable[k].read = "error"
  BY SMTT(60) DEF Wedging, ProviderTable, Handlers,
         VolumeRead, NetworkRead, SubnetRead, SnapshotRead, FloatingIPRead, ReservedFixedIPRead,
         RouterRead, InstanceRead, InstanceV2Read, BmInstanceRead, SecurityGroupRead,
         ServerGroupRead, SecretRead, KeypairRead, LoadBalancerRead, LoadBalancerV2Read,
         LBListenerRead, LBPoolRead, LBMemberRead, K8sV2Read, FileShareRead,
         PostgresClusterRead, LifecyclePolicyRead, AIClusterRead, DDoSProtectionRead,
         InferenceDeploymentRead, InferenceSecretRead, RegistryCredentialRead,
         LaaSTopicRead, FaaSNamespaceRead, FaaSFunctionRead, FaaSKeyRead,
         GPUClusterRead, GPUImageRead, StorageS3Read, StorageS3BucketRead,
         StorageSFTPRead, StorageSFTPKeyRead, DNSZoneRead, DNSZoneRecordRead,
         DNSNetworkMappingRead, CDNResourceRead, CDNRuleRead, CDNOriginGroupRead,
         CDNCertRead, CDNCACertRead, RuleTemplateRead, CDNLogsUploaderConfigRead,
         CDNLogsUploaderPolicyRead, CDNLogsUploaderTargetRead, CDNAppliedPresetRead,
         FastEdgeBinaryRead, FastEdgeAppRead, FastEdgeTemplateRead, FastEdgeSecretRead,
         WaapAdvancedRuleRead, WaapApiPathRead, WaapCustomPageSetRead, CustomRulesRead,
         WaapFirewallRuleRead, SecurityInsightSilenceRead

(* Any of the provider's types, with the exceptions named for them. *)
ProviderTypes ==
  /\ Kinds \subseteq ProviderKinds /\ Table = TableOfKinds
  /\ CarefulKinds \cap Hasty = {} /\ Kinds \cap Leaky \subseteq LeakyKinds
  /\ WedgingKinds \subseteq Wedging

(* The types of the provider, all or some of them: those that are not      *)
(* Hasty keep the contract, each failure orphans one object at most and,   *)
(* for those that are not Leaky, an error answer orphans none, and no run  *)
(* gets those that are Wedging past a lost object; for any objects,        *)
(* failures and edits.                                                     *)
THEOREM ProviderTypesKeepTheirPromises ==
  ASSUME ProviderTypes
  PROVE  Spec => KeepsContract /\ []LeaksAreFailures /\ LostObjectWedges
<1>1. \A k \in Kinds : Table[k] = ProviderTable[k] /\ k \in ProviderKinds
  BY DEF ProviderTypes, TableOfKinds
<1>2. CarefulTable
  BY <1>1, CarefulAssumption, CreatesOfTheProvider, DeletesOfTheProvider
  DEF ProviderTypes, CarefulTable, Careful
<1>3. TightTable
  BY <1>1, CreatesOfTheProvider, DeletesOfTheProvider DEF ProviderTypes, TightTable, Tight
<1>4. WedgingTable
  BY <1>1, ReadsOfTheProvider DEF ProviderTypes, WedgingTable
<1> QED
  BY <1>2, <1>3, <1>4, CarefulHandlersKeepContract, EveryLeakIsAFailure, LostObjectsWedge
=============================================================================
