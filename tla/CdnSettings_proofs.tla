------------------------- MODULE CdnSettings_proofs -------------------------
(***************************************************************************)
(* Theorems about CdnSettings for any number of settings, CDN resources    *)
(* and values and all bounds: the mutual exclusion of the handlers, that a *)
(* handler reads what it has written, that a failed move is forgotten, and *)
(* that orphaned settings are paid for one by one.                         *)
(***************************************************************************)
EXTENDS CdnSettings, FiniteSetTheorems, TLAPS

(* Only what is configured is set, and only what is recorded is removed. *)
Busy(i) ==
  /\ pc[i] \in {"planned", "locked"} => want[i] # Absent \/ have[i] # Absent
  /\ pc[i] = "reading" => want[i] # Absent
MInv == TypeOK /\ \A i \in Items : Busy(i)

LEMMA RecordTypes ==
  ASSUME TypeOK, NEW i \in Items, NEW s \in Recorded
  PROVE  Look(i, s) \in Recorded \cup {Absent}
  BY DEF TypeOK, Look, Recorded

LEMMA PlannedTypes ==
  ASSUME NEW s \in Setting
  PROVE  AsPlanned(s) \in Recorded
  BY DEF AsPlanned, Setting, Recorded

(* The handler that holds the mutex is the only one between its lock and   *)
(* its return.                                                             *)
LEMMA Alone ==
  ASSUME TypeOK, NEW i \in Items, pc[i] \in {"locked", "reading"}
  PROVE  /\ lock = i /\ i # Nobody
         /\ \A j \in Items \ {i} : pc[j] \notin {"locked", "reading"}
  BY ItemsAssumption DEF TypeOK

(* A request leaves the service in order when its CDN resource exists. *)
LEMMA SetTypes ==
  ASSUME TypeOK, NEW i \in Items, want[i] \in Setting, want[i].on \in live, SetAt(i)
  PROVE  /\ shield' \in [CdnResources -> Values \cup {Unset}]
         /\ applied' \subseteq CdnResources \X Values
         /\ \A r \in CdnResources \ live : shield'[r] = Unset /\ \A v \in Values : <<r, v>> \notin applied'
<1>1. want[i].on \in CdnResources /\ want[i].value \in Values
  BY DEF Setting
<1>2. CASE i \in Shieldings
  BY <1>1, <1>2 DEF SetAt, TypeOK
<1>3. CASE i \notin Shieldings
  BY <1>1, <1>3 DEF SetAt, TypeOK
<1> QED BY <1>2, <1>3

LEMMA UnsetTypes ==
  ASSUME TypeOK, NEW i \in Items, UnsetAt(i)
  PROVE  /\ shield' \in [CdnResources -> Values \cup {Unset}]
         /\ applied' \subseteq CdnResources \X Values
         /\ \A r \in CdnResources \ live : shield'[r] = Unset /\ \A v \in Values : <<r, v>> \notin applied'
<1>1. CASE i \in Shieldings
  BY <1>1 DEF UnsetAt, TypeOK
<1>2. CASE i \notin Shieldings
  BY <1>2 DEF UnsetAt, TypeOK
<1> QED BY <1>1, <1>2

(* A handler that returns gives the mutex back. *)
LEMMA ReturnTypes ==
  ASSUME MInv, NEW i \in Items, NEW phase \in {"done", "planned"}, Return(i, phase),
         pc[i] \in {"locked", "reading"},
         NEW s \in Recorded \cup {Absent}, Record(i, s),
         phase = "planned" => want[i] # Absent,
         UNCHANGED want
  PROVE  /\ have' \in [Items -> Recorded \cup {Absent}]
         /\ pc' \in [Items -> {"done", "planned", "locked", "reading"}]
         /\ lock' \in Items \cup {Nobody}
         /\ \A j \in Items : (pc'[j] \in {"locked", "reading"}) <=> (lock' = j)
         /\ \A j \in Items : Busy(j)'
<1>1. /\ have' = [have EXCEPT ![i] = s] /\ pc' = [pc EXCEPT ![i] = phase] /\ lock' = Nobody
  BY DEF Return, Record, Goto
<1>2. \A j \in Items : pc'[j] \notin {"locked", "reading"} /\ j # Nobody
  BY <1>1, Alone, ItemsAssumption DEF MInv, TypeOK
<1>3. /\ have' \in [Items -> Recorded \cup {Absent}]
      /\ pc' \in [Items -> {"done", "planned", "locked", "reading"}]
  BY <1>1 DEF MInv, TypeOK
<1>4. ASSUME NEW j \in Items
      PROVE  Busy(j)'
  BY <1>1, <1>2, <1>4 DEF Busy, MInv, TypeOK
<1> QED BY <1>1, <1>2, <1>3, <1>4

-----------------------------------------------------------------------------
LEMMA InitMutex == Init => MInv
<1> SUFFICES ASSUME Init PROVE MInv
  OBVIOUS
<1>1. /\ moves \in Nat /\ failures \in 0..MaxFailures
      /\ edits \in 0..MaxEdits /\ outside \in 0..MaxOutside
  BY BoundsAssumption DEF Init
<1>2. \A i \in Items : pc[i] = "done" /\ lock # i
  BY ItemsAssumption DEF Init
<1>3. TypeOK
  BY <1>1, <1>2 DEF Init, TypeOK
<1> QED BY <1>2, <1>3 DEF MInv, Busy

(* The counters count up to their bounds. *)
LEMMA CounterTypes ==
  ASSUME TypeOK
  PROVE  /\ moves + 1 \in Nat
         /\ failures < MaxFailures => failures + 1 \in 0..MaxFailures
         /\ edits < MaxEdits => edits + 1 \in 0..MaxEdits
         /\ outside < MaxOutside => outside + 1 \in 0..MaxOutside
  BY BoundsAssumption DEF TypeOK

(* A step between the lock and the return, which records something. *)
LEMMA EndTypes ==
  ASSUME MInv, NEW i \in Items, NEW phase \in {"done", "planned"}, Return(i, phase),
         pc[i] \in {"locked", "reading"}, NEW s \in Recorded \cup {Absent}, Record(i, s),
         phase = "planned" => want[i] # Absent,
         UNCHANGED <<want, live, touched, moves, edits, outside>>, failures' \in 0..MaxFailures,
         \/ UNCHANGED <<shield, applied>>
         \/ SetAt(i) /\ want[i] \in Setting /\ want[i].on \in live
         \/ UnsetAt(i)
  PROVE  MInv'
<1>1. /\ shield' \in [CdnResources -> Values \cup {Unset}]
      /\ applied' \subseteq CdnResources \X Values
      /\ \A r \in CdnResources \ live : shield'[r] = Unset /\ \A v \in Values : <<r, v>> \notin applied'
  BY SetTypes, UnsetTypes DEF MInv, TypeOK
<1>2. /\ have' \in [Items -> Recorded \cup {Absent}]
      /\ pc' \in [Items -> {"done", "planned", "locked", "reading"}]
      /\ lock' \in Items \cup {Nobody}
      /\ \A j \in Items : (pc'[j] \in {"locked", "reading"}) <=> (lock' = j)
      /\ \A j \in Items : Busy(j)'
  BY ReturnTypes
<1> QED BY <1>1, <1>2 DEF MInv, TypeOK

LEMMA MutexStep == MInv /\ [Next]_vars => MInv'
<1> SUFFICES ASSUME MInv, [Next]_vars PROVE MInv'
  OBVIOUS
<1> USE DEF service, counters
<1>t. TypeOK
  BY DEF MInv
<1>w. \A i \in Items : want[i] # Absent => want[i] \in Setting
  BY <1>t DEF TypeOK
<1>h. \A i \in Items : have[i] # Absent => have[i] \in Recorded
  BY <1>t DEF TypeOK
<1>1. CASE StartRun
  <2>1. \A i \in Items : Refreshed(i) \in Recorded \cup {Absent}
    BY <1>t, <1>h, RecordTypes DEF Refreshed, Recorded
  <2>2. /\ have' \in [Items -> Recorded \cup {Absent}]
        /\ pc' \in [Items -> {"done", "planned", "locked", "reading"}]
        /\ \A i \in Items : pc'[i] \notin {"locked", "reading"} /\ lock' # i
    BY <1>1, <1>t, <2>1 DEF StartRun, AllDone, TypeOK
  <2>3. \A i \in Items : Busy(i)'
    BY <1>1 DEF StartRun, Busy, Differs
  <2> QED BY <1>1, <1>t, <2>2, <2>3 DEF StartRun, MInv, TypeOK
<1>2. ASSUME NEW i \in Items, Lock(i)
      PROVE  MInv'
  <2>1. /\ pc' = [pc EXCEPT ![i] = "locked"] /\ lock' = i /\ pc[i] = "planned"
        /\ \A j \in Items : pc[j] \notin {"locked", "reading"}
    BY <1>2, <1>t, ItemsAssumption DEF Lock, Goto, TypeOK
  <2>2. \A j \in Items : Busy(j)'
    BY <1>2, <1>t, <2>1 DEF Lock, Busy, MInv, TypeOK
  <2> QED BY <1>2, <1>t, <2>1, <2>2 DEF Lock, MInv, TypeOK
<1>3. ASSUME NEW i \in Items, Set(i)
      PROVE  MInv'
  <2>1. want[i] # Absent
    BY <1>3 DEF Set, Removing, MInv, Busy
  <2>2. /\ shield' \in [CdnResources -> Values \cup {Unset}]
        /\ applied' \subseteq CdnResources \X Values
        /\ \A r \in CdnResources \ live : shield'[r] = Unset /\ \A v \in Values : <<r, v>> \notin applied'
    BY <1>3, <1>t, <1>w, <2>1, SetTypes DEF Set
  <2>3. /\ pc' = [pc EXCEPT ![i] = "reading"] /\ pc[i] = "locked"
        /\ UNCHANGED <<want, have, live, lock, failures, edits, outside>>
        /\ touched' \subseteq Items /\ moves' \in Nat
    BY <1>3, <1>t, CounterTypes DEF Set, Goto, TypeOK
  <2>4. \A j \in Items : Busy(j)'
    BY <1>t, <2>1, <2>3 DEF Busy, MInv, TypeOK
  <2>5. \A j \in Items : (pc'[j] \in {"locked", "reading"}) <=> (lock' = j)
    BY <1>t, <2>3 DEF TypeOK
  <2> QED BY <1>t, <2>2, <2>3, <2>4, <2>5 DEF MInv, TypeOK
<1>4. ASSUME NEW i \in Items, ReadBack(i) \/ ReadBackFails(i)
      PROVE  MInv'
  <2>1. pc[i] = "reading" /\ want[i] # Absent
    BY <1>4 DEF ReadBack, ReadBackFails, MInv, Busy
  <2>2. AsPlanned(want[i]) \in Recorded
    BY <1>w, <2>1, PlannedTypes
  <2>3. Look(i, AsPlanned(want[i])) \in Recorded \cup {Absent}
    BY <1>t, <2>2, RecordTypes DEF Recorded
  <2>4. failures' \in 0..MaxFailures
    BY <1>4, <1>t, CounterTypes DEF ReadBack, ReadBackFails, TypeOK
  <2> QED BY <1>4, <2>1, <2>2, <2>3, <2>4, EndTypes DEF ReadBack, ReadBackFails
<1>5. ASSUME NEW i \in Items, Remove(i)
      PROVE  MInv'
  <2>1. failures' \in 0..MaxFailures
    BY <1>5, <1>t DEF Remove, TypeOK
  <2> DEFINE phase == IF want[i] = Absent THEN "done" ELSE "planned"
  <2>2. /\ phase \in {"done", "planned"} /\ Return(i, phase) /\ Record(i, Absent)
        /\ phase = "planned" => want[i] # Absent
    BY <1>5 DEF Remove
  <2> HIDE DEF phase
  <2> QED BY <1>5, <2>1, <2>2, EndTypes DEF Remove
<1>6. ASSUME NEW i \in Items, Refused(i) \/ CallFails(i)
      PROVE  MInv'
  <2>1. AfterError(i) \in Recorded \cup {Absent}
    BY <1>t, <1>w, <1>h DEF AfterError, Removing, TypeOK, Recorded, Setting
  <2>2. failures' \in 0..MaxFailures
    BY <1>6, <1>t, CounterTypes DEF Refused, CallFails, TypeOK
  <2>3. \/ UNCHANGED <<shield, applied>>
        \/ SetAt(i) /\ want[i] \in Setting /\ want[i].on \in live
        \/ UnsetAt(i)
    <3>1. CASE Refused(i)
      BY <3>1 DEF Refused
    <3>2. CASE CallFails(i) /\ Removing(i)
      BY <3>2 DEF CallFails, Request
    <3>3. CASE CallFails(i) /\ ~Removing(i)
      <4>1. want[i] # Absent
        BY <3>3 DEF CallFails, Removing, MInv, Busy
      <4> QED BY <1>w, <3>3, <4>1 DEF CallFails, Request, Target
    <3> QED BY <1>6, <3>1, <3>2, <3>3
  <2> QED BY <1>6, <2>1, <2>2, <2>3, EndTypes DEF Refused, CallFails
<1>7. CASE Killed
  <2>1. /\ pc' \in [Items -> {"done", "planned", "locked", "reading"}]
        /\ \A i \in Items : pc'[i] = "done" /\ lock' # i
        /\ failures' \in 0..MaxFailures /\ lock' = Nobody
    BY <1>7, <1>t, CounterTypes, ItemsAssumption DEF Killed
  <2> QED BY <1>7, <1>t, <2>1 DEF Killed, MInv, TypeOK, Busy
<1>8. ASSUME NEW i \in Items, Edit(i)
      PROVE  MInv'
  <2>1. want' \in [Items -> Setting \cup {Absent}]
    BY <1>8, <1>t DEF Edit, TypeOK
  <2>2. edits' \in 0..MaxEdits
    BY <1>8, <1>t, CounterTypes DEF Edit
  <2> QED BY <1>8, <1>t, <2>1, <2>2 DEF Edit, AllDone, MInv, TypeOK, Busy
<1>9. ASSUME NEW i \in Items, Import(i)
      PROVE  MInv'
  <2>1. AsPlanned(want[i]) \in Recorded /\ [AsPlanned(want[i]) EXCEPT !.on = Unset] \in Recorded
    BY <1>9, <1>w, PlannedTypes DEF Import, Recorded
  <2>2. have' \in [Items -> Recorded \cup {Absent}]
    BY <1>9, <1>t, <2>1, RecordTypes DEF Import, Record, TypeOK, Recorded
  <2>3. edits' \in 0..MaxEdits
    BY <1>9, <1>t, CounterTypes DEF Import
  <2> QED BY <1>9, <1>t, <2>2, <2>3 DEF Import, AllDone, MInv, TypeOK, Busy
<1>10. ASSUME NEW r \in CdnResources, ShieldedOutside(r) \/ CdnResourceDeleted(r)
       PROVE  MInv'
  <2>1. touched' \subseteq Items /\ outside' \in 0..MaxOutside
    BY <1>10, <1>t, CounterTypes DEF ShieldedOutside, CdnResourceDeleted, Overtaken, TypeOK
  <2>2. /\ shield' \in [CdnResources -> Values \cup {Unset}]
        /\ applied' \subseteq CdnResources \X Values
    BY <1>10, <1>t DEF ShieldedOutside, CdnResourceDeleted, TypeOK
  <2>3. /\ live' \subseteq CdnResources
        /\ \A x \in CdnResources \ live' : shield'[x] = Unset /\ \A v \in Values : <<x, v>> \notin applied'
    BY <1>10, <1>t DEF ShieldedOutside, CdnResourceDeleted, TypeOK
  <2>4. UNCHANGED <<want, have, pc, lock, moves, failures, edits>>
    BY <1>10 DEF ShieldedOutside, CdnResourceDeleted
  <2> QED BY <1>t, <2>1, <2>2, <2>3, <2>4 DEF MInv, TypeOK, Busy
<1>11. CASE UNCHANGED vars
  BY <1>11 DEF vars, MInv, TypeOK, Busy
<1> QED
  BY <1>1, <1>2, <1>3, <1>4, <1>5, <1>6, <1>7, <1>8, <1>9, <1>10, <1>11 DEF Next, Handler

(* Mutual exclusion: whoever is between its lock and its return holds the  *)
(* mutex, and the state is well typed.                                     *)
THEOREM MutexInvariant == Spec => []MInv
  BY InitMutex, MutexStep, PTL DEF Spec

THEOREM TypeCorrect == Spec => []TypeOK
  BY MutexInvariant, PTL DEF MInv

-----------------------------------------------------------------------------
(* While one handler holds the mutex no other one sends a request, and     *)
(* others leave a mark.                                                    *)
LEMMA StillInService ==
  ASSUME TypeOK, NEW i \in Items, UNCHANGED want, want[i] \in Setting, InService(i),
         i \in Shieldings => shield'[want[i].on] = shield[want[i].on],
         i \notin Shieldings => (<<want[i].on, want[i].value>> \in applied' \/ UNCHANGED applied)
  PROVE  InService(i)'
  BY DEF InService

LEMMA ReadStep == MInv /\ ReadsItsOwn /\ [Next]_vars => ReadsItsOwn'
<1> SUFFICES ASSUME MInv, ReadsItsOwn, [Next]_vars,
                    NEW i \in Items, pc'[i] = "reading", i \notin touched'
             PROVE  InService(i)'
  BY DEF ReadsItsOwn
<1> USE DEF service, counters
<1>t. TypeOK
  BY DEF MInv
<1>r. ASSUME pc[i] = "reading"
      PROVE  /\ want[i] \in Setting /\ lock = i /\ i # Nobody
             /\ i \notin touched => InService(i)
             /\ \A j \in Items : pc[j] = "locked" => j # i /\ FALSE
  BY <1>t, <1>r, Alone DEF MInv, Busy, TypeOK, ReadsItsOwn
<1>1. CASE StartRun \/ Killed
  BY <1>1, <1>t DEF StartRun, Killed
<1>2. ASSUME NEW j \in Items, Lock(j)
      PROVE  InService(i)'
  <2>1. pc[i] = "reading" /\ UNCHANGED <<want, shield, applied, touched>>
    BY <1>2, <1>t DEF Lock, Goto, TypeOK
  <2> QED BY <1>t, <1>r, <2>1, StillInService
<1>3. ASSUME NEW j \in Items, Set(j)
      PROVE  InService(i)'
  <2>1. j = i
    BY <1>3, <1>t, <1>r DEF Set, Goto, TypeOK
  <2>2. want[i] # Absent
    BY <1>3, <2>1 DEF Set, Removing, MInv, Busy
  <2>3. want[i] \in Setting /\ UNCHANGED want
    BY <1>3, <1>t, <2>2 DEF Set, TypeOK
  <2>4. SetAt(i)
    BY <1>3, <2>1 DEF Set
  <2> QED BY <1>t, <2>3, <2>4 DEF SetAt, InService, TypeOK, Setting
<1>4. ASSUME NEW j \in Items, ReadBack(j) \/ ReadBackFails(j)
      PROVE  InService(i)'
  <2>1. pc[i] = "reading" /\ UNCHANGED <<want, shield, applied, touched>>
    BY <1>4, <1>t DEF ReadBack, ReadBackFails, Return, Goto, TypeOK
  <2> QED BY <1>t, <1>r, <2>1, StillInService
<1>5. ASSUME NEW j \in Items, Remove(j) \/ Refused(j) \/ CallFails(j)
      PROVE  FALSE
  <2>1. pc[j] = "locked" /\ \E phase \in {"done", "planned"} : pc' = [pc EXCEPT ![j] = phase]
    BY <1>5 DEF Remove, Refused, CallFails, Return, Goto
  <2>2. pc[i] = "reading"
    BY <1>t, <2>1 DEF TypeOK
  <2> QED BY <1>r, <2>1, <2>2
<1>6. ASSUME NEW j \in Items, Edit(j) \/ Import(j)
      PROVE  FALSE
  BY <1>6 DEF Edit, Import, AllDone
<1>7. ASSUME NEW r \in CdnResources, ShieldedOutside(r) \/ CdnResourceDeleted(r)
      PROVE  InService(i)'
  <2>1. /\ UNCHANGED <<want, pc>> /\ touched' = touched \cup Overtaken({r})
        /\ \A x \in CdnResources \ {r} : shield'[x] = shield[x]
        /\ applied' = applied \/ applied' = {a \in applied : a[1] # r}
    BY <1>7, <1>t DEF ShieldedOutside, CdnResourceDeleted, TypeOK
  <2>2. want[i] \in Setting /\ InService(i) /\ want[i].on # r
    BY <1>r, <2>1 DEF Overtaken
  <2>3. want[i].on \in CdnResources /\ want[i].value \in Values
    BY <2>2 DEF Setting
  <2> QED BY <1>t, <2>1, <2>2, <2>3, StillInService DEF InService
<1>8. CASE UNCHANGED vars
  <2>1. UNCHANGED <<want, pc, shield, applied, touched>>
    BY <1>8 DEF vars
  <2> QED BY <1>t, <1>r, <2>1, StillInService
<1> QED BY <1>1, <1>2, <1>3, <1>4, <1>5, <1>6, <1>7, <1>8 DEF Next, Handler

(* Whichever settings name the same CDN resource, and however many of them *)
(* are written at a time, each handler reads what it has written.          *)
THEOREM ReadersReadTheirOwn == Spec => []ReadsItsOwn
<1>1. Init => ReadsItsOwn
  BY DEF Init, ReadsItsOwn
<1>2. Spec => [](MInv /\ ReadsItsOwn)
  BY <1>1, InitMutex, MutexStep, ReadStep, PTL DEF Spec
<1> QED BY <1>2, PTL

-----------------------------------------------------------------------------
(* No step of a handler of another setting is about a setting that is done. *)
LEMMA DoneStays ==
  ASSUME TypeOK, [Next]_vars, NEW i \in Items, pc[i] = "done", ~StartRun
  PROVE  pc'[i] = "done" /\ (have[i] # Absent => have'[i] = have[i])
<1> USE DEF service, counters
<1>1. CASE Killed
  BY <1>1 DEF Killed
<1>2. ASSUME NEW j \in Items, Handler(j) \/ ReadBackFails(j) \/ CallFails(j)
      PROVE  pc'[i] = "done" /\ have'[i] = have[i]
  <2>1. /\ pc[j] # "done" /\ \E phase : pc' = [pc EXCEPT ![j] = phase]
        /\ have' = have \/ \E s : have' = [have EXCEPT ![j] = s]
    BY <1>2 DEF Handler, Lock, Set, ReadBack, ReadBackFails, Remove, Refused, CallFails,
                Return, Goto, Record
  <2> QED BY <2>1 DEF TypeOK
<1>3. ASSUME NEW j \in Items, Edit(j)
      PROVE  pc'[i] = "done" /\ have'[i] = have[i]
  BY <1>3 DEF Edit
<1>4. ASSUME NEW j \in Items, Import(j)
      PROVE  pc'[i] = "done" /\ (have[i] # Absent => have'[i] = have[i])
  <2>1. have[j] = Absent /\ UNCHANGED pc /\ \E s : have' = [have EXCEPT ![j] = s]
    BY <1>4 DEF Import, Record
  <2> QED BY <2>1 DEF TypeOK
<1>5. ASSUME NEW r \in CdnResources, ShieldedOutside(r) \/ CdnResourceDeleted(r)
      PROVE  pc'[i] = "done" /\ have'[i] = have[i]
  BY <1>5 DEF ShieldedOutside, CdnResourceDeleted
<1>6. CASE UNCHANGED vars
  BY <1>6 DEF vars
<1> QED BY <1>1, <1>2, <1>3, <1>4, <1>5, <1>6 DEF Next

(* No run sees that a shielding was not moved, as long as the old CDN      *)
(* resource looks as the new one should.                                   *)
THEOREM FailedMovesAreForgotten == Spec => FailedMoveIsForgotten
<1>1. ASSUME TypeOK, [Next]_vars
      PROVE  [StaysOverlooked]_vars
  <2> SUFFICES ASSUME NEW i \in Shieldings, pc[i] = "done", Overlooked(i), LetAlone(i)
               PROVE  pc'[i] = "done" /\ Overlooked(i)'
    BY DEF StaysOverlooked
  <2>0. i \in Items
    BY DEF Items
  <2>1. CASE StartRun
    <3>1. have[i] # Absent /\ have[i] \in Recorded /\ have[i].id \in live
      BY <1>1, <2>0 DEF TypeOK, Overlooked
    <3>2. Refreshed(i) = [have[i] EXCEPT !.value = want[i].value]
      BY <3>1 DEF Refreshed, Look, Overlooked
    <3>3. /\ Refreshed(i).id = have[i].id /\ Refreshed(i).on = want[i].on
          /\ Refreshed(i).value = want[i].value
      BY <3>1, <3>2 DEF Recorded, Overlooked
    <3>4. Refreshed(i) # Absent
      <4>1. want[i].value \in Values
        BY <1>1, <2>0 DEF TypeOK, Overlooked, Setting
      <4>2. Refreshed(i) \in Recorded
        BY <3>1, <3>2, <4>1 DEF Recorded
      <4> QED BY <4>2, AbsentAssumption
    <3>5. have'[i] = Refreshed(i) /\ pc'[i] = "done" /\ UNCHANGED <<want, live, shield>>
      BY <2>0, <2>1, <3>3, <3>4 DEF StartRun, Differs, Overlooked, service
    <3> QED BY <3>3, <3>4, <3>5 DEF Overlooked
  <2>2. CASE ~StartRun
    <3>1. pc'[i] = "done" /\ have'[i] = have[i]
      BY <1>1, <2>0, <2>2, DoneStays DEF Overlooked
    <3> QED BY <3>1 DEF Overlooked, LetAlone
  <2> QED BY <2>1, <2>2
<1> QED BY <1>1, TypeCorrect, PTL DEF Spec, FailedMoveIsForgotten

-----------------------------------------------------------------------------
(* What a handler that has sent its request will record it already knows;  *)
(* what it will forget it has already forgotten.                           *)
Knows(i, r) == Writing(i, r) \/ (pc[i] # "reading" /\ Holds(i, r))

(* A shielding whose move has failed: the state says where it should be,   *)
(* its id where Read looks.  When it is deleted, the first one is unset    *)
(* and the second one is not.                                              *)
Astray(i) == have[i] # Absent /\ have[i].id # have[i].on /\ have[i].on \in live

Loose(r) ==
  /\ shield[r] # Unset
  /\ \A i \in Shieldings : ~Knows(i, r) /\ ~(Astray(i) /\ have[i].on = r)

LoosePreset(a) ==
  /\ a \in applied
  /\ \A i \in AppliedPresets :
       /\ ~(Writing(i, a[1]) /\ want[i].value = a[2])
       /\ ~(pc[i] # "reading" /\ Holds(i, a[1]) /\ have[i].value = a[2])

(* What the failures, the changes of others and the moves have to pay for. *)
(* A shielding astray stands for the point of presence it may leave behind *)
(* at either end of its move, never for both.                              *)
Owed ==
  {<<"astray", i>> : i \in {j \in Shieldings : Astray(j)}}
    \cup {<<"shield", r>> : r \in {x \in CdnResources : Loose(x)}}
    \cup {<<"preset", a>> : a \in {x \in applied : LoosePreset(x)}}
Paid == failures + outside + moves

OwedBound == IsFiniteSet(Owed) /\ Cardinality(Owed) <= Paid
PresetIds == \A i \in AppliedPresets : have[i] # Absent => have[i].id = have[i].on

(* A set does not grow when every new element takes the place of an old    *)
(* one.                                                                    *)
LEMMA Exchange ==
  ASSUME NEW S, NEW T, NEW place, IsFiniteSet(S),
         \A y \in T \ S : \E x \in S \ T : place[x] = y
  PROVE  IsFiniteSet(T) /\ Cardinality(T) <= Cardinality(S)
<1> DEFINE old(y) == IF y \in S THEN y ELSE CHOOSE x \in S \ T : place[x] = y
           f == [y \in T |-> old(y)]
<1>1. \A y \in T : old(y) \in S /\ (y \notin S => old(y) \notin T /\ place[old(y)] = y)
  OBVIOUS
<1> HIDE DEF old
<1>2. f \in [T -> S] /\ \A y \in T : f[y] = old(y)
  BY <1>1
<1>3. ASSUME NEW y \in T, NEW z \in T, old(y) = old(z)
      PROVE  y = z
  <2>1. \A x \in T : x \in S => old(x) = x
    BY DEF old
  <2> QED BY <1>1, <1>3, <2>1
<1> HIDE DEF f
<1>4. f \in Injection(T, S)
  BY <1>2, <1>3 DEF Injection, IsInjective
<1> QED BY <1>4, FS_Injection

(* The account of a step: what it adds is in New, or takes the place of a  *)
(* shielding that is astray no longer.                                     *)
Accounts(place, New) ==
  /\ \A i \in Shieldings : Astray(i)' => Astray(i) \/ <<"astray", i>> \in New
  /\ \A r \in CdnResources :
       Loose(r)' => \/ Loose(r) \/ <<"shield", r>> \in New
                    \/ \E i \in Shieldings : Astray(i) /\ ~Astray(i)' /\ place[i] = r
  /\ \A a \in CdnResources \X Values :
       LoosePreset(a)' => LoosePreset(a) \/ <<"preset", a>> \in New

(* Each mishap and each move pays for one.                                 *)
LEMMA PaidTypes ==
  ASSUME TypeOK
  PROVE  /\ Paid \in Nat
         /\ UNCHANGED <<failures, outside, moves>> => Paid' = Paid
         /\ failures' = failures + 1 /\ UNCHANGED <<outside, moves>> => Paid' = Paid + 1
         /\ outside' = outside + 1 /\ UNCHANGED <<failures, moves>> => Paid' = Paid + 1
         /\ moves' = moves + 1 /\ UNCHANGED <<failures, outside>> => Paid' = Paid + 1
<1>1. moves \in Nat /\ failures \in Nat /\ outside \in Nat
  BY BoundsAssumption DEF TypeOK
<1> QED BY <1>1 DEF Paid

(* A step whose accounts are in order keeps the bound, if it owes nothing  *)
(* new or one thing that it pays for.                                      *)
LEMMA AccountsBalance ==
  ASSUME MInv, MInv', OwedBound, NEW place, NEW New, Accounts(place, New),
         \/ New = {} /\ Paid' \in {Paid, Paid + 1}
         \/ Paid' = Paid + 1 /\ \E e : New = {e}
  PROVE  OwedBound'
<1> DEFINE f == [x \in Owed |-> <<"shield", place[x[2]]>>]
           S == Owed \cup New
<1>p. Paid \in Nat /\ Paid' \in {Paid, Paid + 1}
  BY PaidTypes DEF MInv
<1>1. IsFiniteSet(S) /\ Cardinality(S) <= Paid' /\ Cardinality(S) \in Nat
  <2>1. Cardinality(Owed) \in Nat /\ Cardinality(Owed) <= Paid /\ IsFiniteSet(Owed)
    BY FS_CardinalityType DEF OwedBound
  <2>2. CASE New = {}
    BY <1>p, <2>1, <2>2
  <2>3. CASE Paid' = Paid + 1 /\ \E e : New = {e}
    <3>1. PICK e : New = {e}
      BY <2>3
    <3>2. IsFiniteSet(S) /\ Cardinality(S) \in {Cardinality(Owed), Cardinality(Owed) + 1}
      <4>1. IsFiniteSet(Owed \cup {e}) /\ Cardinality(Owed \cup {e})
              = IF e \in Owed THEN Cardinality(Owed) ELSE Cardinality(Owed) + 1
        BY <2>1, FS_AddElement
      <4> QED BY <3>1, <4>1
    <3> HIDE DEF S
    <3> QED BY <1>p, <2>1, <2>3, <3>2
  <2> QED BY <2>2, <2>3
<1>2. ASSUME NEW i \in Shieldings
      PROVE  /\ <<"astray", i>> \in Owed <=> Astray(i)
             /\ <<"astray", i>> \in Owed' <=> Astray(i)'
  BY DEF Owed
<1>3. ASSUME NEW y \in Owed', y \notin S
      PROVE  \E x \in S \ Owed' : f[x] = y
  <2>1. PICK r \in CdnResources : y = <<"shield", r>> /\ Loose(r)' /\ ~Loose(r)
    <3>1. CASE \E i \in Shieldings : y = <<"astray", i>> /\ Astray(i)'
      BY <1>2, <1>3, <3>1 DEF Accounts
    <3>2. CASE \E a \in applied' : y = <<"preset", a>> /\ LoosePreset(a)'
      <4>1. PICK a \in applied' : y = <<"preset", a>> /\ LoosePreset(a)'
        BY <3>2
      <4>2. a \in CdnResources \X Values
        BY <4>1 DEF MInv, TypeOK
      <4>3. LoosePreset(a) /\ a \in applied
        BY <1>3, <4>1, <4>2 DEF Accounts, LoosePreset
      <4> QED BY <1>3, <4>1, <4>3 DEF Owed
    <3>3. CASE \E r \in CdnResources : y = <<"shield", r>> /\ Loose(r)'
      BY <1>3, <3>3 DEF Owed
    <3> QED BY <1>3, <3>1, <3>2, <3>3 DEF Owed
  <2>2. PICK i \in Shieldings : Astray(i) /\ ~Astray(i)' /\ place[i] = r
    BY <1>3, <2>1 DEF Accounts
  <2>3. /\ <<"astray", i>> \in Owed /\ <<"astray", i>> \notin Owed'
        /\ f[<<"astray", i>>] = y
    BY <1>2, <2>1, <2>2
  <2> QED BY <2>3
<1> HIDE DEF f, S
<1>4. IsFiniteSet(Owed') /\ Cardinality(Owed') <= Cardinality(S)
  BY <1>1, <1>3, Exchange
<1>5. Cardinality(Owed') \in Nat
  BY <1>4, FS_CardinalityType
<1> QED BY <1>p, <1>1, <1>4, <1>5 DEF OwedBound

(* The id of an applied preset is made of its attributes.                  *)
LEMMA PresetIdsStep == MInv /\ PresetIds /\ [Next]_vars => PresetIds'
<1> SUFFICES ASSUME MInv, PresetIds, [Next]_vars,
                    NEW i \in AppliedPresets, have'[i] # Absent
             PROVE  have'[i].id = have'[i].on
  BY DEF PresetIds
<1> USE DEF service, counters
<1>t. TypeOK /\ i \in Items /\ i \notin Shieldings
  BY ItemsAssumption DEF MInv, Items
<1>h. have[i] # Absent => have[i] \in Recorded /\ have[i].id = have[i].on
  BY <1>t DEF TypeOK, PresetIds
<1>1. CASE StartRun
  BY <1>1, <1>t, <1>h DEF StartRun, Refreshed, Look
<1>2. ASSUME NEW j \in Items, ReadBack(j) \/ ReadBackFails(j) \/ Import(j)
      PROVE  have'[i].id = have'[i].on
  <2>1. CASE j = i
    BY <1>2, <1>t, <2>1 DEF ReadBack, ReadBackFails, Import, Record, Look, AsPlanned, TypeOK
  <2>2. CASE j # i
    BY <1>2, <1>t, <1>h, <2>2 DEF ReadBack, ReadBackFails, Import, Record, TypeOK
  <2> QED BY <2>1, <2>2
<1>3. ASSUME NEW j \in Items, Remove(j)
      PROVE  have'[i].id = have'[i].on
  BY <1>3, <1>t, <1>h DEF Remove, Record, TypeOK
<1>4. ASSUME NEW j \in Items, Refused(j) \/ CallFails(j)
      PROVE  have'[i].id = have'[i].on
  <2>1. have' = [have EXCEPT ![j] = AfterError(j)]
    BY <1>4 DEF Refused, CallFails, Record
  <2>2. CASE j = i
    <3>1. have'[i] = AfterError(i)
      BY <1>t, <2>1, <2>2 DEF TypeOK
    <3>2. CASE Removing(i) \/ have[i] = Absent
      BY <1>h, <3>1, <3>2 DEF AfterError
    <3>3. CASE ~Removing(i) /\ have[i] # Absent
      <4>1. want[i].on = have[i].on
        BY <3>3 DEF Removing, Differs
      <4> QED BY <1>h, <3>1, <3>3, <4>1 DEF AfterError, Recorded
    <3> QED BY <3>2, <3>3
  <2>3. CASE j # i
    BY <1>t, <1>h, <2>1, <2>3 DEF TypeOK
  <2> QED BY <2>2, <2>3
<1>5. CASE UNCHANGED have
  BY <1>5, <1>h
<1> QED
  BY <1>1, <1>2, <1>3, <1>4, <1>5
  DEF Next, Handler, Lock, Set, Edit, Killed, ShieldedOutside, CdnResourceDeleted, vars

-----------------------------------------------------------------------------
Places == [i \in Items |-> have[i].on]

(* Read keeps the id and the resource_id of a shielding it finds.          *)
LEMMA LookKeeps ==
  ASSUME TypeOK, NEW i \in Shieldings, NEW s \in Recorded
  PROVE  /\ s.id \notin live => Look(i, s) = Absent
         /\ s.id \in live => /\ Look(i, s) # Absent
                             /\ Look(i, s).id = s.id /\ Look(i, s).on = s.on
<1>1. CASE s.id \in live
  <2>1. Look(i, s) = [s EXCEPT !.value = shield[s.id]]
    BY <1>1 DEF Look
  <2>2. shield[s.id] \in Values \cup {Unset}
    BY <1>1 DEF TypeOK
  <2>3. /\ Look(i, s) \in Recorded
        /\ Look(i, s).id = s.id /\ Look(i, s).on = s.on
    BY <2>1, <2>2 DEF Recorded
  <2> QED BY <1>1, <2>3, AbsentAssumption
<1>2. CASE s.id \notin live
  BY <1>2 DEF Look
<1> QED BY <1>1, <1>2

(* An item is of one type, and so are its records.                         *)
LEMMA ItemFacts ==
  ASSUME MInv, NEW i \in Items
  PROVE  /\ have[i] # Absent => have[i] \in Recorded
         /\ want[i] # Absent => want[i] \in Setting
         /\ i \in Shieldings <=> i \notin AppliedPresets
  BY ItemsAssumption DEF MInv, TypeOK, Items

(* Only a CDN resource that exists is shielded.                            *)
LEMMA ShieldedAreLive ==
  ASSUME MInv, NEW r \in CdnResources, shield[r] # Unset
  PROVE  r \in live
  BY DEF MInv, TypeOK

(* A refresh forgets an id only if the item is no longer at the service.   *)
LEMMA StartRunAccounts ==
  ASSUME MInv, PresetIds, StartRun
  PROVE  Accounts(Places, {})
<1> USE DEF service, counters
<1>1. /\ UNCHANGED <<want, live, shield, applied>>
      /\ \A i \in Items : have'[i] = Refreshed(i) /\ pc[i] = "done" /\ pc'[i] # "reading"
  BY DEF StartRun, AllDone
<1>2. ASSUME NEW i \in Shieldings
      PROVE  /\ i \in Items
             /\ have'[i] # Absent => /\ have[i] # Absent
                                     /\ have'[i].id = have[i].id /\ have'[i].on = have[i].on
             /\ have[i] # Absent /\ have[i].id \in live => have'[i] # Absent
  <2>1. i \in Items
    BY DEF Items
  <2> QED BY <1>1, <2>1, ItemFacts, LookKeeps DEF Refreshed, MInv
<1>3. ASSUME NEW i \in Shieldings, Astray(i)'
      PROVE  Astray(i)
  BY <1>1, <1>2, <1>3 DEF Astray
<1>4. ASSUME NEW r \in CdnResources, Loose(r)', ~Loose(r)
      PROVE  \E i \in Shieldings : Astray(i) /\ ~Astray(i)' /\ Places[i] = r
  <2>1. shield[r] # Unset /\ r \in live
    BY <1>1, <1>4, ShieldedAreLive DEF Loose
  <2>2. PICK i \in Shieldings : Knows(i, r) \/ (Astray(i) /\ have[i].on = r)
    BY <1>4, <2>1 DEF Loose
  <2>3. ~Knows(i, r)
    BY <1>1, <1>2, <1>4, <2>1 DEF Loose, Knows, Holds, Writing
  <2>4. ~Astray(i)'
    BY <1>2, <1>4, <2>2, <2>3 DEF Loose, Astray
  <2> QED BY <1>2, <2>2, <2>3, <2>4 DEF Places
<1>5. ASSUME NEW a \in CdnResources \X Values, LoosePreset(a)'
      PROVE  LoosePreset(a)
  <2>1. a \in applied
    BY <1>1, <1>5 DEF LoosePreset
  <2>2. ASSUME NEW i \in AppliedPresets, Holds(i, a[1]), have[i].value = a[2]
        PROVE  FALSE
    <3>1. i \in Items /\ i \notin Shieldings
      BY ItemsAssumption DEF Items
    <3>2. have[i].on = a[1] /\ a = <<have[i].on, have[i].value>>
      BY <2>2 DEF Holds, PresetIds
    <3>3. have'[i] = have[i]
      BY <1>1, <2>1, <2>2, <3>1, <3>2 DEF Refreshed, Look, Holds
    <3> QED BY <1>1, <1>5, <2>2, <3>1, <3>3 DEF LoosePreset, Holds
  <2> QED BY <1>1, <2>1, <2>2 DEF LoosePreset, Writing, Items
<1> QED BY <1>3, <1>4, <1>5 DEF Accounts

(* The items a step does not act on know what they knew.                   *)
Bystander(i) ==
  /\ pc'[i] = pc[i] /\ have'[i] = have[i] /\ want'[i] = want[i]

(* What an item in whose fields nothing changes knows stays the same.      *)
LEMMA BystandersKnow ==
  ASSUME NEW i, Bystander(i)
  PROVE  /\ \A r : (Knows(i, r)' <=> Knows(i, r)) /\ (Holds(i, r)' <=> Holds(i, r))
                   /\ (Writing(i, r)' <=> Writing(i, r))
         /\ live' \subseteq live => (Astray(i)' => Astray(i))
         /\ live' = live => (Astray(i)' <=> Astray(i))
  BY DEF Bystander, Knows, Holds, Writing, Astray

(* Taking the mutex changes nothing that is known.                         *)
LEMMA LockAccounts ==
  ASSUME MInv, NEW i \in Items, Lock(i)
  PROVE  Accounts(Places, {})
<1>1. /\ UNCHANGED <<want, have, live, shield, applied>>
      /\ \A j \in Items : pc'[j] = "reading" <=> pc[j] = "reading"
  BY DEF Lock, Goto, service, MInv, TypeOK
<1>2. \A j \in Items : Astray(j)' <=> Astray(j)
  BY <1>1 DEF Astray
<1>3. ASSUME NEW j \in Items, NEW r
      PROVE  /\ Writing(j, r)' <=> Writing(j, r)
             /\ Holds(j, r)' <=> Holds(j, r)
             /\ Knows(j, r)' <=> Knows(j, r)
  <2>1. Writing(j, r)' <=> Writing(j, r)
    BY <1>1 DEF Writing
  <2>2. Holds(j, r)' <=> Holds(j, r)
    BY <1>1 DEF Holds
  <2> QED BY <1>1, <2>1, <2>2 DEF Knows
<1>4. ASSUME NEW r \in CdnResources, Loose(r)'
      PROVE  Loose(r)
  BY <1>1, <1>2, <1>3, <1>4 DEF Loose, Items
<1>5. ASSUME NEW a \in CdnResources \X Values, LoosePreset(a)'
      PROVE  LoosePreset(a)
  BY <1>1, <1>3, <1>5 DEF LoosePreset, Items
<1> QED BY <1>2, <1>4, <1>5 DEF Accounts, Items

(* The CDN resource a shielding is moved from is paid for by the move.     *)
MovedFrom(i) ==
  IF i \in Shieldings /\ have[i] # Absent /\ have[i].id # want[i].on
    THEN {<<"shield", have[i].id>>} ELSE {}

(* A request that moves a shielding leaves the old one, which the move pays*)
(* for; any other covers what it replaces.                                 *)
LEMMA SetAccounts ==
  ASSUME MInv, PresetIds, NEW i \in Items, Set(i)
  PROVE  Accounts(Places, MovedFrom(i))
<1> USE DEF service, counters
<1>t. TypeOK
  BY DEF MInv
<1>1. /\ pc[i] = "locked" /\ pc'[i] = "reading" /\ UNCHANGED <<want, have, live>>
      /\ \A j \in Items \ {i} : Bystander(j)
  BY <1>t DEF Set, Goto, Bystander, TypeOK
<1>2. want[i] \in Setting
  BY <1>t, <1>1, ItemFacts DEF Set, MInv, Busy, Removing
<1>3. \A r : (Knows(i, r)' <=> want[i].on = r) /\ (Knows(i, r) <=> Holds(i, r))
  BY <1>1 DEF Knows, Writing, Holds
<1>4. CASE i \in Shieldings
  <2>1. /\ UNCHANGED applied
        /\ \A r \in CdnResources : r # want[i].on => shield'[r] = shield[r]
    BY <1>t, <1>4 DEF Set, SetAt, TypeOK
  <2>2. ASSUME NEW j \in Shieldings
        PROVE  Astray(j)' <=> Astray(j)
    BY <1>1 DEF Astray
  <2>3. ASSUME NEW r \in CdnResources, Loose(r)', ~Loose(r)
        PROVE  <<"shield", r>> \in MovedFrom(i)
    <3>1. r # want[i].on /\ shield[r] # Unset
      BY <1>3, <1>4, <2>1, <2>3 DEF Loose
    <3>2. PICK j \in Shieldings : Knows(j, r) \/ (Astray(j) /\ have[j].on = r)
      BY <2>3, <3>1 DEF Loose
    <3>3. Knows(j, r)
      BY <1>1, <2>2, <2>3, <3>2 DEF Loose
    <3>4. j = i
      BY <1>1, <2>3, <3>3, BystandersKnow DEF Loose, Items
    <3> QED BY <1>3, <1>4, <3>1, <3>3, <3>4 DEF MovedFrom, Holds
  <2>4. ASSUME NEW a \in CdnResources \X Values, LoosePreset(a)'
        PROVE  LoosePreset(a)
    <3>1. \A j \in AppliedPresets : j \in Items \ {i}
      BY <1>4, ItemFacts DEF Items
    <3> QED BY <1>1, <2>1, <2>4, <3>1, BystandersKnow DEF LoosePreset, Bystander
  <2> QED BY <2>2, <2>3, <2>4 DEF Accounts
<1>5. CASE i \notin Shieldings
  <2>1. UNCHANGED shield /\ applied' = applied \cup {<<want[i].on, want[i].value>>}
    BY <1>5 DEF Set, SetAt
  <2>2. i \in AppliedPresets /\ \A j \in Shieldings : j \in Items \ {i}
    BY <1>5 DEF Items
  <2>3. ASSUME NEW a \in CdnResources \X Values, LoosePreset(a)'
        PROVE  LoosePreset(a)
    <3>1. a # <<want[i].on, want[i].value>>
      BY <1>1, <2>2, <2>3 DEF LoosePreset, Writing
    <3>2. a \in applied
      BY <2>1, <2>3, <3>1 DEF LoosePreset
    <3>3. \A j \in AppliedPresets : j # i => j \in Items \ {i}
      BY DEF Items
    <3>4. ~Writing(i, a[1])
      BY <1>1 DEF Writing
    <3>5. ~(Holds(i, a[1]) /\ have[i].value = a[2])
      <4>1. have[i] # Absent => have[i].on = want[i].on /\ have[i].value = want[i].value
        BY <2>2 DEF Set, Removing, Differs
      <4>2. a = <<a[1], a[2]>>
        OBVIOUS
      <4> QED BY <2>2, <3>1, <4>1, <4>2 DEF Holds, PresetIds
    <3> QED BY <1>1, <2>3, <3>2, <3>3, <3>4, <3>5, BystandersKnow DEF LoosePreset, Bystander
  <2>4. \A j \in Shieldings : Astray(j)' <=> Astray(j)
    BY <1>1 DEF Astray
  <2>5. \A r \in CdnResources : Loose(r)' => Loose(r)
    BY <1>1, <2>1, <2>2, <2>4, BystandersKnow DEF Loose
  <2> QED BY <2>3, <2>4, <2>5 DEF Accounts
<1> QED BY <1>4, <1>5

(* What is recorded of an item leaves the others as they are.              *)
LEMMA RecordFacts ==
  ASSUME MInv, NEW i \in Items, NEW s, Record(i, s), NEW phase, Goto(i, phase), UNCHANGED want
  PROVE  /\ have'[i] = s /\ pc'[i] = phase
         /\ \A j \in Items \ {i} : Bystander(j)
  BY DEF Record, Goto, Bystander, MInv, TypeOK

(* The handler records what it has written, or what it has just read.      *)
LEMMA ReadBackAccounts ==
  ASSUME MInv, NEW i \in Items, ReadBack(i) \/ ReadBackFails(i)
  PROVE  Accounts(Places, {})
<1> USE DEF service, counters
<1>t. TypeOK
  BY DEF MInv
<1>1. /\ pc[i] = "reading" /\ pc'[i] = "done" /\ UNCHANGED <<want, live, shield, applied>>
      /\ have'[i] \in {AsPlanned(want[i]), Look(i, AsPlanned(want[i]))}
      /\ \A j \in Items \ {i} : Bystander(j)
  <2>1. PICK s \in {AsPlanned(want[i]), Look(i, AsPlanned(want[i]))} :
          Record(i, s) /\ Goto(i, "done") /\ UNCHANGED <<want, live, shield, applied>> /\ pc[i] = "reading"
    BY DEF ReadBack, ReadBackFails, Return
  <2> QED BY <2>1, RecordFacts
<1>2. want[i] \in Setting /\ AsPlanned(want[i]) \in Recorded
  BY <1>1, ItemFacts, PlannedTypes DEF MInv, Busy
<1>3. \A r : Knows(i, r) <=> want[i].on = r
  BY <1>1 DEF Knows, Writing
<1>4. CASE i \in Shieldings
  <2>1. \/ have'[i] = Absent /\ want[i].on \notin live
        \/ have'[i] # Absent /\ have'[i].id = want[i].on /\ have'[i].on = want[i].on
    BY <1>t, <1>1, <1>2, <1>4, LookKeeps, AbsentAssumption DEF AsPlanned
  <2>2. ~Astray(i)' /\ \A j \in Shieldings \ {i} : Astray(j)' <=> Astray(j)
    BY <1>1, <2>1, BystandersKnow DEF Astray, Items
  <2>3. ASSUME NEW r \in CdnResources, Loose(r)', ~Loose(r)
        PROVE  \E j \in Shieldings : Astray(j) /\ ~Astray(j)' /\ Places[j] = r
    <3>1. shield[r] # Unset /\ r \in live
      BY <1>1, <2>3, ShieldedAreLive DEF Loose
    <3>2. PICK j \in Shieldings : Knows(j, r) \/ (Astray(j) /\ have[j].on = r)
      BY <2>3, <3>1 DEF Loose
    <3>3. j = i
      BY <1>1, <2>2, <2>3, <3>2, BystandersKnow DEF Loose, Items, Bystander
    <3>4. ~Knows(i, r)
      BY <1>1, <1>3, <1>4, <2>1, <2>3, <3>1 DEF Loose, Knows, Holds
    <3> QED BY <1>4, <2>2, <3>2, <3>3, <3>4 DEF Places
  <2>4. ASSUME NEW a \in CdnResources \X Values, LoosePreset(a)'
        PROVE  LoosePreset(a)
    <3>1. \A j \in AppliedPresets : j \in Items \ {i}
      BY <1>4, ItemFacts DEF Items
    <3> QED BY <1>1, <2>4, <3>1, BystandersKnow DEF LoosePreset, Bystander
  <2> QED BY <2>2, <2>3, <2>4 DEF Accounts
<1>5. CASE i \notin Shieldings
  <2>1. i \in AppliedPresets /\ \A j \in Shieldings : j \in Items \ {i}
    BY <1>5 DEF Items
  <2>2. ASSUME NEW j \in Shieldings
        PROVE  Astray(j)' <=> Astray(j)
    BY <1>1, <2>1, BystandersKnow
  <2>3. ASSUME NEW r \in CdnResources, Loose(r)'
        PROVE  Loose(r)
    BY <1>1, <2>1, <2>2, <2>3, BystandersKnow DEF Loose, Bystander
  <2>4. ASSUME NEW a \in CdnResources \X Values, LoosePreset(a)'
        PROVE  LoosePreset(a)
    <3>1. a \in applied
      BY <1>1, <2>4 DEF LoosePreset
    <3>2. ASSUME a = <<want[i].on, want[i].value>>
          PROVE  FALSE
      <4>1. have'[i] = AsPlanned(want[i])
        BY <1>1, <1>5, <3>1, <3>2 DEF Look, AsPlanned
      <4>2. have'[i] # Absent /\ have'[i].id = a[1] /\ have'[i].value = a[2]
        BY <1>2, <3>2, <4>1, AbsentAssumption DEF AsPlanned
      <4> QED BY <1>1, <2>1, <2>4, <4>2 DEF LoosePreset, Holds
    <3>3. ~(Writing(i, a[1]) /\ want[i].value = a[2])
      BY <3>2 DEF Writing
    <3>4. \A j \in AppliedPresets \ {i} : j \in Items \ {i}
      BY DEF Items
    <3>5. \A j \in AppliedPresets \ {i} :
            /\ ~(Writing(j, a[1]) /\ want[j].value = a[2])
            /\ ~(pc[j] # "reading" /\ Holds(j, a[1]) /\ have[j].value = a[2])
      BY <1>1, <2>4, <3>4, BystandersKnow DEF LoosePreset, Bystander
    <3> QED BY <1>1, <3>1, <3>3, <3>5 DEF LoosePreset
  <2> QED BY <2>2, <2>3, <2>4 DEF Accounts
<1> QED BY <1>4, <1>5

(* What a step that is not about the applied presets does to them.         *)
LEMMA PresetsAlone ==
  ASSUME NEW i \in Items, i \notin AppliedPresets, \A j \in Items \ {i} : Bystander(j),
         applied' \subseteq applied, NEW a, LoosePreset(a)',
         a \in applied' => a \in applied
  PROVE  LoosePreset(a)
<1>1. \A j \in AppliedPresets : Bystander(j)
  BY DEF Items
<1> QED BY <1>1, BystandersKnow DEF LoosePreset, Bystander

(* A step of a preset is no business of the shieldings.                    *)
LEMMA ShieldingsAlone ==
  ASSUME NEW i \in Items, i \notin Shieldings, \A j \in Items \ {i} : Bystander(j),
         UNCHANGED <<live, shield>>
  PROVE  /\ \A j \in Shieldings : Astray(j)' <=> Astray(j)
         /\ \A r : Loose(r)' => Loose(r)
<1>1. ASSUME NEW j \in Shieldings
      PROVE  Bystander(j) /\ (Astray(j)' <=> Astray(j))
  BY BystandersKnow DEF Items
<1>2. ASSUME NEW r, Loose(r)'
      PROVE  Loose(r)
  BY <1>1, <1>2, BystandersKnow DEF Loose, Bystander
<1> QED BY <1>1, <1>2

(* Deleting a shielding that is astray leaves the other end of its move.   *)
Ids == [i \in Items |-> have[i].id]

LEMMA RemoveAccounts ==
  ASSUME MInv, PresetIds, NEW i \in Items, Remove(i)
  PROVE  Accounts(Ids, {})
<1> USE DEF service, counters
<1>t. TypeOK
  BY DEF MInv
<1>1. /\ pc[i] = "locked" /\ pc'[i] # "reading" /\ UNCHANGED <<want, live>>
      /\ have[i] # Absent /\ have'[i] = Absent /\ UnsetAt(i)
      /\ \A j \in Items \ {i} : Bystander(j)
  <2> DEFINE phase == IF want[i] = Absent THEN "done" ELSE "planned"
  <2>1. Record(i, Absent) /\ Goto(i, phase) /\ UNCHANGED want /\ phase # "reading"
    BY DEF Remove, Return
  <2> HIDE DEF phase
  <2> QED BY <2>1, RecordFacts DEF Remove, Removing
<1>2. ~Astray(i)' /\ ~\E r : Knows(i, r)'
  BY <1>1 DEF Astray, Knows, Writing, Holds
<1>3. \A r : Knows(i, r) <=> have[i].id = r
  BY <1>1 DEF Knows, Writing, Holds
<1>4. CASE i \in Shieldings
  <2>1. /\ UNCHANGED applied /\ shield' = [shield EXCEPT ![have[i].on] = Unset]
    BY <1>1, <1>4 DEF UnsetAt
  <2>2. ASSUME NEW j \in Shieldings \ {i}
        PROVE  Bystander(j) /\ (Astray(j)' <=> Astray(j))
    BY <1>1, BystandersKnow DEF Items
  <2>3. ASSUME NEW r \in CdnResources, Loose(r)', ~Loose(r)
        PROVE  \E j \in Shieldings : Astray(j) /\ ~Astray(j)' /\ Ids[j] = r
    <3>1. r # have[i].on /\ shield[r] # Unset
      BY <1>t, <2>1, <2>3 DEF Loose, TypeOK
    <3>2. PICK j \in Shieldings : Knows(j, r) \/ (Astray(j) /\ have[j].on = r)
      BY <2>3, <3>1 DEF Loose
    <3>3. j = i
      BY <2>2, <2>3, <3>2, BystandersKnow DEF Loose, Bystander
    <3>4. have[i].id = r
      BY <1>3, <3>1, <3>2, <3>3
    <3>5. Astray(i)
      BY <1>1, <3>1, <3>4 DEF Astray, Remove
    <3> QED BY <1>2, <1>4, <3>4, <3>5 DEF Ids
  <2>4. \A a \in CdnResources \X Values : LoosePreset(a)' => LoosePreset(a)
    BY <1>1, <1>4, <2>1, ItemFacts, PresetsAlone
  <2> QED BY <1>2, <2>2, <2>3, <2>4 DEF Accounts
<1>5. CASE i \notin Shieldings
  <2>1. UNCHANGED shield /\ applied' = applied \ {<<have[i].on, have[i].value>>}
    BY <1>1, <1>5 DEF UnsetAt
  <2>2. i \in AppliedPresets
    BY <1>5 DEF Items
  <2>3. ASSUME NEW a \in CdnResources \X Values, LoosePreset(a)'
        PROVE  LoosePreset(a)
    <3>1. a \in applied /\ a # <<have[i].on, have[i].value>>
      BY <2>1, <2>3 DEF LoosePreset
    <3>2. a = <<a[1], a[2]>>
      OBVIOUS
    <3>3. ~(Holds(i, a[1]) /\ have[i].value = a[2]) /\ ~Writing(i, a[1])
      BY <1>1, <2>2, <3>1, <3>2 DEF Holds, Writing, PresetIds
    <3>4. \A j \in AppliedPresets \ {i} : Bystander(j)
      BY <1>1 DEF Items
    <3> QED BY <2>3, <3>1, <3>3, <3>4, BystandersKnow DEF LoosePreset, Bystander
  <2> QED BY <1>1, <1>5, <2>1, <2>3, ShieldingsAlone DEF Accounts
<1> QED BY <1>4, <1>5

(* A request that was refused or failed on the way: an update records what *)
(* was planned, under the id it had.                                       *)
LEMMA ErrorFacts ==
  ASSUME MInv, PresetIds, NEW i \in Items, Refused(i) \/ CallFails(i)
  PROVE  /\ pc[i] = "locked" /\ pc'[i] = "done" /\ UNCHANGED <<want, live>>
         /\ have'[i] = AfterError(i)
         /\ \A j \in Items \ {i} : Bystander(j)
         /\ ~Removing(i) => want[i] \in Setting
         /\ i \in AppliedPresets \/ Removing(i) \/ have[i] = Absent => have'[i] = have[i]
         /\ ~(i \in AppliedPresets \/ Removing(i) \/ have[i] = Absent) =>
              /\ have'[i] # Absent /\ have'[i].id = have[i].id /\ have'[i].on = want[i].on
<1> USE DEF service, counters
<1>1. /\ pc[i] = "locked" /\ pc'[i] = "done" /\ UNCHANGED <<want, live>>
      /\ have'[i] = AfterError(i)
      /\ \A j \in Items \ {i} : Bystander(j)
  <2>1. Record(i, AfterError(i)) /\ Goto(i, "done") /\ UNCHANGED want
    BY DEF Refused, CallFails, Return
  <2> QED BY <2>1, RecordFacts DEF Refused, CallFails
<1>2. ~Removing(i) => want[i] \in Setting
  BY <1>1, ItemFacts DEF Removing, MInv, Busy
<1>3. CASE Removing(i) \/ have[i] = Absent
  BY <1>1, <1>2, <1>3 DEF AfterError
<1>4. CASE ~Removing(i) /\ have[i] # Absent
  <2>1. have[i] \in Recorded /\ want[i].on \in CdnResources /\ want[i].value \in Values
    BY <1>2, <1>4, ItemFacts DEF Setting
  <2>2. /\ have'[i] \in Recorded /\ have'[i].id = have[i].id
        /\ have'[i].on = want[i].on /\ have'[i].value = want[i].value
    BY <1>1, <1>4, <2>1 DEF AfterError, Recorded
  <2>3. i \in AppliedPresets => have'[i] = have[i]
    <3>1. i \in AppliedPresets => have[i].on = want[i].on /\ have[i].value = want[i].value
      BY <1>4 DEF Removing, Differs
    <3> QED BY <2>1, <2>2, <3>1 DEF Recorded
  <2> QED BY <1>1, <1>2, <1>4, <2>2, <2>3, AbsentAssumption
<1> QED BY <1>1, <1>2, <1>3, <1>4

(* A handler whose attempt has come to nothing, for good or for bad.       *)
LEMMA ErrorKnows ==
  ASSUME NEW i, pc[i] = "locked", pc'[i] = "done", UNCHANGED want,
         have'[i] = Absent <=> have[i] = Absent,
         have[i] # Absent => have'[i].id = have[i].id
  PROVE  \A r : /\ Knows(i, r)' <=> Knows(i, r)
                /\ Holds(i, r)' <=> Holds(i, r)
                /\ ~Writing(i, r)' /\ ~Writing(i, r)
  BY DEF Knows, Writing, Holds

(* A refused request leaves the service alone, and the id.                 *)
LEMMA RefusedAccounts ==
  ASSUME MInv, PresetIds, NEW i \in Items, Refused(i)
  PROVE  Accounts(Places, {})
<1>1. /\ pc[i] = "locked" /\ pc'[i] = "done" /\ UNCHANGED <<want, live, shield, applied>>
      /\ \A j \in Items \ {i} : Bystander(j)
  BY ErrorFacts DEF Refused, service
<1>2. \/ have'[i] = have[i]
      \/ /\ have[i] # Absent /\ have'[i] # Absent /\ have'[i].id = have[i].id
         /\ have'[i].on \notin live /\ i \notin AppliedPresets
  BY ErrorFacts DEF Refused, Target
<1>3. \A r : /\ Knows(i, r)' <=> Knows(i, r)
             /\ Holds(i, r)' <=> Holds(i, r)
             /\ ~Writing(i, r)' /\ ~Writing(i, r)
  BY <1>1, <1>2, ErrorKnows
<1>4. ASSUME NEW j \in Items, NEW r
      PROVE  Knows(j, r)' <=> Knows(j, r)
  BY <1>1, <1>3, BystandersKnow
<1>5. ASSUME NEW j \in Shieldings, Astray(j)'
      PROVE  Astray(j) /\ have'[j].on = have[j].on
  <2>1. CASE j = i
    BY <1>1, <1>2, <1>5, <2>1 DEF Astray
  <2>2. CASE j # i
    BY <1>1, <1>5, <2>2 DEF Astray, Bystander, Items
  <2> QED BY <2>1, <2>2
<1>6. ASSUME NEW r \in CdnResources, Loose(r)', ~Loose(r)
      PROVE  \E j \in Shieldings : Astray(j) /\ ~Astray(j)' /\ Places[j] = r
  <2>1. PICK j \in Shieldings : Knows(j, r) \/ (Astray(j) /\ have[j].on = r)
    BY <1>1, <1>6 DEF Loose
  <2>2. ~Knows(j, r)
    BY <1>4, <1>6 DEF Loose, Items
  <2> QED BY <1>5, <1>6, <2>1, <2>2 DEF Loose, Places, Items
<1>7. ASSUME NEW a \in CdnResources \X Values, LoosePreset(a)'
      PROVE  LoosePreset(a)
  <2>1. ASSUME NEW j \in AppliedPresets
        PROVE  /\ ~(Writing(j, a[1]) /\ want[j].value = a[2])
               /\ ~(pc[j] # "reading" /\ Holds(j, a[1]) /\ have[j].value = a[2])
    <3>1. CASE j = i
      BY <1>1, <1>2, <1>3, <1>7, <3>1 DEF LoosePreset
    <3>2. CASE j # i
      <4>1. Bystander(j)
        BY <1>1, <3>2 DEF Items
      <4> QED BY <1>7, <4>1, BystandersKnow DEF LoosePreset, Bystander
    <3> QED BY <3>1, <3>2
  <2> QED BY <1>1, <1>7, <2>1 DEF LoosePreset
<1> QED BY <1>5, <1>6, <1>7 DEF Accounts

(* What a failed request may leave behind, one thing at most: the setting  *)
(* nothing was recorded of, a shielding astray, or what one that goes      *)
(* astray again has left where it was to go before.                        *)
Spoilt(i) ==
  IF Removing(i) THEN {}
  ELSE IF i \in AppliedPresets THEN {<<"preset", <<want[i].on, want[i].value>>>>}
  ELSE IF have[i] = Absent THEN {<<"shield", want[i].on>>}
  ELSE IF Astray(i) THEN {<<"shield", have[i].on>>}
  ELSE {<<"astray", i>>}

(* A failed request orphans at most the setting it was about.              *)
LEMMA CallFailsAccounts ==
  ASSUME MInv, PresetIds, NEW i \in Items, CallFails(i)
  PROVE  Accounts(Places, Spoilt(i))
<1>t. TypeOK
  BY DEF MInv
<1>1. /\ pc[i] = "locked" /\ pc'[i] = "done" /\ UNCHANGED <<want, live>>
      /\ \A j \in Items \ {i} : Bystander(j)
      /\ Request(i) \/ UNCHANGED <<shield, applied>>
  BY ErrorFacts DEF CallFails
<1>2. /\ have'[i] = Absent <=> have[i] = Absent
      /\ have[i] # Absent => have'[i].id = have[i].id
      /\ i \in AppliedPresets \/ Removing(i) \/ have[i] = Absent => have'[i] = have[i]
      /\ ~(i \in AppliedPresets \/ Removing(i) \/ have[i] = Absent) => have'[i].on = want[i].on
      /\ ~Removing(i) => want[i] \in Setting
  BY ErrorFacts
<1>3. \A r : /\ Knows(i, r)' <=> Knows(i, r)
             /\ Holds(i, r)' <=> Holds(i, r)
             /\ ~Writing(i, r)' /\ ~Writing(i, r)
  BY <1>1, <1>2, ErrorKnows
<1>4. ASSUME NEW j \in Items, NEW r
      PROVE  Knows(j, r)' <=> Knows(j, r)
  BY <1>1, <1>3, BystandersKnow
<1>5. ASSUME NEW j \in Shieldings, j # i
      PROVE  Bystander(j) /\ (Astray(j)' <=> Astray(j)) /\ have'[j].on = have[j].on
  BY <1>1, <1>5 DEF Astray, Bystander, Items
<1>6. CASE i \notin AppliedPresets
  <2>1. /\ UNCHANGED applied /\ i \in Shieldings
        /\ \A r \in CdnResources :
             shield'[r] # Unset => shield[r] # Unset \/ (~Removing(i) /\ r = want[i].on)
    BY <1>t, <1>1, <1>6 DEF Request, SetAt, UnsetAt, TypeOK, Items
  <2>2. \A a \in CdnResources \X Values : LoosePreset(a)' => LoosePreset(a)
    BY <1>1, <1>6, <2>1, PresetsAlone
  <2>3. Astray(i)' => Astray(i) \/ <<"astray", i>> \in Spoilt(i)
    BY <1>1, <1>2, <1>6 DEF Astray, Spoilt
  <2>4. ASSUME NEW r \in CdnResources, Loose(r)', ~Loose(r)
        PROVE  \/ <<"shield", r>> \in Spoilt(i)
               \/ \E j \in Shieldings : Astray(j) /\ ~Astray(j)' /\ Places[j] = r
    <3>1. \A j \in Shieldings : ~Knows(j, r) /\ ~(Astray(j)' /\ have'[j].on = r)
      BY <1>4, <2>4 DEF Loose, Items
    <3>2. CASE \E j \in Shieldings : Astray(j) /\ have[j].on = r
      <4>1. PICK j \in Shieldings : Astray(j) /\ have[j].on = r
        BY <3>2
      <4>2. CASE Astray(j)'
        <5>1. j = i /\ have'[i].on # have[i].on
          BY <1>5, <3>1, <4>1, <4>2
        <5> QED BY <1>2, <1>6, <4>1, <5>1 DEF Spoilt
      <4>3. CASE ~Astray(j)'
        BY <4>1, <4>3 DEF Places, Items
      <4> QED BY <4>2, <4>3
    <3>3. CASE ~\E j \in Shieldings : Astray(j) /\ have[j].on = r
      <4>1. ~Removing(i) /\ r = want[i].on /\ shield'[r] # Unset /\ r \in live
        BY <1>1, <2>1, <2>4, <3>1, <3>3 DEF Loose, CallFails, Target
      <4>2. CASE have[i] = Absent
        BY <1>6, <4>1, <4>2 DEF Spoilt
      <4>3. CASE have[i] # Absent
        <5>1. have'[i].on = r /\ have'[i].id # r /\ have'[i] # Absent
          BY <1>1, <1>2, <1>6, <2>1, <3>1, <4>1, <4>3 DEF Knows, Holds
        <5>2. Astray(i)'
          BY <1>1, <4>1, <5>1 DEF Astray
        <5> QED BY <2>1, <3>1, <5>1, <5>2
      <4> QED BY <4>2, <4>3
    <3> QED BY <3>2, <3>3
  <2> QED BY <1>5, <2>2, <2>3, <2>4 DEF Accounts
<1>7. CASE i \in AppliedPresets
  <2>1. i \notin Shieldings /\ UNCHANGED <<shield, live>>
    BY <1>1, <1>7, ItemFacts DEF Request, SetAt, UnsetAt
  <2>2. \A a \in applied' : a \in applied \/ (~Removing(i) /\ a = <<want[i].on, want[i].value>>)
    BY <1>1, <2>1 DEF Request, SetAt, UnsetAt
  <2>3. ASSUME NEW a \in CdnResources \X Values, LoosePreset(a)'
        PROVE  LoosePreset(a) \/ <<"preset", a>> \in Spoilt(i)
    <3>1. a \in applied \/ <<"preset", a>> \in Spoilt(i)
      BY <1>7, <2>2, <2>3 DEF LoosePreset, Spoilt
    <3>2. ASSUME NEW j \in AppliedPresets
          PROVE  /\ ~(Writing(j, a[1]) /\ want[j].value = a[2])
                 /\ ~(pc[j] # "reading" /\ Holds(j, a[1]) /\ have[j].value = a[2])
      <4>1. CASE j = i
        BY <1>1, <1>2, <1>3, <1>7, <2>3, <4>1 DEF LoosePreset
      <4>2. CASE j # i
        <5>1. Bystander(j)
          BY <1>1, <4>2 DEF Items
        <5> QED BY <2>3, <5>1, BystandersKnow DEF LoosePreset, Bystander
      <4> QED BY <4>1, <4>2
    <3> QED BY <3>1, <3>2 DEF LoosePreset
  <2> QED BY <1>1, <2>1, <2>3, ShieldingsAlone DEF Accounts
<1> QED BY <1>6, <1>7

(* At most one handler is between its request and its return, so a killed  *)
(* provider orphans one setting at most.                                   *)
LEMMA KilledAccounts ==
  ASSUME MInv, PresetIds, Killed
  PROVE  \/ Accounts(Places, {})
         \/ \E e : Accounts(Places, {e})
<1> USE DEF service, counters
<1>t. TypeOK
  BY DEF MInv
<1>1. /\ UNCHANGED <<want, have, live, shield, applied>>
      /\ \A j \in Items : pc'[j] = "done"
  BY DEF Killed
<1>2. \A j \in Items : Astray(j)' <=> Astray(j)
  BY <1>1 DEF Astray
<1>3. ASSUME NEW j \in Items, NEW r, pc[j] # "reading" \/ ~Writing(j, r)
      PROVE  Knows(j, r) => Knows(j, r)'
  BY <1>1, <1>3 DEF Knows, Holds, Writing
<1>4. ASSUME NEW r \in CdnResources, Loose(r)', ~Loose(r)
      PROVE  \E j \in Shieldings : Writing(j, r) /\ lock = j
  <2>1. PICK j \in Shieldings : Knows(j, r)
    BY <1>1, <1>2, <1>4 DEF Loose, Items
  <2>2. Writing(j, r)
    BY <1>3, <1>4, <2>1 DEF Loose, Items
  <2> QED BY <1>t, <2>2 DEF Writing, TypeOK, Items
<1>5. ASSUME NEW a \in CdnResources \X Values, LoosePreset(a)', ~LoosePreset(a)
      PROVE  \E j \in AppliedPresets : Writing(j, a[1]) /\ want[j].value = a[2] /\ lock = j
  <2>1. PICK j \in AppliedPresets :
          \/ Writing(j, a[1]) /\ want[j].value = a[2]
          \/ pc[j] # "reading" /\ Holds(j, a[1]) /\ have[j].value = a[2]
    BY <1>1, <1>5 DEF LoosePreset
  <2>2. Writing(j, a[1]) /\ want[j].value = a[2]
    BY <1>1, <1>5, <2>1 DEF LoosePreset, Holds, Items
  <2> QED BY <1>t, <2>2 DEF Writing, TypeOK, Items
<1>6. CASE lock \in Shieldings
  <2>1. lock \notin AppliedPresets
    BY <1>6, ItemFacts DEF Items
  <2>2. Accounts(Places, {<<"shield", want[lock].on>>})
    BY <1>2, <1>4, <1>5, <2>1 DEF Accounts, Writing, Items
  <2> QED BY <2>2
<1>7. CASE lock \in AppliedPresets
  <2>1. lock \notin Shieldings
    BY <1>7, ItemFacts DEF Items
  <2>2. ASSUME NEW a \in CdnResources \X Values, LoosePreset(a)', ~LoosePreset(a)
        PROVE  a = <<want[lock].on, want[lock].value>>
    BY <1>5, <2>2 DEF Writing
  <2>3. Accounts(Places, {<<"preset", <<want[lock].on, want[lock].value>>>>})
    BY <1>2, <1>4, <2>1, <2>2 DEF Accounts, Items
  <2> QED BY <2>3
<1>8. CASE lock \notin Items
  <2>1. Accounts(Places, {})
    BY <1>2, <1>4, <1>5, <1>8 DEF Accounts, Items
  <2> QED BY <2>1
<1> QED BY <1>6, <1>7, <1>8 DEF Items

(* Between runs only what is configured, or imported, changes.             *)
LEMMA EditAccounts ==
  ASSUME MInv, NEW i \in Items, Edit(i) \/ Import(i)
  PROVE  Accounts(Places, {})
<1> USE DEF service, counters
<1>t. TypeOK
  BY DEF MInv
<1>1. /\ UNCHANGED <<live, shield, applied, pc>>
      /\ \A j \in Items : pc[j] # "reading"
      /\ \A j \in Items : have'[j] = have[j] \/ (j = i /\ have[j] = Absent /\ Import(i))
  BY <1>t DEF Edit, Import, AllDone, Record, TypeOK
<1>2. ASSUME NEW j \in Items, Astray(j)'
      PROVE  Astray(j)
  <2>1. CASE have'[j] = have[j]
    BY <1>1, <1>2, <2>1 DEF Astray
  <2>2. CASE j = i /\ Import(i) /\ j \in Shieldings
    <3>1. want[i] \in Setting
      BY <2>2, ItemFacts DEF Import
    <3> DEFINE s == [AsPlanned(want[i]) EXCEPT !.on = Unset]
    <3>2. s \in Recorded /\ s.on = Unset
      BY <3>1, PlannedTypes DEF Recorded
    <3>3. have'[i] = Look(i, s)
      BY <1>t, <2>2 DEF Import, Record, TypeOK
    <3> HIDE DEF s
    <3>4. have'[i] = Absent \/ have'[i].on = Unset
      BY <1>t, <2>2, <3>2, <3>3, LookKeeps
    <3>5. Unset \notin live'
      BY <1>t, <1>1, ItemsAssumption DEF TypeOK
    <3> QED BY <1>2, <2>2, <3>4, <3>5 DEF Astray
  <2>3. CASE j = i /\ Import(i) /\ j \notin Shieldings
    <3>1. want[i] \in Setting
      BY <2>3, ItemFacts DEF Import
    <3>2. have'[i] \in {Absent, AsPlanned(want[i])}
      BY <1>t, <2>3 DEF Import, Record, Look, TypeOK
    <3> QED BY <1>2, <2>3, <3>2 DEF Astray, AsPlanned
  <2> QED BY <1>1, <2>1, <2>2, <2>3
<1>3. ASSUME NEW j \in Items, NEW r
      PROVE  /\ Knows(j, r) => Knows(j, r)'
             /\ ~Writing(j, r) /\ ~Writing(j, r)'
             /\ Holds(j, r) => Holds(j, r)' /\ have'[j] = have[j]
  BY <1>1 DEF Knows, Holds, Writing
<1>4. ASSUME NEW r \in CdnResources, Loose(r)', ~Loose(r)
      PROVE  \E j \in Shieldings : Astray(j) /\ ~Astray(j)' /\ Places[j] = r
  <2>1. PICK j \in Shieldings : Astray(j) /\ have[j].on = r
    BY <1>1, <1>3, <1>4 DEF Loose, Items
  <2>2. have'[j] = have[j]
    BY <1>1, <2>1 DEF Astray, Items
  <2> QED BY <1>4, <2>1, <2>2 DEF Loose, Places, Items
<1>5. ASSUME NEW a \in CdnResources \X Values, LoosePreset(a)'
      PROVE  LoosePreset(a)
  BY <1>1, <1>3, <1>5 DEF LoosePreset, Items
<1> QED BY <1>2, <1>4, <1>5 DEF Accounts, Items

(* Another user shields a CDN resource, or deletes it with its settings.   *)
LEMMA OutsideAccounts ==
  ASSUME MInv, NEW r \in CdnResources, ShieldedOutside(r) \/ CdnResourceDeleted(r)
  PROVE  Accounts(Places, {<<"shield", r>>})
<1> USE DEF service, counters
<1>t. TypeOK
  BY DEF MInv
<1>1. /\ UNCHANGED <<want, have, pc>> /\ live' \subseteq live
      /\ applied' = applied \/ applied' = {a \in applied : a[1] # r}
      /\ \A x \in CdnResources \ {r} : shield'[x] = shield[x] /\ (x \in live' <=> x \in live)
  BY <1>t DEF ShieldedOutside, CdnResourceDeleted, TypeOK
<1>2. \A j : Bystander(j)
  BY <1>1 DEF Bystander
<1>3. \A j \in Shieldings : Astray(j)' => Astray(j)
  BY <1>1, <1>2, BystandersKnow
<1>4. ASSUME NEW x \in CdnResources \ {r}, Loose(x)'
      PROVE  Loose(x)
  <2>1. \A j \in Shieldings : ~Knows(j, x) /\ ~(Astray(j)' /\ have[j].on = x)
    BY <1>1, <1>2, <1>4, BystandersKnow DEF Loose
  <2>2. \A j \in Shieldings : Astray(j) /\ have[j].on = x => Astray(j)'
    BY <1>1 DEF Astray
  <2> QED BY <1>1, <1>4, <2>1, <2>2 DEF Loose
<1>5. ASSUME NEW a \in CdnResources \X Values, LoosePreset(a)'
      PROVE  LoosePreset(a)
  BY <1>1, <1>2, <1>5, BystandersKnow DEF LoosePreset
<1> QED BY <1>3, <1>4, <1>5 DEF Accounts

-----------------------------------------------------------------------------
(* Every step can pay for what it leaves behind.                           *)
LEMMA OwedStep ==
  ASSUME MInv, MInv', PresetIds, OwedBound, [Next]_vars
  PROVE  OwedBound'
<1> USE DEF service, counters
<1>t. TypeOK /\ Paid \in Nat
  BY PaidTypes DEF MInv
<1>1. CASE StartRun
  <2>1. Paid' = Paid
    BY <1>1, <1>t, PaidTypes DEF StartRun
  <2> QED BY <1>1, <1>t, <2>1, StartRunAccounts, AccountsBalance
<1>2. ASSUME NEW i \in Items, Lock(i)
      PROVE  OwedBound'
  <2>1. Paid' = Paid
    BY <1>2, <1>t, PaidTypes DEF Lock
  <2> QED BY <1>2, <1>t, <2>1, LockAccounts, AccountsBalance
<1>3. ASSUME NEW i \in Items, Set(i)
      PROVE  OwedBound'
  <2>1. CASE have[i] # Absent /\ have[i].id # want[i].on
    <3>1. Paid' = Paid + 1
      BY <1>3, <1>t, <2>1, PaidTypes DEF Set
    <3>2. MovedFrom(i) = {} \/ \E e : MovedFrom(i) = {e}
      BY DEF MovedFrom
    <3> QED BY <1>3, <1>t, <3>1, <3>2, SetAccounts, AccountsBalance
  <2>2. CASE ~(have[i] # Absent /\ have[i].id # want[i].on)
    <3>1. Paid' = Paid /\ MovedFrom(i) = {}
      BY <1>3, <1>t, <2>2, PaidTypes DEF Set, MovedFrom
    <3> QED BY <1>3, <1>t, <3>1, SetAccounts, AccountsBalance
  <2> QED BY <2>1, <2>2
<1>4. ASSUME NEW i \in Items, ReadBack(i) \/ ReadBackFails(i)
      PROVE  OwedBound'
  <2>1. Paid' \in {Paid, Paid + 1}
    BY <1>4, <1>t, PaidTypes DEF ReadBack, ReadBackFails
  <2> QED BY <1>4, <1>t, <2>1, ReadBackAccounts, AccountsBalance
<1>5. ASSUME NEW i \in Items, Remove(i)
      PROVE  OwedBound'
  <2>1. Paid' = Paid
    BY <1>5, <1>t, PaidTypes DEF Remove
  <2> QED BY <1>5, <1>t, <2>1, RemoveAccounts, AccountsBalance
<1>6. ASSUME NEW i \in Items, Refused(i)
      PROVE  OwedBound'
  <2>1. Paid' = Paid
    BY <1>6, <1>t, PaidTypes DEF Refused
  <2> QED BY <1>6, <1>t, <2>1, RefusedAccounts, AccountsBalance
<1>7. ASSUME NEW i \in Items, CallFails(i)
      PROVE  OwedBound'
  <2>1. Paid' = Paid + 1
    BY <1>7, <1>t, PaidTypes DEF CallFails
  <2>2. Spoilt(i) = {} \/ \E e : Spoilt(i) = {e}
    BY DEF Spoilt
  <2> QED BY <1>7, <1>t, <2>1, <2>2, CallFailsAccounts, AccountsBalance
<1>8. CASE Killed
  <2>1. Paid' = Paid + 1
    BY <1>8, <1>t, PaidTypes DEF Killed
  <2> QED BY <1>8, <1>t, <2>1, KilledAccounts, AccountsBalance
<1>9. ASSUME NEW i \in Items, Edit(i) \/ Import(i)
      PROVE  OwedBound'
  <2>1. Paid' = Paid
    BY <1>9, <1>t, PaidTypes DEF Edit, Import
  <2> QED BY <1>9, <1>t, <2>1, EditAccounts, AccountsBalance
<1>10. ASSUME NEW r \in CdnResources, ShieldedOutside(r) \/ CdnResourceDeleted(r)
       PROVE  OwedBound'
  <2>1. Paid' = Paid + 1
    BY <1>10, <1>t, PaidTypes DEF ShieldedOutside, CdnResourceDeleted
  <2> QED BY <1>10, <1>t, <2>1, OutsideAccounts, AccountsBalance
<1>11. CASE UNCHANGED vars
  <2>1. Owed' = Owed /\ Paid' = Paid
    BY <1>11, <1>t, PaidTypes DEF vars, Owed, Astray, Loose, LoosePreset, Knows, Holds, Writing
  <2> QED BY <2>1 DEF OwedBound
<1> QED
  BY <1>1, <1>2, <1>3, <1>4, <1>5, <1>6, <1>7, <1>8, <1>9, <1>10, <1>11 DEF Next, Handler

(* Nothing is owed in the beginning.                                       *)
LEMMA InitOwes == Init => OwedBound /\ PresetIds
<1> SUFFICES ASSUME Init PROVE OwedBound /\ PresetIds
  OBVIOUS
<1>1. Owed = {}
  BY DEF Init, Owed, Astray, Loose, LoosePreset, Items
<1>2. PresetIds
  BY DEF Init, PresetIds, Items
<1>3. Paid = 0
  BY DEF Init, Paid
<1> QED BY <1>1, <1>2, <1>3, FS_EmptySet DEF OwedBound

(* There are at least as many things with a tag as without it.             *)
LEMMA Untagged ==
  ASSUME NEW S, NEW T, NEW tag, IsFiniteSet(T), \A x \in S : <<tag, x>> \in T
  PROVE  IsFiniteSet(S) /\ Cardinality(S) <= Cardinality(T)
<1> DEFINE f == [x \in S |-> <<tag, x>>]
<1>1. f \in Injection(S, T)
  BY DEF Injection, IsInjective
<1> QED BY <1>1, FS_Injection

(* However many settings, failures, moves and other users there are, what  *)
(* is left at the service unknown to any state is paid for one by one.     *)
THEOREM OrphansArePaidFor == Spec => []OrphansExplained
<1>1. MInv /\ OwedBound => OrphansExplained
  <2> SUFFICES ASSUME MInv, OwedBound PROVE OrphansExplained
    OBVIOUS
  <2> DEFINE A == {<<"shield", r>> : r \in OrphanShields}
             B == {<<"preset", a>> : a \in OrphanPresets}
             f == [x \in Owed |-> <<"shield", have[x[2]].on>>]
  <2>1. ASSUME NEW y \in A \cup B, y \notin Owed
        PROVE  \E x \in Owed \ (A \cup B) : f[x] = y
    <3>1. \A a \in OrphanPresets : <<"preset", a>> \in Owed
      BY DEF OrphanPresets, LoosePreset, Owed
    <3>2. PICK r \in OrphanShields : y = <<"shield", r>>
      BY <2>1, <3>1
    <3>3. r \in CdnResources /\ shield[r] # Unset /\ \A i \in Shieldings : ~Knows(i, r)
      BY <3>2 DEF OrphanShields, Knows
    <3>4. PICK i \in Shieldings : Astray(i) /\ have[i].on = r
      BY <2>1, <3>2, <3>3 DEF Loose, Owed
    <3>5. <<"astray", i>> \in Owed /\ <<"astray", i>> \notin A \cup B
      BY <3>4 DEF Owed
    <3> QED BY <3>2, <3>4, <3>5
  <2> HIDE DEF f
  <2>2. IsFiniteSet(A \cup B) /\ Cardinality(A \cup B) <= Cardinality(Owed)
    BY <2>1, Exchange DEF OwedBound
  <2>3. IsFiniteSet(A) /\ IsFiniteSet(B)
    <3>1. A \in SUBSET (A \cup B) /\ B \in SUBSET (A \cup B)
      OBVIOUS
    <3> HIDE DEF A, B
    <3> QED BY <2>2, <3>1, FS_Subset
  <2>4. A \cap B = {}
    OBVIOUS
  <2>5. /\ IsFiniteSet(OrphanShields) /\ Cardinality(OrphanShields) <= Cardinality(A)
        /\ IsFiniteSet(OrphanPresets) /\ Cardinality(OrphanPresets) <= Cardinality(B)
    <3>1. /\ \A r \in OrphanShields : <<"shield", r>> \in A
          /\ \A a \in OrphanPresets : <<"preset", a>> \in B
      OBVIOUS
    <3> HIDE DEF A, B
    <3>2. IsFiniteSet(OrphanShields) /\ Cardinality(OrphanShields) <= Cardinality(A)
      BY <2>3, <3>1, Untagged
    <3>3. IsFiniteSet(OrphanPresets) /\ Cardinality(OrphanPresets) <= Cardinality(B)
      BY <2>3, <3>1, Untagged
    <3> QED BY <3>2, <3>3
  <2> HIDE DEF A, B
  <2>6. Cardinality(A \cup B) = Cardinality(A) + Cardinality(B)
    <3>1. /\ Cardinality(A \cup B) = Cardinality(A) + Cardinality(B) - Cardinality(A \cap B)
          /\ Cardinality(A \cap B) = 0
      BY <2>3, <2>4, FS_Union, FS_EmptySet
    <3>2. Cardinality(A) \in Nat /\ Cardinality(B) \in Nat
      BY <2>3, FS_CardinalityType
    <3> QED BY <3>1, <3>2
  <2>7. /\ Cardinality(A) \in Nat /\ Cardinality(B) \in Nat /\ Cardinality(Owed) \in Nat
        /\ Cardinality(OrphanShields) \in Nat /\ Cardinality(OrphanPresets) \in Nat
    BY <2>3, <2>5, FS_CardinalityType DEF OwedBound
  <2>8. Paid \in Nat /\ Cardinality(Owed) <= Paid
    BY PaidTypes DEF MInv, OwedBound
  <2>9. Cardinality(OrphanShields) + Cardinality(OrphanPresets) <= Paid
    BY <2>2, <2>5, <2>6, <2>7, <2>8
  <2> QED BY <2>9 DEF OrphansExplained, Paid
<1>2. Spec => [](MInv /\ PresetIds /\ OwedBound)
  BY InitMutex, InitOwes, MutexStep, PresetIdsStep, OwedStep, PTL DEF Spec
<1> QED BY <1>1, <1>2, PTL
=============================================================================
