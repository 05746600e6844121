----------------------------- MODULE CdnSettings -----------------------------
(***************************************************************************)
(* gcore_cdn_origin_shielding and gcore_cdn_applied_preset: settings of    *)
(* CDN resources they do not own.  Their handlers run in parallel and are  *)
(* serialised by CDNMutex, from before the request until after the read    *)
(* that follows it; the handlers of gcore_cdn_resource do not take it, and *)
(* other users do not know it.                                             *)
(*                                                                         *)
(* An applied preset is replaced when one of its attributes changes.  The  *)
(* resource_id of a shielding is updated in place: the handler then sets   *)
(* another id, while Read and Delete go by different ones of the two.      *)
(***************************************************************************)
EXTENDS Naturals, FiniteSets

CONSTANTS
  Shieldings, AppliedPresets,  \* the Terraform resources of the two types
  CdnResources, Values,        \* points of presence, or presets
  Absent, Unset, Nobody,
  MaxFailures, MaxEdits, MaxOutside

Items == Shieldings \cup AppliedPresets

ASSUME ItemsAssumption ==
  /\ Shieldings \cap AppliedPresets = {}
  /\ Nobody \notin Items
  /\ Unset \notin CdnResources \cup Values
ASSUME BoundsAssumption == {MaxFailures, MaxEdits, MaxOutside} \subseteq Nat

VARIABLES
  want,      \* the configuration
  have,      \* Terraform's state, refreshed when a run starts
  live,      \* the CDN resources that exist
  shield,    \* the point of presence that shields each of them
  applied,   \* the presets applied to them
  pc,        \* what the handler of each item is about to do
  lock,      \* the handler that holds CDNMutex
  touched,   \* items somebody has interfered with since they were written
  moves, failures, edits, outside

service == <<live, shield, applied>>
counters == <<moves, failures, edits, outside>>
vars == <<want, have, service, pc, lock, touched, counters>>

Setting == [on : CdnResources, value : Values]
Recorded == [id : CdnResources, on : CdnResources \cup {Unset}, value : Values \cup {Unset}]

ASSUME AbsentAssumption == Absent \notin Setting \cup Recorded

TypeOK ==
  /\ want \in [Items -> Setting \cup {Absent}]
  /\ have \in [Items -> Recorded \cup {Absent}]
  /\ live \subseteq CdnResources
  /\ shield \in [CdnResources -> Values \cup {Unset}]
  /\ applied \subseteq CdnResources \X Values
  /\ pc \in [Items -> {"done", "planned", "locked", "reading"}]
  /\ lock \in Items \cup {Nobody}
  /\ \A i \in Items : (pc[i] \in {"locked", "reading"}) <=> (lock = i)
  /\ \A r \in CdnResources \ live : shield[r] = Unset /\ \A v \in Values : <<r, v>> \notin applied
  /\ touched \subseteq Items
  /\ moves \in Nat /\ failures \in 0..MaxFailures
  /\ edits \in 0..MaxEdits /\ outside \in 0..MaxOutside

Init ==
  /\ want \in [Items -> Setting \cup {Absent}]
  /\ have = [i \in Items |-> Absent]
  /\ live = CdnResources
  /\ shield = [r \in CdnResources |-> Unset] /\ applied = {}
  /\ pc = [i \in Items |-> "done"] /\ lock = Nobody /\ touched = {}
  /\ moves = 0 /\ failures = 0 /\ edits = 0 /\ outside = 0

-----------------------------------------------------------------------------
AllDone == \A i \in Items : pc[i] = "done"

(* What SetId and the planned values make of a setting. *)
AsPlanned(s) == [id |-> s.on, on |-> s.on, value |-> s.value]

(* Variants: Read goes by resource_id; Read does not write shielding_pop. *)
LookThere(i, s) ==
  IF i \in Shieldings
    THEN IF s.on \in live THEN [s EXCEPT !.value = shield[s.on]] ELSE Absent
    ELSE IF <<s.on, s.value>> \in applied THEN s ELSE Absent
LookAway(i, s) ==
  IF i \in Shieldings
    THEN IF s.id \in live THEN s ELSE Absent
    ELSE IF <<s.on, s.value>> \in applied THEN s ELSE Absent

(* Read goes by the id of a shielding and does not write resource_id. *)
Look(i, s) ==
  IF i \in Shieldings
    THEN IF s.id \in live THEN [s EXCEPT !.value = shield[s.id]] ELSE Absent
    ELSE IF <<s.on, s.value>> \in applied THEN s ELSE Absent

Refreshed(i) == IF have[i] = Absent THEN Absent ELSE Look(i, have[i])

Differs(i, s) ==
  IF want[i] = Absent \/ s = Absent THEN want[i] # s
  ELSE s.on # want[i].on \/ s.value # want[i].value

(* Delete, or the first half of a replacement. *)
Removing(i) ==
  have[i] # Absent /\ (want[i] = Absent \/ (i \in AppliedPresets /\ Differs(i, have[i])))

(* The CDN resource of the handler's request: Delete, too, goes by d.Get. *)
Target(i) == IF Removing(i) THEN have[i].on ELSE want[i].on

Record(i, s) == have' = [have EXCEPT ![i] = s]
Goto(i, phase) == pc' = [pc EXCEPT ![i] = phase]

(* The deferred Unlock: on every way out of a handler. *)
Return(i, phase) == Goto(i, phase) /\ lock' = Nobody

(* What the requests do at the service. *)
SetAt(i) ==
  IF i \in Shieldings
    THEN shield' = [shield EXCEPT ![want[i].on] = want[i].value] /\ UNCHANGED applied
    ELSE applied' = applied \cup {<<want[i].on, want[i].value>>} /\ UNCHANGED shield
UnsetAt(i) ==
  IF i \in Shieldings
    THEN shield' = [shield EXCEPT ![have[i].on] = Unset] /\ UNCHANGED applied
    ELSE applied' = applied \ {<<have[i].on, have[i].value>>} /\ UNCHANGED shield
Request(i) == IF Removing(i) THEN UnsetAt(i) ELSE SetAt(i)

(* Items just written whose setting a change of shield or applied concerns. *)
Overtaken(R) == {i \in Items : pc[i] = "reading" /\ want[i].on \in R}

-----------------------------------------------------------------------------
StartRun ==
  /\ AllDone
  /\ have' = [i \in Items |-> Refreshed(i)]
  /\ pc' = [i \in Items |-> IF Differs(i, have'[i]) THEN "planned" ELSE "done"]
  /\ UNCHANGED <<want, service, lock, touched, counters>>

(* Variant with a bug: the handlers do not wait for each other. *)
LockNobodyWaits(i) ==
  /\ pc[i] = "planned"
  /\ Goto(i, "locked") /\ lock' = i
  /\ UNCHANGED <<want, have, service, touched, counters>>

Lock(i) ==
  /\ pc[i] = "planned" /\ lock = Nobody
  /\ Goto(i, "locked") /\ lock' = i
  /\ UNCHANGED <<want, have, service, touched, counters>>

(* Variant with a bug: the mutex is given back before the read. *)
SetUnlocked(i) ==
  /\ pc[i] = "locked" /\ ~Removing(i) /\ want[i].on \in live
  /\ SetAt(i)
  /\ Return(i, "reading") /\ touched' = touched \ {i}
  /\ moves' = IF have[i] # Absent /\ have[i].id # want[i].on THEN moves + 1 ELSE moves
  /\ UNCHANGED <<want, have, live, failures, edits, outside>>

(* Create, and Update of a shielding, which leaves the CDN resource it was *)
(* about before as it is.                                                  *)
Set(i) ==
  /\ pc[i] = "locked" /\ ~Removing(i) /\ want[i].on \in live
  /\ SetAt(i)
  /\ Goto(i, "reading") /\ touched' = touched \ {i}
  /\ moves' = IF have[i] # Absent /\ have[i].id # want[i].on THEN moves + 1 ELSE moves
  /\ UNCHANGED <<want, have, live, lock, failures, edits, outside>>

(* The diagnostics of this read are dropped, but not what it sets. *)
ReadBack(i) ==
  /\ pc[i] = "reading"
  /\ Record(i, Look(i, AsPlanned(want[i]))) /\ Return(i, "done")
  /\ UNCHANGED <<want, service, touched, counters>>
ReadBackFails(i) ==
  /\ pc[i] = "reading" /\ failures < MaxFailures
  /\ failures' = failures + 1
  /\ Record(i, AsPlanned(want[i])) /\ Return(i, "done")
  /\ UNCHANGED <<want, service, touched, moves, edits, outside>>

Remove(i) ==
  /\ pc[i] = "locked" /\ Removing(i) /\ have[i].on \in live
  /\ UnsetAt(i)
  /\ Record(i, Absent) /\ Return(i, IF want[i] = Absent THEN "done" ELSE "planned")
  /\ UNCHANGED <<want, live, touched, counters>>

(* An update that returns an error records the planned values all the *)
(* same, under the id it had.                                         *)
AfterError(i) ==
  IF Removing(i) \/ have[i] = Absent THEN have[i]
  ELSE [have[i] EXCEPT !.on = want[i].on, !.value = want[i].value]

(* The CDN resource is not, or no longer, there. *)
Refused(i) ==
  /\ pc[i] = "locked" /\ Target(i) \notin live
  /\ Record(i, AfterError(i)) /\ Return(i, "done")
  /\ UNCHANGED <<want, service, touched, counters>>

(* The request fails, or its answer does not arrive. *)
CallFails(i) ==
  /\ pc[i] = "locked" /\ Target(i) \in live /\ failures < MaxFailures
  /\ failures' = failures + 1
  /\ Request(i) \/ UNCHANGED <<shield, applied>>
  /\ Record(i, AfterError(i)) /\ Return(i, "done")
  /\ UNCHANGED <<want, live, touched, moves, edits, outside>>

(* The provider is killed: what the handlers have set is lost, the mutex *)
(* with them.                                                            *)
Killed ==
  /\ ~AllDone /\ failures < MaxFailures
  /\ failures' = failures + 1
  /\ pc' = [i \in Items |-> "done"] /\ lock' = Nobody
  /\ UNCHANGED <<want, have, service, touched, moves, edits, outside>>

-----------------------------------------------------------------------------
Edit(i) ==
  /\ AllDone /\ edits < MaxEdits /\ edits' = edits + 1
  /\ \E s \in (Setting \cup {Absent}) \ {want[i]} : want' = [want EXCEPT ![i] = s]
  /\ UNCHANGED <<have, service, pc, lock, touched, moves, failures, outside>>

(* terraform import: the id of a shielding is passed through, the one of *)
(* an applied preset taken apart; then Read.                             *)
Import(i) ==
  /\ AllDone /\ have[i] = Absent /\ want[i] # Absent
  /\ edits < MaxEdits /\ edits' = edits + 1
  /\ Record(i, Look(i, IF i \in Shieldings
                         THEN [AsPlanned(want[i]) EXCEPT !.on = Unset]
                         ELSE AsPlanned(want[i])))
  /\ UNCHANGED <<want, service, pc, lock, touched, moves, failures, outside>>

(* Another user sets or unsets a shielding. *)
ShieldedOutside(r) ==
  /\ r \in live /\ outside < MaxOutside /\ outside' = outside + 1
  /\ \E v \in (Values \cup {Unset}) \ {shield[r]} : shield' = [shield EXCEPT ![r] = v]
  /\ touched' = touched \cup Overtaken({r})
  /\ UNCHANGED <<want, have, live, applied, pc, lock, moves, failures, edits>>

(* resourceCDNResourceDelete, or another user: the mutex is not taken. *)
CdnResourceDeleted(r) ==
  /\ r \in live /\ outside < MaxOutside /\ outside' = outside + 1
  /\ live' = live \ {r}
  /\ shield' = [shield EXCEPT ![r] = Unset] /\ applied' = {a \in applied : a[1] # r}
  /\ touched' = touched \cup Overtaken({r})
  /\ UNCHANGED <<want, have, pc, lock, moves, failures, edits>>

-----------------------------------------------------------------------------
Handler(i) == Lock(i) \/ Set(i) \/ ReadBack(i) \/ Remove(i) \/ Refused(i)

Next ==
  \/ StartRun \/ Killed
  \/ \E i \in Items : Handler(i) \/ ReadBackFails(i) \/ CallFails(i) \/ Edit(i) \/ Import(i)
  \/ \E r \in CdnResources : ShieldedOutside(r) \/ CdnResourceDeleted(r)

Spec == Init /\ [][Next]_vars

(* Runs are repeated; a handler Terraform has started goes on, and gets    *)
(* the mutex once the others have given it back.                           *)
FairSpec == Spec /\ WF_vars(StartRun) /\ \A i \in Items : WF_vars(Handler(i))

-----------------------------------------------------------------------------
(* Between its request and the read that follows it a handler finds what   *)
(* it has written, whichever other items name the same CDN resource: the   *)
(* mutex is held for both, so that the state records the handler's own     *)
(* setting and not a sibling's.                                            *)
InService(i) ==
  IF i \in Shieldings THEN shield[want[i].on] = want[i].value
                      ELSE <<want[i].on, want[i].value>> \in applied
ReadsItsOwn == \A i \in Items : (pc[i] = "reading" /\ i \notin touched) => InService(i)

(* A setting that no state and no running handler knows of is the price of *)
(* a failure, of somebody else's change, or of a shielding that has been   *)
(* moved to another CDN resource: one setting each, because the mutex      *)
(* leaves at most one handler between its request and its return.          *)
Holds(i, r) == have[i] # Absent /\ have[i].id = r
Writing(i, r) == pc[i] = "reading" /\ want[i].on = r
OrphanShields ==
  {r \in CdnResources : shield[r] # Unset /\ ~\E i \in Shieldings : Holds(i, r) \/ Writing(i, r)}
OrphanPresets ==
  {a \in applied :
     ~\E i \in AppliedPresets :
        \/ Holds(i, a[1]) /\ have[i].value = a[2]
        \/ Writing(i, a[1]) /\ want[i].value = a[2]}
OrphansExplained ==
  Cardinality(OrphanShields) + Cardinality(OrphanPresets) <= failures + outside + moves

(* When the request that moves a shielding fails, the state says that it   *)
(* has been moved and Read goes on looking at the old CDN resource: as     *)
(* long as that one has the configured point of presence, no run shields   *)
(* the new one.                                                            *)
Overlooked(i) ==
  /\ have[i] # Absent /\ want[i] # Absent
  /\ have[i].on = want[i].on /\ have[i].id # want[i].on
  /\ have[i].id \in live /\ shield[have[i].id] = want[i].value
LetAlone(i) ==
  want'[i] = want[i] /\ have[i].id \in live' /\ shield'[have[i].id] = shield[have[i].id]
StaysOverlooked ==
  \A i \in Shieldings :
    (pc[i] = "done" /\ Overlooked(i) /\ LetAlone(i)) => (pc'[i] = "done" /\ Overlooked(i)')
FailedMoveIsForgotten == [][StaysOverlooked]_vars

(* Repeated runs end with every item set and recorded as configured, or    *)
(* gone: except for items that share a CDN resource, for overlooked moves, *)
(* and for those whose CDN resource is gone.                               *)
Shared(i) ==
  \E j \in Items \ {i} :
    /\ (i \in Shieldings) <=> (j \in Shieldings)
    /\ want[j] # Absent /\ want[i] # Absent /\ want[j].on = want[i].on
Settled(i) ==
  IF want[i] = Absent
    THEN have[i] = Absent \/ have[i].on \notin live
    ELSE \/ have[i] = AsPlanned(want[i]) /\ InService(i)
         \/ want[i].on \notin live \/ Overlooked(i)
Settles == <>[](\A i \in Items : Settled(i) \/ Shared(i))
=============================================================================
