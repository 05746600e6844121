----------------------------- MODULE LBMembers -----------------------------
(***************************************************************************)
(* The members of one load balancer pool, each a gcore_lbmember resource.  *)
(* A run of Terraform refreshes them all, then calls the handlers of those *)
(* that differ, several at a time.  Creating and deleting a member are     *)
(* calls of their own, but a member can only be changed by writing the     *)
(* member list of the whole pool: resourceLBMemberUpdate reads the pool,   *)
(* puts its own values into the list and sends it back.  The service       *)
(* answers 409 while an earlier change of the pool is still being made;    *)
(* the calls are then repeated, so often as the timeout allows.            *)
(***************************************************************************)
EXTENDS Naturals, FiniteSets

CONSTANTS
  Members,      \* the member resources, also their ids in the pool
  Values,       \* address, port and weight of a member
  Absent,       \* no such member
  Nobody,       \* the pool is not being changed
  Parallelism,  \* handlers Terraform runs at a time
  MaxFailures, MaxEdits

ASSUME AbsentAssumption == Absent \notin Values
ASSUME NobodyAssumption == Nobody \notin Members
ASSUME BoundsAssumption ==
  Parallelism \in Nat \ {0} /\ MaxFailures \in Nat /\ MaxEdits \in Nat

VARIABLES
  want,      \* the configuration
  have,      \* Terraform's state
  pool,      \* the member list of the service
  pc,        \* where the handler of each member is
  snap,      \* the list an update handler has read
  fresh,     \* has nobody changed the pool since that handler read it?
  busy,      \* whose change the service is making
  clean,     \* has no handler of this run failed or written a stale list?
  strays,    \* the members of the pool no state knew when the run began
  failures, edits

vars == <<want, have, pool, pc, snap, fresh, busy, clean, strays, failures, edits>>

Lists == [Members -> Values \cup {Absent}]

Working == {"read", "waiting", "verifying", "reading"}

TypeOK ==
  /\ want \in Lists /\ have \in Lists /\ pool \in Lists
  /\ pc \in [Members -> {"done", "planned"} \cup Working]
  /\ snap \in [Members -> Lists]
  /\ fresh \in [Members -> BOOLEAN]
  /\ busy \in Members \cup {Nobody}
  /\ busy # Nobody => pc[busy] = "waiting"
  /\ clean \in BOOLEAN /\ strays \subseteq Members
  /\ failures \in 0..MaxFailures /\ edits \in 0..MaxEdits

(* The configured members have all been applied. *)
Init ==
  /\ want \in Lists
  /\ have = want /\ pool = want
  /\ pc = [m \in Members |-> "done"]
  /\ snap = [m \in Members |-> [x \in Members |-> Absent]]
  /\ fresh = [m \in Members |-> FALSE]
  /\ busy = Nobody /\ clean = TRUE /\ strays = {}
  /\ failures = 0 /\ edits = 0

-----------------------------------------------------------------------------
AllDone == \A m \in Members : pc[m] = "done"

(* Variants: a missing member is cleared; the pool is not looked at. *)
ReadIntoClears(old, m) == IF old = Absent THEN Absent ELSE pool[m]
ReadIntoKeeps(old, m) == old

(* What Read makes of a recorded member: one that the pool does not have   *)
(* keeps the values it had.                                                *)
ReadInto(old, m) == IF old # Absent /\ pool[m] # Absent THEN pool[m] ELSE old

CanStart(m) ==
  /\ pc[m] = "planned"
  /\ Cardinality({x \in Members : pc[x] \in Working}) < Parallelism

(* Another list in the pool makes every list read before it stale. *)
Write(list, m) ==
  /\ pool' = list
  /\ fresh' = [x \in Members |-> FALSE]
  /\ busy' = m

Goto(m, phase) == pc' = [pc EXCEPT ![m] = phase]

Record(m, value) == have' = [have EXCEPT ![m] = value]

-----------------------------------------------------------------------------
Edit ==
  /\ AllDone /\ edits < MaxEdits
  /\ want' \in Lists \ {want}
  /\ edits' = edits + 1
  /\ UNCHANGED <<have, pool, pc, snap, fresh, busy, clean, strays, failures>>

StartRun ==
  /\ AllDone
  /\ have' = [m \in Members |-> ReadInto(have[m], m)]
  /\ pc' = [m \in Members |-> IF have'[m] = want[m] THEN "done" ELSE "planned"]
  /\ clean' = TRUE /\ strays' = {m \in Members : have[m] = Absent /\ pool[m] # Absent}
  /\ UNCHANGED <<want, pool, snap, fresh, busy, failures, edits>>

(* resourceLBMemberCreate: refused if the pool has a member Terraform does *)
(* not know of at that address, from a creation whose end was not seen or  *)
(* brought back by a stale list.                                           *)
Create(m) ==
  /\ CanStart(m) /\ have[m] = Absent /\ busy = Nobody
  /\ IF pool[m] = Absent
       THEN /\ Write([pool EXCEPT ![m] = want[m]], m)
            /\ Goto(m, "waiting") /\ UNCHANGED clean
       ELSE /\ Goto(m, "done") /\ clean' = FALSE
            /\ UNCHANGED <<pool, fresh, busy>>
  /\ UNCHANGED <<want, have, snap, strays, failures, edits>>

(* resourceLBMemberUpdate: the pool is read ... *)
Get(m) ==
  /\ CanStart(m) /\ have[m] # Absent /\ want[m] # Absent
  /\ snap' = [snap EXCEPT ![m] = pool]
  /\ fresh' = [fresh EXCEPT ![m] = TRUE]
  /\ Goto(m, "read")
  /\ UNCHANGED <<want, have, pool, busy, clean, strays, failures, edits>>

(* Variant with a bug: the member's own values are left as they were read. *)
PutBack(m) ==
  /\ pc[m] = "read" /\ busy = Nobody
  /\ Write(snap[m], m)
  /\ Goto(m, "waiting")
  /\ clean' = (clean /\ fresh[m])
  /\ UNCHANGED <<want, have, snap, strays, failures, edits>>

(* ... and written.  A member that was missing is not put into the list;   *)
(* one that was removed since may or may not come back with its old id.    *)
Put(m) ==
  /\ pc[m] = "read" /\ busy = Nobody
  /\ LET list == [snap[m] EXCEPT ![m] = IF @ = Absent THEN Absent ELSE want[m]]
         gone == {x \in Members : list[x] # Absent /\ pool[x] = Absent}
     IN \E back \in SUBSET gone :
          Write([x \in Members |-> IF x \in gone \ back THEN Absent ELSE list[x]], m)
  /\ Goto(m, "waiting")
  /\ clean' = (clean /\ fresh[m])
  /\ UNCHANGED <<want, have, snap, strays, failures, edits>>

(* resourceLBMemberDelete: a member that is gone is done with. *)
Delete(m) ==
  /\ CanStart(m) /\ have[m] # Absent /\ want[m] = Absent /\ busy = Nobody
  /\ \/ /\ pool[m] # Absent
        /\ Write([pool EXCEPT ![m] = Absent], m)
        /\ Goto(m, "waiting") /\ UNCHANGED have
     \/ /\ pool[m] = Absent
        /\ Record(m, Absent) /\ Goto(m, "done") /\ UNCHANGED <<pool, fresh, busy>>
  /\ UNCHANGED <<want, snap, clean, strays, failures, edits>>

(* The task of the call ends and with it the pool's lock. *)
TaskEnds(m) ==
  /\ pc[m] = "waiting" /\ busy = m
  /\ busy' = Nobody
  /\ Goto(m, IF want[m] = Absent THEN "verifying" ELSE "reading")
  /\ UNCHANGED <<want, have, pool, snap, fresh, clean, strays, failures, edits>>

(* The delete handler looks whether the member is gone. *)
Verify(m) ==
  /\ pc[m] = "verifying"
  /\ IF pool[m] = Absent
       THEN Record(m, Absent) /\ UNCHANGED clean
       ELSE clean' = FALSE /\ UNCHANGED have
  /\ Goto(m, "done")
  /\ UNCHANGED <<want, pool, snap, fresh, busy, strays, failures, edits>>

(* Create and update close with a read. *)
ReadBack(m) ==
  /\ pc[m] = "reading"
  /\ Record(m, ReadInto(want[m], m))
  /\ Goto(m, "done")
  /\ UNCHANGED <<want, pool, snap, fresh, busy, clean, strays, failures, edits>>

(* A call is refused or not accepted within its repetitions, the wait for  *)
(* its task fails, or the read at the end does: a failed update records    *)
(* the values it was to write.  A create handler does not look at whether  *)
(* its read has failed.                                                    *)
Fails(m) ==
  /\ \/ CanStart(m) /\ UNCHANGED busy
     \/ pc[m] \in {"read", "verifying", "reading"} /\ UNCHANGED busy
     \/ pc[m] = "waiting" /\ busy' = Nobody
  /\ failures < MaxFailures /\ failures' = failures + 1
  /\ IF pc[m] = "reading" \/ (have[m] # Absent /\ want[m] # Absent)
       THEN Record(m, want[m]) ELSE UNCHANGED have
  /\ Goto(m, "done") /\ clean' = FALSE
  /\ UNCHANGED <<want, pool, snap, fresh, strays, edits>>

(* The provider is killed, with all its handlers: nothing is recorded. *)
Killed ==
  /\ ~AllDone
  /\ failures < MaxFailures /\ failures' = failures + 1
  /\ pc' = [m \in Members |-> "done"]
  /\ busy' = Nobody /\ clean' = FALSE
  /\ UNCHANGED <<want, have, pool, snap, fresh, strays, edits>>

-----------------------------------------------------------------------------
Handler(m) ==
  Create(m) \/ Get(m) \/ Put(m) \/ Delete(m) \/ TaskEnds(m) \/ Verify(m) \/ ReadBack(m)

Next == Edit \/ StartRun \/ Killed \/ \E m \in Members : Handler(m) \/ Fails(m)

Spec == Init /\ [][Next]_vars

(* Runs are repeated; the handlers Terraform has started go on. *)
FairSpec ==
  Spec /\ WF_vars(StartRun) /\ \A m \in Members : WF_vars(Handler(m))

-----------------------------------------------------------------------------
(* A recorded member that is no longer in the pool, be it dropped by the   *)
(* stale list of a sibling or deleted by a handler that did not see the    *)
(* end of its task, is never restored: Read keeps its values, so nothing   *)
(* differs, and an update of it writes the list without it.  Only another  *)
(* stale list can bring it back.                                           *)
Ghost(m) == have[m] # Absent /\ pool[m] = Absent
StaleWrite == \E x \in Members : Put(x) /\ ~fresh[x]
StaysGhost ==
  \A m \in Members : (Ghost(m) /\ want[m] # Absent) => (StaleWrite \/ Ghost(m)')
GhostStays == [][StaysGhost]_vars

(* A run without a failure in which every update wrote a list nobody had   *)
(* changed since, as when the handlers run one at a time, leaves the pool  *)
(* and the state as the configuration says, except for such ghosts and for *)
(* the strays of earlier runs: members which a failed creation or a stale  *)
(* list has left in the pool without a record.                             *)
Stray(m) == m \in strays /\ want[m] = Absent
RunEnds == AllDone' /\ ~AllDone /\ clean'
Exact ==
  \A m \in Members :
    have'[m] = want[m] /\ (pool'[m] = want[m] \/ Ghost(m) \/ Stray(m))
RunIsExact == [][RunEnds => Exact]_vars

(* As long as members are only changed, not added or removed, repeated     *)
(* runs repair what concurrent updates have overwritten.                   *)
UpdatesHeal ==
  [](\A m \in Members : want[m] # Absent /\ have[m] # Absent) => <>[](pool = want)
=============================================================================
