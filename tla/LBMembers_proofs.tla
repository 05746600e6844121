-------------------------- MODULE LBMembers_proofs --------------------------
(***************************************************************************)
(* Theorems about LBMembers for any number of members and values, any      *)
(* number of handlers at a time and all bounds: type correctness, that a   *)
(* dropped member stays missing, and that a run in which no list was stale *)
(* ends as configured.                                                     *)
(***************************************************************************)
EXTENDS LBMembers, TLAPS

(* Read makes members of members. *)
LEMMA ReadTypes ==
  ASSUME TypeOK, NEW m \in Members, NEW v \in Values \cup {Absent}
  PROVE  ReadInto(v, m) \in Values \cup {Absent}
  BY DEF TypeOK, Lists, ReadInto

LEMMA InitTypes == Init => TypeOK
<1> SUFFICES ASSUME Init PROVE TypeOK
  OBVIOUS
<1>1. failures \in 0..MaxFailures /\ edits \in 0..MaxEdits
  BY BoundsAssumption DEF Init
<1> QED BY <1>1, NobodyAssumption DEF Init, TypeOK, Lists

(* The list an update sends, whatever it is based on. *)
LEMMA PutTypes ==
  ASSUME TypeOK, NEW m \in Members, Put(m)
  PROVE  pool' \in Lists
<1> DEFINE list == [snap[m] EXCEPT ![m] = IF @ = Absent THEN Absent ELSE want[m]]
           gone == {x \in Members : list[x] # Absent /\ pool[x] = Absent}
<1>1. list \in Lists
  BY DEF TypeOK, Lists
<1>2. PICK back \in SUBSET gone : pool' = [x \in Members |-> IF x \in gone \ back THEN Absent ELSE list[x]]
  BY Zenon DEF Put, Write
<1> HIDE DEF list, gone
<1> QED BY <1>1, <1>2 DEF Lists

(* Every step keeps the types. *)
LEMMA TypeStep == TypeOK /\ [Next]_vars => TypeOK'
<1> SUFFICES ASSUME TypeOK, [Next]_vars PROVE TypeOK'
  OBVIOUS
<1> USE DEF Working
<1>1. CASE Edit
  <2>1. edits' \in 0..MaxEdits
    BY <1>1, BoundsAssumption DEF Edit, TypeOK
  <2> QED BY <1>1, <2>1 DEF Edit, TypeOK
<1>2. CASE StartRun
  <2>1. have' \in Lists
    BY <1>2, ReadTypes DEF StartRun, TypeOK, Lists
  <2>2. busy' = Nobody
    BY <1>2 DEF StartRun, AllDone, TypeOK
  <2> QED BY <1>2, <2>1, <2>2 DEF StartRun, TypeOK
<1>3. ASSUME NEW m \in Members, Create(m)
      PROVE  TypeOK'
  <2>1. CASE pool[m] = Absent
    <3>1. /\ pool' = [pool EXCEPT ![m] = want[m]] /\ busy' = m
          /\ fresh' = [x \in Members |-> FALSE] /\ pc' = [pc EXCEPT ![m] = "waiting"]
          /\ UNCHANGED <<want, have, snap, clean, strays, failures, edits>>
      BY <1>3, <2>1 DEF Create, Write, Goto
    <3>2. pool' \in Lists
      BY <3>1 DEF TypeOK, Lists
    <3> QED BY <3>1, <3>2 DEF TypeOK
  <2>2. CASE pool[m] # Absent
    BY <1>3, <2>2 DEF Create, Goto, TypeOK
  <2> QED BY <2>1, <2>2
<1>4. ASSUME NEW m \in Members, Get(m)
      PROVE  TypeOK'
  BY <1>4 DEF Get, CanStart, Goto, TypeOK
<1>5. ASSUME NEW m \in Members, Put(m)
      PROVE  TypeOK'
  <2>1. /\ pool' \in Lists /\ busy' = m /\ fresh' = [x \in Members |-> FALSE]
        /\ pc' = [pc EXCEPT ![m] = "waiting"]
        /\ UNCHANGED <<want, have, snap, strays, failures, edits>>
    BY <1>5, PutTypes DEF Put, Write, Goto
  <2>2. clean' \in BOOLEAN
    BY <1>5, Zenon DEF Put, TypeOK
  <2> QED BY <2>1, <2>2 DEF TypeOK
<1>6. ASSUME NEW m \in Members, Delete(m)
      PROVE  TypeOK'
  <2>1. CASE pool[m] # Absent
    BY <1>6, <2>1 DEF Delete, Write, Goto, TypeOK, Lists
  <2>2. CASE pool[m] = Absent
    BY <1>6, <2>2 DEF Delete, Record, Goto, TypeOK, Lists
  <2> QED BY <2>1, <2>2
<1>7. ASSUME NEW m \in Members, TaskEnds(m)
      PROVE  TypeOK'
  BY <1>7 DEF TaskEnds, Goto, TypeOK
<1>8. ASSUME NEW m \in Members, Verify(m)
      PROVE  TypeOK'
  BY <1>8 DEF Verify, Record, Goto, TypeOK, Lists
<1>9. ASSUME NEW m \in Members, ReadBack(m)
      PROVE  TypeOK'
  <2>1. have' \in Lists
    BY <1>9, ReadTypes DEF ReadBack, Record, TypeOK, Lists
  <2> QED BY <1>9, <2>1 DEF ReadBack, Goto, TypeOK
<1>10. ASSUME NEW m \in Members, Fails(m)
       PROVE  TypeOK'
  <2>1. have' \in Lists
    BY <1>10 DEF Fails, Record, TypeOK, Lists
  <2>2. failures' \in 0..MaxFailures
    BY <1>10, BoundsAssumption DEF Fails, TypeOK
  <2>3. busy' \in {busy, Nobody} /\ (pc[m] = "waiting" => busy' = Nobody)
    BY <1>10 DEF Fails, CanStart
  <2> QED BY <1>10, <2>1, <2>2, <2>3 DEF Fails, Goto, TypeOK
<1>11. CASE Killed
  <2>1. failures' \in 0..MaxFailures
    BY <1>11, BoundsAssumption DEF Killed, TypeOK
  <2> QED BY <1>11, <2>1, NobodyAssumption DEF Killed, TypeOK
<1>12. CASE UNCHANGED vars
  BY <1>12 DEF vars, TypeOK
<1> QED
  BY <1>1, <1>2, <1>3, <1>4, <1>5, <1>6, <1>7, <1>8, <1>9, <1>10, <1>11, <1>12 DEF Next, Handler

(* Every reachable state is well typed; whoever has the lock of the pool   *)
(* waits for the task of its own call.                                     *)
THEOREM TypeCorrect == Spec => []TypeOK
  BY InitTypes, TypeStep, PTL DEF Spec

-----------------------------------------------------------------------------
(* What the phase of a handler says: only members that are recorded and to *)
(* stay are updated, a fresh list is the one in the pool, and only members *)
(* that are to go are looked for after their task.                         *)
Phase(m) ==
  /\ pc[m] = "planned" => have[m] # want[m]
  /\ pc[m] = "read" => /\ have[m] # Absent /\ want[m] # Absent
                       /\ fresh[m] => snap[m] = pool
  /\ pc[m] = "verifying" => want[m] = Absent
  /\ pc[m] = "reading" => want[m] # Absent
Phases == \A m \in Members : Phase(m)

(* A step of one handler leaves the phases of the others right: another    *)
(* pool makes their lists stale.                                           *)
LEMMA OtherPhases ==
  ASSUME TypeOK, Phases, NEW m \in Members, Phase(m)', UNCHANGED <<want, snap>>,
         \A x \in Members \ {m} : pc'[x] = pc[x] /\ have'[x] = have[x],
         UNCHANGED <<pool, fresh>> \/ fresh' = [x \in Members |-> FALSE]
  PROVE  Phases'
  BY DEF Phases, Phase

LEMMA PhaseStep == TypeOK /\ Phases /\ [Next]_vars => Phases'
<1> SUFFICES ASSUME TypeOK, Phases, [Next]_vars PROVE Phases'
  OBVIOUS
<1> USE DEF Working
<1>1. CASE Edit
  BY <1>1 DEF Edit, AllDone, Phases, Phase
<1>2. CASE StartRun
  BY <1>2 DEF StartRun, Phases, Phase, TypeOK
<1>3. ASSUME NEW m \in Members, Create(m) \/ Put(m) \/ Delete(m)
      PROVE  Phases'
  <2>1. /\ pc' \in {[pc EXCEPT ![m] = "waiting"], [pc EXCEPT ![m] = "done"]}
        /\ UNCHANGED <<want, snap>>
        /\ have' \in {have, [have EXCEPT ![m] = Absent]}
        /\ UNCHANGED <<pool, fresh>> \/ fresh' = [x \in Members |-> FALSE]
    BY <1>3 DEF Create, Put, Delete, Write, Goto, Record
  <2>2. pc'[m] \in {"waiting", "done"} /\ \A x \in Members \ {m} : pc'[x] = pc[x] /\ have'[x] = have[x]
    BY <2>1 DEF TypeOK, Lists
  <2>3. Phase(m)'
    BY <2>2 DEF Phase
  <2> QED BY <2>1, <2>2, <2>3, OtherPhases
<1>4. ASSUME NEW m \in Members, Get(m)
      PROVE  Phases'
  <2>1. /\ have[m] # Absent /\ want[m] # Absent /\ UNCHANGED <<want, have, pool>>
        /\ pc' = [pc EXCEPT ![m] = "read"] /\ fresh' = [fresh EXCEPT ![m] = TRUE]
        /\ snap' = [snap EXCEPT ![m] = pool]
    BY <1>4 DEF Get, Goto
  <2> QED BY <2>1 DEF TypeOK, Phases, Phase
<1>5. ASSUME NEW m \in Members, TaskEnds(m)
      PROVE  Phases'
  <2>1. Phase(m)'
    BY <1>5 DEF TaskEnds, Goto, Phase, TypeOK
  <2> QED BY <1>5, <2>1, OtherPhases DEF TaskEnds, Goto, TypeOK
<1>6. ASSUME NEW m \in Members, Verify(m) \/ ReadBack(m) \/ Fails(m)
      PROVE  Phases'
  <2>1. /\ pc' = [pc EXCEPT ![m] = "done"] /\ UNCHANGED <<want, snap, pool, fresh>>
        /\ have' = have \/ \E v : have' = [have EXCEPT ![m] = v]
    BY <1>6 DEF Verify, ReadBack, Fails, Record, Goto
  <2>2. pc'[m] = "done" /\ \A x \in Members \ {m} : pc'[x] = pc[x] /\ have'[x] = have[x]
    BY <2>1 DEF TypeOK, Lists
  <2>3. Phase(m)'
    BY <2>2 DEF Phase
  <2> QED BY <2>1, <2>2, <2>3, OtherPhases
<1>7. CASE Killed
  BY <1>7 DEF Killed, Phases, Phase
<1>8. CASE UNCHANGED vars
  BY <1>8 DEF vars, Phases, Phase
<1> QED BY <1>1, <1>2, <1>3, <1>4, <1>5, <1>6, <1>7, <1>8 DEF Next, Handler

(* The phases of the handlers, in every reachable state. *)
THEOREM PhasesHold == Spec => [](TypeOK /\ Phases)
<1>1. Init => Phases
  BY DEF Init, Phases, Phase
<1> QED BY <1>1, InitTypes, TypeStep, PhaseStep, PTL DEF Spec

(* All of an update's second half but the list. *)
LEMMA PutFacts ==
  ASSUME NEW m \in Members, Put(m)
  PROVE  /\ pc[m] = "read" /\ pc' = [pc EXCEPT ![m] = "waiting"]
         /\ clean' = (clean /\ fresh[m])
         /\ UNCHANGED <<want, have, snap, strays, failures, edits>>
  BY Zenon DEF Put, Goto

(* A list nobody has overtaken changes only the member it is about, and    *)
(* brings back nobody.                                                     *)
LEMMA FreshPut ==
  ASSUME TypeOK, Phases, NEW m \in Members, Put(m), fresh[m]
  PROVE  pool' = [pool EXCEPT ![m] = IF pool[m] = Absent THEN Absent ELSE want[m]]
<1> DEFINE list == [snap[m] EXCEPT ![m] = IF @ = Absent THEN Absent ELSE want[m]]
           gone == {x \in Members : list[x] # Absent /\ pool[x] = Absent}
<1>1. snap[m] = pool /\ pool \in Lists
  BY PutFacts DEF Phases, Phase, TypeOK
<1>2. list = [pool EXCEPT ![m] = IF pool[m] = Absent THEN Absent ELSE want[m]]
  BY <1>1 DEF Lists
<1>3. gone = {} /\ list = [x \in Members |-> list[x]]
  BY <1>1, <1>2 DEF Lists
<1>4. PICK back \in SUBSET gone : pool' = [x \in Members |-> IF x \in gone \ back THEN Absent ELSE list[x]]
  BY Zenon DEF Put, Write
<1> HIDE DEF list, gone
<1> QED BY <1>2, <1>3, <1>4

(* A step that is not a stale write leaves a ghost a ghost. *)
LEMMA GhostStep ==
  ASSUME TypeOK, Phases, [Next]_vars
  PROVE  [StaysGhost]_vars
<1> SUFFICES ASSUME NEW m \in Members, have[m] # Absent, pool[m] = Absent, want[m] # Absent,
                    ~StaleWrite, ~UNCHANGED vars
             PROVE  have'[m] # Absent /\ pool'[m] = Absent
  BY DEF StaysGhost, Ghost
<1>1. CASE Edit
  BY <1>1 DEF Edit
<1>2. CASE StartRun
  BY <1>2 DEF StartRun, ReadInto
<1>3. ASSUME NEW x \in Members, Handler(x) \/ Fails(x)
      PROVE  pool'[m] = Absent
  <2>1. CASE Put(x)
    <3>1. fresh[x]
      BY <2>1 DEF StaleWrite
    <3>2. pool' = [pool EXCEPT ![x] = IF pool[x] = Absent THEN Absent ELSE want[x]]
      BY <2>1, <3>1, FreshPut
    <3> QED BY <3>2 DEF TypeOK, Lists
  <2>2. CASE Create(x)
    <3>1. UNCHANGED pool \/ (x # m /\ pool' = [pool EXCEPT ![x] = want[x]])
      BY <2>2 DEF Create, Write
    <3> QED BY <3>1 DEF TypeOK, Lists
  <2>3. CASE Delete(x)
    <3>1. UNCHANGED pool \/ pool' = [pool EXCEPT ![x] = Absent]
      BY <2>3 DEF Delete, Write
    <3> QED BY <3>1 DEF TypeOK, Lists
  <2>4. CASE Get(x) \/ TaskEnds(x) \/ Verify(x) \/ ReadBack(x) \/ Fails(x)
    BY <2>4 DEF Get, TaskEnds, Verify, ReadBack, Fails
  <2> QED BY <1>3, <2>1, <2>2, <2>3, <2>4 DEF Handler
<1>4. ASSUME NEW x \in Members, Handler(x) \/ Fails(x)
      PROVE  have'[m] # Absent
  <2>1. CASE x # m
    <3>1. have' = have \/ \E v : have' = [have EXCEPT ![x] = v]
      BY <1>4 DEF Handler, Create, Get, Put, Delete, TaskEnds, Verify, ReadBack, Fails, Record
    <3> QED BY <2>1, <3>1 DEF TypeOK, Lists
  <2>2. CASE x = m /\ (Create(x) \/ Get(x) \/ Put(x) \/ TaskEnds(x) \/ Delete(x) \/ Verify(x))
    BY <2>2 DEF Create, Get, Put, TaskEnds, Delete, Verify, Phases, Phase
  <2>3. CASE x = m /\ (ReadBack(x) \/ Fails(x))
    <3>1. have' = [have EXCEPT ![m] = want[m]]
      BY <2>3 DEF ReadBack, Fails, Record, ReadInto
    <3> QED BY <3>1 DEF TypeOK, Lists
  <2> QED BY <1>4, <2>1, <2>2, <2>3 DEF Handler
<1>5. CASE Killed
  BY <1>5 DEF Killed
<1> QED BY <1>1, <1>2, <1>3, <1>4, <1>5 DEF Next

(* A recorded member that is no longer in the pool is not restored by any  *)
(* number of runs, but by a stale list of a sibling.                       *)
THEOREM GhostsStay == Spec => GhostStays
  BY GhostStep, PhasesHold, PTL DEF Spec, GhostStays

-----------------------------------------------------------------------------
(* What has become of a member in a run in which nothing has failed and no *)
(* list was stale: it is as it shall be, or its handler has written it and *)
(* goes on, or it has not begun.                                           *)
Right(m) == have[m] = want[m] /\ (pool[m] = want[m] \/ Ghost(m) \/ Stray(m))
Written(m) ==
  IF want[m] = Absent THEN pool[m] = Absent ELSE pool[m] = want[m] \/ Ghost(m)
ByNow(m) ==
  /\ pc[m] = "done" => Right(m)
  /\ pc[m] \in {"waiting", "verifying", "reading"} => Written(m)
CleanSoFar == clean /\ ~AllDone => \A m \in Members : ByNow(m)

(* A member no handler touches in a step stays what it has become. *)
LEMMA OthersByNow ==
  ASSUME TypeOK, NEW m \in Members, \A x \in Members : ByNow(x), ByNow(m)',
         UNCHANGED <<want, strays>>,
         \A x \in Members \ {m} : pc'[x] = pc[x] /\ have'[x] = have[x] /\ pool'[x] = pool[x]
  PROVE  (\A x \in Members : ByNow(x))'
  BY DEF ByNow, Right, Written, Ghost, Stray

(* Every handler that neither fails nor writes a stale list does its part. *)
LEMMA HandlerByNow ==
  ASSUME TypeOK, Phases, NEW m \in Members, Handler(m) \/ Fails(m),
         \A x \in Members : ByNow(x), clean'
  PROVE  (\A x \in Members : ByNow(x))'
<1>1. CASE Create(m)
  <2>1. /\ have[m] = Absent /\ want[m] # Absent /\ UNCHANGED <<want, have, strays>>
        /\ pool' = [pool EXCEPT ![m] = want[m]] /\ pc' = [pc EXCEPT ![m] = "waiting"]
    BY <1>1 DEF Create, CanStart, Write, Goto, Phases, Phase
  <2>2. /\ pc'[m] = "waiting" /\ pool'[m] = want[m]
        /\ \A x \in Members \ {m} : pc'[x] = pc[x] /\ pool'[x] = pool[x]
    BY <2>1 DEF TypeOK, Lists
  <2>3. ByNow(m)'
    BY <2>1, <2>2 DEF ByNow, Written
  <2> QED BY <2>1, <2>2, <2>3, OthersByNow
<1>2. CASE Get(m)
  <2>1. UNCHANGED <<want, have, pool, strays>> /\ pc' = [pc EXCEPT ![m] = "read"]
    BY <1>2 DEF Get, Goto
  <2>2. pc'[m] = "read" /\ \A x \in Members \ {m} : pc'[x] = pc[x]
    BY <2>1 DEF TypeOK
  <2>3. ByNow(m)'
    BY <2>2 DEF ByNow
  <2> QED BY <2>1, <2>2, <2>3, OthersByNow
<1>3. CASE Put(m)
  <2>1. /\ fresh[m] /\ have[m] # Absent /\ want[m] # Absent
        /\ UNCHANGED <<want, have, strays>> /\ pc' = [pc EXCEPT ![m] = "waiting"]
    BY <1>3, PutFacts DEF Phases, Phase
  <2>2. pool' = [pool EXCEPT ![m] = IF pool[m] = Absent THEN Absent ELSE want[m]]
    BY <1>3, <2>1, FreshPut
  <2>3. /\ pc'[m] = "waiting" /\ pool'[m] \in {Absent, want[m]}
        /\ \A x \in Members \ {m} : pc'[x] = pc[x] /\ pool'[x] = pool[x]
    BY <2>1, <2>2 DEF TypeOK, Lists
  <2>4. ByNow(m)'
    BY <2>1, <2>3 DEF ByNow, Written, Ghost
  <2> QED BY <2>1, <2>3, <2>4, OthersByNow
<1>4. CASE Delete(m)
  <2>1. want[m] = Absent /\ UNCHANGED <<want, strays>>
    BY <1>4 DEF Delete
  <2>2. \/ /\ UNCHANGED have /\ pool' = [pool EXCEPT ![m] = Absent]
           /\ pc' = [pc EXCEPT ![m] = "waiting"]
        \/ /\ have' = [have EXCEPT ![m] = Absent] /\ UNCHANGED pool /\ pool[m] = Absent
           /\ pc' = [pc EXCEPT ![m] = "done"]
    BY <1>4 DEF Delete, Write, Record, Goto
  <2>3. /\ pool'[m] = Absent
        /\ pc'[m] = "waiting" \/ (pc'[m] = "done" /\ have'[m] = Absent)
        /\ \A x \in Members \ {m} : pc'[x] = pc[x] /\ have'[x] = have[x] /\ pool'[x] = pool[x]
    BY <2>2 DEF TypeOK, Lists
  <2>4. ByNow(m)'
    BY <2>1, <2>3 DEF ByNow, Right, Written
  <2> QED BY <2>1, <2>3, <2>4, OthersByNow
<1>5. CASE TaskEnds(m)
  <2>1. /\ pc[m] = "waiting" /\ UNCHANGED <<want, have, pool, strays>>
        /\ pc'[m] \in {"verifying", "reading"} /\ \A x \in Members \ {m} : pc'[x] = pc[x]
    BY <1>5 DEF TaskEnds, Goto, TypeOK
  <2>2. ByNow(m)'
    BY <2>1 DEF ByNow, Written, Ghost
  <2> QED BY <2>1, <2>2, OthersByNow
<1>6. CASE Verify(m)
  <2>1. /\ pc[m] = "verifying" /\ want[m] = Absent /\ pool[m] = Absent
        /\ UNCHANGED <<want, pool, strays>>
        /\ have' = [have EXCEPT ![m] = Absent] /\ pc' = [pc EXCEPT ![m] = "done"]
    BY <1>6 DEF Verify, Record, Goto, Phases, Phase
  <2>2. /\ pc'[m] = "done" /\ have'[m] = Absent
        /\ \A x \in Members \ {m} : pc'[x] = pc[x] /\ have'[x] = have[x]
    BY <2>1 DEF TypeOK, Lists
  <2>3. ByNow(m)'
    BY <2>1, <2>2 DEF ByNow, Right
  <2> QED BY <2>1, <2>2, <2>3, OthersByNow
<1>7. CASE ReadBack(m)
  <2>1. /\ pc[m] = "reading" /\ want[m] # Absent /\ UNCHANGED <<want, pool, strays>>
        /\ have' = [have EXCEPT ![m] = ReadInto(want[m], m)] /\ pc' = [pc EXCEPT ![m] = "done"]
    BY <1>7 DEF ReadBack, Record, Goto, Phases, Phase
  <2>2. pool[m] = want[m] \/ pool[m] = Absent
    BY <2>1 DEF ByNow, Written, Ghost
  <2>3. /\ pc'[m] = "done" /\ have'[m] = want[m]
        /\ \A x \in Members \ {m} : pc'[x] = pc[x] /\ have'[x] = have[x]
    BY <2>1, <2>2 DEF ReadInto, TypeOK, Lists
  <2>4. ByNow(m)'
    BY <2>1, <2>2, <2>3 DEF ByNow, Right, Ghost
  <2> QED BY <2>1, <2>3, <2>4, OthersByNow
<1>8. CASE Fails(m)
  BY <1>8 DEF Fails
<1> QED BY <1>1, <1>2, <1>3, <1>4, <1>5, <1>6, <1>7, <1>8 DEF Handler

(* A handler is called in a run, and does not clear the run's bad name. *)
LEMMA HandlerRuns ==
  ASSUME TypeOK, NEW m \in Members, Handler(m) \/ Fails(m)
  PROVE  ~AllDone /\ (clean' => clean)
<1>1. CASE Put(m)
  BY <1>1, PutFacts DEF AllDone
<1>2. CASE Create(m) \/ Get(m) \/ Delete(m) \/ TaskEnds(m)
  BY <1>2 DEF Create, Get, Delete, TaskEnds, CanStart, AllDone
<1>3. CASE Verify(m) \/ ReadBack(m) \/ Fails(m)
  BY <1>3 DEF Verify, ReadBack, Fails, CanStart, AllDone
<1> QED BY <1>1, <1>2, <1>3 DEF Handler

LEMMA CleanStep == TypeOK /\ Phases /\ CleanSoFar /\ [Next]_vars => CleanSoFar'
<1> SUFFICES ASSUME TypeOK, Phases, CleanSoFar, [Next]_vars PROVE CleanSoFar'
  OBVIOUS
<1>1. CASE Edit
  BY <1>1 DEF Edit, AllDone, CleanSoFar
<1>2. CASE StartRun
  <2> SUFFICES ASSUME NEW m \in Members
               PROVE  ByNow(m)'
    BY DEF CleanSoFar
  <2>1. /\ UNCHANGED <<want, pool>> /\ have'[m] = ReadInto(have[m], m)
        /\ pc'[m] = IF have'[m] = want[m] THEN "done" ELSE "planned"
        /\ m \in strays' <=> have[m] = Absent /\ pool[m] # Absent
    BY <1>2 DEF StartRun
  <2> QED BY <2>1 DEF ReadInto, ByNow, Right, Ghost, Stray
<1>3. ASSUME NEW m \in Members, Handler(m) \/ Fails(m)
      PROVE  CleanSoFar'
  <2> SUFFICES ASSUME clean'
               PROVE  (\A x \in Members : ByNow(x))'
    BY DEF CleanSoFar
  <2>1. \A x \in Members : ByNow(x)
    BY <1>3, HandlerRuns DEF CleanSoFar
  <2> QED BY <1>3, <2>1, HandlerByNow
<1>4. CASE Killed
  BY <1>4 DEF Killed, CleanSoFar
<1>5. CASE UNCHANGED vars
  BY <1>5 DEF vars, CleanSoFar, AllDone, ByNow, Right, Written, Ghost, Stray
<1> QED BY <1>1, <1>2, <1>3, <1>4, <1>5 DEF Next

(* The inductive invariant of a clean run. *)
THEOREM CleanInvariant == Spec => [](TypeOK /\ Phases /\ CleanSoFar)
<1>1. Init => Phases /\ CleanSoFar
  BY DEF Init, Phases, Phase, CleanSoFar, AllDone
<1> QED BY <1>1, InitTypes, TypeStep, PhaseStep, CleanStep, PTL DEF Spec

(* The step that ends a clean run. *)
LEMMA EndStep ==
  ASSUME TypeOK, Phases, CleanSoFar, [Next]_vars, RunEnds
  PROVE  Exact
<1>1. PICK m \in Members : Handler(m) \/ Fails(m)
  BY DEF RunEnds, AllDone, Next, Edit, StartRun, Killed, vars
<1>2. \A x \in Members : ByNow(x)
  BY <1>1, HandlerRuns DEF CleanSoFar, RunEnds
<1>3. (\A x \in Members : ByNow(x))'
  BY <1>1, <1>2, HandlerByNow DEF RunEnds
<1>4. /\ pc'[m] = "done" /\ UNCHANGED <<want, strays, pool>>
      /\ Verify(m) \/ ReadBack(m) \/ Delete(m)
  BY <1>1 DEF RunEnds, AllDone, Handler, Create, Get, Put, Delete, TaskEnds, Verify, ReadBack,
              Fails, Write, Goto, TypeOK
<1>5. \A x \in Members : have'[x] = want[x] /\ (pool'[x] = want[x] \/ Ghost(x)' \/ Stray(x))
  BY <1>3, <1>4 DEF RunEnds, AllDone, ByNow, Right, Stray
<1>6. ASSUME NEW x \in Members, Ghost(x)'
      PROVE  Ghost(x)
  <2>1. pool[x] = Absent /\ have'[x] # Absent
    BY <1>4, <1>6 DEF Ghost
  <2>2. CASE x # m
    <3>1. have' = have \/ \E v : have' = [have EXCEPT ![m] = v]
      BY <1>4 DEF Verify, ReadBack, Delete, Record
    <3> QED BY <2>1, <2>2, <3>1 DEF Ghost, TypeOK, Lists
  <2>3. CASE x = m
    <3>1. pc[m] = "reading" /\ want[m] # Absent
      BY <1>4, <2>1, <2>3 DEF Verify, ReadBack, Delete, Record, Goto, Phases, Phase, TypeOK, Lists
    <3> QED BY <1>2, <2>1, <2>3, <3>1 DEF ByNow, Written, Ghost
  <2> QED BY <2>2, <2>3
<1> QED BY <1>4, <1>5, <1>6 DEF Exact

(* A run without a failure in which no update wrote a stale list ends as   *)
(* configured but for ghosts and strays, however many handlers run at a    *)
(* time and whatever earlier runs have left.                               *)
THEOREM CleanRunsAreExact == Spec => RunIsExact
<1>1. TypeOK /\ Phases /\ CleanSoFar /\ [Next]_vars => [RunEnds => Exact]_vars
  BY EndStep
<1> QED BY <1>1, CleanInvariant, PTL DEF Spec, RunIsExact
=============================================================================
