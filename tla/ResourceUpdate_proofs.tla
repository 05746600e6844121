------------------------ MODULE ResourceUpdate_proofs ------------------------
(***************************************************************************)
(* Theorems about ResourceUpdate for every table of handlers, every set of *)
(* values and all bounds: type correctness; that an update which ends has  *)
(* brought what it was about to the service; that a repeated update leaves *)
(* alone what is right; that what Read does not look at stays wrong        *)
(* unnoticed; and that what the service has too much of stops every run.   *)
(***************************************************************************)
EXTENDS ResourceUpdate, TLAPS

(* The calls of the kind in hand are a sequence. *)
LEMMA CallFacts ==
  ASSUME TypeOK
  PROVE  /\ kind \in Kinds /\ Len(Calls) \in Nat
         /\ DOMAIN Calls = 1..Len(Calls) /\ next \in 1..(Len(Calls) + 1)
         /\ Attrs = AttrsOf(kind)
  BY TableAssumption DEF TypeOK, Calls, Attrs

(* Whatever a call does or leaves undone keeps the attributes well typed. *)
LEMMA RemainsTypes ==
  ASSUME TypeOK, NEW c
  PROVE  /\ Done(c) \in [Attrs -> Values \cup {Other}]
         /\ \A r \in Remains(c) : r \in [Attrs -> Values \cup {Other}]
<1>1. /\ config \in [Attrs -> Values] /\ remote \in [Attrs -> Values \cup {Other}]
  BY CallFacts DEF TypeOK
<1>2. Done(c) \in [Attrs -> Values \cup {Other}]
  BY <1>1 DEF Done, With, Value
<1>3. Part(c) \in [Attrs -> Values \cup {Other}]
  BY <1>1 DEF Part, With
<1> QED BY <1>1, <1>2, <1>3 DEF Remains

LEMMA ReadTypes ==
  ASSUME TypeOK, NEW s \in [Attrs -> Values \cup {Other}]
  PROVE  ReadInto(s) \in [Attrs -> Values \cup {Other}]
<1>1. remote \in [Attrs -> Values \cup {Other}]
  BY CallFacts DEF TypeOK
<1> QED BY <1>1 DEF ReadInto

LEMMA InitTypes == Init => TypeOK
<1> SUFFICES ASSUME Init PROVE TypeOK
  OBVIOUS
<1>1. kind \in Kinds /\ Len(Calls) \in Nat
  BY TableAssumption DEF Init, Calls
<1>2. config \in [AttrsOf(kind) -> Values]
  BY DEF Init
<1>3. pc = "idle" /\ next = 1 /\ failures = 0 /\ drifts = 0 /\ edits = 0
  BY DEF Init
<1> QED BY <1>1, <1>2, <1>3, UpdateBoundsAssumption DEF Init, TypeOK

(* The counters count up to their bounds. *)
LEMMA FailureTypes ==
  ASSUME TypeOK, Failure
  PROVE  failures' \in 0..MaxFailures /\ UNCHANGED <<drifts, edits>>
  BY UpdateBoundsAssumption DEF TypeOK, Failure

(* Every step keeps the types. *)
LEMMA TypeStep == TypeOK /\ [Next]_vars => TypeOK'
<1> SUFFICES ASSUME TypeOK, [Next]_vars PROVE TypeOK'
  OBVIOUS
<1> USE DEF counters
<1>0. /\ config \in [Attrs -> Values]
      /\ state \in [Attrs -> Values \cup {Other}]
      /\ remote \in [Attrs -> Values \cup {Other}]
      /\ Len(Calls) \in Nat /\ Attrs = AttrsOf(kind)
  BY CallFacts DEF TypeOK
<1>c. config \in [Attrs -> Values \cup {Other}]
  BY <1>0
<1>k. ASSUME UNCHANGED kind
      PROVE  AttrsOf(kind)' = AttrsOf(kind) /\ Calls' = Calls
  BY <1>k DEF AttrsOf, Calls
<1>1. CASE Refresh
  <2>1. state' \in [Attrs -> Values \cup {Other}]
    BY <1>0, <1>1, ReadTypes DEF Refresh
  <2> QED BY <1>0, <1>1, <1>k, <2>1 DEF Refresh, TypeOK
<1>2. CASE PlanNothing
  BY <1>0, <1>2, <1>k DEF PlanNothing, Back, TypeOK
<1>3. CASE PlanUpdate
  BY <1>0, <1>3, <1>k DEF PlanUpdate, TypeOK
<1>4. ASSUME NEW i \in DOMAIN Calls, CallDone(i)
      PROVE  TypeOK'
  <2>1. remote' \in [Attrs -> Values \cup {Other}]
    BY <1>4, RemainsTypes DEF CallDone
  <2>2. i + 1 \in 1..(Len(Calls) + 1)
    BY <1>4, CallFacts
  <2> QED BY <1>0, <1>4, <1>k, <2>1, <2>2 DEF CallDone, TypeOK
<1>r. ASSUME RecordPlanned
      PROVE  state' \in [Attrs -> Values \cup {Other}]
  BY <1>0, <1>r DEF RecordPlanned
<1>5. ASSUME NEW i \in DOMAIN Calls, CallFails(i) \/ KilledIn(i)
      PROVE  TypeOK'
  <2>1. remote' \in [Attrs -> Values \cup {Other}]
    BY <1>5, RemainsTypes DEF CallFails, KilledIn
  <2>2. state' \in [Attrs -> Values \cup {Other}]
    BY <1>0, <1>5, <1>r DEF CallFails, KilledIn
  <2>3. /\ pc' = "idle" /\ next' = 1 /\ UNCHANGED <<kind, config, drifts, edits>>
        /\ failures' \in 0..MaxFailures
    BY <1>5, FailureTypes DEF CallFails, KilledIn, Back
  <2> QED BY <1>0, <1>k, <2>1, <2>2, <2>3 DEF TypeOK
<1>6. CASE LastCallMade
  BY <1>0, <1>6, <1>k DEF LastCallMade, TypeOK
<1>7. CASE Close
  <2>1. state' \in [Attrs -> Values \cup {Other}]
    BY <1>c, <1>7, ReadTypes DEF Close
  <2> QED BY <1>0, <1>7, <1>k, <2>1 DEF Close, Back, TypeOK
<1>8. CASE CloseFails
  <2>1. failures' \in 0..MaxFailures /\ UNCHANGED <<drifts, edits>>
    BY <1>8, FailureTypes DEF CloseFails
  <2> QED BY <1>0, <1>c, <1>8, <1>k, <2>1 DEF CloseFails, Back, TypeOK
<1>9. CASE Edit
  <2>1. config' \in [Attrs -> Values]
    <3>1. PICK A \in SUBSET Attrs :
            \E new \in [A -> Values] :
              config' = [a \in Attrs |-> IF a \in A THEN new[a] ELSE config[a]]
      BY <1>9 DEF Edit
    <3>2. PICK new \in [A -> Values] :
            config' = [a \in Attrs |-> IF a \in A THEN new[a] ELSE config[a]]
      BY <3>1
    <3> QED BY <1>0, <3>1, <3>2
  <2>2. edits' \in 0..MaxEdits
    BY <1>9, UpdateBoundsAssumption DEF Edit, TypeOK
  <2> QED BY <1>0, <1>9, <1>k, <2>1, <2>2 DEF Edit, TypeOK
<1>10. ASSUME NEW a \in Attrs, Drift(a)
       PROVE  TypeOK'
  <2>1. remote' \in [Attrs -> Values \cup {Other}]
    BY <1>0, <1>10 DEF Drift
  <2>2. drifts' \in 0..MaxDrifts
    BY <1>10, UpdateBoundsAssumption DEF Drift, TypeOK
  <2> QED BY <1>0, <1>10, <1>k, <2>1, <2>2 DEF Drift, TypeOK
<1>11. ASSUME NEW i \in DOMAIN Calls, CallRefused(i)
       PROVE  TypeOK'
  <2>1. state' \in [Attrs -> Values \cup {Other}]
    BY <1>11, <1>r DEF CallRefused
  <2> QED BY <1>0, <1>11, <1>k, <2>1 DEF CallRefused, Back, TypeOK
<1>12. CASE UNCHANGED vars
  BY <1>0, <1>12, <1>k DEF vars, TypeOK
<1> QED
  BY <1>1, <1>2, <1>3, <1>4, <1>5, <1>6, <1>7, <1>8, <1>9, <1>10, <1>11, <1>12
     DEF Next, Handler

(* Configuration, state and service always give the object the same        *)
(* attributes, and the handler is at one of its calls or past the last.    *)
THEOREM TypeCorrect == Spec => []TypeOK
<1>1. TypeOK /\ [Next]_vars => TypeOK'
  BY TypeStep
<1> QED
  BY InitTypes, <1>1, PTL DEF Spec

-----------------------------------------------------------------------------
(* The call is made whenever the attribute has changed, whatever else has, *)
(* and then sends it.                                                      *)
Carries(c, a) ==
  /\ c.when = {} \/ a \in c.when
  /\ c.unless = {}
  /\ a \in DOMAIN c.sends /\ (c.sends[a] = {} \/ a \in c.sends[a])

(* One of the calls carries the attribute, and no call sends a difference  *)
(* from a value that Read has not looked at.                               *)
Reliable(k, a) ==
  /\ \E i \in DOMAIN Table[k].calls : Carries(Table[k].calls[i], a)
  /\ a \in Table[k].unread => \A i \in DOMAIN Table[k].calls : a \notin Table[k].calls[i].relative

(* What an update that has made its calls has brought about.               *)
ReliableArrives ==
  pc = "closing" /\ drifts = 0 =>
    \A a \in Attrs : Reliable(kind, a) /\ state[a] # config[a] => remote[a] = config[a]

(***************************************************************************)
(* What holds in the middle of an update: what Read looks at is what the   *)
(* plan says it is or what it shall be, and a reliable attribute has its   *)
(* new value or one of the calls still to come will send it.               *)
(***************************************************************************)
Planned == {"planned", "updating", "closing"}

AsPlanned ==
  pc \in Planned /\ drifts = 0 =>
    \A a \in Attrs \ Table[kind].unread : remote[a] \in {state[a], config[a]}

Coming(a) == \E i \in DOMAIN Calls : i >= next /\ Carries(Calls[i], a)

OnItsWay ==
  pc = "updating" /\ drifts = 0 =>
    \A a \in Attrs :
      Reliable(kind, a) /\ state[a] # config[a] => remote[a] = config[a] \/ Coming(a)

UInv == TypeOK /\ AsPlanned /\ OnItsWay /\ ReliableArrives

(* A call that carries a changed attribute is made and sends it. *)
LEMMA CarriesSends ==
  ASSUME NEW c, NEW a \in Attrs, Carries(c, a), state[a] # config[a]
  PROVE  Made(c) /\ a \in Sent(c)
<1>1. ~HasChange({})
  BY DEF HasChange
<1>2. \A A : a \in A => HasChange(A)
  BY DEF HasChange
<1> QED BY <1>1, <1>2 DEF Carries, Made, Sent

(* A call keeps the plan true, keeps what has arrived and brings what it   *)
(* sends, except for differences from values Read has not looked at.       *)
LEMMA DoneValues ==
  ASSUME TypeOK, NEW c, NEW a \in Attrs
  PROVE  /\ a \notin Sent(c) => Done(c)[a] = remote[a]
         /\ a \in Sent(c) /\ (a \in c.relative => remote[a] \in {state[a], config[a]})
              => Done(c)[a] = config[a]
         /\ remote[a] = config[a] => Done(c)[a] = config[a]
  BY DEF Done, With, Value

LEMMA InitReliable == Init => UInv
  BY InitTypes DEF Init, UInv, AsPlanned, OnItsWay, ReliableArrives, Planned

LEMMA CallStep ==
  ASSUME UInv, NEW i \in DOMAIN Calls, CallDone(i)
  PROVE  AsPlanned' /\ OnItsWay' /\ ReliableArrives'
<1>1. /\ UNCHANGED <<kind, config, state, drifts>> /\ pc = "updating" /\ pc' = "updating"
      /\ remote' = Done(Calls[i]) /\ next' = i + 1
      /\ i >= next /\ Made(Calls[i])
      /\ \A j \in next..(i - 1) : ~Made(Calls[j])
      /\ TypeOK /\ Attrs' = Attrs /\ Calls' = Calls
  BY DEF CallDone, Due, UInv, counters, Attrs, Calls
<1>2. DOMAIN Calls = 1..Len(Calls) /\ Len(Calls) \in Nat /\ next \in 1..(Len(Calls) + 1)
  BY <1>1, CallFacts
<1>3. AsPlanned'
  <2> SUFFICES ASSUME drifts = 0, NEW a \in Attrs \ Table[kind].unread
               PROVE  Done(Calls[i])[a] \in {state[a], config[a]}
    BY <1>1 DEF AsPlanned
  <2>1. remote[a] \in {state[a], config[a]}
    BY <1>1 DEF UInv, AsPlanned, Planned
  <2> QED BY <1>1, <2>1, DoneValues
<1>4. OnItsWay'
  <2> SUFFICES ASSUME drifts = 0, NEW a \in Attrs, Reliable(kind, a), state[a] # config[a],
                      Done(Calls[i])[a] # config[a]
               PROVE  \E j \in DOMAIN Calls : j >= i + 1 /\ Carries(Calls[j], a)
    BY <1>1 DEF OnItsWay, Coming
  <2>1. remote[a] # config[a]
    BY <1>1, DoneValues
  <2>2. PICK j \in DOMAIN Calls : j >= next /\ Carries(Calls[j], a)
    BY <1>1, <2>1 DEF UInv, OnItsWay, Coming
  <2>3. Made(Calls[j]) /\ a \in Sent(Calls[j])
    BY <2>2, CarriesSends
  <2>4. j >= i
    BY <1>1, <1>2, <2>2, <2>3
  <2>5. j # i
    <3> SUFFICES ASSUME j = i PROVE FALSE
      OBVIOUS
    <3>1. a \in Calls[i].relative => remote[a] \in {state[a], config[a]}
      <4> SUFFICES ASSUME a \in Calls[i].relative PROVE remote[a] \in {state[a], config[a]}
        OBVIOUS
      <4>1. a \notin Table[kind].unread
        BY DEF Reliable, Calls
      <4> QED BY <1>1, <4>1 DEF UInv, AsPlanned, Planned
    <3> QED BY <1>1, <2>3, <3>1, DoneValues
  <2> QED BY <1>2, <2>2, <2>4, <2>5
<1> QED BY <1>1, <1>3, <1>4 DEF ReliableArrives

(* Every step keeps the invariant. *)
LEMMA ReliableStep == UInv /\ [Next]_vars => UInv'
<1> SUFFICES ASSUME UInv, [Next]_vars PROVE UInv'
  OBVIOUS
<1> USE DEF counters
<1>0. TypeOK /\ TypeOK'
  BY TypeStep DEF UInv
<1>k. ASSUME UNCHANGED <<kind, config>>
      PROVE  Attrs' = Attrs /\ Calls' = Calls
  BY <1>k DEF Attrs, Calls
<1>i. ASSUME pc' = "idle"
      PROVE  UInv'
  BY <1>0, <1>i DEF UInv, AsPlanned, OnItsWay, ReliableArrives, Planned
<1>1. CASE Refresh
  <2>1. /\ UNCHANGED <<kind, config, remote>> /\ pc' = "planned" /\ state' = ReadInto(state)
    BY <1>1 DEF Refresh
  <2>2. \A a \in Attrs \ Table[kind].unread : remote[a] = state'[a]
    BY <2>1 DEF ReadInto
  <2>3. AsPlanned'
    BY <1>k, <2>1, <2>2 DEF AsPlanned
  <2> QED BY <1>0, <2>1, <2>3 DEF UInv, OnItsWay, ReliableArrives
<1>2. CASE PlanNothing
  BY <1>2, <1>i DEF PlanNothing, Back
<1>3. CASE PlanUpdate
  <2>1. /\ UNCHANGED <<kind, config, remote, state, drifts>>
        /\ pc = "planned" /\ pc' = "updating" /\ next' = 1
    BY <1>3 DEF PlanUpdate
  <2>2. AsPlanned'
    BY <1>k, <2>1 DEF UInv, AsPlanned, Planned
  <2>3. OnItsWay'
    <3>1. \A a \in Attrs : Reliable(kind, a) => Coming(a)'
      BY <1>0, <1>k, <2>1, CallFacts DEF Reliable, Coming, Calls
    <3> QED BY <1>k, <2>1, <3>1 DEF OnItsWay
  <2> QED BY <1>0, <2>1, <2>2, <2>3 DEF UInv, ReliableArrives
<1>4. ASSUME NEW i \in DOMAIN Calls, CallDone(i)
      PROVE  UInv'
  BY <1>0, <1>4, CallStep DEF UInv
<1>5. ASSUME NEW i \in DOMAIN Calls, CallRefused(i) \/ CallFails(i) \/ KilledIn(i)
      PROVE  UInv'
  BY <1>5, <1>i DEF CallRefused, CallFails, KilledIn, Back
<1>6. CASE LastCallMade
  <2>1. /\ UNCHANGED <<kind, config, remote, state, drifts>>
        /\ AllMade /\ pc = "updating" /\ pc' = "closing"
    BY <1>6 DEF LastCallMade, AllMade
  <2>2. AsPlanned'
    BY <1>k, <2>1 DEF UInv, AsPlanned, Planned
  <2>3. ReliableArrives'
    <3> SUFFICES ASSUME drifts = 0, NEW a \in Attrs, Reliable(kind, a), state[a] # config[a],
                        remote[a] # config[a]
                 PROVE  FALSE
      BY <1>k, <2>1 DEF ReliableArrives
    <3>1. PICK j \in DOMAIN Calls : j >= next /\ Carries(Calls[j], a)
      BY <2>1 DEF UInv, OnItsWay, Coming
    <3>2. Made(Calls[j])
      BY <3>1, CarriesSends
    <3> QED BY <1>0, <2>1, <3>1, <3>2, CallFacts DEF AllMade
  <2> QED BY <1>0, <2>1, <2>2, <2>3 DEF UInv, OnItsWay
<1>7. CASE Close \/ CloseFails
  BY <1>7, <1>i DEF Close, CloseFails, Back
<1>8. CASE Edit
  BY <1>8, <1>i DEF Edit
<1>9. ASSUME NEW a \in Attrs, Drift(a)
      PROVE  UInv'
  <2>1. drifts' # 0
    BY <1>0, <1>9 DEF Drift, TypeOK
  <2> QED BY <1>0, <2>1 DEF UInv, AsPlanned, OnItsWay, ReliableArrives
<1>10. CASE UNCHANGED vars
  <2>1. UNCHANGED <<kind, config, state, remote, pc, next, drifts>>
    BY <1>10 DEF vars
  <2> QED BY <1>0, <1>k, <2>1 DEF UInv, AsPlanned, OnItsWay, Coming, ReliableArrives
<1> QED
  BY <1>1, <1>2, <1>3, <1>4, <1>5, <1>6, <1>7, <1>8, <1>9, <1>10 DEF Next, Handler

(* The inductive invariant of an update, for every table of handlers. *)
THEOREM UpdateInvariant == Spec => []UInv
  BY InitReliable, ReliableStep, PTL DEF Spec

(* If the attributes an update may miss are those that are not reliable,   *)
(* it misses no other.                                                     *)
ReliableTable ==
  \A k \in Kinds : \A a \in AttrsOf(k) : <<k, a>> \in Missed \/ Reliable(k, a)

THEOREM UpdatesArrive ==
  ASSUME ReliableTable
  PROVE  Spec => []UpdateArrives
<1>1. UInv => UpdateArrives
  <2> SUFFICES ASSUME UInv, pc = "closing", drifts = 0,
                      NEW a \in Attrs, state[a] # config[a], Differs(a)
               PROVE  <<kind, a>> \in Missed
    BY DEF UpdateArrives
  <2>1. TypeOK /\ ~Reliable(kind, a)
    BY DEF UInv, ReliableArrives, Differs
  <2> QED BY <2>1, CallFacts DEF ReliableTable
<1> QED BY <1>1, UpdateInvariant, PTL

-----------------------------------------------------------------------------
(***************************************************************************)
(* Repetition.  A call made of several requests can take apart what it     *)
(* sends.  A steady attribute that has its new value while the plan still  *)
(* says it changed has had its one such call in this very update: when the *)
(* update began, Read had told the plan what the service had.              *)
(***************************************************************************)
FreshlyRead ==
  pc = "planned" /\ drifts = 0 =>
    \A a \in Attrs \ Table[kind].unread : remote[a] = state[a]

Rough(i, a) == a \in DOMAIN Calls[i].sends /\ ~Calls[i].atomic

BehindIt ==
  pc = "updating" /\ drifts = 0 =>
    \A a \in Attrs, i \in DOMAIN Calls :
      Steady(kind, a) /\ Rough(i, a) /\ state[a] # config[a] /\ remote[a] = config[a] => next > i

RInv == TypeOK /\ FreshlyRead /\ BehindIt

(* What Steady says of the rough calls of the kind in hand. *)
LEMMA SteadyFacts ==
  ASSUME NEW a, NEW i \in DOMAIN Calls, Steady(kind, a), Rough(i, a)
  PROVE  /\ a \notin Table[kind].unread
         /\ \A j \in DOMAIN Calls \ {i} : a \notin Sent(Calls[j])
         /\ Made(Calls[i]) /\ a \in Sent(Calls[i]) => state[a] # config[a]
<1>1. ~HasChange({}) /\ (HasChange({a}) <=> state[a] # config[a]) /\ {a} # {}
  BY DEF HasChange
<1> QED BY <1>1 DEF Steady, Rough, Calls, Made, Sent

LEMMA RepeatStep == RInv /\ [Next]_vars => RInv'
<1> SUFFICES ASSUME RInv, [Next]_vars PROVE RInv'
  OBVIOUS
<1> USE DEF counters
<1>0. TypeOK /\ TypeOK'
  BY TypeStep DEF RInv
<1>k. ASSUME UNCHANGED <<kind, config>>
      PROVE  Attrs' = Attrs /\ Calls' = Calls
  BY <1>k DEF Attrs, Calls
<1>i. ASSUME pc' \in {"idle", "closing"}
      PROVE  RInv'
  BY <1>0, <1>i DEF RInv, FreshlyRead, BehindIt
<1>1. CASE Refresh
  <2>1. /\ UNCHANGED <<kind, config, remote>> /\ pc' = "planned" /\ state' = ReadInto(state)
    BY <1>1 DEF Refresh
  <2>2. \A a \in Attrs \ Table[kind].unread : remote[a] = state'[a]
    BY <2>1 DEF ReadInto
  <2> QED BY <1>0, <1>k, <2>1, <2>2 DEF RInv, FreshlyRead, BehindIt
<1>2. CASE PlanUpdate
  <2>1. /\ UNCHANGED <<kind, config, remote, state, drifts>>
        /\ pc = "planned" /\ pc' = "updating"
    BY <1>2 DEF PlanUpdate
  <2>2. BehindIt'
    <3> SUFFICES ASSUME drifts = 0, NEW a \in Attrs, NEW i \in DOMAIN Calls, Steady(kind, a),
                        Rough(i, a), state[a] # config[a], remote[a] = config[a]
                 PROVE  FALSE
      BY <1>k, <2>1 DEF BehindIt, Rough
    <3> QED BY <2>1, SteadyFacts DEF RInv, FreshlyRead
  <2> QED BY <1>0, <2>1, <2>2 DEF RInv, FreshlyRead
<1>3. ASSUME NEW j \in DOMAIN Calls, CallDone(j)
      PROVE  RInv'
  <2>1. /\ UNCHANGED <<kind, config, state, drifts>> /\ pc = "updating" /\ pc' = "updating"
        /\ remote' = Done(Calls[j]) /\ next' = j + 1 /\ j >= next
    BY <1>3 DEF CallDone, Due
  <2>2. BehindIt'
    <3> SUFFICES ASSUME drifts = 0, NEW a \in Attrs, NEW i \in DOMAIN Calls, Steady(kind, a),
                        Rough(i, a), state[a] # config[a], Done(Calls[j])[a] = config[a]
                 PROVE  j + 1 > i
      BY <1>k, <2>1 DEF BehindIt, Rough
    <3>1. i \in Nat /\ j \in Nat /\ next \in Nat
      BY <1>0, CallFacts
    <3>2. CASE j = i
      BY <3>1, <3>2
    <3>3. CASE j # i
      <4>1. remote[a] = config[a]
        BY <1>0, <3>3, SteadyFacts, DoneValues
      <4> QED BY <2>1, <3>1, <4>1 DEF RInv, BehindIt
    <3> QED BY <3>2, <3>3
  <2> QED BY <1>0, <2>1, <2>2 DEF RInv, FreshlyRead
<1>4. ASSUME NEW i \in DOMAIN Calls, CallRefused(i) \/ CallFails(i) \/ KilledIn(i)
      PROVE  RInv'
  BY <1>4, <1>i DEF CallRefused, CallFails, KilledIn, Back
<1>5. CASE PlanNothing \/ LastCallMade \/ Close \/ CloseFails \/ Edit
  BY <1>5, <1>i DEF PlanNothing, LastCallMade, Close, CloseFails, Edit, Back
<1>6. ASSUME NEW a \in Attrs, Drift(a)
      PROVE  RInv'
  <2>1. drifts' # 0
    BY <1>0, <1>6 DEF Drift, TypeOK
  <2> QED BY <1>0, <2>1 DEF RInv, FreshlyRead, BehindIt
<1>7. CASE UNCHANGED vars
  <2>1. UNCHANGED <<kind, config, state, remote, pc, next, drifts>>
    BY <1>7 DEF vars
  <2> QED BY <1>0, <1>k, <2>1 DEF RInv, FreshlyRead, BehindIt, Rough
<1> QED
  BY <1>1, <1>2, <1>3, <1>4, <1>5, <1>6, <1>7 DEF Next, Handler

(* A call that is done, fails or is cut off leaves a steady attribute that *)
(* is as configured as it is.                                              *)
LEMMA SteadyKept ==
  ASSUME RInv, drifts = 0, NEW a \in Attrs, ~Differs(a), Steady(kind, a),
         NEW i \in DOMAIN Calls, CallDone(i) \/ CallFails(i) \/ KilledIn(i)
  PROVE  remote'[a] = config[a]
<1>1. TypeOK /\ remote[a] = config[a] /\ Due(i) /\ pc = "updating" /\ i >= next
      /\ Made(Calls[i]) /\ i \in Nat /\ next \in Nat
  BY CallFacts DEF RInv, Differs, CallDone, CallFails, KilledIn, Due
<1>2. Done(Calls[i])[a] = config[a]
  BY <1>1, DoneValues
<1>3. ASSUME ~Calls[i].atomic
      PROVE  Part(Calls[i])[a] = config[a]
  <2>1. CASE a \notin Sent(Calls[i])
    BY <1>1, <2>1 DEF Part, With
  <2>2. CASE a \in Sent(Calls[i])
    <3>1. Rough(i, a)
      BY <1>3, <2>2 DEF Rough, Sent
    <3>2. state[a] # config[a]
      BY <1>1, <2>2, <3>1, SteadyFacts
    <3> QED BY <1>1, <3>1, <3>2 DEF RInv, BehindIt
  <2> QED BY <2>1, <2>2
<1>4. remote' \in Remains(Calls[i])
  BY DEF CallDone, CallFails, KilledIn, Remains
<1> QED BY <1>1, <1>2, <1>3, <1>4 DEF Remains

SteadyTable ==
  \A k \in Kinds : \A a \in AttrsOf(k) : <<k, a>> \in Redone \/ Steady(k, a)

(* If the attributes a repeated update may take apart are those that are   *)
(* not steady, no run breaks any other, wherever the runs before it failed *)
(* or were killed.                                                         *)
THEOREM RepeatsAreSafe ==
  ASSUME SteadyTable
  PROVE  Spec => RepeatIsSafe
<1>1. Init => RInv
  BY InitTypes DEF Init, RInv, FreshlyRead, BehindIt
<1>2. RInv /\ [Next]_vars =>
        ((drifts = 0 /\ Undisturbed) =>
           \A a \in Attrs : (~Differs(a) /\ remote'[a] # config[a]) => <<kind, a>> \in Redone)
  <2> SUFFICES ASSUME RInv, [Next]_vars, drifts = 0, Undisturbed,
                      NEW a \in Attrs, ~Differs(a), Steady(kind, a)
               PROVE  remote'[a] = config[a]
    BY CallFacts DEF RInv, SteadyTable
  <2>1. CASE \E i \in DOMAIN Calls : CallDone(i) \/ CallFails(i) \/ KilledIn(i)
    BY <2>1, SteadyKept
  <2>2. CASE remote' = remote
    BY <2>2 DEF Differs
  <2>3. ~Edit /\ ~\E b \in Attrs : Drift(b)
    BY DEF Undisturbed, Edit, Drift, RInv, TypeOK
  <2> QED
    BY <2>1, <2>2, <2>3
       DEF Next, Handler, Refresh, PlanNothing, PlanUpdate, CallRefused, LastCallMade, Close,
           CloseFails, vars
<1> QED
  BY <1>1, <1>2, RepeatStep, PTL DEF RepeatIsSafe, Spec

-----------------------------------------------------------------------------
UnnoticedTable ==
  \A k \in Kinds : \A a \in AttrsOf(k) : <<k, a>> \in Unnoticed => a \in Table[k].unread

(* If Read does not look at the attributes that may go unnoticed, then an  *)
(* object that differs from the configuration in some of these only is     *)
(* never updated, by any number of runs.                                   *)
THEOREM SilenceStays ==
  ASSUME UnnoticedTable
  PROVE  Spec => SilenceLasts
<1>1. TypeOK /\ [Next]_vars => ((Silent /\ Undisturbed) => (Silent' /\ remote' = remote))
  <2> SUFFICES ASSUME TypeOK, [Next]_vars, Silent, Undisturbed
               PROVE  Silent' /\ remote' = remote
    OBVIOUS
  <2>1. ~Edit /\ ~\E b \in Attrs : Drift(b)
    BY DEF Undisturbed, Edit, Drift, TypeOK
  <2>2. CASE Refresh
    <3>1. UNCHANGED <<kind, config, remote>> /\ pc' = "planned" /\ state' = ReadInto(state)
      BY <2>2 DEF Refresh
    <3>2. state' = config
      <4>1. config = [a \in Attrs |-> config[a]] /\ Attrs = AttrsOf(kind) /\ kind \in Kinds
        BY CallFacts DEF TypeOK
      <4>2. \A a \in Attrs : a \notin Table[kind].unread => remote[a] = config[a]
        BY <4>1 DEF Silent, Differs, UnnoticedTable
      <4>3. \A a \in Attrs : (IF a \in Table[kind].unread THEN state[a] ELSE remote[a]) = config[a]
        BY <4>2 DEF Silent
      <4> QED BY <3>1, <4>1, <4>3 DEF ReadInto
    <3> QED BY <3>1, <3>2 DEF Silent, Differs, Attrs
  <2>3. CASE PlanNothing
    BY <2>3 DEF PlanNothing, Back, Silent, Differs, Attrs
  <2>4. CASE UNCHANGED vars
    BY <2>4 DEF vars, Silent, Differs, Attrs
  <2>5. Refresh \/ PlanNothing \/ UNCHANGED vars
    BY <2>1 DEF Silent, Next, Handler, PlanUpdate, CallDone, CallRefused, CallFails, KilledIn,
                Due, LastCallMade, AllMade, Close, CloseFails
  <2> QED BY <2>2, <2>3, <2>4, <2>5
<1> QED
  BY <1>1, TypeCorrect, PTL DEF SilenceLasts, Spec

-----------------------------------------------------------------------------
(***************************************************************************)
(* What can only grow.  Read looks at it and one call, if any, sends it,   *)
(* alone and whenever it has changed.                                      *)
(***************************************************************************)
GrowsBy(c, a) ==
  /\ c.when = {a} /\ c.unless = {}
  /\ a \in c.grows /\ c.sends[a] \in {{}, {a}}

GrowingTable ==
  \A k \in Kinds : \A a \in AttrsOf(k) : <<k, a>> \in Growing =>
    /\ a \notin Table[k].unread
    /\ \E i \in DOMAIN Table[k].calls : a \in DOMAIN Table[k].calls[i].sends
    /\ \A i \in DOMAIN Table[k].calls :
         a \in DOMAIN Table[k].calls[i].sends => GrowsBy(Table[k].calls[i], a)

(* Past the refresh, the update stops at the call that would send it.      *)
LEMMA BarredCall ==
  ASSUME GrowingTable, TypeOK, NEW a \in Attrs, Barred(a)
  PROVE  /\ a \notin Table[kind].unread
         /\ \E i \in Sender(a) : TRUE
         /\ \A i \in Sender(a) :
              /\ i \in DOMAIN Calls /\ i >= next
              /\ pc # "idle" => Made(Calls[i]) /\ Refused(Calls[i])
<1>0. /\ kind \in Kinds /\ a \in AttrsOf(kind)
      /\ <<kind, a>> \in Growing /\ remote[a] > config[a]
  BY CallFacts DEF Barred
<1>1. /\ a \notin Table[kind].unread
      /\ \E i \in Sender(a) : TRUE
      /\ \A i \in Sender(a) : i \in DOMAIN Calls /\ GrowsBy(Calls[i], a)
  BY <1>0 DEF GrowingTable, Sender, Calls
<1>2. ASSUME NEW i \in Sender(a)
      PROVE  i >= next
  BY <1>1, <1>2, CallFacts DEF Barred
<1>3. ASSUME NEW i \in Sender(a), pc # "idle"
      PROVE  Made(Calls[i]) /\ Refused(Calls[i])
  <2>1. state[a] # config[a]
    BY <1>3 DEF Barred
  <2>2. HasChange({a}) /\ ~HasChange({})
    BY <2>1 DEF HasChange
  <2>3. GrowsBy(Calls[i], a) /\ a \in DOMAIN Calls[i].sends
    BY <1>1 DEF Sender
  <2>4. Made(Calls[i]) /\ a \in Sent(Calls[i])
    BY <2>2, <2>3 DEF GrowsBy, Made, Sent
  <2>5. remote[a] \in Nat /\ config[a] \in Nat
    BY CallFacts, ValuesAssumption DEF TypeOK
  <2> QED BY <1>0, <2>3, <2>4, <2>5 DEF GrowsBy, Refused
<1> QED BY <1>1, <1>2, <1>3

(* A call that is made comes before that one, and sends nothing of what    *)
(* is sent from there on.                                                  *)
LEMMA BarredDue ==
  ASSUME GrowingTable, TypeOK, NEW a \in Attrs, Barred(a),
         NEW i \in DOMAIN Calls, Due(i)
  PROVE  /\ \A j \in Sender(a) : i <= j
         /\ ~Refused(Calls[i]) => /\ \A j \in Sender(a) : i + 1 <= j
                                  /\ \A b \in Later(a) \cup {a} : b \notin Sent(Calls[i])
<1>1. /\ pc = "updating" /\ i >= next /\ \A j \in next..(i - 1) : ~Made(Calls[j])
      /\ i \in Nat /\ next \in Nat /\ DOMAIN Calls = 1..Len(Calls) /\ Len(Calls) \in Nat
  BY CallFacts DEF Due
<1>2. ASSUME NEW j \in Sender(a)
      PROVE  i <= j /\ (~Refused(Calls[i]) => i + 1 <= j)
  <2>1. j \in DOMAIN Calls /\ j >= next /\ Made(Calls[j]) /\ Refused(Calls[j])
    BY <1>1, <1>2, BarredCall
  <2>2. i <= j
    BY <1>1, <2>1
  <2>3. ~Refused(Calls[i]) => i # j
    BY <2>1
  <2> QED BY <1>1, <2>1, <2>2, <2>3
<1>3. ASSUME ~Refused(Calls[i]), NEW b \in Later(a)
      PROVE  b \notin Sent(Calls[i])
  <2>1. PICK j \in Sender(a) : TRUE
    BY BarredCall
  <2>2. i + 1 <= j /\ j \in DOMAIN Calls
    BY <1>2, <1>3, <2>1 DEF Sender
  <2>3. ~(i >= j)
    BY <1>1, <2>2
  <2> QED BY <1>3, <2>1, <2>3 DEF Later, Sent
<1>4. ASSUME ~Refused(Calls[i])
      PROVE  a \notin Sent(Calls[i])
  <2>1. \A j \in Sender(a) : ~(j <= i)
    BY <1>1, <1>2, <1>4 DEF Sender
  <2>2. i \notin Sender(a)
    BY <1>1, <2>1
  <2> QED BY <2>2 DEF Sender, Sent
<1> QED BY <1>2, <1>3, <1>4

(* Whatever such a call does, and whatever a run that is cut off there     *)
(* leaves, is not about what is sent from there on.                        *)
LEMMA BarredKept ==
  ASSUME GrowingTable, TypeOK, NEW a \in Attrs, Barred(a),
         NEW i \in DOMAIN Calls, Due(i), NEW r \in Remains(Calls[i])
  PROVE  r[a] = remote[a] /\ \A b \in Later(a) : r[b] = remote[b]
<1>1. CASE Refused(Calls[i])
  BY <1>1 DEF Remains
<1>2. CASE ~Refused(Calls[i])
  <2>1. \A b \in Later(a) \cup {a} : b \in Attrs /\ b \notin Sent(Calls[i])
    BY <1>2, BarredDue DEF Later
  <2>2. r \in {remote, Done(Calls[i]), Part(Calls[i])}
    BY <1>2 DEF Remains
  <2> QED BY <2>1, <2>2 DEF Done, Part, With
<1> QED BY <1>1, <1>2

(* A run that ends leaves what is too much as it was.                      *)
LEMMA BarredIdle ==
  ASSUME TypeOK, NEW a \in Attrs, Barred(a), UNCHANGED <<kind, config>>,
         remote'[a] = remote[a], pc' = "idle", next' = 1
  PROVE  Barred(a)'
<1>1. Calls' = Calls /\ Sender(a)' = Sender(a)
  BY DEF Calls, Sender
<1>2. \A i \in Sender(a) : i \in Nat /\ i >= 1
  BY CallFacts DEF Sender
<1> QED BY <1>1, <1>2 DEF Barred

(* Nobody else interfering, each run stops there, and the next one again:  *)
(* neither what is too much nor what the handler sends after it changes.   *)
THEOREM GrownStaysAsItIs ==
  ASSUME GrowingTable
  PROVE  Spec => GrownStaysBarred
<1>1. TypeOK /\ TypeOK' /\ [Next]_vars =>
        \A a \in Attrs : (Barred(a) /\ Undisturbed) =>
          Barred(a)' /\ \A b \in Later(a) : remote'[b] = remote[b]
  <2> SUFFICES ASSUME TypeOK, TypeOK', [Next]_vars, Undisturbed, NEW a \in Attrs, Barred(a)
               PROVE  Barred(a)' /\ \A b \in Later(a) : remote'[b] = remote[b]
    OBVIOUS
  <2>0. ~Edit /\ ~\E b \in Attrs : Drift(b)
    BY DEF Undisturbed, Edit, Drift, TypeOK
  <2>1. CASE Refresh
    <3>1. /\ UNCHANGED <<kind, config, remote, next>> /\ pc' = "planned"
          /\ state' = ReadInto(state)
      BY <2>1 DEF Refresh
    <3>2. state'[a] = remote[a]
      BY <3>1, BarredCall DEF ReadInto
    <3>3. remote[a] # config[a]
      <4>1. remote[a] \in Nat /\ config[a] \in Nat
        BY CallFacts, ValuesAssumption DEF TypeOK
      <4> QED BY <4>1 DEF Barred
    <3>4. Sender(a)' = Sender(a)
      BY <3>1 DEF Sender, Calls
    <3>5. state'[a] # config'[a]
      BY <3>1, <3>2, <3>3
    <3> QED BY <3>1, <3>4, <3>5 DEF Barred
  <2>2. CASE PlanNothing
    <3>1. FALSE
      BY <2>2 DEF PlanNothing, Barred
    <3> QED BY <3>1
  <2>3. CASE PlanUpdate
    <3>1. UNCHANGED <<kind, config, state, remote>> /\ pc = "planned" /\ pc' = "updating" /\ next' = 1
      BY <2>3 DEF PlanUpdate
    <3>2. \A i \in Sender(a) : i \in Nat /\ i >= 1
      BY CallFacts DEF Sender
    <3> QED BY <3>1, <3>2 DEF Barred, Sender, Calls
  <2>4. ASSUME NEW i \in DOMAIN Calls, CallDone(i)
        PROVE  Barred(a)' /\ \A b \in Later(a) : remote'[b] = remote[b]
    <3>1. /\ Due(i) /\ ~Refused(Calls[i]) /\ remote' = Done(Calls[i]) /\ next' = i + 1
          /\ UNCHANGED <<kind, config, state, pc>>
      BY <2>4 DEF CallDone
    <3>2. remote'[a] = remote[a] /\ \A b \in Later(a) : remote'[b] = remote[b]
      BY <3>1, BarredKept DEF Remains
    <3>3. \A j \in Sender(a) : i + 1 <= j
      BY <3>1, BarredDue
    <3> QED BY <3>1, <3>2, <3>3 DEF Barred, Sender, Calls
  <2>5. ASSUME NEW i \in DOMAIN Calls, CallRefused(i) \/ CallFails(i) \/ KilledIn(i)
        PROVE  Barred(a)' /\ \A b \in Later(a) : remote'[b] = remote[b]
    <3>1. /\ Due(i) /\ UNCHANGED <<kind, config>> /\ pc' = "idle" /\ next' = 1
          /\ remote' = remote \/ remote' \in Remains(Calls[i])
      BY <2>5 DEF CallRefused, CallFails, KilledIn, Back
    <3>2. remote'[a] = remote[a] /\ \A b \in Later(a) : remote'[b] = remote[b]
      BY <3>1, BarredKept
    <3> QED BY <3>1, <3>2, BarredIdle
  <2>6. CASE LastCallMade \/ Close \/ CloseFails
    <3>1. pc # "closing"
      BY DEF Barred
    <3>2. AllMade
      BY <2>6, <3>1 DEF LastCallMade, Close, CloseFails
    <3>3. PICK i \in Sender(a) : TRUE
      BY BarredCall
    <3>4. i \in DOMAIN Calls /\ i >= next /\ Made(Calls[i])
      BY <3>2, <3>3, BarredCall DEF AllMade
    <3>5. FALSE
      BY <3>2, <3>4, CallFacts DEF AllMade
    <3> QED BY <3>5
  <2>7. CASE UNCHANGED vars
    BY <2>7 DEF vars, Barred, Sender, Calls
  <2> QED
    BY <2>0, <2>1, <2>2, <2>3, <2>4, <2>5, <2>6, <2>7 DEF Next, Handler
<1> QED
  BY <1>1, TypeCorrect, PTL DEF GrownStaysBarred, Spec
=============================================================================
