------------------------- MODULE WaapPolicies_proofs -------------------------
(***************************************************************************)
(* Theorems about WaapPolicies for every set of resources and policies,    *)
(* however they overlap, and all bounds: type correctness, and that an     *)
(* undisturbed update knows at every step which policies still differ.     *)
(***************************************************************************)
EXTENDS WaapPolicies, TLAPS

policies == <<want, created, mode, pc, todo, undisturbed>>

(* Well-typed modes stay so when those of one resource are replaced. *)
LEMMA ReplaceModes ==
  ASSUME NEW w \in AllModes, NEW r \in Resources, NEW m \in Modes(r)
  PROVE  [w EXCEPT ![r] = m] \in AllModes
<1>1. m \in UNION {Modes(x) : x \in Resources}
  OBVIOUS
<1> QED BY <1>1 DEF AllModes

LEMMA InitTypes == Init => TypeOK
<1> SUFFICES ASSUME Init PROVE TypeOK
  OBVIOUS
<1>1. PoliciesTypeOK
  BY DEF Init, PoliciesTypeOK
<1>2. DomainTypeOK
  BY ValuesAssumption DEF Init, DomainTypeOK
<1>3. failures \in 0..MaxFailures /\ edits \in 0..MaxEdits /\ outside \in 0..MaxOutside
  BY BoundsAssumption DEF Init
<1> QED BY <1>1, <1>2, <1>3 DEF Init, TypeOK

-----------------------------------------------------------------------------
(* A handler that gives up leaves nothing to be sent. *)
LEMMA GiveUpTypes ==
  ASSUME TypeOK, GiveUp, known' \in {known, 0}, settings' \in [Attrs -> Values],
         failures' \in 0..MaxFailures, at # "done"
  PROVE  TypeOK'
<1>1. DomainTypeOK'
  BY DEF TypeOK, DomainTypeOK, GiveUp
<1>2. PoliciesTypeOK'
  BY DEF TypeOK, PoliciesTypeOK, GiveUp
<1> QED BY <1>1, <1>2 DEF TypeOK, GiveUp

(* Only what is configured is sent. *)
LEMMA SendTypes ==
  ASSUME TypeOK, at \in Attrs, NEW a \in Attrs, Send(a)
  PROVE  settings' \in [Attrs -> Values]
<1>1. a \in sending => asked[a] \in Values
  BY DEF TypeOK, DomainTypeOK, Attrs
<1> QED BY <1>1 DEF TypeOK, DomainTypeOK, Send

(* A step of the domain's handler that is not its last. *)
LEMMA HandlerTypes ==
  ASSUME TypeOK, UNCHANGED policies, UNCHANGED budget, DomainTypeOK', at # "done"
  PROVE  TypeOK'
  BY DEF TypeOK, PoliciesTypeOK, policies, budget

LEMMA DomainStep ==
  ASSUME TypeOK, DomainHandler \/ DomainCallFails
  PROVE  TypeOK'
<1> USE DEF service, handler, budget
<1>1. CASE ByName
  <2>1. DomainTypeOK'
    BY <1>1 DEF TypeOK, DomainTypeOK, ByName, Attrs
  <2> QED BY <1>1, <2>1, HandlerTypes DEF ByName, policies
<1>2. CASE SendSettings
  <2>1. settings' \in [Attrs -> Values]
    BY <1>2, SendTypes DEF SendSettings, Attrs
  <2>2. DomainTypeOK'
    BY <1>2, <2>1 DEF TypeOK, DomainTypeOK, SendSettings, Attrs
  <2> QED BY <1>2, <2>2, HandlerTypes DEF SendSettings, policies
<1>3. CASE SendDiscovery
  <2>1. settings' \in [Attrs -> Values]
    BY <1>3, SendTypes DEF SendDiscovery, Attrs
  <2>2. DomainTypeOK'
    BY <1>3, <2>1 DEF TypeOK, DomainTypeOK, SendDiscovery, Attrs
  <2> QED BY <1>3, <2>2, HandlerTypes DEF SendDiscovery, policies
<1>4. CASE ReadDomain
  <2>1. DomainTypeOK'
    BY <1>4 DEF TypeOK, DomainTypeOK, ReadDomain, Attrs
  <2> QED BY <1>4, <2>1, HandlerTypes DEF ReadDomain, policies
<1>5. CASE DomainRefused
  BY <1>5, GiveUpTypes DEF DomainRefused, TypeOK, DomainTypeOK, Attrs
<1>6. CASE NotFound
  BY <1>6, GiveUpTypes DEF NotFound, TypeOK, DomainTypeOK
<1>7. CASE DomainCallFails
  <2>1. settings' \in [Attrs -> Values]
    BY <1>7, SendTypes DEF DomainCallFails, TypeOK, DomainTypeOK
  <2>2. failures' \in 0..MaxFailures
    BY <1>7, BoundsAssumption DEF DomainCallFails, TypeOK
  <2> QED BY <1>7, <2>1, <2>2, GiveUpTypes DEF DomainCallFails
<1> QED BY <1>1, <1>2, <1>3, <1>4, <1>5, <1>6, <1>7 DEF DomainHandler

-----------------------------------------------------------------------------
(* What a step of the policies leaves alone stays well typed. *)
LEMMA DomainStays ==
  ASSUME TypeOK, UNCHANGED <<asked, handler, service>>
  PROVE  DomainTypeOK'
  BY DEF TypeOK, DomainTypeOK, handler, service

LEMMA ReturnTypes ==
  ASSUME TypeOK, NEW r \in Resources, NEW recorded \in BOOLEAN, Return(r, recorded),
         UNCHANGED <<asked, handler, service, want, mode, undisturbed, edits, outside>>,
         failures' \in 0..MaxFailures
  PROVE  TypeOK'
<1>1. DomainTypeOK'
  BY DomainStays
<1>2. PoliciesTypeOK'
  BY DEF TypeOK, PoliciesTypeOK, Return, Goto
<1>3. \A x \in Resources : pc'[x] \in {pc[x], "idle"}
  BY DEF TypeOK, PoliciesTypeOK, Return, Goto
<1> QED BY <1>1, <1>2, <1>3 DEF TypeOK, handler

LEMMA PolicyStep ==
  ASSUME TypeOK, NEW r \in Resources, Handler(r) \/ CallFails(r)
  PROVE  TypeOK'
<1> USE DEF budget
<1>1. CASE ReadPolicies(r)
  <2>1. {p \in Owned[r] : mode[p] # want[r][p]} \subseteq Owned[r] \cap Policies
    BY OwnedAssumption
  <2>2. PoliciesTypeOK'
    BY <1>1, <2>1 DEF TypeOK, PoliciesTypeOK, ReadPolicies, Goto
  <2> QED BY <1>1, <2>2, DomainStays DEF TypeOK, ReadPolicies, CanStart, handler
<1>2. ASSUME NEW p \in Policies, Toggle(r, p)
      PROVE  TypeOK'
  <2>1. mode' \in [Policies -> BOOLEAN] /\ undisturbed' \in [Resources -> BOOLEAN]
    BY <1>2, Zenon DEF TypeOK, PoliciesTypeOK, Toggle, Flip, DisturbOthers
  <2>2. /\ todo' \in [Resources -> SUBSET Policies]
        /\ \A x \in Resources : todo'[x] \subseteq todo[x]
    BY <1>2 DEF TypeOK, PoliciesTypeOK, Toggle
  <2>3. PoliciesTypeOK'
    BY <1>2, <2>1, <2>2 DEF TypeOK, PoliciesTypeOK, Toggle
  <2> QED BY <1>2, <2>3, DomainStays DEF TypeOK, Toggle, handler
<1>3. ASSUME NEW recorded \in BOOLEAN, Return(r, recorded), failures' \in 0..MaxFailures,
             UNCHANGED <<asked, handler, service, want, mode, undisturbed, edits, outside>>
      PROVE  TypeOK'
  BY <1>3, ReturnTypes
<1>4. CASE ReadNothing(r)
  BY <1>4, <1>3 DEF ReadNothing, TypeOK
<1>5. CASE ReadBack(r)
  <2>1. Lives(known) \in BOOLEAN
    BY DEF Lives
  <2> QED BY <1>5, <1>3, <2>1 DEF ReadBack, TypeOK
<1>6. CASE ToggleRefused(r)
  <2>1. (r \in created) \in BOOLEAN
    OBVIOUS
  <2> QED BY <1>6, <1>3, <2>1 DEF ToggleRefused, Failed, TypeOK
<1>7. CASE CallFails(r)
  <2>1. (r \in created) \in BOOLEAN
    OBVIOUS
  <2>2. failures' \in 0..MaxFailures
    BY <1>7, BoundsAssumption DEF CallFails, TypeOK
  <2> QED BY <1>7, <1>3, <2>1, <2>2 DEF CallFails, Failed
<1> QED BY <1>1, <1>2, <1>4, <1>5, <1>6, <1>7 DEF Handler

-----------------------------------------------------------------------------
LEMMA StartTypes ==
  ASSUME TypeOK, StartRun
  PROVE  TypeOK'
<1> USE DEF service, budget
<1>1. known' \in {0, known} /\ (known' # 0 => known' \in 0..born)
  BY DEF StartRun, Seen, TypeOK, DomainTypeOK
<1>2. sending' \subseteq {a \in Attrs : asked[a] # Unset}
  BY DEF StartRun, Changed
<1>3. DomainTypeOK'
  BY <1>1, <1>2 DEF StartRun, TypeOK, DomainTypeOK, Attrs
<1>4. \A r \in Resources : pc'[r] \in {"idle", "planned"} /\ todo'[r] = {}
  BY DEF StartRun, AllIdle, TypeOK, PoliciesTypeOK
<1>5. PoliciesTypeOK'
  BY <1>4 DEF StartRun, TypeOK, PoliciesTypeOK
<1> QED BY <1>3, <1>4, <1>5 DEF StartRun, TypeOK

LEMMA OutsideTypes ==
  ASSUME TypeOK, SetOutside \/ SwitchedOff \/ SwitchedOn \/ \E p \in Policies : ToggledOutside(p)
  PROVE  TypeOK'
<1> USE DEF budget, handler
<1>1. CASE SetOutside
  <2>1. settings' \in [Attrs -> Values] /\ feature' \in BOOLEAN
    BY <1>1 DEF SetOutside, TypeOK, DomainTypeOK
  <2>2. DomainTypeOK' /\ PoliciesTypeOK'
    BY <1>1, <2>1 DEF SetOutside, TypeOK, DomainTypeOK, PoliciesTypeOK
  <2>3. outside' \in 0..MaxOutside
    BY <1>1, BoundsAssumption DEF SetOutside, TypeOK
  <2> QED BY <1>1, <2>2, <2>3 DEF SetOutside, TypeOK
<1>2. CASE SwitchedOff
  <2>1. DomainTypeOK' /\ PoliciesTypeOK'
    BY <1>2 DEF SwitchedOff, DisturbAll, TypeOK, DomainTypeOK, PoliciesTypeOK
  <2>2. outside' \in 0..MaxOutside
    BY <1>2, BoundsAssumption DEF SwitchedOff, TypeOK
  <2> QED BY <1>2, <2>1, <2>2 DEF SwitchedOff, TypeOK
<1>3. CASE SwitchedOn
  <2>1. DomainTypeOK'
    BY <1>3, ValuesAssumption DEF SwitchedOn, TypeOK, DomainTypeOK
  <2>2. PoliciesTypeOK'
    BY <1>3 DEF SwitchedOn, DisturbAll, TypeOK, PoliciesTypeOK
  <2> QED BY <1>3, <2>1, <2>2 DEF SwitchedOn, TypeOK
<1>4. ASSUME NEW p \in Policies, ToggledOutside(p)
      PROVE  TypeOK'
  <2>1. mode' \in [Policies -> BOOLEAN] /\ undisturbed' \in [Resources -> BOOLEAN]
    BY <1>4, Zenon DEF TypeOK, PoliciesTypeOK, ToggledOutside, Flip
  <2>2. PoliciesTypeOK'
    BY <1>4, <2>1 DEF TypeOK, PoliciesTypeOK, ToggledOutside
  <2>3. outside' \in 0..MaxOutside
    BY <1>4, BoundsAssumption DEF TypeOK, ToggledOutside
  <2> QED BY <1>4, <2>2, <2>3, DomainStays DEF TypeOK, ToggledOutside
<1> QED BY <1>1, <1>2, <1>3, <1>4

(* Every step keeps the types. *)
LEMMA TypeStep == TypeOK /\ [Next]_vars => TypeOK'
<1> SUFFICES ASSUME TypeOK, [Next]_vars PROVE TypeOK'
  OBVIOUS
<1>1. CASE Killed
  <2>1. DomainTypeOK' /\ PoliciesTypeOK'
    BY <1>1 DEF Killed, service, TypeOK, DomainTypeOK, PoliciesTypeOK
  <2>2. failures' \in 0..MaxFailures
    BY <1>1, BoundsAssumption DEF Killed, TypeOK
  <2> QED BY <1>1, <2>1, <2>2 DEF Killed, TypeOK
<1>2. CASE Edit
  <2>1. want' \in AllModes
    BY <1>2, ReplaceModes DEF Edit, TypeOK, PoliciesTypeOK
  <2>2. asked' \in [Attrs -> Values \cup {Unset}]
    BY <1>2 DEF Edit, TypeOK, DomainTypeOK
  <2>3. DomainTypeOK' /\ PoliciesTypeOK'
    BY <1>2, <2>1, <2>2 DEF Edit, AllIdle, handler, service, TypeOK, DomainTypeOK, PoliciesTypeOK
  <2>4. edits' \in 0..MaxEdits
    BY <1>2, BoundsAssumption DEF Edit, TypeOK
  <2> QED BY <1>2, <2>3, <2>4 DEF Edit, handler, TypeOK
<1>3. CASE UNCHANGED vars
  BY <1>3 DEF vars, handler, service, budget, TypeOK, DomainTypeOK, PoliciesTypeOK
<1> QED BY <1>1, <1>2, <1>3, StartTypes, DomainStep, PolicyStep, OutsideTypes DEF Next

(* Every reachable state is well typed: a handler has on its list only     *)
(* policies of its own, and none when it is not toggling; only configured  *)
(* settings are sent; no policy is handled before the domain.              *)
THEOREM TypeCorrect == Spec => []TypeOK
  BY InitTypes, TypeStep, PTL DEF Spec

-----------------------------------------------------------------------------
(* The toggled policy is right now and off the list; any other resource    *)
(* that lists it is disturbed.                                             *)
LEMMA ToggleStep ==
  ASSUME TypeOK, HalfWay, NEW r \in Resources, NEW p \in Policies, Toggle(r, p)
  PROVE  HalfWay'
<1> SUFFICES ASSUME NEW x \in Resources, pc'[x] = "toggling", undisturbed'[x],
                    NEW q \in Owned[x]
             PROVE  (mode'[q] = want'[x][q]) <=> q \notin todo'[x]
  BY DEF HalfWay
<1> USE DEF TypeOK, PoliciesTypeOK
<1>1. UNCHANGED <<want, pc>> /\ pc[r] = "toggling" /\ p \in todo[r]
  BY DEF Toggle
<1>2. undisturbed[x] /\ (x = r \/ p \notin Owned[x])
  BY DEF Toggle, DisturbOthers
<1>3. (mode[q] = want[x][q]) <=> q \notin todo[x]
  BY <1>1, <1>2 DEF HalfWay
<1>4. CASE q = p
  <2>1. x = r /\ q \in todo[x]
    BY <1>1, <1>2, <1>4
  <2>2. mode[q] \in BOOLEAN /\ want[x][q] \in BOOLEAN
    BY <1>4 DEF AllModes, Modes
  <2>3. mode'[q] = ~mode[q]
    BY <1>4 DEF Toggle, Flip
  <2>4. q \notin todo'[x]
    BY <1>4, <2>1 DEF Toggle
  <2> QED BY <1>1, <1>3, <2>1, <2>2, <2>3, <2>4
<1>5. CASE q # p
  <2>1. mode'[q] = mode[q]
    BY <1>5, OwnedAssumption DEF Toggle, Flip
  <2>2. q \in todo'[x] <=> q \in todo[x]
    BY <1>5 DEF Toggle
  <2> QED BY <1>1, <1>3, <2>1, <2>2
<1> QED BY <1>4, <1>5

(* A step that starts no handler and toggles nothing keeps what is known. *)
LEMMA OthersStep ==
  ASSUME HalfWay,
         \A x \in Resources : pc'[x] = "toggling" /\ undisturbed'[x] =>
           /\ pc[x] = "toggling" /\ todo'[x] = todo[x] /\ want'[x] = want[x]
           /\ undisturbed[x] /\ \A q \in Owned[x] : mode'[q] = mode[q]
  PROVE  HalfWay'
  BY DEF HalfWay

LEMMA HalfWayStep == TypeOK /\ HalfWay /\ [Next]_vars => HalfWay'
<1> SUFFICES ASSUME TypeOK, HalfWay, [Next]_vars PROVE HalfWay'
  OBVIOUS
<1> USE DEF budget, handler, service
<1>1. CASE StartRun \/ Edit \/ Killed
  BY <1>1, OthersStep DEF StartRun, Edit, Killed, AllIdle
<1>2. CASE DomainHandler \/ DomainCallFails
  BY <1>2, OthersStep
  DEF DomainHandler, ByName, SendSettings, SendDiscovery, ReadDomain, DomainRefused, NotFound,
      DomainCallFails, GiveUp
<1>3. ASSUME NEW r \in Resources, ReadPolicies(r)
      PROVE  HalfWay'
  <2>1. todo'[r] = {p \in Owned[r] : mode[p] # want[r][p]}
    BY <1>3 DEF ReadPolicies, TypeOK, PoliciesTypeOK
  <2>2. \A x \in Resources \ {r} : /\ todo'[x] = todo[x] /\ pc'[x] = pc[x]
                                   /\ undisturbed'[x] = undisturbed[x]
    BY <1>3 DEF ReadPolicies, Goto, TypeOK, PoliciesTypeOK
  <2> QED BY <1>3, <2>1, <2>2 DEF ReadPolicies, HalfWay
<1>4. ASSUME NEW r \in Resources, NEW p \in Policies, Toggle(r, p)
      PROVE  HalfWay'
  BY <1>4, ToggleStep
<1>5. ASSUME NEW r \in Resources, NEW recorded \in BOOLEAN, Return(r, recorded),
             UNCHANGED <<want, mode, undisturbed>>
      PROVE  HalfWay'
  <2>1. pc'[r] = "idle" /\ \A x \in Resources \ {r} : pc'[x] = pc[x] /\ todo'[x] = todo[x]
    BY <1>5 DEF Return, Goto, TypeOK, PoliciesTypeOK
  <2> QED BY <1>5, <2>1, OthersStep
<1>6. ASSUME NEW r \in Resources,
             ReadNothing(r) \/ ReadBack(r) \/ ToggleRefused(r) \/ CallFails(r)
      PROVE  HalfWay'
  <2>1. Lives(known) \in BOOLEAN /\ (r \in created) \in BOOLEAN
    BY DEF Lives
  <2> QED BY <1>5, <1>6, <2>1 DEF ReadNothing, ReadBack, ToggleRefused, CallFails, Failed
<1>7. CASE SetOutside \/ SwitchedOff \/ SwitchedOn
  BY <1>7, OthersStep DEF SetOutside, SwitchedOff, SwitchedOn, DisturbAll
<1>8. ASSUME NEW p \in Policies, ToggledOutside(p)
      PROVE  HalfWay'
  <2>1. \A x \in Resources : undisturbed'[x] =>
          undisturbed[x] /\ \A q \in Owned[x] : mode'[q] = mode[q]
    BY <1>8, OwnedAssumption DEF ToggledOutside, Flip, TypeOK, PoliciesTypeOK
  <2> QED BY <1>8, <2>1, OthersStep DEF ToggledOutside
<1>9. CASE UNCHANGED vars
  BY <1>9, OthersStep DEF vars
<1> QED BY <1>1, <1>2, <1>3, <1>4, <1>6, <1>7, <1>8, <1>9 DEF Next, Handler

(* In the middle of every update nobody disturbs the policies that are not *)
(* as configured are those it has still to toggle, however many resources  *)
(* toggle theirs at the same time, whatever fails and whatever becomes of  *)
(* the domain: so it toggles each of them once and, when it ends, leaves   *)
(* all as configured.                                                      *)
THEOREM NeverToggledTwice == Spec => []HalfWay
<1>1. Init => HalfWay
  BY DEF Init, HalfWay
<1>2. Spec => [](TypeOK /\ HalfWay)
  BY <1>1, InitTypes, TypeStep, HalfWayStep, PTL DEF Spec
<1> QED BY <1>2, PTL
=============================================================================
