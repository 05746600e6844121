---------------------- MODULE KeysAndInterfaces_proofs ----------------------
(***************************************************************************)
(* Theorems about two handlers that bring a list to its new form call by   *)
(* call, for lists of any length and all bounds.                           *)
(*                                                                         *)
(* SftpKeys: type correctness, and, for lists without repetitions, that    *)
(* relinking keeps a key on its way and arrives at the new list; and that  *)
(* a difference no run sees lasts until the list is edited.                *)
(*                                                                         *)
(* NamedInterfaces: type correctness, that an undisturbed update arrives,  *)
(* that no configured interface is detached, and that none that is         *)
(* attached gets another subnet or floating IP.                            *)
(***************************************************************************)
EXTENDS SftpKeys, NamedInterfaces, FiniteSetTheorems, TLAPS

(* Counting a key in a list. *)
LEMMA TimesFacts ==
  ASSUME NEW list \in Seq(Keys), NEW k
  PROVE  /\ Times(list, k) \in Nat
         /\ Times(list, k) = 0 <=> k \notin Elements(list)
         /\ Distinct(list) => Times(list, k) <= 1
<1> DEFINE P == {j \in DOMAIN list : list[j] = k}
<1>1. IsFiniteSet(P)
  <2>1. DOMAIN list = 1..Len(list) /\ Len(list) \in Nat
    OBVIOUS
  <2>2. IsFiniteSet(1..Len(list))
    BY <2>1, FS_Interval
  <2>3. P \subseteq 1..Len(list)
    BY <2>1
  <2> QED BY <2>2, <2>3, FS_Subset
<1>2. Cardinality(P) \in Nat /\ (Cardinality(P) = 0 <=> P = {})
  BY <1>1, FS_CardinalityType, FS_EmptySet
<1>3. P = {} <=> k \notin Elements(list)
  BY DEF Elements
<1>4. ASSUME Distinct(list), P # {}
      PROVE  Cardinality(P) = 1
  <2>1. PICK j \in P : TRUE
    BY <1>4
  <2>2. P = {j}
    BY <1>4, <2>1 DEF Distinct
  <2> QED BY <2>2, FS_Singleton
<1> QED BY <1>2, <1>3, <1>4 DEF Times

(* No key is both to link and to unlink. *)
LEMMA EitherOr ==
  ASSUME NEW old \in Seq(Keys), NEW new \in Seq(Keys)
  PROVE  MoreOften(old, new) \cap MoreOften(new, old) = {}
<1>1. ASSUME NEW k \in Keys, Times(new, k) > Times(old, k), Times(old, k) > Times(new, k)
      PROVE  FALSE
  BY <1>1, TimesFacts
<1> QED BY <1>1 DEF MoreOften

(* What is counted for two lists without repetitions. *)
LEMMA Decision ==
  ASSUME NEW old \in Seq(Keys), NEW new \in Seq(Keys), Distinct(old), Distinct(new)
  PROVE  /\ MoreOften(old, new) = Elements(new) \ Elements(old)
         /\ Elements(new) \subseteq Keys
<1>1. ASSUME NEW k \in Keys
      PROVE  Times(new, k) > Times(old, k) <=> k \in Elements(new) \ Elements(old)
  <2>1. /\ Times(new, k) \in 0..1 /\ Times(old, k) \in 0..1
        /\ Times(new, k) = 0 <=> k \notin Elements(new)
        /\ Times(old, k) = 0 <=> k \notin Elements(old)
    BY TimesFacts
  <2> QED BY <2>1
<1>2. Elements(new) \subseteq Keys
  BY DEF Elements
<1> QED BY <1>1, <1>2 DEF MoreOften

LEMMA ListFacts ==
  ASSUME TypeOK
  PROVE  /\ config \in Seq(Keys) /\ state \in Seq(Keys)
         /\ Len(config) \in Nat /\ DOMAIN config = 1..Len(config)
<1>1. config \in Seq(Keys) /\ state \in Seq(Keys)
  BY ListsAssumption DEF TypeOK
<1> QED BY <1>1

-----------------------------------------------------------------------------
LEMMA InitTypes == Init => TypeOK
<1> SUFFICES ASSUME Init PROVE TypeOK
  OBVIOUS
<1>1. config \in Seq(Keys)
  BY ListsAssumption DEF Init
<1>2. i \in 1..Len(config) + 1
  BY <1>1 DEF Init
<1>3. failures \in 0..MaxFailures /\ edits \in 0..MaxEdits
  BY BoundsAssumption DEF Init
<1> QED BY <1>2, <1>3 DEF Init, TypeOK, Running

(* A handler that returns or is killed leaves nothing to do. *)
LEMMA ReturnTypes ==
  ASSUME TypeOK, Leave, state' \in Lists, tainted' \in BOOLEAN, UNCHANGED config,
         linked' \subseteq Keys, failures' \in 0..MaxFailures, edits' \in 0..MaxEdits
  PROVE  TypeOK'
<1>1. i' \in 1..Len(config)' + 1
  <2>1. Len(config)' = Len(config)
    OBVIOUS
  <2> QED BY <2>1, ListFacts DEF Leave
<1> QED BY <1>1 DEF TypeOK, Leave

(* Every step keeps the types. *)
LEMMA TypeStep == TypeOK /\ [Next]_vars => TypeOK'
<1> SUFFICES ASSUME TypeOK, [Next]_vars PROVE TypeOK'
  OBVIOUS
<1> USE ListFacts DEF work, budget
<1>1. CASE Edit
  <2>1. config' \in Lists /\ config' \in Seq(Keys) /\ i = 1
    BY <1>1, ListsAssumption DEF Edit, TypeOK
  <2>2. i' \in 1..Len(config') + 1
    BY <1>1, <2>1 DEF Edit
  <2>3. edits' \in 0..MaxEdits
    BY <1>1, BoundsAssumption DEF Edit, TypeOK
  <2> QED BY <1>1, <2>1, <2>2, <2>3 DEF Edit, TypeOK
<1>2. CASE Refresh \/ PlanNothing
  BY <1>2 DEF Refresh, PlanNothing, ReadKeys, TypeOK
<1>3. CASE LinkNext
  <2>1. config[i] \in Keys /\ i' \in 1..Len(config) + 1
    BY <1>3 DEF LinkNext, TypeOK
  <2> QED BY <1>3, <2>1 DEF LinkNext, TypeOK
<1>4. CASE CreateEnds \/ RelinkEnds
  BY <1>4, ReturnTypes DEF CreateEnds, RelinkEnds, Return, TypeOK
<1>5. CASE Recreate
  BY <1>5 DEF Recreate, TypeOK, Running
<1>6. CASE Relink
  <2>1. /\ link' \subseteq Keys /\ unlink' \subseteq Keys
        /\ link' \cap unlink' = {}
    BY <1>6, EitherOr DEF Relink, MoreOften
  <2> QED BY <1>6, <2>1 DEF Relink, TypeOK, Running
<1>7. ASSUME NEW k \in Keys, RelinkLinks(k) \/ RelinkUnlinks(k)
      PROVE  TypeOK'
  BY <1>7 DEF RelinkLinks, RelinkUnlinks, TypeOK
<1>8. CASE CallFails \/ StorageKilled
  <2>1. failures' \in 0..MaxFailures
    BY <1>8, BoundsAssumption DEF CallFails, StorageKilled, TypeOK
  <2>2. Leave /\ state' \in Lists /\ tainted' \in BOOLEAN
    BY <1>8 DEF CallFails, StorageKilled, Return, TypeOK
  <2> QED BY <1>8, <2>1, <2>2, ReturnTypes DEF CallFails, StorageKilled, TypeOK
<1>9. CASE UNCHANGED vars
  BY <1>9 DEF vars, TypeOK
<1> QED BY <1>1, <1>2, <1>3, <1>4, <1>5, <1>6, <1>7, <1>8, <1>9 DEF Next

(* Every reachable state is well typed: no handler leaves its list, and no *)
(* key is on both of the lists of an update.                               *)
THEOREM TypeCorrect == Spec => []TypeOK
  BY InitTypes, TypeStep, PTL DEF Spec

-----------------------------------------------------------------------------
(* An update between two lists without repetitions that starts from the    *)
(* keys of the old one: what is linked half way.                           *)
OnItsWay ==
  pc = "relinking" /\ exact /\ Distinct(state) /\ Distinct(config) =>
    /\ link \subseteq Elements(config) /\ unlink \cap Elements(config) = {}
    /\ Elements(config) \subseteq linked \cup link
    /\ linked \subseteq Elements(config) \cup unlink
    /\ link # {} => Elements(state) \subseteq linked

LEMMA OnItsWayStep == TypeOK /\ OnItsWay /\ [Next]_vars => OnItsWay'
<1> SUFFICES ASSUME TypeOK, OnItsWay, [Next]_vars PROVE OnItsWay'
  OBVIOUS
<1> USE DEF work, budget
<1>1. CASE Edit \/ Refresh \/ PlanNothing \/ LinkNext \/ Recreate
  BY <1>1 DEF Edit, Refresh, PlanNothing, LinkNext, Recreate, OnItsWay
<1>2. CASE CreateEnds \/ RelinkEnds \/ CallFails \/ StorageKilled
  BY <1>2 DEF CreateEnds, RelinkEnds, CallFails, StorageKilled, Return, Leave, OnItsWay
<1>3. CASE Relink
  <2> SUFFICES ASSUME exact', Distinct(state), Distinct(config)
               PROVE  OnItsWay'
    BY <1>3 DEF Relink, OnItsWay
  <2>1. /\ link' = Elements(config) \ Elements(state)
        /\ unlink' = Elements(state) \ Elements(config)
    BY <1>3, Decision, ListFacts DEF Relink
  <2>2. linked' = Elements(state) /\ UNCHANGED <<config, state>>
    BY <1>3 DEF Relink
  <2>3. Elements(config)' = Elements(config) /\ Elements(state)' = Elements(state)
    BY <2>2 DEF Elements
  <2> QED BY <2>1, <2>2, <2>3 DEF OnItsWay
<1>4. ASSUME NEW k \in Keys, RelinkLinks(k) \/ RelinkUnlinks(k)
      PROVE  OnItsWay'
  <2>1. /\ UNCHANGED <<config, state, pc, exact>>
        /\ \/ linked' = linked \cup {k} /\ link' = link \ {k} /\ UNCHANGED unlink /\ k \in link
           \/ linked' = linked \ {k} /\ unlink' = unlink \ {k} /\ UNCHANGED link /\ k \in unlink /\ link = {}
    BY <1>4 DEF RelinkLinks, RelinkUnlinks
  <2>2. /\ Elements(config)' = Elements(config) /\ Elements(state)' = Elements(state)
        /\ Distinct(config)' = Distinct(config) /\ Distinct(state)' = Distinct(state)
    BY <2>1 DEF Elements, Distinct
  <2> QED BY <2>1, <2>2 DEF OnItsWay
<1>5. CASE UNCHANGED vars
  BY <1>5 DEF vars, OnItsWay, Elements, Distinct
<1> QED BY <1>1, <1>2, <1>3, <1>4, <1>5 DEF Next

(* The inductive invariant of relinking. *)
THEOREM RelinkInvariant == Spec => [](TypeOK /\ OnItsWay)
<1>1. Init => OnItsWay
  BY DEF Init, OnItsWay
<1> QED BY <1>1, InitTypes, TypeStep, OnItsWayStep, PTL DEF Spec

(* The storage keeps a key throughout such an update, in whatever order    *)
(* the keys of a Go map come and wherever the update is cut off.           *)
THEOREM KeepsAKey == Spec => []NeverLockedOut
<1>1. TypeOK /\ OnItsWay => NeverLockedOut
  <2> SUFFICES ASSUME TypeOK, OnItsWay, pc = "relinking", exact, Distinct(state),
                      Distinct(config), state # <<>>, config # <<>>
               PROVE  linked # {}
    BY DEF NeverLockedOut
  <2>1. \A list \in Seq(Keys) : list # <<>> => list[1] \in Elements(list)
    BY DEF Elements
  <2> QED BY <2>1, ListFacts DEF OnItsWay
<1> QED BY <1>1, RelinkInvariant, PTL

(* When it comes to its end, exactly the keys of the new list are linked. *)
THEOREM RelinkArrives == Spec => UpdateArrives
<1>1. TypeOK /\ OnItsWay /\ [Next]_vars =>
        [RelinkEnds /\ exact /\ Distinct(state) /\ Distinct(config)
           => linked' = Elements(config)]_vars
  BY DEF RelinkEnds, OnItsWay
<1> QED BY <1>1, RelinkInvariant, PTL DEF Spec, UpdateArrives

-----------------------------------------------------------------------------
(* A storage at rest whose keys are not those of its list stays so until   *)
(* the list is edited: Read hides what was not linked or unlinked, and the *)
(* plan compares two lists that agree.                                     *)
THEOREM DriftIsForGood == Spec => DriftStays
<1>1. ASSUME [Next]_vars, Drifted, ~Edit
      PROVE  Drifted'
  <2> USE <1>1 DEF Drifted
  <2>1. CASE Refresh \/ PlanNothing
    BY <2>1 DEF Refresh, PlanNothing, ReadKeys, Elements
  <2>2. CASE LinkNext \/ CreateEnds \/ Recreate \/ Relink \/ RelinkEnds \/ CallFails \/ StorageKilled
    BY <2>2 DEF LinkNext, CreateEnds, Recreate, Relink, RelinkEnds, CallFails, StorageKilled, Running
  <2>3. ASSUME NEW k \in Keys, RelinkLinks(k) \/ RelinkUnlinks(k)
        PROVE  FALSE
    BY <2>3 DEF RelinkLinks, RelinkUnlinks
  <2>4. CASE UNCHANGED vars
    BY <2>4 DEF vars, Elements
  <2> QED BY <2>1, <2>2, <2>3, <2>4 DEF Next
<1>2. [Next]_vars => [Drifted => Drifted' \/ Edit]_vars
  BY <1>1
<1> QED BY <1>2, PTL DEF Spec, DriftStays

-----------------------------------------------------------------------------
(***************************************************************************)
(* The interfaces of an instance.                                          *)
(***************************************************************************)
LEMMA AnyInterfacesFacts ==
  ASSUME NEW f
  PROVE  f \in AnyInterfaces <=> DOMAIN f \subseteq Names /\ f \in [DOMAIN f -> Interface]
BY DEF AnyInterfaces

(* What the configuration, the state and the service consist of.           *)
LEMMA WantedTypes ==
  ASSUME InterfacesTypeOK
  PROVE  /\ {want, have, attached} \subseteq AnyInterfaces
         /\ \A f \in {want, have, attached} : DOMAIN f \subseteq Names
         /\ \A f \in {want, have, attached} : \A n \in DOMAIN f :
              /\ f[n] \in Interface
              /\ f[n].groups \subseteq Groups
         /\ listed \in [DOMAIN listed -> SUBSET Groups] /\ DOMAIN listed \subseteq Names
<1>1. {want, have, attached} \subseteq AnyInterfaces
  BY ConfigurationsAssumption DEF InterfacesTypeOK
<1>2. \A f \in {want, have, attached} : DOMAIN f \subseteq Names /\ f \in [DOMAIN f -> Interface]
  BY <1>1, AnyInterfacesFacts
<1>3. \A f \in {want, have, attached} : \A n \in DOMAIN f : f[n] \in Interface
  BY <1>2
<1>4. \A g \in Interface : g.groups \subseteq Groups
  BY DEF Interface
<1>5. listed \in [DOMAIN listed -> SUBSET Groups] /\ DOMAIN listed \subseteq Names
  BY DEF InterfacesTypeOK
<1> QED BY <1>1, <1>2, <1>3, <1>4, <1>5

(* What the calls leave attached are interfaces.                           *)
LEMMA AttachedTypes ==
  ASSUME InterfacesTypeOK, NEW n \in Names
  PROVE  /\ Without(n) => attached' \in AnyInterfaces
         /\ n \in DOMAIN want /\ With(n) => attached' \in AnyInterfaces
         /\ \A G \in SUBSET Groups : Regroup(n, G) => attached' \in AnyInterfaces
<1>1. /\ DOMAIN attached \subseteq Names /\ \A m \in DOMAIN attached : attached[m] \in Interface
      /\ n \in DOMAIN want => want[n] \in Interface
  BY WantedTypes
<1>2. ASSUME Without(n)
      PROVE  attached' \in AnyInterfaces
  BY <1>1, <1>2, AnyInterfacesFacts DEF Without, Restrict
<1>3. ASSUME n \in DOMAIN want, With(n)
      PROVE  attached' \in AnyInterfaces
  <2>1. [want[n] EXCEPT !.fip = None] \in Interface
    BY <1>1, <1>3 DEF Interface
  <2> QED BY <1>1, <1>3, <2>1, AnyInterfacesFacts DEF With
<1>4. ASSUME NEW G \in SUBSET Groups, Regroup(n, G)
      PROVE  attached' \in AnyInterfaces
  <2>1. \A m \in DOMAIN attached : [attached[m] EXCEPT !.groups = G] \in Interface
    BY <1>1 DEF Interface
  <2> QED BY <1>1, <1>4, <2>1, AnyInterfacesFacts DEF Regroup
<1> QED BY <1>2, <1>3, <1>4

(* A new instance is well typed.                                           *)
LEMMA InterfacesInitTypes == InterfacesInit => InterfacesTypeOK
<1> SUFFICES ASSUME InterfacesInit PROVE InterfacesTypeOK
  OBVIOUS
<1>1. <<>> \in UNION {[S -> SUBSET Groups] : S \in SUBSET Names}
  <2>1. <<>> \in [{} -> SUBSET Groups]
    OBVIOUS
  <2> QED BY <2>1
<1>2. want \in Configurations /\ have \in AnyInterfaces /\ attached \in AnyInterfaces
  BY ConfigurationsAssumption DEF InterfacesInit
<1>3. {faults, outside} \subseteq Nat /\ faults + outside <= MaxMishaps /\ changes \in 0..MaxChanges
  BY MishapsAssumption DEF InterfacesInit
<1> QED BY <1>1, <1>2, <1>3 DEF InterfacesInit, InterfacesTypeOK

(* A handler that returns.                                                 *)
LEMMA ReturnsTypes ==
  ASSUME InterfacesTypeOK, NEW s \in AnyInterfaces, HandlerReturns(s), want' = want, attached' \in AnyInterfaces,
         touched' \in BOOLEAN, changes' = changes,
         {faults', outside'} \subseteq Nat /\ faults' + outside' <= MaxMishaps
  PROVE  InterfacesTypeOK'
<1>1. listed' \in UNION {[S -> SUBSET Groups] : S \in SUBSET Names}
  <2>1. <<>> \in [{} -> SUBSET Groups]
    OBVIOUS
  <2> QED BY <2>1 DEF HandlerReturns
<1> QED BY <1>1 DEF HandlerReturns, InterfacesTypeOK

(* One mishap more.                                                        *)
LEMMA Mishap ==
  ASSUME InterfacesTypeOK, faults + outside < MaxMishaps,
         \/ faults' = faults + 1 /\ outside' = outside
         \/ outside' = outside + 1 /\ faults' = faults
  PROVE  {faults', outside'} \subseteq Nat /\ faults' + outside' <= MaxMishaps
BY MishapsAssumption DEF InterfacesTypeOK

(* A handler that goes on.                                                 *)
LEMMA GoesOnTypes ==
  ASSUME InterfacesTypeOK, UNCHANGED <<want, have>>, attached' \in AnyInterfaces,
         at' \in {"detaching", "attaching", "reading"},
         todo' \subseteq IF at' = "detaching" THEN DOMAIN have \ DOMAIN want
                         ELSE IF at' = "attaching" THEN DOMAIN want ELSE {},
         listed' \in UNION {[S -> SUBSET Groups] : S \in SUBSET Names},
         half' \in IF at' = "attaching" THEN (todo' \cap DOMAIN have) \cup {None} ELSE {None},
         touched' \in BOOLEAN, changes' = changes,
         {faults', outside'} \subseteq Nat /\ faults' + outside' <= MaxMishaps
  PROVE  InterfacesTypeOK'
BY DEF InterfacesTypeOK

(* Every step keeps the types.                                             *)
LEMMA InterfacesTypeStep == InterfacesTypeOK /\ [InterfacesNext]_interfaceVars => InterfacesTypeOK'
<1> SUFFICES ASSUME InterfacesTypeOK, [InterfacesNext]_interfaceVars PROVE InterfacesTypeOK'
  OBVIOUS
<1> USE DEF counters
<1>c. {faults, outside} \subseteq Nat /\ faults + outside <= MaxMishaps
  BY DEF InterfacesTypeOK
<1>n. None \notin Names
  BY NoneAssumption
<1>w. /\ {want, have, attached} \subseteq AnyInterfaces
      /\ DOMAIN want \subseteq Names /\ DOMAIN have \subseteq Names /\ DOMAIN attached \subseteq Names
      /\ \A n \in DOMAIN attached : attached[n].groups \subseteq Groups
      /\ \A n \in DOMAIN want : want[n].groups \subseteq Groups
  BY WantedTypes
<1>l. listed \in UNION {[S -> SUBSET Groups] : S \in SUBSET Names}
  BY DEF InterfacesTypeOK
<1>1. CASE StartRun
  BY <1>1, <1>w DEF StartRun, Seen, InterfacesTypeOK
<1>2. CASE List
  <2>1. listed' \in UNION {[S -> SUBSET Groups] : S \in SUBSET Names}
    <3>1. listed' \in [DOMAIN attached -> SUBSET Groups]
      BY <1>2, <1>w DEF List
    <3> QED BY <3>1, <1>w
  <2>2. todo' \subseteq DOMAIN have \ DOMAIN want
    BY <1>2 DEF List, Goto, Difference
  <2>3. half' = None
    BY <1>2 DEF List, InterfacesTypeOK
  <2> QED BY <1>2, <1>c, <1>w, <2>1, <2>2, <2>3, GoesOnTypes DEF List, Goto, InterfacesTypeOK
<1>3. ASSUME NEW n \in Names, Detach(n)
      PROVE  InterfacesTypeOK'
  <2>1. attached' \in AnyInterfaces
    BY <1>3, AttachedTypes DEF Detach
  <2> QED BY <1>3, <1>c, <1>l, <2>1, GoesOnTypes DEF Detach, Goto, InterfacesTypeOK
<1>4. ASSUME NEW n \in Names, DetachRefused(n)
      PROVE  InterfacesTypeOK'
  BY <1>4, <1>c, <1>w, ReturnsTypes DEF DetachRefused, InterfacesTypeOK
<1>5. CASE AllDetached
  <2>1. todo' \subseteq DOMAIN want /\ half' = None
    BY <1>5 DEF AllDetached, Goto, Difference, InterfacesTypeOK
  <2> QED BY <1>5, <1>c, <1>l, <1>w, <2>1, GoesOnTypes DEF AllDetached, Goto, InterfacesTypeOK
<1>6. ASSUME NEW n \in Names, Attach(n)
      PROVE  InterfacesTypeOK'
  <2>1. n \in DOMAIN want
    BY <1>6 DEF Attach, InterfacesTypeOK
  <2>2. attached' \in AnyInterfaces
    BY <1>6, <2>1, AttachedTypes DEF Attach
  <2> QED BY <1>6, <1>c, <1>l, <2>2, GoesOnTypes DEF Attach, Goto, InterfacesTypeOK
<1>7. ASSUME NEW n \in Names, PortNotFound(n)
      PROVE  InterfacesTypeOK'
  BY <1>7, <1>c, <1>l, <1>w, GoesOnTypes DEF PortNotFound, Goto, InterfacesTypeOK
<1>8. ASSUME NEW n \in Names, Unassign(n)
      PROVE  InterfacesTypeOK'
  <2>1. GroupsOf(n) \ Unwanted(n) \in SUBSET Groups
    BY <1>w DEF GroupsOf
  <2>2. attached' \in AnyInterfaces
    BY <1>8, <1>w, <2>1, AttachedTypes DEF Unassign
  <2>3. {faults', outside'} \subseteq Nat /\ faults' + outside' <= MaxMishaps
    BY <1>8, <1>c, Mishap DEF Unassign
  <2>4. half' \in (todo' \cap DOMAIN have) \cup {None}
    BY <1>8 DEF Unassign, New
  <2> QED BY <1>8, <1>l, <2>2, <2>3, <2>4, GoesOnTypes DEF Unassign, InterfacesTypeOK
<1>9. ASSUME NEW n \in Names, Assign(n)
      PROVE  InterfacesTypeOK'
  <2>1. n \in DOMAIN want
    BY <1>9, <1>n DEF Assign, InterfacesTypeOK
  <2>2. \A G \in SUBSET Wanting(n) : GroupsOf(n) \cup G \in SUBSET Groups
    BY <1>w, <2>1 DEF GroupsOf, Wanting
  <2>3. attached' \in AnyInterfaces
    BY <1>9, <1>w, <2>2, AttachedTypes DEF Assign
  <2>4. {faults', outside'} \subseteq Nat /\ faults' + outside' <= MaxMishaps
    BY <1>9, <1>c, Mishap DEF Assign
  <2> QED BY <1>9, <1>l, <2>3, <2>4, GoesOnTypes DEF Assign, Goto, InterfacesTypeOK
<1>10. CASE AllAttached
  BY <1>10, <1>c, <1>l, <1>w, GoesOnTypes DEF AllAttached, Goto, InterfacesTypeOK
<1>11. CASE ReadBack
  BY <1>11, <1>c, <1>w, ReturnsTypes DEF ReadBack, Seen, InterfacesTypeOK
<1>12. CASE InterfaceCallFails
  <2>1. attached' \in AnyInterfaces
    <3>1. CASE at = "detaching" /\ \E n \in todo : Without(n)
      BY <1>w, <3>1, AttachedTypes DEF InterfacesTypeOK
    <3>2. CASE at = "attaching" /\ \E n \in todo : With(n)
      BY <1>w, <3>2, AttachedTypes DEF InterfacesTypeOK
    <3> QED BY <1>12, <1>w, <3>1, <3>2 DEF InterfaceCallFails
  <2>2. {faults', outside'} \subseteq Nat /\ faults' + outside' <= MaxMishaps
    BY <1>12, Mishap DEF InterfaceCallFails
  <2> QED BY <1>12, <1>w, <2>1, <2>2, ReturnsTypes DEF InterfaceCallFails, InterfacesTypeOK
<1>13. CASE Killed
  <2>1. {faults', outside'} \subseteq Nat /\ faults' + outside' <= MaxMishaps
    BY <1>13, Mishap DEF Killed
  <2> QED BY <1>13, <1>w, <2>1, ReturnsTypes DEF Killed, InterfacesTypeOK
<1>14. CASE Reconfigure
  <2>1. changes' \in 0..MaxChanges /\ want' \in Configurations
    BY <1>14, MishapsAssumption DEF Reconfigure, InterfacesTypeOK
  <2> QED BY <1>14, <2>1 DEF Reconfigure, InterfacesTypeOK
<1>15. ASSUME NEW n \in Names, Outside(n) \/ AttachOutside(n)
      PROVE  InterfacesTypeOK'
  <2>1. {faults', outside'} \subseteq Nat /\ faults' + outside' <= MaxMishaps
    BY <1>15, Mishap DEF Outside, AttachOutside
  <2>2. attached' \in AnyInterfaces
    <3>1. CASE Without(n) \/ \E G \in SUBSET Groups \ {attached[n].groups} : Regroup(n, G)
      BY <3>1, AttachedTypes
    <3>2. ASSUME NEW f \in FloatingIPs \cup {None}, n \in DOMAIN attached,
                 attached' = [attached EXCEPT ![n].fip = f]
          PROVE  attached' \in AnyInterfaces
      <4>1. \A m \in DOMAIN attached : attached[m] \in Interface
        BY WantedTypes
      <4>2. [attached[n] EXCEPT !.fip = f] \in Interface
        BY <3>2, <4>1 DEF Interface
      <4>3. attached \in [DOMAIN attached -> Interface]
        BY <1>w, AnyInterfacesFacts
      <4>4. attached' \in [DOMAIN attached -> Interface]
        BY <3>2, <4>2, <4>3
      <4> QED BY <1>w, <4>4, AnyInterfacesFacts
    <3>3. ASSUME AttachOutside(n)
          PROVE  attached' \in AnyInterfaces
      <4>1. \A m \in DOMAIN attached : attached[m] \in Interface
        BY WantedTypes
      <4> QED BY <1>w, <3>3, <4>1, AnyInterfacesFacts DEF AttachOutside
    <3> QED BY <1>15, <3>1, <3>2, <3>3 DEF Outside
  <2>3. touched' \in BOOLEAN
    BY <1>15 DEF Outside, AttachOutside, InterfacesTypeOK
  <2> QED BY <1>15, <2>1, <2>2, <2>3 DEF Outside, AttachOutside, InterfacesTypeOK
<1>16. CASE UNCHANGED interfaceVars
  BY <1>16 DEF interfaceVars, InterfacesTypeOK
<1> QED
  BY <1>1, <1>2, <1>3, <1>4, <1>5, <1>6, <1>7, <1>8, <1>9, <1>10, <1>11, <1>12, <1>13, <1>14,
     <1>15, <1>16 DEF InterfacesNext, Handler

(* Every reachable state of the interfaces of an instance is well typed:   *)
(* what is detached is no longer configured, what is attached is.          *)
THEOREM InterfacesTypeCorrect == InterfacesSpec => []InterfacesTypeOK
BY InterfacesInitTypes, InterfacesTypeStep, PTL DEF InterfacesSpec

-----------------------------------------------------------------------------
(***************************************************************************)
(* What an update that was read from the service finds there.  Whoever     *)
(* interferes while a handler works, an interface that is new to the state *)
(* is not attached before the handler attaches it; and while nobody does,  *)
(* each interface is as recorded or as configured, by what is to do.       *)
(***************************************************************************)
NewToCome ==
  /\ at \in {"listing", "detaching"} => DOMAIN attached \subseteq DOMAIN have
  /\ at = "attaching" => todo \cap DOMAIN attached \subseteq DOMAIN have

AsRecorded ==
  \A n \in DOMAIN attached : n \in DOMAIN have /\ attached[n] = have[n]
Listed ==
  /\ DOMAIN listed = DOMAIN have
  /\ \A n \in DOMAIN have : listed[n] = have[n].groups

(* The groups of an interface that stays, before, between and after the    *)
(* two calls for it.                                                       *)
Regrouped(n) ==
  attached[n].groups = IF n \notin todo THEN want[n].groups
                       ELSE IF half = n THEN have[n].groups \cap want[n].groups
                       ELSE have[n].groups

InterfaceInHand ==
  ~touched =>
    /\ at \in {"listing", "detaching"} => AsRecorded
    /\ at \in {"detaching", "attaching"} => Listed
    /\ at = "listing" => DOMAIN attached = DOMAIN have
    /\ at = "detaching" => DOMAIN attached = (DOMAIN have \cap DOMAIN want) \cup todo
    /\ at = "attaching" =>
         /\ DOMAIN attached = DOMAIN want \ (todo \ DOMAIN have)
         /\ \A n \in DOMAIN attached :
              IF n \in DOMAIN have THEN Regrouped(n)
              ELSE attached[n].groups = want[n].groups /\ attached[n].subnet = want[n].subnet

NInv == InterfacesTypeOK /\ NewToCome /\ InterfaceInHand /\ InterfacesArrive

(* Create has given the instance what is configured.                       *)
LEMMA InterfacesInitInv == InterfacesInit => NInv
BY InterfacesInitTypes DEF InterfacesInit, NInv, NewToCome, InterfaceInHand, InterfacesArrive

(* Which interfaces the calls leave. *)
LEMMA AttachedDomains ==
  ASSUME NEW n
  PROVE  /\ Without(n) => DOMAIN attached' = DOMAIN attached \ {n}
         /\ With(n) => DOMAIN attached' = DOMAIN attached \cup {n}
         /\ \A G : Regroup(n, G) => DOMAIN attached' = DOMAIN attached
         /\ Without(n) \/ With(n) \/ (\E G : Regroup(n, G)) =>
              \A m \in DOMAIN attached \ {n} : attached'[m] = attached[m]
<1>1. Without(n) => /\ DOMAIN attached' = DOMAIN attached \ {n}
                    /\ \A m \in DOMAIN attached \ {n} : attached'[m] = attached[m]
  BY DEF Without, Restrict
<1>2. With(n) => /\ DOMAIN attached' = DOMAIN attached \cup {n}
                 /\ \A m \in DOMAIN attached \ {n} : attached'[m] = attached[m]
  BY DEF With
<1>3. \A G : Regroup(n, G) => /\ DOMAIN attached' = DOMAIN attached
                              /\ \A m \in DOMAIN attached \ {n} : attached'[m] = attached[m]
  BY DEF Regroup
<1> QED BY <1>1, <1>2, <1>3

(* Only the handler attaches while one works, and each interface once.     *)
LEMMA NewStep == InterfacesTypeOK /\ NewToCome /\ [InterfacesNext]_interfaceVars => NewToCome'
<1> SUFFICES ASSUME InterfacesTypeOK, NewToCome, [InterfacesNext]_interfaceVars PROVE NewToCome'
  OBVIOUS
<1>i. at' \in {"idle", "reading"} => NewToCome'
  BY DEF NewToCome
<1>1. CASE StartRun
  BY <1>1 DEF StartRun, Seen, NewToCome
<1>2. CASE List
  BY <1>2 DEF List, Goto, NewToCome
<1>3. ASSUME NEW n \in Names, Detach(n)
      PROVE  NewToCome'
  BY <1>3, AttachedDomains DEF Detach, Goto, NewToCome
<1>4. CASE AllDetached
  BY <1>4 DEF AllDetached, Goto, NewToCome
<1>5. ASSUME NEW n \in Names, Attach(n)
      PROVE  NewToCome'
  BY <1>5, AttachedDomains DEF Attach, Goto, NewToCome
<1>6. ASSUME NEW n \in Names, PortNotFound(n)
      PROVE  NewToCome'
  BY <1>6 DEF PortNotFound, Goto, NewToCome
<1>7. ASSUME NEW n \in Names, Unassign(n) \/ Assign(n)
      PROVE  NewToCome'
  <2>1. at = "attaching" /\ at' = at /\ have' = have /\ todo' \subseteq todo
    BY <1>7 DEF Unassign, Assign, Goto
  <2>2. DOMAIN attached' = DOMAIN attached
    BY <1>7, AttachedDomains DEF Unassign, Assign
  <2> QED BY <2>1, <2>2 DEF NewToCome
<1>8. ASSUME NEW n \in Names, Outside(n)
      PROVE  NewToCome'
  <2>1. DOMAIN attached' \subseteq DOMAIN attached
    BY <1>8, AttachedDomains DEF Outside
  <2> QED BY <1>8, <2>1 DEF Outside, NewToCome
<1>9. ASSUME \/ AllAttached \/ ReadBack \/ InterfaceCallFails \/ Killed
             \/ \E n \in Names : DetachRefused(n)
      PROVE  NewToCome'
  BY <1>9, <1>i DEF AllAttached, ReadBack, InterfaceCallFails, Killed, DetachRefused, HandlerReturns, Goto
<1>10. CASE Reconfigure \/ \E n \in Names : AttachOutside(n)
  BY <1>10, <1>i DEF Reconfigure, AttachOutside
<1>11. CASE UNCHANGED interfaceVars
  BY <1>11 DEF interfaceVars, NewToCome
<1> QED
  BY <1>1, <1>2, <1>3, <1>4, <1>5, <1>6, <1>7, <1>8, <1>9, <1>10, <1>11 DEF InterfacesNext, Handler

(* Every call brings one interface from what is recorded to what is        *)
(* configured and leaves the others alone.                                 *)
LEMMA InHandStep == NInv /\ [InterfacesNext]_interfaceVars => InterfaceInHand' /\ InterfacesArrive'
<1> SUFFICES ASSUME NInv, [InterfacesNext]_interfaceVars, ~touched'
             PROVE  InterfaceInHand' /\ InterfacesArrive'
  BY DEF InterfaceInHand, InterfacesArrive
<1>t. InterfacesTypeOK /\ NewToCome /\ InterfaceInHand /\ None \notin Names
  BY NoneAssumption DEF NInv
<1>d. DOMAIN want \subseteq Names /\ DOMAIN have \subseteq Names /\ DOMAIN attached \subseteq Names
  BY <1>t, WantedTypes
<1>g. /\ \A n \in DOMAIN have : have[n].groups \subseteq Groups
      /\ \A n \in DOMAIN attached : attached[n] \in Interface
      /\ \A n \in DOMAIN want : want[n] \in Interface
  BY <1>t, WantedTypes
<1>i. at' = "idle" => InterfaceInHand' /\ InterfacesArrive'
  BY DEF InterfaceInHand, InterfacesArrive
<1>1. CASE StartRun
  BY <1>1 DEF StartRun, Seen, InterfaceInHand, InterfacesArrive, AsRecorded
<1>2. CASE List
  <2>1. /\ ~touched /\ AsRecorded /\ DOMAIN attached = DOMAIN have
        /\ UNCHANGED <<want, have, attached>> /\ at' = "detaching" /\ todo' = DOMAIN have \ DOMAIN want
    BY <1>2, <1>t DEF List, Goto, InterfaceInHand, Difference
  <2>2. Listed'
    BY <1>2, <2>1 DEF List, Listed, AsRecorded
  <2> QED BY <2>1, <2>2 DEF InterfaceInHand, InterfacesArrive, AsRecorded
<1>3. ASSUME NEW n \in Names, Detach(n)
      PROVE  InterfaceInHand' /\ InterfacesArrive'
  <2>1. /\ ~touched /\ UNCHANGED <<want, have, listed>> /\ at = "detaching" /\ at' = "detaching"
        /\ todo' = todo \ {n} /\ n \in todo /\ n \notin DOMAIN want
    BY <1>3, <1>t DEF Detach, Goto, InterfacesTypeOK
  <2>2. /\ DOMAIN attached' = DOMAIN attached \ {n}
        /\ \A m \in DOMAIN attached' : attached'[m] = attached[m]
    BY <1>3, AttachedDomains DEF Detach
  <2>3. AsRecorded /\ Listed /\ DOMAIN attached = (DOMAIN have \cap DOMAIN want) \cup todo
    BY <1>t, <2>1 DEF InterfaceInHand
  <2>4. AsRecorded' /\ Listed'
    BY <2>1, <2>2, <2>3 DEF AsRecorded, Listed
  <2> QED BY <2>1, <2>2, <2>3, <2>4 DEF InterfaceInHand, InterfacesArrive
<1>4. CASE AllDetached
  <2>1. /\ ~touched /\ UNCHANGED <<want, have, listed, attached>> /\ at = "detaching" /\ at' = "attaching"
        /\ todo = {} /\ todo' = Difference(want, have) /\ half' = None
    BY <1>4, <1>t DEF AllDetached, Goto, InterfacesTypeOK
  <2>2. AsRecorded /\ Listed /\ DOMAIN attached = DOMAIN have \cap DOMAIN want
    BY <1>t, <2>1 DEF InterfaceInHand
  <2>3. Listed'
    BY <2>1, <2>2 DEF Listed
  <2>4. DOMAIN attached' = DOMAIN want' \ (todo' \ DOMAIN have')
    BY <2>1, <2>2 DEF Difference
  <2>5. ASSUME NEW n \in DOMAIN attached
        PROVE  n \in DOMAIN have /\ Regrouped(n)'
    BY <1>d, <1>t, <2>1, <2>2 DEF AsRecorded, Regrouped, Difference
  <2> QED BY <2>1, <2>3, <2>4, <2>5 DEF InterfaceInHand, InterfacesArrive
<1>a. ASSUME at = "attaching", ~touched
      PROVE  /\ Listed /\ DOMAIN attached = DOMAIN want \ (todo \ DOMAIN have)
             /\ \A n \in DOMAIN attached :
                  IF n \in DOMAIN have THEN Regrouped(n)
                  ELSE attached[n].groups = want[n].groups /\ attached[n].subnet = want[n].subnet
  BY <1>t, <1>a DEF InterfaceInHand
<1>5. ASSUME NEW n \in Names, Attach(n)
      PROVE  InterfaceInHand' /\ InterfacesArrive'
  <2>1. /\ ~touched /\ UNCHANGED <<want, have, listed, half>> /\ at = "attaching" /\ at' = "attaching"
        /\ todo' = todo \ {n} /\ n \in todo /\ n \notin DOMAIN have /\ half = None /\ n \in DOMAIN want
    BY <1>5, <1>t DEF Attach, Goto, New, InterfacesTypeOK
  <2>2. /\ DOMAIN attached' = DOMAIN attached \cup {n}
        /\ \A m \in DOMAIN attached \ {n} : attached'[m] = attached[m]
    BY <1>5, AttachedDomains DEF Attach
  <2>3. attached'[n].groups = want[n].groups /\ attached'[n].subnet = want[n].subnet
    BY <1>5, <1>g, <2>1 DEF Attach, With, Interface
  <2>4. Listed'
    BY <1>a, <2>1 DEF Listed
  <2>5. DOMAIN attached' = DOMAIN want' \ (todo' \ DOMAIN have')
    BY <1>a, <2>1, <2>2
  <2>6. ASSUME NEW m \in DOMAIN attached'
        PROVE  IF m \in DOMAIN have' THEN Regrouped(m)'
               ELSE attached'[m].groups = want'[m].groups /\ attached'[m].subnet = want'[m].subnet
    <3>1. CASE m = n
      BY <2>1, <2>3, <3>1
    <3>2. CASE m # n
      BY <1>a, <2>1, <2>2, <3>2 DEF Regrouped
    <3> QED BY <3>1, <3>2
  <2> QED BY <2>1, <2>4, <2>5, <2>6 DEF InterfaceInHand, InterfacesArrive
<1>6. ASSUME NEW n \in Names, PortNotFound(n)
      PROVE  FALSE
  <2>1. ~touched /\ at = "attaching" /\ n \notin DOMAIN listed /\ n \in DOMAIN have
    BY <1>6 DEF PortNotFound, New
  <2> QED BY <1>a, <2>1 DEF Listed
<1>7. ASSUME NEW n \in Names, Unassign(n)
      PROVE  InterfaceInHand' /\ InterfacesArrive'
  <2>1. /\ ~touched /\ UNCHANGED <<want, have, listed, todo>> /\ at = "attaching" /\ at' = "attaching"
        /\ n \in todo /\ n \in DOMAIN have /\ half = None /\ half' = n
        /\ Regroup(n, GroupsOf(n) \ Unwanted(n))
    BY <1>7 DEF Unassign, New
  <2>2. /\ DOMAIN attached' = DOMAIN attached
        /\ \A m \in DOMAIN attached \ {n} : attached'[m] = attached[m]
    BY <2>1, AttachedDomains
  <2>3. n \in DOMAIN attached /\ Listed
    BY <1>a, <1>t, <2>1 DEF InterfacesTypeOK
  <2>4. attached'[n].groups = have[n].groups \cap want[n].groups
    <3>1. Regrouped(n) /\ attached[n].groups = have[n].groups
      BY <1>a, <1>t, <2>1, <2>3 DEF Regrouped
    <3>2. attached'[n].groups = GroupsOf(n) \ Unwanted(n)
      BY <1>g, <2>1, <2>3 DEF Regroup, Interface
    <3> QED BY <2>1, <2>3, <3>1, <3>2 DEF GroupsOf, Unwanted, Listed
  <2>5. Listed'
    BY <2>1, <2>3 DEF Listed
  <2>6. ASSUME NEW m \in DOMAIN attached'
        PROVE  IF m \in DOMAIN have' THEN Regrouped(m)'
               ELSE attached'[m].groups = want'[m].groups /\ attached'[m].subnet = want'[m].subnet
    <3>1. CASE m = n
      BY <2>1, <2>4, <3>1 DEF Regrouped
    <3>2. CASE m # n
      BY <1>a, <1>d, <1>t, <2>1, <2>2, <3>2 DEF Regrouped
    <3> QED BY <3>1, <3>2
  <2> QED BY <1>a, <2>1, <2>2, <2>5, <2>6 DEF InterfaceInHand, InterfacesArrive
<1>8. ASSUME NEW n \in Names, Assign(n)
      PROVE  InterfaceInHand' /\ InterfacesArrive'
  <2>1. /\ ~touched /\ UNCHANGED <<want, have, listed>> /\ at = "attaching" /\ at' = "attaching"
        /\ half = n /\ half' = None /\ todo' = todo \ {n} /\ n \in todo \cap DOMAIN have
        /\ Regroup(n, GroupsOf(n) \cup Wanting(n))
    BY <1>8, <1>t DEF Assign, Goto, InterfacesTypeOK
  <2>2. /\ DOMAIN attached' = DOMAIN attached
        /\ \A m \in DOMAIN attached \ {n} : attached'[m] = attached[m]
    BY <2>1, AttachedDomains
  <2>3. n \in DOMAIN attached /\ Listed
    BY <1>a, <1>t, <2>1 DEF InterfacesTypeOK
  <2>4. attached'[n].groups = want[n].groups
    <3>1. Regrouped(n) /\ attached[n].groups = have[n].groups \cap want[n].groups
      BY <1>a, <1>t, <2>1, <2>3 DEF Regrouped
    <3>2. attached'[n].groups = GroupsOf(n) \cup Wanting(n)
      BY <1>g, <2>1, <2>3 DEF Regroup, Interface
    <3> QED BY <2>1, <2>3, <3>1, <3>2 DEF GroupsOf, Wanting, Listed
  <2>5. Listed'
    BY <2>1, <2>3 DEF Listed
  <2>6. ASSUME NEW m \in DOMAIN attached'
        PROVE  IF m \in DOMAIN have' THEN Regrouped(m)'
               ELSE attached'[m].groups = want'[m].groups /\ attached'[m].subnet = want'[m].subnet
    <3>1. CASE m = n
      BY <2>1, <2>4, <3>1 DEF Regrouped
    <3>2. CASE m # n
      BY <1>a, <1>d, <1>t, <2>1, <2>2, <3>2 DEF Regrouped
    <3> QED BY <3>1, <3>2
  <2>7. DOMAIN attached' = DOMAIN want' \ (todo' \ DOMAIN have')
    BY <1>a, <2>1, <2>2
  <2> QED BY <2>1, <2>5, <2>6, <2>7 DEF InterfaceInHand, InterfacesArrive
<1>9. CASE AllAttached
  <2>1. /\ ~touched /\ UNCHANGED <<want, have, attached>> /\ at = "attaching" /\ at' = "reading" /\ todo = {}
    BY <1>9 DEF AllAttached, Goto
  <2>2. /\ DOMAIN attached = DOMAIN want
        /\ \A n \in DOMAIN want : attached[n].groups = want[n].groups
        /\ \A n \in DOMAIN want \ DOMAIN have : attached[n].subnet = want[n].subnet
    BY <1>a, <2>1 DEF Regrouped
  <2> QED BY <2>1, <2>2 DEF InterfaceInHand, InterfacesArrive, InPlace
<1>10. ASSUME ReadBack \/ InterfaceCallFails \/ Killed \/ Reconfigure \/ \E n \in Names : DetachRefused(n)
       PROVE  InterfaceInHand' /\ InterfacesArrive'
  BY <1>10, <1>i DEF ReadBack, InterfaceCallFails, Killed, Reconfigure, DetachRefused, HandlerReturns
<1>11. ASSUME NEW n \in Names, Outside(n) \/ AttachOutside(n)
       PROVE  InterfaceInHand' /\ InterfacesArrive'
  BY <1>11, <1>i DEF Outside, AttachOutside
<1>12. CASE UNCHANGED interfaceVars
  BY <1>12 DEF interfaceVars, NInv, InterfaceInHand, InterfacesArrive, AsRecorded, Listed, Regrouped, InPlace
<1> QED
  BY <1>1, <1>2, <1>3, <1>4, <1>5, <1>6, <1>7, <1>8, <1>9, <1>10, <1>11, <1>12 DEF InterfacesNext, Handler

(* The inductive invariant of the update of the interfaces.                *)
THEOREM InterfacesInvariant == InterfacesSpec => []NInv
<1>1. NInv /\ [InterfacesNext]_interfaceVars => NInv'
  BY InterfacesTypeStep, NewStep, InHandStep DEF NInv
<1> QED BY <1>1, InterfacesInitInv, PTL DEF InterfacesSpec

(* An update of any number of interfaces that ends, undisturbed, has       *)
(* attached those that are configured, with their groups.                  *)
THEOREM InterfacesReach == InterfacesSpec => []InterfacesArrive
<1>1. NInv => InterfacesArrive
  BY DEF NInv
<1> QED BY <1>1, InterfacesInvariant, PTL

(* No step of any run, and no failure, detaches an interface that is       *)
(* configured, whatever the state says.                                    *)
THEOREM PortsStay == InterfacesSpec => ConfiguredStaysAttached
<1>1. InterfacesTypeOK /\ [InterfacesNext]_interfaceVars => KeepsPort
  <2> SUFFICES ASSUME InterfacesTypeOK, [InterfacesNext]_interfaceVars, want' = want, outside' = outside,
                      NEW n \in DOMAIN attached \cap DOMAIN want
               PROVE  n \in DOMAIN attached'
    BY DEF KeepsPort
  <2>1. outside \in Nat /\ (at = "detaching" => todo \cap DOMAIN want = {})
    BY DEF InterfacesTypeOK
  <2>2. \A m \in Names : ~Outside(m) /\ ~AttachOutside(m)
    BY <2>1 DEF Outside, AttachOutside
  <2>3. CASE UNCHANGED attached
    BY <2>3
  <2>4. ASSUME NEW m, m # n, Without(m) \/ With(m) \/ \E G : Regroup(m, G)
        PROVE  n \in DOMAIN attached'
    BY <2>4, AttachedDomains
  <2>5. ASSUME With(n) \/ \E G : Regroup(n, G)
        PROVE  n \in DOMAIN attached'
    BY <2>5, AttachedDomains
  <2>6. CASE InterfaceCallFails
    BY <2>1, <2>3, <2>4, <2>5, <2>6 DEF InterfaceCallFails
  <2>7. ASSUME NEW m \in Names, Detach(m)
        PROVE  n \in DOMAIN attached'
    BY <2>1, <2>4, <2>7 DEF Detach
  <2>8. ASSUME NEW m \in Names, Attach(m) \/ Unassign(m) \/ Assign(m)
        PROVE  n \in DOMAIN attached'
    BY <2>3, <2>4, <2>5, <2>8 DEF Attach, Unassign, Assign
  <2> QED
    BY <2>2, <2>3, <2>6, <2>7, <2>8
       DEF InterfacesNext, Handler, interfaceVars, StartRun, List, DetachRefused, AllDetached, PortNotFound,
           AllAttached, ReadBack, Killed, Reconfigure
<1> QED BY <1>1, InterfacesTypeCorrect, PTL DEF ConfiguredStaysAttached, InterfacesSpec

(* No step of any run gives an attached interface another subnet or        *)
(* floating IP: a name that is attached is never attached anew.            *)
THEOREM EditsUnderTheNameStay == InterfacesSpec => EditUnderTheNameIsIgnored
<1>1. InterfacesTypeOK /\ NewToCome /\ [InterfacesNext]_interfaceVars => StaysOff
  <2> SUFFICES ASSUME InterfacesTypeOK, NewToCome, [InterfacesNext]_interfaceVars,
                      want' = want, outside' = outside, NEW n \in Names, Off(n)
               PROVE  Off(n)'
    BY DEF StaysOff
  <2>1. /\ outside \in Nat /\ (at = "detaching" => todo \cap DOMAIN want = {})
        /\ attached[n] \in Interface /\ n \in DOMAIN attached /\ n \in DOMAIN want
    BY WantedTypes DEF Off, InterfacesTypeOK
  <2>2. \A m \in Names : ~Outside(m) /\ ~AttachOutside(m)
    BY <2>1 DEF Outside, AttachOutside
  <2>3. CASE UNCHANGED attached
    BY <2>3 DEF Off
  <2>4. ASSUME NEW m, m # n, Without(m) \/ With(m) \/ \E G : Regroup(m, G)
        PROVE  Off(n)'
    <3>1. n \in DOMAIN attached' /\ attached'[n] = attached[n]
      BY <2>1, <2>4, AttachedDomains
    <3> QED BY <3>1 DEF Off
  <2>5. ASSUME NEW m, NEW G, Regroup(m, G)
        PROVE  Off(n)'
    <3>1. CASE m = n
      <4>1. /\ attached'[n].subnet = attached[n].subnet
            /\ attached'[n].fip = attached[n].fip
            /\ DOMAIN attached' = DOMAIN attached
        BY <2>1, <2>5, <3>1 DEF Regroup, Interface
      <4> QED BY <4>1 DEF Off
    <3>2. CASE m # n
      BY <2>4, <2>5, <3>2
    <3> QED BY <3>1, <3>2
  <2>n. ASSUME at = "attaching", NEW m \in todo, New(m)
        PROVE  m # n
    BY <2>1, <2>n DEF New, NewToCome
  <2>6. CASE InterfaceCallFails
    <3>1. CASE at = "detaching" /\ \E m \in todo : Without(m)
      BY <2>1, <2>4, <3>1
    <3>2. CASE at = "attaching" /\ \E m \in todo : New(m) /\ With(m)
      BY <2>4, <2>n, <3>2
    <3> QED BY <2>3, <2>6, <3>1, <3>2 DEF InterfaceCallFails
  <2>7. ASSUME NEW m \in Names, Detach(m)
        PROVE  Off(n)'
    BY <2>1, <2>4, <2>7 DEF Detach
  <2>8. ASSUME NEW m \in Names, Attach(m)
        PROVE  Off(n)'
    BY <2>4, <2>n, <2>8 DEF Attach
  <2>9. ASSUME NEW m \in Names, Unassign(m) \/ Assign(m)
        PROVE  Off(n)'
    BY <2>3, <2>5, <2>9 DEF Unassign, Assign
  <2> QED
    BY <2>2, <2>3, <2>6, <2>7, <2>8, <2>9
       DEF InterfacesNext, Handler, interfaceVars, StartRun, List, DetachRefused, AllDetached, PortNotFound,
           AllAttached, ReadBack, Killed, Reconfigure
<1>2. NInv => InterfacesTypeOK /\ NewToCome
  BY DEF NInv
<1> QED BY <1>1, <1>2, InterfacesInvariant, PTL DEF EditUnderTheNameIsIgnored, InterfacesSpec
=============================================================================
