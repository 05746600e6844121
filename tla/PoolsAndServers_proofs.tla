----------------------- MODULE PoolsAndServers_proofs -----------------------
(***************************************************************************)
(* Theorems about K8sPools, for every set of names, flavors and sizes,     *)
(* every set of pool lists a user may write, and all bounds; then about    *)
(* Servers, for every set of servers, interfaces, floating IPs and keys.   *)
(*                                                                         *)
(* The inductive invariant of the pools follows an update that started     *)
(* from a true picture of the cluster ("mirrored") loop by loop: which     *)
(* pools of the old list are still there, which of the new list already,   *)
(* and that no pool has a name of neither.  That of the servers follows    *)
(* each server's update phase by phase: what is detached, attached and     *)
(* assigned already, what is to come, and that what the handlers of the    *)
(* other servers do to shared ports and floating IPs takes none of it      *)
(* away, but for what they have "touched".                                 *)
(***************************************************************************)
EXTENDS K8sPools, Servers, FiniteSetTheorems, SequenceTheorems, TLAPS

Listed == Pools \cup {Placeholder}

(* No two entries but placeholders share a name. *)
RealDistinct(list) ==
  \A j, k \in DOMAIN list :
    list[j].name = list[k].name /\ list[j].name # NoName => j = k

StateInv ==
  /\ IsFiniteSet(pools)
  /\ state # <<>> /\ RealDistinct(state)
  /\ pc = "recreating" =>
       /\ \A p \in pools : p.name # config[i].name
       /\ HasName(state, config[i].name) /\ ~OnlyPool

(* Pools of the old list the update has not got to yet. *)
OldRemain(n) ==
  \A j \in DOMAIN state :
    (\A k \in DOMAIN config : k < n => config[k].name # state[j].name)
      => state[j] \in pools

(* Pools of the new list that are as they shall be. *)
NewArrived(n) ==
  \A k \in DOMAIN config :
    k < n \/ ~HasName(state, config[k].name) => config[k] \in pools

NoOthers == \A p \in pools : HasName(state, p.name) \/ HasName(config, p.name)

MirrorInv ==
  mirrored =>
    /\ pc \in Updating
    /\ \A j \in DOMAIN state : state[j] \in Pools
    /\ pc = "adding" =>
         /\ OldRemain(1) /\ NoOthers
         /\ \A k \in DOMAIN config :
              k < i /\ ~HasName(state, config[k].name) => config[k] \in pools
    /\ pc = "changing" => OldRemain(i) /\ NewArrived(i) /\ NoOthers
    /\ pc = "recreating" => OldRemain(i + 1) /\ NewArrived(i) /\ NoOthers
    /\ pc = "removing" =>
         /\ \A k \in DOMAIN config : config[k] \in pools
         /\ \A p \in pools :
              \/ HasName(config, p.name)
              \/ \E j \in DOMAIN state : j >= i /\ state[j].name = p.name
    /\ pc = "reading" =>
         /\ \A k \in DOMAIN config : config[k] \in pools
         /\ \A p \in pools : HasName(config, p.name)

IInv == TypeOK /\ StateInv /\ MirrorInv

-----------------------------------------------------------------------------
(* What the assumption on the user's lists says of the current one. *)
LEMMA ConfigFacts ==
  ASSUME TypeOK
  PROVE  /\ config \in Seq(Pools) /\ Len(config) \in Nat \ {0}
         /\ DOMAIN config = 1..Len(config)
         /\ \A k \in DOMAIN config : config[k] \in Pools /\ config[k].name \in Names
         /\ Distinct(config)
<1>1. config \in Seq(Pools) /\ config # <<>> /\ Distinct(config)
  BY ConfigsAssumption DEF TypeOK
<1>2. Len(config) \in Nat \ {0} /\ DOMAIN config = 1..Len(config)
  BY <1>1
<1>3. \A k \in DOMAIN config : config[k] \in Pools
  BY <1>1
<1>4. \A p \in Pools : p.name \in Names
  BY DEF Pools
<1> QED BY <1>1, <1>2, <1>3, <1>4

(* The same of the list in the state. *)
LEMMA StateFacts ==
  ASSUME TypeOK, state # <<>>
  PROVE  /\ state \in Seq(Listed) /\ Len(state) \in Nat \ {0}
         /\ DOMAIN state = 1..Len(state)
  BY DEF TypeOK, Listed

(* An entry is a pool with a proper name or the placeholder without one. *)
LEMMA ListedNames ==
  ASSUME NEW p \in Listed
  PROVE  /\ p \in Pools => p.name \in Names
         /\ p \notin Pools => p.name = NoName
  BY DEF Listed, Pools, Placeholder

-----------------------------------------------------------------------------
(* The closing part of a read: the pools not in the list, in some order. *)
LEMMA OrdersFacts ==
  ASSUME NEW S, S \subseteq Pools, IsFiniteSet(S), NEW s \in Orders(S)
  PROVE  /\ s \in Seq(Pools)
         /\ \A j \in DOMAIN s : s[j] \in S
         /\ \A j, k \in DOMAIN s : s[j] = s[k] => j = k
<1>1. Cardinality(S) \in Nat
  BY FS_CardinalityType
<1> QED BY <1>1 DEF Orders

(* The first part: as long as the list, each entry by its old name or none. *)
LEMMA KnownFacts ==
  ASSUME NEW list \in Seq(Listed), pools \subseteq Pools
  PROVE  /\ Known(list) \in Seq(Listed)
         /\ Len(Known(list)) = Len(list)
         /\ \A j \in 1..Len(list) : \/ Known(list)[j] = Placeholder
                                    \/ /\ Known(list)[j] \in Pools
                                       /\ Known(list)[j].name = list[j].name
<1>1. \A j \in 1..Len(list) : \/ Known(list)[j] = Placeholder
                              \/ /\ Known(list)[j] \in pools
                                 /\ Known(list)[j].name = list[j].name
  BY DEF Known
<1>2. DOMAIN Known(list) = 1..Len(list)
  BY DEF Known
<1>3. \A j \in 1..Len(list) : Known(list)[j] \in Listed
  BY <1>1 DEF Listed
<1>4. Known(list) \in [1..Len(list) -> Listed]
  BY <1>2, <1>3 DEF Known
<1> QED BY <1>1, <1>2, <1>4

(* A read of a list whose names are distinct returns such a list. *)
LEMMA ReadFacts ==
  ASSUME TypeOK, IsFiniteSet(pools),
         NEW list \in Seq(Listed), list # <<>>, RealDistinct(list),
         NEW new \in ReadPools(list)
  PROVE  new \in Seq(Listed) /\ new # <<>> /\ RealDistinct(new)
<1> DEFINE S == {p \in pools : ~HasName(list, p.name)}
           K == Known(list)
<1>1. PICK rest \in Orders(S) : new = K \o rest
  BY DEF ReadPools
<1>2. S \subseteq Pools /\ IsFiniteSet(S)
  BY FS_Subset DEF TypeOK
<1>3. /\ rest \in Seq(Pools)
      /\ \A j \in DOMAIN rest : rest[j] \in S
      /\ \A j, k \in DOMAIN rest : rest[j] = rest[k] => j = k
  <2> HIDE DEF S
  <2> QED BY <1>1, <1>2, OrdersFacts
<1>4. /\ K \in Seq(Listed) /\ Len(K) = Len(list)
      /\ \A j \in 1..Len(list) : \/ K[j] = Placeholder
                                 \/ K[j] \in Pools /\ K[j].name = list[j].name
  BY KnownFacts DEF TypeOK
<1> HIDE DEF K
<1>5. rest \in Seq(Listed)
  BY <1>3 DEF Listed
<1>6. /\ new \in Seq(Listed) /\ Len(new) = Len(K) + Len(rest)
      /\ \A j \in 1..Len(K) : new[j] = K[j]
      /\ \A j \in 1..Len(new) : j > Len(K) =>
            j - Len(K) \in 1..Len(rest) /\ new[j] = rest[j - Len(K)]
  <2>1. Len(K) \in Nat /\ Len(rest) \in Nat /\ DOMAIN rest = 1..Len(rest)
    BY <1>4, <1>5
  <2>2. /\ new \in Seq(Listed) /\ Len(new) = Len(K) + Len(rest)
        /\ \A j \in 1..Len(K) + Len(rest) :
              new[j] = IF j <= Len(K) THEN K[j] ELSE rest[j - Len(K)]
    <3> HIDE <1>2
    <3> QED BY <1>1, <1>4, <1>5, ConcatProperties, Zenon
  <2> QED BY <2>1, <2>2
<1>7. Len(list) > 0
  OBVIOUS
<1>8. new # <<>>
  BY <1>4, <1>6, <1>7
<1>9. ASSUME NEW j \in 1..Len(new), NEW k \in 1..Len(new),
             new[j].name = new[k].name, new[j].name # NoName, j <= k
      PROVE  j = k
  <2>1. CASE k <= Len(K)
    <3>1. j \in 1..Len(list) /\ k \in 1..Len(list)
      BY <1>4, <1>9, <2>1
    <3>2. list[j].name = new[j].name /\ list[k].name = new[k].name
      BY <1>4, <1>6, <1>9, <3>1 DEF Placeholder
    <3> QED BY <1>9, <3>1, <3>2 DEF RealDistinct
  <2>2. CASE j <= Len(K) /\ k > Len(K)
    <3>1. j \in 1..Len(list)
      BY <1>4, <1>9, <2>2
    <3>2. list[j].name = new[j].name
      BY <1>4, <1>6, <1>9, <3>1 DEF Placeholder
    <3>3. new[k] \in S
      BY <1>3, <1>6, <2>2
    <3> QED BY <1>9, <3>1, <3>2, <3>3 DEF HasName
  <2>3. CASE j > Len(K)
    <3>1. k > Len(K) BY <1>4, <1>6, <1>9, <2>3
    <3>2. /\ j - Len(K) \in DOMAIN rest /\ k - Len(K) \in DOMAIN rest
          /\ new[j] = rest[j - Len(K)] /\ new[k] = rest[k - Len(K)]
      BY <1>3, <1>6, <2>3, <3>1
    <3>3. new[j] \in pools /\ new[k] \in pools
      BY <1>3, <3>2
    <3>4. rest[j - Len(K)] = rest[k - Len(K)]
      BY <1>9, <3>2, <3>3 DEF TypeOK
    <3>5. j - Len(K) = k - Len(K)
      BY <1>3, <3>2, <3>4
    <3> QED BY <1>4, <3>5
  <2> QED BY <1>4, <2>1, <2>2, <2>3
<1>10. RealDistinct(new)
  <2> SUFFICES ASSUME NEW j \in DOMAIN new, NEW k \in DOMAIN new,
                      new[j].name = new[k].name, new[j].name # NoName
               PROVE  j = k
    BY DEF RealDistinct
  <2>1. j \in 1..Len(new) /\ k \in 1..Len(new)
    BY <1>6
  <2>2. CASE j <= k BY <1>9, <2>1, <2>2
  <2>3. CASE k <= j
    <3> DEFINE a == k b == j
    <3>1. a = b BY <1>9, <2>1, <2>3
    <3> QED BY <3>1
  <2> QED BY <2>1, <2>2, <2>3
<1> QED BY <1>6, <1>8, <1>10

-----------------------------------------------------------------------------
(* A loop goes to its next index or, from its last, to the next loop. *)
LEMMA NextFacts ==
  ASSUME NEW list, Len(list) \in Nat \ {0}, i \in 1..Len(list), NEW after,
         NextOf(list, after)
  PROVE  \/ pc' = pc /\ i' = i + 1 /\ i' \in 1..Len(list)
         \/ pc' = after /\ i' = 1 /\ i = Len(list)
  BY DEF NextOf

(* The planned list, recorded by a failing update, is well formed. *)
LEMMA FailFacts ==
  ASSUME TypeOK, Fail
  PROVE  state' \in Seq(Listed) /\ state' # <<>> /\ RealDistinct(state')
<1>1. config \in Seq(Pools) /\ config # <<>> /\ Distinct(config)
  BY ConfigsAssumption DEF TypeOK
<1>2. Seq(Pools) \subseteq Seq(Listed)
  BY DEF Listed
<1> QED BY <1>1, <1>2 DEF Fail, Distinct, RealDistinct

(* A failing update, for whatever reason, leaves a good state. *)
LEMMA FailStep ==
  ASSUME IInv, Fail, UNCHANGED <<config, pools>>, failures' \in 0..MaxFailures,
         UNCHANGED <<removals, edits>>
  PROVE  IInv'
<1>1. TypeOK'
  BY FailFacts DEF IInv, TypeOK, Fail, Updating, Listed
<1>2. StateInv'
  BY FailFacts DEF IInv, StateInv, Fail
<1>3. MirrorInv'
  BY DEF MirrorInv, Fail
<1> QED BY <1>1, <1>2, <1>3 DEF IInv

(* The steps outside the update. *)
LEMMA EditStep ==
  ASSUME IInv, Edit
  PROVE  IInv'
<1>1. TypeOK'
  <2>1. edits' \in 0..MaxEdits
    BY BoundsAssumption DEF IInv, TypeOK, Edit
  <2> QED BY <2>1 DEF IInv, TypeOK, Edit, Updating
<1>2. StateInv' /\ MirrorInv'
  BY DEF IInv, StateInv, MirrorInv, Edit, Updating
<1> QED BY <1>1, <1>2 DEF IInv

(* A refresh writes a list of the right form and changes nothing else. *)
LEMMA ReadStep ==
  ASSUME IInv, Refresh \/ ReadBack
  PROVE  IInv'
<1>1. state' \in Seq(Listed) /\ state' # <<>> /\ RealDistinct(state')
  <2>1. CASE Refresh
    BY <2>1, ReadFacts, StateFacts DEF IInv, StateInv, Refresh
  <2>2. CASE ReadBack
    <3>1. config \in Seq(Listed) /\ config # <<>> /\ RealDistinct(config)
      BY ConfigsAssumption DEF IInv, TypeOK, Listed, Distinct, RealDistinct
    <3> QED BY <2>2, <3>1, ReadFacts DEF IInv, StateInv, ReadBack
  <2> QED BY <2>1, <2>2
<1>2. TypeOK'
  <2>1. state' \in Seq(Pools \cup {Placeholder})
    BY <1>1 DEF Listed
  <2>2. CASE Refresh
    BY <2>1, <2>2 DEF IInv, TypeOK, Refresh, Updating, budget
  <2>3. CASE ReadBack
    BY <2>1, <2>3 DEF IInv, TypeOK, ReadBack, Updating, budget
  <2> QED BY <2>2, <2>3
<1>3. StateInv'
  BY <1>1 DEF IInv, StateInv, Refresh, ReadBack
<1>4. ~mirrored'
  BY DEF IInv, MirrorInv, Updating, Refresh, ReadBack
<1>5. MirrorInv'
  BY <1>4 DEF MirrorInv
<1> QED BY <1>2, <1>3, <1>5 DEF IInv

(* Planning hands the prior and the new list to a fresh update. *)
LEMMA PlanStep ==
  ASSUME IInv, PlanNothing \/ PlanUpdate
  PROVE  IInv'
<1>1. Len(config) \in Nat \ {0}
  BY ConfigFacts DEF IInv
<1>2. TypeOK'
  <2>1. CASE PlanNothing
    BY <2>1 DEF IInv, TypeOK, PlanNothing, Updating, budget
  <2>2. CASE PlanUpdate
    <3>1. Mirrors(state) \in BOOLEAN
      BY DEF Mirrors
    <3>2. 1 \in 1..Len(config)
      BY <1>1
    <3> QED BY <2>2, <3>1, <3>2 DEF IInv, TypeOK, PlanUpdate, Updating, budget
  <2> QED BY <2>1, <2>2
<1>3. StateInv'
  BY DEF IInv, StateInv, PlanNothing, PlanUpdate
<1>4. MirrorInv'
  <2>1. CASE PlanNothing
    BY <2>1 DEF IInv, MirrorInv, PlanNothing, Updating
  <2>2. CASE PlanUpdate
    <3> SUFFICES ASSUME Mirrors(state)
                 PROVE  MirrorInv'
      BY <2>2 DEF MirrorInv, PlanUpdate
    <3>1. pc' = "adding" /\ i' = 1 /\ UNCHANGED <<config, state, pools>>
      BY <2>2 DEF PlanUpdate
    <3>2. \A j \in DOMAIN state : state[j] \in Pools
      BY DEF IInv, TypeOK, Mirrors
    <3>3. OldRemain(1)' /\ NoOthers'
      BY <3>1 DEF OldRemain, NoOthers, Mirrors
    <3>4. \A k \in DOMAIN config : ~(k < 1)
      BY ConfigFacts DEF IInv
    <3> QED BY <3>1, <3>2, <3>3, <3>4 DEF MirrorInv, Updating
  <2> QED BY <2>1, <2>2
<1> QED BY <1>2, <1>3, <1>4 DEF IInv

(* Failing steps, and what happens to the cluster and the process. *)
LEMMA FailingSteps ==
  ASSUME IInv, CallFails \/ RefuseReplace
  PROVE  IInv'
<1>1. failures' \in 0..MaxFailures
  BY BoundsAssumption DEF IInv, TypeOK, CallFails, RefuseReplace, budget
<1> QED BY <1>1, FailStep DEF CallFails, RefuseReplace, budget

(* A killed process leaves the prior list, and the update is over. *)
LEMMA CrashStep ==
  ASSUME IInv, Crash
  PROVE  IInv'
<1>1. failures' \in 0..MaxFailures
  BY BoundsAssumption DEF IInv, TypeOK, Crash
<1>2. TypeOK'
  BY <1>1 DEF IInv, TypeOK, Crash, Updating
<1> QED BY <1>2 DEF IInv, StateInv, MirrorInv, Crash

(* A pool removed by another user is one pool less, whatever the handler does. *)
LEMMA RemovedStep ==
  ASSUME IInv, NEW p \in pools, RemovedOutside(p)
  PROVE  IInv'
<1>1. removals' \in 0..MaxRemovals
  BY BoundsAssumption DEF IInv, TypeOK, RemovedOutside
<1>2. TypeOK'
  BY <1>1 DEF IInv, TypeOK, RemovedOutside
<1>3. IsFiniteSet(pools')
  BY FS_RemoveElement DEF IInv, StateInv, RemovedOutside
<1>4. StateInv'
  BY <1>3 DEF IInv, StateInv, RemovedOutside, OnlyPool
<1> QED BY <1>2, <1>4 DEF IInv, MirrorInv, RemovedOutside

-----------------------------------------------------------------------------
(* The loops.  An update that starts from a true picture knows its pools   *)
(* by their names.                                                         *)
LEMMA MirrorNames ==
  ASSUME IInv, mirrored
  PROVE  \A j, k \in DOMAIN state : state[j].name = state[k].name => j = k
<1>1. \A j \in DOMAIN state : state[j].name # NoName
  BY NoNameAssumption DEF IInv, MirrorInv, Pools
<1> QED BY <1>1 DEF IInv, StateInv, RealDistinct

(* What a step must show when it leaves the lists alone. *)
LEMMA QuietStep ==
  ASSUME IInv, Quiet, pools' \subseteq Pools, IsFiniteSet(pools'),
         \A p, q \in pools' : p.name = q.name => p = q,
         pc' \in {"idle", "planning"} \cup Updating, i' \in Nat,
         pc' \in {"adding", "changing", "recreating"} => i' \in 1..Len(config),
         pc' = "removing" => i' \in 1..Len(state),
         pc' # "recreating"
  PROVE  TypeOK' /\ StateInv'
<1>1. TypeOK'
  BY DEF IInv, TypeOK, Quiet, budget
<1>2. StateInv'
  BY DEF IInv, StateInv, Quiet
<1> QED BY <1>1, <1>2

(* First loop: after it every new name has its pool. *)
LEMMA AddStep ==
  ASSUME IInv, Add
  PROVE  IInv'
<1>1. CASE Fail /\ UNCHANGED <<config, pools, budget>>
  BY <1>1, FailStep DEF IInv, TypeOK, budget
<1>2. CASE NextOf(config, "changing") /\ Quiet
  <2> DEFINE p == config[i]
  <2>1. /\ pc = "adding" /\ i \in 1..Len(config) /\ Len(config) \in Nat \ {0}
        /\ DOMAIN config = 1..Len(config) /\ p \in Pools
    BY ConfigFacts DEF Add, IInv, TypeOK
  <2>2. \/ pc' = "adding" /\ i' = i + 1 /\ i' \in 1..Len(config)
        \/ pc' = "changing" /\ i' = 1 /\ i = Len(config)
    BY <1>2, <2>1, NextFacts
  <2>3. \/ HasName(state, p.name) /\ pools' = pools
        \/ /\ ~HasName(state, p.name) /\ \A q \in pools : q.name # p.name
           /\ pools' = pools \cup {p}
    BY <1>2 DEF Add, Fail, NextOf
  <2>4. /\ pools' \subseteq Pools /\ IsFiniteSet(pools')
        /\ \A q, r \in pools' : q.name = r.name => q = r
    BY <2>1, <2>3, FS_AddElement DEF IInv, TypeOK, StateInv
  <2>5. TypeOK' /\ StateInv'
    <3>1. /\ pc' \in {"adding", "changing"} /\ i' \in 1..Len(config)
      <4>1. 1 \in 1..Len(config)
        BY <2>1
      <4>2. CASE pc' = "adding" /\ i' \in 1..Len(config)
        BY <4>2
      <4>3. CASE pc' = "changing" /\ i' = 1
        BY <4>1, <4>3
      <4> HIDE DEF p
      <4> QED BY <2>2, <4>2, <4>3
    <3>2. i' \in Nat
      BY <2>1, <3>1
    <3> QED BY <1>2, <2>4, <3>1, <3>2, QuietStep DEF Updating
  <2>6. MirrorInv'
    <3> SUFFICES ASSUME mirrored
                 PROVE  MirrorInv'
      BY <1>2 DEF Quiet, MirrorInv
    <3>1. UNCHANGED <<config, state>>
      BY <1>2 DEF Quiet
    <3>2. /\ \A j \in DOMAIN state : state[j] \in Pools
          /\ OldRemain(1) /\ NoOthers
          /\ \A k \in DOMAIN config :
               k < i /\ ~HasName(state, config[k].name) => config[k] \in pools
      BY <2>1 DEF IInv, MirrorInv
    <3>3. pools \subseteq pools' /\ (~HasName(state, p.name) => p \in pools')
      BY <2>3
    <3>4. OldRemain(1)'
      BY <3>1, <3>2, <3>3 DEF OldRemain
    <3>5. NoOthers'
      <4>1. HasName(config, p.name)
        BY <2>1 DEF HasName
      <4> QED BY <2>3, <3>1, <3>2, <4>1 DEF NoOthers, HasName
    <3>6. \A k \in DOMAIN config :
            k <= i /\ ~HasName(state, config[k].name) => config[k] \in pools'
      BY <2>1, <3>2, <3>3
    <3>7. CASE pc' = "adding" /\ i' = i + 1
      <4>1. \A k \in DOMAIN config : k < i + 1 => k <= i
        BY <2>1
      <4> QED BY <3>1, <3>2, <3>4, <3>5, <3>6, <3>7, <4>1 DEF MirrorInv, Updating, HasName
    <3>8. CASE pc' = "changing" /\ i' = 1 /\ i = Len(config)
      <4>1. NewArrived(1)'
        BY <2>1, <3>1, <3>6, <3>8 DEF NewArrived, HasName
      <4> QED BY <3>1, <3>2, <3>4, <3>5, <3>8, <4>1 DEF MirrorInv, Updating, OldRemain, NewArrived
    <3> QED BY <2>2, <3>7, <3>8
  <2> QED BY <2>5, <2>6 DEF IInv
<1> QED BY <1>1, <1>2 DEF Add

(* Second loop, where a pool is kept or brought to its new form. *)
LEMMA ChangeStep ==
  ASSUME IInv, pc = "changing", ~NeedsReplace(state, config[i]),
         NextOf(config, "removing"), Quiet,
         \/ ~NeedsUpdate(state, config[i]) /\ pools' = pools
         \/ /\ NeedsUpdate(state, config[i])
            /\ \E q \in pools :
                 /\ q.name = config[i].name
                 /\ pools' = (pools \ {q}) \cup {[q EXCEPT !.nodes = config[i].nodes]}
  PROVE  IInv'
<1> DEFINE p == config[i]
<1>1. /\ i \in 1..Len(config) /\ Len(config) \in Nat \ {0}
      /\ DOMAIN config = 1..Len(config) /\ p \in Pools /\ Distinct(config)
      /\ \A k \in DOMAIN config : config[k] \in Pools
  BY ConfigFacts DEF IInv, TypeOK
<1>2. Len(state) \in Nat \ {0} /\ DOMAIN state = 1..Len(state)
  BY StateFacts DEF IInv, StateInv
<1>3. \/ pc' = "changing" /\ i' = i + 1 /\ i' \in 1..Len(config)
      \/ pc' = "removing" /\ i' = 1 /\ i = Len(config)
  BY <1>1, NextFacts
<1>4. UNCHANGED <<config, state, mirrored>>
  BY DEF Quiet
<1>5. /\ pools' \subseteq Pools /\ IsFiniteSet(pools')
      /\ \A q, r \in pools' : q.name = r.name => q = r
  <2>1. CASE pools' = pools
    BY <2>1 DEF IInv, TypeOK, StateInv
  <2>2. CASE pools' # pools
    <3>1. PICK q \in pools :
            /\ q.name = p.name
            /\ pools' = (pools \ {q}) \cup {[q EXCEPT !.nodes = p.nodes]}
      BY <2>2
    <3>2. [q EXCEPT !.nodes = p.nodes] \in Pools /\ [q EXCEPT !.nodes = p.nodes].name = q.name
      BY <1>1 DEF IInv, TypeOK, Pools
    <3>3. IsFiniteSet(pools')
      BY <3>1, FS_RemoveElement, FS_AddElement DEF IInv, StateInv
    <3>4. pools \subseteq Pools /\ \A r, t \in pools : r.name = t.name => r = t
      BY DEF IInv, TypeOK
    <3> DEFINE new == [q EXCEPT !.nodes = p.nodes]
    <3> HIDE DEF p, new
    <3>5. new \in Pools /\ new.name = q.name /\ pools' = (pools \ {q}) \cup {new}
      BY <3>1, <3>2 DEF new
    <3>6. pools' \subseteq Pools
      BY <3>4, <3>5
    <3>7. ASSUME NEW r \in pools', NEW t \in pools', r.name = t.name
          PROVE  r = t
      <4>1. \A x \in pools : x.name = q.name => x = q
        BY <3>1, <3>4
      <4>2. CASE r \in pools /\ t \in pools
        BY <3>4, <3>7, <4>2
      <4>3. CASE r = new \/ t = new
        BY <3>5, <3>7, <4>1, <4>3
      <4> QED BY <3>5, <4>2, <4>3
    <3> QED BY <3>3, <3>6, <3>7
  <2> QED BY <2>1, <2>2
<1>6. TypeOK' /\ StateInv'
  <2>1. /\ pc' \in {"changing", "removing"} /\ i' \in Nat
        /\ pc' = "changing" => i' \in 1..Len(config)
        /\ pc' = "removing" => i' \in 1..Len(state)
    BY <1>1, <1>2, <1>3
  <2> QED BY <1>5, <2>1, QuietStep DEF Updating
<1>7. ASSUME mirrored
      PROVE  MirrorInv'
  <2>1. /\ \A j \in DOMAIN state : state[j] \in Pools
        /\ OldRemain(i) /\ NewArrived(i) /\ NoOthers
    BY <1>7 DEF IInv, MirrorInv
  <2>2. \A k \in DOMAIN config : config[k].name = p.name => k = i
    BY <1>1 DEF Distinct
  <2>3. \A q \in pools \cup pools' : q.name # p.name => (q \in pools <=> q \in pools')
    <3>1. \A q \in pools : [q EXCEPT !.nodes = p.nodes].name = q.name
      BY DEF IInv, TypeOK, Pools
    <3> QED BY <3>1
  <2>4. p \in pools'
    <3>1. CASE ~HasName(state, p.name)
      <4>1. p \in pools
        BY <1>1, <2>1, <3>1 DEF NewArrived
      <4>2. ~NeedsUpdate(state, p)
        BY <3>1 DEF NeedsUpdate, HasName
      <4> QED BY <4>1, <4>2
    <3>2. CASE HasName(state, p.name)
      <4>1. PICK j \in DOMAIN state : state[j].name = p.name
        BY <3>2 DEF HasName
      <4>2. state[j] \in pools /\ state[j] \in Pools
        BY <1>1, <2>1, <2>2, <4>1 DEF OldRemain
      <4>3. state[j].flavor = p.flavor
        BY <4>1 DEF NeedsReplace
      <4>4. \A r, t \in Pools :
              r.name = t.name /\ r.flavor = t.flavor /\ r.nodes = t.nodes => r = t
        BY DEF Pools
      <4>5. CASE ~NeedsUpdate(state, p)
        <5>1. state[j].nodes = p.nodes
          BY <4>1, <4>5 DEF NeedsUpdate
        <5>2. state[j] = p
          BY <1>1, <4>1, <4>2, <4>3, <4>4, <5>1
        <5> QED BY <4>2, <4>5, <5>2
      <4>6. CASE NeedsUpdate(state, p)
        <5>1. PICK q \in pools :
                /\ q.name = p.name
                /\ pools' = (pools \ {q}) \cup {[q EXCEPT !.nodes = p.nodes]}
          BY <4>6
        <5>2. q = state[j]
          BY <4>1, <4>2, <5>1 DEF IInv, TypeOK
        <5>3. [q EXCEPT !.nodes = p.nodes] = p
          BY <1>1, <4>1, <4>2, <4>3, <5>2 DEF Pools
        <5> QED BY <5>1, <5>3
      <4> QED BY <4>5, <4>6
    <3> QED BY <3>1, <3>2
  <2>5. /\ \A q \in pools' : HasName(state, q.name) \/ HasName(config, q.name)
        /\ HasName(config, p.name)
    <3>1. HasName(config, p.name)
      BY <1>1 DEF HasName
    <3> QED BY <2>1, <2>3, <3>1 DEF NoOthers
  <2>6. \A k \in DOMAIN config :
          k <= i \/ ~HasName(state, config[k].name) => config[k] \in pools'
    <3> SUFFICES ASSUME NEW k \in DOMAIN config,
                        k <= i \/ ~HasName(state, config[k].name)
                 PROVE  config[k] \in pools'
      OBVIOUS
    <3>1. CASE k = i BY <2>4, <3>1
    <3>2. CASE k # i
      <4>1. config[k] \in pools
        BY <1>1, <2>1, <3>2 DEF NewArrived
      <4> QED BY <2>2, <2>3, <3>2, <4>1
    <3> QED BY <3>1, <3>2
  <2>7. CASE pc' = "changing" /\ i' = i + 1
    <3>1. OldRemain(i)'
      <4> SUFFICES ASSUME NEW j \in DOMAIN state,
                          \A k \in DOMAIN config : k < i + 1 => config[k].name # state[j].name
                   PROVE  state[j] \in pools'
        BY <1>4, <2>7 DEF OldRemain
      <4>1. state[j] \in pools /\ state[j].name # p.name
        BY <1>1, <2>1 DEF OldRemain
      <4> QED BY <2>3, <4>1
    <3>2. NewArrived(i)'
      <4>1. \A k \in DOMAIN config : k < i + 1 <=> k <= i
        BY <1>1
      <4> QED BY <1>4, <2>6, <2>7, <4>1 DEF NewArrived, HasName
    <3> QED
      BY <1>4, <2>1, <2>5, <2>7, <3>1, <3>2
         DEF MirrorInv, NoOthers, HasName, Updating, OldRemain, NewArrived
  <2>8. CASE pc' = "removing" /\ i' = 1 /\ i = Len(config)
    <3>1. \A k \in DOMAIN config : config[k] \in pools'
      BY <1>1, <2>6, <2>8
    <3>2. \A j \in DOMAIN state : j >= 1
      BY <1>2
    <3> QED BY <1>4, <2>1, <2>5, <2>8, <3>1, <3>2 DEF MirrorInv, HasName, Updating
  <2> QED BY <1>3, <2>7, <2>8
<1>8. MirrorInv'
  BY <1>4, <1>7 DEF MirrorInv
<1> QED BY <1>6, <1>8 DEF IInv

(* A pool that already has its new form is passed over. *)
LEMMA KeepStep ==
  ASSUME IInv, Keep
  PROVE  IInv'
  BY ChangeStep DEF Keep

(* A pool resized in place keeps its name and its immutable half. *)
LEMMA UpdateInPlaceStep ==
  ASSUME IInv, UpdateInPlace
  PROVE  IInv'
<1>1. CASE Fail /\ UNCHANGED <<config, pools, budget>>
  BY <1>1, FailStep DEF IInv, TypeOK, budget
<1>2. CASE \E q \in pools :
             /\ q.name = config[i].name
             /\ pools' = (pools \ {q}) \cup {[q EXCEPT !.nodes = config[i].nodes]}
             /\ NextOf(config, "removing") /\ Quiet
  BY <1>2, ChangeStep DEF UpdateInPlace
<1> QED BY <1>1, <1>2 DEF UpdateInPlace

(* Second loop, the two halves of a replacement. *)
LEMMA DeleteReplacedStep ==
  ASSUME IInv, DeleteReplaced
  PROVE  IInv'
<1> DEFINE p == config[i]
<1>1. /\ pc = "changing" /\ pc' = "recreating" /\ i' = i
      /\ UNCHANGED <<config, state, mirrored, budget>>
      /\ pools' = {q \in pools : q.name # p.name}
      /\ NeedsReplace(state, p) /\ ~OnlyPool
  BY DEF DeleteReplaced, Quiet
<1>2. i \in 1..Len(config) /\ i \in DOMAIN config /\ Distinct(config)
  BY <1>1, ConfigFacts DEF IInv, TypeOK
<1>3. HasName(state, p.name)
  BY <1>1 DEF NeedsReplace, HasName
<1>4. TypeOK'
  BY <1>1, <1>2 DEF IInv, TypeOK, Updating, budget
<1>5. StateInv'
  <2>1. IsFiniteSet(pools')
    BY <1>1, FS_Subset DEF IInv, StateInv
  <2> QED BY <1>1, <1>3, <2>1 DEF IInv, StateInv, HasName, OnlyPool
<1>6. ASSUME mirrored
      PROVE  MirrorInv'
  <2>1. /\ \A j \in DOMAIN state : state[j] \in Pools
        /\ OldRemain(i) /\ NewArrived(i) /\ NoOthers
    BY <1>1, <1>6 DEF IInv, MirrorInv
  <2>2. \A j \in DOMAIN state :
          (\A k \in DOMAIN config : k < i + 1 => config[k].name # state[j].name)
            => state[j] \in pools'
    <3> SUFFICES ASSUME NEW j \in DOMAIN state,
                        \A k \in DOMAIN config : k < i + 1 => config[k].name # state[j].name
                 PROVE  state[j] \in pools'
      OBVIOUS
    <3>1. state[j] \in pools /\ state[j].name # p.name
      BY <1>2, <2>1, ConfigFacts DEF OldRemain, IInv
    <3> QED BY <1>1, <3>1
  <2>3. \A k \in DOMAIN config :
          k < i \/ ~HasName(state, config[k].name) => config[k] \in pools'
    <3> SUFFICES ASSUME NEW k \in DOMAIN config,
                        k < i \/ ~HasName(state, config[k].name)
                 PROVE  config[k] \in pools'
      OBVIOUS
    <3>1. k # i
      BY <1>2, <1>3
    <3>2. config[k] \in pools /\ config[k].name # p.name
      BY <1>2, <2>1, <3>1 DEF NewArrived, Distinct
    <3> QED BY <1>1, <3>2
  <2>4. \A q \in pools' : HasName(state, q.name) \/ HasName(config, q.name)
    BY <1>1, <2>1 DEF NoOthers
  <2> QED
    BY <1>1, <2>1, <2>2, <2>3, <2>4
       DEF MirrorInv, OldRemain, NewArrived, NoOthers, HasName, Updating
<1>7. MirrorInv'
  BY <1>1, <1>6 DEF MirrorInv
<1> QED BY <1>4, <1>5, <1>7 DEF IInv

(* The second half of a replacement: the pool is created in its new form. *)
LEMMA RecreateStep ==
  ASSUME IInv, Recreate
  PROVE  IInv'
<1> DEFINE p == config[i]
<1>1. /\ pc = "recreating" /\ pools' = pools \cup {p}
      /\ UNCHANGED <<config, state, mirrored, budget>>
  BY DEF Recreate, Quiet
<1>2. /\ i \in 1..Len(config) /\ Len(config) \in Nat \ {0} /\ DOMAIN config = 1..Len(config)
      /\ p \in Pools /\ Distinct(config)
  BY <1>1, ConfigFacts DEF IInv, TypeOK
<1>3. Len(state) \in Nat \ {0} /\ DOMAIN state = 1..Len(state)
  BY StateFacts DEF IInv, StateInv
<1>4. \/ pc' = "changing" /\ i' = i + 1 /\ i' \in 1..Len(config)
      \/ pc' = "removing" /\ i' = 1 /\ i = Len(config)
  <2>1. CASE i < Len(config)
    <3>1. pc' = "changing" /\ i' = i + 1
      BY <2>1 DEF Recreate
    <3>2. i + 1 \in 1..Len(config)
      BY <1>2, <2>1
    <3> QED BY <3>1, <3>2
  <2>2. CASE ~(i < Len(config))
    <3>1. pc' = "removing" /\ i' = 1
      BY <2>2 DEF Recreate
    <3>2. i \in Int /\ Len(config) \in Int /\ i <= Len(config)
      BY <1>2
    <3>3. i = Len(config)
      BY <2>2, <3>2
    <3> QED BY <3>1, <3>3
  <2> QED BY <2>1, <2>2
<1>5. TypeOK' /\ StateInv'
  <2>1. /\ pools' \subseteq Pools /\ IsFiniteSet(pools')
        /\ \A q, r \in pools' : q.name = r.name => q = r
    BY <1>1, <1>2, FS_AddElement DEF IInv, TypeOK, StateInv
  <2>2. /\ pc' \in {"changing", "removing"} /\ i' \in Nat
        /\ pc' = "changing" => i' \in 1..Len(config)
        /\ pc' = "removing" => i' \in 1..Len(state)
    <3>1. CASE pc' = "changing" /\ i' \in 1..Len(config)
      BY <1>2, <3>1
    <3>2. CASE pc' = "removing" /\ i' = 1
      <4>1. 1 \in Nat /\ 1 \in 1..Len(state)
        BY <1>3
      <4> QED BY <3>2, <4>1
    <3> QED BY <1>4, <3>1, <3>2
  <2> QED BY <2>1, <2>2, QuietStep DEF Updating, Recreate
<1>6. ASSUME mirrored
      PROVE  MirrorInv'
  <2>1. /\ \A j \in DOMAIN state : state[j] \in Pools
        /\ OldRemain(i + 1) /\ NewArrived(i) /\ NoOthers
    BY <1>1, <1>6 DEF IInv, MirrorInv
  <2>2. \A j \in DOMAIN state :
          (\A k \in DOMAIN config : k < i + 1 => config[k].name # state[j].name)
            => state[j] \in pools'
    BY <1>1, <2>1 DEF OldRemain
  <2>3. \A k \in DOMAIN config :
          k < i + 1 \/ ~HasName(state, config[k].name) => config[k] \in pools'
    <3> SUFFICES ASSUME NEW k \in DOMAIN config,
                        k < i + 1 \/ ~HasName(state, config[k].name)
                 PROVE  config[k] \in pools'
      OBVIOUS
    <3>1. CASE k = i BY <1>1, <3>1
    <3>2. CASE k # i BY <1>1, <1>2, <2>1, <3>2 DEF NewArrived
    <3> QED BY <3>1, <3>2
  <2>4. \A q \in pools' : HasName(state, q.name) \/ HasName(config, q.name)
    <3>1. HasName(config, p.name)
      BY <1>2 DEF HasName
    <3> QED BY <1>1, <2>1, <3>1 DEF NoOthers
  <2>5. CASE pc' = "changing" /\ i' = i + 1
    BY <1>1, <2>1, <2>2, <2>3, <2>4, <2>5
       DEF MirrorInv, OldRemain, NewArrived, NoOthers, HasName, Updating
  <2>6. CASE pc' = "removing" /\ i' = 1 /\ i = Len(config)
    <3>1. \A k \in DOMAIN config : config[k] \in pools'
      BY <1>2, <2>3, <2>6
    <3>2. \A j \in DOMAIN state : j >= 1
      BY <1>3
    <3> QED BY <1>1, <2>1, <2>4, <2>6, <3>1, <3>2 DEF MirrorInv, HasName, Updating
  <2> QED BY <1>4, <2>5, <2>6
<1>7. MirrorInv'
  BY <1>1, <1>6 DEF MirrorInv
<1> QED BY <1>5, <1>7 DEF IInv

(* Third loop: a pool whose name the new list has is never removed. *)
LEMMA RemoveStep ==
  ASSUME IInv, Remove
  PROVE  IInv'
<1>1. /\ pc = "removing" /\ UNCHANGED <<config, state, mirrored, budget>>
      /\ pools' = IF HasName(config, state[i].name)
                    THEN pools ELSE {p \in pools : p.name # state[i].name}
  BY DEF Remove, Quiet
<1>2. /\ i \in 1..Len(state) /\ Len(state) \in Nat \ {0} /\ DOMAIN state = 1..Len(state)
  BY <1>1, StateFacts DEF IInv, TypeOK, StateInv
<1>3. \/ pc' = "removing" /\ i' = i + 1 /\ i' \in 1..Len(state)
      \/ pc' = "reading" /\ i' = 1 /\ i = Len(state)
  BY <1>1, <1>2, NextFacts DEF Remove
<1>4. TypeOK' /\ StateInv'
  <2>1. pools' \subseteq pools /\ IsFiniteSet(pools')
    BY <1>1, FS_Subset DEF IInv, StateInv
  <2>2. /\ pc' \in {"removing", "reading"} /\ i' \in Nat
        /\ pc' = "removing" => i' \in 1..Len(state)
    <3>1. CASE pc' = "removing" /\ i' \in 1..Len(state)
      BY <1>2, <3>1
    <3>2. CASE pc' = "reading" /\ i' = 1
      BY <3>2
    <3> QED BY <1>3, <3>1, <3>2
  <2>3. pools' \subseteq Pools /\ \A q, r \in pools' : q.name = r.name => q = r
    BY <2>1 DEF IInv, TypeOK
  <2> QED BY <2>1, <2>2, <2>3, QuietStep DEF Updating, Remove
<1>5. ASSUME mirrored
      PROVE  MirrorInv'
  <2>1. /\ \A j \in DOMAIN state : state[j] \in Pools
        /\ \A k \in DOMAIN config : config[k] \in pools
        /\ \A p \in pools :
             \/ HasName(config, p.name)
             \/ \E j \in DOMAIN state : j >= i /\ state[j].name = p.name
    BY <1>1, <1>5 DEF IInv, MirrorInv
  <2>2. \A k \in DOMAIN config : config[k] \in pools'
    BY <1>1, <2>1 DEF HasName
  <2>3. ASSUME NEW p \in pools', ~HasName(config, p.name)
        PROVE  \E j \in DOMAIN state : j >= i + 1 /\ state[j].name = p.name
    <3>1. PICK j \in DOMAIN state : j >= i /\ state[j].name = p.name
      BY <1>1, <2>1, <2>3
    <3>2. j # i
      BY <1>1, <2>3, <3>1
    <3> QED BY <1>2, <3>1, <3>2
  <2>4. CASE pc' = "removing" /\ i' = i + 1
    BY <1>1, <2>1, <2>2, <2>3, <2>4 DEF MirrorInv, HasName, Updating
  <2>5. CASE pc' = "reading" /\ i = Len(state)
    <3>1. \A j \in DOMAIN state : ~(j >= i + 1)
      BY <1>2, <2>5
    <3>2. \A p \in pools' : HasName(config, p.name)
      BY <2>3, <3>1
    <3> QED BY <1>1, <2>1, <2>2, <2>5, <3>2 DEF MirrorInv, HasName, Updating
  <2> QED BY <1>3, <2>4, <2>5
<1>6. MirrorInv'
  BY <1>1, <1>5 DEF MirrorInv
<1> QED BY <1>4, <1>6 DEF IInv

-----------------------------------------------------------------------------
(* A cluster just created, listed as it is, satisfies the invariant. *)
LEMMA InitInv == Init => IInv
<1> SUFFICES ASSUME Init PROVE IInv
  OBVIOUS
<1>1. config \in Seq(Pools) /\ config # <<>> /\ Distinct(config)
  BY ConfigsAssumption DEF Init
<1>2. Len(config) \in Nat /\ DOMAIN config = 1..Len(config)
  BY <1>1
<1>3. pools = {config[j] : j \in 1..Len(config)}
  BY <1>2 DEF Init
<1>4. IsFiniteSet(1..Len(config))
  BY <1>2, FS_Interval
<1>5. IsFiniteSet(pools)
  <2>1. config \in Surjection(1..Len(config), pools)
    BY <1>1, <1>2, <1>3 DEF Surjection
  <2> QED BY <1>4, <2>1, FS_Surjection
<1>6. TypeOK
  <2>1. pools \subseteq Pools /\ \A p, q \in pools : p.name = q.name => p = q
    BY <1>1, <1>2, <1>3 DEF Distinct
  <2>2. state \in Seq(Pools \cup {Placeholder})
    BY <1>1 DEF Init
  <2>3. failures \in 0..MaxFailures /\ removals \in 0..MaxRemovals /\ edits \in 0..MaxEdits
    BY BoundsAssumption DEF Init
  <2>4. config \in Configs /\ i \in Nat /\ mirrored \in BOOLEAN
    BY DEF Init
  <2>5. pc = "idle"
    BY DEF Init
  <2> QED BY <2>1, <2>2, <2>3, <2>4, <2>5 DEF TypeOK
<1>7. StateInv
  BY <1>1, <1>5 DEF Init, StateInv, Distinct, RealDistinct
<1>8. MirrorInv
  BY DEF Init, MirrorInv
<1> QED BY <1>6, <1>7, <1>8 DEF IInv

(* Every step of the cluster, of Terraform and of the update. *)
LEMMA NextInv == IInv /\ [Next]_vars => IInv'
<1> SUFFICES ASSUME IInv, [Next]_vars PROVE IInv'
  OBVIOUS
<1>1. CASE UNCHANGED vars
  BY <1>1 DEF vars, budget, IInv, TypeOK, StateInv, MirrorInv, HasName, OnlyPool,
              OldRemain, NewArrived, NoOthers
<1>2. CASE Next
  BY <1>2, EditStep, ReadStep, PlanStep, FailingSteps, CrashStep, RemovedStep, AddStep,
     KeepStep, DeleteReplacedStep, RecreateStep, UpdateInPlaceStep, RemoveStep
     DEF Next, Run, Update
<1> QED BY <1>1, <1>2

(* The invariant holds in every reachable state. *)
THEOREM Invariant == Spec => []IInv
  BY InitInv, NextInv, PTL DEF Spec

(* Every reachable state is well typed, placeholders and indices included. *)
THEOREM TypeCorrect == Spec => []TypeOK
<1>1. IInv => TypeOK
  BY DEF IInv
<1> QED BY Invariant, <1>1, PTL

(***************************************************************************)
(* The lists are not empty, so what the invariant says of each loop gives  *)
(* a pool that is alive: in the first one of the old list, later the first *)
(* of the new list or, while that is recreated, another one.               *)
(***************************************************************************)
LEMMA NeverEmpty == IInv => MirroredNeverEmpty
<1> SUFFICES ASSUME IInv, pc \in Updating, mirrored
             PROVE  pools # {}
  BY DEF MirroredNeverEmpty
<1>1. /\ Len(config) \in Nat \ {0} /\ DOMAIN config = 1..Len(config)
      /\ \A j, k \in DOMAIN config : config[j].name = config[k].name => j = k
  BY ConfigFacts DEF IInv, Distinct
<1>2. /\ Len(state) \in Nat \ {0} /\ DOMAIN state = 1..Len(state)
      /\ \A j, k \in DOMAIN state : state[j].name = state[k].name => j = k
  BY StateFacts, MirrorNames DEF IInv, StateInv
<1>3. 1 \in DOMAIN config /\ 1 \in DOMAIN state
  BY <1>1, <1>2
<1>4. CASE pc = "adding"
  <2>1. \A k \in DOMAIN config : ~(k < 1)
    BY <1>1
  <2>2. OldRemain(1)
    BY <1>4 DEF IInv, MirrorInv
  <2> QED BY <1>3, <2>1, <2>2 DEF OldRemain
<1>5. CASE pc = "changing"
  <2>1. OldRemain(i) /\ NewArrived(i) /\ i \in 1..Len(config)
    BY <1>5 DEF IInv, MirrorInv, TypeOK
  <2>2. CASE 1 < i
    BY <1>3, <2>1, <2>2 DEF NewArrived
  <2>3. CASE ~(1 < i)
    <3>1. \A k \in DOMAIN config : ~(k < i)
      BY <1>1, <2>1, <2>3
    <3> QED BY <1>3, <2>1, <3>1 DEF OldRemain
  <2> QED BY <2>2, <2>3
<1>6. CASE pc = "recreating"
  <2>1. /\ OldRemain(i + 1) /\ NewArrived(i) /\ i \in 1..Len(config)
        /\ HasName(state, config[i].name) /\ ~OnlyPool
    BY <1>6 DEF IInv, MirrorInv, TypeOK, StateInv
  <2>2. CASE 1 < i
    BY <1>3, <2>1, <2>2 DEF NewArrived
  <2>3. CASE i = 1 /\ Len(config) > 1
    <3>1. 2 \in DOMAIN config
      BY <1>1, <2>3
    <3>2. CASE ~HasName(state, config[2].name)
      BY <2>1, <3>1, <3>2 DEF NewArrived
    <3>3. CASE HasName(state, config[2].name)
      <4>1. PICK j \in DOMAIN state : state[j].name = config[2].name
        BY <3>3 DEF HasName
      <4>2. \A k \in DOMAIN config : k < i + 1 => config[k].name # state[j].name
        BY <1>1, <2>3, <3>1, <4>1
      <4> QED BY <2>1, <4>1, <4>2 DEF OldRemain
    <3> QED BY <3>2, <3>3
  <2>4. CASE i = 1 /\ Len(config) = 1
    <3>1. Len(state) > 1
      BY <1>2, <2>1, <2>4 DEF OnlyPool
    <3>2. 2 \in DOMAIN state
      BY <1>2, <3>1
    <3>3. state[1].name # state[2].name
      BY <1>2, <1>3, <3>2
    <3>4. PICK j \in {1, 2} : state[j].name # config[1].name
      BY <3>3
    <3>5. \A k \in DOMAIN config : config[k].name # state[j].name
      BY <1>1, <2>4, <3>4
    <3> QED BY <1>3, <2>1, <3>2, <3>4, <3>5 DEF OldRemain
  <2> QED BY <1>1, <2>1, <2>2, <2>3, <2>4
<1>7. CASE pc \in {"removing", "reading"}
  BY <1>3, <1>7 DEF IInv, MirrorInv
<1> QED BY <1>4, <1>5, <1>6, <1>7 DEF Updating

(* An update that starts from what the cluster has keeps at least one pool *)
(* alive at each of its steps, also when it fails.                         *)
THEOREM KeepsAPool == Spec => []MirroredNeverEmpty
  BY Invariant, NeverEmpty, PTL

(* And when it comes to its end the cluster has exactly the pools of the   *)
(* new list.                                                               *)
THEOREM Arrives == Spec => []MirroredArrives
<1>1. IInv => MirroredArrives
  <2> SUFFICES ASSUME IInv, pc = "reading", mirrored
               PROVE  pools = {config[j] : j \in DOMAIN config}
    BY DEF MirroredArrives
  <2>1. /\ \A k \in DOMAIN config : config[k] \in pools
        /\ \A p \in pools : HasName(config, p.name)
    BY DEF IInv, MirrorInv
  <2>2. ASSUME NEW p \in pools
        PROVE  \E k \in DOMAIN config : p = config[k]
    <3>1. PICK k \in DOMAIN config : config[k].name = p.name
      BY <2>1 DEF HasName
    <3>2. p = config[k]
      BY <2>1, <3>1 DEF IInv, TypeOK
    <3> QED BY <3>2
  <2> QED BY <2>1, <2>2
<1> QED BY Invariant, <1>1, PTL

(* No step of any update, mirrored or not, touches a pool that is the same *)
(* in the old and the new list.                                            *)
THEOREM SparesTheUnchanged == Spec => NoCollateral
<1>1. IInv /\ [Next]_vars => [Update => \A p \in pools : Untouched(p) => p \in pools']_vars
  <2> SUFFICES ASSUME IInv, Update, NEW p \in pools, Untouched(p)
               PROVE  p \in pools'
    OBVIOUS
  <2>1. PICK j \in DOMAIN state, k \in DOMAIN config : state[j] = p /\ config[k] = p
    BY DEF Untouched
  <2>2. p \in Pools /\ p.name \in Names /\ p.name # NoName /\ Distinct(config)
    BY <2>1, ConfigFacts, NoNameAssumption DEF IInv
  <2>3. \A m \in DOMAIN state : state[m].name = p.name => state[m] = p
    BY <2>1, <2>2 DEF IInv, StateInv, RealDistinct
  <2>4. \A m \in DOMAIN config : config[m].name = p.name => config[m] = p
    BY <2>1, <2>2 DEF Distinct
  <2>5. pc \in {"changing", "recreating"} => i \in DOMAIN config
    BY ConfigFacts DEF IInv, TypeOK
  <2>6. CASE Add \/ Keep \/ RefuseReplace \/ Recreate \/ ReadBack
    BY <2>6 DEF Add, Keep, RefuseReplace, Recreate, ReadBack, budget
  <2>7. CASE DeleteReplaced
    <3>1. config[i].name # p.name
      BY <2>3, <2>4, <2>5, <2>7 DEF DeleteReplaced, NeedsReplace
    <3> QED BY <2>7, <3>1 DEF DeleteReplaced
  <2>8. CASE UpdateInPlace
    <3>1. config[i].name # p.name
      BY <2>3, <2>4, <2>5, <2>8 DEF UpdateInPlace, NeedsUpdate
    <3> QED BY <2>8, <3>1 DEF UpdateInPlace
  <2>9. CASE Remove
    <3>1. HasName(config, p.name)
      BY <2>1 DEF HasName
    <3> QED BY <2>9, <3>1 DEF Remove
  <2> QED BY <2>6, <2>7, <2>8, <2>9 DEF Update
<1> QED BY Invariant, <1>1, PTL DEF Spec, NoCollateral

-----------------------------------------------------------------------------
(***************************************************************************)
(* What a handler has made of the interfaces of its server, phase by       *)
(* phase.  Nobody else attaches or detaches them.                          *)
(***************************************************************************)
Old(s) == DOMAIN have[s].interface
Wanted(s) == DOMAIN want[s].interface

InterfacesHeld(s) ==
  /\ at[s] \in {"planned", "deleting", "listing"} => Old(s) \subseteq attached[s]
  /\ at[s] = "detaching" =>
       /\ todo[s] \subseteq Old(s) \cap attached[s]
       /\ (attached[s] \cap Old(s)) \ todo[s] \subseteq Wanted(s)
       /\ s \in Baremetals => Old(s) \cap Wanted(s) \subseteq attached[s] \ todo[s]
  /\ at[s] = "attaching" => todo[s] \subseteq Wanted(s) /\ Wanted(s) \ todo[s] \subseteq attached[s]
  /\ at[s] \in {"assigning", "reading"} => Wanted(s) \subseteq attached[s]
  /\ at[s] \in {"attaching", "assigning", "reading"} => attached[s] \cap Old(s) \subseteq Wanted(s)
  /\ at[s] \in {"detaching", "attaching", "assigning"} => HasChange(s, "interface")

(* No port is recorded for two servers that are updated in one run. *)
Apart ==
  \A s, t \in Servers :
    s # t /\ at[s] # "done" /\ at[t] # "done" => Old(s) \cap Old(t) \cap Ports = {}

(* A trunk is part of every bare metal server and of no instance. *)
Trunks(s) ==
  /\ s \in Baremetals => Trunk \in attached[s] /\ fips[s] = {}
  /\ s \in Instances => Trunk \notin attached[s] \cup Old(s)
  /\ fips[s] \subseteq FloatingIPs \X (Ports \cup Subnets)
  /\ at[s] = "assigning" =>
       todo[s] \subseteq FloatingIPs \X IF s \in Instances THEN Ports \cup Subnets ELSE Ports \cup {Trunk, None}

(* The metadata of a server nobody has touched. *)
MetadataHeld(s) ==
  /\ at[s] = "planned" => \A k \in Keyed(have[s].metadata) : metadata[s][k] = have[s].metadata[k]
  /\ at[s] = "deleting" => \A k \in Keyed(have[s].metadata) \ todo[s] : metadata[s][k] = None
  /\ at[s] \in {"listing", "detaching", "attaching", "assigning", "reading"} =>
       \A k \in Keyed(have[s].metadata) \cup Keyed(want[s].metadata) : metadata[s][k] = want[s].metadata[k]

(* The floating IPs the update of a server shall leave assigned, and the   *)
(* way they take through what the handler has found and what it has to do. *)
Due(s) ==
  IF s \in Instances
    THEN {<<have[s].interface[x], x>> : x \in {y \in Old(s) : have[s].interface[y] # None}}
    ELSE IF HasChange(s, "interface") THEN {<<want[s].interface[x], x>> : x \in Desired(s)} ELSE {}

InOrder(s, d) == assigned[d[1]] = PortOf(s, d[2])
FipsHeld(s) ==
  \A d \in Due(s) :
    /\ s \in Instances /\ at[s] \in {"planned", "deleting", "listing"} => InOrder(s, d)
    /\ s \in Instances /\ at[s] \in {"detaching", "attaching"} =>
         d \in fips[s] /\ \A e \in fips[s] : e[1] = d[1] => e = d
    /\ at[s] = "assigning" =>
         /\ d \in todo[s] \/ InOrder(s, d)
         /\ \A e \in todo[s] : e[1] = d[1] => e = d
    /\ at[s] = "reading" => InOrder(s, d)

Held(s) ==
  InterfacesHeld(s) /\ Trunks(s) /\ (s \notin touched => MetadataHeld(s) /\ FipsHeld(s))
ServersInv ==
  ServersTypeOK /\ want \in Configurations /\ Apart /\ \A s \in Servers : Held(s)

(* What the step of a handler leaves at the service, and what it leaves    *)
(* alone there.                                                            *)
Effective(s) ==
  /\ ServiceTypeOK' /\ touched \subseteq touched' /\ touched' \subseteq Servers
  /\ s \in touched' => s \in touched
  /\ s \in Baremetals => Trunk \in attached'[s]
  /\ s \in Instances => Trunk \notin attached'[s]
  /\ \A t \in Servers \ {s} : metadata'[t] = metadata[t] /\ attached'[t] = attached[t]
  /\ \A f \in FloatingIPs :
       \/ assigned'[f] = assigned[f] \/ Minding(s, f) \subseteq touched'
       \/ at[s] = "detaching" /\ \E x \in todo[s] : assigned[f] = PortOf(s, x)

(* The same of the handlers and of the state.                              *)
Controlled(s) ==
  /\ want' = want /\ have' \in [Servers -> Recorded] /\ HandlersTypeOK' /\ CountersTypeOK'
  /\ at[s] # "done" /\ (have'[s] = have[s] \/ at'[s] = "done")
  /\ \A t \in Servers \ {s} :
       at'[t] = at[t] /\ todo'[t] = todo[t] /\ fips'[t] = fips[t] /\ have'[t] = have[t]

-----------------------------------------------------------------------------
(* Interfaces of one server, and reserved ports of several, have names of  *)
(* their own.                                                              *)
LEMMA PortFacts ==
  ASSUME NEW s \in Servers, NEW x \in Items
  PROVE  /\ PortOf(s, x) \in AnyPort /\ PortOf(s, x) # None
         /\ x \notin Ports => PortOf(s, x) = <<s, x>>
         /\ \A t \in Servers, y \in Items :
              PortOf(s, x) = PortOf(t, y) => x = y /\ (s = t \/ x \in Ports)
<1>1. \A t \in Servers, y \in Items : <<t, y>> \notin Items /\ <<t, y>> # None
  BY NamesAssumption
<1>2. None \notin Items /\ Ports \subseteq Items
  BY NamesAssumption DEF Items
<1>3. PortOf(s, x) \in AnyPort
  BY <1>2 DEF PortOf, AnyPort
<1> QED BY <1>1, <1>2, <1>3 DEF PortOf

LEMMA SettingsFacts ==
  ASSUME NEW s \in Servers, NEW w \in Settings(s)
  PROVE  /\ w \in Recorded
         /\ DOMAIN w.interface \subseteq Items /\ DOMAIN w.interface # {}
         /\ Trunk \in DOMAIN w.interface <=> s \in Baremetals
         /\ \A x \in DOMAIN w.interface : w.interface[x] \in FloatingIPs \cup {None}
         /\ \A x, y \in DOMAIN w.interface : w.interface[x] = w.interface[y] => x = y \/ w.interface[x] = None
         /\ w.metadata \in [Keys -> Values \cup {None}]
BY DEF Settings, Recorded, AnyInterfaces, Metadata

LEMMA RecordedFacts ==
  ASSUME NEW r \in Recorded
  PROVE  /\ r.metadata \in [Keys -> Values \cup {None}]
         /\ DOMAIN r.interface \subseteq Items
         /\ \A x \in DOMAIN r.interface : r.interface[x] \in FloatingIPs \cup {None}
BY DEF Recorded, AnyInterfaces, Metadata

(* Read. *)
LEMMA ReadIntoTypes ==
  ASSUME ServersTypeOK, NEW s \in Servers, NEW r \in Recorded
  PROVE  /\ ReadInto(s, r) \in Recorded
         /\ DOMAIN ReadInto(s, r).interface = IF s \in Instances THEN attached[s] ELSE attached[s] \cap DOMAIN r.interface
         /\ \A x \in DOMAIN ReadInto(s, r).interface :
              ReadInto(s, r).interface[x] = IF s \in Instances THEN FipOf(s, x) ELSE r.interface[x]
         /\ \A k \in Keys :
              ReadInto(s, r).metadata[k] = IF r.metadata[k] = None THEN None ELSE metadata[s][k]
<1>1. \A x : FipOf(s, x) \in FloatingIPs \cup {None}
  BY DEF FipOf
<1>2. attached[s] \subseteq Items /\ metadata[s] \in [Keys -> Values \cup {None}]
  BY DEF ServersTypeOK, ServiceTypeOK, Metadata
<1>3. /\ DOMAIN Seen(s, r) = IF s \in Instances THEN attached[s] ELSE attached[s] \cap DOMAIN r.interface
      /\ \A x \in DOMAIN Seen(s, r) : Seen(s, r)[x] = IF s \in Instances THEN FipOf(s, x) ELSE r.interface[x]
      /\ Seen(s, r) \in [DOMAIN Seen(s, r) -> FloatingIPs \cup {None}]
  BY <1>1, RecordedFacts DEF Seen
<1>4. Seen(s, r) \in AnyInterfaces
  BY <1>2, <1>3 DEF AnyInterfaces
<1>5. [k \in Keys |-> IF r.metadata[k] = None THEN None ELSE metadata[s][k]] \in Metadata
  BY <1>2 DEF Metadata
<1> QED BY <1>3, <1>4, <1>5 DEF ReadInto, Recorded

(* What a call leaves at the service. *)
LEMMA DetachedTypes ==
  ASSUME ServersTypeOK, NEW s \in Servers, NEW x \in Items, Detached(s, x), UNCHANGED metadata
  PROVE  /\ ServiceTypeOK'
         /\ \A t \in Servers : attached'[t] = IF t = s THEN attached[t] \ {x} ELSE attached[t]
         /\ \A f \in FloatingIPs : assigned'[f] = IF assigned[f] = PortOf(s, x) THEN None ELSE assigned[f]
<1>t. ServiceTypeOK
  BY DEF ServersTypeOK
<1>1. /\ attached' \in [Servers -> SUBSET Items]
      /\ \A t \in Servers : attached'[t] = IF t = s THEN attached[t] \ {x} ELSE attached[t]
  BY <1>t DEF Detached, ServiceTypeOK
<1>2. /\ assigned' \in [FloatingIPs -> AnyPort \cup {None}]
      /\ \A f \in FloatingIPs : assigned'[f] = IF assigned[f] = PortOf(s, x) THEN None ELSE assigned[f]
  BY <1>t DEF Detached, ServiceTypeOK
<1>3. ASSUME NEW t \in Servers, NEW y \in Items \ Ports, NEW f \in FloatingIPs, assigned'[f] = <<t, y>>
      PROVE  y \in attached'[t]
  <2>1. <<t, y>> # None /\ PortOf(t, y) = <<t, y>>
    BY PortFacts
  <2>2. assigned[f] = <<t, y>> /\ <<t, y>> # PortOf(s, x)
    BY <1>2, <1>3, <2>1
  <2>3. y \in attached[t]
    BY <1>t, <2>2 DEF ServiceTypeOK
  <2>4. ~(t = s /\ y = x)
    BY <2>1, <2>2
  <2> QED BY <1>1, <2>3, <2>4
<1> QED BY <1>t, <1>1, <1>2, <1>3 DEF ServiceTypeOK

LEMMA AttachedTypes ==
  ASSUME ServersTypeOK, NEW s \in Servers, NEW x \in Items, Attached(s, x), ~InUse(s, x),
         UNCHANGED <<metadata, assigned>>
  PROVE  /\ ServiceTypeOK'
         /\ \A t \in Servers : attached'[t] = IF t = s THEN attached[t] \cup {x} ELSE attached[t]
<1>t. ServiceTypeOK
  BY DEF ServersTypeOK
<1>1. /\ attached' \in [Servers -> SUBSET Items]
      /\ \A t \in Servers : attached'[t] = IF t = s THEN attached[t] \cup {x} ELSE attached[t]
  BY <1>t DEF Attached, ServiceTypeOK
<1> QED BY <1>t, <1>1 DEF ServiceTypeOK, InUse

LEMMA MetadataTypes ==
  ASSUME ServersTypeOK, NEW s \in Servers, NEW m \in Metadata, metadata' = [metadata EXCEPT ![s] = m],
         UNCHANGED <<attached, assigned>>
  PROVE  /\ ServiceTypeOK'
         /\ \A t \in Servers : metadata'[t] = IF t = s THEN m ELSE metadata[t]
BY DEF ServersTypeOK, ServiceTypeOK

LEMMA AssignedTypes ==
  ASSUME ServersTypeOK, NEW s \in Servers, Trunks(s), at[s] = "assigning",
         NEW f \in FloatingIPs, NEW x \in Items \cup {None}, Assigned(s, f, x), UNCHANGED <<metadata, attached>>
  PROVE  /\ ServiceTypeOK'
         /\ \A g \in FloatingIPs :
              assigned'[g] = IF g # f THEN assigned[g] ELSE IF x = None THEN None ELSE PortOf(s, x)
         /\ touched' \subseteq Servers /\ Minding(s, f) \subseteq touched' /\ touched \subseteq touched'
         /\ s \in touched' => s \in touched
<1>t. ServiceTypeOK /\ touched \subseteq Servers
  BY DEF ServersTypeOK, HandlersTypeOK
<1>1. x # None => x \in Items /\ PortOf(s, x) \in AnyPort
  BY PortFacts
<1>2. /\ assigned' \in [FloatingIPs -> AnyPort \cup {None}]
      /\ \A g \in FloatingIPs :
              assigned'[g] = IF g # f THEN assigned[g] ELSE IF x = None THEN None ELSE PortOf(s, x)
  BY <1>t, <1>1 DEF Assigned, ServiceTypeOK
<1>3. ASSUME NEW t \in Servers, NEW y \in Items \ Ports, NEW g \in FloatingIPs, assigned'[g] = <<t, y>>
      PROVE  y \in attached[t]
  <2>1. <<t, y>> # None /\ PortOf(t, y) = <<t, y>>
    BY PortFacts
  <2>2. CASE g # f
    BY <1>t, <1>2, <1>3, <2>2 DEF ServiceTypeOK
  <2>3. CASE g = f
    <3>1. x \in Items /\ PortOf(s, x) = PortOf(t, y)
      BY <1>2, <1>3, <2>1, <2>3
    <3>2. x = y /\ s = t
      BY <3>1, PortFacts
    <3>3. <<f, x>> \in todo[s] /\ x \notin Ports \cup {None} /\ ~(s \in Instances /\ x \in Subnets)
      BY <3>1, <3>2, NamesAssumption DEF Assigned, PortGone
    <3>4. x = Trunk /\ s \in Baremetals
      BY <3>3 DEF Trunks, Servers
    <3> QED BY <3>2, <3>4 DEF Trunks
  <2> QED BY <2>2, <2>3
<1>4. Minding(s, f) \subseteq Servers \ {s}
  BY DEF Minding
<1> QED BY <1>t, <1>2, <1>3, <1>4 DEF ServiceTypeOK, Assigned

LEMMA NoEffect ==
  ASSUME ServersTypeOK, NEW s \in Servers, Trunks(s), UNCHANGED <<service, touched>>
  PROVE  Effective(s)
<1>1. ServiceTypeOK /\ touched \subseteq Servers
  BY DEF ServersTypeOK, HandlersTypeOK
<1>2. ServiceTypeOK'
  BY <1>1 DEF service, ServiceTypeOK
<1> QED BY <1>1, <1>2 DEF Effective, service, Trunks

LEMMA MetadataEffect ==
  ASSUME ServersTypeOK, NEW s \in Servers, Trunks(s), NEW m \in Metadata,
         metadata' = [metadata EXCEPT ![s] = m], UNCHANGED <<attached, assigned, touched>>
  PROVE  Effective(s) /\ metadata'[s] = m
<1>1. touched \subseteq Servers
  BY DEF ServersTypeOK, HandlersTypeOK
<1>2. ServiceTypeOK' /\ \A t \in Servers : metadata'[t] = IF t = s THEN m ELSE metadata[t]
  BY MetadataTypes
<1> QED BY <1>1, <1>2 DEF Effective, Trunks

LEMMA DetachEffect ==
  ASSUME ServersTypeOK, NEW s \in Servers, Held(s), at[s] = "detaching", NEW x \in todo[s],
         Detached(s, x), UNCHANGED <<metadata, touched>>
  PROVE  Effective(s) /\ attached'[s] = attached[s] \ {x}
<1>1. touched \subseteq Servers /\ x \in Items
  BY DEF ServersTypeOK, HandlersTypeOK, CallsIn
<1>2. /\ ServiceTypeOK'
      /\ \A t \in Servers : attached'[t] = IF t = s THEN attached[t] \ {x} ELSE attached[t]
      /\ \A f \in FloatingIPs : assigned'[f] = IF assigned[f] = PortOf(s, x) THEN None ELSE assigned[f]
  BY <1>1, DetachedTypes
<1>3. s \in Baremetals => x # Trunk
  <2> SUFFICES ASSUME s \in Baremetals PROVE x # Trunk
    OBVIOUS
  <2>1. Trunk \in Wanted(s)
    BY SettingsFacts DEF ServersTypeOK, Wanted
  <2> QED BY <2>1 DEF Held, InterfacesHeld
<1> QED BY <1>1, <1>2, <1>3 DEF Effective, Held, Trunks

LEMMA AttachEffect ==
  ASSUME ServersTypeOK, NEW s \in Servers, Held(s), at[s] = "attaching", NEW x \in todo[s],
         Attached(s, x), ~InUse(s, x), UNCHANGED <<metadata, assigned, touched>>
  PROVE  Effective(s) /\ attached'[s] = attached[s] \cup {x}
<1>1. touched \subseteq Servers /\ x \in Items
  BY DEF ServersTypeOK, HandlersTypeOK, CallsIn
<1>2. /\ ServiceTypeOK'
      /\ \A t \in Servers : attached'[t] = IF t = s THEN attached[t] \cup {x} ELSE attached[t]
  BY <1>1, AttachedTypes
<1>3. s \in Instances => x # Trunk
  <2> SUFFICES ASSUME s \in Instances PROVE x # Trunk
    OBVIOUS
  <2>1. Trunk \notin Wanted(s)
    BY SettingsFacts, NamesAssumption DEF ServersTypeOK, Wanted
  <2> QED BY <2>1 DEF Held, InterfacesHeld
<1> QED BY <1>1, <1>2, <1>3 DEF Effective, Held, Trunks

LEMMA AssignEffect ==
  ASSUME ServersTypeOK, NEW s \in Servers, Trunks(s), at[s] = "assigning",
         NEW f \in FloatingIPs, NEW x \in Items \cup {None}, Assigned(s, f, x), UNCHANGED <<metadata, attached>>
  PROVE  Effective(s)
<1>1. /\ ServiceTypeOK'
      /\ \A g \in FloatingIPs :
           assigned'[g] = IF g # f THEN assigned[g] ELSE IF x = None THEN None ELSE PortOf(s, x)
      /\ touched' \subseteq Servers /\ Minding(s, f) \subseteq touched' /\ touched \subseteq touched'
      /\ s \in touched' => s \in touched
  BY AssignedTypes
<1>2. \A g \in FloatingIPs : assigned'[g] = assigned[g] \/ Minding(s, g) \subseteq touched'
  BY <1>1
<1>3. /\ s \in Baremetals => Trunk \in attached'[s]
      /\ s \in Instances => Trunk \notin attached'[s]
      /\ \A t \in Servers \ {s} : metadata'[t] = metadata[t] /\ attached'[t] = attached[t]
  BY DEF Trunks
<1> QED BY <1>1, <1>2, <1>3 DEF Effective

-----------------------------------------------------------------------------
(* What the parts of a step do to the handlers.                            *)
LEMMA GotoFacts ==
  ASSUME ServersTypeOK, NEW s \in Servers, NEW phase \in Phases, NEW calls \in SUBSET CallsIn(phase),
         Goto(s, phase, calls), at[s] # "done", UNCHANGED <<want, have, fips, counters>>,
         touched' \subseteq Servers
  PROVE  /\ Controlled(s) /\ at'[s] = phase /\ todo'[s] = calls /\ have'[s] = have[s]
         /\ fips'[s] = fips[s] /\ want'[s] = want[s]
<1>h. HandlersTypeOK /\ CountersTypeOK /\ have \in [Servers -> Recorded]
  BY DEF ServersTypeOK
<1>1. /\ at' \in [Servers -> Phases]
      /\ \A t \in Servers : at'[t] = IF t = s THEN phase ELSE at[t]
  BY <1>h DEF Goto, HandlersTypeOK
<1>2. calls \subseteq Keys \cup Items \cup (FloatingIPs \X (Items \cup {None}))
  BY DEF CallsIn
<1>3. /\ todo' \in [Servers -> SUBSET (Keys \cup Items \cup (FloatingIPs \X (Items \cup {None})))]
      /\ \A t \in Servers : todo'[t] = IF t = s THEN calls ELSE todo[t]
  BY <1>h, <1>2 DEF Goto, HandlersTypeOK
<1>4. \A t \in Servers : todo'[t] \subseteq CallsIn(at'[t])
  BY <1>h, <1>1, <1>3 DEF HandlersTypeOK
<1>5. HandlersTypeOK'
  BY <1>h, <1>1, <1>3, <1>4 DEF HandlersTypeOK
<1>6. CountersTypeOK'
  BY <1>h DEF CountersTypeOK, counters
<1> QED BY <1>h, <1>1, <1>3, <1>5, <1>6 DEF Controlled

LEMMA CalledFacts ==
  ASSUME ServersTypeOK, NEW s \in Servers, NEW call, Called(s, call), at[s] # "done",
         UNCHANGED <<want, have, fips, counters>>, touched' \subseteq Servers
  PROVE  /\ Controlled(s) /\ at' = at /\ todo'[s] = todo[s] \ {call} /\ have'[s] = have[s]
         /\ fips'[s] = fips[s] /\ want'[s] = want[s]
<1>h. HandlersTypeOK /\ CountersTypeOK /\ have \in [Servers -> Recorded]
  BY DEF ServersTypeOK
<1>1. /\ todo' \in [Servers -> SUBSET (Keys \cup Items \cup (FloatingIPs \X (Items \cup {None})))]
      /\ \A t \in Servers : todo'[t] = IF t = s THEN todo[t] \ {call} ELSE todo[t]
  BY <1>h DEF Called, HandlersTypeOK
<1>2. HandlersTypeOK'
  BY <1>h, <1>1 DEF HandlersTypeOK, Called
<1>3. CountersTypeOK'
  BY <1>h DEF CountersTypeOK, counters
<1> QED BY <1>h, <1>1, <1>2, <1>3 DEF Controlled, Called

(* A handler that is done leaves nothing of its update to be held.         *)
LEMMA ReturnFacts ==
  ASSUME ServersTypeOK, NEW s \in Servers, NEW r \in Recorded, Return(s, r), at[s] # "done",
         s \in Instances => Trunk \notin DOMAIN r.interface,
         Effective(s), UNCHANGED want, CountersTypeOK'
  PROVE  Controlled(s) /\ Held(s)'
<1>h. HandlersTypeOK /\ have \in [Servers -> Recorded]
  BY DEF ServersTypeOK
<1>1. /\ at' \in [Servers -> Phases]
      /\ \A t \in Servers : at'[t] = IF t = s THEN "done" ELSE at[t]
  BY <1>h DEF Return, Goto, HandlersTypeOK, Phases
<1>2. /\ todo' \in [Servers -> SUBSET (Keys \cup Items \cup (FloatingIPs \X (Items \cup {None})))]
      /\ \A t \in Servers : todo'[t] = IF t = s THEN {} ELSE todo[t]
  BY <1>h DEF Return, Goto, HandlersTypeOK
<1>3. /\ fips' \in [Servers -> SUBSET (FloatingIPs \X Items)]
      /\ \A t \in Servers : fips'[t] = IF t = s THEN {} ELSE fips[t]
  BY <1>h DEF Return, HandlersTypeOK
<1>4. /\ have' \in [Servers -> Recorded]
      /\ \A t \in Servers : have'[t] = IF t = s THEN r ELSE have[t]
  BY <1>h DEF Return
<1>5. \A t \in Servers : todo'[t] \subseteq CallsIn(at'[t])
  BY <1>h, <1>1, <1>2 DEF HandlersTypeOK
<1>6. HandlersTypeOK'
  BY <1>1, <1>2, <1>3, <1>5 DEF HandlersTypeOK, Effective
<1>7. Controlled(s)
  BY <1>1, <1>2, <1>3, <1>4, <1>6 DEF Controlled
<1>8. InterfacesHeld(s)' /\ MetadataHeld(s)' /\ FipsHeld(s)'
  BY <1>1 DEF InterfacesHeld, MetadataHeld, FipsHeld
<1>9. Trunks(s)'
  BY <1>1, <1>3, <1>4 DEF Trunks, Effective, Old
<1> QED BY <1>7, <1>8, <1>9 DEF Held

(* A floating IP that is where another server's update shall leave it      *)
(* stays there, unless that server has been interfered with.               *)
LEMMA OthersKeepTheirs ==
  ASSUME ServersInv, NEW s \in Servers, Effective(s), Controlled(s),
         NEW t \in Servers \ {s}, t \notin touched', at[t] # "done",
         at[t] \in {"assigning", "reading"} \/ t \in Instances,
         NEW d \in Due(t), InOrder(t, d)
  PROVE  InOrder(t, d)'
<1>t. ServersTypeOK /\ at[s] # "done" /\ Held(s) /\ Held(t)
  BY DEF ServersInv, Controlled
<1>w. /\ have[t] \in Recorded /\ want[t] \in Settings(t)
      /\ \A a, b \in Servers : a # b => attached[a] \cap attached[b] \cap Ports = {}
  BY <1>t DEF ServersTypeOK, ServiceTypeOK
<1>d. /\ d = <<d[1], d[2]>> /\ d[1] \in FloatingIPs /\ d[1] \in Named(have[t]) \cup Named(want[t])
      /\ t \in Instances => d[2] \in Old(t)
      /\ t \notin Instances => d[2] \in Wanted(t)
  <2>1. CASE t \in Instances
    <3>1. PICK x \in Old(t) : d = <<have[t].interface[x], x>> /\ have[t].interface[x] # None
      BY <2>1 DEF Due
    <3>2. have[t].interface[x] \in FloatingIPs
      BY <1>w, <3>1, RecordedFacts DEF Old
    <3> QED BY <2>1, <3>1, <3>2 DEF Named, Old
  <2>2. CASE t \notin Instances
    <3>1. PICK x \in Desired(t) : d = <<want[t].interface[x], x>>
      BY <2>2 DEF Due
    <3>2. x \in Wanted(t) /\ want[t].interface[x] # None
      BY <3>1 DEF Desired, Wanted
    <3>3. want[t].interface[x] \in FloatingIPs
      BY <1>w, <3>2, SettingsFacts DEF Wanted
    <3> QED BY <2>2, <3>1, <3>2, <3>3 DEF Named, Wanted
  <2> QED BY <2>1, <2>2
<1>i. d[2] \in Items
  BY <1>w, <1>d, RecordedFacts, SettingsFacts DEF Old, Wanted
<1>m. t \in Minding(s, d[1])
  BY <1>d DEF Minding
<1>1. ASSUME at[s] = "detaching", NEW x \in todo[s], assigned[d[1]] = PortOf(s, x)
      PROVE  FALSE
  <2>1. x \in Items
    BY <1>t, <1>1 DEF ServersTypeOK, HandlersTypeOK, CallsIn
  <2>2. PortOf(t, d[2]) = PortOf(s, x)
    BY <1>1 DEF InOrder
  <2>3. x = d[2] /\ x \in Ports
    BY <1>i, <2>1, <2>2, PortFacts
  <2>4. x \in Old(s) \cap attached[s]
    BY <1>t, <1>1 DEF Held, InterfacesHeld
  <2>5. CASE t \in Instances
    <3>1. x \in Old(t)
      BY <1>d, <2>3, <2>5
    <3> QED BY <1>t, <2>3, <2>4, <3>1 DEF ServersInv, Apart
  <2>6. CASE t \notin Instances
    <3>1. x \in attached[t]
      BY <1>t, <1>d, <2>3, <2>6 DEF Held, InterfacesHeld
    <3> QED BY <1>w, <2>3, <2>4, <3>1
  <2> QED BY <2>5, <2>6
<1>2. assigned'[d[1]] = assigned[d[1]]
  BY <1>d, <1>m, <1>1 DEF Effective
<1> QED BY <1>2 DEF InOrder, PortOf

(* A step of one handler leaves the others' updates as they were.          *)
LEMMA OthersHeld ==
  ASSUME ServersInv, NEW s \in Servers, Effective(s), Controlled(s), NEW t \in Servers \ {s}
  PROVE  Held(t)'
<1>1. /\ Held(t)
      /\ at'[t] = at[t] /\ todo'[t] = todo[t] /\ fips'[t] = fips[t] /\ have'[t] = have[t] /\ want'[t] = want[t]
      /\ metadata'[t] = metadata[t] /\ attached'[t] = attached[t]
  BY DEF ServersInv, Effective, Controlled
<1>2. Old(t)' = Old(t) /\ Wanted(t)' = Wanted(t) /\ Desired(t)' = Desired(t) /\ HasChange(t, "interface")' = HasChange(t, "interface")
  BY <1>1 DEF Old, Wanted, Desired, HasChange
<1>3. InterfacesHeld(t)'
  BY <1>1, <1>2 DEF InterfacesHeld, Held
<1>4. Trunks(t)'
  BY <1>1, <1>2 DEF Trunks, Held
<1>5. ASSUME t \notin touched'
      PROVE  MetadataHeld(t)' /\ FipsHeld(t)'
  <2>1. MetadataHeld(t) /\ FipsHeld(t)
    BY <1>1, <1>5 DEF Held, Effective
  <2>2. MetadataHeld(t)'
    BY <1>1, <2>1 DEF MetadataHeld
  <2>3. Due(t)' = Due(t)
    BY <1>1, <1>2 DEF Due
  <2>4. ASSUME NEW d \in Due(t), at[t] # "done", at[t] \in {"assigning", "reading"} \/ t \in Instances, InOrder(t, d)
        PROVE  InOrder(t, d)'
    BY <1>5, <2>4, OthersKeepTheirs
  <2>5. FipsHeld(t)'
    <3> SUFFICES ASSUME NEW d \in Due(t)
                 PROVE  /\ t \in Instances /\ at[t] \in {"planned", "deleting", "listing"} => InOrder(t, d)'
                        /\ t \in Instances /\ at[t] \in {"detaching", "attaching"} =>
                             d \in fips[t] /\ \A e \in fips[t] : e[1] = d[1] => e = d
                        /\ at[t] = "assigning" =>
                             /\ d \in todo[t] \/ InOrder(t, d)'
                             /\ \A e \in todo[t] : e[1] = d[1] => e = d
                        /\ at[t] = "reading" => InOrder(t, d)'
      BY <1>1, <2>3 DEF FipsHeld
    <3> QED BY <2>1, <2>4 DEF FipsHeld
  <2> QED BY <2>2, <2>5
<1> QED BY <1>3, <1>4, <1>5 DEF Held

LEMMA StepsAside ==
  ASSUME ServersInv, NEW s \in Servers, Effective(s), Controlled(s), Held(s)'
  PROVE  ServersInv'
<1>1. ServersTypeOK'
  BY DEF ServersInv, ServersTypeOK, Effective, Controlled
<1>2. \A t \in Servers : Held(t)'
  BY OthersHeld
<1>3. Apart'
  <2> SUFFICES ASSUME NEW t \in Servers, NEW u \in Servers, t # u, at'[t] # "done", at'[u] # "done"
               PROVE  Old(t)' \cap Old(u)' \cap Ports = {}
    BY DEF Apart
  <2>1. /\ at[t] # "done" /\ Old(t)' = Old(t)
        /\ at[u] # "done" /\ Old(u)' = Old(u)
    BY DEF Controlled, Old
  <2> QED BY <2>1 DEF ServersInv, Apart
<1>4. want' \in Configurations
  BY DEF Controlled, ServersInv
<1> QED BY <1>1, <1>2, <1>3, <1>4 DEF ServersInv

-----------------------------------------------------------------------------
(* The steps of a handler, one by one.                                     *)
LEMMA HeldFacts ==
  ASSUME ServersInv, NEW s \in Servers
  PROVE  /\ ServersTypeOK /\ Held(s) /\ InterfacesHeld(s) /\ Trunks(s) /\ touched \subseteq Servers
         /\ have[s] \in Recorded /\ want[s] \in Settings(s) /\ want[s] \in Recorded
         /\ todo[s] \subseteq CallsIn(at[s])
         /\ s \in Instances => Trunk \notin Wanted(s)
<1>1. want[s] \in Settings(s) /\ have[s] \in Recorded /\ HandlersTypeOK
  BY DEF ServersInv, ServersTypeOK
<1>2. want[s] \in Recorded /\ (s \in Instances => Trunk \notin Wanted(s))
  BY <1>1, SettingsFacts, NamesAssumption DEF Wanted
<1> QED BY <1>1, <1>2 DEF ServersInv, Held, HandlersTypeOK

LEMMA StartUpdateStep ==
  ASSUME ServersInv, NEW s \in Servers, StartUpdate(s)
  PROVE  ServersInv'
<1>h. ServersTypeOK /\ Held(s) /\ touched \subseteq Servers /\ have[s] \in Recorded /\ at[s] = "planned"
  BY HeldFacts DEF StartUpdate
<1>e. Effective(s) /\ UNCHANGED <<metadata, attached, assigned, touched>>
  BY <1>h, NoEffect DEF StartUpdate, service, Held
<1>1. CASE HasChange(s, "metadata")
  <2>1. Keyed(have[s].metadata) \in SUBSET CallsIn("deleting") /\ "deleting" \in Phases
    BY DEF Keyed, CallsIn, Phases
  <2>2. /\ Controlled(s) /\ at'[s] = "deleting" /\ todo'[s] = Keyed(have[s].metadata) /\ have'[s] = have[s]
        /\ fips'[s] = fips[s] /\ want'[s] = want[s]
    BY <1>h, <1>1, <2>1, GotoFacts DEF StartUpdate
  <2>3. InterfacesHeld(s)' /\ Trunks(s)'
    BY <1>h, <1>e, <2>2 DEF Held, InterfacesHeld, Trunks, Old
  <2>4. MetadataHeld(s)'
    BY <2>2 DEF MetadataHeld
  <2>5. FipsHeld(s) => FipsHeld(s)'
    BY <1>h, <1>e, <2>2 DEF FipsHeld, Due, InOrder, Old, Desired, HasChange, PortOf
  <2> QED BY <1>e, <1>h, <2>2, <2>3, <2>4, <2>5, StepsAside DEF Held
<1>2. CASE ~HasChange(s, "metadata")
  <2>1. {} \in SUBSET CallsIn("listing") /\ "listing" \in Phases
    BY DEF Phases
  <2>2. /\ Controlled(s) /\ at'[s] = "listing" /\ todo'[s] = {} /\ have'[s] = have[s]
        /\ fips'[s] = fips[s] /\ want'[s] = want[s]
    BY <1>h, <1>2, <2>1, GotoFacts DEF StartUpdate
  <2>3. InterfacesHeld(s)' /\ Trunks(s)'
    BY <1>h, <1>e, <2>2 DEF Held, InterfacesHeld, Trunks, Old
  <2>4. MetadataHeld(s) => MetadataHeld(s)'
    <3>1. have[s].metadata = want[s].metadata
      BY <1>2 DEF HasChange
    <3> QED BY <1>h, <1>e, <2>2, <3>1 DEF MetadataHeld
  <2>5. FipsHeld(s) => FipsHeld(s)'
    BY <1>h, <1>e, <2>2 DEF FipsHeld, Due, InOrder, Old, Desired, HasChange, PortOf
  <2> QED BY <1>e, <1>h, <2>2, <2>3, <2>4, <2>5, StepsAside DEF Held
<1> QED BY <1>1, <1>2

LEMMA DeleteKeyStep ==
  ASSUME ServersInv, NEW s \in Servers, NEW k \in Keys, DeleteKey(s, k)
  PROVE  ServersInv'
<1>h. ServersTypeOK /\ Held(s) /\ touched \subseteq Servers /\ at[s] = "deleting" /\ metadata[s] \in Metadata
  BY HeldFacts DEF DeleteKey, ServersTypeOK, ServiceTypeOK
<1> DEFINE m == [metadata[s] EXCEPT ![k] = None]
<1>1. m \in Metadata
  BY <1>h DEF Metadata
<1>2. metadata' = [metadata EXCEPT ![s] = m]
  BY <1>h DEF DeleteKey, ServersTypeOK, ServiceTypeOK
<1>e. Effective(s) /\ metadata'[s] = m /\ UNCHANGED <<attached, assigned, touched>>
  BY <1>h, <1>1, <1>2, MetadataEffect DEF DeleteKey, Held
<1>c. /\ Controlled(s) /\ at' = at /\ todo'[s] = todo[s] \ {k} /\ have'[s] = have[s]
      /\ fips'[s] = fips[s] /\ want'[s] = want[s]
  BY <1>h, CalledFacts DEF DeleteKey
<1>3. InterfacesHeld(s)' /\ Trunks(s)'
  BY <1>h, <1>e, <1>c DEF Held, InterfacesHeld, Trunks, Old
<1>4. MetadataHeld(s) => MetadataHeld(s)'
  <2>1. \A l \in Keys : m[l] = IF l = k THEN None ELSE metadata[s][l]
    BY <1>h DEF Metadata
  <2> QED BY <1>h, <1>e, <1>c, <2>1 DEF MetadataHeld, Keyed
<1>5. FipsHeld(s) => FipsHeld(s)'
  BY <1>h, <1>e, <1>c DEF FipsHeld, Due, InOrder, Old, Desired, HasChange, PortOf
<1> QED BY <1>e, <1>h, <1>c, <1>3, <1>4, <1>5, StepsAside DEF Held

LEMMA CreateKeysStep ==
  ASSUME ServersInv, NEW s \in Servers, CreateKeys(s)
  PROVE  ServersInv'
<1>h. /\ ServersTypeOK /\ Held(s) /\ touched \subseteq Servers /\ at[s] = "deleting" /\ todo[s] = {}
      /\ metadata[s] \in Metadata /\ want[s] \in Settings(s)
  BY HeldFacts DEF CreateKeys, ServersTypeOK, ServiceTypeOK
<1>1. Created(s) \in Metadata
  BY <1>h, SettingsFacts DEF Metadata, Created
<1>e. Effective(s) /\ metadata'[s] = Created(s) /\ UNCHANGED <<attached, assigned, touched>>
  BY <1>h, <1>1, MetadataEffect DEF CreateKeys, Held
<1>2. {} \in SUBSET CallsIn("listing") /\ "listing" \in Phases
  BY DEF Phases
<1>c. /\ Controlled(s) /\ at'[s] = "listing" /\ todo'[s] = {} /\ have'[s] = have[s]
      /\ fips'[s] = fips[s] /\ want'[s] = want[s]
  BY <1>h, <1>2, GotoFacts DEF CreateKeys
<1>3. InterfacesHeld(s)' /\ Trunks(s)'
  BY <1>h, <1>e, <1>c DEF Held, InterfacesHeld, Trunks, Old
<1>4. MetadataHeld(s) => MetadataHeld(s)'
  <2>1. \A l \in Keys : Created(s)[l] = IF want[s].metadata[l] = None THEN metadata[s][l] ELSE want[s].metadata[l]
    BY DEF Created
  <2> QED BY <1>h, <1>e, <1>c, <2>1 DEF MetadataHeld, Keyed
<1>5. FipsHeld(s) => FipsHeld(s)'
  BY <1>h, <1>e, <1>c DEF FipsHeld, Due, InOrder, Old, Desired, HasChange, PortOf
<1> QED BY <1>e, <1>h, <1>c, <1>3, <1>4, <1>5, StepsAside DEF Held

(* The floating IPs an update shall leave assigned have one place each.    *)
LEMMA DueFacts ==
  ASSUME ServersInv, NEW s \in Servers, NEW d \in Due(s)
  PROVE  /\ d = <<d[1], d[2]>> /\ d[1] \in FloatingIPs /\ d[2] \in Items
         /\ s \in Instances => d[2] \in Old(s) /\ d[1] = have[s].interface[d[2]]
         /\ s \notin Instances => d[2] \in Desired(s) /\ d[1] = want[s].interface[d[2]]
         /\ s \notin Instances => HasChange(s, "interface")
<1>w. have[s] \in Recorded /\ want[s] \in Settings(s)
  BY HeldFacts
<1>1. CASE s \in Instances
  <2>1. PICK x \in Old(s) : d = <<have[s].interface[x], x>> /\ have[s].interface[x] # None
    BY <1>1 DEF Due
  <2>2. have[s].interface[x] \in FloatingIPs /\ x \in Items
    BY <1>w, <2>1, RecordedFacts DEF Old
  <2> QED BY <1>1, <2>1, <2>2
<1>2. CASE s \notin Instances
  <2>1. PICK x \in Desired(s) : d = <<want[s].interface[x], x>>
    BY <1>2 DEF Due
  <2>2. HasChange(s, "interface")
    BY <1>2 DEF Due
  <2>3. x \in Wanted(s) /\ want[s].interface[x] # None
    BY <2>1 DEF Desired, Wanted
  <2>4. want[s].interface[x] \in FloatingIPs /\ x \in Items
    BY <1>w, <2>3, SettingsFacts DEF Wanted
  <2> QED BY <1>2, <2>1, <2>2, <2>4
<1> QED BY <1>1, <1>2

LEMMA ListInterfacesStep ==
  ASSUME ServersInv, NEW s \in Servers, ListInterfaces(s)
  PROVE  ServersInv'
<1>h. /\ ServersTypeOK /\ Held(s) /\ InterfacesHeld(s) /\ Trunks(s)
      /\ touched \subseteq Servers /\ have[s] \in Recorded /\ at[s] = "listing"
      /\ attached[s] \subseteq Items /\ Old(s) \subseteq Items
  BY HeldFacts, RecordedFacts DEF ListInterfaces, ServersTypeOK, ServiceTypeOK, Old
<1>e. Effective(s) /\ UNCHANGED <<metadata, attached, assigned, touched>>
  BY <1>h, NoEffect DEF ListInterfaces, service
<1>1. CASE ~HasChange(s, "interface")
  <2>1. {} \in SUBSET CallsIn("reading") /\ "reading" \in Phases
    BY DEF Phases
  <2>2. /\ Controlled(s) /\ at'[s] = "reading" /\ todo'[s] = {} /\ have'[s] = have[s]
        /\ fips'[s] = fips[s] /\ want'[s] = want[s]
    BY <1>h, <1>1, <2>1, GotoFacts DEF ListInterfaces
  <2>3. Wanted(s) = Old(s)
    BY <1>1 DEF HasChange, Wanted, Old
  <2>4. InterfacesHeld(s)' /\ Trunks(s)'
    BY <1>h, <1>e, <2>2, <2>3 DEF InterfacesHeld, Trunks, Old, Wanted
  <2>5. MetadataHeld(s) => MetadataHeld(s)'
    BY <1>h, <1>e, <2>2 DEF MetadataHeld
  <2>6. FipsHeld(s) => FipsHeld(s)'
    BY <1>h, <1>e, <1>1, <2>2 DEF FipsHeld, Due, InOrder, Old, Desired, HasChange, PortOf
  <2> QED BY <1>e, <1>h, <2>2, <2>4, <2>5, <2>6, StepsAside DEF Held
<1>2. CASE HasChange(s, "interface")
  <2> DEFINE found == {d \in FloatingIPs \X attached[s] : s \in Instances /\ assigned[d[1]] = PortOf(s, d[2])}
             calls == IF s \in Instances THEN Old(s) ELSE Old(s) \ Wanted(s)
  <2>1. calls \in SUBSET CallsIn("detaching") /\ "detaching" \in Phases
    BY <1>h DEF CallsIn, Phases
  <2>2. fips' = [fips EXCEPT ![s] = found] /\ Goto(s, "detaching", calls)
    BY <1>2 DEF ListInterfaces, Old, Wanted
  <2>3. found \subseteq FloatingIPs \X Items
    BY <1>h
  <2>4. /\ HandlersTypeOK /\ CountersTypeOK /\ have \in [Servers -> Recorded]
    BY <1>h DEF ServersTypeOK
  <2>5. /\ fips' \in [Servers -> SUBSET (FloatingIPs \X Items)]
        /\ \A t \in Servers : fips'[t] = IF t = s THEN found ELSE fips[t]
    BY <2>2, <2>3, <2>4 DEF HandlersTypeOK
  <2>6. /\ at' \in [Servers -> Phases]
        /\ \A t \in Servers : at'[t] = IF t = s THEN "detaching" ELSE at[t]
    BY <2>1, <2>2, <2>4 DEF Goto, HandlersTypeOK
  <2>7. calls \subseteq Keys \cup Items \cup (FloatingIPs \X (Items \cup {None}))
    BY <1>h
  <2>8. /\ todo' \in [Servers -> SUBSET (Keys \cup Items \cup (FloatingIPs \X (Items \cup {None})))]
        /\ \A t \in Servers : todo'[t] = IF t = s THEN calls ELSE todo[t]
    BY <2>2, <2>4, <2>7 DEF Goto, HandlersTypeOK
  <2>9. \A t \in Servers : todo'[t] \subseteq CallsIn(at'[t])
    BY <2>1, <2>4, <2>6, <2>8 DEF HandlersTypeOK
  <2>10. HandlersTypeOK' /\ CountersTypeOK'
    BY <1>e, <2>4, <2>5, <2>6, <2>8, <2>9 DEF HandlersTypeOK, ListInterfaces, CountersTypeOK, counters
  <2>11. want' = want /\ have' = have
    BY DEF ListInterfaces
  <2>12. Controlled(s)
    BY <1>h, <2>4, <2>5, <2>6, <2>8, <2>10, <2>11 DEF Controlled
  <2>13. /\ at'[s] = "detaching" /\ todo'[s] = calls /\ fips'[s] = found
         /\ have'[s] = have[s] /\ want'[s] = want[s]
         /\ Old(s)' = Old(s) /\ Wanted(s)' = Wanted(s) /\ HasChange(s, "interface")'
    BY <1>2, <2>5, <2>6, <2>8, <2>11 DEF Old, Wanted, HasChange
  <2>14. InterfacesHeld(s)'
    <3>1. Old(s) \subseteq attached[s] /\ attached'[s] = attached[s]
      BY <1>h, <1>e DEF InterfacesHeld
    <3>2. s \in Baremetals => s \notin Instances
      BY NamesAssumption
    <3> QED BY <2>13, <3>1, <3>2 DEF InterfacesHeld
  <2>15. Trunks(s)'
    <3>1. s \in Instances => attached[s] \subseteq Ports \cup Subnets
      BY <1>h DEF Trunks, Items
    <3>2. s \in Baremetals => s \notin Instances
      BY NamesAssumption
    <3>3. found \subseteq FloatingIPs \X (Ports \cup Subnets) /\ (s \in Baremetals => found = {})
      BY <3>1, <3>2
    <3> QED BY <1>h, <1>e, <2>13, <3>3 DEF Trunks
  <2>16. MetadataHeld(s) => MetadataHeld(s)'
    BY <1>h, <1>e, <2>13 DEF MetadataHeld
  <2>17. FipsHeld(s) => FipsHeld(s)'
    <3> SUFFICES ASSUME FipsHeld(s), NEW d \in Due(s), s \in Instances
                 PROVE  d \in found /\ \A e \in found : e[1] = d[1] => e = d
      <4>1. Due(s)' = Due(s)
        BY <2>11, <2>13 DEF Due, Desired, Old, HasChange
      <4> QED BY <2>13, <4>1 DEF FipsHeld
    <3>1. d = <<d[1], d[2]>> /\ d[1] \in FloatingIPs /\ d[2] \in Items /\ d[2] \in attached[s]
      BY <1>h, DueFacts DEF InterfacesHeld
    <3>2. assigned[d[1]] = PortOf(s, d[2])
      BY <1>h DEF FipsHeld, InOrder
    <3>3. ASSUME NEW e \in found, e[1] = d[1]
          PROVE  e = d
      <4>1. e = <<e[1], e[2]>> /\ e[2] \in Items /\ PortOf(s, e[2]) = PortOf(s, d[2])
        BY <1>h, <3>2, <3>3
      <4>2. e[2] = d[2]
        BY <3>1, <4>1, PortFacts
      <4> QED BY <3>1, <3>3, <4>1, <4>2
    <3>4. d \in FloatingIPs \X attached[s]
      BY <3>1
    <3> QED BY <3>2, <3>3, <3>4
  <2> QED BY <1>e, <1>h, <2>12, <2>14, <2>15, <2>16, <2>17, StepsAside DEF Held
<1> QED BY <1>1, <1>2

LEMMA DetachStep ==
  ASSUME ServersInv, NEW s \in Servers, NEW x \in Items, Detach(s, x)
  PROVE  ServersInv'
<1>h. /\ ServersTypeOK /\ Held(s) /\ InterfacesHeld(s) /\ Trunks(s)
      /\ touched \subseteq Servers /\ at[s] = "detaching" /\ x \in todo[s]
  BY HeldFacts DEF Detach
<1>e. Effective(s) /\ attached'[s] = attached[s] \ {x} /\ UNCHANGED <<metadata, touched>>
  BY <1>h, DetachEffect DEF Detach
<1>c. /\ Controlled(s) /\ at' = at /\ todo'[s] = todo[s] \ {x} /\ have'[s] = have[s]
      /\ fips'[s] = fips[s] /\ want'[s] = want[s]
  BY <1>h, CalledFacts DEF Detach
<1>1. InterfacesHeld(s)'
  <2>1. Old(s)' = Old(s) /\ Wanted(s)' = Wanted(s) /\ HasChange(s, "interface")' = HasChange(s, "interface")
    BY <1>c DEF Old, Wanted, HasChange
  <2> QED BY <1>h, <1>e, <1>c, <2>1 DEF InterfacesHeld
<1>2. Trunks(s)'
  BY <1>h, <1>e, <1>c DEF Effective, Trunks, Old
<1>3. MetadataHeld(s) => MetadataHeld(s)'
  BY <1>h, <1>e, <1>c DEF MetadataHeld
<1>4. FipsHeld(s) => FipsHeld(s)'
  <2>1. Due(s)' = Due(s)
    BY <1>c DEF Due, Old, Desired, HasChange
  <2> QED BY <1>h, <1>c, <2>1 DEF FipsHeld
<1> QED BY <1>e, <1>h, <1>c, <1>1, <1>2, <1>3, <1>4, StepsAside DEF Held

LEMMA AllDetachedStep ==
  ASSUME ServersInv, NEW s \in Servers, AllDetached(s)
  PROVE  ServersInv'
<1>h. /\ ServersTypeOK /\ Held(s) /\ InterfacesHeld(s) /\ Trunks(s)
      /\ touched \subseteq Servers /\ at[s] = "detaching" /\ todo[s] = {} /\ Wanted(s) \subseteq Items
  BY HeldFacts, SettingsFacts DEF AllDetached, Wanted
<1>e. Effective(s) /\ UNCHANGED <<metadata, attached, assigned, touched>>
  BY <1>h, NoEffect DEF AllDetached, service
<1> DEFINE calls == IF s \in Instances THEN Wanted(s) ELSE Wanted(s) \ (Old(s) \cup attached[s])
<1>1. calls \in SUBSET CallsIn("attaching") /\ "attaching" \in Phases
  BY <1>h DEF Phases, CallsIn
<1>2. Goto(s, "attaching", calls) /\ UNCHANGED <<want, have, fips, counters>>
  BY DEF AllDetached, Wanted, Old
<1>c. /\ Controlled(s) /\ at'[s] = "attaching" /\ todo'[s] = calls /\ have'[s] = have[s]
      /\ fips'[s] = fips[s] /\ want'[s] = want[s]
  BY <1>h, <1>e, <1>1, <1>2, GotoFacts
<1>3. InterfacesHeld(s)'
  <2>1. Old(s)' = Old(s) /\ Wanted(s)' = Wanted(s) /\ HasChange(s, "interface")' = HasChange(s, "interface")
    BY <1>c DEF Old, Wanted, HasChange
  <2>2. s \in Instances \/ s \in Baremetals
    BY DEF Servers
  <2> QED BY <1>h, <1>e, <1>c, <2>1, <2>2 DEF InterfacesHeld
<1>4. Trunks(s)'
  BY <1>h, <1>e, <1>c DEF Trunks, Old
<1>5. MetadataHeld(s) => MetadataHeld(s)'
  BY <1>h, <1>e, <1>c DEF MetadataHeld
<1>6. FipsHeld(s) => FipsHeld(s)'
  <2>1. Due(s)' = Due(s)
    BY <1>c DEF Due, Old, Desired, HasChange
  <2> QED BY <1>h, <1>c, <2>1 DEF FipsHeld
<1> QED BY <1>e, <1>h, <1>c, <1>3, <1>4, <1>5, <1>6, StepsAside DEF Held

LEMMA AttachStep ==
  ASSUME ServersInv, NEW s \in Servers, NEW x \in Items, Attach(s, x)
  PROVE  ServersInv'
<1>h. /\ ServersTypeOK /\ Held(s) /\ InterfacesHeld(s) /\ Trunks(s)
      /\ touched \subseteq Servers /\ at[s] = "attaching" /\ x \in todo[s]
  BY HeldFacts DEF Attach
<1>e. Effective(s) /\ attached'[s] = attached[s] \cup {x} /\ UNCHANGED <<metadata, assigned, touched>>
  BY <1>h, AttachEffect DEF Attach
<1>c. /\ Controlled(s) /\ at' = at /\ todo'[s] = todo[s] \ {x} /\ have'[s] = have[s]
      /\ fips'[s] = fips[s] /\ want'[s] = want[s]
  BY <1>h, CalledFacts DEF Attach
<1>1. InterfacesHeld(s)'
  <2>1. Old(s)' = Old(s) /\ Wanted(s)' = Wanted(s) /\ HasChange(s, "interface")' = HasChange(s, "interface")
    BY <1>c DEF Old, Wanted, HasChange
  <2> QED BY <1>h, <1>e, <1>c, <2>1 DEF InterfacesHeld
<1>2. Trunks(s)'
  BY <1>h, <1>e, <1>c DEF Effective, Trunks, Old
<1>3. MetadataHeld(s) => MetadataHeld(s)'
  BY <1>h, <1>e, <1>c DEF MetadataHeld
<1>4. FipsHeld(s) => FipsHeld(s)'
  <2>1. Due(s)' = Due(s)
    BY <1>c DEF Due, Old, Desired, HasChange
  <2> QED BY <1>h, <1>c, <2>1 DEF FipsHeld
<1> QED BY <1>e, <1>h, <1>c, <1>1, <1>2, <1>3, <1>4, StepsAside DEF Held

(* A bare metal server's assignments bring what is due and is not there.   *)
LEMMA AssignmentFacts ==
  ASSUME ServersInv, NEW s \in Servers
  PROVE  /\ Assignments(s) \subseteq FloatingIPs \X (Ports \cup {Trunk, None})
         /\ \A x \in Desired(s) :
              /\ <<want[s].interface[x], x>> \in Assignments(s) \/ (x = Trunk /\ assigned[want[s].interface[x]] = <<s, Trunk>>)
              /\ \A e \in Assignments(s) : e[1] = want[s].interface[x] => e[2] = x
<1>w. want[s] \in Settings(s)
  BY HeldFacts
<1>1. \A x \in Desired(s) :
        x \in Wanted(s) /\ x \in Ports \cup {Trunk} /\ want[s].interface[x] \in FloatingIPs
  BY <1>w, SettingsFacts DEF Desired, Wanted, Items
<1>2. ASSUME NEW e \in Assignments(s)
      PROVE  \/ \E x \in Desired(s) : e = <<want[s].interface[x], x>>
             \/ \E f \in FloatingIPs : e = <<f, None>> /\ ~\E x \in Desired(s) : want[s].interface[x] = f
  BY DEF Assignments
<1>3. Assignments(s) \subseteq FloatingIPs \X (Ports \cup {Trunk, None})
  BY <1>1, <1>2
<1>4. ASSUME NEW x \in Desired(s)
      PROVE  <<want[s].interface[x], x>> \in Assignments(s) \/ (x = Trunk /\ assigned[want[s].interface[x]] = <<s, Trunk>>)
  BY DEF Assignments
<1>5. ASSUME NEW x \in Desired(s), NEW e \in Assignments(s), e[1] = want[s].interface[x]
      PROVE  e[2] = x
  <2>1. PICK y \in Desired(s) : e = <<want[s].interface[y], y>>
    BY <1>2, <1>5
  <2>2. want[s].interface[y] = want[s].interface[x] /\ want[s].interface[x] # None
    BY <1>5, <2>1 DEF Desired
  <2>3. x = y
    BY <1>w, <1>1, <2>2, SettingsFacts DEF Wanted
  <2> QED BY <2>1, <2>3
<1> QED BY <1>3, <1>4, <1>5

LEMMA AllAttachedStep ==
  ASSUME ServersInv, NEW s \in Servers, AllAttached(s)
  PROVE  ServersInv'
<1>h. /\ ServersTypeOK /\ Held(s) /\ InterfacesHeld(s) /\ Trunks(s)
      /\ touched \subseteq Servers /\ at[s] = "attaching" /\ todo[s] = {}
  BY HeldFacts DEF AllAttached
<1>e. Effective(s) /\ UNCHANGED <<metadata, attached, assigned, touched>>
  BY <1>h, NoEffect DEF AllAttached, service
<1> DEFINE calls == IF s \in Instances THEN fips[s] ELSE Assignments(s)
<1>1. /\ calls \subseteq FloatingIPs \X IF s \in Instances THEN Ports \cup Subnets ELSE Ports \cup {Trunk, None}
      /\ calls \subseteq FloatingIPs \X (Items \cup {None})
  BY <1>h, AssignmentFacts DEF Trunks, Items
<1>2. calls \in SUBSET CallsIn("assigning") /\ "assigning" \in Phases
  BY <1>1 DEF Phases, CallsIn
<1>c. /\ Controlled(s) /\ at'[s] = "assigning" /\ todo'[s] = calls /\ have'[s] = have[s]
      /\ fips'[s] = fips[s] /\ want'[s] = want[s]
  BY <1>h, <1>e, <1>2, GotoFacts DEF AllAttached
<1>3. InterfacesHeld(s)'
  <2>1. Old(s)' = Old(s) /\ Wanted(s)' = Wanted(s) /\ HasChange(s, "interface")' = HasChange(s, "interface")
    BY <1>c DEF Old, Wanted, HasChange
  <2> QED BY <1>h, <1>e, <1>c, <2>1 DEF InterfacesHeld
<1>4. Trunks(s)'
  BY <1>h, <1>e, <1>c, <1>1 DEF Trunks, Old
<1>5. MetadataHeld(s) => MetadataHeld(s)'
  BY <1>h, <1>e, <1>c DEF MetadataHeld
<1>6. FipsHeld(s) => FipsHeld(s)'
  <2> SUFFICES ASSUME FipsHeld(s), NEW d \in Due(s)
               PROVE  /\ d \in calls \/ InOrder(s, d)
                      /\ \A e \in calls : e[1] = d[1] => e = d
    <3>1. Due(s)' = Due(s)
      BY <1>c DEF Due, Old, Desired, HasChange
    <3>2. \A d \in Due(s) : InOrder(s, d)' = InOrder(s, d)
      BY <1>e DEF InOrder, PortOf
    <3> QED BY <1>c, <3>1, <3>2 DEF FipsHeld
  <2>1. CASE s \in Instances
    BY <1>h, <2>1 DEF FipsHeld
  <2>2. CASE s \notin Instances
    <3>1. /\ d = <<d[1], d[2]>> /\ d[2] \in Desired(s) /\ d[1] = want[s].interface[d[2]]
      BY <2>2, DueFacts
    <3>2. d \in calls \/ InOrder(s, d)
      <4>1. Trunk \notin Ports
        BY NamesAssumption
      <4> QED BY <2>2, <3>1, <4>1, AssignmentFacts DEF InOrder, PortOf
    <3>3. ASSUME NEW e \in calls, e[1] = d[1]
          PROVE  e = d
      <4>1. e[2] = d[2]
        BY <2>2, <3>1, <3>3, AssignmentFacts
      <4>2. e = <<e[1], e[2]>>
        BY <1>1
      <4> QED BY <3>1, <3>3, <4>1, <4>2
    <3> QED BY <3>2, <3>3
  <2> QED BY <2>1, <2>2
<1> QED BY <1>e, <1>h, <1>c, <1>3, <1>4, <1>5, <1>6, StepsAside DEF Held

LEMMA AssignStep ==
  ASSUME ServersInv, NEW s \in Servers, NEW f \in FloatingIPs, NEW x \in Items \cup {None}, Assign(s, f, x)
  PROVE  ServersInv'
<1>h. /\ ServersTypeOK /\ Held(s) /\ InterfacesHeld(s) /\ Trunks(s)
      /\ touched \subseteq Servers /\ at[s] = "assigning" /\ <<f, x>> \in todo[s]
  BY HeldFacts DEF Assign, Assigned
<1>e. Effective(s) /\ UNCHANGED <<metadata, attached>>
  BY <1>h, AssignEffect DEF Assign
<1>1. \A g \in FloatingIPs :
           assigned'[g] = IF g # f THEN assigned[g] ELSE IF x = None THEN None ELSE PortOf(s, x)
  BY <1>h, AssignedTypes DEF Assign
<1>c. /\ Controlled(s) /\ at' = at /\ todo'[s] = todo[s] \ {<<f, x>>} /\ have'[s] = have[s]
      /\ fips'[s] = fips[s] /\ want'[s] = want[s]
  BY <1>h, <1>e, CalledFacts DEF Assign, Effective
<1>3. InterfacesHeld(s)'
  <2>1. Old(s)' = Old(s) /\ Wanted(s)' = Wanted(s) /\ HasChange(s, "interface")' = HasChange(s, "interface")
    BY <1>c DEF Old, Wanted, HasChange
  <2> QED BY <1>h, <1>e, <1>c, <2>1 DEF InterfacesHeld
<1>4. Trunks(s)'
  BY <1>h, <1>e, <1>c DEF Trunks, Old
<1>5. MetadataHeld(s) => MetadataHeld(s)'
  BY <1>h, <1>e, <1>c DEF MetadataHeld
<1>6. FipsHeld(s) => FipsHeld(s)'
  <2> SUFFICES ASSUME FipsHeld(s), NEW d \in Due(s)
               PROVE  /\ d \in todo[s] \ {<<f, x>>} \/ assigned'[d[1]] = PortOf(s, d[2])
                      /\ \A e \in todo[s] \ {<<f, x>>} : e[1] = d[1] => e = d
    <3>1. Due(s)' = Due(s)
      BY <1>c DEF Due, Old, Desired, HasChange
    <3>2. \A d \in Due(s) : InOrder(s, d)' <=> assigned'[d[1]] = PortOf(s, d[2])
      BY DEF InOrder, PortOf
    <3> QED BY <1>h, <1>c, <3>1, <3>2 DEF FipsHeld
  <2>1. /\ d \in todo[s] \/ assigned[d[1]] = PortOf(s, d[2])
        /\ \A e \in todo[s] : e[1] = d[1] => e = d
    BY <1>h DEF FipsHeld, InOrder
  <2>2. d = <<d[1], d[2]>> /\ d[1] \in FloatingIPs /\ d[2] \in Items /\ d[2] # None
    BY DueFacts, NamesAssumption
  <2>3. CASE d[1] = f
    <3>1. d = <<f, x>>
      BY <1>h, <2>1, <2>3
    <3>2. assigned'[d[1]] = PortOf(s, d[2])
      BY <1>1, <2>2, <3>1
    <3> QED BY <2>1, <3>2
  <2>4. CASE d[1] # f
    <3>1. assigned'[d[1]] = assigned[d[1]] /\ d # <<f, x>>
      BY <1>1, <2>2, <2>4
    <3> QED BY <2>1, <3>1
  <2> QED BY <2>3, <2>4
<1> QED BY <1>e, <1>h, <1>c, <1>3, <1>4, <1>5, <1>6, StepsAside DEF Held, Effective

LEMMA AllAssignedStep ==
  ASSUME ServersInv, NEW s \in Servers, AllAssigned(s)
  PROVE  ServersInv'
<1>h. /\ ServersTypeOK /\ Held(s) /\ InterfacesHeld(s) /\ Trunks(s)
      /\ touched \subseteq Servers /\ at[s] = "assigning" /\ todo[s] = {}
  BY HeldFacts DEF AllAssigned
<1>e. Effective(s) /\ UNCHANGED <<metadata, attached, assigned, touched>>
  BY <1>h, NoEffect DEF AllAssigned, service
<1>1. {} \in SUBSET CallsIn("reading") /\ "reading" \in Phases
  BY DEF Phases
<1>c. /\ Controlled(s) /\ at'[s] = "reading" /\ todo'[s] = {} /\ have'[s] = have[s]
      /\ fips'[s] = fips[s] /\ want'[s] = want[s]
  BY <1>h, <1>1, GotoFacts DEF AllAssigned
<1>3. InterfacesHeld(s)'
  <2>1. Old(s)' = Old(s) /\ Wanted(s)' = Wanted(s)
    BY <1>c DEF Old, Wanted
  <2> QED BY <1>h, <1>e, <1>c, <2>1 DEF InterfacesHeld
<1>4. Trunks(s)'
  BY <1>h, <1>e, <1>c DEF Trunks, Old
<1>5. MetadataHeld(s) => MetadataHeld(s)'
  BY <1>h, <1>e, <1>c DEF MetadataHeld
<1>6. FipsHeld(s) => FipsHeld(s)'
  <2>1. Due(s)' = Due(s)
    BY <1>c DEF Due, Old, Desired, HasChange
  <2>2. \A d \in Due(s) : InOrder(s, d)' = InOrder(s, d)
    BY <1>e DEF InOrder, PortOf
  <2> QED BY <1>h, <1>c, <2>1, <2>2 DEF FipsHeld
<1> QED BY <1>e, <1>h, <1>c, <1>3, <1>4, <1>5, <1>6, StepsAside DEF Held

-----------------------------------------------------------------------------
(* The steps that end an update.                                           *)
LEMMA ReturnStep ==
  ASSUME ServersInv, NEW s \in Servers, NEW r \in Recorded, Return(s, r), at[s] # "done",
         s \in Instances => Trunk \notin DOMAIN r.interface,
         Effective(s), UNCHANGED want, CountersTypeOK'
  PROVE  ServersInv'
BY HeldFacts, ReturnFacts, StepsAside

LEMMA PlannedIsRecorded ==
  ASSUME ServersInv, NEW s \in Servers, Return(s, want[s]), at[s] # "done", Effective(s),
         UNCHANGED want, CountersTypeOK'
  PROVE  ServersInv'
BY HeldFacts, ReturnStep DEF Wanted

LEMMA QuietReturns ==
  ASSUME ServersInv, NEW s \in Servers,
         \/ \E k \in Keys : KeyGone(s, k)
         \/ \E x \in Items : AttachRefused(s, x)
         \/ \E f \in FloatingIPs, x \in Items \cup {None} : AssignRefused(s, f, x)
         \/ ReadServer(s)
  PROVE  ServersInv'
<1>1. at[s] # "done" /\ UNCHANGED <<want, service, touched, counters>>
  BY DEF KeyGone, AttachRefused, AssignRefused, ReadServer
<1>2. Effective(s)
  BY <1>1, HeldFacts, NoEffect
<1>3. CountersTypeOK'
  BY <1>1 DEF ServersInv, ServersTypeOK, CountersTypeOK, counters
<1>4. CASE ReadServer(s) /\ Missing(s, want[s]) = {}
  <2>1. /\ ReadInto(s, want[s]) \in Recorded
        /\ s \in Instances => DOMAIN ReadInto(s, want[s]).interface = attached[s]
    BY HeldFacts, ReadIntoTypes
  <2>2. s \in Instances => Trunk \notin attached[s]
    BY HeldFacts DEF Trunks
  <2>3. Return(s, ReadInto(s, want[s]))
    BY <1>4 DEF ReadServer
  <2> QED BY <1>1, <1>2, <1>3, <2>1, <2>2, <2>3, ReturnStep
<1>5. CASE Return(s, want[s])
  BY <1>1, <1>2, <1>3, <1>5, PlannedIsRecorded
<1> QED BY <1>4, <1>5 DEF KeyGone, AttachRefused, AssignRefused, ReadServer

LEMMA ServerCallFailsStep ==
  ASSUME ServersInv, NEW s \in Servers, ServerCallFails(s)
  PROVE  ServersInv'
<1>h. /\ ServersTypeOK /\ Held(s) /\ Trunks(s) /\ todo[s] \subseteq CallsIn(at[s])
      /\ metadata[s] \in Metadata /\ want[s] \in Settings(s)
  BY HeldFacts DEF ServersTypeOK, ServiceTypeOK
<1>1. at[s] # "done"
  <2>1. at[s] = "done" => todo[s] = {}
    BY <1>h DEF CallsIn
  <2> QED BY <2>1 DEF ServerCallFails, Calling
<1>2. CountersTypeOK'
  <2>1. {faults, outside} \subseteq Nat /\ changes \in 0..MaxChanges /\ MaxMishaps \in Nat
    BY <1>h, MishapsAssumption DEF ServersTypeOK, CountersTypeOK
  <2>2. faults + 1 \in Nat /\ (faults + 1) + outside <= MaxMishaps
    BY <2>1 DEF ServerCallFails
  <2>3. faults' = faults + 1 /\ outside' = outside /\ changes' = changes
    BY DEF ServerCallFails
  <2> QED BY <2>1, <2>2, <2>3 DEF CountersTypeOK
<1>3. CASE UNCHANGED <<service, touched>>
  BY <1>h, <1>3, NoEffect, <1>1, <1>2, PlannedIsRecorded DEF ServerCallFails
<1>4. CASE Effect(s)
  <2>1. Effective(s)
    <3>1. CASE at[s] = "deleting" /\ UNCHANGED <<attached, assigned, touched>>
      <4>1. ASSUME NEW k \in todo[s], metadata' = [metadata EXCEPT ![s][k] = None]
            PROVE  Effective(s)
        <5> DEFINE m == [metadata[s] EXCEPT ![k] = None]
        <5>1. m \in Metadata
          BY <1>h DEF Metadata
        <5>2. metadata' = [metadata EXCEPT ![s] = m]
          BY <1>h, <4>1 DEF ServersTypeOK, ServiceTypeOK
        <5> HIDE DEF m
        <5> QED BY <1>h, <3>1, <5>1, <5>2, MetadataEffect
      <4>2. ASSUME metadata' = [metadata EXCEPT ![s] = Created(s)]
            PROVE  Effective(s)
        <5>1. Created(s) \in Metadata
          BY <1>h, SettingsFacts DEF Metadata, Created
        <5> QED BY <1>h, <3>1, <4>2, <5>1, MetadataEffect
      <4> QED BY <1>4, <3>1, <4>1, <4>2 DEF Effect
    <3>2. CASE at[s] \in {"detaching", "attaching"} /\ UNCHANGED <<metadata, touched>>
      <4>1. PICK x \in todo[s] :
              IF at[s] = "detaching" THEN Detached(s, x)
                                     ELSE ~InUse(s, x) /\ Attached(s, x) /\ UNCHANGED assigned
        BY <1>4, <3>2 DEF Effect
      <4> QED BY <1>h, <3>2, <4>1, DetachEffect, AttachEffect
    <3>3. CASE at[s] = "assigning" /\ UNCHANGED <<metadata, attached>>
      <4>1. PICK f \in FloatingIPs, x \in Items \cup {None} : Assigned(s, f, x)
        BY <1>4, <3>3 DEF Effect
      <4> QED BY <1>h, <3>3, <4>1, AssignEffect
    <3> QED BY <1>4, <3>1, <3>2, <3>3 DEF Effect
  <2> QED BY <1>1, <1>2, <2>1, PlannedIsRecorded DEF ServerCallFails
<1> QED BY <1>3, <1>4 DEF ServerCallFails

-----------------------------------------------------------------------------
(* The steps of Terraform, of the configuration and of somebody else.      *)
LEMMA StartRunStep ==
  ASSUME ServersInv, StartRun
  PROVE  ServersInv'
<1>h. /\ ServersTypeOK /\ HandlersTypeOK /\ AllDone /\ \A s \in Servers : todo[s] = {}
      /\ UNCHANGED <<want, service, todo, fips, counters>> /\ touched' = {}
  BY DEF ServersInv, ServersTypeOK, HandlersTypeOK, CallsIn, StartRun, AllDone
<1>w. want' \in Configurations
  BY <1>h DEF ServersInv
<1>s. /\ \A s \in Servers : want'[s] \in Settings(s)
      /\ ServiceTypeOK' /\ CountersTypeOK'
  BY <1>h DEF ServersTypeOK, ServiceTypeOK, CountersTypeOK, service, counters
<1>1. CASE UNCHANGED <<have, at>>
  <2>1. ServersTypeOK'
    BY <1>h, <1>s, <1>1 DEF ServersTypeOK, HandlersTypeOK
  <2>2. Apart'
    BY <1>h, <1>1 DEF Apart, AllDone
  <2>3. ASSUME NEW s \in Servers PROVE Held(s)'
    <3>1. at'[s] = "done"
      BY <1>h, <1>1 DEF AllDone
    <3>2. InterfacesHeld(s)' /\ MetadataHeld(s)' /\ FipsHeld(s)'
      BY <3>1 DEF InterfacesHeld, MetadataHeld, FipsHeld
    <3>3. Trunks(s)'
      BY <1>h, <1>1, <3>1, HeldFacts DEF Trunks, Old, service
    <3> QED BY <3>2, <3>3 DEF Held
  <2> QED BY <1>w, <2>1, <2>2, <2>3 DEF ServersInv
<1>2. CASE /\ have' = [s \in Servers |-> ReadInto(s, have[s])]
           /\ at' = [s \in Servers |-> IF have'[s] # want[s] THEN "planned" ELSE "done"]
  <2>1. ASSUME NEW s \in Servers
        PROVE  /\ have'[s] = ReadInto(s, have[s]) /\ have'[s] \in Recorded
               /\ Old(s)' = IF s \in Instances THEN attached[s] ELSE attached[s] \cap Old(s)
               /\ \A x \in Old(s)' : s \in Instances => have'[s].interface[x] = FipOf(s, x)
               /\ \A k \in Keys : have'[s].metadata[k] # None => have'[s].metadata[k] = metadata[s][k]
               /\ at'[s] \in {"planned", "done"}
    <3>0. ServersTypeOK
      BY <1>h
    <3>1. have'[s] = ReadInto(s, have[s]) /\ have[s] \in Recorded /\ at'[s] \in {"planned", "done"}
      BY <3>0, <1>2 DEF ServersTypeOK
    <3>2. /\ ReadInto(s, have[s]) \in Recorded
          /\ DOMAIN ReadInto(s, have[s]).interface =
               IF s \in Instances THEN attached[s] ELSE attached[s] \cap DOMAIN have[s].interface
          /\ \A x \in DOMAIN ReadInto(s, have[s]).interface : ReadInto(s, have[s]).interface[x] =
               IF s \in Instances THEN FipOf(s, x) ELSE have[s].interface[x]
          /\ \A k \in Keys : ReadInto(s, have[s]).metadata[k] =
               IF have[s].metadata[k] = None THEN None ELSE metadata[s][k]
      BY <3>0, <3>1, ReadIntoTypes
    <3> QED BY <3>1, <3>2 DEF Old
  <2>2. HandlersTypeOK'
    <3>1. at' \in [Servers -> Phases]
      BY <1>2 DEF Phases
    <3>2. \A s \in Servers : todo'[s] \subseteq CallsIn(at'[s])
      BY <1>h
    <3> QED BY <1>h, <3>1, <3>2 DEF HandlersTypeOK
  <2>3. ServersTypeOK'
    <3>1. have' \in [Servers -> Recorded]
      BY <1>2, <2>1
    <3> QED BY <1>s, <2>2, <3>1 DEF ServersTypeOK
  <2>4. Apart'
    <3>1. \A s \in Servers : Old(s)' \subseteq attached[s]
      BY <2>1
    <3> QED BY <1>h, <3>1 DEF Apart, ServersTypeOK, ServiceTypeOK
  <2>5. ASSUME NEW s \in Servers PROVE Held(s)'
    <3>1. /\ attached' = attached /\ metadata' = metadata /\ assigned' = assigned /\ fips' = fips
          /\ Old(s)' \subseteq attached[s] /\ Trunks(s)
      BY <1>h, <2>1, HeldFacts DEF service
    <3>2. InterfacesHeld(s)'
      BY <2>1, <3>1 DEF InterfacesHeld
    <3>3. Trunks(s)'
      BY <2>1, <3>1 DEF Trunks
    <3>4. MetadataHeld(s)'
      BY <2>1, <3>1 DEF MetadataHeld, Keyed
    <3>5. FipsHeld(s)'
      <4>1. ASSUME NEW d \in Due(s)', s \in Instances
            PROVE  assigned[d[1]] = PortOf(s, d[2])
        <5>1. PICK x \in Old(s)' : d = <<have'[s].interface[x], x>> /\ have'[s].interface[x] # None
          BY <4>1 DEF Due
        <5>2. d[2] = x /\ d[1] = FipOf(s, x) /\ FipOf(s, x) # None
          BY <2>1, <4>1, <5>1
        <5>3. \E f \in FloatingIPs : assigned[f] = PortOf(s, x)
          BY <5>2 DEF FipOf
        <5>4. FipOf(s, x) = CHOOSE f \in FloatingIPs : assigned[f] = PortOf(s, x)
          BY <5>3 DEF FipOf
        <5> QED BY <5>2, <5>3, <5>4
      <4>2. ASSUME NEW d \in Due(s)', s \in Instances PROVE InOrder(s, d)'
        BY <3>1, <4>1, <4>2 DEF InOrder, PortOf
      <4> QED BY <2>1, <4>2 DEF FipsHeld
    <3> QED BY <3>2, <3>3, <3>4, <3>5 DEF Held
  <2> QED BY <1>w, <2>3, <2>4, <2>5 DEF ServersInv
<1> QED BY <1>1, <1>2 DEF StartRun

LEMMA KilledStep ==
  ASSUME ServersInv, Killed
  PROVE  ServersInv'
<1>h. ServersTypeOK /\ UNCHANGED <<want, have, service, touched>>
  BY DEF ServersInv, Killed
<1>1. CountersTypeOK'
  <2>1. {faults, outside} \subseteq Nat /\ changes \in 0..MaxChanges /\ MaxMishaps \in Nat
    BY <1>h, MishapsAssumption DEF ServersTypeOK, CountersTypeOK
  <2>2. faults + 1 \in Nat /\ (faults + 1) + outside <= MaxMishaps
    BY <2>1 DEF Killed
  <2>3. faults' = faults + 1 /\ outside' = outside /\ changes' = changes
    BY DEF Killed
  <2> QED BY <2>1, <2>2, <2>3 DEF CountersTypeOK
<1>2. \A s \in Servers : at'[s] = "done" /\ todo'[s] = {} /\ fips'[s] = {}
  BY DEF Killed
<1>3. HandlersTypeOK'
  <2>1. at' \in [Servers -> Phases]
    BY DEF Killed, Phases
  <2>2. todo' \in [Servers -> SUBSET (Keys \cup Items \cup (FloatingIPs \X (Items \cup {None})))]
    BY DEF Killed
  <2>3. fips' \in [Servers -> SUBSET (FloatingIPs \X Items)]
    BY DEF Killed
  <2> QED BY <1>h, <1>2, <2>1, <2>2, <2>3 DEF HandlersTypeOK, ServersTypeOK
<1>4. ServersTypeOK'
  BY <1>h, <1>1, <1>3 DEF ServersTypeOK, ServiceTypeOK, service
<1>5. Apart'
  BY <1>2 DEF Apart
<1>6. ASSUME NEW s \in Servers PROVE Held(s)'
  <2>1. InterfacesHeld(s)' /\ MetadataHeld(s)' /\ FipsHeld(s)'
    BY <1>2 DEF InterfacesHeld, MetadataHeld, FipsHeld
  <2>2. Trunks(s)'
    BY <1>h, <1>2, HeldFacts DEF Trunks, Old, service
  <2> QED BY <2>1, <2>2 DEF Held
<1> QED BY <1>h, <1>4, <1>5, <1>6 DEF ServersInv

LEMMA ReconfigureStep ==
  ASSUME ServersInv, Reconfigure
  PROVE  ServersInv'
<1>h. /\ ServersTypeOK /\ AllDone /\ want' \in Configurations
      /\ UNCHANGED <<have, service, at, todo, fips, touched, faults, outside>>
  BY DEF ServersInv, Reconfigure
<1>1. CountersTypeOK'
  <2>1. changes \in Nat /\ changes < MaxChanges /\ changes' = changes + 1 /\ MaxChanges \in Nat
    BY <1>h, MishapsAssumption DEF ServersTypeOK, CountersTypeOK, Reconfigure
  <2>2. changes' \in 0..MaxChanges
    BY <2>1
  <2> QED BY <1>h, <2>2 DEF ServersTypeOK, CountersTypeOK
<1>2. \A s \in Servers : want'[s] \in Settings(s)
  BY <1>h DEF Configurations, Configured
<1>3. ServersTypeOK'
  BY <1>h, <1>1, <1>2 DEF ServersTypeOK, ServiceTypeOK, HandlersTypeOK, service
<1>4. Apart'
  BY <1>h DEF Apart, AllDone
<1>5. ASSUME NEW s \in Servers PROVE Held(s)'
  <2>1. at'[s] = "done"
    BY <1>h DEF AllDone
  <2>2. InterfacesHeld(s)' /\ MetadataHeld(s)' /\ FipsHeld(s)'
    BY <2>1 DEF InterfacesHeld, MetadataHeld, FipsHeld
  <2>3. Trunks(s)'
    BY <1>h, HeldFacts DEF Trunks, Old, service
  <2> QED BY <2>2, <2>3 DEF Held
<1> QED BY <1>h, <1>3, <1>4, <1>5 DEF ServersInv

LEMMA OutsideCounted ==
  ASSUME CountersTypeOK, faults + outside < MaxMishaps, outside' = outside + 1, UNCHANGED <<faults, changes>>
  PROVE  CountersTypeOK'
<1>1. {faults, outside} \subseteq Nat /\ changes \in 0..MaxChanges /\ MaxMishaps \in Nat
  BY MishapsAssumption DEF CountersTypeOK
<1>2. outside + 1 \in Nat /\ faults + (outside + 1) <= MaxMishaps
  BY <1>1
<1> QED BY <1>1, <1>2 DEF CountersTypeOK

LEMMA KeyOutsideStep ==
  ASSUME ServersInv, NEW s \in Servers, NEW k \in Keys, KeyOutside(s, k)
  PROVE  ServersInv'
<1>h. /\ ServersTypeOK /\ touched' = touched \cup {s}
      /\ UNCHANGED <<want, have, attached, assigned, at, todo, fips, faults, changes>>
  BY DEF ServersInv, KeyOutside
<1>1. CountersTypeOK'
  BY OutsideCounted DEF KeyOutside, ServersInv, ServersTypeOK
<1>2. PICK v \in Values \cup {None} : metadata' = [metadata EXCEPT ![s][k] = v]
  BY DEF KeyOutside
<1> DEFINE m == [metadata[s] EXCEPT ![k] = v]
<1>3. m \in Metadata /\ metadata' = [metadata EXCEPT ![s] = m]
  BY <1>h, <1>2 DEF ServersTypeOK, ServiceTypeOK, Metadata
<1> HIDE DEF m
<1>4. ServiceTypeOK' /\ \A t \in Servers : metadata'[t] = IF t = s THEN m ELSE metadata[t]
  BY <1>h, <1>3, MetadataTypes
<1>5. ServersTypeOK'
  BY <1>h, <1>1, <1>4 DEF ServersTypeOK, HandlersTypeOK
<1>6. Apart'
  BY <1>h DEF ServersInv, Apart, Old
<1>7. ASSUME NEW t \in Servers PROVE Held(t)'
  <2>1. InterfacesHeld(t)' /\ Trunks(t)'
    BY <1>h, HeldFacts DEF InterfacesHeld, Trunks, Old, Wanted, HasChange
  <2>2. ASSUME t \notin touched' PROVE MetadataHeld(t)' /\ FipsHeld(t)'
    <3>1. t \notin touched /\ metadata'[t] = metadata[t]
      BY <1>h, <1>4, <2>2
    <3>2. MetadataHeld(t) /\ FipsHeld(t)
      BY <3>1, HeldFacts DEF Held
    <3> QED BY <1>h, <3>1, <3>2 DEF MetadataHeld, FipsHeld, Due, InOrder, Old, Desired, HasChange, PortOf
  <2> QED BY <2>1, <2>2 DEF Held
<1> QED BY <1>h, <1>5, <1>6, <1>7 DEF ServersInv

LEMMA FloatingIPOutsideStep ==
  ASSUME ServersInv, NEW f \in FloatingIPs, FloatingIPOutside(f)
  PROVE  ServersInv'
<1>h. /\ ServersTypeOK /\ AllDone
      /\ UNCHANGED <<want, have, metadata, attached, at, todo, fips, touched, faults, changes>>
  BY DEF ServersInv, FloatingIPOutside
<1>1. CountersTypeOK'
  BY OutsideCounted DEF FloatingIPOutside, ServersInv, ServersTypeOK
<1>2. PICK p \in AnyPort \cup {None} :
        /\ \A s \in Servers, x \in Items \ Ports : p = <<s, x>> => x \in attached[s]
        /\ assigned' = [assigned EXCEPT ![f] = p]
  BY DEF FloatingIPOutside
<1>3. /\ assigned' \in [FloatingIPs -> AnyPort \cup {None}]
      /\ \A g \in FloatingIPs : assigned'[g] = IF g = f THEN p ELSE assigned[g]
  BY <1>h, <1>2 DEF ServersTypeOK, ServiceTypeOK
<1>4. ServiceTypeOK'
  BY <1>h, <1>2, <1>3 DEF ServersTypeOK, ServiceTypeOK
<1>5. ServersTypeOK'
  BY <1>h, <1>1, <1>4 DEF ServersTypeOK, HandlersTypeOK
<1>6. Apart'
  BY <1>h DEF ServersInv, Apart, Old
<1>7. ASSUME NEW s \in Servers PROVE Held(s)'
  <2>1. at'[s] = "done"
    BY <1>h DEF AllDone
  <2>2. InterfacesHeld(s)' /\ MetadataHeld(s)' /\ FipsHeld(s)'
    BY <2>1 DEF InterfacesHeld, MetadataHeld, FipsHeld
  <2>3. Trunks(s)'
    BY <1>h, HeldFacts DEF Trunks, Old
  <2> QED BY <2>2, <2>3 DEF Held
<1> QED BY <1>h, <1>5, <1>6, <1>7 DEF ServersInv

LEMMA InitHolds == ServersInit => ServersInv
<1> SUFFICES ASSUME ServersInit PROVE ServersInv
  OBVIOUS
<1>1. want \in Configurations /\ have = want /\ \A s \in Servers : want[s] \in Settings(s) /\ want[s] \in Recorded
  BY SettingsFacts DEF ServersInit, Configurations, Configured
<1>2. \A s, t \in Servers : s # t => Wanted(s) \cap Wanted(t) \cap Ports = {}
  BY <1>1 DEF Configurations, Configured, Wanted
<1>3. \A s \in Servers : /\ metadata[s] = want[s].metadata /\ attached[s] = Wanted(s) /\ Old(s) = Wanted(s)
                         /\ at[s] = "done" /\ todo[s] = {} /\ fips[s] = {}
  BY <1>1 DEF ServersInit, Wanted, Old
<1>4. ASSUME NEW f \in FloatingIPs
      PROVE  \/ assigned[f] = None
             \/ \E s \in Servers, x \in Items : Wants(s, x) /\ assigned[f] = PortOf(s, x)
  <2>1. CASE \E s \in Servers : f \in Named(want[s])
    <3>0. PICK s \in Servers : f \in Named(want[s])
      BY <2>1
    <3>1. PICK x \in Wanted(s) : want[s].interface[x] = f
      BY <3>0 DEF Named, Wanted
    <3>2. x \in Items /\ Wants(s, x) /\ PortOf(s, x) \in AnyPort
      BY <1>1, <3>1, SettingsFacts, PortFacts DEF Wants, Wanted
    <3> DEFINE P(p) == \E r \in Servers, y \in Items : Wants(r, y) /\ want[r].interface[y] = f /\ p = PortOf(r, y)
    <3>3. P(PortOf(s, x))
      BY <3>1, <3>2
    <3>4. assigned[f] = CHOOSE p \in AnyPort : P(p)
      BY <2>1 DEF ServersInit
    <3>5. P(assigned[f])
      <4> HIDE DEF P
      <4> QED BY <3>2, <3>3, <3>4
    <3> QED BY <3>5
  <2>2. CASE ~\E s \in Servers : f \in Named(want[s])
    BY <2>2 DEF ServersInit
  <2> QED BY <2>1, <2>2
<1>5. ServiceTypeOK
  <2>1. metadata \in [Servers -> Metadata]
    BY <1>1, SettingsFacts DEF ServersInit, Metadata
  <2>2. attached \in [Servers -> SUBSET Items]
    BY <1>1, SettingsFacts DEF ServersInit
  <2>3. \A f \in FloatingIPs : assigned[f] \in AnyPort \cup {None}
    BY <1>4, PortFacts
  <2>4. assigned \in [FloatingIPs -> AnyPort \cup {None}]
    BY <2>3 DEF ServersInit
  <2>5. ASSUME NEW s \in Servers, NEW x \in Items \ Ports, NEW f \in FloatingIPs, assigned[f] = <<s, x>>
        PROVE  x \in attached[s]
    <3>1. PortOf(s, x) = <<s, x>> /\ PortOf(s, x) # None
      BY PortFacts
    <3>2. PICK r \in Servers, y \in Items : Wants(r, y) /\ assigned[f] = PortOf(r, y)
      BY <1>4, <2>5, <3>1
    <3>3. r = s /\ y = x
      BY <2>5, <3>1, <3>2, PortFacts
    <3> QED BY <1>3, <3>2, <3>3 DEF Wants, Wanted
  <2> QED BY <1>2, <1>3, <2>1, <2>2, <2>4, <2>5 DEF ServiceTypeOK
<1>6. HandlersTypeOK
  <2>1. at \in [Servers -> Phases]
    BY DEF ServersInit, Phases
  <2>2. todo \in [Servers -> SUBSET (Keys \cup Items \cup (FloatingIPs \X (Items \cup {None})))]
    BY DEF ServersInit
  <2>3. fips \in [Servers -> SUBSET (FloatingIPs \X Items)] /\ touched \subseteq Servers
    BY DEF ServersInit
  <2> QED BY <1>3, <2>1, <2>2, <2>3 DEF HandlersTypeOK
<1>7. CountersTypeOK
  BY MishapsAssumption DEF CountersTypeOK, ServersInit
<1>8. ServersTypeOK
  <2>1. have \in [Servers -> Recorded]
    BY <1>1 DEF Configurations
  <2> QED BY <1>1, <1>5, <1>6, <1>7, <2>1 DEF ServersTypeOK
<1>9. ASSUME NEW s \in Servers PROVE Held(s)
  <2>1. InterfacesHeld(s) /\ MetadataHeld(s) /\ FipsHeld(s)
    BY <1>3 DEF InterfacesHeld, MetadataHeld, FipsHeld
  <2>2. /\ s \in Baremetals => Trunk \in Wanted(s)
        /\ s \in Instances => Trunk \notin Wanted(s)
    BY <1>1, SettingsFacts, NamesAssumption DEF Wanted
  <2>3. Trunks(s)
    BY <1>3, <2>2 DEF Trunks
  <2> QED BY <2>1, <2>3 DEF Held
<1> QED BY <1>1, <1>3, <1>8, <1>9 DEF ServersInv, Apart

LEMMA NextHolds == ServersInv /\ [ServersNext]_serverVars => ServersInv'
<1> SUFFICES ASSUME ServersInv, [ServersNext]_serverVars PROVE ServersInv'
  OBVIOUS
<1>1. ASSUME NEW s \in Servers, Handler(s) PROVE ServersInv'
  BY <1>1, StartUpdateStep, DeleteKeyStep, CreateKeysStep, ListInterfacesStep, DetachStep,
     AllDetachedStep, AttachStep, AllAttachedStep, AssignStep, AllAssignedStep, QuietReturns DEF Handler
<1>2. CASE UNCHANGED serverVars
  <2>1. ServersTypeOK'
    BY <1>2 DEF ServersInv, ServersTypeOK, ServiceTypeOK, HandlersTypeOK, CountersTypeOK, serverVars, service, counters
  <2>2. Apart' /\ want' \in Configurations
    BY <1>2 DEF ServersInv, Apart, Old, serverVars
  <2>3. ASSUME NEW s \in Servers PROVE Held(s)'
    <3>1. /\ InterfacesHeld(s)' = InterfacesHeld(s) /\ Trunks(s)' = Trunks(s)
          /\ MetadataHeld(s)' = MetadataHeld(s)
      BY <1>2 DEF InterfacesHeld, Trunks, MetadataHeld, Old, Wanted, HasChange, serverVars, service
    <3>2. FipsHeld(s)' = FipsHeld(s)
      BY <1>2 DEF FipsHeld, Due, InOrder, Old, Desired, HasChange, PortOf, serverVars, service
    <3> QED BY <1>2, <3>1, <3>2, HeldFacts DEF Held, serverVars
  <2> QED BY <2>1, <2>2, <2>3 DEF ServersInv
<1> QED BY <1>1, <1>2, StartRunStep, KilledStep, ReconfigureStep, ServerCallFailsStep, KeyOutsideStep,
           FloatingIPOutsideStep DEF ServersNext

-----------------------------------------------------------------------------
(* Whatever fails, is killed or is interfered with, service, state and     *)
(* handlers keep to their types: a port is on one server, and a floating   *)
(* IP on a port that exists.                                               *)
THEOREM ServersTypeCorrect == ServersSpec => []ServersTypeOK
<1>1. ServersInv => ServersTypeOK
  BY DEF ServersInv
<1> QED BY <1>1, InitHolds, NextHolds, PTL DEF ServersSpec

THEOREM ServersInvariant == ServersSpec => []ServersInv
BY InitHolds, NextHolds, PTL DEF ServersSpec

(* An update that nobody interferes with arrives: the keys, the interfaces *)
(* and the floating IPs that were to be are there when it reads back.      *)
THEOREM ServersReach == ServersSpec => []ServersArrive
<1>1. ServersInv => ServersArrive
  <2> SUFFICES ASSUME ServersInv, NEW s \in Servers, at[s] = "reading", s \notin touched
               PROVE  Arrived(s)
    BY DEF ServersArrive
  <2>h. InterfacesHeld(s) /\ MetadataHeld(s) /\ FipsHeld(s)
    BY HeldFacts DEF Held
  <2>1. \A k \in Keyed(have[s].metadata) \cup Keyed(want[s].metadata) : metadata[s][k] = want[s].metadata[k]
    BY <2>h DEF MetadataHeld
  <2>2. Wanted(s) \subseteq attached[s] /\ attached[s] \cap Old(s) \subseteq Wanted(s)
    BY <2>h DEF InterfacesHeld
  <2>3. \A d \in Due(s) : assigned[d[1]] = PortOf(s, d[2])
    BY <2>h DEF FipsHeld, InOrder
  <2>4. ASSUME s \in Instances, NEW x \in Old(s), have[s].interface[x] # None
        PROVE  assigned[have[s].interface[x]] = PortOf(s, x)
    <3>1. <<have[s].interface[x], x>> \in Due(s)
      BY <2>4 DEF Due
    <3> QED BY <2>3, <3>1
  <2>5. ASSUME s \in Baremetals, HasChange(s, "interface"), NEW x \in Desired(s)
        PROVE  assigned[want[s].interface[x]] = PortOf(s, x)
    <3>1. <<want[s].interface[x], x>> \in Due(s)
      BY <2>5, NamesAssumption DEF Due
    <3> QED BY <2>3, <3>1
  <2> QED BY <2>1, <2>2, <2>4, <2>5 DEF Arrived, Old, Wanted
<1> QED BY <1>1, ServersInvariant, PTL

(* A recorded key the service has lost stops all later runs at the refresh *)
(* until somebody else writes it.                                          *)
THEOREM CutUpdatesWedge == ServersSpec => CutMetadataWedges
<1>1. ServersInv /\ [ServersNext]_serverVars => StaysWedged
  <2> SUFFICES ASSUME ServersInv, [ServersNext]_serverVars, AllDone, Wedged, outside' = outside
               PROVE  AllDone' /\ Wedged' /\ UNCHANGED service
    BY DEF StaysWedged
  <2>1. outside \in Nat /\ outside' # outside + 1
    BY DEF ServersInv, ServersTypeOK, CountersTypeOK
  <2>2. \A s \in Servers : at[s] = "done" /\ todo[s] = {}
    BY DEF AllDone, ServersInv, ServersTypeOK, HandlersTypeOK, CallsIn
  <2>3. ASSUME NEW s \in Servers, Handler(s) \/ ServerCallFails(s) PROVE FALSE
    BY <2>2, <2>3 DEF Handler, ServerCallFails, Calling, StartUpdate, CreateKeys, ListInterfaces, AllDetached,
       AllAttached, AllAssigned, ReadServer, DeleteKey, KeyGone, Detach, Attach, AttachRefused, Assign, AssignRefused
  <2>4. CASE StartRun
    <3>1. \E s \in Servers : Missing(s, have[s]) # {}
      BY DEF Wedged, Missing, Keyed
    <3> QED BY <2>4, <3>1 DEF StartRun, AllDone, Wedged, service
  <2>5. CASE Reconfigure
    BY <2>5 DEF Reconfigure, AllDone, Wedged, service
  <2>6. CASE UNCHANGED serverVars
    BY <2>6 DEF serverVars, AllDone, Wedged, service
  <2> QED BY <2>1, <2>3, <2>4, <2>5, <2>6 DEF ServersNext, Killed, KeyOutside, FloatingIPOutside
<1> QED BY <1>1, ServersInvariant, PTL DEF ServersSpec, CutMetadataWedges

-----------------------------------------------------------------------------
(* How floating IPs move: only an assignment to come puts one on a port.   *)
LEMMA Reassigned ==
  ASSUME ServersInv, NEW t \in Servers, Handler(t) \/ ServerCallFails(t), NEW f \in FloatingIPs
  PROVE  \/ assigned'[f] = assigned[f] \/ assigned'[f] = None
         \/ \E y \in Items : <<f, y>> \in todo[t] /\ assigned'[f] = PortOf(t, y)
<1>h. assigned \in [FloatingIPs -> AnyPort \cup {None}]
  BY HeldFacts DEF ServersTypeOK, ServiceTypeOK
<1>1. ASSUME NEW x, Detached(t, x)
      PROVE  assigned'[f] = assigned[f] \/ assigned'[f] = None
  BY <1>1 DEF Detached
<1>2. ASSUME NEW g \in FloatingIPs, NEW x \in Items \cup {None}, Assigned(t, g, x)
      PROVE  \/ assigned'[f] = assigned[f] \/ assigned'[f] = None
             \/ \E y \in Items : <<f, y>> \in todo[t] /\ assigned'[f] = PortOf(t, y)
  <2>1. <<g, x>> \in todo[t] /\ assigned'[f] = IF f # g THEN assigned[f] ELSE IF x = None THEN None ELSE PortOf(t, x)
    BY <1>h, <1>2 DEF Assigned
  <2> QED BY <2>1
<1>3. CASE UNCHANGED service \/ UNCHANGED assigned
  BY <1>3 DEF service
<1>4. CASE ServerCallFails(t)
  BY <1>1, <1>2, <1>3, <1>4 DEF ServerCallFails, Effect
<1>5. CASE Handler(t)
  <2>1. CASE \E x \in Items : Detach(t, x)
    BY <1>1, <2>1 DEF Detach
  <2>2. CASE \E g \in FloatingIPs, x \in Items \cup {None} : Assign(t, g, x)
    BY <1>2, <2>2 DEF Assign
  <2> QED BY <1>3, <1>5, <2>1, <2>2 DEF Handler, StartUpdate, CreateKeys, ListInterfaces, AllDetached,
             AllAttached, AllAssigned, ReadServer, DeleteKey, KeyGone, Attach, AttachRefused, AssignRefused
<1> QED BY <1>4, <1>5

(* And an assignment comes of an IP an instance has found on that port, or *)
(* is configured for a bare metal server whose interfaces are exchanged.   *)
LEMMA NewCalls ==
  ASSUME ServersInv, NEW t \in Servers, Handler(t) \/ ServerCallFails(t),
         NEW u \in Servers, NEW f \in FloatingIPs, NEW y \in Items,
         <<f, y>> \in fips'[u] \cup todo'[u]
  PROVE  \/ <<f, y>> \in fips[u] \cup todo[u] \/ (u = t /\ assigned[f] = PortOf(t, y))
         \/ u = t /\ t \in Baremetals /\ HasChange(t, "interface") /\ y \in Desired(t) /\ f = want[t].interface[y]
<1>h. /\ HandlersTypeOK /\ InterfacesHeld(t) /\ have[t] \in Recorded /\ want[t] \in Settings(t)
      /\ todo \in [Servers -> SUBSET (Keys \cup Items \cup (FloatingIPs \X (Items \cup {None})))]
      /\ fips \in [Servers -> SUBSET (FloatingIPs \X Items)]
  BY HeldFacts DEF ServersTypeOK, HandlersTypeOK
<1>n. <<f, y>> \notin Keys \cup Items /\ y # None
  BY NamesAssumption
<1>1. ASSUME NEW phase, NEW calls, Goto(t, phase, calls), UNCHANGED fips, <<f, y>> \notin calls
      PROVE  <<f, y>> \in fips[u] \cup todo[u]
  <2>1. todo'[u] = IF u = t THEN calls ELSE todo[u]
    BY <1>h, <1>1 DEF Goto
  <2> QED BY <1>1, <2>1
<1>2. ASSUME NEW call, Called(t, call), UNCHANGED fips
      PROVE  <<f, y>> \in fips[u] \cup todo[u]
  <2>1. todo'[u] \subseteq todo[u]
    BY <1>h, <1>2 DEF Called
  <2> QED BY <1>2, <2>1
<1>3. ASSUME NEW r, Return(t, r)
      PROVE  <<f, y>> \in fips[u] \cup todo[u]
  <2>1. todo'[u] = (IF u = t THEN {} ELSE todo[u]) /\ fips'[u] = IF u = t THEN {} ELSE fips[u]
    BY <1>h, <1>3 DEF Return, Goto
  <2> QED BY <2>1
<1>4. CASE ServerCallFails(t) \/ ReadServer(t) \/ (\E k \in Keys : KeyGone(t, k))
           \/ (\E x \in Items : AttachRefused(t, x))
           \/ (\E g \in FloatingIPs, x \in Items \cup {None} : AssignRefused(t, g, x))
  BY <1>3, <1>4 DEF ServerCallFails, ReadServer, KeyGone, AttachRefused, AssignRefused
<1>5. CASE (\E k \in Keys : DeleteKey(t, k)) \/ (\E x \in Items : Detach(t, x) \/ Attach(t, x))
           \/ (\E g \in FloatingIPs, x \in Items \cup {None} : Assign(t, g, x))
  BY <1>2, <1>5 DEF DeleteKey, Detach, Attach, Assign
<1>6. CASE StartUpdate(t)
  <2>1. Keyed(have[t].metadata) \subseteq Keys
    BY DEF Keyed
  <2> QED BY <1>1, <1>6, <1>n, <2>1 DEF StartUpdate
<1>7. CASE CreateKeys(t) \/ AllAssigned(t)
  BY <1>1, <1>7 DEF CreateKeys, AllAssigned
<1>8. CASE AllDetached(t)
  <2>1. DOMAIN want[t].interface \subseteq Items
    BY <1>h, SettingsFacts
  <2> QED BY <1>1, <1>8, <1>n, <2>1 DEF AllDetached
<1>9. CASE ListInterfaces(t)
  <2>1. CASE ~HasChange(t, "interface")
    BY <1>1, <1>9, <2>1 DEF ListInterfaces
  <2>2. CASE HasChange(t, "interface")
    <3> DEFINE found == {d \in FloatingIPs \X attached[t] : t \in Instances /\ assigned[d[1]] = PortOf(t, d[2])}
               calls == IF t \in Instances THEN DOMAIN have[t].interface ELSE DOMAIN have[t].interface \ DOMAIN want[t].interface
    <3>1. Goto(t, "detaching", calls) /\ fips' = [fips EXCEPT ![t] = found]
      BY <1>9, <2>2 DEF ListInterfaces
    <3>2. <<f, y>> \notin calls
      BY <1>h, <1>n, RecordedFacts
    <3> HIDE DEF calls
    <3>3. todo'[u] = (IF u = t THEN calls ELSE todo[u]) /\ fips'[u] = IF u = t THEN found ELSE fips[u]
      BY <1>h, <3>1 DEF Goto
    <3>4. <<f, y>> \in found => assigned[f] = PortOf(t, y)
      OBVIOUS
    <3> HIDE DEF found
    <3> QED BY <3>2, <3>3, <3>4
  <2> QED BY <2>1, <2>2
<1>10. CASE AllAttached(t)
  <2> DEFINE calls == IF t \in Instances THEN fips[t] ELSE Assignments(t)
  <2>1. Goto(t, "assigning", calls) /\ UNCHANGED fips /\ HasChange(t, "interface")
    BY <1>h, <1>10 DEF AllAttached, InterfacesHeld
  <2>2. CASE <<f, y>> \notin calls
    BY <1>1, <2>1, <2>2
  <2>3. CASE <<f, y>> \in calls /\ u # t
    <3>1. todo'[u] = todo[u] /\ fips' = fips
      BY <1>h, <2>1, <2>3 DEF Goto
    <3> QED BY <3>1
  <2>4. CASE <<f, y>> \in calls /\ u = t
    <3>1. CASE t \in Instances
      BY <2>4, <3>1
    <3>2. CASE t \notin Instances
      <4>1. <<f, y>> \in Assignments(t) /\ t \in Baremetals
        BY <2>4, <3>2 DEF Servers
      <4>2. PICK x \in Desired(t) : <<f, y>> = <<want[t].interface[x], x>>
        BY <1>n, <4>1 DEF Assignments
      <4> QED BY <2>1, <2>4, <4>1, <4>2
    <3> QED BY <3>1, <3>2
  <2> QED BY <2>2, <2>3, <2>4
<1> QED BY <1>4, <1>5, <1>6, <1>7, <1>8, <1>9, <1>10 DEF Handler

(* Where a server's interfaces are all there and as configured, they stay  *)
(* so, and Read records them so.                                           *)
Complete(s) == Wanted(s) \subseteq attached[s] /\ ~HasChange(s, "interface")

LEMMA ReadAsConfigured ==
  ASSUME ServersInv, NEW s \in Baremetals, NEW r \in Recorded, r.interface = want[s].interface,
         Wanted(s) \subseteq attached[s]
  PROVE  ReadInto(s, r).interface = want[s].interface
<1>1. s \notin Instances /\ want[s] \in Recorded
  BY HeldFacts, NamesAssumption DEF Servers
<1>2. want[s].interface \in [Wanted(s) -> FloatingIPs \cup {None}]
  BY <1>1 DEF Recorded, AnyInterfaces, Wanted
<1>3. attached[s] \cap DOMAIN r.interface = Wanted(s)
  BY DEF Wanted
<1>4. ReadInto(s, r).interface = [x \in Wanted(s) |-> want[s].interface[x]]
  BY <1>1, <1>3 DEF ReadInto, Seen
<1> QED BY <1>2, <1>4

LEMMA CompleteStays ==
  ASSUME ServersInv, [ServersNext]_serverVars, want' = want, NEW s \in Baremetals, Complete(s)
  PROVE  Complete(s)'
<1>h. /\ s \in Servers /\ have[s] \in Recorded /\ want[s] \in Recorded /\ InterfacesHeld(s)
      /\ have[s].interface = want[s].interface /\ Wanted(s) \subseteq attached[s]
      /\ have \in [Servers -> Recorded] /\ attached \in [Servers -> SUBSET Items]
  BY HeldFacts DEF Servers, Complete, HasChange, ServersTypeOK, ServiceTypeOK, ServersInv
<1>a. Wanted(s) \subseteq attached'[s]
  <2>1. ASSUME NEW t \in Servers, NEW x, Detached(t, x), at[t] = "detaching"
        PROVE  Wanted(s) \subseteq attached'[s]
    <3>1. t # s
      BY <1>h, <2>1 DEF InterfacesHeld, Complete
    <3> QED BY <1>h, <2>1, <3>1 DEF Detached
  <2>2. ASSUME NEW t \in Servers, NEW x, Attached(t, x)
        PROVE  Wanted(s) \subseteq attached'[s]
    BY <1>h, <2>2 DEF Attached
  <2>3. CASE UNCHANGED attached
    BY <1>h, <2>3
  <2>4. ASSUME NEW t \in Servers, ServerCallFails(t) PROVE Wanted(s) \subseteq attached'[s]
    BY <2>1, <2>2, <2>3, <2>4 DEF ServerCallFails, Effect, service
  <2>5. ASSUME NEW t \in Servers, Handler(t) PROVE Wanted(s) \subseteq attached'[s]
    <3>1. CASE \E x \in Items : Detach(t, x)
      BY <2>1, <3>1 DEF Detach
    <3>2. CASE \E x \in Items : Attach(t, x)
      BY <2>2, <3>2 DEF Attach
    <3> QED BY <2>3, <2>5, <3>1, <3>2 DEF Handler, StartUpdate, CreateKeys, ListInterfaces, AllDetached,
               AllAttached, AllAssigned, ReadServer, DeleteKey, KeyGone, AttachRefused, Assign, AssignRefused, service
  <2> QED BY <2>3, <2>4, <2>5 DEF ServersNext, StartRun, Killed, Reconfigure, KeyOutside, FloatingIPOutside,
             serverVars, service
<1>b. have'[s].interface = want[s].interface
  <2>1. ASSUME NEW t \in Servers, Return(t, want[t]) PROVE have'[s].interface = want[s].interface
    BY <1>h, <2>1 DEF Return
  <2>2. CASE UNCHANGED have
    BY <1>h, <2>2
  <2>3. ASSUME NEW t \in Servers, Return(t, ReadInto(t, want[t])) PROVE have'[s].interface = want[s].interface
    <3>1. ReadInto(s, want[s]).interface = want[s].interface
      BY <1>h, ReadAsConfigured
    <3> QED BY <1>h, <2>3, <3>1 DEF Return
  <2>4. CASE StartRun
    <3>1. ReadInto(s, have[s]).interface = want[s].interface
      BY <1>h, ReadAsConfigured
    <3> QED BY <1>h, <2>2, <2>4, <3>1 DEF StartRun
  <2>5. ASSUME NEW t \in Servers, ServerCallFails(t) PROVE have'[s].interface = want[s].interface
    BY <2>1, <2>5 DEF ServerCallFails
  <2>6. ASSUME NEW t \in Servers, Handler(t) PROVE have'[s].interface = want[s].interface
    <3>1. CASE ReadServer(t)
      BY <2>1, <2>3, <3>1 DEF ReadServer
    <3> QED BY <2>1, <2>2, <2>6, <3>1 DEF Handler, StartUpdate, CreateKeys, ListInterfaces, AllDetached,
               AllAttached, AllAssigned, DeleteKey, KeyGone, Detach, Attach, AttachRefused, Assign, AssignRefused
  <2> QED BY <2>2, <2>4, <2>5, <2>6 DEF ServersNext, Killed, Reconfigure, KeyOutside, FloatingIPOutside, serverVars
<1> QED BY <1>a, <1>b DEF Complete, Wanted, HasChange

(* A lost floating IP stays lost: no step of Terraform brings it back.     *)
LEMMA LostStays ==
  ASSUME ServersInv, [ServersNext]_serverVars, want' = want, outside' = outside,
         NEW s \in Servers, NEW x \in Items, Lost(s, x)
  PROVE  Lost(s, x)'
<1> DEFINE f == want[s].interface[x]
<1>h. /\ ServersTypeOK /\ want[s] \in Settings(s) /\ x \in Wanted(s) /\ f # None /\ outside \in Nat
      /\ assigned[f] # PortOf(s, x)
  BY HeldFacts DEF Lost, Wants, Wanted, ServersTypeOK, CountersTypeOK
<1>f. f \in FloatingIPs
  BY <1>h, SettingsFacts DEF Wanted
<1>n. \A t \in Servers, y \in Items :
        <<f, y>> \in fips[t] \cup todo[t] => PortOf(t, y) # PortOf(s, x)
  BY DEF Lost
<1> HIDE DEF f
<1>1. Wants(s, x)' /\ f = want'[s].interface[x]
  BY <1>h DEF Wants, Wanted, f
<1>2. s \in Baremetals /\ x \notin Subnets =>
        DOMAIN want'[s].interface \subseteq attached'[s] /\ ~HasChange(s, "interface")'
  <2> SUFFICES ASSUME s \in Baremetals, x \notin Subnets PROVE Complete(s)'
    BY DEF Complete, Wanted
  <2>1. Complete(s)
    BY DEF Lost, Complete, Wanted
  <2> QED BY <2>1, CompleteStays
<1>3. ASSUME NEW t \in Servers, Handler(t) \/ ServerCallFails(t)
      PROVE  /\ assigned'[f] # PortOf(s, x)
             /\ \A u \in Servers, y \in Items :
                  <<f, y>> \in fips'[u] \cup todo'[u] => PortOf(u, y) # PortOf(s, x)
  <2>1. assigned'[f] # PortOf(s, x)
    <3>1. \/ assigned'[f] = assigned[f] \/ assigned'[f] = None
          \/ \E y \in Items : <<f, y>> \in todo[t] /\ assigned'[f] = PortOf(t, y)
      BY <1>f, <1>3, Reassigned
    <3>2. PortOf(s, x) # None
      BY PortFacts
    <3> QED BY <1>h, <1>n, <3>1, <3>2
  <2>2. ASSUME NEW u \in Servers, NEW y \in Items, <<f, y>> \in fips'[u] \cup todo'[u],
               PortOf(u, y) = PortOf(s, x)
        PROVE  FALSE
    <3>1. CASE <<f, y>> \in fips[u] \cup todo[u] \/ (u = t /\ assigned[f] = PortOf(t, y))
      BY <1>h, <1>n, <2>2, <3>1
    <3>2. CASE u = t /\ t \in Baremetals /\ HasChange(t, "interface") /\ y \in Desired(t) /\ f = want[t].interface[y]
      <4>1. y \in DOMAIN want[t].interface /\ y \notin Subnets
        BY <3>2 DEF Desired
      <4>2. f \in Named(want[t]) /\ f \in Named(want[s])
        BY <1>h, <3>2, <4>1 DEF Named, Wanted, f
      <4>3. t = s
        BY <4>2 DEF ServersInv, Configurations, Configured
      <4>4. y = x
        BY <2>2, PortFacts
      <4> QED BY <3>2, <4>1, <4>3, <4>4 DEF Lost
    <3> QED BY <1>3, <1>f, <2>2, <3>1, <3>2, NewCalls
  <2> QED BY <2>1, <2>2
<1>4. /\ assigned'[f] # PortOf(s, x)
      /\ \A u \in Servers, y \in Items : <<f, y>> \in fips'[u] \cup todo'[u] => PortOf(u, y) # PortOf(s, x)
  <2>1. outside' # outside + 1
    BY <1>h
  <2>2. UNCHANGED <<assigned, fips, todo>> \/ Killed \/ \E t \in Servers : Handler(t) \/ ServerCallFails(t)
    BY <2>1 DEF ServersNext, StartRun, Reconfigure, KeyOutside, FloatingIPOutside, serverVars, service
  <2>3. CASE UNCHANGED <<assigned, fips, todo>>
    BY <1>h, <1>n, <2>3
  <2>4. CASE Killed
    <3>1. assigned' = assigned /\ \A u \in Servers : fips'[u] = {} /\ todo'[u] = {}
      BY <2>4 DEF Killed, service
    <3> QED BY <1>h, <3>1
  <2> QED BY <1>3, <2>2, <2>3, <2>4
<1> QED BY <1>1, <1>2, <1>4, <1>h DEF Lost, PortOf

(* A configured floating IP that is out of place, with nobody about to     *)
(* bring it there, is not brought there by any later run, only by somebody *)
(* else or by another configuration.                                       *)
THEOREM LostFloatingIPsStay == ServersSpec => LostFloatingIPStaysLost
<1>1. ServersInv /\ [ServersNext]_serverVars => StaysLost
  BY LostStays DEF StaysLost
<1> QED BY <1>1, ServersInvariant, PTL DEF ServersSpec, LostFloatingIPStaysLost
=============================================================================
