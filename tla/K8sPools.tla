------------------------------ MODULE K8sPools ------------------------------
(***************************************************************************)
(* The node pools of one gcore_k8sv2 cluster: the refresh that lists them  *)
(* (the pool part of resourceK8sV2Read), the update that brings them to    *)
(* the configuration (resourceK8sV2Update, d.HasChange("pool")), failures  *)
(* of its calls, and pools that disappear without Terraform.               *)
(*                                                                         *)
(* The update works through three loops of service calls: create the pools *)
(* with a new name, replace or update the others one by one, delete those  *)
(* that are no longer listed.  An error ends it wherever it is, and the    *)
(* SDK then records the planned list as if it had been reached.            *)
(***************************************************************************)
EXTENDS Naturals, Sequences, FiniteSets

CONSTANTS
  Names,        \* pool names
  Flavors,      \* what a pool must be recreated for (flavor, volume, ...)
  Sizes,        \* what is updated in place (node counts, labels, taints, ...)
  NoName,       \* the empty name of the placeholder of a missing pool
  Configs,      \* the pool lists a user writes
  MaxFailures, MaxRemovals, MaxEdits

Pools == [name : Names, flavor : Flavors, nodes : Sizes]

Placeholder == [name |-> NoName]

HasName(list, name) == \E i \in DOMAIN list : list[i].name = name

Distinct(list) ==
  \A i, j \in DOMAIN list : list[i].name = list[j].name => i = j

ASSUME NoNameAssumption == NoName \notin Names
ASSUME ConfigsAssumption ==
  \A c \in Configs : /\ c \in Seq(Pools) /\ c # <<>>
                     /\ Distinct(c)
ASSUME BoundsAssumption ==
  MaxFailures \in Nat /\ MaxRemovals \in Nat /\ MaxEdits \in Nat

VARIABLES
  config,    \* the pool list of the configuration: "new"
  state,     \* the pool list of Terraform's state: "old" during an update
  pools,     \* the pools of the cluster
  pc,        \* the loop the update is in
  i,         \* its index
  mirrored,  \* does the cluster have the pools "old" says, but for the update?
  failures, removals, edits

budget == <<failures, removals, edits>>
vars == <<config, state, pools, pc, i, mirrored, budget>>

Updating == {"adding", "changing", "recreating", "removing", "reading"}

TypeOK ==
  /\ config \in Configs
  /\ state \in Seq(Pools \cup {Placeholder})
  /\ pools \subseteq Pools
  /\ \A p, q \in pools : p.name = q.name => p = q
  /\ pc \in {"idle", "planning"} \cup Updating
  /\ i \in Nat
  /\ pc \in {"adding", "changing", "recreating"} => i \in 1..Len(config)
  /\ pc = "removing" => i \in 1..Len(state)
  /\ mirrored \in BOOLEAN
  /\ failures \in 0..MaxFailures
  /\ removals \in 0..MaxRemovals
  /\ edits \in 0..MaxEdits

(* A cluster that has just been created and read back. *)
Init ==
  /\ config \in Configs
  /\ state = config
  /\ pools = {config[j] : j \in DOMAIN config}
  /\ pc = "idle" /\ i = 1 /\ mirrored = FALSE
  /\ failures = 0 /\ removals = 0 /\ edits = 0

-----------------------------------------------------------------------------
(* The pools of the list in its order, a placeholder for each one missing. *)
Known(list) ==
  [j \in DOMAIN list |->
     IF \E p \in pools : p.name = list[j].name
       THEN CHOOSE p \in pools : p.name = list[j].name
       ELSE Placeholder]

Orders(S) ==
  {s \in [1..Cardinality(S) -> S] : \A j, k \in DOMAIN s : s[j] = s[k] => j = k}

(* Variant with a bug: pools the list does not name are not reported. *)
ReadKnownPools(list) == {Known(list)}

(* Then the remaining pools of the cluster, in the order of a Go map. *)
ReadPools(list) ==
  {Known(list) \o rest : rest \in Orders({p \in pools : ~HasName(list, p.name)})}

(* Variant with a bug: every pool of both lists is replaced. *)
NeedsReplaceAlways(old, new) == HasName(old, new.name)

NeedsReplace(old, new) ==
  \E j \in DOMAIN old : old[j].name = new.name /\ old[j].flavor # new.flavor

NeedsUpdate(old, new) ==
  \E j \in DOMAIN old : old[j].name = new.name /\ old[j].nodes # new.nodes

Mirrors(list) ==
  /\ \A j \in DOMAIN list : list[j] \in pools
  /\ \A p \in pools : HasName(list, p.name)

-----------------------------------------------------------------------------
Edit ==
  /\ pc = "idle" /\ edits < MaxEdits
  /\ \E c \in Configs \ {config} : config' = c
  /\ edits' = edits + 1
  /\ UNCHANGED <<state, pools, pc, i, mirrored, failures, removals>>

Refresh ==
  /\ pc = "idle"
  /\ state' \in ReadPools(state)
  /\ pc' = "planning"
  /\ UNCHANGED <<config, pools, i, mirrored, budget>>

PlanNothing ==
  /\ pc = "planning" /\ state = config
  /\ pc' = "idle"
  /\ UNCHANGED <<config, state, pools, i, mirrored, budget>>

PlanUpdate ==
  /\ pc = "planning" /\ state # config
  /\ pc' = "adding" /\ i' = 1
  /\ mirrored' = Mirrors(state)
  /\ UNCHANGED <<config, state, pools, budget>>

(* The next pool of the loop, or the next loop. *)
NextOf(list, after) ==
  IF i < Len(list) THEN pc' = pc /\ i' = i + 1 ELSE pc' = after /\ i' = 1

(* The update returns an error: the planned list goes to the state. *)
Fail ==
  /\ pc' = "idle" /\ i' = 1 /\ mirrored' = FALSE
  /\ state' = config

Quiet == UNCHANGED <<config, state, mirrored, budget>>

(* First loop: pools whose name is new.  A name the cluster has is refused. *)
Add ==
  /\ pc = "adding"
  /\ LET p == config[i] IN
     \/ /\ HasName(state, p.name)
        /\ NextOf(config, "changing") /\ Quiet /\ UNCHANGED pools
     \/ /\ ~HasName(state, p.name) /\ \A q \in pools : q.name # p.name
        /\ pools' = pools \cup {p}
        /\ NextOf(config, "changing") /\ Quiet
     \/ /\ ~HasName(state, p.name) /\ \E q \in pools : q.name = p.name
        /\ Fail /\ UNCHANGED <<config, pools, budget>>

(* Second loop: replace (delete, and in the next step create) or update. *)
(* Variant with a bug: the only pool is replaced like any other. *)
OnlyPoolIgnored == FALSE

OnlyPool == Len(state) = 1 /\ Len(config) = 1

Keep ==
  /\ pc = "changing"
  /\ ~NeedsReplace(state, config[i]) /\ ~NeedsUpdate(state, config[i])
  /\ NextOf(config, "removing") /\ Quiet /\ UNCHANGED pools

RefuseReplace ==
  /\ pc = "changing" /\ NeedsReplace(state, config[i]) /\ OnlyPool
  /\ Fail /\ UNCHANGED <<config, pools, budget>>

DeleteReplaced ==
  /\ pc = "changing" /\ NeedsReplace(state, config[i]) /\ ~OnlyPool
  /\ pools' = {p \in pools : p.name # config[i].name}
  /\ pc' = "recreating" /\ i' = i
  /\ Quiet

Recreate ==
  /\ pc = "recreating"
  /\ pools' = pools \cup {config[i]}
  /\ IF i < Len(config) THEN pc' = "changing" /\ i' = i + 1
                        ELSE pc' = "removing" /\ i' = 1
  /\ Quiet

UpdateInPlace ==
  /\ pc = "changing"
  /\ ~NeedsReplace(state, config[i]) /\ NeedsUpdate(state, config[i])
  /\ \/ \E p \in pools :
          /\ p.name = config[i].name
          /\ pools' = (pools \ {p}) \cup {[p EXCEPT !.nodes = config[i].nodes]}
          /\ NextOf(config, "removing") /\ Quiet
     \/ /\ \A p \in pools : p.name # config[i].name
        /\ Fail /\ UNCHANGED <<config, pools, budget>>

(* Variant with a bug: the pools left over from a rename stay. *)
RemoveNothing ==
  /\ pc = "removing"
  /\ NextOf(state, "reading") /\ Quiet /\ UNCHANGED pools

(* Third loop: pools of the old list the new one does not name.  A pool    *)
(* that is gone already and the nameless placeholder are passed over.      *)
Remove ==
  /\ pc = "removing"
  /\ pools' = IF HasName(config, state[i].name)
                THEN pools
                ELSE {p \in pools : p.name # state[i].name}
  /\ NextOf(state, "reading") /\ Quiet

(* The closing read lists the pools in the order of the new list. *)
ReadBack ==
  /\ pc = "reading"
  /\ state' \in ReadPools(config)
  /\ pc' = "idle" /\ i' = 1 /\ mirrored' = FALSE
  /\ UNCHANGED <<config, pools, budget>>

-----------------------------------------------------------------------------
(* A call of the update is refused or its task fails. *)
CallFails ==
  /\ pc \in Updating
  /\ failures < MaxFailures /\ failures' = failures + 1
  /\ Fail /\ UNCHANGED <<config, pools, removals, edits>>

(* The provider is killed: the state stays what it was. *)
Crash ==
  /\ pc \in Updating \cup {"planning"}
  /\ failures < MaxFailures /\ failures' = failures + 1
  /\ pc' = "idle" /\ i' = 1 /\ mirrored' = FALSE
  /\ UNCHANGED <<config, state, pools, removals, edits>>

(* Somebody else deletes a pool, but never the last one. *)
RemovedOutside(p) ==
  /\ Cardinality(pools) > 1 /\ removals < MaxRemovals
  /\ pools' = pools \ {p}
  /\ removals' = removals + 1 /\ mirrored' = FALSE
  /\ UNCHANGED <<config, state, pc, i, failures, edits>>

Update ==
  \/ Add \/ Keep \/ RefuseReplace \/ DeleteReplaced \/ Recreate
  \/ UpdateInPlace \/ Remove \/ ReadBack

Run == Refresh \/ PlanNothing \/ PlanUpdate \/ Update

Next ==
  \/ Edit \/ Run \/ CallFails \/ Crash
  \/ \E p \in pools : RemovedOutside(p)

Spec == Init /\ [][Next]_vars

(* Terraform is run again and again, and a running update goes on. *)
FairSpec == Spec /\ WF_vars(Run)

-----------------------------------------------------------------------------
(* An update whose old list is what the cluster has keeps at least one     *)
(* pool alive at each of its steps, failed ones included: the order adds,  *)
(* changes one by one, deletes, and the refusal to replace the only pool.  *)
MirroredNeverEmpty == pc \in Updating /\ mirrored => pools # {}

(* Such an update, when it gets to its end, leaves exactly the configured  *)
(* pools, whatever was renamed, replaced, resized and dropped at once.     *)
MirroredArrives ==
  pc = "reading" /\ mirrored => pools = {config[j] : j \in DOMAIN config}

(* No update touches a pool that is the same in the old and the new list.  *)
Untouched(p) ==
  /\ \E j \in DOMAIN state : state[j] = p
  /\ \E j \in DOMAIN config : config[j] = p
NoCollateral ==
  [][Update => \A p \in pools : Untouched(p) => p \in pools']_vars

(* Runs repeated after any failure end with the configured pools, unless   *)
(* they are asked to replace the only pool, which each of them refuses.    *)
Refused == OnlyPool /\ NeedsReplace(state, config[1])
Converged == pools = {config[j] : j \in DOMAIN config}
Converges == <>[]Converged \/ <>[](pc = "planning" => Refused)

(* "make sure we don't end up with 0 pools at any moment": the comment     *)
(* above the loops, of every update, also one whose old list has the       *)
(* placeholder of a missing pool in it.                                    *)
NeverZeroPools == pools # {}
=============================================================================
