----------------------------- MODULE AIClusters -----------------------------
(***************************************************************************)
(* resource_gcore_ai_cluster.go: the update of several AI clusters by one  *)
(* provider process.  An interface is attached to, and detached from, each *)
(* server of a cluster by a call of its own, from a list of servers and    *)
(* interfaces that Read has written before.  The package variable IsResize *)
(* is set by the first resize of any cluster and never reset: from then on *)
(* every update of the process leaves interfaces and metadata alone.       *)
(*                                                                         *)
(* Volumes and security groups are skipped like the metadata; they, the    *)
(* status and the image of a cluster are in UpdateTable.                   *)
(***************************************************************************)
EXTENDS Naturals

CONSTANTS Clusters, Interfaces, Values, MaxServers, MaxFailures, MaxEdits

ASSUME BoundsAssumption == {MaxServers, MaxFailures, MaxEdits} \subseteq Nat

Servers == 1..MaxServers

VARIABLES
  want,      \* the configuration
  have,      \* Terraform's state, refreshed when a run starts
  size,      \* each cluster has the servers 1..size, as the service lists them
  at,        \* the interfaces of each server
  metadata,  \* the metadata of each cluster
  IsResize,  \* the package variable
  pc, todo,  \* where the handler of each cluster is; its calls to come
  mirrored,  \* did the handler begin with servers that are all alike?
  failures, edits

service == <<size, at, metadata>>
counters == <<failures, edits>>
vars == <<want, have, service, IsResize, pc, todo, mirrored, counters>>

Settings ==
  [instances_count : Servers, interface : (SUBSET Interfaces) \ {{}}, cluster_metadata : Values]
(* The state also has poplar_servers, and whatever interfaces there are. *)
Recorded ==
  [instances_count : Servers, interface : SUBSET Interfaces, cluster_metadata : Values,
   poplar_servers : Servers]

TypeOK ==
  /\ want \in [Clusters -> Settings]
  /\ have \in [Clusters -> Recorded]
  /\ size \in [Clusters -> Servers]
  /\ at \in [Clusters -> [Servers -> SUBSET Interfaces]]
  /\ \A c \in Clusters, n \in Servers : n > size[c] => at[c][n] = {}
  /\ metadata \in [Clusters -> Values]
  /\ IsResize \in BOOLEAN /\ mirrored \in [Clusters -> BOOLEAN]
  /\ pc \in [Clusters -> {"done", "planned", "resizing", "resized", "attaching",
                          "detaching", "metadata", "reading"}]
  /\ todo \in [Clusters -> SUBSET (Interfaces \X Servers)]
  /\ \A c \in Clusters : todo[c] # {} => pc[c] \in {"attaching", "detaching"}
  /\ failures \in 0..MaxFailures /\ edits \in 0..MaxEdits

Everywhere(c, I) == [n \in Servers |-> IF n \in 1..size[c] THEN I ELSE {}]

(* The clusters have just been created, all alike. *)
Init ==
  /\ \E s \in Settings :
       /\ want = [c \in Clusters |-> s]
       /\ size = [c \in Clusters |-> s.instances_count]
       /\ at = [c \in Clusters |-> Everywhere(c, s.interface)]
       /\ metadata = [c \in Clusters |-> s.cluster_metadata]
       /\ have = [c \in Clusters |->
            [instances_count |-> s.instances_count, interface |-> s.interface,
             cluster_metadata |-> s.cluster_metadata, poplar_servers |-> s.instances_count]]
  /\ IsResize = FALSE
  /\ pc = [c \in Clusters |-> "done"] /\ todo = [c \in Clusters |-> {}]
  /\ mirrored = [c \in Clusters |-> TRUE]
  /\ failures = 0 /\ edits = 0

-----------------------------------------------------------------------------
AllDone == \A c \in Clusters : pc[c] = "done"

(* ListInterfacesAll: the ports of all servers. *)
Listed(c) == UNION {at[c][n] : n \in 1..size[c]}

(* All servers have the same interfaces, and have some. *)
Alike(c) == Listed(c) # {} /\ \A n \in 1..size[c] : at[c][n] = Listed(c)

(* Read does not write instances_count. *)
ReadInto(c, s) ==
  [s EXCEPT !.interface = Listed(c), !.cluster_metadata = metadata[c], !.poplar_servers = size[c]]

Planned(c) ==
  [have[c] EXCEPT !.instances_count = want[c].instances_count,
                  !.interface = want[c].interface,
                  !.cluster_metadata = want[c].cluster_metadata]

HasChange(c, attr) == have[c][attr] # want[c][attr]

Goto(c, phase) == pc' = [pc EXCEPT ![c] = phase]
Return(c, s) ==
  /\ have' = [have EXCEPT ![c] = s]
  /\ Goto(c, "done") /\ todo' = [todo EXCEPT ![c] = {}]

(* Variant with a bug: only the first server is looked after. *)
CallsFirstServer(c, I) == I \X {1}

(* One call for each interface and each server the state knows. *)
Calls(c, I) == I \X (1..have[c].poplar_servers)

(* The next one: server by server, and interface by interface. *)
Due(c, i, n) ==
  /\ <<i, n>> \in todo[c]
  /\ \A p \in todo[c] : p[1] = i => p[2] >= n
  /\ \A p \in todo[c] : p[1] # i => <<p[1], 1>> \in todo[c]
Called(c, i, n) == todo' = [todo EXCEPT ![c] = @ \ {<<i, n>>}]

Has(c, n, I) == at' = [at EXCEPT ![c][n] = I]

-----------------------------------------------------------------------------
(* Variant: the process outlives the run. *)
StartRunSameProcess ==
  /\ AllDone
  /\ have' = [c \in Clusters |-> ReadInto(c, have[c])]
  /\ pc' = [c \in Clusters |->
       IF \E a \in DOMAIN want[c] : have'[c][a] # want[c][a] THEN "planned" ELSE "done"]
  /\ mirrored' = [c \in Clusters |-> Alike(c)]
  /\ UNCHANGED <<want, service, IsResize, todo, counters>>

(* A run starts a provider process and refreshes. *)
StartRun ==
  /\ AllDone
  /\ IsResize' = FALSE
  /\ have' = [c \in Clusters |-> ReadInto(c, have[c])]
  /\ pc' = [c \in Clusters |->
       IF \E a \in DOMAIN want[c] : have'[c][a] # want[c][a] THEN "planned" ELSE "done"]
  /\ mirrored' = [c \in Clusters |-> Alike(c)]
  /\ UNCHANGED <<want, service, todo, counters>>

(* The variable is set before the request, whatever becomes of it. *)
Resize(c) ==
  /\ pc[c] = "planned"
  /\ IF HasChange(c, "instances_count")
       THEN IsResize' = TRUE /\ Goto(c, "resizing")
       ELSE UNCHANGED IsResize /\ Goto(c, "resized")
  /\ UNCHANGED <<want, have, service, todo, mirrored, counters>>

(* New servers are built like the cluster. *)
Resized(c) ==
  /\ size' = [size EXCEPT ![c] = want[c].instances_count]
  /\ at' = [at EXCEPT ![c] = [n \in Servers |->
       IF n > want[c].instances_count THEN {} ELSE IF n <= size[c] THEN at[c][n] ELSE Listed(c)]]
ResizeEnds(c) ==
  /\ pc[c] = "resizing"
  /\ Resized(c) /\ Goto(c, "resized")
  /\ UNCHANGED <<want, have, metadata, IsResize, todo, mirrored, counters>>

(* Variant with a bug: the old interfaces are detached first. *)
InterfacesDetachFirst(c) ==
  /\ pc[c] = "resized"
  /\ IF HasChange(c, "interface") /\ ~IsResize
       THEN /\ Goto(c, "detaching")
            /\ todo' = [todo EXCEPT ![c] = Calls(c, have[c].interface \ want[c].interface)]
       ELSE Goto(c, "metadata") /\ UNCHANGED todo
  /\ UNCHANGED <<want, have, service, IsResize, mirrored, counters>>

(* Variant of another kind: what each server lacks is attached. *)
InterfacesLacking(c) ==
  /\ pc[c] = "resized"
  /\ IF HasChange(c, "interface") /\ ~IsResize
       THEN /\ Goto(c, "attaching")
            /\ todo' = [todo EXCEPT ![c] = {p \in Calls(c, want[c].interface) : p[1] \notin at[c][p[2]]}]
       ELSE Goto(c, "metadata") /\ UNCHANGED todo
  /\ UNCHANGED <<want, have, service, IsResize, mirrored, counters>>

InterfacesChanged(c) ==
  /\ pc[c] = "resized"
  /\ IF HasChange(c, "interface") /\ ~IsResize
       THEN /\ Goto(c, "attaching")
            /\ todo' = [todo EXCEPT ![c] = Calls(c, want[c].interface \ have[c].interface)]
       ELSE Goto(c, "metadata") /\ UNCHANGED todo
  /\ UNCHANGED <<want, have, service, IsResize, mirrored, counters>>

Attach(c, i, n) ==
  /\ pc[c] = "attaching" /\ Due(c, i, n)
  /\ Has(c, n, at[c][n] \cup {i}) /\ Called(c, i, n)
  /\ UNCHANGED <<want, have, size, metadata, IsResize, pc, mirrored, counters>>

AllAttached(c) ==
  /\ pc[c] = "attaching" /\ todo[c] = {}
  /\ Goto(c, "detaching")
  /\ todo' = [todo EXCEPT ![c] = Calls(c, have[c].interface \ want[c].interface)]
  /\ UNCHANGED <<want, have, service, IsResize, mirrored, counters>>

Detach(c, i, n) ==
  /\ pc[c] = "detaching" /\ Due(c, i, n) /\ i \in at[c][n]
  /\ Has(c, n, at[c][n] \ {i}) /\ Called(c, i, n)
  /\ UNCHANGED <<want, have, size, metadata, IsResize, pc, mirrored, counters>>

(* Variant of another kind: a server without the interface is passed over. *)
NothingToDetachPasses(c, i, n) ==
  /\ pc[c] = "detaching" /\ Due(c, i, n) /\ i \notin at[c][n]
  /\ Called(c, i, n)
  /\ UNCHANGED <<want, have, service, IsResize, pc, mirrored, counters>>

(* getDetachOptions does not find the interface at the server. *)
NothingToDetach(c, i, n) ==
  /\ pc[c] = "detaching" /\ Due(c, i, n) /\ i \notin at[c][n]
  /\ Return(c, Planned(c))
  /\ UNCHANGED <<want, service, IsResize, mirrored, counters>>

AllDetached(c) ==
  /\ pc[c] = "detaching" /\ todo[c] = {}
  /\ Goto(c, "metadata")
  /\ UNCHANGED <<want, have, service, IsResize, todo, mirrored, counters>>

Replaced(c) ==
  IF HasChange(c, "cluster_metadata") /\ ~IsResize
    THEN [metadata EXCEPT ![c] = want[c].cluster_metadata] ELSE metadata
ReplaceMetadata(c) ==
  /\ pc[c] = "metadata"
  /\ metadata' = Replaced(c)
  /\ Goto(c, "reading")
  /\ UNCHANGED <<want, have, size, at, IsResize, todo, mirrored, counters>>

ReadBack(c) ==
  /\ pc[c] = "reading"
  /\ Return(c, ReadInto(c, Planned(c)))
  /\ UNCHANGED <<want, service, IsResize, mirrored, counters>>

(* A call or the wait for its task fails, with or without its effect: the *)
(* SDK records the planned values.                                        *)
CallFails(c) ==
  /\ \/ pc[c] = "resizing" /\ (Resized(c) \/ UNCHANGED <<size, at>>)
     \/ /\ pc[c] = "attaching" /\ UNCHANGED size
        /\ \E i \in Interfaces, n \in Servers :
             Due(c, i, n) /\ (Has(c, n, at[c][n] \cup {i}) \/ UNCHANGED at)
     \/ /\ pc[c] = "detaching" /\ UNCHANGED size
        /\ \E i \in Interfaces, n \in Servers :
             Due(c, i, n) /\ (Has(c, n, at[c][n] \ {i}) \/ UNCHANGED at)
     \/ pc[c] \in {"metadata", "reading"} /\ UNCHANGED <<size, at>>
  /\ metadata' \in {metadata, IF pc[c] = "metadata" THEN Replaced(c) ELSE metadata}
  /\ failures < MaxFailures /\ failures' = failures + 1
  /\ Return(c, Planned(c))
  /\ UNCHANGED <<want, IsResize, mirrored, edits>>

(* The provider is killed. *)
Killed ==
  /\ ~AllDone /\ failures < MaxFailures /\ failures' = failures + 1
  /\ pc' = [c \in Clusters |-> "done"] /\ todo' = [c \in Clusters |-> {}]
  /\ UNCHANGED <<want, have, service, IsResize, mirrored, edits>>

Edit(c) ==
  /\ AllDone /\ edits < MaxEdits /\ edits' = edits + 1
  /\ \E s \in Settings \ {want[c]} : want' = [want EXCEPT ![c] = s]
  /\ UNCHANGED <<have, service, IsResize, pc, todo, mirrored, failures>>

-----------------------------------------------------------------------------
Handler(c) ==
  \/ Resize(c) \/ ResizeEnds(c) \/ InterfacesChanged(c) \/ AllAttached(c) \/ AllDetached(c)
  \/ \E i \in Interfaces, n \in Servers : Attach(c, i, n) \/ Detach(c, i, n) \/ NothingToDetach(c, i, n)
  \/ ReplaceMetadata(c) \/ ReadBack(c)

Next ==
  \/ StartRun \/ Killed
  \/ \E c \in Clusters : Handler(c) \/ CallFails(c) \/ Edit(c)

Spec == Init /\ [][Next]_vars

(* Runs are repeated; a handler Terraform has started goes on. *)
FairSpec == Spec /\ WF_vars(StartRun) /\ \A c \in Clusters : WF_vars(Handler(c))

-----------------------------------------------------------------------------
(* As long as no cluster of the process has begun a resize, an update that *)
(* gets to its end has given the cluster its metadata and, if they were    *)
(* all alike, every server the configured interfaces.                      *)
UpdateArrives ==
  \A c \in Clusters : (pc[c] = "reading" /\ ~IsResize) =>
    /\ metadata[c] = want[c].cluster_metadata
    /\ mirrored[c] => \A n \in 1..size[c] : at[c][n] = want[c].interface

(* Attaching comes first: an update that starts from servers that are all  *)
(* alike leaves none of them without an interface, whatever is exchanged   *)
(* and wherever it is cut off.                                             *)
MirroredNeverCutOff ==
  \A c \in Clusters : mirrored[c] => \A n \in 1..size[c] : at[c][n] # {}

(* An interface that one server has counts as attached to all of them.  A  *)
(* server that missed it, because the update failed in between, never gets *)
(* it, as long as it stays and the configuration stays as it is.           *)
Missing(c, i, n) ==
  /\ i \in want[c].interface \cap Listed(c) /\ n \in 1..size[c] /\ i \notin at[c][n]
  /\ pc[c] = "done" \/ i \in have[c].interface
StaysMissing ==
  \A c \in Clusters, i \in Interfaces, n \in Servers :
    (Missing(c, i, n) /\ want' = want /\ n <= size'[c] /\ i \in Listed(c)') => Missing(c, i, n)'
HalfAttachedIsSilent == [][StaysMissing]_vars

(* An update that was cut off while it detached an interface fails on every *)
(* later run, as long as no resize suppresses the detaching: the interface *)
(* is listed, but the first server does not have it.                       *)
StuckAt(c, i) ==
  /\ i \in Listed(c) \ want[c].interface /\ i \notin at[c][1]
  /\ pc[c] # "detaching" \/ <<i, 1>> \in todo[c]
  /\ pc[c] = "done" \/ i \in have[c].interface
StaysStuck ==
  \A c \in Clusters, i \in Interfaces :
    (StuckAt(c, i) /\ want' = want /\ size' = size) => StuckAt(c, i)'
HalfDetachedIsStuck == [][StaysStuck]_vars

(* Repeated runs make up for what a resize has suppressed, of the same or  *)
(* another cluster, and for failures, except for stuck clusters.           *)
Settled(c) == Listed(c) = want[c].interface /\ metadata[c] = want[c].cluster_metadata
Stuck(c) == \E i \in Interfaces : StuckAt(c, i)
Settles == <>[](\A c \in Clusters : Settled(c) \/ Stuck(c))
=============================================================================
