-------------------------- MODULE AIClusters_proofs --------------------------
(***************************************************************************)
(* Theorems about AIClusters for any number of clusters, servers,          *)
(* interfaces and metadata and all bounds: type correctness, what becomes  *)
(* of servers that are all alike, and what no later run repairs.           *)
(***************************************************************************)
EXTENDS AIClusters, TLAPS

Phases == {"done", "planned", "resizing", "resized", "attaching", "detaching", "metadata", "reading"}

LEMMA CounterTypes ==
  ASSUME TypeOK
  PROVE  /\ failures < MaxFailures => failures + 1 \in 0..MaxFailures
         /\ edits < MaxEdits => edits + 1 \in 0..MaxEdits
  BY BoundsAssumption DEF TypeOK

LEMMA ListedTypes ==
  ASSUME TypeOK, NEW c \in Clusters
  PROVE  /\ size[c] \in Nat /\ 1..size[c] \subseteq Servers
         /\ Listed(c) \subseteq Interfaces
<1>1. size[c] \in 1..MaxServers /\ MaxServers \in Nat
  BY BoundsAssumption DEF TypeOK, Servers
<1>2. size[c] \in Nat /\ 1..size[c] \subseteq Servers
  BY <1>1 DEF Servers
<1>3. \A n \in Servers : at[c][n] \subseteq Interfaces
  BY DEF TypeOK
<1> QED BY <1>2, <1>3 DEF Listed

(* What Read writes, what a handler plans and what it is to call. *)
LEMMA ReadTypes ==
  ASSUME TypeOK, NEW c \in Clusters, NEW s \in Recorded
  PROVE  /\ ReadInto(c, s) \in Recorded
         /\ ReadInto(c, s).interface = Listed(c)
         /\ ReadInto(c, s).cluster_metadata = metadata[c]
         /\ ReadInto(c, s).poplar_servers = size[c]
  BY ListedTypes DEF TypeOK, ReadInto, Recorded

LEMMA PlannedTypes ==
  ASSUME TypeOK, NEW c \in Clusters
  PROVE  Planned(c) \in Recorded /\ have[c] \in Recorded /\ want[c] \in Settings
<1>1. have[c] \in Recorded /\ want[c] \in Settings
  BY DEF TypeOK
<1>2. /\ want[c].instances_count \in Servers /\ want[c].interface \in SUBSET Interfaces
      /\ want[c].cluster_metadata \in Values
  BY <1>1 DEF Settings
<1> QED BY <1>1, <1>2 DEF Planned, Recorded

LEMMA CallsTypes ==
  ASSUME TypeOK, NEW c \in Clusters, NEW I \in SUBSET Interfaces
  PROVE  Calls(c, I) \in SUBSET (Interfaces \X Servers)
<1>1. have[c].poplar_servers \in Servers
  BY PlannedTypes DEF Recorded
<1>2. 1..have[c].poplar_servers \subseteq Servers
  BY <1>1, BoundsAssumption DEF Servers
<1> QED BY <1>2 DEF Calls

(* A handler that goes on to another phase with a list of calls. *)
LEMMA GotoTypes ==
  ASSUME TypeOK, NEW c \in Clusters, NEW phase \in Phases, NEW calls \in SUBSET (Interfaces \X Servers),
         pc' = [pc EXCEPT ![c] = phase],
         todo' = [todo EXCEPT ![c] = calls] \/ (calls = todo[c] /\ UNCHANGED todo),
         calls # {} => phase \in {"attaching", "detaching"}
  PROVE  /\ pc' \in [Clusters -> Phases]
         /\ todo' \in [Clusters -> SUBSET (Interfaces \X Servers)]
         /\ \A x \in Clusters : todo'[x] # {} => pc'[x] \in {"attaching", "detaching"}
  BY DEF TypeOK, Phases

LEMMA ReturnTypes ==
  ASSUME TypeOK, NEW c \in Clusters, NEW s \in Recorded, Return(c, s)
  PROVE  /\ have' \in [Clusters -> Recorded]
         /\ pc' \in [Clusters -> Phases]
         /\ todo' \in [Clusters -> SUBSET (Interfaces \X Servers)]
         /\ \A x \in Clusters : todo'[x] # {} => pc'[x] \in {"attaching", "detaching"}
  BY DEF TypeOK, Return, Goto, Phases

(* The interfaces of one server are replaced. *)
LEMMA HasTypes ==
  ASSUME TypeOK, NEW c \in Clusters, NEW n \in 1..size[c], NEW I \in SUBSET Interfaces, Has(c, n, I)
  PROVE  /\ at' \in [Clusters -> [Servers -> SUBSET Interfaces]]
         /\ \A x \in Clusters, m \in Servers : m > size[x] => at'[x][m] = {}
<1>1. size[c] \in Nat /\ n \in Servers
  BY BoundsAssumption DEF TypeOK, Servers
<1>2. ASSUME NEW x \in Clusters, NEW m \in Servers, m > size[x]
      PROVE  at'[x][m] = {}
  BY <1>1, <1>2 DEF TypeOK, Has
<1> QED BY <1>1, <1>2 DEF TypeOK, Has

LEMMA ResizedTypes ==
  ASSUME TypeOK, NEW c \in Clusters, Resized(c)
  PROVE  /\ size' \in [Clusters -> Servers]
         /\ at' \in [Clusters -> [Servers -> SUBSET Interfaces]]
         /\ \A x \in Clusters, m \in Servers : m > size'[x] => at'[x][m] = {}
<1>1. want[c].instances_count \in Servers
  BY PlannedTypes DEF Settings
<1>2. Listed(c) \subseteq Interfaces
  BY ListedTypes
<1>3. size' = [size EXCEPT ![c] = want[c].instances_count]
  BY DEF Resized
<1>4. \A m \in Servers : at'[c][m] = IF m > want[c].instances_count THEN {}
                                    ELSE IF m <= size[c] THEN at[c][m] ELSE Listed(c)
  BY DEF Resized, TypeOK
<1>5. at' = [at EXCEPT ![c] = at'[c]] /\ at'[c] \in [Servers -> SUBSET Interfaces]
  BY <1>2, <1>4 DEF Resized, TypeOK
<1> QED BY <1>1, <1>3, <1>4, <1>5 DEF TypeOK

-----------------------------------------------------------------------------
(* While a handler runs, the number of servers and the metadata in the     *)
(* state are the cluster's, a call is for a server of the cluster, and the *)
(* interface of an attaching call is new, of a detaching call old.         *)
Run(c) ==
  /\ pc[c] = "resizing" => IsResize
  /\ (pc[c] \in {"planned", "attaching", "detaching"} \/ (pc[c] = "resized" /\ ~IsResize)) =>
       have[c].poplar_servers = size[c]
  /\ \A i \in Interfaces, n \in Servers : <<i, n>> \in todo[c] =>
       /\ n <= size[c]
       /\ pc[c] = "attaching" => i \in want[c].interface \ have[c].interface
       /\ pc[c] = "detaching" => i \in have[c].interface \ want[c].interface
  /\ pc[c] \notin {"done", "reading"} => have[c].cluster_metadata = metadata[c]
  /\ (pc[c] = "reading" /\ ~IsResize) => metadata[c] = want[c].cluster_metadata

RunInv == TypeOK /\ \A c \in Clusters : Run(c)

LEMMA InitTypes == Init => TypeOK
<1> SUFFICES ASSUME Init PROVE TypeOK
  OBVIOUS
<1>1. PICK s \in Settings :
        /\ want = [c \in Clusters |-> s]
        /\ size = [c \in Clusters |-> s.instances_count]
        /\ at = [c \in Clusters |-> Everywhere(c, s.interface)]
        /\ metadata = [c \in Clusters |-> s.cluster_metadata]
        /\ have = [c \in Clusters |->
             [instances_count |-> s.instances_count, interface |-> s.interface,
              cluster_metadata |-> s.cluster_metadata, poplar_servers |-> s.instances_count]]
  BY DEF Init
<1>2. /\ s.instances_count \in Servers /\ s.interface \in SUBSET Interfaces
      /\ s.cluster_metadata \in Values
  BY DEF Settings
<1>3. /\ want \in [Clusters -> Settings] /\ size \in [Clusters -> Servers]
      /\ metadata \in [Clusters -> Values]
  BY <1>1, <1>2
<1>4. have \in [Clusters -> Recorded]
  BY <1>1, <1>2 DEF Recorded
<1>5. /\ at \in [Clusters -> [Servers -> SUBSET Interfaces]]
      /\ \A c \in Clusters, n \in Servers : n > size[c] => at[c][n] = {}
  BY <1>1, <1>2 DEF Everywhere, Servers
<1>6. failures \in 0..MaxFailures /\ edits \in 0..MaxEdits
  BY BoundsAssumption DEF Init
<1> QED BY <1>3, <1>4, <1>5, <1>6 DEF Init, TypeOK

LEMMA InitRuns == Init => RunInv
<1> SUFFICES ASSUME Init PROVE RunInv
  OBVIOUS
<1>1. TypeOK
  BY InitTypes
<1>2. \A c \in Clusters : pc[c] = "done" /\ todo[c] = {}
  BY DEF Init
<1> QED BY <1>1, <1>2 DEF RunInv, Run

(* Every step keeps the types. *)
LEMMA TypeStep == RunInv /\ [Next]_vars => TypeOK'
<1> SUFFICES ASSUME RunInv, [Next]_vars PROVE TypeOK'
  OBVIOUS
<1> USE DEF service, counters
<1>t. TypeOK
  BY DEF RunInv
<1>p. \A c \in Clusters : pc[c] \in Phases /\ todo[c] \in SUBSET (Interfaces \X Servers)
  BY <1>t DEF TypeOK, Phases
<1>1. CASE StartRun
  <2>1. /\ have' \in [Clusters -> Recorded] /\ pc' \in [Clusters -> Phases]
        /\ mirrored' \in [Clusters -> BOOLEAN] /\ todo' = todo
        /\ \A c \in Clusters : todo[c] = {}
    BY <1>1, <1>t, ReadTypes, PlannedTypes DEF StartRun, AllDone, Alike, Phases, TypeOK
  <2> QED BY <1>1, <1>t, <2>1 DEF StartRun, Phases, TypeOK
<1>2. CASE Killed
  <2>1. /\ pc' \in [Clusters -> Phases] /\ failures' \in 0..MaxFailures
        /\ todo' \in [Clusters -> SUBSET (Interfaces \X Servers)]
        /\ \A c \in Clusters : todo'[c] = {}
    BY <1>2, <1>t, CounterTypes DEF Killed, Phases
  <2> QED BY <1>2, <1>t, <2>1 DEF Killed, Phases, TypeOK
<1>3. ASSUME NEW c \in Clusters, Edit(c)
      PROVE  TypeOK'
  <2>1. want' \in [Clusters -> Settings] /\ edits' \in 0..MaxEdits
    BY <1>3, <1>t, CounterTypes DEF Edit, TypeOK
  <2> QED BY <1>3, <1>t, <2>1 DEF Edit, TypeOK
<1>4. ASSUME NEW c \in Clusters, Resize(c)
      PROVE  TypeOK'
  <2>1. /\ pc[c] = "planned" /\ IsResize' \in BOOLEAN
        /\ \E phase \in {"resizing", "resized"} : pc' = [pc EXCEPT ![c] = phase]
        /\ UNCHANGED <<want, have, size, at, metadata, todo, mirrored, failures, edits>>
    BY <1>4, <1>t DEF Resize, Goto, TypeOK
  <2> QED BY <2>1, <1>t DEF TypeOK
<1>5. ASSUME NEW c \in Clusters, ResizeEnds(c)
      PROVE  TypeOK'
  <2>1. /\ pc[c] = "resizing" /\ pc' = [pc EXCEPT ![c] = "resized"] /\ Resized(c)
        /\ UNCHANGED <<want, have, metadata, IsResize, todo, mirrored, failures, edits>>
    BY <1>5 DEF ResizeEnds, Goto
  <2>2. /\ size' \in [Clusters -> Servers]
        /\ at' \in [Clusters -> [Servers -> SUBSET Interfaces]]
        /\ \A x \in Clusters, m \in Servers : m > size'[x] => at'[x][m] = {}
    BY <2>1, <1>t, ResizedTypes
  <2> QED BY <2>1, <2>2, <1>t DEF TypeOK
<1>6. ASSUME NEW c \in Clusters, InterfacesChanged(c) \/ AllAttached(c)
      PROVE  TypeOK'
  <2> DEFINE new == Calls(c, want[c].interface \ have[c].interface)
             old == Calls(c, have[c].interface \ want[c].interface)
  <2>1. new \in SUBSET (Interfaces \X Servers) /\ old \in SUBSET (Interfaces \X Servers)
    BY <1>t, CallsTypes, PlannedTypes DEF Settings, Recorded
  <2> HIDE DEF new, old
  <2>2. /\ UNCHANGED <<want, have, size, at, metadata, IsResize, mirrored, failures, edits>>
        /\ \/ pc' = [pc EXCEPT ![c] = "attaching"] /\ todo' = [todo EXCEPT ![c] = new]
           \/ pc' = [pc EXCEPT ![c] = "detaching"] /\ todo' = [todo EXCEPT ![c] = old]
           \/ pc' = [pc EXCEPT ![c] = "metadata"] /\ UNCHANGED todo /\ pc[c] = "resized"
    BY <1>6 DEF InterfacesChanged, AllAttached, Goto, new, old
  <2> QED BY <1>t, <2>1, <2>2 DEF TypeOK
<1>7. ASSUME NEW c \in Clusters, NEW i \in Interfaces, NEW n \in Servers,
             Attach(c, i, n) \/ Detach(c, i, n)
      PROVE  TypeOK'
  <2>1. /\ UNCHANGED <<want, have, size, metadata, IsResize, pc, mirrored, failures, edits>>
        /\ todo' = [todo EXCEPT ![c] = @ \ {<<i, n>>}] /\ n <= size[c]
        /\ Has(c, n, at[c][n] \cup {i}) \/ Has(c, n, at[c][n] \ {i})
    BY <1>7 DEF Attach, Detach, Called, Due, RunInv, Run
  <2>a. at[c][n] \cup {i} \in SUBSET Interfaces /\ at[c][n] \ {i} \in SUBSET Interfaces
    BY <1>t DEF TypeOK
  <2>b. n \in 1..size[c]
    BY <2>1, <1>t, ListedTypes DEF Servers
  <2>2. /\ at' \in [Clusters -> [Servers -> SUBSET Interfaces]]
        /\ \A x \in Clusters, m \in Servers : m > size[x] => at'[x][m] = {}
    BY <2>1, <2>a, <2>b, <1>t, HasTypes
  <2>3. /\ todo' \in [Clusters -> SUBSET (Interfaces \X Servers)]
        /\ \A x \in Clusters : todo'[x] # {} => todo[x] # {}
    BY <2>1, <1>t DEF TypeOK
  <2> QED BY <2>1, <2>2, <2>3, <1>t DEF TypeOK
<1>8. ASSUME NEW c \in Clusters, AllDetached(c) \/ ReplaceMetadata(c)
      PROVE  TypeOK'
  <2>1. /\ UNCHANGED <<want, have, size, at, IsResize, todo, mirrored, failures, edits>>
        /\ metadata' \in [Clusters -> Values] /\ todo[c] = {}
        /\ \E phase \in {"metadata", "reading"} : pc' = [pc EXCEPT ![c] = phase]
    BY <1>8, <1>t, PlannedTypes DEF AllDetached, ReplaceMetadata, Replaced, Goto, TypeOK, Settings
  <2> QED BY <2>1, <1>t DEF TypeOK
<1>9. ASSUME NEW c \in Clusters, ReadBack(c) \/ \E i \in Interfaces, n \in Servers : NothingToDetach(c, i, n)
      PROVE  TypeOK'
  <2>1. PICK s \in Recorded : Return(c, s)
    BY <1>9, <1>t, ReadTypes, PlannedTypes DEF ReadBack, NothingToDetach
  <2>2. UNCHANGED <<want, size, at, metadata, IsResize, mirrored, failures, edits>>
    BY <1>9 DEF ReadBack, NothingToDetach
  <2> QED BY <2>1, <2>2, <1>t, ReturnTypes DEF TypeOK, Phases
<1>10. ASSUME NEW c \in Clusters, CallFails(c)
       PROVE  TypeOK'
  <2>1. /\ Return(c, Planned(c)) /\ failures' \in 0..MaxFailures
        /\ UNCHANGED <<want, IsResize, mirrored, edits>>
    BY <1>10, <1>t, CounterTypes DEF CallFails
  <2>2. metadata' \in [Clusters -> Values]
    BY <1>10, <1>t, PlannedTypes DEF CallFails, Replaced, TypeOK, Settings
  <2>3. /\ size' \in [Clusters -> Servers]
        /\ at' \in [Clusters -> [Servers -> SUBSET Interfaces]]
        /\ \A x \in Clusters, m \in Servers : m > size'[x] => at'[x][m] = {}
    <3>1. CASE UNCHANGED <<size, at>>
      BY <3>1, <1>t DEF TypeOK
    <3>2. CASE Resized(c)
      BY <3>2, <1>t, ResizedTypes
    <3>3. ASSUME NEW i \in Interfaces, NEW n \in Servers, Due(c, i, n), UNCHANGED size,
                 Has(c, n, at[c][n] \cup {i}) \/ Has(c, n, at[c][n] \ {i})
          PROVE  <2>3!1 /\ <2>3!2 /\ <2>3!3
      <4>1. <<i, n>> \in todo[c]
        BY <3>3 DEF Due
      <4>2. n \in 1..size[c]
        BY <4>1, <1>t, ListedTypes DEF RunInv, Run, Servers
      <4>3. at[c][n] \cup {i} \in SUBSET Interfaces /\ at[c][n] \ {i} \in SUBSET Interfaces
        BY <1>t DEF TypeOK
      <4>4. /\ at' \in [Clusters -> [Servers -> SUBSET Interfaces]]
            /\ \A x \in Clusters, m \in Servers : m > size[x] => at'[x][m] = {}
        BY <3>3, <4>2, <4>3, <1>t, HasTypes
      <4> QED BY <3>3, <4>4, <1>t DEF TypeOK
    <3> QED BY <1>10, <3>1, <3>2, <3>3 DEF CallFails
  <2> QED BY <2>1, <2>2, <2>3, <1>t, ReturnTypes, PlannedTypes DEF TypeOK, Phases
<1>11. CASE UNCHANGED vars
  BY <1>11, <1>t DEF vars, TypeOK
<1> QED
  BY <1>1, <1>2, <1>3, <1>4, <1>5, <1>6, <1>7, <1>8, <1>9, <1>10, <1>11 DEF Next, Handler

-----------------------------------------------------------------------------
(* A handler leaves the other clusters alone, and IsResize set. *)
LEMMA OthersUntouched ==
  ASSUME TypeOK, NEW c \in Clusters, Handler(c) \/ CallFails(c), NEW x \in Clusters, x # c
  PROVE  /\ want' = want /\ mirrored' = mirrored
         /\ have'[x] = have[x] /\ size'[x] = size[x] /\ at'[x] = at[x]
         /\ metadata'[x] = metadata[x] /\ pc'[x] = pc[x] /\ todo'[x] = todo[x]
         /\ IsResize => IsResize'
<1> USE DEF service, counters, Goto
<1>1. CASE Resize(c) \/ InterfacesChanged(c) \/ AllAttached(c) \/ AllDetached(c)
  BY <1>1 DEF TypeOK, Resize, InterfacesChanged, AllAttached, AllDetached
<1>2. CASE ResizeEnds(c)
  BY <1>2 DEF TypeOK, ResizeEnds, Resized
<1>3. CASE \E i \in Interfaces, n \in Servers : Attach(c, i, n) \/ Detach(c, i, n)
  BY <1>3 DEF TypeOK, Attach, Detach, Has, Called
<1>4. CASE (\E i \in Interfaces, n \in Servers : NothingToDetach(c, i, n)) \/ ReadBack(c)
  BY <1>4 DEF TypeOK, NothingToDetach, ReadBack, Return
<1>5. CASE ReplaceMetadata(c)
  BY <1>5 DEF TypeOK, ReplaceMetadata, Replaced
<1>6. CASE CallFails(c)
  BY <1>6 DEF TypeOK, CallFails, Return, Replaced, Resized, Has
<1> QED BY <1>1, <1>2, <1>3, <1>4, <1>5, <1>6 DEF Handler

(* The calls are for the interfaces and the servers of the state. *)
LEMMA CallsMean ==
  ASSUME TypeOK, NEW c \in Clusters, NEW I \in SUBSET Interfaces, NEW i, NEW n
  PROVE  <<i, n>> \in Calls(c, I) <=> i \in I /\ n \in 1..have[c].poplar_servers
  BY DEF Calls

(* A handler keeps what holds of its cluster while it runs. *)
LEMMA OwnRun ==
  ASSUME RunInv, NEW c \in Clusters, Handler(c) \/ CallFails(c)
  PROVE  Run(c)'
<1> USE DEF service, counters, Goto
<1>t. TypeOK /\ Run(c)
  BY DEF RunInv
<1>w. want[c].interface \in SUBSET Interfaces /\ have[c].interface \in SUBSET Interfaces
  BY <1>t, PlannedTypes DEF Settings, Recorded
<1>1. CASE Resize(c)
  BY <1>1, <1>t DEF TypeOK, Resize, Run
<1>2. CASE ResizeEnds(c)
  BY <1>2, <1>t DEF TypeOK, ResizeEnds, Run
<1>3. CASE InterfacesChanged(c)
  <2>1. CASE pc' = [pc EXCEPT ![c] = "attaching"]
    <3>1. todo'[c] = Calls(c, want[c].interface \ have[c].interface) /\ pc[c] = "resized" /\ ~IsResize
      BY <1>3, <2>1, <1>t DEF InterfacesChanged, TypeOK
    <3>2. have[c].poplar_servers = size[c] /\ pc'[c] = "attaching"
      BY <2>1, <3>1, <1>t DEF Run, TypeOK
    <3>3. \A i \in Interfaces, n \in Servers : <<i, n>> \in todo'[c] =>
            n <= size[c] /\ i \in want[c].interface \ have[c].interface
      BY <3>1, <3>2, <1>t, <1>w, CallsMean, ListedTypes DEF Servers
    <3> QED BY <1>3, <3>1, <3>2, <3>3, <1>t DEF InterfacesChanged, Run
  <2>2. CASE pc' = [pc EXCEPT ![c] = "metadata"]
    BY <1>3, <2>2, <1>t DEF InterfacesChanged, Run, TypeOK
  <2> QED BY <1>3, <2>1, <2>2 DEF InterfacesChanged
<1>4. CASE AllAttached(c)
  <2>1. /\ todo'[c] = Calls(c, have[c].interface \ want[c].interface)
        /\ pc[c] = "attaching" /\ pc'[c] = "detaching"
    BY <1>4, <1>t DEF AllAttached, TypeOK
  <2>2. have[c].poplar_servers = size[c]
    BY <2>1, <1>t DEF Run
  <2>3. \A i \in Interfaces, n \in Servers : <<i, n>> \in todo'[c] =>
          n <= size[c] /\ i \in have[c].interface \ want[c].interface
    BY <2>1, <2>2, <1>t, <1>w, CallsMean, ListedTypes DEF Servers
  <2> QED BY <1>4, <2>1, <2>2, <2>3, <1>t DEF AllAttached, Run
<1>5. ASSUME NEW i \in Interfaces, NEW n \in Servers, Attach(c, i, n) \/ Detach(c, i, n)
      PROVE  Run(c)'
  <2>1. todo'[c] \subseteq todo[c]
    BY <1>5, <1>t DEF Attach, Detach, Called, TypeOK
  <2> QED BY <1>5, <2>1, <1>t DEF Attach, Detach, Run
<1>6. CASE (\E i \in Interfaces, n \in Servers : NothingToDetach(c, i, n)) \/ ReadBack(c) \/ CallFails(c)
  <2>1. pc'[c] = "done" /\ todo'[c] = {}
    BY <1>6, <1>t DEF NothingToDetach, ReadBack, CallFails, Return, TypeOK
  <2> QED BY <2>1 DEF Run
<1>7. CASE AllDetached(c)
  BY <1>7, <1>t DEF AllDetached, Run, TypeOK
<1>8. CASE ReplaceMetadata(c)
  <2>1. /\ pc[c] = "metadata" /\ pc'[c] = "reading" /\ todo'[c] = todo[c]
        /\ UNCHANGED <<want, have, size, IsResize>>
    BY <1>8, <1>t DEF ReplaceMetadata, TypeOK
  <2>2. todo[c] = {} /\ have[c].cluster_metadata = metadata[c]
    BY <2>1, <1>t DEF Run, TypeOK
  <2>3. ~IsResize => metadata'[c] = want[c].cluster_metadata
    BY <1>8, <2>2, <1>t DEF ReplaceMetadata, Replaced, HasChange, TypeOK
  <2> QED BY <2>1, <2>2, <2>3 DEF Run
<1> QED BY <1>1, <1>2, <1>3, <1>4, <1>5, <1>6, <1>7, <1>8 DEF Handler

(* Every step keeps what holds of a cluster while its handler runs. *)
LEMMA RunStep == RunInv /\ [Next]_vars => RunInv'
<1> SUFFICES ASSUME RunInv, [Next]_vars, NEW x \in Clusters PROVE Run(x)'
  BY TypeStep DEF RunInv
<1> USE DEF service, counters
<1>t. TypeOK /\ Run(x)
  BY DEF RunInv
<1>1. CASE StartRun
  <2>1. /\ have'[x].poplar_servers = size[x] /\ have'[x].cluster_metadata = metadata[x]
        /\ pc'[x] \in {"done", "planned"} /\ todo'[x] = {} /\ UNCHANGED <<size, metadata, want>>
    BY <1>1, <1>t, ReadTypes, PlannedTypes DEF StartRun, AllDone, TypeOK
  <2> QED BY <2>1 DEF Run
<1>2. CASE Killed
  BY <1>2 DEF Killed, Run
<1>3. ASSUME NEW c \in Clusters, Edit(c)
      PROVE  Run(x)'
  BY <1>3, <1>t DEF Edit, AllDone, TypeOK, Run
<1>4. ASSUME NEW c \in Clusters, Handler(c) \/ CallFails(c)
      PROVE  Run(x)'
  <2>1. CASE x = c
    BY <2>1, <1>4, OwnRun
  <2>2. CASE x # c
    BY <2>2, <1>4, <1>t, OthersUntouched DEF Run
  <2> QED BY <2>1, <2>2
<1>5. CASE UNCHANGED vars
  BY <1>5, <1>t DEF vars, Run
<1> QED BY <1>1, <1>2, <1>3, <1>4, <1>5 DEF Next

LEMMA RunInvariant == Spec => []RunInv
<1> QED BY InitRuns, RunStep, PTL DEF Spec

(* The variables keep their types, whatever interfaces are attached and    *)
(* detached from a list of servers read earlier.                           *)
THEOREM TypeCorrect == Spec => []TypeOK
<1>1. RunInv => TypeOK
  BY DEF RunInv
<1> QED BY <1>1, RunInvariant, PTL

-----------------------------------------------------------------------------
(* What the servers of a cluster have that were all alike when the handler *)
(* started, phase by phase.                                                *)
AllHave(c, I) == \A n \in 1..size[c] : at[c][n] = I
Mirror(c) ==
  mirrored[c] =>
    /\ pc[c] = "done" => \A n \in 1..size[c] : at[c][n] # {}
    /\ pc[c] \in {"planned", "resizing", "resized"} =>
         have[c].interface # {} /\ AllHave(c, have[c].interface)
    /\ pc[c] = "attaching" =>
         /\ have[c].interface # {}
         /\ \A n \in 1..size[c], i \in Interfaces : i \in at[c][n] <=>
              i \in have[c].interface \/ (i \in want[c].interface /\ <<i, n>> \notin todo[c])
    /\ pc[c] = "detaching" =>
         \A n \in 1..size[c], i \in Interfaces : i \in at[c][n] <=>
           i \in want[c].interface \/ <<i, n>> \in todo[c]
    /\ pc[c] \in {"metadata", "reading"} =>
         /\ \A n \in 1..size[c] : at[c][n] # {}
         /\ IsResize \/ AllHave(c, want[c].interface)

MirrorInv == RunInv /\ \A c \in Clusters : Mirror(c)

LEMMA InitMirrors == Init => MirrorInv
<1> SUFFICES ASSUME Init, NEW c \in Clusters PROVE Mirror(c)
  BY InitRuns DEF MirrorInv
<1>1. PICK s \in Settings : size[c] = s.instances_count /\ at[c] = Everywhere(c, s.interface)
  BY DEF Init
<1>2. s.interface # {} /\ 1..size[c] \subseteq Servers
  BY InitRuns, ListedTypes DEF Settings, RunInv
<1>3. \A n \in 1..size[c] : at[c][n] = s.interface
  BY <1>1, <1>2 DEF Everywhere
<1> QED BY <1>2, <1>3 DEF Init, Mirror

(* Whatever its handler is at, each of its servers has an interface. *)
LEMMA MirrorsHaveSome ==
  ASSUME RunInv, NEW c \in Clusters, Mirror(c), mirrored[c], NEW n \in 1..size[c]
  PROVE  at[c][n] # {}
<1>t. TypeOK /\ Run(c) /\ pc[c] \in Phases
  BY DEF RunInv, TypeOK, Phases
<1>w. /\ want[c].interface \in SUBSET Interfaces /\ want[c].interface # {}
      /\ have[c].interface \in SUBSET Interfaces
  BY <1>t, PlannedTypes DEF Settings, Recorded
<1>1. CASE pc[c] = "attaching" \/ pc[c] = "detaching"
  BY <1>1, <1>w DEF Mirror
<1>2. CASE pc[c] \in {"planned", "resizing", "resized"}
  BY <1>2 DEF Mirror, AllHave
<1>3. CASE pc[c] \in {"done", "metadata", "reading"}
  BY <1>3 DEF Mirror
<1> QED BY <1>1, <1>2, <1>3, <1>t DEF Phases

(* A resize keeps servers alike. *)
LEMMA ResizedAlike ==
  ASSUME TypeOK, NEW c \in Clusters, Resized(c), NEW I, AllHave(c, I)
  PROVE  \A n \in 1..size'[c] : at'[c][n] = I
<1>1. size[c] \in Nat /\ 1 \in 1..size[c] /\ want[c].instances_count \in Servers
  BY PlannedTypes, BoundsAssumption DEF Settings, Servers, TypeOK
<1>2. Listed(c) = I
  BY <1>1 DEF Listed, AllHave
<1>3. size'[c] = want[c].instances_count /\ 1..size'[c] \subseteq Servers
  BY <1>1, BoundsAssumption DEF Resized, Servers, TypeOK
<1>4. \A n \in 1..size'[c] : at'[c][n] = IF n <= size[c] THEN at[c][n] ELSE Listed(c)
  BY <1>1, <1>3, BoundsAssumption DEF Resized, TypeOK, Servers
<1> QED BY <1>1, <1>2, <1>3, <1>4, BoundsAssumption DEF AllHave, Servers

LEMMA OwnMirror ==
  ASSUME MirrorInv, NEW c \in Clusters, Handler(c) \/ CallFails(c), mirrored[c]
  PROVE  Mirror(c)'
<1> USE DEF service, counters, Goto
<1>t. TypeOK /\ Run(c) /\ Mirror(c) /\ RunInv
  BY DEF MirrorInv, RunInv
<1>w. /\ want[c].interface \in SUBSET Interfaces /\ have[c].interface \in SUBSET Interfaces
      /\ want[c].interface # {}
  BY <1>t, PlannedTypes DEF Settings, Recorded
<1>l. size[c] \in Nat /\ 1..size[c] \subseteq Servers
  BY <1>t, ListedTypes
<1>s. \A n \in 1..size[c] : at[c][n] # {} /\ at[c][n] \subseteq Interfaces
  BY <1>t, <1>l, MirrorsHaveSome DEF TypeOK
<1>1. CASE Resize(c)
  <2>1. pc[c] = "planned" /\ pc'[c] \in {"resizing", "resized"} /\ UNCHANGED <<have, size, at>>
    BY <1>1, <1>t DEF Resize, TypeOK
  <2> QED BY <2>1, <1>t DEF Mirror, AllHave
<1>2. CASE ResizeEnds(c)
  <2>1. pc[c] = "resizing" /\ pc'[c] = "resized" /\ UNCHANGED have /\ Resized(c)
    BY <1>2, <1>t DEF ResizeEnds, TypeOK
  <2>2. have[c].interface # {} /\ AllHave(c, have[c].interface)
    BY <2>1, <1>t DEF Mirror
  <2>3. \A n \in 1..size'[c] : at'[c][n] = have[c].interface
    BY <2>1, <2>2, <1>t, ResizedAlike
  <2> QED BY <2>1, <2>2, <2>3 DEF Mirror, AllHave
<1>3. CASE InterfacesChanged(c)
  <2>1. /\ pc[c] = "resized" /\ UNCHANGED <<want, have, size, at, IsResize>>
        /\ have[c].interface # {} /\ AllHave(c, have[c].interface)
    BY <1>3, <1>t DEF InterfacesChanged, Mirror
  <2>2. CASE pc' = [pc EXCEPT ![c] = "attaching"]
    <3>1. /\ todo'[c] = Calls(c, want[c].interface \ have[c].interface) /\ pc'[c] = "attaching"
          /\ have[c].poplar_servers = size[c]
      BY <1>3, <2>2, <1>t DEF InterfacesChanged, TypeOK, Run
    <3>2. \A n \in 1..size[c], i \in Interfaces :
            <<i, n>> \in todo'[c] <=> i \in want[c].interface \ have[c].interface
      BY <3>1, <1>t, <1>w, CallsMean
    <3>3. \A n \in 1..size[c], i \in Interfaces : i \in at[c][n] <=>
            i \in have[c].interface \/ (i \in want[c].interface /\ <<i, n>> \notin todo'[c])
      BY <2>1, <3>2 DEF AllHave
    <3> QED BY <2>1, <3>1, <3>3 DEF Mirror
  <2>3. CASE pc' = [pc EXCEPT ![c] = "metadata"]
    <3>1. pc'[c] = "metadata" /\ (IsResize \/ have[c].interface = want[c].interface)
      BY <1>3, <2>3, <1>t DEF InterfacesChanged, HasChange, TypeOK
    <3> QED BY <2>1, <3>1, <1>s DEF Mirror, AllHave
  <2> QED BY <1>3, <2>2, <2>3 DEF InterfacesChanged
<1>4. ASSUME NEW i \in Interfaces, NEW n \in Servers, Attach(c, i, n)
      PROVE  Mirror(c)'
  <2>1. /\ pc[c] = "attaching" /\ pc'[c] = "attaching" /\ UNCHANGED <<want, have, size>>
        /\ todo'[c] = todo[c] \ {<<i, n>>} /\ <<i, n>> \in todo[c]
        /\ at'[c] = [at[c] EXCEPT ![n] = at[c][n] \cup {i}]
    BY <1>4, <1>t DEF Attach, Called, Due, Has, TypeOK
  <2>2. i \in want[c].interface
    BY <2>1, <1>t DEF Run
  <2>3. ASSUME NEW m \in 1..size[c], NEW j \in Interfaces
        PROVE  j \in at'[c][m] <=>
                 j \in have[c].interface \/ (j \in want[c].interface /\ <<j, m>> \notin todo'[c])
    <3>1. j \in at[c][m] <=>
            j \in have[c].interface \/ (j \in want[c].interface /\ <<j, m>> \notin todo[c])
      BY <2>1, <1>t DEF Mirror
    <3>2. at'[c][m] = IF m = n THEN at[c][m] \cup {i} ELSE at[c][m]
      BY <2>1, <1>t, <1>l DEF TypeOK
    <3> QED BY <2>1, <2>2, <3>1, <3>2
  <2> QED BY <2>1, <2>3, <1>t DEF Mirror
<1>5. CASE AllAttached(c)
  <2>1. /\ todo'[c] = Calls(c, have[c].interface \ want[c].interface) /\ todo[c] = {}
        /\ pc[c] = "attaching" /\ pc'[c] = "detaching" /\ UNCHANGED <<want, have, size, at>>
        /\ have[c].poplar_servers = size[c]
    BY <1>5, <1>t DEF AllAttached, TypeOK, Run
  <2>2. \A n \in 1..size[c], i \in Interfaces :
          <<i, n>> \in todo'[c] <=> i \in have[c].interface \ want[c].interface
    BY <2>1, <1>t, <1>w, CallsMean
  <2>3. \A n \in 1..size[c], i \in Interfaces : i \in at[c][n] <=>
          i \in want[c].interface \/ <<i, n>> \in todo'[c]
    BY <2>1, <2>2, <1>t DEF Mirror
  <2> QED BY <2>1, <2>3 DEF Mirror
<1>6. ASSUME NEW i \in Interfaces, NEW n \in Servers, Detach(c, i, n)
      PROVE  Mirror(c)'
  <2>1. /\ pc[c] = "detaching" /\ pc'[c] = "detaching" /\ UNCHANGED <<want, have, size>>
        /\ todo'[c] = todo[c] \ {<<i, n>>} /\ <<i, n>> \in todo[c]
        /\ at'[c] = [at[c] EXCEPT ![n] = at[c][n] \ {i}]
    BY <1>6, <1>t DEF Detach, Called, Due, Has, TypeOK
  <2>2. i \notin want[c].interface
    BY <2>1, <1>t DEF Run
  <2>3. ASSUME NEW m \in 1..size[c], NEW j \in Interfaces
        PROVE  j \in at'[c][m] <=> j \in want[c].interface \/ <<j, m>> \in todo'[c]
    <3>1. j \in at[c][m] <=> j \in want[c].interface \/ <<j, m>> \in todo[c]
      BY <2>1, <1>t DEF Mirror
    <3>2. at'[c][m] = IF m = n THEN at[c][m] \ {i} ELSE at[c][m]
      BY <2>1, <1>t, <1>l DEF TypeOK
    <3> QED BY <2>1, <2>2, <3>1, <3>2
  <2> QED BY <2>1, <2>3, <1>t DEF Mirror
<1>7. CASE AllDetached(c)
  <2>1. /\ pc[c] = "detaching" /\ pc'[c] = "metadata" /\ todo[c] = {} /\ UNCHANGED <<want, size, at>>
    BY <1>7, <1>t DEF AllDetached, TypeOK
  <2>2. \A n \in 1..size[c] : at[c][n] = want[c].interface
    BY <2>1, <1>t, <1>s, <1>w DEF Mirror
  <2> QED BY <2>1, <2>2, <1>s DEF Mirror, AllHave
<1>8. CASE ReplaceMetadata(c)
  <2>1. pc[c] = "metadata" /\ pc'[c] = "reading" /\ UNCHANGED <<want, size, at, IsResize>>
    BY <1>8, <1>t DEF ReplaceMetadata, TypeOK
  <2> QED BY <2>1, <1>t DEF Mirror, AllHave
<1>9. CASE (\E i \in Interfaces, n \in Servers : NothingToDetach(c, i, n)) \/ ReadBack(c)
  <2>1. pc'[c] = "done" /\ UNCHANGED <<size, at>>
    BY <1>9, <1>t DEF NothingToDetach, ReadBack, Return, TypeOK
  <2> QED BY <2>1, <1>s DEF Mirror
<1>10. CASE CallFails(c)
  <2>1. pc'[c] = "done"
    BY <1>10, <1>t DEF CallFails, Return, TypeOK
  <2>2. \A n \in 1..size'[c] : at'[c][n] # {}
    <3>1. CASE UNCHANGED <<size, at>>
      BY <3>1, <1>s
    <3>2. CASE pc[c] = "resizing" /\ Resized(c)
      <4>1. have[c].interface # {} /\ AllHave(c, have[c].interface)
        BY <3>2, <1>t DEF Mirror
      <4> QED BY <3>2, <4>1, <1>t, ResizedAlike
    <3>3. ASSUME NEW i \in Interfaces, NEW n \in Servers, UNCHANGED size, Due(c, i, n),
                 \/ Has(c, n, at[c][n] \cup {i})
                 \/ pc[c] = "detaching" /\ Has(c, n, at[c][n] \ {i})
          PROVE  <2>2
      <4>1. CASE Has(c, n, at[c][n] \cup {i})
        <5>1. \A m \in Servers : at[c][m] \subseteq at'[c][m]
          BY <4>1, <1>t DEF Has, TypeOK
        <5> QED BY <3>3, <5>1, <1>s, <1>l
      <4>2. CASE pc[c] = "detaching" /\ Has(c, n, at[c][n] \ {i})
        <5>1. <<i, n>> \in todo[c] /\ i \notin want[c].interface
          BY <3>3, <4>2, <1>t DEF Due, Run
        <5>2. \A m \in 1..size[c] : want[c].interface \subseteq at[c][m]
          BY <4>2, <1>t, <1>w DEF Mirror
        <5>3. \A m \in 1..size[c] : want[c].interface \subseteq at'[c][m]
          BY <4>2, <5>1, <5>2, <1>t, <1>l DEF Has, TypeOK
        <5> QED BY <3>3, <5>3, <1>w
      <4> QED BY <3>3, <4>1, <4>2
    <3> QED BY <1>10, <3>1, <3>2, <3>3 DEF CallFails
  <2> QED BY <2>1, <2>2 DEF Mirror
<1> QED BY <1>1, <1>2, <1>3, <1>4, <1>5, <1>6, <1>7, <1>8, <1>9, <1>10 DEF Handler

LEMMA MirrorStep == MirrorInv /\ [Next]_vars => MirrorInv'
<1> SUFFICES ASSUME MirrorInv, [Next]_vars, NEW x \in Clusters, mirrored'[x] PROVE Mirror(x)'
  BY RunStep DEF MirrorInv, Mirror
<1> USE DEF service, counters
<1>t. TypeOK /\ Mirror(x) /\ RunInv
  BY DEF MirrorInv, RunInv
<1>1. CASE StartRun
  <2>1. /\ have'[x].interface = Listed(x) /\ Alike(x) /\ UNCHANGED <<size, at>>
        /\ pc'[x] \in {"done", "planned"}
    BY <1>1, <1>t, ReadTypes, PlannedTypes DEF StartRun
  <2>2. \A n \in 1..size[x] : at[x][n] = Listed(x) /\ Listed(x) # {}
    BY <2>1 DEF Alike
  <2>3. Listed(x) # {}
    BY <2>1 DEF Alike
  <2> QED BY <2>1, <2>2, <2>3 DEF Mirror, AllHave
<1>2. CASE Killed
  <2>1. pc'[x] = "done" /\ UNCHANGED <<size, at, mirrored>>
    BY <1>2 DEF Killed
  <2> QED BY <2>1, <1>t, MirrorsHaveSome DEF Mirror
<1>3. ASSUME NEW c \in Clusters, Edit(c)
      PROVE  Mirror(x)'
  <2>1. pc[x] = "done" /\ UNCHANGED <<size, at, mirrored, pc>>
    BY <1>3 DEF Edit, AllDone
  <2> QED BY <2>1, <1>t DEF Mirror
<1>4. ASSUME NEW c \in Clusters, Handler(c) \/ CallFails(c)
      PROVE  Mirror(x)'
  <2>1. CASE x = c
    <3>1. CASE mirrored[c]
      BY <2>1, <3>1, <1>4, OwnMirror
    <3>2. CASE ~mirrored[c]
      <4>1. UNCHANGED mirrored
        BY <1>4 DEF Handler, Resize, ResizeEnds, InterfacesChanged, AllAttached, AllDetached, Attach,
          Detach, NothingToDetach, ReplaceMetadata, ReadBack, CallFails
      <4> QED BY <4>1, <3>2, <2>1
    <3> QED BY <3>1, <3>2
  <2>2. CASE x # c
    BY <2>2, <1>4, <1>t, OthersUntouched DEF Mirror, AllHave
  <2> QED BY <2>1, <2>2
<1>5. CASE UNCHANGED vars
  BY <1>5, <1>t DEF vars, Mirror, AllHave
<1> QED BY <1>1, <1>2, <1>3, <1>4, <1>5 DEF Next

(* What the servers of a cluster have, phase by phase, in every state. *)
THEOREM MirrorInvariant == Spec => []MirrorInv
<1> QED BY InitMirrors, MirrorStep, PTL DEF Spec

(* An update from servers that are all alike leaves none of them without   *)
(* an interface, wherever it is cut off: attaching comes first.            *)
THEOREM ServersStayConnected == Spec => []MirroredNeverCutOff
<1>1. MirrorInv => MirroredNeverCutOff
  BY MirrorsHaveSome DEF MirrorInv, MirroredNeverCutOff
<1> QED BY <1>1, MirrorInvariant, PTL

(* An update that gets to its end before any cluster of the process has    *)
(* begun a resize has given the cluster its metadata, and servers that     *)
(* were all alike the configured interfaces.                               *)
THEOREM UpdatesArrive == Spec => []UpdateArrives
<1>1. MirrorInv => UpdateArrives
  <2> SUFFICES ASSUME MirrorInv, NEW c \in Clusters, pc[c] = "reading", ~IsResize
               PROVE  /\ metadata[c] = want[c].cluster_metadata
                      /\ mirrored[c] => \A n \in 1..size[c] : at[c][n] = want[c].interface
    BY DEF UpdateArrives
  <2> QED BY DEF MirrorInv, RunInv, Run, Mirror, AllHave
<1> QED BY <1>1, MirrorInvariant, PTL

-----------------------------------------------------------------------------
(* An interface is attached to a server by a call for both, or by a resize *)
(* that adds the server.                                                   *)
LEMMA OnlyAttached ==
  ASSUME RunInv, NEW c \in Clusters, Handler(c) \/ CallFails(c),
         NEW i \in Interfaces, NEW n \in Servers, n <= size[c], i \notin at[c][n], i \in at'[c][n]
  PROVE  pc[c] = "attaching" /\ i \in want[c].interface \ have[c].interface
<1> USE DEF service
<1>t. TypeOK /\ Run(c)
  BY DEF RunInv
<1>1. CASE UNCHANGED at
  BY <1>1
<1>2. CASE Resized(c)
  <2>1. at'[c] = [m \in Servers |-> IF m > want[c].instances_count THEN {}
                                   ELSE IF m <= size[c] THEN at[c][m] ELSE Listed(c)]
    BY <1>2, <1>t DEF Resized, TypeOK
  <2> QED BY <2>1
<1>3. ASSUME NEW j \in Interfaces, NEW m \in Servers, Due(c, j, m), pc[c] = "attaching",
             Has(c, m, at[c][m] \cup {j})
      PROVE  pc[c] = "attaching" /\ i \in want[c].interface \ have[c].interface
  <2>1. i = j
    BY <1>3, <1>t DEF Has, TypeOK
  <2> QED BY <1>3, <2>1, <1>t DEF Due, Run
<1>4. ASSUME NEW j \in Interfaces, NEW m \in Servers, Has(c, m, at[c][m] \ {j})
      PROVE  FALSE
  BY <1>4, <1>t DEF Has, TypeOK
<1> QED
  BY <1>1, <1>2, <1>3, <1>4 DEF Handler, Resize, ResizeEnds, InterfacesChanged, AllAttached, AllDetached,
    Attach, Detach, NothingToDetach, ReplaceMetadata, ReadBack, CallFails

(* The handler keeps what it has read until it returns. *)
LEMMA KeptUntilReturn ==
  ASSUME TypeOK, NEW c \in Clusters, Handler(c) \/ CallFails(c)
  PROVE  /\ pc[c] # "done"
         /\ pc'[c] = "done" \/ have'[c] = have[c]
<1>1. (ReadBack(c) \/ CallFails(c) \/ \E i \in Interfaces, n \in Servers : NothingToDetach(c, i, n)) =>
        pc[c] # "done" /\ pc'[c] = "done"
  BY DEF ReadBack, CallFails, NothingToDetach, Return, Goto, TypeOK
<1> QED
  BY <1>1 DEF Handler, Resize, ResizeEnds, InterfacesChanged, AllAttached, AllDetached,
    Attach, Detach, ReplaceMetadata

(* No later run gives a server the interface that it missed, as long as    *)
(* another server has it and the configuration stays as it is: Read lists  *)
(* the interfaces of all servers together.                                 *)
THEOREM MissedStaysMissed == Spec => HalfAttachedIsSilent
<1>1. RunInv /\ [Next]_vars => StaysMissing
  <2> SUFFICES ASSUME RunInv, [Next]_vars, NEW c \in Clusters, NEW i \in Interfaces, NEW n \in Servers,
                      Missing(c, i, n), want' = want, n <= size'[c], i \in Listed(c)'
               PROVE  Missing(c, i, n)'
    BY DEF StaysMissing
  <2> USE DEF service
  <2>s. TypeOK /\ size'[c] \in Nat
    BY TypeStep, BoundsAssumption DEF RunInv, TypeOK, Servers
  <2>t. TypeOK /\ n \in 1..size'[c] /\ n <= size[c]
    BY <2>s, ListedTypes DEF Servers, Missing
  <2>f. i \in want[c].interface /\ i \notin at[c][n] /\ (pc[c] = "done" \/ i \in have[c].interface)
    BY DEF Missing
  <2>1. CASE StartRun
    <3>1. have'[c].interface = Listed(c) /\ i \in Listed(c) /\ UNCHANGED at
      BY <2>1, <2>t, ReadTypes, PlannedTypes DEF StartRun, Missing
    <3> QED BY <3>1, <2>t, <2>f DEF Missing
  <2>2. CASE Killed
    BY <2>2, <2>t, <2>f DEF Killed, Missing
  <2>3. ASSUME NEW d \in Clusters, Edit(d)
        PROVE  Missing(c, i, n)'
    BY <2>3, <2>t, <2>f DEF Edit, Missing
  <2>4. ASSUME NEW d \in Clusters, Handler(d) \/ CallFails(d)
        PROVE  Missing(c, i, n)'
    <3>1. CASE d # c
      BY <3>1, <2>4, <2>t, <2>f, OthersUntouched DEF Missing
    <3>2. CASE d = c
      <4>1. pc[c] # "done" /\ (pc'[c] = "done" \/ have'[c] = have[c])
        BY <3>2, <2>4, <2>t, KeptUntilReturn
      <4>2. i \notin at'[c][n]
        BY <3>2, <2>4, <2>t, <2>f, <4>1, OnlyAttached
      <4> QED BY <4>1, <4>2, <2>t, <2>f DEF Missing
    <3> QED BY <3>1, <3>2
  <2>5. CASE UNCHANGED vars
    BY <2>5, <2>t, <2>f DEF vars, Missing
  <2> QED BY <2>1, <2>2, <2>3, <2>4, <2>5 DEF Next
<1> QED BY <1>1, RunInvariant, PTL DEF Spec, HalfAttachedIsSilent

(* A cluster of which the first server lost an interface to an update that *)
(* was cut off stays stuck, as long as it is not resized: detaching always *)
(* begins with the first server, and fails at it.                          *)
THEOREM StuckStaysStuck == Spec => HalfDetachedIsStuck
<1>1. RunInv /\ [Next]_vars => StaysStuck
  <2> SUFFICES ASSUME RunInv, [Next]_vars, NEW c \in Clusters, NEW i \in Interfaces,
                      StuckAt(c, i), want' = want, size' = size
               PROVE  StuckAt(c, i)'
    BY DEF StaysStuck
  <2> USE DEF service
  <2>t. /\ TypeOK /\ Run(c) /\ 1 \in Servers /\ 1 <= size[c]
    BY ListedTypes, BoundsAssumption DEF RunInv, Servers, TypeOK
  <2>f. /\ i \in Listed(c) \ want[c].interface /\ i \notin at[c][1]
        /\ pc[c] # "detaching" \/ <<i, 1>> \in todo[c]
        /\ pc[c] = "done" \/ i \in have[c].interface
    BY DEF StuckAt
  <2>l. at' = at => i \in Listed(c)' /\ i \notin at'[c][1]
    BY <2>f DEF Listed
  <2>1. CASE StartRun
    <3>1. have'[c].interface = Listed(c) /\ UNCHANGED at /\ pc'[c] # "detaching"
      BY <2>1, <2>t, ReadTypes, PlannedTypes DEF StartRun
    <3> QED BY <3>1, <2>l, <2>f DEF StuckAt
  <2>2. CASE Killed
    BY <2>2, <2>l, <2>f DEF Killed, StuckAt
  <2>3. ASSUME NEW d \in Clusters, Edit(d)
        PROVE  StuckAt(c, i)'
    BY <2>3, <2>l, <2>f DEF Edit, StuckAt
  <2>4. ASSUME NEW d \in Clusters, Handler(d) \/ CallFails(d)
        PROVE  StuckAt(c, i)'
    <3>1. CASE d # c
      BY <3>1, <2>4, <2>t, <2>f, OthersUntouched DEF StuckAt, Listed
    <3>2. CASE d = c
      <4>1. pc[c] # "done" /\ (pc'[c] = "done" \/ have'[c] = have[c]) /\ i \in have[c].interface
        BY <3>2, <2>4, <2>t, <2>f, KeptUntilReturn
      <4>2. i \notin at'[c][1]
        BY <3>2, <2>4, <2>t, <2>f, OnlyAttached
      <4>3. i \in Listed(c)'
        <5>1. PICK m \in 1..size[c] : i \in at[c][m]
          BY <2>f DEF Listed
        <5>2. m \in Servers
          BY <2>t, ListedTypes
        <5>3. i \in at'[c][m]
          <6>1. CASE Resized(c)
            <7>1. want[c].instances_count = size[c]
              BY <6>1, <2>t DEF Resized, TypeOK
            <7> QED BY <6>1, <7>1, <5>1, <5>2, <2>t DEF Resized, TypeOK, Servers
          <6>2. ASSUME NEW j \in Interfaces, NEW k \in Servers, Has(c, k, at[c][k] \cup {j})
                PROVE  i \in at'[c][m]
            BY <6>2, <5>1, <5>2, <2>t DEF Has, TypeOK
          <6>3. ASSUME NEW j \in Interfaces, NEW k \in Servers, Due(c, j, k), pc[c] = "detaching",
                       Has(c, k, at[c][k] \ {j})
                PROVE  i \in at'[c][m]
            <7>1. CASE j = i
              <8>1. <<i, 1>> \in todo[c] /\ \A p \in todo[c] : p[1] = i => p[2] >= k
                BY <6>3, <7>1, <2>f DEF Due
              <8>2. k = 1
                BY <8>1, <2>t, BoundsAssumption DEF Servers
              <8> QED BY <6>3, <7>1, <8>2, <5>1, <5>2, <2>t, <2>f DEF Has, TypeOK
            <7>2. CASE j # i
              BY <6>3, <7>2, <5>1, <5>2, <2>t DEF Has, TypeOK
            <7> QED BY <7>1, <7>2
          <6>4. CASE UNCHANGED at
            BY <6>4, <5>1
          <6> QED
            BY <2>4, <3>2, <6>1, <6>2, <6>3, <6>4 DEF Handler, Resize, ResizeEnds, InterfacesChanged,
              AllAttached, AllDetached, Attach, Detach, NothingToDetach, ReplaceMetadata, ReadBack, CallFails
        <5> QED BY <5>1, <5>3 DEF Listed
      <4>4. pc'[c] # "detaching" \/ <<i, 1>> \in todo'[c]
        <5>1. CASE AllAttached(c)
          <6>1. todo'[c] = Calls(c, have[c].interface \ want[c].interface)
            BY <5>1, <2>t DEF AllAttached, TypeOK
          <6>2. 1 \in 1..have[c].poplar_servers /\ have[c].interface \in SUBSET Interfaces
            BY <2>t, PlannedTypes, BoundsAssumption DEF Recorded, Servers
          <6> QED BY <6>1, <6>2, <4>1, <2>f, <2>t, CallsMean
        <5>2. ASSUME NEW j \in Interfaces, NEW k \in Servers, Attach(c, j, k)
              PROVE  pc'[c] # "detaching"
          BY <5>2 DEF Attach
        <5>3. ASSUME NEW j \in Interfaces, NEW k \in Servers, Detach(c, j, k)
              PROVE  <<i, 1>> \in todo'[c]
          <6>1. <<i, 1>> \in todo[c] /\ todo'[c] = todo[c] \ {<<j, k>>} /\ j \in at[c][k]
            BY <5>3, <2>f, <2>t DEF Detach, Called, TypeOK
          <6> QED BY <6>1, <2>f
        <5>4. CASE Resize(c) \/ ResizeEnds(c) \/ InterfacesChanged(c) \/ AllDetached(c) \/ ReplaceMetadata(c)
          BY <5>4, <2>t DEF Resize, ResizeEnds, InterfacesChanged, AllDetached, ReplaceMetadata, Goto, TypeOK
        <5>5. CASE \/ ReadBack(c) \/ CallFails(c)
                   \/ \E j \in Interfaces, k \in Servers : NothingToDetach(c, j, k)
          BY <5>5, <2>t DEF ReadBack, CallFails, NothingToDetach, Return, Goto, TypeOK
        <5> QED BY <2>4, <3>2, <5>1, <5>2, <5>3, <5>4, <5>5 DEF Handler
      <4> QED BY <4>1, <4>2, <4>3, <4>4, <2>f DEF StuckAt
    <3> QED BY <3>1, <3>2
  <2>5. CASE UNCHANGED vars
    BY <2>5, <2>l, <2>f DEF vars, StuckAt
  <2> QED BY <2>1, <2>2, <2>3, <2>4, <2>5 DEF Next
<1> QED BY <1>1, RunInvariant, PTL DEF Spec, HalfDetachedIsStuck
=============================================================================
