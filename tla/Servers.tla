------------------------------ MODULE Servers ------------------------------
(***************************************************************************)
(* resource_gcore_instance.go and resource_gcore_baremetal.go: the update  *)
(* of the metadata, the interfaces and the floating IPs of several servers *)
(* in one run.  Both delete every recorded key and create the configured   *)
(* ones afresh.  An instance gives up all of its interfaces, attaches the  *)
(* configured ones and gives back the floating IPs it has found before, to *)
(* the ports it has found them on; a bare metal server exchanges only what *)
(* differs and assigns configured floating IPs.                            *)
(*                                                                         *)
(* Interfaces are reserved ports, which outlive their attachment and can   *)
(* be moved between servers, or ports the service makes in a subnet for    *)
(* each attachment.  A bare metal server has a trunk besides, which is     *)
(* always configured and never detached; its other interfaces are          *)
(* subports, which the handling of the floating IPs does not look at.      *)
(***************************************************************************)
EXTENDS Naturals

CONSTANTS
  Instances, Baremetals, Ports, Subnets, FloatingIPs, Keys, Values,
  Trunk, None, MaxMishaps, MaxChanges

Servers == Instances \cup Baremetals
Items == Ports \cup Subnets \cup {Trunk}

ASSUME MishapsAssumption == {MaxMishaps, MaxChanges} \subseteq Nat
ASSUME NamesAssumption ==
  /\ Instances \cap Baremetals = {} /\ Ports \cap Subnets = {} /\ Trunk \notin Ports \cup Subnets
  /\ None \notin Items \cup FloatingIPs \cup Values
  /\ (Keys \cup Items \cup {None}) \cap ((Servers \cup FloatingIPs) \X (Items \cup {None})) = {}

VARIABLES
  want,      \* the configuration
  have,      \* Terraform's state
  metadata, attached, assigned,  \* the service: keys, interfaces, ports of floating IPs
  at, todo,  \* where the handler of each server is; its calls to come
  fips,      \* the floating IPs it has found, and where
  touched,   \* servers somebody else has interfered with since their refresh
  faults, changes, outside

service == <<metadata, attached, assigned>>
counters == <<faults, changes, outside>>
serverVars == <<want, have, service, at, todo, fips, touched, counters>>

(* A set of interfaces, each with a floating IP or none. *)
AnyInterfaces == UNION {[S -> FloatingIPs \cup {None}] : S \in SUBSET Items}
Metadata == [Keys -> Values \cup {None}]
PortOf(s, x) == IF x \in Ports THEN x ELSE <<s, x>>
AnyPort == Ports \cup (Servers \X (Items \ Ports))

(* At least one interface, and no floating IP twice. *)
Settings(s) ==
  [metadata : Metadata,
   interface : {f \in AnyInterfaces :
     /\ DOMAIN f # {} /\ (Trunk \in DOMAIN f <=> s \in Baremetals)
     /\ \A x, y \in DOMAIN f : f[x] = f[y] => x = y \/ f[x] = None}]

(* A port is attached to one server; one the service makes is gone, with   *)
(* its floating IP, when it is detached.                                   *)
ServiceTypeOK ==
  /\ metadata \in [Servers -> Metadata]
  /\ attached \in [Servers -> SUBSET Items]
  /\ \A s, t \in Servers : s # t => attached[s] \cap attached[t] \cap Ports = {}
  /\ assigned \in [FloatingIPs -> AnyPort \cup {None}]
  /\ \A s \in Servers, x \in Items \ Ports, f \in FloatingIPs :
       assigned[f] = <<s, x>> => x \in attached[s]

Phases ==
  {"done", "planned", "deleting", "listing", "detaching", "attaching", "assigning", "reading"}
CallsIn(phase) ==
  CASE phase = "deleting" -> Keys
    [] phase \in {"detaching", "attaching"} -> Items
    [] phase = "assigning" -> FloatingIPs \X (Items \cup {None})
    [] OTHER -> {}
HandlersTypeOK ==
  /\ at \in [Servers -> Phases]
  /\ todo \in [Servers -> SUBSET (Keys \cup Items \cup (FloatingIPs \X (Items \cup {None})))]
  /\ \A s \in Servers : todo[s] \subseteq CallsIn(at[s])
  /\ fips \in [Servers -> SUBSET (FloatingIPs \X Items)]
  /\ touched \subseteq Servers

Recorded == [metadata : Metadata, interface : AnyInterfaces]
CountersTypeOK ==
  {faults, outside} \subseteq Nat /\ faults + outside <= MaxMishaps /\ changes \in 0..MaxChanges

ServersTypeOK ==
  /\ \A s \in Servers : want[s] \in Settings(s)
  /\ have \in [Servers -> Recorded]
  /\ ServiceTypeOK /\ HandlersTypeOK /\ CountersTypeOK

Wants(s, x) == x \in DOMAIN want[s].interface
Keyed(m) == {k \in Keys : m[k] # None}

(* No port and no floating IP is asked for by two servers; all servers are *)
(* given the same metadata.                                                *)
Named(w) == {w.interface[x] : x \in DOMAIN w.interface} \ {None}
Configured(w) ==
  /\ \A s \in Servers : w[s] \in Settings(s)
  /\ \A s, t \in Servers : s # t =>
       /\ w[s].metadata = w[t].metadata
       /\ Named(w[s]) \cap Named(w[t]) = {}
       /\ DOMAIN w[s].interface \cap DOMAIN w[t].interface \cap Ports = {}
Configurations == {w \in [Servers -> UNION {Settings(s) : s \in Servers}] : Configured(w)}

(* The servers have just been created. *)
ServersInit ==
  /\ want \in Configurations
  /\ have = want
  /\ metadata = [s \in Servers |-> want[s].metadata]
  /\ attached = [s \in Servers |-> DOMAIN want[s].interface]
  /\ assigned = [f \in FloatingIPs |->
       IF \E s \in Servers : f \in Named(want[s])
         THEN CHOOSE p \in AnyPort : \E s \in Servers, x \in Items :
                Wants(s, x) /\ want[s].interface[x] = f /\ p = PortOf(s, x)
         ELSE None]
  /\ at = [s \in Servers |-> "done"] /\ todo = [s \in Servers |-> {}]
  /\ fips = [s \in Servers |-> {}] /\ touched = {}
  /\ faults = 0 /\ changes = 0 /\ outside = 0

-----------------------------------------------------------------------------
AllDone == \A s \in Servers : at[s] = "done"

FipOf(s, x) ==
  IF \E f \in FloatingIPs : assigned[f] = PortOf(s, x)
    THEN CHOOSE f \in FloatingIPs : assigned[f] = PortOf(s, x) ELSE None

(* Variant with a bug: an instance's, too, as far as the state knows them. *)
SeenKnown(s, r) ==
  IF s \in Instances THEN [x \in attached[s] \cap DOMAIN r.interface |-> FipOf(s, x)]
  ELSE [x \in attached[s] \cap DOMAIN r.interface |-> r.interface[x]]

(* What Read makes of the interfaces: all of an instance's, with the       *)
(* floating IPs they have; a bare metal server's as far as the state knows *)
(* them, with the floating IPs the state says they have.                   *)
Seen(s, r) ==
  IF s \in Instances THEN [x \in attached[s] |-> FipOf(s, x)]
  ELSE [x \in attached[s] \cap DOMAIN r.interface |-> r.interface[x]]

(* Variant: a recorded key that is not there is passed over. *)
MissingNothing(s, r) == {}

(* Recorded keys MetadataGet does not find, which fails the Read. *)
Missing(s, r) == {k \in Keyed(r.metadata) : metadata[s][k] = None}

ReadInto(s, r) ==
  [metadata |-> [k \in Keys |-> IF r.metadata[k] = None THEN None ELSE metadata[s][k]],
   interface |-> Seen(s, r)]

HasChange(s, attr) == have[s][attr] # want[s][attr]

Goto(s, phase, calls) == at' = [at EXCEPT ![s] = phase] /\ todo' = [todo EXCEPT ![s] = calls]
Called(s, call) == todo' = [todo EXCEPT ![s] = @ \ {call}] /\ UNCHANGED at
Return(s, r) ==
  /\ have' = [have EXCEPT ![s] = r]
  /\ Goto(s, "done", {}) /\ fips' = [fips EXCEPT ![s] = {}]

(* The other servers whose state or configuration names f. *)
Minding(s, f) == {t \in Servers \ {s} : f \in Named(have[t]) \cup Named(want[t])}

-----------------------------------------------------------------------------
(* One server that cannot be refreshed stops the run of all. *)
StartRun ==
  /\ AllDone
  /\ IF \E s \in Servers : Missing(s, have[s]) # {} THEN UNCHANGED <<have, at>>
     ELSE /\ have' = [s \in Servers |-> ReadInto(s, have[s])]
          /\ at' = [s \in Servers |-> IF have'[s] # want[s] THEN "planned" ELSE "done"]
  /\ touched' = {}
  /\ UNCHANGED <<want, service, todo, fips, counters>>

StartUpdate(s) ==
  /\ at[s] = "planned"
  /\ IF HasChange(s, "metadata") THEN Goto(s, "deleting", Keyed(have[s].metadata))
                                 ELSE Goto(s, "listing", {})
  /\ UNCHANGED <<want, have, service, fips, touched, counters>>

DeleteKey(s, k) ==
  /\ at[s] = "deleting" /\ k \in todo[s] /\ metadata[s][k] # None
  /\ metadata' = [metadata EXCEPT ![s][k] = None] /\ Called(s, k)
  /\ UNCHANGED <<want, have, attached, assigned, fips, touched, counters>>

(* Somebody else has deleted the key. *)
KeyGone(s, k) ==
  /\ at[s] = "deleting" /\ k \in todo[s] /\ metadata[s][k] = None
  /\ Return(s, want[s])
  /\ UNCHANGED <<want, service, touched, counters>>

Created(s) == [k \in Keys |-> IF want[s].metadata[k] = None THEN metadata[s][k] ELSE want[s].metadata[k]]
(* Variant with a bug: the loop of deletes is left too early. *)
CreateKeysEarly(s) ==
  /\ at[s] = "deleting"
  /\ metadata' = [metadata EXCEPT ![s] = Created(s)] /\ Goto(s, "listing", todo[s])
  /\ UNCHANGED <<want, have, attached, assigned, fips, touched, counters>>

CreateKeys(s) ==
  /\ at[s] = "deleting" /\ todo[s] = {}
  /\ metadata' = [metadata EXCEPT ![s] = Created(s)] /\ Goto(s, "listing", {})
  /\ UNCHANGED <<want, have, attached, assigned, fips, touched, counters>>

(* Variant with a bug: the floating IPs are not looked up. *)
ListInterfacesOnly(s) ==
  /\ at[s] = "listing"
  /\ IF HasChange(s, "interface")
       THEN Goto(s, "detaching", DOMAIN have[s].interface \ IF s \in Instances THEN {} ELSE DOMAIN want[s].interface)
       ELSE Goto(s, "reading", {})
  /\ UNCHANGED <<want, have, service, fips, touched, counters>>

ListInterfaces(s) ==
  /\ at[s] = "listing"
  /\ IF HasChange(s, "interface")
       THEN /\ fips' = [fips EXCEPT ![s] =
                 {d \in FloatingIPs \X attached[s] : s \in Instances /\ assigned[d[1]] = PortOf(s, d[2])}]
            /\ Goto(s, "detaching",
                 IF s \in Instances THEN DOMAIN have[s].interface
                 ELSE DOMAIN have[s].interface \ DOMAIN want[s].interface)
       ELSE Goto(s, "reading", {}) /\ UNCHANGED fips
  /\ UNCHANGED <<want, have, service, touched, counters>>

(* A floating IP does not stay with a port that is detached. *)
Detached(s, x) ==
  /\ attached' = [attached EXCEPT ![s] = @ \ {x}]
  /\ assigned' = [f \in FloatingIPs |-> IF assigned[f] = PortOf(s, x) THEN None ELSE assigned[f]]
Detach(s, x) ==
  /\ at[s] = "detaching" /\ x \in todo[s]
  /\ Detached(s, x) /\ Called(s, x)
  /\ UNCHANGED <<want, have, metadata, fips, touched, counters>>

(* Variant with a bug: what the state lists counts as attached. *)
AllDetachedNew(s) ==
  /\ at[s] = "detaching" /\ todo[s] = {}
  /\ Goto(s, "attaching", DOMAIN want[s].interface \ DOMAIN have[s].interface)
  /\ UNCHANGED <<want, have, service, fips, touched, counters>>

AllDetached(s) ==
  /\ at[s] = "detaching" /\ todo[s] = {}
  /\ Goto(s, "attaching",
       IF s \in Instances THEN DOMAIN want[s].interface
       ELSE DOMAIN want[s].interface \ (DOMAIN have[s].interface \cup attached[s]))
  /\ UNCHANGED <<want, have, service, fips, touched, counters>>

InUse(s, x) == x \in Ports /\ \E t \in Servers \ {s} : x \in attached[t]
Attached(s, x) == attached' = [attached EXCEPT ![s] = @ \cup {x}]
Attach(s, x) ==
  /\ at[s] = "attaching" /\ x \in todo[s] /\ ~InUse(s, x)
  /\ Attached(s, x) /\ Called(s, x)
  /\ UNCHANGED <<want, have, metadata, assigned, fips, touched, counters>>
AttachRefused(s, x) ==
  /\ at[s] = "attaching" /\ x \in todo[s] /\ InUse(s, x)
  /\ Return(s, want[s])
  /\ UNCHANGED <<want, service, touched, counters>>

(* Of a bare metal server: the floating IPs of reserved ports are assigned *)
(* again, those of its trunk if they differ.  A port in a subnet is looked *)
(* for among the interfaces, not their subports.                           *)
Desired(s) == {x \in DOMAIN want[s].interface \ Subnets : want[s].interface[x] # None}
Assignments(s) ==
  {<<want[s].interface[x], x>> : x \in
     {y \in Desired(s) : y = Trunk => assigned[want[s].interface[y]] # <<s, Trunk>>}}
  \cup {<<f, None>> : f \in {g \in FloatingIPs : assigned[g] = <<s, Trunk>> /\
                               ~\E x \in Desired(s) : want[s].interface[x] = g}}
AllAttached(s) ==
  /\ at[s] = "attaching" /\ todo[s] = {}
  /\ Goto(s, "assigning", IF s \in Instances THEN fips[s] ELSE Assignments(s))
  /\ UNCHANGED <<want, have, service, fips, touched, counters>>

(* The port in a subnet that an instance has given up is no longer there. *)
PortGone(s, x) == s \in Instances /\ x \in Subnets
Assigned(s, f, x) ==
  /\ <<f, x>> \in todo[s] /\ ~PortGone(s, x)
  /\ x = None \/ \A g \in FloatingIPs : <<g, None>> \notin todo[s]
  /\ assigned' = [assigned EXCEPT ![f] = IF x = None THEN None ELSE PortOf(s, x)]
  /\ touched' = touched \cup Minding(s, f)
Assign(s, f, x) ==
  /\ at[s] = "assigning"
  /\ Assigned(s, f, x) /\ Called(s, <<f, x>>)
  /\ UNCHANGED <<want, have, metadata, attached, fips, counters>>
AssignRefused(s, f, x) ==
  /\ at[s] = "assigning" /\ <<f, x>> \in todo[s] /\ PortGone(s, x)
  /\ Return(s, want[s])
  /\ UNCHANGED <<want, service, touched, counters>>

(* Variant of another kind: an instance, too, assigns what is configured. *)
AllAssignedAsConfigured(s) ==
  /\ at[s] = "assigning" /\ todo[s] = {}
  /\ assigned' = [f \in FloatingIPs |->
       IF \E x \in DOMAIN want[s].interface : want[s].interface[x] = f
         THEN PortOf(s, CHOOSE x \in DOMAIN want[s].interface : want[s].interface[x] = f)
         ELSE assigned[f]]
  /\ Goto(s, "reading", {})
  /\ UNCHANGED <<want, have, metadata, attached, fips, touched, counters>>

AllAssigned(s) ==
  /\ at[s] = "assigning" /\ todo[s] = {}
  /\ Goto(s, "reading", {})
  /\ UNCHANGED <<want, have, service, fips, touched, counters>>

ReadServer(s) ==
  /\ at[s] = "reading"
  /\ Return(s, IF Missing(s, want[s]) = {} THEN ReadInto(s, want[s]) ELSE want[s])
  /\ UNCHANGED <<want, service, touched, counters>>

(* A call, or the wait for its task, fails with or without its effect: the *)
(* SDK records the planned values.                                         *)
Effect(s) ==
  \/ /\ at[s] = "deleting" /\ UNCHANGED <<attached, assigned, touched>>
     /\ \/ \E k \in todo[s] : metadata' = [metadata EXCEPT ![s][k] = None]
        \/ todo[s] = {} /\ metadata' = [metadata EXCEPT ![s] = Created(s)]
  \/ /\ at[s] \in {"detaching", "attaching"} /\ UNCHANGED <<metadata, touched>>
     /\ \E x \in todo[s] :
          IF at[s] = "detaching" THEN Detached(s, x)
                                 ELSE ~InUse(s, x) /\ Attached(s, x) /\ UNCHANGED assigned
  \/ /\ at[s] = "assigning" /\ UNCHANGED <<metadata, attached>>
     /\ \E f \in FloatingIPs, x \in Items \cup {None} : Assigned(s, f, x)
Calling(s) ==
  \/ at[s] \in {"listing", "reading"} \/ todo[s] # {}
  \/ at[s] = "deleting" /\ Keyed(want[s].metadata) # {}
ServerCallFails(s) ==
  /\ Calling(s) /\ faults + outside < MaxMishaps /\ faults' = faults + 1
  /\ Effect(s) \/ UNCHANGED <<service, touched>>
  /\ Return(s, want[s])
  /\ UNCHANGED <<want, changes, outside>>

(* The provider is killed; the state stays as the refresh has left it. *)
Killed ==
  /\ ~AllDone /\ faults + outside < MaxMishaps /\ faults' = faults + 1
  /\ at' = [s \in Servers |-> "done"] /\ todo' = [s \in Servers |-> {}]
  /\ fips' = [s \in Servers |-> {}]
  /\ UNCHANGED <<want, have, service, touched, changes, outside>>

-----------------------------------------------------------------------------
Reconfigure ==
  /\ AllDone /\ changes < MaxChanges /\ changes' = changes + 1
  /\ want' \in Configurations \ {want}
  /\ UNCHANGED <<have, service, at, todo, fips, touched, faults, outside>>

(* Somebody else writes or deletes a key, at any time. *)
KeyOutside(s, k) ==
  /\ faults + outside < MaxMishaps /\ outside' = outside + 1
  /\ \E v \in (Values \cup {None}) \ {metadata[s][k]} : metadata' = [metadata EXCEPT ![s][k] = v]
  /\ touched' = touched \cup {s}
  /\ UNCHANGED <<want, have, attached, assigned, at, todo, fips, faults, changes>>

(* Somebody else assigns or unassigns a floating IP, between two runs. *)
FloatingIPOutside(f) ==
  /\ AllDone /\ faults + outside < MaxMishaps /\ outside' = outside + 1
  /\ \E p \in (AnyPort \cup {None}) \ {assigned[f]} :
       /\ \A s \in Servers, x \in Items \ Ports : p = <<s, x>> => x \in attached[s]
       /\ assigned' = [assigned EXCEPT ![f] = p]
  /\ UNCHANGED <<want, have, metadata, attached, at, todo, fips, touched, faults, changes>>

-----------------------------------------------------------------------------
Handler(s) ==
  \/ StartUpdate(s) \/ CreateKeys(s) \/ ListInterfaces(s)
  \/ AllDetached(s) \/ AllAttached(s) \/ AllAssigned(s) \/ ReadServer(s)
  \/ \E k \in Keys : DeleteKey(s, k) \/ KeyGone(s, k)
  \/ \E x \in Items : Detach(s, x) \/ Attach(s, x) \/ AttachRefused(s, x)
  \/ \E f \in FloatingIPs, x \in Items \cup {None} : Assign(s, f, x) \/ AssignRefused(s, f, x)

ServersNext ==
  \/ StartRun \/ Killed \/ Reconfigure
  \/ \E s \in Servers : Handler(s) \/ ServerCallFails(s)
  \/ \E s \in Servers, k \in Keys : KeyOutside(s, k)
  \/ \E f \in FloatingIPs : FloatingIPOutside(f)

ServersSpec == ServersInit /\ [][ServersNext]_serverVars

(* Runs are repeated; a handler Terraform has started goes on. *)
ServersFairSpec == ServersSpec /\ WF_serverVars(StartRun) /\ \A s \in Servers : WF_serverVars(Handler(s))

-----------------------------------------------------------------------------
(* An update that gets to its end, untouched by others, has the configured *)
(* keys and interfaces in place and none of the recorded ones it was to    *)
(* take away.  The floating IPs an instance had are back at their ports;   *)
(* those configured for the trunk and the reserved ports of a bare metal   *)
(* server whose interfaces have changed are assigned.                      *)
Arrived(s) ==
  /\ \A k \in Keyed(have[s].metadata) \cup Keyed(want[s].metadata) : metadata[s][k] = want[s].metadata[k]
  /\ DOMAIN want[s].interface \subseteq attached[s]
  /\ attached[s] \cap DOMAIN have[s].interface \subseteq DOMAIN want[s].interface
  /\ s \in Instances =>
       \A x \in DOMAIN have[s].interface :
         have[s].interface[x] # None => assigned[have[s].interface[x]] = PortOf(s, x)
  /\ s \in Baremetals /\ HasChange(s, "interface") =>
       \A x \in Desired(s) : assigned[want[s].interface[x]] = PortOf(s, x)
ServersArrive == \A s \in Servers : (at[s] = "reading" /\ s \notin touched) => Arrived(s)

(* A configured floating IP that is not where it belongs, and that no      *)
(* running handler is about to bring there, never gets there by itself: an   *)
(* instance sees it and does not assign it; a bare metal server assigns it *)
(* only when another change of its interfaces shows, and on a subport in a *)
(* subnet never.                                                           *)
Lost(s, x) ==
  /\ Wants(s, x) /\ want[s].interface[x] # None
  /\ assigned[want[s].interface[x]] # PortOf(s, x)
  /\ s \in Baremetals /\ x \notin Subnets =>
       DOMAIN want[s].interface \subseteq attached[s] /\ ~HasChange(s, "interface")
  /\ ~\E t \in Servers, y \in Items :
       <<want[s].interface[x], y>> \in fips[t] \cup todo[t] /\ PortOf(t, y) = PortOf(s, x)
StaysLost ==
  \A s \in Servers, x \in Items :
    (Lost(s, x) /\ want' = want /\ outside' = outside) => Lost(s, x)'
LostFloatingIPStaysLost == [][StaysLost]_serverVars

(* A recorded key that the service does not have, as after an update cut   *)
(* off between its deletes and its create, stops every later run of every  *)
(* server at the refresh, whatever the configuration: only somebody else   *)
(* can help.                                                               *)
Wedged == \E s \in Servers, k \in Keys : have[s].metadata[k] # None /\ metadata[s][k] = None
StaysWedged ==
  AllDone /\ Wedged /\ outside' = outside => AllDone' /\ Wedged' /\ UNCHANGED service
CutMetadataWedges == [][StaysWedged]_serverVars

(* Repeated runs end with the configured keys and interfaces, even when a  *)
(* port moves from one server to another or two are exchanged, unless the  *)
(* runs are stopped that way, or a port was left over by a bare metal      *)
(* server whose update was cut.                                            *)
LeftOver(s) == s \in Baremetals /\ ~(attached[s] \subseteq DOMAIN want[s].interface)
Settled(s) ==
  /\ DOMAIN want[s].interface \subseteq attached[s]
  /\ s \in Instances => attached[s] \subseteq DOMAIN want[s].interface
  /\ \A k \in Keyed(want[s].metadata) : metadata[s][k] = want[s].metadata[k]
Hindered(s) ==
  \E x \in Ports, t \in Servers \ {s} :
    Wants(s, x) /\ LeftOver(t) /\ x \in attached[t]
Settles == <>[](AllDone => Wedged \/ \A s \in Servers : Settled(s) \/ Hindered(s))
=============================================================================
