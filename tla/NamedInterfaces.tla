-------------------------- MODULE NamedInterfaces --------------------------
(***************************************************************************)
(* resource_gcore_instancev2.go: the interfaces of one instance, which the *)
(* user names.  The update tells the old set from the new one by name and  *)
(* security groups only (instanceInterfaceUniqueID).  Of what differs, an  *)
(* interface whose name is no longer configured is detached, a new one is  *)
(* attached, and one whose name stays has its security groups reassigned   *)
(* in two calls, the errors of which are logged and not returned.          *)
(* An interface is identified with its name here, and with the port it had *)
(* when the run began: others attach interfaces between two runs only.     *)
(***************************************************************************)
EXTENDS Naturals, Functions

CONSTANTS
  Names, Subnets, Groups, FloatingIPs, None,
  Configurations,  \* the sets of interfaces the user may ask for
  MaxMishaps, MaxChanges

Interface == [subnet : Subnets, groups : SUBSET Groups, fip : FloatingIPs \cup {None}]
AnyInterfaces == UNION {[S -> Interface] : S \in SUBSET Names}

ASSUME ConfigurationsAssumption ==
  /\ Configurations \subseteq AnyInterfaces
  /\ \A c \in Configurations : DOMAIN c # {}
ASSUME NoneAssumption == None \notin FloatingIPs \cup Names
ASSUME MishapsAssumption == {MaxMishaps, MaxChanges} \subseteq Nat

VARIABLES
  want,      \* the interfaces in the configuration
  have,      \* the interfaces in Terraform's state
  attached,  \* the interfaces the instance has
  at, todo,  \* where the handler is; the names it has still to deal with
  listed,    \* the security groups of the ports when the handler listed them
  half,      \* the name between its two calls, or None
  touched,   \* has somebody interfered, or an error been swallowed?
  faults, changes, outside

counters == <<faults, changes, outside>>
interfaceVars == <<want, have, attached, at, todo, listed, half, touched, counters>>

InterfacesTypeOK ==
  /\ want \in Configurations
  /\ have \in AnyInterfaces /\ attached \in AnyInterfaces
  /\ at \in {"idle", "listing", "detaching", "attaching", "reading"}
  /\ todo \subseteq IF at = "detaching" THEN DOMAIN have \ DOMAIN want
                    ELSE IF at = "attaching" THEN DOMAIN want ELSE {}
  /\ listed \in UNION {[S -> SUBSET Groups] : S \in SUBSET Names}
  /\ half \in IF at = "attaching" THEN (todo \cap DOMAIN have) \cup {None} ELSE {None}
  /\ touched \in BOOLEAN
  /\ {faults, outside} \subseteq Nat /\ faults + outside <= MaxMishaps /\ changes \in 0..MaxChanges

(* The instance has just been created: Create passes all fields on. *)
InterfacesInit ==
  /\ want \in Configurations /\ have = want /\ attached = want
  /\ at = "idle" /\ todo = {} /\ listed = <<>> /\ half = None /\ touched = FALSE
  /\ faults = 0 /\ changes = 0 /\ outside = 0

-----------------------------------------------------------------------------
HandlerReturns(state) ==
  /\ have' = state /\ at' = "idle"
  /\ todo' = {} /\ listed' = <<>> /\ half' = None

Goto(phase, names) == at' = phase /\ todo' = names

(* Variant with a bug: the security groups stay as recorded. *)
SeenRecorded ==
  [n \in DOMAIN attached |->
     [attached[n] EXCEPT !.groups = IF n \in DOMAIN have THEN have[n].groups ELSE @]]

(* Read takes every field from the service. *)
Seen == attached

(* The refresh; an update of any field of an interface is planned. *)
StartRun ==
  /\ at = "idle"
  /\ have' = Seen /\ at' = IF have' # want THEN "listing" ELSE "idle"
  /\ touched' = FALSE
  /\ UNCHANGED <<want, attached, todo, listed, half, counters>>

(* The difference of two sets of interfaces, as their hash tells them apart. *)
Difference(a, b) ==
  {n \in DOMAIN a : n \in DOMAIN b => a[n].groups # b[n].groups}

(* Variant with a bug: what differs is detached, whatever its name. *)
ListAndDetachAll ==
  /\ at = "listing"
  /\ listed' = [n \in DOMAIN attached |-> attached[n].groups]
  /\ Goto("detaching", Difference(have, want))
  /\ UNCHANGED <<want, have, attached, half, touched, counters>>

List ==
  /\ at = "listing"
  /\ listed' = [n \in DOMAIN attached |-> attached[n].groups]
  /\ Goto("detaching", Difference(have, want) \ DOMAIN want)
  /\ UNCHANGED <<want, have, attached, half, touched, counters>>

Without(n) == attached' = Restrict(attached, DOMAIN attached \ {n})
Detach(n) ==
  /\ at = "detaching" /\ n \in todo \cap DOMAIN attached
  /\ Without(n) /\ Goto(at, todo \ {n})
  /\ UNCHANGED <<want, have, listed, half, touched, counters>>

DetachRefused(n) ==
  /\ at = "detaching" /\ n \in todo \ DOMAIN attached
  /\ HandlerReturns(want)
  /\ UNCHANGED <<want, attached, touched, counters>>

AllDetached ==
  /\ at = "detaching" /\ todo = {}
  /\ Goto("attaching", Difference(want, have))
  /\ UNCHANGED <<want, have, attached, listed, half, touched, counters>>

New(n) == n \notin DOMAIN have

(* attachNewInterface does not pass the floating IP on. *)
With(n) ==
  attached' = [m \in DOMAIN attached \cup {n} |->
                 IF m = n THEN [want[n] EXCEPT !.fip = None] ELSE attached[m]]
Attach(n) ==
  /\ at = "attaching" /\ n \in todo /\ New(n) /\ half = None
  /\ With(n) /\ Goto(at, todo \ {n})
  /\ UNCHANGED <<want, have, listed, half, touched, counters>>

(* Skipped, and no error returned. *)
PortNotFound(n) ==
  /\ at = "attaching" /\ n \in todo \ DOMAIN listed /\ ~New(n) /\ half = None
  /\ Goto(at, todo \ {n})
  /\ UNCHANGED <<want, have, attached, listed, half, touched, counters>>

(* The groups of a port, if it is still there, become G. *)
Regroup(n, G) ==
  attached' = [m \in DOMAIN attached |->
                 IF m = n THEN [attached[m] EXCEPT !.groups = G] ELSE attached[m]]
GroupsOf(n) == IF n \in DOMAIN attached THEN attached[n].groups ELSE {}

(* Variant with a bug: only what is configured and listed is taken away. *)
UnwantedListed(n) == listed[n] \cap want[n].groups

(* The two calls are computed from the ports listed before. *)
Unwanted(n) == listed[n] \ want[n].groups
Wanting(n) == want[n].groups \ listed[n]

Unassign(n) ==
  /\ at = "attaching" /\ n \in todo \cap DOMAIN listed /\ ~New(n) /\ half = None
  /\ half' = n
  /\ \/ Regroup(n, GroupsOf(n) \ Unwanted(n)) /\ UNCHANGED <<touched, faults>>
     \/ /\ faults + outside < MaxMishaps /\ faults' = faults + 1
        /\ touched' = TRUE /\ UNCHANGED attached
  /\ UNCHANGED <<want, have, at, todo, listed, changes, outside>>

(* Variant of another kind: a floating IP is assigned with the groups. *)
AssignWithFloatingIP(n) ==
  /\ at = "attaching" /\ half = n /\ n \in Names
  /\ half' = None /\ Goto(at, todo \ {n})
  /\ attached' = [m \in DOMAIN attached |->
                    IF m = n THEN [attached[m] EXCEPT !.groups = want[n].groups, !.fip = want[n].fip]
                             ELSE attached[m]]
  /\ UNCHANGED <<want, have, listed, touched, counters>>

(* A group that cannot be looked up is left out, an error is logged. *)
Assign(n) ==
  /\ at = "attaching" /\ half = n /\ n \in Names
  /\ half' = None /\ Goto(at, todo \ {n})
  /\ \/ Regroup(n, GroupsOf(n) \cup Wanting(n)) /\ UNCHANGED <<touched, faults>>
     \/ /\ faults + outside < MaxMishaps /\ faults' = faults + 1
        /\ touched' = TRUE
        /\ \E G \in SUBSET Wanting(n) : Regroup(n, GroupsOf(n) \cup G)
  /\ UNCHANGED <<want, have, listed, changes, outside>>

AllAttached ==
  /\ at = "attaching" /\ todo = {}
  /\ Goto("reading", {})
  /\ UNCHANGED <<want, have, attached, listed, half, touched, counters>>

ReadBack ==
  /\ at = "reading" /\ HandlerReturns(Seen)
  /\ UNCHANGED <<want, attached, touched, counters>>

(* A list, a detachment or an attachment fails, with or without effect;    *)
(* the SDK records the planned interfaces.                                 *)
InterfaceCallFails ==
  /\ faults + outside < MaxMishaps /\ faults' = faults + 1
  /\ \/ at \in {"listing", "reading"} /\ UNCHANGED attached
     \/ at = "detaching" /\ \E n \in todo : Without(n) \/ UNCHANGED attached
     \/ at = "attaching" /\ half = None /\ \E n \in todo : New(n) /\ (With(n) \/ UNCHANGED attached)
  /\ HandlerReturns(want)
  /\ UNCHANGED <<want, touched, changes, outside>>

(* The provider is killed; the state stays as the refresh has left it. *)
Killed ==
  /\ at # "idle" /\ faults + outside < MaxMishaps /\ faults' = faults + 1
  /\ HandlerReturns(have)
  /\ UNCHANGED <<want, attached, touched, changes, outside>>

-----------------------------------------------------------------------------
Reconfigure ==
  /\ at = "idle" /\ changes < MaxChanges /\ changes' = changes + 1
  /\ want' \in Configurations \ {want}
  /\ UNCHANGED <<have, attached, at, todo, listed, half, touched, faults, outside>>

(* Somebody else detaches an interface, assigns groups or a floating IP. *)
InUse == {attached[m].fip : m \in DOMAIN attached}
Outside(n) ==
  /\ faults + outside < MaxMishaps /\ outside' = outside + 1
  /\ touched' = TRUE
  /\ n \in DOMAIN attached
  /\ \/ Without(n)
     \/ \E G \in SUBSET Groups \ {attached[n].groups} : Regroup(n, G)
     \/ \E f \in (FloatingIPs \ InUse) \cup {None} :
          f # attached[n].fip /\ attached' = [attached EXCEPT ![n].fip = f]
  /\ UNCHANGED <<want, have, at, todo, listed, half, faults, changes>>

AttachOutside(n) ==
  /\ at = "idle" /\ faults + outside < MaxMishaps /\ outside' = outside + 1
  /\ n \notin DOMAIN attached
  /\ \E i \in Interface :
       i.fip = None /\ attached' = [m \in DOMAIN attached \cup {n} |-> IF m = n THEN i ELSE attached[m]]
  /\ UNCHANGED <<want, have, at, todo, listed, half, touched, faults, changes>>

-----------------------------------------------------------------------------
Handler ==
  \/ List \/ AllDetached \/ AllAttached \/ ReadBack
  \/ \E n \in Names :
       \/ Detach(n) \/ DetachRefused(n) \/ Attach(n)
       \/ PortNotFound(n) \/ Unassign(n) \/ Assign(n)

InterfacesNext ==
  \/ StartRun \/ Handler \/ InterfaceCallFails \/ Killed \/ Reconfigure
  \/ \E n \in Names : Outside(n) \/ AttachOutside(n)

InterfacesSpec == InterfacesInit /\ [][InterfacesNext]_interfaceVars

(* Runs are repeated; a handler Terraform has started goes on. *)
InterfacesFairSpec == InterfacesSpec /\ WF_interfaceVars(StartRun) /\ WF_interfaceVars(Handler)

-----------------------------------------------------------------------------
(* What the update looks at: the names, and the groups of each. *)
InPlace ==
  /\ DOMAIN attached = DOMAIN want
  /\ \A n \in DOMAIN want : attached[n].groups = want[n].groups

(* An update that gets to its end, undisturbed and without an error that   *)
(* it only logged, has the configured interfaces attached with their       *)
(* groups, the new ones in their subnets, although it computes the calls   *)
(* from a list of ports it read before the first of them.                  *)
InterfacesArrive ==
  at = "reading" /\ ~touched =>
    InPlace /\ \A n \in DOMAIN want \ DOMAIN have : attached[n].subnet = want[n].subnet

(* An interface that is attached and configured keeps its port through all *)
(* runs, wherever they are cut off.                                        *)
KeepsPort ==
  want' = want /\ outside' = outside => DOMAIN attached \cap DOMAIN want \subseteq DOMAIN attached'
ConfiguredStaysAttached == [][KeepsPort]_interfaceVars

(* Another subnet or floating IP under the same name is planned by every   *)
(* run and made by none, and neither is the floating IP of an interface    *)
(* that was attached by an update.                                         *)
Off(n) ==
  /\ n \in DOMAIN want \cap DOMAIN attached
  /\ attached[n].subnet # want[n].subnet \/ attached[n].fip # want[n].fip
StaysOff == want' = want /\ outside' = outside => \A n \in Names : Off(n) => Off(n)'
EditUnderTheNameIsIgnored == [][StaysOff]_interfaceVars

(* Apart from that, repeated runs end with the configured interfaces and   *)
(* groups: an error that was swallowed shows at the next refresh.          *)
Settles == <>[]InPlace
=============================================================================
