---------------------------- MODULE WaapPolicies ----------------------------
(***************************************************************************)
(* One WAAP domain, the gcore_waap_domain resource that takes it over, and *)
(* the gcore_waap_policy resources that refer to it.  The domain comes and *)
(* goes with WAAP on a CDN resource, each time under another id.  Creating *)
(* the domain resource finds the domain by its name and changes it call by *)
(* call; only then is its id recorded and the policies' turn.              *)
(*                                                                         *)
(* The service has no call that sets the mode of a policy: it can only     *)
(* toggle it.  An update reads the modes, notes the policies that are not  *)
(* as configured and toggles those one after the other, in the order of a  *)
(* Go map, without looking again.  Creating the resource sets its id and   *)
(* is then the same update.                                                *)
(*                                                                         *)
(* Deleting a resource of either type does nothing, so one whose creation  *)
(* failed is created again whether it was recorded, tainted, or not.  The  *)
(* recorded modes and settings are left out: each run reads them before it *)
(* compares them with the configuration.                                   *)
(***************************************************************************)
EXTENDS Naturals

CONSTANTS
  Resources,   \* the gcore_waap_policy resources
  Policies,    \* the policies of the domain
  Owned,       \* the policies each resource lists
  Values,      \* of the settings of the domain
  Default,     \* the one a new domain has
  Unset,       \* not configured
  MaxFailures, MaxEdits, MaxOutside

ASSUME OwnedAssumption == Owned \in [Resources -> SUBSET Policies]
ASSUME ValuesAssumption == Default \in Values /\ Unset \notin Values
ASSUME BoundsAssumption ==
  MaxFailures \in Nat /\ MaxEdits \in Nat /\ MaxOutside \in Nat

VARIABLES
  asked,     \* the configured settings of the domain
  known,     \* the id of the domain in Terraform's state, 0 if it is not there
  at,        \* the call the handler of the domain is about to make
  target,    \* the id it makes it for
  sending,   \* the settings it has to send
  domain,    \* the id of the domain at the service, 0 if there is none
  born,      \* how many there have been
  settings,  \* its settings
  feature,   \* does the account have API discovery?
  want,      \* the configured modes, for each policy resource
  created,   \* the policy resources that are recorded
  mode,      \* the modes at the service
  pc,        \* the handler of each policy resource
  todo,      \* policiesToUpdate
  undisturbed,  \* has nobody else touched an owned policy since its read?
  failures, edits, outside

service == <<domain, born, settings, feature>>
handler == <<known, at, target, sending>>
budget == <<failures, edits, outside>>
vars == <<asked, handler, service, want, created, mode, pc, todo, undisturbed, budget>>

(* The status of a domain is treated like its settings. *)
Attrs == {"settings", "api_discovery_settings"}
Modes(r) == [Owned[r] -> BOOLEAN]
AllModes ==
  {w \in [Resources -> UNION {Modes(r) : r \in Resources}] : \A r \in Resources : w[r] \in Modes(r)}

DomainTypeOK ==
  /\ asked \in [Attrs -> Values \cup {Unset}]
  /\ settings \in [Attrs -> Values] /\ feature \in BOOLEAN
  /\ at \in {"done", "finding", "reading"} \cup Attrs
  /\ born \in Nat /\ {domain, known, target} \subseteq 0..born
  /\ target = 0 <=> at \in {"done", "finding"}
  /\ sending \subseteq IF at \in {"done", "reading"} THEN {} ELSE {a \in Attrs : asked[a] # Unset}

PoliciesTypeOK ==
  /\ want \in AllModes /\ mode \in [Policies -> BOOLEAN]
  /\ created \subseteq Resources
  /\ pc \in [Resources -> {"idle", "planned", "toggling"}]
  /\ todo \in [Resources -> SUBSET Policies]
  /\ \A r \in Resources : todo[r] \subseteq IF pc[r] = "toggling" THEN Owned[r] ELSE {}
  /\ undisturbed \in [Resources -> BOOLEAN]

TypeOK ==
  /\ DomainTypeOK /\ PoliciesTypeOK
  /\ at # "done" => \A r \in Resources : pc[r] \in {"idle", "planned"}
  /\ failures \in 0..MaxFailures /\ edits \in 0..MaxEdits
  /\ outside \in 0..MaxOutside

(* All resources are about to be created. *)
Init ==
  /\ asked \in [Attrs -> Values \cup {Unset}]
  /\ known = 0
  /\ at = "done" /\ target = 0 /\ sending = {}
  /\ domain = 1 /\ born = 1
  /\ settings = [a \in Attrs |-> Default] /\ feature \in BOOLEAN
  /\ mode \in [Policies -> BOOLEAN]
  /\ want \in AllModes
  /\ created = {}
  /\ pc = [r \in Resources |-> "idle"]
  /\ todo = [r \in Resources |-> {}]
  /\ undisturbed = [r \in Resources |-> FALSE]
  /\ failures = 0 /\ edits = 0 /\ outside = 0

-----------------------------------------------------------------------------
AllIdle == at = "done" /\ \A r \in Resources : pc[r] = "idle"

Lives(i) == i # 0 /\ i = domain

(* resourceWaapDomainRead: what an account without the feature has is nil. *)
Shown == [a \in Attrs |-> IF a = "settings" \/ feature THEN settings[a] ELSE Unset]

(* What is configured is sent to a domain that is taken over, and what has *)
(* changed in an update.                                                   *)
Changed(i) == {a \in Attrs : asked[a] # Unset /\ (i = 0 \/ asked[a] # Shown[a])}

(* The modes of the policies a resource lists. *)
Current(r) == [p \in Owned[r] |-> mode[p]]

Goto(r, phase) == pc' = [pc EXCEPT ![r] = phase]

Flip(p) == mode' = [mode EXCEPT ![p] = ~@]

(* Nobody but r may have touched what r owns. *)
DisturbOthers(p, r) ==
  undisturbed' = [x \in Resources |-> undisturbed[x] /\ (x = r \/ p \notin Owned[x])]
DisturbAll == undisturbed' = [r \in Resources |-> FALSE]

Return(r, recorded) ==
  /\ Goto(r, "idle")
  /\ created' = IF recorded THEN created \cup {r} ELSE created \ {r}
  /\ todo' = [todo EXCEPT ![r] = {}]

-----------------------------------------------------------------------------
(* Variant with a bug: a domain that is not found stays recorded. *)
SeenRecorded(i) == i

(* The id that is left after a refresh: not that of a domain that is gone. *)
Seen(i) == IF Lives(i) THEN i ELSE 0

(* A run refreshes the resources, those that are gone are forgotten, and   *)
(* plans to create or update each that is not as configured.               *)
StartRun ==
  /\ AllIdle
  /\ known' = Seen(known) /\ sending' = Changed(known')
  /\ at' = IF known' = 0 THEN "finding" ELSE IF sending' # {} THEN "settings" ELSE "done"
  /\ target' = IF at' = "settings" THEN known' ELSE 0
  /\ created' = IF Lives(known) THEN created ELSE {}
  /\ pc' = [r \in Resources |->
              IF r \in created' /\ Current(r) = want[r] THEN "idle" ELSE "planned"]
  /\ UNCHANGED <<asked, service, want, mode, todo, undisturbed, budget>>

-----------------------------------------------------------------------------
(* The handler of the domain. *)
ByName ==
  /\ at = "finding" /\ domain # 0
  /\ target' = domain /\ at' = "settings"
  /\ UNCHANGED <<asked, known, sending, service, want, created, mode, pc, todo, undisturbed, budget>>

(* updateDomainSettings, updateApiDiscoverySettings *)
Send(a) == settings' = IF a \in sending THEN [settings EXCEPT ![a] = asked[a]] ELSE settings
Accepted(a) == a \in sending => Lives(target) /\ (a = "settings" \/ feature)

SendSettings ==
  /\ at = "settings" /\ Accepted("settings")
  /\ Send("settings") /\ sending' = sending \ {"settings"} /\ at' = "api_discovery_settings"
  /\ UNCHANGED <<asked, known, target, domain, born, feature, want, created, mode, pc, todo,
                 undisturbed, budget>>

SendDiscovery ==
  /\ at = "api_discovery_settings" /\ Accepted("api_discovery_settings")
  /\ Send("api_discovery_settings") /\ sending' = {} /\ at' = "reading"
  /\ UNCHANGED <<asked, known, target, domain, born, feature, want, created, mode, pc, todo,
                 undisturbed, budget>>

(* The id of a created domain is set, and it is read. *)
ReadDomain ==
  /\ at = "reading" /\ Lives(target)
  /\ known' = target /\ at' = "done" /\ target' = 0
  /\ UNCHANGED <<asked, sending, service, want, created, mode, pc, todo, undisturbed, budget>>

(* An error: the policies are not handled. *)
GiveUp ==
  /\ at' = "done" /\ target' = 0 /\ sending' = {}
  /\ pc' = [r \in Resources |-> "idle"]
  /\ UNCHANGED <<asked, domain, born, feature, want, created, mode, todo,
                 undisturbed, edits, outside>>

(* There is no such domain, or the account lacks the feature. *)
DomainRefused ==
  /\ \/ at = "finding" /\ domain = 0
     \/ at \in Attrs /\ ~Accepted(at)
  /\ GiveUp /\ UNCHANGED <<known, settings, failures>>

(* The closing read does not find the domain and clears its id. *)
NotFound ==
  /\ at = "reading" /\ ~Lives(target)
  /\ known' = 0 /\ GiveUp /\ UNCHANGED <<settings, failures>>

(* A call fails, with or without its effect. *)
DomainCallFails ==
  /\ at # "done" /\ failures < MaxFailures /\ failures' = failures + 1
  /\ \/ UNCHANGED settings
     \/ at \in Attrs /\ Accepted(at) /\ Send(at)
  /\ GiveUp /\ UNCHANGED known

-----------------------------------------------------------------------------
(* The handler of a policy resource, once the domain's is done. *)
CanStart(r) == pc[r] = "planned" /\ at = "done"

(* Variant with a bug: every listed policy is toggled. *)
ReadAll(r) ==
  /\ CanStart(r) /\ Lives(known)
  /\ todo' = [todo EXCEPT ![r] = Owned[r]]
  /\ undisturbed' = [undisturbed EXCEPT ![r] = TRUE]
  /\ Goto(r, "toggling")
  /\ UNCHANGED <<asked, handler, service, want, created, mode, budget>>

(* policiesFromApi, and the comparison with the configuration. *)
ReadPolicies(r) ==
  /\ CanStart(r) /\ Lives(known)
  /\ todo' = [todo EXCEPT ![r] = {p \in Owned[r] : mode[p] # want[r][p]}]
  /\ undisturbed' = [undisturbed EXCEPT ![r] = TRUE]
  /\ Goto(r, "toggling")
  /\ UNCHANGED <<asked, handler, service, want, created, mode, budget>>

(* A domain that is not found is only a warning: the handler returns as if *)
(* it had done its work.                                                   *)
ReadNothing(r) ==
  /\ CanStart(r) /\ ~Lives(known)
  /\ Return(r, TRUE)
  /\ UNCHANGED <<asked, handler, service, want, mode, undisturbed, budget>>

Toggle(r, p) ==
  /\ pc[r] = "toggling" /\ p \in todo[r] /\ Lives(known)
  /\ Flip(p) /\ DisturbOthers(p, r)
  /\ todo' = [todo EXCEPT ![r] = @ \ {p}]
  /\ UNCHANGED <<asked, handler, service, want, created, pc, budget>>

(* The closing read; a domain that is not found clears the id. *)
ReadBack(r) ==
  /\ pc[r] = "toggling" /\ todo[r] = {}
  /\ Return(r, Lives(known))
  /\ UNCHANGED <<asked, handler, service, want, mode, undisturbed, budget>>

Failed(r) ==
  /\ Return(r, r \in created)
  /\ UNCHANGED <<asked, handler, service, want, mode, undisturbed, edits, outside>>
ToggleRefused(r) ==
  /\ pc[r] = "toggling" /\ todo[r] # {} /\ ~Lives(known)
  /\ Failed(r) /\ UNCHANGED failures

(* A call is refused, or made and its answer lost: a toggle with effect is *)
(* Toggle, followed by this.                                               *)
CallFails(r) ==
  /\ CanStart(r) \/ pc[r] = "toggling"
  /\ failures < MaxFailures /\ failures' = failures + 1
  /\ Failed(r)

(* The provider is killed; the state stays as the refresh has left it. *)
Killed ==
  /\ ~AllIdle /\ failures < MaxFailures /\ failures' = failures + 1
  /\ at' = "done" /\ target' = 0 /\ sending' = {}
  /\ pc' = [r \in Resources |-> "idle"] /\ todo' = [r \in Resources |-> {}]
  /\ UNCHANGED <<asked, known, service, want, created, mode, undisturbed, edits, outside>>

-----------------------------------------------------------------------------
Edit ==
  /\ AllIdle /\ edits < MaxEdits /\ edits' = edits + 1
  /\ \/ \E r \in Resources : \E w \in Modes(r) \ {want[r]} :
          want' = [want EXCEPT ![r] = w] /\ UNCHANGED asked
     \/ \E a \in Attrs : \E v \in (Values \cup {Unset}) \ {asked[a]} :
          asked' = [asked EXCEPT ![a] = v] /\ UNCHANGED want
  /\ UNCHANGED <<handler, service, created, mode, pc, todo, undisturbed, failures, outside>>

(* Somebody else toggles a policy, changes a setting or the account, or    *)
(* switches WAAP off, and on again.                                        *)
ToggledOutside(p) ==
  /\ domain # 0 /\ outside < MaxOutside /\ outside' = outside + 1
  /\ Flip(p)
  /\ undisturbed' = [x \in Resources |-> undisturbed[x] /\ p \notin Owned[x]]
  /\ UNCHANGED <<asked, handler, service, want, created, pc, todo, failures, edits>>

SetOutside ==
  /\ domain # 0 /\ outside < MaxOutside /\ outside' = outside + 1
  /\ \/ feature' = ~feature /\ UNCHANGED settings
     \/ \E a \in Attrs : \E v \in Values \ {settings[a]} :
          settings' = [settings EXCEPT ![a] = v] /\ UNCHANGED feature
  /\ UNCHANGED <<asked, handler, domain, born, want, created, mode, pc, todo, undisturbed,
                 failures, edits>>

SwitchedOff ==
  /\ domain # 0 /\ outside < MaxOutside /\ outside' = outside + 1
  /\ domain' = 0 /\ DisturbAll
  /\ UNCHANGED <<asked, handler, born, settings, feature, want, created, mode, pc, todo,
                 failures, edits>>
SwitchedOn ==
  /\ domain = 0 /\ domain' = born + 1 /\ born' = born + 1
  /\ settings' = [a \in Attrs |-> Default] /\ mode' \in [Policies -> BOOLEAN] /\ DisturbAll
  /\ UNCHANGED <<asked, handler, feature, want, created, pc, todo, budget>>

-----------------------------------------------------------------------------
DomainHandler == ByName \/ SendSettings \/ SendDiscovery \/ ReadDomain \/ DomainRefused \/ NotFound

Handler(r) ==
  \/ ReadPolicies(r) \/ ReadNothing(r) \/ ReadBack(r) \/ ToggleRefused(r)
  \/ \E p \in Policies : Toggle(r, p)

Next ==
  \/ StartRun \/ DomainHandler \/ DomainCallFails \/ Killed \/ Edit
  \/ \E r \in Resources : Handler(r) \/ CallFails(r)
  \/ SetOutside \/ SwitchedOff \/ SwitchedOn \/ \E p \in Policies : ToggledOutside(p)

Spec == Init /\ [][Next]_vars

(* Runs are repeated; the handlers Terraform has started go on. *)
FairSpec ==
  Spec /\ WF_vars(StartRun) /\ WF_vars(DomainHandler) /\ \A r \in Resources : WF_vars(Handler(r))

-----------------------------------------------------------------------------
(* In the middle of an update that nobody disturbs, a policy is as         *)
(* configured exactly when it is not on the list: no policy is toggled     *)
(* twice, whatever the order, an interrupted update has only brought       *)
(* policies nearer to the configuration, and one that comes to its closing *)
(* read has brought all of them there.                                     *)
HalfWay ==
  \A r \in Resources :
    pc[r] = "toggling" /\ undisturbed[r] =>
      \A p \in Owned[r] : (mode[p] = want[r][p]) <=> p \notin todo[r]

(* Repeated runs bring every policy that only one resource lists to its    *)
(* configured mode, and the domain to its configured settings, whatever    *)
(* calls have failed and whatever was toggled outside, even if the domain  *)
(* has been replaced by another; unless there is no domain, or the account *)
(* lacks the feature of a configured setting: then the policies are never  *)
(* handled, although the settings before it are.                           *)
Shared == {p \in Policies : \E r, x \in Resources : r # x /\ p \in Owned[r] \cap Owned[x]}
PoliciesSettled == \A r \in Resources : \A p \in Owned[r] \ Shared : mode[p] = want[r][p]
AsAsked(a) == asked[a] \in {Unset, settings[a]}
Blocked == asked["api_discovery_settings"] # Unset /\ ~feature
Settled ==
  /\ AsAsked("settings")
  /\ Blocked \/ (AsAsked("api_discovery_settings") /\ PoliciesSettled)
Settles == <>[](domain = 0 \/ Settled)
=============================================================================
