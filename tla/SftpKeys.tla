------------------------------ MODULE SftpKeys ------------------------------
(***************************************************************************)
(* The SSH keys of one gcore_storage_sftp.  Creating the storage links the *)
(* keys of the list one by one; an update links what the new list has more *)
(* often than the old one, then unlinks what it has less often, in the     *)
(* order of a Go map.  Read does not set the list: it writes the linked    *)
(* keys to an attribute the resource does not have.                        *)
(***************************************************************************)
EXTENDS Naturals, Sequences, FiniteSets

CONSTANTS
  Keys,     \* the ssh key ids
  Lists,    \* the key lists a user writes
  MaxFailures, MaxEdits

ASSUME ListsAssumption == Lists \subseteq Seq(Keys)
ASSUME BoundsAssumption == MaxFailures \in Nat /\ MaxEdits \in Nat

VARIABLES
  config,    \* ssh_key_id of the configuration
  state,     \* ssh_key_id of Terraform's state
  tainted,   \* has the create handler failed after SetId?
  linked,    \* the keys linked to the storage at the service
  pc, i,     \* the handler, and its index in the list it links
  link, unlink,  \* what the running update has still to do
  exact,     \* did the update start from "linked = the keys of the state"?
  failures, edits

budget == <<failures, edits>>
work == <<i, link, unlink, exact>>
vars == <<config, state, tainted, linked, pc, work, budget>>

Elements(list) == {list[j] : j \in DOMAIN list}

Distinct(list) == \A j, k \in DOMAIN list : list[j] = list[k] => j = k

Running == {"linking", "relinking"}

TypeOK ==
  /\ config \in Lists /\ state \in Lists
  /\ tainted \in BOOLEAN
  /\ linked \subseteq Keys
  /\ pc \in {"idle", "planning"} \cup Running
  /\ i \in 1..Len(config) + 1
  /\ pc # "linking" => i = 1
  /\ link \subseteq Keys /\ unlink \subseteq Keys
  /\ link \cap unlink = {}
  /\ pc # "relinking" => link = {} /\ unlink = {}
  /\ exact \in BOOLEAN
  /\ failures \in 0..MaxFailures /\ edits \in 0..MaxEdits

(* The create handler has its storage and goes on to link the keys. *)
Init ==
  /\ config \in Lists /\ state = config /\ tainted = FALSE
  /\ linked = {}
  /\ pc = "linking" /\ i = 1
  /\ link = {} /\ unlink = {} /\ exact = FALSE
  /\ failures = 0 /\ edits = 0

-----------------------------------------------------------------------------
Times(list, k) == Cardinality({j \in DOMAIN list : list[j] = k})

(* Variant with a bug: the sign is wrong. *)
MoreOftenSwapped(old, new) == {k \in Keys : Times(old, k) > Times(new, k)}

(* decision[k] > 0 *)
MoreOften(old, new) == {k \in Keys : Times(new, k) > Times(old, k)}

Leave ==
  /\ pc' = "idle" /\ i' = 1
  /\ link' = {} /\ unlink' = {} /\ exact' = FALSE

(* Return with or without an error: the SDK records the planned list. *)
Return(bad) == Leave /\ state' = config /\ tainted' = bad

-----------------------------------------------------------------------------
Edit ==
  /\ pc = "idle" /\ edits < MaxEdits
  /\ config' \in Lists \ {config}
  /\ edits' = edits + 1
  /\ UNCHANGED <<state, tainted, linked, pc, work, failures>>

(* Variant of the handler: the list is set to the linked keys. *)
ReadKeysLinked(list) ==
  IF Elements(list) = linked \/ \A l \in Lists : Elements(l) # linked
    THEN list
    ELSE CHOOSE l \in Lists : Elements(l) = linked

(* What Read makes of the list: the keys go to "key_id", which is none of  *)
(* the attributes, and the error of setting it is dropped.                 *)
ReadKeys(list) == list

Refresh ==
  /\ pc = "idle"
  /\ state' = ReadKeys(state)
  /\ pc' = "planning"
  /\ UNCHANGED <<config, tainted, linked, work, budget>>

PlanNothing ==
  /\ pc = "planning" /\ ~tainted /\ state = config
  /\ pc' = "idle"
  /\ UNCHANGED <<config, state, tainted, linked, work, budget>>

(* resourceStorageLinkKeys.  Whether a key may be linked twice is up to    *)
(* the service; a call that is not refused leaves the key linked.          *)
LinkNext ==
  /\ pc = "linking" /\ i <= Len(config)
  /\ linked' = linked \cup {config[i]}
  /\ i' = i + 1
  /\ UNCHANGED <<config, state, tainted, pc, link, unlink, exact, budget>>

CreateEnds ==
  /\ pc = "linking" /\ i > Len(config)
  /\ Return(FALSE)
  /\ UNCHANGED <<config, linked, budget>>

(* A tainted storage is deleted and created again. *)
Recreate ==
  /\ pc = "planning" /\ tainted
  /\ pc' = "linking" /\ i' = 1
  /\ linked' = {}
  /\ tainted' = FALSE
  /\ UNCHANGED <<config, state, link, unlink, exact, budget>>

(* resourceStorageRelinkKeys: what to do is decided before the first call. *)
Relink ==
  /\ pc = "planning" /\ ~tainted /\ state # config
  /\ pc' = "relinking"
  /\ link' = MoreOften(state, config) /\ unlink' = MoreOften(config, state)
  /\ exact' = (linked = Elements(state))
  /\ UNCHANGED <<config, state, tainted, linked, i, budget>>

RelinkLinks(k) ==
  /\ pc = "relinking" /\ k \in link
  /\ linked' = linked \cup {k} /\ link' = link \ {k}
  /\ UNCHANGED <<config, state, tainted, pc, i, unlink, exact, budget>>

(* Variant with a bug: keys are unlinked before the new ones are linked. *)
RelinkUnlinksEarly(k) ==
  /\ pc = "relinking" /\ k \in unlink
  /\ linked' = linked \ {k} /\ unlink' = unlink \ {k}
  /\ UNCHANGED <<config, state, tainted, pc, i, link, exact, budget>>

RelinkUnlinks(k) ==
  /\ pc = "relinking" /\ link = {} /\ k \in unlink
  /\ linked' = linked \ {k} /\ unlink' = unlink \ {k}
  /\ UNCHANGED <<config, state, tainted, pc, i, link, exact, budget>>

RelinkEnds ==
  /\ pc = "relinking" /\ link = {} /\ unlink = {}
  /\ Return(FALSE)
  /\ UNCHANGED <<config, linked, budget>>

(* A call is refused, or made and its answer lost: the handler returns the *)
(* error.  In a create handler, which has set the id, it taints.           *)
CallFails ==
  /\ pc \in Running
  /\ failures < MaxFailures /\ failures' = failures + 1
  /\ Return(pc = "linking")
  /\ UNCHANGED <<config, linked, edits>>

(* The provider is killed: the old list stays recorded.  The storage of a  *)
(* create handler is not recorded at all, and the next run has another.    *)
StorageKilled ==
  /\ pc \in Running
  /\ failures < MaxFailures /\ failures' = failures + 1
  /\ Leave
  /\ tainted' = (pc = "linking")
  /\ UNCHANGED <<config, state, linked, edits>>

-----------------------------------------------------------------------------
Next ==
  \/ Edit \/ Refresh \/ PlanNothing
  \/ LinkNext \/ CreateEnds \/ Recreate \/ Relink \/ RelinkEnds
  \/ CallFails \/ StorageKilled
  \/ \E k \in Keys : RelinkLinks(k) \/ RelinkUnlinks(k)

Spec == Init /\ [][Next]_vars

-----------------------------------------------------------------------------
(* An update from one list without repetitions to another never leaves the *)
(* storage without any key on its way, if it had those of the old list:    *)
(* new keys are linked before old ones are unlinked.  (With repetitions it *)
(* does: from <<k, k>> to <<k>> the handler unlinks k.)                    *)
NeverLockedOut ==
  pc = "relinking" /\ exact /\ Distinct(state) /\ Distinct(config)
    /\ state # <<>> /\ config # <<>>
    => linked # {}

(* Such an update leaves exactly the keys of the new list.                 *)
UpdateArrives ==
  [][RelinkEnds /\ exact /\ Distinct(state) /\ Distinct(config)
       => linked' = Elements(config)]_vars

(* A storage whose keys are not those of its list, after an update that    *)
(* failed between two calls or a list that names a key twice, stays so     *)
(* until the list is edited: no run sees the difference.                   *)
Drifted ==
  pc \in {"idle", "planning"} /\ ~tainted /\ state = config /\ linked # Elements(config)
DriftStays == [][Drifted => Drifted' \/ Edit]_vars
=============================================================================
