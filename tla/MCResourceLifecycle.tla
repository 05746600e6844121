------------------------ MODULE MCResourceLifecycle ------------------------
(***************************************************************************)
(* The lifecycle of every resource type of the provider.  The exceptions   *)
(* are named type by type, not derived from the table: a handler that      *)
(* changes its behaviour has to be moved in or out of these sets.          *)
(***************************************************************************)
EXTENDS ResourceLifecycle, ProviderTable, TLC

(* Types whose id can be dropped while the object is still there. *)
Hasty ==
  {"secret", "inference_deployment", "loadbalancer", "loadbalancerv2",
   "ddos_protection", "gpu_image",
   "fastedge_app", "fastedge_binary", "fastedge_secret"}

(* Types that can lose an object to an error answer alone: those that wait *)
(* for a task, and those that make another call before they record the id  *)
(* or take a conflict for the end of a deletion.                           *)
AwaitedKinds ==
  {"volume", "network", "subnet", "snapshot", "floatingip", "reservedfixedip",
   "router", "instance", "instancev2", "baremetal", "secret",
   "loadbalancerv2", "lblistener", "lbpool", "lbmember", "k8sv2",
   "file_share", "postgres_cluster", "ai_cluster", "ddos_protection",
   "inference_deployment", "faas_namespace", "faas_function",
   "gpu_cluster", "gpu_image"}
Leaky ==
  AwaitedKinds \cup
  {"servergroup", "dns_zone", "fastedge_app", "fastedge_binary", "fastedge_secret"}

(* Types whose Read fails on an object that is gone. *)
Wedging ==
  {"network", "snapshot", "router", "baremetal", "servergroup", "secret",
   "loadbalancer", "loadbalancerv2", "lblistener", "lbpool",
   "lifecyclepolicy", "ddos_protection", "inference_deployment",
   "inference_secret", "registry_credential", "laas_topic", "faas_function",
   "gpu_cluster", "gpu_image", "storage_s3", "storage_s3_bucket",
   "storage_sftp", "storage_sftp_key", "dns_zone", "dns_zone_record"}

ContractKinds == ProviderKinds \ Hasty

(* gcore_lbmember keeps what it cannot find. *)
SelfHealingKinds == ProviderKinds \ (Wedging \cup {"lbmember"})

TableOfKinds == [k \in Kinds |-> ProviderTable[k]]

Identities == Permutations(Objects)

-----------------------------------------------------------------------------
(* For all other types repeated runs end in what the configuration says,   *)
(* after any failure: one live, recorded, untainted object, or none.       *)
Settled ==
  IF wanted THEN sid # None /\ ~tainted /\ remote[sid] = "live" ELSE sid = None
Settles == <>[]Settled
=============================================================================
