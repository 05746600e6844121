-------------------------- MODULE MCResourceUpdate --------------------------
(***************************************************************************)
(* The updates of every resource type of the provider.  The exceptions are *)
(* named attribute by attribute, not derived from the table.               *)
(***************************************************************************)
EXTENDS ResourceUpdate, UpdateTable, TLC

(* Attributes that Read does not look at. *)
Blind ==
  {<<"floatingip", "tags">>,
   <<"port_security", "enable_port_security">>,
   <<"port_allowed_address_pairs", "allowed_address_pair">>,
   <<"loadbalancer", "listener">>, <<"lblistener", "timeout_client_data">>,
   <<"k8sv2", "ddos_profile">>, <<"ai_cluster", "instances_count">>,
   <<"file_share", "access">>, <<"inference_secret", "data_aws_access_key_id">>,
   <<"registry_credential", "password">>, <<"dns_zone", "enabled">>,
   <<"cdn_sslcert", "cert">>, <<"cdn_sslcert", "validate_root_ca">>,
   <<"cdn_rule_template", "rule_type">>}

(* Attributes whose edit is never sent, or not unless another one is edited *)
(* with it: the plan shows it again and again.                              *)
Deaf ==
  {<<"network", "type">>, <<"snapshot", "description">>, <<"securitygroup", "name">>,
   <<"loadbalancerv2", "vip_ip_family">>, <<"lbpool", "name">>,
   <<"baremetal", "flavor_id">>, <<"k8sv2", "csi">>, <<"ai_cluster", "flavor">>,
   <<"faas_function", "min_instances">>}

(* Attributes whose edit is neither sent nor ever shown again. *)
Ignored ==
  {<<"network", "create_router">>, <<"subnet", "connect_to_network_router">>,
   <<"reservedfixedip", "ip_family">>, <<"instance", "keypair_name">>,
   <<"instancev2", "keypair_name">>, <<"baremetal", "image_id">>,
   <<"cdn_resource", "origin">>}

(* Attributes whose edit waits for a run in which nothing else changes. *)
Patient == {<<"ai_cluster", "volume">>, <<"ai_cluster", "image_id">>}

(* ... and waits for ever beside one that is never sent. *)
Starved == {<<"ai_cluster", "image_id">>}

(* A failed update of the tags is forgotten; the next one takes away only *)
(* what the state has.                                                    *)
Littered == {<<"floatingip", "tags">>}

(* Attributes that a repeated update takes apart although they are right. *)
RedoneAttributes == {<<"file_share", "access">>, <<"loadbalancer", "listener">>}

(* Attributes an update can only let grow, and those it does not get to     *)
(* while the service has more of one than is configured.                    *)
GrowingAttributes == {<<"volume", "size">>}
HeldBack ==
  IF kind = "volume" /\ remote["size"] > config["size"]
    THEN {"size", "type_name", "metadata_map"} ELSE {}

UnnoticedAttributes == Blind \cup Ignored
MissedAttributes == Deaf \cup Ignored \cup Patient \cup Littered

TableOfKinds == [k \in Kinds |-> UpdateTable[k]]

-----------------------------------------------------------------------------
(* Every other attribute ends as configured, after any failures, kills,     *)
(* edits and changes by others.                                             *)
Settles ==
  <>[](\A a \in Attrs : Differs(a) =>
         \/ <<kind, a>> \in Blind \cup Deaf \cup Ignored \cup Starved
         \/ a \in HeldBack)
=============================================================================
