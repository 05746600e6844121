---------------------------- MODULE UpdateTable ----------------------------
(***************************************************************************)
(* The calls of every Update handler of the provider, in their order, in   *)
(* the vocabulary that ResourceUpdate interprets.  One row is one handler. *)
(*                                                                         *)
(* A call                                                                  *)
(*   when      is made if one of these attributes has changed; {}: always  *)
(*   unless    but not if one of these has                                 *)
(*   sends     maps every attribute it can send to the attributes of which *)
(*             one must have changed for it to be sent; {}: always         *)
(*   relative  of these it sends only the difference from the state        *)
(*   grows     of these it sends only more than the service has, or else   *)
(*             the handler ends with an error                              *)
(*   atomic    is one request; otherwise several, one after the other      *)
(* A row                                                                   *)
(*   calls     the calls                                                   *)
(*   unread    attributes the type's Read does not write                   *)
(*   unsent    attributes that no call sends, but that can be edited       *)
(*   restored  attributes set back to their old values by a failing update *)
(*   readback  does the handler end with the type's Read?                  *)
(*                                                                         *)
(* Attributes that are treated alike are represented by one of them.       *)
(* Left out: attributes that force a new object, that only say where the   *)
(* object is, or that cannot be configured; values that take an attribute  *)
(* out of the configuration (an emptied list or string, a removed block),  *)
(* for which some handlers make calls of their own.                        *)
(***************************************************************************)
LOCAL INSTANCE TLC

Always(A) == [a \in A |-> {}]
IfChanged(A) == [a \in A |-> {a}]

Call(when, sends) ==
  [when |-> when, unless |-> {}, sends |-> sends, relative |-> {},
   grows |-> {}, atomic |-> TRUE]

(* One request that carries all the attributes, or those that changed. *)
Put(A) == Call({}, Always(A))
PutIfChanged(A) == Call(A, Always(A))
Patch(A) == Call({}, IfChanged(A))
PatchIfChanged(A) == Call(A, IfChanged(A))
Set(a) == PutIfChanged({a})

(* Requests that take the old value away and then bring the new one ... *)
Rebuild(a) == [Set(a) EXCEPT !.atomic = FALSE]
(* ... or that remove and add what the two values do not share, one by   *)
(* one or in one request.                                                *)
Exchange(a) == [Rebuild(a) EXCEPT !.relative = {a}]
Merge(a) == [Set(a) EXCEPT !.relative = {a}]

(* A request for more of what cannot be made less. *)
Grow(a) == [Set(a) EXCEPT !.grows = {a}]

Unless(c, A) == [c EXCEPT !.unless = A]

Updates(calls) ==
  [calls |-> calls, unread |-> {}, unsent |-> {}, restored |-> {}, readback |-> TRUE]

Unread(row, A) == [row EXCEPT !.unread = A]
Unsent(row, A) == [row EXCEPT !.unsent = A]
Ignoring(row, A) == Unsent(Unread(row, A), A)

-----------------------------------------------------------------------------
(* Volumes, networks, addresses. *)

(* Variant with a bug: a new type is never sent. *)
VolumeUpdateForgetful ==
  Unsent(Updates(<<Set("name"), Grow("size"), Set("metadata_map")>>), {"type_name"})

(* Variant with a bug: the size the volume has is not looked at. *)
VolumeUpdateUnchecked ==
  Updates(<<Set("name"), Set("size"), Set("type_name"), Set("metadata_map")>>)

VolumeUpdate ==
  Updates(<<Set("name"), Grow("size"), Set("type_name"), Set("metadata_map")>>)

NetworkUpdate ==
  [Updates(<<Set("name"), Set("metadata_map")>>)
     EXCEPT !.unsent = {"type", "create_router"}, !.unread = {"create_router"}]

SnapshotUpdate ==
  Unsent(Updates(<<Set("metadata")>>), {"description"})

(* Variant with a bug: Read does not write the name servers. *)
SubnetUpdateUnread ==
  Unread(Updates(<<Call({}, Always({"dns_nameservers"}) @@ IfChanged({"name"})),
                   Set("metadata_map")>>), {"dns_nameservers"})

(* dns_nameservers stands for host_routes and gateway_ip too, name for *)
(* enable_dhcp.                                                        *)
SubnetUpdate ==
  Ignoring(Updates(<<Call({}, Always({"dns_nameservers"}) @@ IfChanged({"name"})),
                     Set("metadata_map")>>), {"connect_to_network_router"})

FloatingIPUpdate ==
  Unread(Updates(<<Rebuild("port_id"), Set("metadata_map"), Merge("tags")>>), {"tags"})

ReservedFixedIPUpdate ==
  Ignoring(Updates(<<Set("is_vip"), Set("allowed_address_pairs")>>), {"ip_family"})

(* Variant with a bug: Read does not write the interfaces. *)
RouterUpdateUnread ==
  Unread(Updates(<<Exchange("interfaces"), Patch({"routes", "name"})>>), {"interfaces"})

RouterUpdate ==
  Updates(<<Exchange("interfaces"), Patch({"routes", "name"})>>)

SecurityGroupUpdate ==
  Unsent(Updates(<<Exchange("security_group_rules"), Set("metadata_map")>>), {"name"})

ServerGroupUpdate ==
  [Updates(<<Exchange("instance")>>) EXCEPT !.readback = FALSE]

PortSecurityUpdate ==
  [Unread(Updates(<<Put({"enable_port_security"})>>), {"enable_port_security"})
     EXCEPT !.readback = FALSE]

PortAAPUpdate ==
  [Unread(Updates(<<Put({"allowed_address_pair"})>>), {"allowed_address_pair"})
     EXCEPT !.readback = FALSE]

-----------------------------------------------------------------------------
(* Load balancers. *)

(* The listener is its protocol and its port: Read keeps those of the *)
(* state and only fills in the rest.                                  *)
LoadBalancerUpdate ==
  Unread(Updates(<<Set("name"), Rebuild("listener"), Set("metadata_map")>>), {"listener"})

LoadBalancerV2Update ==
  Unsent(Updates(<<PatchIfChanged({"name"}), Set("metadata_map"), Set("flavor")>>), {"vip_ip_family"})

(* timeout_client_data stands for the other timeouts, the connection limit *)
(* and user_list, name for the secrets and allowed_cidrs.                  *)
LBListenerUpdate ==
  Unread(Updates(<<PatchIfChanged({"name", "timeout_client_data"})>>),
         {"timeout_client_data"})

(* The name is in every request but is no reason to make one. *)
LBPoolUpdate ==
  Updates(<<Call({"lb_algorithm"}, IfChanged({"lb_algorithm"}) @@ Always({"name"}))>>)

-----------------------------------------------------------------------------
(* Instances and clusters. *)

(* name stands for flavor_id too, keypair_name for all that is only used to *)
(* create an instance and yet can be edited.                                *)
InstanceUpdate ==
  Ignoring(Updates(<<Set("name"), Exchange("metadata_map"), Exchange("interface"),
                     Exchange("volume"), Set("vm_state")>>), {"keypair_name"})

(* The same; an interface is its name and its security groups. *)
InstanceV2Update ==
  Ignoring(Updates(<<Set("name"), Exchange("metadata_map"), Exchange("interface"),
                     Exchange("volume"), Set("vm_state")>>), {"keypair_name"})

BaremetalUpdate ==
  [Updates(<<Set("name"), Exchange("metadata_map"), Exchange("interface")>>)
     EXCEPT !.unsent = {"flavor_id", "image_id"}, !.unread = {"image_id"}]

(* The node pools, between the second call and the third, have a module *)
(* of their own.                                                        *)
K8sUpdate ==
  [Updates(<<Set("version"), PatchIfChanged({"autoscaler_config", "ddos_profile"}),
             Merge("security_group_rules")>>)
     EXCEPT !.unread = {"ddos_profile"}, !.unsent = {"csi"}]

GPUClusterUpdate ==
  Updates(<<Set("servers_count"), Set("name"), Merge("tags")>>)

AIClusterOthers == {"cluster_status", "instances_count", "volume", "flavor"}

(* volume stands for interface, security_group and cluster_metadata too. *)
(* The cluster is one of a single virtual server: with several servers or *)
(* a bare metal flavor the handler refuses any edit of the volumes.       *)
AIClusterUpdate ==
  [Updates(<<Set("cluster_status"), Set("instances_count"),
             Unless(Exchange("volume"), {"instances_count"}),
             Unless(Set("image_id"), AIClusterOthers)>>)
     EXCEPT !.unread = {"instances_count"}, !.unsent = {"flavor"}]

PostgresUpdate ==
  Updates(<<Patch({"storage"})>>)

(* Variant of the handler: Read writes the access rules. *)
FileShareUpdateRead ==
  Updates(<<Set("size"),
            [PatchIfChanged({"name", "tags"}) EXCEPT !.relative = {"tags"}],
            Rebuild("access")>>)

FileShareUpdate ==
  Unread(Updates(<<Set("size"),
                   [PatchIfChanged({"name", "tags"}) EXCEPT !.relative = {"tags"}],
                   Rebuild("access")>>),
         {"access"})

LifecyclePolicyUpdate ==
  Updates(<<Put({"name"}), Exchange("volume")>>)

DDoSProtectionUpdate ==
  Updates(<<Set("fields"), PutIfChanged({"bgp", "active"})>>)

-----------------------------------------------------------------------------
(* Inference, functions. *)

InferenceDeploymentUpdate ==
  Updates(<<Patch({"image"})>>)

InferenceSecretUpdate ==
  Unread(Updates(<<Set("data_aws_access_key_id")>>), {"data_aws_access_key_id"})

RegistryCredentialUpdate ==
  Unread(Updates(<<Put({"registry_url", "password"})>>), {"password"})

FaaSNamespaceUpdate ==
  Updates(<<PatchIfChanged({"description"})>>)

FaaSFunctionUpdate ==
  Updates(<<Call({"code_text", "max_instances"},
                 IfChanged({"code_text", "max_instances"}) @@
                   [a \in {"min_instances"} |-> {"max_instances"}])>>)

FaaSKeyUpdate ==
  Updates(<<PatchIfChanged({"description"})>>)

-----------------------------------------------------------------------------
(* DNS. *)

DNSZoneUpdate ==
  Unread(Updates(<<Set("dnssec"), Set("enabled"),
                   Call({"contact"}, Always({"contact", "enabled"}))>>), {"enabled"})

DNSZoneRecordUpdate ==
  Updates(<<Put({"resource_record"})>>)

DNSNetworkMappingUpdate ==
  Updates(<<Set("mapping")>>)

-----------------------------------------------------------------------------
(* CDN. *)

CDNResourceUpdate ==
  Ignoring(Updates(<<Put({"options"})>>), {"origin"})

CDNClientUpdate ==
  Updates(<<Put({"utilization_level"})>>)

CDNOriginGroupUpdate ==
  Updates(<<Put({"origin"})>>)

CDNOriginShieldingUpdate ==
  Updates(<<Put({"shielding_pop"})>>)

CDNRuleUpdate ==
  Updates(<<Put({"options"})>>)

CDNCertUpdate ==
  [Updates(<<Call({}, Always({"name", "validate_root_ca"}) @@ IfChanged({"cert"}))>>)
     EXCEPT !.unread = {"validate_root_ca", "cert"}, !.restored = {"cert"}]

(* Read writes "ruleType" and "overrideOriginProtocol", which the schema *)
(* does not have.                                                        *)
CDNRuleTemplateUpdate ==
  Unread(Updates(<<Put({"name", "rule_type"})>>), {"rule_type"})

CDNCACertUpdate ==
  Updates(<<Put({"name"})>>)

CDNLogsConfigUpdate ==
  Updates(<<Put({"policy"})>>)

CDNLogsPolicyUpdate ==
  Updates(<<Put({"fields"})>>)

CDNLogsTargetUpdate ==
  Updates(<<Put({"config"})>>)

-----------------------------------------------------------------------------
(* FastEdge, WAAP. *)

FastEdgeAppUpdate ==
  [Updates(<<Put({"binary"})>>) EXCEPT !.readback = FALSE]

FastEdgeTemplateUpdate ==
  [Updates(<<Put({"binary"})>>) EXCEPT !.readback = FALSE]

FastEdgeSecretUpdate ==
  [Updates(<<Put({"slot"})>>) EXCEPT !.readback = FALSE]

WaapDomainUpdate ==
  Updates(<<Set("status"), Set("settings"), Set("api_discovery_settings")>>)

WaapCustomRuleUpdate ==
  Updates(<<Call({}, Always({"name"}) @@ IfChanged({"action"}))>>)

WaapAdvancedRuleUpdate ==
  Updates(<<Call({}, Always({"source"}) @@ IfChanged({"action"}))>>)

WaapFirewallRuleUpdate ==
  Updates(<<Put({"conditions"})>>)

WaapApiPathUpdate ==
  Updates(<<Put({"path"})>>)

WaapCustomPageSetUpdate ==
  Updates(<<Put({"domains"})>>)

WaapSilenceUpdate ==
  Updates(<<Put({"labels"})>>)

-----------------------------------------------------------------------------
UpdateTable ==
  [volume |-> VolumeUpdate,
   network |-> NetworkUpdate,
   snapshot |-> SnapshotUpdate,
   subnet |-> SubnetUpdate,
   floatingip |-> FloatingIPUpdate,
   reservedfixedip |-> ReservedFixedIPUpdate,
   router |-> RouterUpdate,
   securitygroup |-> SecurityGroupUpdate,
   servergroup |-> ServerGroupUpdate,
   port_security |-> PortSecurityUpdate,
   port_allowed_address_pairs |-> PortAAPUpdate,
   loadbalancer |-> LoadBalancerUpdate,
   loadbalancerv2 |-> LoadBalancerV2Update,
   lblistener |-> LBListenerUpdate,
   lbpool |-> LBPoolUpdate,
   instance |-> InstanceUpdate,
   instancev2 |-> InstanceV2Update,
   baremetal |-> BaremetalUpdate,
   k8sv2 |-> K8sUpdate,
   gpu_virtual_cluster |-> GPUClusterUpdate,
   ai_cluster |-> AIClusterUpdate,
   postgres_cluster |-> PostgresUpdate,
   file_share |-> FileShareUpdate,
   lifecyclepolicy |-> LifecyclePolicyUpdate,
   ddos_protection |-> DDoSProtectionUpdate,
   inference_deployment |-> InferenceDeploymentUpdate,
   inference_secret |-> InferenceSecretUpdate,
   registry_credential |-> RegistryCredentialUpdate,
   faas_namespace |-> FaaSNamespaceUpdate,
   faas_function |-> FaaSFunctionUpdate,
   faas_key |-> FaaSKeyUpdate,
   dns_zone |-> DNSZoneUpdate,
   dns_zone_record |-> DNSZoneRecordUpdate,
   dns_network_mapping |-> DNSNetworkMappingUpdate,
   cdn_resource |-> CDNResourceUpdate,
   cdn_client_config |-> CDNClientUpdate,
   cdn_origingroup |-> CDNOriginGroupUpdate,
   cdn_originshielding |-> CDNOriginShieldingUpdate,
   cdn_rule |-> CDNRuleUpdate,
   cdn_sslcert |-> CDNCertUpdate,
   cdn_rule_template |-> CDNRuleTemplateUpdate,
   cdn_cacert |-> CDNCACertUpdate,
   cdn_logs_uploader_config |-> CDNLogsConfigUpdate,
   cdn_logs_uploader_policy |-> CDNLogsPolicyUpdate,
   cdn_logs_uploader_target |-> CDNLogsTargetUpdate,
   fastedge_app |-> FastEdgeAppUpdate,
   fastedge_template |-> FastEdgeTemplateUpdate,
   fastedge_secret |-> FastEdgeSecretUpdate,
   waap_domain |-> WaapDomainUpdate,
   waap_custom_rule |-> WaapCustomRuleUpdate,
   waap_advanced_rule |-> WaapAdvancedRuleUpdate,
   waap_firewall_rule |-> WaapFirewallRuleUpdate,
   waap_api_path |-> WaapApiPathUpdate,
   waap_custom_page_set |-> WaapCustomPageSetUpdate,
   waap_security_insight_silence |-> WaapSilenceUpdate]

UpdatedKinds == DOMAIN UpdateTable
=============================================================================
