--------------------------- MODULE ProviderTable ---------------------------
(***************************************************************************)
(* What the Create, Read and Delete handlers of every resource type of the *)
(* provider decide, in the vocabulary that ResourceLifecycle interprets.   *)
(* One row is one handler.                                                 *)
(*                                                                         *)
(* A create handler                                                        *)
(*   serve      "sync": the answer carries the id; "task": the id is read  *)
(*              from the finished task; "disabled": always an error        *)
(*   before     what an error answer to a call between the answer, or the  *)
(*              end of the awaited task, and SetId leaves; "none": no call; *)
(*              "lose": the error is returned and the id with it is lost;  *)
(*              "undo": the new object is deleted again;                   *)
(*              "undoThenKeep": it is deleted again and its id recorded    *)
(*   afterFails a call after SetId can fail, which taints the object       *)
(*   afterSkips a path after SetId returns without the read-back           *)
(*   readback   the diagnostics of the closing Read are "returned" or      *)
(*              "ignored"; "none": the type's own Read is not called       *)
(* A read handler finds the object missing and                             *)
(*   "clear"s the id, returns an "error", or "keep"s what it had           *)
(* A delete handler                                                        *)
(*   serve      "sync", "task" (awaited) or "async" (not awaited)          *)
(*   verify     after the task: the object must be "gone" (a 404); any     *)
(*              error of the read counts ("unreadable"); the read counts   *)
(*              as gone even when it finds the object ("blind"); no read   *)
(*   missing    a 404 of the delete call is "done", an "error" or a        *)
(*              "panic"                                                    *)
(*   conflict   a 409 is an "error", or a warning with which the SDK       *)
(*              drops the id ("forget")                                    *)
(***************************************************************************)

Creates(serve, readback) ==
  [serve |-> serve, before |-> "none", afterFails |-> FALSE,
   afterSkips |-> FALSE, readback |-> readback]

(* The closure that is called after the wait asks for the finished task    *)
(* once more, to find the id in it.                                        *)
CreatesByTask(readback) == [Creates("task", readback) EXCEPT !.before = "lose"]

AwaitedDelete(verify) ==
  [serve |-> "task", verify |-> verify, missing |-> "error", conflict |-> "error"]

DirectDelete ==
  [serve |-> "sync", verify |-> "unchecked", missing |-> "error", conflict |-> "error"]

UnawaitedDelete == [DirectDelete EXCEPT !.serve = "async"]

ForgetfulDelete == [DirectDelete EXCEPT !.conflict = "forget"]

Handlers(create, read, delete) ==
  [create |-> create, read |-> read, delete |-> delete]

-----------------------------------------------------------------------------
VolumeCreate == CreatesByTask("ignored")
VolumeRead == "clear"
(* Variant with a bug: the read after the task ignores what it finds. *)
VolumeDeleteBlind == AwaitedDelete("blind")
VolumeDelete == AwaitedDelete("gone")

NetworkCreate == CreatesByTask("ignored")
(* Variant of the handler: a missing network clears the id. *)
NetworkReadClears == "clear"
NetworkRead == "error"
NetworkDelete == AwaitedDelete("gone")

SubnetCreate == CreatesByTask("ignored")
(* Variant with a bug: a missing subnet is an error. *)
SubnetReadFails == "error"
SubnetRead == "clear"
SubnetDelete == AwaitedDelete("gone")

SnapshotCreate == CreatesByTask("ignored")
SnapshotRead == "error"
SnapshotDelete == AwaitedDelete("gone")

FloatingIPCreate == CreatesByTask("ignored")
FloatingIPRead == "clear"
FloatingIPDelete == AwaitedDelete("gone")

ReservedFixedIPCreate == CreatesByTask("ignored")
ReservedFixedIPRead == "clear"
ReservedFixedIPDelete == [AwaitedDelete("gone") EXCEPT !.missing = "done"]

RouterCreate == CreatesByTask("ignored")
RouterRead == "error"
RouterDelete == AwaitedDelete("gone")

InstanceCreate == CreatesByTask("ignored")
InstanceRead == "clear"
InstanceDelete == AwaitedDelete("gone")

InstanceV2Create == CreatesByTask("ignored")
InstanceV2Read == "clear"
InstanceV2Delete == InstanceDelete

BmInstanceCreate == CreatesByTask("ignored")
BmInstanceRead == "error"
BmInstanceDelete == AwaitedDelete("gone")

(* Variant with a bug: a call is made before SetId and its error returned. *)
SecurityGroupCreateLoses == [Creates("sync", "ignored") EXCEPT !.before = "lose"]
SecurityGroupCreate == Creates("sync", "ignored")
SecurityGroupRead == "clear"
SecurityGroupDelete == [DirectDelete EXCEPT !.missing = "done"]

ServerGroupCreate == [Creates("sync", "ignored") EXCEPT !.before = "undo"]
ServerGroupRead == "error"
ServerGroupDelete == DirectDelete

SecretCreate == CreatesByTask("ignored")
SecretRead == "error"
SecretDelete == AwaitedDelete("unreadable")

KeypairCreate == Creates("sync", "ignored")
KeypairRead == "clear"
KeypairDelete == DirectDelete

LoadBalancerCreate == Creates("disabled", "none")
LoadBalancerRead == "error"
LoadBalancerDelete == AwaitedDelete("blind")

LoadBalancerV2Create == CreatesByTask("ignored")
LoadBalancerV2Read == "error"
LoadBalancerV2Delete == LoadBalancerDelete

LBListenerCreate == CreatesByTask("ignored")
LBListenerRead == "error"
LBListenerDelete == AwaitedDelete("gone")

LBPoolCreate == CreatesByTask("ignored")
LBPoolRead == "error"
LBPoolDelete == [AwaitedDelete("gone") EXCEPT !.missing = "panic"]

LBMemberCreate == CreatesByTask("ignored")
LBMemberRead == "keep"
LBMemberDelete == [AwaitedDelete("gone") EXCEPT !.missing = "done"]

K8sV2Create == [CreatesByTask("ignored") EXCEPT !.afterFails = TRUE]
K8sV2Read == "clear"
K8sV2Delete == AwaitedDelete("gone")

FileShareCreate == CreatesByTask("returned")
FileShareRead == "clear"
FileShareDelete == AwaitedDelete("gone")

(* The id is the name of the cluster: nothing is looked up. *)
PostgresClusterCreate == Creates("task", "returned")
PostgresClusterRead == "clear"
PostgresClusterDelete == AwaitedDelete("gone")

LifecyclePolicyCreate == Creates("sync", "returned")
LifecyclePolicyRead == "error"
LifecyclePolicyDelete == DirectDelete

AIClusterCreate == CreatesByTask("ignored")
AIClusterRead == "clear"
AIClusterDelete == AwaitedDelete("gone")

DDoSProtectionCreate == [CreatesByTask("ignored") EXCEPT !.before = "undoThenKeep"]
DDoSProtectionRead == "error"
DDoSProtectionDelete == AwaitedDelete("unchecked")

InferenceDeploymentCreate == CreatesByTask("ignored")
InferenceDeploymentRead == "error"
InferenceDeploymentDelete == AwaitedDelete("unreadable")

InferenceSecretCreate == Creates("sync", "none")
InferenceSecretRead == "error"
InferenceSecretDelete == DirectDelete

RegistryCredentialCreate == Creates("sync", "none")
RegistryCredentialRead == "error"
RegistryCredentialDelete == DirectDelete

LaaSTopicCreate == Creates("sync", "ignored")
LaaSTopicRead == "error"
LaaSTopicDelete == DirectDelete

FaaSNamespaceCreate == CreatesByTask("ignored")
FaaSNamespaceRead == "clear"
FaaSNamespaceDelete == AwaitedDelete("gone")

FaaSFunctionCreate == CreatesByTask("ignored")
FaaSFunctionRead == "error"
FaaSFunctionDelete == AwaitedDelete("gone")

FaaSKeyCreate == Creates("sync", "ignored")
FaaSKeyRead == "clear"
FaaSKeyDelete == [DirectDelete EXCEPT !.missing = "done"]

GPUClusterCreate == CreatesByTask("returned")
GPUClusterRead == "error"
GPUClusterDelete == AwaitedDelete("gone")

GPUImageCreate == CreatesByTask("returned")
GPUImageRead == "error"
GPUImageDelete == UnawaitedDelete

StorageS3Create == Creates("sync", "returned")
StorageS3Read == "error"
StorageS3Delete == DirectDelete

StorageS3BucketCreate == Creates("sync", "returned")
StorageS3BucketRead == "error"
StorageS3BucketDelete == DirectDelete

StorageSFTPCreate == [Creates("sync", "returned") EXCEPT !.afterFails = TRUE, !.afterSkips = TRUE]
StorageSFTPRead == "error"
StorageSFTPDelete == DirectDelete

StorageSFTPKeyCreate == Creates("sync", "returned")
StorageSFTPKeyRead == "error"
StorageSFTPKeyDelete == DirectDelete

DNSZoneCreate == [Creates("sync", "returned") EXCEPT !.before = "lose"]
DNSZoneRead == "error"
DNSZoneDelete == DirectDelete

DNSZoneRecordCreate == Creates("sync", "returned")
DNSZoneRecordRead == "error"
DNSZoneRecordDelete == DirectDelete

DNSNetworkMappingCreate == Creates("sync", "returned")
DNSNetworkMappingRead == "clear"
DNSNetworkMappingDelete == [DirectDelete EXCEPT !.missing = "panic"]

CDNResourceCreate == Creates("sync", "ignored")
CDNResourceRead == "clear"
CDNResourceDelete == DirectDelete

CDNRuleCreate == Creates("sync", "ignored")
CDNRuleRead == "clear"
CDNRuleDelete == DirectDelete

CDNOriginGroupCreate == Creates("sync", "returned")
CDNOriginGroupRead == "clear"
CDNOriginGroupDelete == DirectDelete

CDNCertCreate == Creates("sync", "ignored")
CDNCertRead == "clear"
CDNCertDelete == DirectDelete

CDNCACertCreate == Creates("sync", "ignored")
CDNCACertRead == "clear"
CDNCACertDelete == DirectDelete

RuleTemplateCreate == Creates("sync", "ignored")
RuleTemplateRead == "clear"
RuleTemplateDelete == DirectDelete

CDNLogsUploaderConfigCreate == Creates("sync", "returned")
CDNLogsUploaderConfigRead == "clear"
CDNLogsUploaderConfigDelete == DirectDelete

CDNLogsUploaderPolicyCreate == Creates("sync", "returned")
CDNLogsUploaderPolicyRead == "clear"
CDNLogsUploaderPolicyDelete == DirectDelete

CDNLogsUploaderTargetCreate == Creates("sync", "returned")
CDNLogsUploaderTargetRead == "clear"
CDNLogsUploaderTargetDelete == DirectDelete

CDNAppliedPresetCreate == Creates("sync", "ignored")
CDNAppliedPresetRead == "clear"
CDNAppliedPresetDelete == DirectDelete

FastEdgeBinaryCreate == [Creates("sync", "none") EXCEPT !.before = "lose"]
FastEdgeBinaryRead == "clear"
FastEdgeBinaryDelete == ForgetfulDelete

FastEdgeAppCreate == Creates("sync", "none")
FastEdgeAppRead == "clear"
FastEdgeAppDelete == ForgetfulDelete

FastEdgeTemplateCreate == Creates("sync", "none")
FastEdgeTemplateRead == "clear"
FastEdgeTemplateDelete == DirectDelete

FastEdgeSecretCreate == Creates("sync", "none")
FastEdgeSecretRead == "clear"
FastEdgeSecretDelete == ForgetfulDelete

WaapAdvancedRuleCreate == Creates("sync", "returned")
WaapAdvancedRuleRead == "clear"
WaapAdvancedRuleDelete == DirectDelete

WaapApiPathCreate == [Creates("sync", "returned") EXCEPT !.afterSkips = TRUE]
WaapApiPathRead == "clear"
WaapApiPathDelete == DirectDelete

WaapCustomPageSetCreate == Creates("sync", "returned")
WaapCustomPageSetRead == "clear"
WaapCustomPageSetDelete == DirectDelete

CustomRulesCreate == Creates("sync", "returned")
CustomRulesRead == "clear"
CustomRulesDelete == DirectDelete

WaapFirewallRuleCreate == Creates("sync", "returned")
WaapFirewallRuleRead == "clear"
WaapFirewallRuleDelete == DirectDelete

SecurityInsightSilenceCreate == Creates("sync", "returned")
SecurityInsightSilenceRead == "clear"
SecurityInsightSilenceDelete == DirectDelete

-----------------------------------------------------------------------------
(* The types of provider.go's ResourcesMap that own a remote object. *)
ProviderTable ==
  [volume |-> Handlers(VolumeCreate, VolumeRead, VolumeDelete),
   network |-> Handlers(NetworkCreate, NetworkRead, NetworkDelete),
   subnet |-> Handlers(SubnetCreate, SubnetRead, SubnetDelete),
   snapshot |-> Handlers(SnapshotCreate, SnapshotRead, SnapshotDelete),
   floatingip |-> Handlers(FloatingIPCreate, FloatingIPRead, FloatingIPDelete),
   reservedfixedip |-> Handlers(ReservedFixedIPCreate, ReservedFixedIPRead, ReservedFixedIPDelete),
   router |-> Handlers(RouterCreate, RouterRead, RouterDelete),
   instance |-> Handlers(InstanceCreate, InstanceRead, InstanceDelete),
   instancev2 |-> Handlers(InstanceV2Create, InstanceV2Read, InstanceV2Delete),
   baremetal |-> Handlers(BmInstanceCreate, BmInstanceRead, BmInstanceDelete),
   securitygroup |-> Handlers(SecurityGroupCreate, SecurityGroupRead, SecurityGroupDelete),
   servergroup |-> Handlers(ServerGroupCreate, ServerGroupRead, ServerGroupDelete),
   secret |-> Handlers(SecretCreate, SecretRead, SecretDelete),
   keypair |-> Handlers(KeypairCreate, KeypairRead, KeypairDelete),
   loadbalancer |-> Handlers(LoadBalancerCreate, LoadBalancerRead, LoadBalancerDelete),
   loadbalancerv2 |-> Handlers(LoadBalancerV2Create, LoadBalancerV2Read, LoadBalancerV2Delete),
   lblistener |-> Handlers(LBListenerCreate, LBListenerRead, LBListenerDelete),
   lbpool |-> Handlers(LBPoolCreate, LBPoolRead, LBPoolDelete),
   lbmember |-> Handlers(LBMemberCreate, LBMemberRead, LBMemberDelete),
   k8sv2 |-> Handlers(K8sV2Create, K8sV2Read, K8sV2Delete),
   file_share |-> Handlers(FileShareCreate, FileShareRead, FileShareDelete),
   postgres_cluster |-> Handlers(PostgresClusterCreate, PostgresClusterRead, PostgresClusterDelete),
   lifecyclepolicy |-> Handlers(LifecyclePolicyCreate, LifecyclePolicyRead, LifecyclePolicyDelete),
   ai_cluster |-> Handlers(AIClusterCreate, AIClusterRead, AIClusterDelete),
   ddos_protection |-> Handlers(DDoSProtectionCreate, DDoSProtectionRead, DDoSProtectionDelete),
   inference_deployment |-> Handlers(InferenceDeploymentCreate, InferenceDeploymentRead, InferenceDeploymentDelete),
   inference_secret |-> Handlers(InferenceSecretCreate, InferenceSecretRead, InferenceSecretDelete),
   registry_credential |-> Handlers(RegistryCredentialCreate, RegistryCredentialRead, RegistryCredentialDelete),
   laas_topic |-> Handlers(LaaSTopicCreate, LaaSTopicRead, LaaSTopicDelete),
   faas_namespace |-> Handlers(FaaSNamespaceCreate, FaaSNamespaceRead, FaaSNamespaceDelete),
   faas_function |-> Handlers(FaaSFunctionCreate, FaaSFunctionRead, FaaSFunctionDelete),
   faas_key |-> Handlers(FaaSKeyCreate, FaaSKeyRead, FaaSKeyDelete),
   gpu_cluster |-> Handlers(GPUClusterCreate, GPUClusterRead, GPUClusterDelete),
   gpu_image |-> Handlers(GPUImageCreate, GPUImageRead, GPUImageDelete),
   storage_s3 |-> Handlers(StorageS3Create, StorageS3Read, StorageS3Delete),
   storage_s3_bucket |-> Handlers(StorageS3BucketCreate, StorageS3BucketRead, StorageS3BucketDelete),
   storage_sftp |-> Handlers(StorageSFTPCreate, StorageSFTPRead, StorageSFTPDelete),
   storage_sftp_key |-> Handlers(StorageSFTPKeyCreate, StorageSFTPKeyRead, StorageSFTPKeyDelete),
   dns_zone |-> Handlers(DNSZoneCreate, DNSZoneRead, DNSZoneDelete),
   dns_zone_record |-> Handlers(DNSZoneRecordCreate, DNSZoneRecordRead, DNSZoneRecordDelete),
   dns_network_mapping |-> Handlers(DNSNetworkMappingCreate, DNSNetworkMappingRead, DNSNetworkMappingDelete),
   cdn_resource |-> Handlers(CDNResourceCreate, CDNResourceRead, CDNResourceDelete),
   cdn_rule |-> Handlers(CDNRuleCreate, CDNRuleRead, CDNRuleDelete),
   cdn_origingroup |-> Handlers(CDNOriginGroupCreate, CDNOriginGroupRead, CDNOriginGroupDelete),
   cdn_sslcert |-> Handlers(CDNCertCreate, CDNCertRead, CDNCertDelete),
   cdn_cacert |-> Handlers(CDNCACertCreate, CDNCACertRead, CDNCACertDelete),
   cdn_rule_template |-> Handlers(RuleTemplateCreate, RuleTemplateRead, RuleTemplateDelete),
   cdn_logs_uploader_config |-> Handlers(CDNLogsUploaderConfigCreate, CDNLogsUploaderConfigRead, CDNLogsUploaderConfigDelete),
   cdn_logs_uploader_policy |-> Handlers(CDNLogsUploaderPolicyCreate, CDNLogsUploaderPolicyRead, CDNLogsUploaderPolicyDelete),
   cdn_logs_uploader_target |-> Handlers(CDNLogsUploaderTargetCreate, CDNLogsUploaderTargetRead, CDNLogsUploaderTargetDelete),
   cdn_applied_preset |-> Handlers(CDNAppliedPresetCreate, CDNAppliedPresetRead, CDNAppliedPresetDelete),
   fastedge_binary |-> Handlers(FastEdgeBinaryCreate, FastEdgeBinaryRead, FastEdgeBinaryDelete),
   fastedge_app |-> Handlers(FastEdgeAppCreate, FastEdgeAppRead, FastEdgeAppDelete),
   fastedge_template |-> Handlers(FastEdgeTemplateCreate, FastEdgeTemplateRead, FastEdgeTemplateDelete),
   fastedge_secret |-> Handlers(FastEdgeSecretCreate, FastEdgeSecretRead, FastEdgeSecretDelete),
   waap_advanced_rule |-> Handlers(WaapAdvancedRuleCreate, WaapAdvancedRuleRead, WaapAdvancedRuleDelete),
   waap_api_path |-> Handlers(WaapApiPathCreate, WaapApiPathRead, WaapApiPathDelete),
   waap_custom_page_set |-> Handlers(WaapCustomPageSetCreate, WaapCustomPageSetRead, WaapCustomPageSetDelete),
   waap_custom_rule |-> Handlers(CustomRulesCreate, CustomRulesRead, CustomRulesDelete),
   waap_firewall_rule |-> Handlers(WaapFirewallRuleCreate, WaapFirewallRuleRead, WaapFirewallRuleDelete),
   waap_insight_silence |-> Handlers(SecurityInsightSilenceCreate, SecurityInsightSilenceRead, SecurityInsightSilenceDelete)]

ProviderKinds == DOMAIN ProviderTable
=============================================================================
