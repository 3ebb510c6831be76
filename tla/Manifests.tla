----------------------------- MODULE Manifests -----------------------------
(***************************************************************************)
(* The manifests built into edgeadm (constant/manifests), as the sequence  *)
(* of the <<kind, name>> of their documents: the order in which kubeclient *)
(* creates and deletes them.  What the documents say is left out.  All are *)
(* templates: In(ns, manifest) is the manifest with {{.Namespace}}         *)
(* replaced by ns.  flannel and most of TopoLVM name their namespace       *)
(* literally, the one they are always rendered with.                       *)
(***************************************************************************)
EXTENDS Sequences

ClusterScoped ==
  { "Namespace", "ClusterRole", "ClusterRoleBinding", "PodSecurityPolicy", "CSIDriver",
    "StorageClass", "ValidatingWebhookConfiguration", "MutatingWebhookConfiguration",
    "CustomResourceDefinition" }

Document(ns, kind, name) ==
  [kind |-> kind, name |-> name, ns |-> IF kind \in ClusterScoped THEN "" ELSE ns]

\* ParseString, then the split at the "---" lines.
In(ns, manifest) ==
  [i \in DOMAIN manifest |-> Document(ns, manifest[i][1], manifest[i][2])]

\* What ParseString puts for a key its options do not have (text/template).
NoValue == "<no value>"

\* Edge applications, all in namespace edge-system.
ApplicationGridControllerYaml == <<
  <<"ServiceAccount", "application-grid-controller">>,
  <<"ClusterRole", "application-grid-controller">>,
  <<"ClusterRoleBinding", "application-grid-controller">>,
  <<"Deployment", "application-grid-controller">> >>
GridWrapperAccess == <<
  <<"ServiceAccount", "application-grid-wrapper">>,
  <<"ClusterRole", "application-grid-wrapper">>,
  <<"ClusterRoleBinding", "application-grid-wrapper">> >>
GridWrapperPods == <<
  <<"ConfigMap", "application-grid-wrapper">>,
  <<"DaemonSet", "application-grid-wrapper-node">> >>
ApplicationGridWrapperYaml == GridWrapperAccess \o GridWrapperPods
EdgeCorednsAccess == <<
  <<"ServiceAccount", "edge-coredns">>, <<"ClusterRole", "system:edge-coredns">>,
  <<"ClusterRoleBinding", "system:edge-coredns">> >>
EdgeCorednsPods == << <<"ConfigMap", "edge-coredns">>, <<"DaemonSet", "edge-coredns">> >>
EdgeCorednsYaml == EdgeCorednsAccess \o EdgeCorednsPods
EdgeHealthYaml == <<
  <<"ServiceAccount", "edge-health">>, <<"ClusterRole", "edge-health">>,
  <<"ClusterRoleBinding", "edge-health">>, <<"DaemonSet", "edge-health">>,
  <<"ConfigMap", "hmac-config">> >>
EdgeHealthAdmissionYaml == <<
  <<"ServiceAccount", "edge-health-admission">>, <<"ClusterRole", "edge-health-admission">>,
  <<"ClusterRoleBinding", "edge-health-admission">>,
  <<"Secret", "validate-admission-control-server-certs">>,
  <<"Deployment", "edge-health-admission">>, <<"Service", "edge-health-admission">> >>
EdgeHealthWebhookConfigYaml == <<
  <<"MutatingWebhookConfiguration", "edge-health-admission">> >>
SiteManagerAccess == <<
  <<"ServiceAccount", "site-manager-service-account">>,
  <<"ClusterRole", "site-manager-cluster-role">>,
  <<"ClusterRoleBinding", "site-manager-cluster-role-binding">> >>
SiteManagerPods == <<
  <<"Secret", "site-manager-cert">>, <<"Service", "site-manager">>,
  <<"Deployment", "site-manager">> >>
SiteManagerYaml == SiteManagerAccess \o SiteManagerPods
TunnelCloudConfig == <<
  <<"ClusterRole", "tunnel-cloud">>, <<"ClusterRoleBinding", "tunnel-cloud">>,
  <<"ServiceAccount", "tunnel-cloud">>, <<"ConfigMap", "tunnel-cloud-conf">>,
  <<"ConfigMap", "tunnel-cloud-token">>, <<"Secret", "tunnel-cloud-cert">>,
  <<"ConfigMap", "tunnel-nodes">>, <<"ConfigMap", "tunnel-cache">> >>
TunnelCloudPods == << <<"Service", "tunnel-cloud">>, <<"Deployment", "tunnel-cloud">> >>
TunnelCloudYaml == TunnelCloudConfig \o TunnelCloudPods
TunnelEdgeYaml == <<
  <<"ConfigMap", "tunnel-edge-conf">>, <<"Secret", "tunnel-edge-cert">>,
  <<"DaemonSet", "tunnel-edge">> >>
HelperJobRbacYaml == <<
  <<"ServiceAccount", "helper">>, <<"ClusterRoleBinding", "helper">> >>
\* one Job per node, named after it
HelperJobYaml(node) == << <<"Job", node>> >>

\* The network plugin, in kube-system.
FlannelAccess == <<
  <<"ClusterRole", "flannel">>, <<"ClusterRoleBinding", "flannel">>,
  <<"ServiceAccount", "flannel">> >>
FlannelPods == <<
  <<"ConfigMap", "kube-flannel-cfg">>, <<"DaemonSet", "kube-flannel-ds">> >>
KubeFlannelYaml == FlannelAccess \o FlannelPods

\* EdgeX Foundry, in namespace edgex.
EDGEX_CONFIGMAP_YAML == << <<"ConfigMap", "common-variables">> >>
EDGEX_APP_YAML == <<
  <<"Service", "edgex-app-service-configurable-rules">>,
  <<"Deployment", "edgex-app-service-configurable-rules">> >>
EdgexCoreServices == <<
  <<"Service", "edgex-core-command">>, <<"Service", "edgex-core-consul">>,
  <<"Service", "edgex-core-data">>, <<"Service", "edgex-redis">>,
  <<"Service", "edgex-core-metadata">> >>
EdgexCoreControl == <<
  <<"Deployment", "edgex-core-command">>, <<"Deployment", "edgex-core-consul">> >>
EdgexCoreStore == <<
  <<"Deployment", "edgex-core-data">>, <<"Deployment", "edgex-redis">>,
  <<"Deployment", "edgex-core-metadata">> >>
EDGEX_CORE_YAML == EdgexCoreServices \o EdgexCoreControl \o EdgexCoreStore
EDGEX_DEVICE_YAML == <<
  <<"Service", "edgex-device-rest">>, <<"Service", "edgex-device-virtual">>,
  <<"Deployment", "edgex-device-rest">>, <<"Deployment", "edgex-device-virtual">> >>
EdgexSupportServices == <<
  <<"Service", "edgex-support-notifications">>, <<"Service", "edgex-kuiper">>,
  <<"Service", "edgex-support-scheduler">> >>
EdgexSupportPods == <<
  <<"Deployment", "edgex-support-notifications">>, <<"Deployment", "edgex-kuiper">>,
  <<"Deployment", "edgex-support-scheduler">> >>
EDGEX_SUPPORT_YAML == EdgexSupportServices \o EdgexSupportPods
EDGEX_SYS_MGMT_YAML == <<
  <<"Service", "edgex-sys-mgmt-agent">>, <<"Deployment", "edgex-sys-mgmt-agent">> >>
EDGEX_UI_YAML == << <<"Service", "edgex-ui-go">>, <<"Deployment", "edgex-ui-go">> >>

\* TopoLVM, in namespace topolvm-system.
AppTopolvmCRDYaml == <<
  <<"CustomResourceDefinition", "logicalvolumes.topolvm.cybozu.com">> >>
AppTopolvmWebhookYaml == <<
  <<"MutatingWebhookConfiguration", "topolvm-hook">>,
  <<"Secret", "topolvm-mutatingwebhook">>, <<"CSIDriver", "topolvm.cybozu.com">>,
  <<"StorageClass", "topolvm-provisioner">> >>
TopolvmProvisioning == <<
  <<"ServiceAccount", "topolvm-controller">>,
  <<"ClusterRole", "topolvm-system:controller">>,
  <<"ClusterRoleBinding", "topolvm-system:controller">>,
  <<"ClusterRole", "topolvm-external-provisioner-runner">>,
  <<"ClusterRoleBinding", "topolvm-csi-provisioner-role">>,
  <<"Role", "external-resizer-cfg">>, <<"RoleBinding", "csi-resizer-role-cfg">> >>
TopolvmResizing == <<
  <<"ClusterRole", "topolvm-external-resizer-runner">>,
  <<"ClusterRoleBinding", "topolvm-csi-resizer-role">>, <<"Role", "leader-election">>,
  <<"RoleBinding", "leader-election">>, <<"Role", "external-provisioner-cfg">>,
  <<"RoleBinding", "csi-provisioner-role-cfg">> >>
TopolvmControllerPods == <<
  <<"Deployment", "topolvm-controller">>, <<"Service", "topolvm-controller">> >>
AppTopolvmControllerYaml == TopolvmProvisioning \o TopolvmResizing \o TopolvmControllerPods
TopolvmSchedulerAccess == <<
  <<"ServiceAccount", "topolvm-scheduler">>, <<"Role", "psp:topolvm-scheduler">>,
  <<"RoleBinding", "topolvm-scheduler:psp:topolvm-scheduler">>,
  <<"PodSecurityPolicy", "topolvm-scheduler">> >>
TopolvmSchedulerPods == <<
  <<"ConfigMap", "topolvm-scheduler-options">>, <<"DaemonSet", "topolvm-scheduler">> >>
AppTopolvmSchedulerYaml == TopolvmSchedulerAccess \o TopolvmSchedulerPods
AppTopolvmLvmdYaml == <<
  <<"PodSecurityPolicy", "topolvm-lvmd">>, <<"ServiceAccount", "topolvm-lvmd">>,
  <<"Role", "psp:topolvm-lvmd">>, <<"RoleBinding", "topolvm-lvmd:psp:topolvm-lvmd">>,
  <<"ConfigMap", "topolvm-lvmd">>, <<"DaemonSet", "topolvm-lvmd">> >>
TopolvmNodeAccess == <<
  <<"ServiceAccount", "topolvm-node">>, <<"ClusterRole", "topolvm-system:node">>,
  <<"ClusterRoleBinding", "topolvm-system:node">>, <<"PodSecurityPolicy", "topolvm-node">> >>
TopolvmNodePods == << <<"DaemonSet", "topolvm-node">> >>
AppTopolvmNodeYaml == TopolvmNodeAccess \o TopolvmNodePods
=============================================================================
