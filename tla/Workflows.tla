----------------------------- MODULE Workflows -----------------------------
(***************************************************************************)
(* What each command of edgeadm does to the cluster, call by call: a       *)
(* command is a sequence of stages, a stage applies or deletes manifests.  *)
(* ClusterCommands executes them.  The calls of UpdateKubeConfig and of its*)
(* counterparts, modelled one by one in KubeConfigSwitch, appear here as   *)
(* the objects they leave.                                                 *)
(***************************************************************************)
EXTENDS Manifests, SequencesExt

CONSTANT Node   \* the nodes change and revert start a helper job on

Call(op, doc) == [op |-> op, doc |-> doc]
Calls(op, docs) == [i \in DOMAIN docs |-> Call(op, docs[i])]

(***************************************************************************)
(* CreateResourceWithFile and DeleteResourceWithFile: one handler per kind.*)
(* Most handlers create and, what exists, update; a ServiceAccount that    *)
(* exists is kept; four kinds are deleted, if there, before they are       *)
(* created.  The Update is sent without the resource version of what       *)
(* exists: kinds that the API server never updates so, and Jobs, whose     *)
(* selector it generates and never changes, can only be created.           *)
(***************************************************************************)
ConfigKinds == {"ConfigMap", "Secret", "ServiceAccount"}
PodKinds == {"Deployment", "DaemonSet"}
AccessKinds == {"Role", "RoleBinding", "ClusterRole", "ClusterRoleBinding"}
HousingKinds == {"Namespace", "Endpoints", "Ingress"}
StorageAndJobs == {"CSIDriver", "StorageClass", "Job", "CronJob"}
WebhookKinds == {"MutatingWebhookConfiguration", "ValidatingWebhookConfiguration"}
\* whose Update is refused
OnceKinds == {"CSIDriver", "Job"} \cup WebhookKinds
\* deleted, if there, before they are created; of the latter two no error of the Delete is seen
ReplacedServices == {"Service", "StatefulSet"}
ReplacedPolicies == {"PodSecurityPolicy", "MutatingWebhookConfiguration"}

AppliedKinds ==
  ConfigKinds \cup PodKinds \cup AccessKinds \cup HousingKinds \cup StorageAndJobs
    \cup ReplacedServices \cup ReplacedPolicies \cup WebhookKinds
DeletedKinds ==
  AppliedKinds \ { "CronJob", "Ingress", "Endpoints", "Namespace", "StatefulSet",
                   "ValidatingWebhookConfiguration" }

WriteOf(kind) ==
  CASE kind \notin AppliedKinds -> "unsupported"
    [] kind = "ServiceAccount" -> "keep"
    [] kind \in OnceKinds -> "create"
    [] OTHER -> "put"
ApplyDoc(d) ==
  (IF d.kind \in ReplacedServices THEN << Call("clear", d) >>
   ELSE IF d.kind \in ReplacedPolicies THEN << Call("discard", d) >> ELSE <<>>)
    \o << Call(WriteOf(d.kind), d) >>
DeleteDoc(d) == Call(IF d.kind \in DeletedKinds THEN "delete" ELSE "unsupported", d)

Apply(ns, manifest) ==
  LET docs == In(ns, manifest) IN FlattenSeq([i \in DOMAIN docs |-> ApplyDoc(docs[i])])
Delete(ns, manifest) ==
  LET docs == In(ns, manifest) IN [i \in DOMAIN docs |-> DeleteDoc(docs[i])]

\* CreateOrDeleteResourceWithFile: without a dynamic client a namespaced document that
\* exists cannot be updated (the Put has no name); with it, and without, NotFound is no error
\* of a Delete.
Post(ns, manifest) == Calls("post", In(ns, manifest))
RemoveAny(ns, manifest) == Calls("remove", In(ns, manifest))

(***************************************************************************)
(* A stage: what one function runs, its parts in any order (most have one  *)
(* part), and what becomes of an error: it ends the command, it is thrown  *)
(* away with the rest of the stage, or the stage is tried again until a    *)
(* time is up and then counts as done.                                     *)
(***************************************************************************)
Stage(parts, onError) == [parts |-> parts, onError |-> onError]
Do(calls) == << Stage(<<calls>>, "return") >>
InAnyOrder(parts) == << Stage(parts, "return") >>
Anyway(calls) == << Stage(<<calls>>, "drop") >>
Polled(calls) == << Stage(<<calls>>, "poll") >>

Namespace(name) == Document("", "Namespace", name)
CreateNamespace(name) == Do(<< Call("put", Namespace(name)) >>)

----------------------------------------------------------------------------
(***************************************************************************)
(* addon and detach topolvm                                                *)
(***************************************************************************)
TopolvmSystem == "topolvm-system"

DeployTopolvmCRD == Do(Calls("put", In("", AppTopolvmCRDYaml)))
DeployTopolvmWebhook == Do(Apply(TopolvmSystem, AppTopolvmWebhookYaml))
DeployTopolvmController == Do(Apply(TopolvmSystem, AppTopolvmControllerYaml))
DeployTopolvmScheduler == Do(Apply(TopolvmSystem, AppTopolvmSchedulerYaml))
DeployTopolvmLvmd == Do(Apply(TopolvmSystem, AppTopolvmLvmdYaml))
DeployTopolvmNode == Do(Apply(TopolvmSystem, AppTopolvmNodeYaml))

RemoveTopolvmWebhook == Delete(TopolvmSystem, AppTopolvmWebhookYaml)
RemoveTopolvmController == Do(Delete(TopolvmSystem, AppTopolvmControllerYaml))
RemoveTopolvmScheduler == Do(Delete(TopolvmSystem, AppTopolvmSchedulerYaml))
RemoveTopolvmLvmd == Do(Delete(TopolvmSystem, AppTopolvmLvmdYaml))
RemoveTopolvmNode == Do(Delete(TopolvmSystem, AppTopolvmNodeYaml))

\* The labels of the namespaces, whose failure is only logged, are left out: NodeLabels.
DeployTopolvmAppS ==
  CreateNamespace(TopolvmSystem) \o DeployTopolvmCRD \o Anyway(RemoveTopolvmWebhook)
    \o DeployTopolvmWebhook \o DeployTopolvmController \o DeployTopolvmScheduler
    \o DeployTopolvmLvmd \o DeployTopolvmNode

RemoveTopolvmApps ==
  RemoveTopolvmNode \o RemoveTopolvmLvmd \o RemoveTopolvmScheduler
    \o RemoveTopolvmController \o Do(RemoveTopolvmWebhook)

(***************************************************************************)
(* addon and detach edgex: the levels asked for, in the order of the enum. *)
(***************************************************************************)
Edgex == "edgex"
Levels == <<"app", "core", "device", "support", "sysmgmt", "ui", "completely">>
EdgexYaml ==
  [ app |-> EDGEX_APP_YAML, core |-> EDGEX_CORE_YAML, device |-> EDGEX_DEVICE_YAML,
    support |-> EDGEX_SUPPORT_YAML, sysmgmt |-> EDGEX_SYS_MGMT_YAML, ui |-> EDGEX_UI_YAML,
    completely |-> EDGEX_CONFIGMAP_YAML ]

\* What users may have edited is created only where it is missing.
EnsureVariables == Do(Calls("retain", In(Edgex, EDGEX_CONFIGMAP_YAML)))
Chosen(levels) == SelectSeq(Levels, LAMBDA l : l \in levels)

DeployEdgex(levels) ==
  LET chosen == Chosen(levels) IN
  CreateNamespace(Edgex) \o EnsureVariables
    \o FlattenSeq([i \in DOMAIN chosen |-> Do(Apply(Edgex, EdgexYaml[chosen[i]]))])
DeleteEdgex(levels) ==
  LET chosen == Chosen(levels) IN
  EnsureVariables
    \o FlattenSeq([i \in DOMAIN chosen |-> Do(Delete(Edgex, EdgexYaml[chosen[i]]))])

----------------------------------------------------------------------------
(***************************************************************************)
(* addon and detach edge-apps                                              *)
(***************************************************************************)
EdgeSystem == "edge-system"
KubeSystem == "kube-system"
KubePublic == "kube-public"

\* Most of it exists in a cluster kubeadm made; the names are kubeadm's.
EnsureBootstrapTokenRBAC ==
  Do(Calls("put", In("", << <<"ClusterRole", "kubeadm:get-nodes">>,
       <<"ClusterRoleBinding", "kubeadm:get-nodes">>,
       <<"ClusterRoleBinding", "kubeadm:kubelet-bootstrap">>,
       <<"ClusterRoleBinding", "kubeadm:node-autoapprove-bootstrap">>,
       <<"ClusterRoleBinding", "kubeadm:node-autoapprove-certificate-rotation">> >>)))
CreateBootstrapConfigMap == Do(Calls("put", In(KubePublic, << <<"ConfigMap", "cluster-info">> >>)))
CreateClusterInfoRBACRules ==
  Do(Calls("put", In(KubePublic, << <<"Role", "kubeadm:bootstrap-signer-clusterinfo">>,
       <<"RoleBinding", "kubeadm:bootstrap-signer-clusterinfo">> >>)))
EnsureKubeadmConfigConfigMap ==
  Anyway(Calls("retain", In(KubeSystem, << <<"ConfigMap", "kubeadm-config">> >>)))
EnsureKubeletConfigMap ==
  Do(Calls("retain", In(KubeSystem, << <<"ConfigMap", "kubelet-config">> >>))
     \o Calls("put", In(KubeSystem, << <<"Role", "kubeadm:kubelet-config">>,
                                      <<"RoleBinding", "kubeadm:kubelet-config">> >>)))
EnsureKubeadmRBAC ==
  Do(Calls("put", In(KubeSystem, << <<"Role", "kubeadm:nodes-kubeadm-config">>,
       <<"RoleBinding", "kubeadm:nodes-kubeadm-config">>,
       <<"ClusterRole", "kubeadm:get-nodes">>, <<"ClusterRoleBinding", "kubeadm:get-nodes">>,
       <<"ClusterRole", "system:node-bootstrapper">>,
       <<"ClusterRoleBinding", "kubeadm:kubelet-bootstrap">> >>)))

DeployEdgePreflight ==
  CreateNamespace(KubePublic) \o EnsureBootstrapTokenRBAC \o CreateBootstrapConfigMap
    \o CreateClusterInfoRBACRules \o EnsureKubeadmConfigConfigMap \o EnsureKubeletConfigMap
    \o EnsureKubeadmRBAC

TunnelCloudService == Document(EdgeSystem, "Service", "tunnel-cloud")

DeployTunnelCloud == Do(Apply(EdgeSystem, TunnelCloudYaml))
GetTunnelCloudPort == Do(<< Call("await", TunnelCloudService) >>)
DeployTunnelEdge == Polled(Post(EdgeSystem, TunnelEdgeYaml))
DeployTunnelAddon == DeployTunnelCloud \o GetTunnelCloudPort \o DeployTunnelEdge

\* The manifests are in a Go map: they come in any order.
DeployEdgeHealth ==
  InAnyOrder(<< Apply(EdgeSystem, EdgeHealthYaml), Apply(EdgeSystem, EdgeHealthAdmissionYaml),
                Apply(EdgeSystem, EdgeHealthWebhookConfigYaml) >>)
DeployServiceGroup ==
  Do(Apply(EdgeSystem, ApplicationGridWrapperYaml))
    \o Do(Apply(EdgeSystem, ApplicationGridControllerYaml))
DeployEdgeCorednsAddon ==
  CreateNamespace(EdgeSystem) \o Do(Post(EdgeSystem, EdgeCorednsYaml))

EdgeKubeProxy ==
  In(EdgeSystem, << <<"ConfigMap", "edge-kube-proxy">>, <<"ServiceAccount", "kube-proxy">>,
                    <<"DaemonSet", "edge-kube-proxy">> >>)
\* what kube-proxy keeps off the edge nodes with, and the edge annotations of "kubernetes"
Affinity == Document(KubeSystem, "Affinity", "kube-proxy")
Annotations == Document("default", "Annotations", "kubernetes")
Backup == Document("default", "Endpoints", "kubernetes-no-edge")
LiteApiServerAccess ==
  In(EdgeSystem, << <<"Role", "lite-apiserver">>, <<"RoleBinding", "lite-apiserver">> >>)
EdgeInfo == Document(EdgeSystem, "ConfigMap", "edge-info")

UpdateKubeConfig ==
  Do(Calls("create", EdgeKubeProxy)
     \o << Call("put", Affinity), Call("create", Backup), Call("put", Annotations) >>)
JoinNodePrepare ==
  CreateNamespace(EdgeSystem)
    \o Do(Calls("create", LiteApiServerAccess) \o << Call("put", EdgeInfo) >>)

DeployEdgeAPPS ==
  CreateNamespace(EdgeSystem) \o DeployEdgePreflight \o DeployTunnelAddon \o DeployEdgeHealth
    \o DeployServiceGroup \o DeployEdgeCorednsAddon \o UpdateKubeConfig \o JoinNodePrepare

EdgeNodes == Document("", "Node", "edge")
CheckIfEdgeAppDeletable == Do(<< Call("gate", EdgeNodes) >>)
DeleteTunnelAddon ==
  GetTunnelCloudPort \o Do(Delete(EdgeSystem, TunnelEdgeYaml))
    \o Do(Delete(EdgeSystem, TunnelCloudYaml))
DeleteEdgeHealth ==
  InAnyOrder(<< Delete(EdgeSystem, EdgeHealthYaml), Delete(EdgeSystem, EdgeHealthAdmissionYaml),
                Delete(EdgeSystem, EdgeHealthWebhookConfigYaml) >>)
DeleteSiteManager ==
  CreateNamespace(EdgeSystem) \o Polled(RemoveAny(EdgeSystem, SiteManagerYaml))
\* The options are nil: {{.Namespace}} becomes <no value>.  An error of a Delete ends the
\* manifest, and what is returned is the err of an outer scope, nil.  That of the discovery
\* in front of the Deletes is returned.
Discovery == Document("", "APIGroup", "all")
DeleteServiceGroup ==
  Do(<< Call("read", Discovery) >>)
    \o Anyway(RemoveAny(NoValue, ApplicationGridWrapperYaml))
    \o Do(<< Call("read", Discovery) >>)
    \o Anyway(RemoveAny(NoValue, ApplicationGridControllerYaml))
DeleteEdgeCoredns ==
  CreateNamespace(EdgeSystem) \o Polled(RemoveAny(EdgeSystem, EdgeCorednsYaml))
RecoverKubeConfig ==
  Do(<< Call("delete", EdgeKubeProxy[3]), Call("delete", EdgeKubeProxy[1]),
        Call("delete", EdgeKubeProxy[2]), Call("delete", Affinity), Call("await", Backup),
        Call("remove", Annotations), Call("delete", Backup) >>)
DeleteLiteApiServerCert ==
  Do(Calls("delete", LiteApiServerAccess)) \o Anyway(<< Call("remove", EdgeInfo) >>)

DeleteEdgeAPPS ==
  CheckIfEdgeAppDeletable \o DeleteTunnelAddon \o DeleteEdgeHealth \o DeleteSiteManager
    \o DeleteServiceGroup \o DeleteEdgeCoredns \o RecoverKubeConfig \o DeleteLiteApiServerCert

----------------------------------------------------------------------------
(***************************************************************************)
(* init: the phases behind kubeadm's that fill the cluster.  What they do  *)
(* to cluster-info and to the labels of the master is in InitJoin.         *)
(***************************************************************************)
EnsureFlannelAddon == Do(Apply(KubeSystem, KubeFlannelYaml))
EnsureServiceGroupAddon == CreateNamespace(EdgeSystem) \o DeployServiceGroup
EnsureTunnelAddon == CreateNamespace(EdgeSystem) \o DeployTunnelAddon
EnsureEdgeHealthAddon == CreateNamespace(EdgeSystem) \o DeployEdgeHealth
DeploySiteManager == CreateNamespace(EdgeSystem) \o Do(Post(EdgeSystem, SiteManagerYaml))
EnsureSiteManagerAddon == CreateNamespace(EdgeSystem) \o DeploySiteManager
EnsureEdgeCorednsAddon == DeployEdgeCorednsAddon
EnsureNodePrepare == CreateNamespace(EdgeSystem) \o JoinNodePrepare
EnsureEdgeKubeConfig == UpdateKubeConfig

RunInit ==
  EnsureFlannelAddon \o EnsureServiceGroupAddon \o EnsureTunnelAddon \o EnsureEdgeHealthAddon
    \o EnsureSiteManagerAddon \o EnsureEdgeCorednsAddon \o EnsureNodePrepare
    \o EnsureEdgeKubeConfig

----------------------------------------------------------------------------
(***************************************************************************)
(* change and revert                                                       *)
(***************************************************************************)
Nodes == SetToSeq(Node)

ClearJob ==
  FlattenSeq([i \in DOMAIN Nodes |-> Anyway(RemoveAny(EdgeSystem, HelperJobYaml(Nodes[i])))])
\* The Delete of the Jobs' access gets options its template cannot use: it never happens.
HelperJobAccess == Do(Apply(EdgeSystem, HelperJobRbacYaml))
StartHelpers ==
  FlattenSeq([i \in DOMAIN Nodes |-> Anyway(Delete(EdgeSystem, HelperJobYaml(Nodes[i])))
                                       \o Do(Apply(EdgeSystem, HelperJobYaml(Nodes[i])))])

\* The loop that waits for the Service has no end but the Service.
WaitTunnelCloudReady == << Stage(<< << Call("await", TunnelCloudService) >> >>, "retry") >>

ChangeTunnelCloud ==
  Anyway(<< Call("remove", Document(KubeSystem, "Deployment", "tunnel-cloud")) >>)
    \o DeployTunnelCloud
ChangeTunnelEdge == Do(Apply(EdgeSystem, TunnelEdgeYaml))
CreateLiteApiServerCert == Do(<< Call("put", EdgeInfo) >>)
StartNodeHelpers == ClearJob \o HelperJobAccess \o StartHelpers

\* DeployServiceGroup is called without a configuration and reads a field of it: change
\* ends there in a panic, and what follows is never reached.
ServiceGroupResource == Do(<< Call("panic", EdgeInfo) >>)
RunKubeadmChange ==
  CreateNamespace(EdgeSystem) \o ChangeTunnelCloud \o WaitTunnelCloudReady
    \o ChangeTunnelEdge \o CreateLiteApiServerCert \o StartNodeHelpers
    \o InAnyOrder(<< Apply(EdgeSystem, EdgeHealthAdmissionYaml),
                     Apply(EdgeSystem, EdgeHealthWebhookConfigYaml) >>)
    \o ServiceGroupResource

RevertTunnelEdge == Do(Delete(EdgeSystem, TunnelEdgeYaml))
RevertManifests ==
  << EdgeHealthAdmissionYaml, EdgeHealthWebhookConfigYaml, ApplicationGridWrapperYaml,
     ApplicationGridControllerYaml, SiteManagerYaml >>
RevertEdgeHealth == Do(Delete(EdgeSystem, EdgeHealthYaml))
RevertKubernetesEndpoint == Do(<< Call("remove", Annotations) >>)
RevertKubeProxy ==
  Do(<< Call("delete", EdgeKubeProxy[3]), Call("delete", EdgeKubeProxy[1]),
        Call("delete", EdgeKubeProxy[2]), Call("delete", Affinity) >>)
RevertTunnelCloud == Do(Delete(EdgeSystem, TunnelCloudYaml))
RevertLiteApiServerCert == Do(<< Call("delete", EdgeInfo) >>)
DeleteEdgeSystemNamespace == Do(<< Call("delete", Namespace(EdgeSystem)) >>)

\* The labels of the nodes are left to NodeLabels, the helper of the masters is one more
\* Job; with the namespace goes everything in it.
RunKubeadmRevert ==
  ClearJob \o StartHelpers \o RevertTunnelEdge
    \o InAnyOrder([i \in DOMAIN RevertManifests |-> Delete(EdgeSystem, RevertManifests[i])])
    \o RevertEdgeHealth \o RevertKubernetesEndpoint \o RevertKubeProxy \o RevertTunnelCloud
    \o RevertLiteApiServerCert \o DeleteEdgeSystemNamespace
=============================================================================
