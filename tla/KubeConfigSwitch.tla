-------------------------- MODULE KubeConfigSwitch --------------------------
(***************************************************************************)
(* The part of "edgeadm addon edge-apps" and "edgeadm detach edge-apps"    *)
(* that rewires a running cluster: UpdateKubeConfig and JoinNodePrepare on *)
(* the way in, CheckIfEdgeAppDeletable, RecoverKubeConfig and              *)
(* DeleteLiteApiServerCert on the way out.  One action per API call, in the*)
(* order of the source; the command stops at the first error.              *)
(*                                                                         *)
(* Around the commands: nodes that join as edge nodes, an API server that  *)
(* maintains the "kubernetes" Endpoints by itself, and faults (a call that *)
(* fails, an operator who interrupts edgeadm, a reply that is lost after   *)
(* the call was applied).                                                  *)
(***************************************************************************)
EXTENDS KubeAPI, Naturals

CONSTANTS
  Node,            \* machines that may join as edge nodes
  Commands,        \* the commands operators run: subset of {"addon", "detach"}
  Concurrent,      \* those of them that operators run at the same time
  FaultyCommands,  \* the commands that faults hit
  MaxRuns,         \* bound: commands started
  MaxFaults,       \* bound: calls that fail for a reason outside the model
  MaxWrites        \* bound: writes of the API server's own controllers

ASSUME CommandsAssumption == Commands \subseteq {"addon", "detach"}
ASSUME BoundsAssumption == MaxRuns \in Nat /\ MaxFaults \in Nat /\ MaxWrites \in Nat

VARIABLES
  node,     \* per node: "plain", "joining" (past the read of edge-info) or "edge"
  runs, faults, writes    \* what the bounds have used up

boundVars == <<runs, faults, writes>>
vars == <<api, copy, pc, run, node, runs, faults, writes>>

(***************************************************************************)
(* The objects the two commands write.  kube-proxy in kube-system is named *)
(* by its node affinity on the edge label, and so is its edge copy:        *)
(*   "none"    schedules on every node                                     *)
(*   "noedge"  the label does not exist                                    *)
(*   "edge"    the label exists                                            *)
(* "kubernetes" Endpoints, its backup and its slice are named by their     *)
(* annotations: the original ones, those of the edge, or none.             *)
(***************************************************************************)
Affinity == {"none", "noedge", "edge"}
Annotations == {"original", "edge", "blank"}
Flags == {"edgeCM", "edgeSA", "role", "roleBinding", "edgeInfo"}
Objects == {"kubeProxy", "edgeProxy", "kubernetes", "backup", "slice"} \cup Flags

NativeCluster ==
  [o \in Objects |-> IF o = "kubeProxy" THEN "none"
                     ELSE IF o \in {"kubernetes", "slice"} THEN "original" ELSE Absent]

UpdateSteps == {"createCM", "createSA", "getDS", "createDS", "patchProxy", "patchEdge",
                "getEndpoint", "backupEndpoint", "updateEndpoint", "getSlice", "updateSlice"}
PrepareSteps == {"createRole", "createRoleBinding", "getEdgeInfo", "putEdgeInfo"}
AddonSteps == UpdateSteps \cup PrepareSteps

RecoverSteps == {"deleteDS", "deleteCM", "deleteSA", "recoverProxy",
                 "getBackup", "deleteEndpoint", "createEndpoint", "deleteBackup"}
CertSteps == {"deleteRole", "deleteRoleBinding", "deleteEdgeInfo"}
DetachSteps == {"checkNodes"} \cup RecoverSteps \cup CertSteps

Contents == Affinity \cup Annotations \cup {"present", Absent}
Steps == AddonSteps \cup DetachSteps \cup {Idle}
Copies == [object : Objects \cup {"none"}, content : Contents, current : BOOLEAN]
Runs == [command : {"none", "addon", "detach"},
         outcome : {"none", "running", "ok", "error", "refused"}]

ApiOK == api \in [Objects -> Contents] /\ api["kubeProxy"] \in Affinity
ClientOK ==
  /\ copy \in [Clients -> Copies]
  /\ pc \in [Clients -> Steps]
  /\ run \in [Clients -> Runs]
NodeOK == node \in [Node -> {"plain", "joining", "edge"}]
BoundsOK == runs \in 0..MaxRuns /\ faults \in 0..MaxFaults /\ writes \in 0..MaxWrites

\* The state is well typed; kube-proxy itself always exists, whatever a command creates,
\* patches and deletes around it (UpdateKubeProxyKubeconfig, RecoverKubeProxyKubeconfig).
TypeOK == ApiOK /\ ClientOK /\ NodeOK /\ BoundsOK

Init ==
  /\ api = NativeCluster
  /\ copy = [c \in Clients |-> NoCopy]
  /\ pc = [c \in Clients |-> Idle]
  /\ run = [c \in Clients |-> NoRun]
  /\ node = [n \in Node |-> "plain"]
  /\ runs = 0 /\ faults = 0 /\ writes = 0

At(c, step) == pc[c] = step /\ UNCHANGED <<node, boundVars>>

(***************************************************************************)
(* What some of the actions below would be with a bug one could well write.*)
(* No behaviour of Spec uses them: each shows that a property notices.     *)
(***************************************************************************)
\* create-or-update instead of Create, as kubeclient does for other objects
ApplyEdgeCM(c) == At(c, "createCM") /\ Write("edgeCM", "present") /\ Continue(c, "createSA")
OverwriteBackup(c) ==
  /\ At(c, "backupEndpoint")
  /\ Write("backup", copy[c].content) /\ Continue(c, "updateEndpoint")
\* the edge DaemonSet from a manifest that already keeps off the edge nodes
CreateEdgeProxyApart(c) == At(c, "createDS") /\ Create(c, "edgeProxy", "noedge", "patchProxy")
\* the Conflict of an Update thrown away
UpdateEndpointAnyway(c) ==
  /\ At(c, "updateEndpoint")
  /\ \/ Update(c, "edge", "getSlice")
     \/ ~copy[c].current /\ Continue(c, "getSlice") /\ UNCHANGED <<api, copy>>
\* kube-proxy deleted in the namespace it was copied from
DeleteProxyInKubeSystem(c) == At(c, "deleteDS") /\ Delete(c, "kubeProxy", "deleteCM")
\* AlreadyExists taken for success
CreateEndpointIfNone(c) ==
  /\ At(c, "createEndpoint")
  /\ \/ Create(c, "kubernetes", copy[c].content, "deleteBackup")
     \/ api["kubernetes"] # Absent /\ Continue(c, "deleteBackup") /\ UNCHANGED <<api, copy>>

----------------------------------------------------------------------------
(***************************************************************************)
(* UpdateKubeConfig: UpdateKubeProxyKubeconfig, UpdateKubernetesEndpoint,  *)
(* UpdateKubernetesEndpointSlice.  The Gets of the kube-proxy ConfigMap and*)
(* ServiceAccount, which every cluster has and nobody changes, are one step*)
(* with the Create that follows them.                                      *)
(***************************************************************************)
CreateEdgeCM(c) == At(c, "createCM") /\ Create(c, "edgeCM", "present", "createSA")
CreateEdgeSA(c) == At(c, "createSA") /\ Create(c, "edgeSA", "present", "getDS")

GetKubeProxy(c) == At(c, "getDS") /\ Get(c, "kubeProxy", "createDS")

\* The edge DaemonSet starts as a copy of kube-proxy, affinity included.
CreateEdgeProxy(c) ==
  At(c, "createDS") /\ Create(c, "edgeProxy", copy[c].content, "patchProxy")

\* PatchKubeProxy: first the original off the edge nodes, then the copy onto them.
PatchProxy(c) == At(c, "patchProxy") /\ Patch(c, "kubeProxy", TRUE, "noedge", "patchEdge")
PatchEdgeProxy(c) ==
  At(c, "patchEdge") /\ Patch(c, "edgeProxy", api["edgeProxy"] # Absent, "edge", "getEndpoint")

GetEndpoint(c) == At(c, "getEndpoint") /\ Get(c, "kubernetes", "backupEndpoint")
BackupEndpoint(c) ==
  At(c, "backupEndpoint") /\ Create(c, "backup", copy[c].content, "updateEndpoint")
UpdateEndpoint(c) == At(c, "updateEndpoint") /\ Update(c, "edge", "getSlice")

GetSlice(c) == At(c, "getSlice") /\ Get(c, "slice", "updateSlice")
UpdateSlice(c) == At(c, "updateSlice") /\ Update(c, "edge", "createRole")

(***************************************************************************)
(* JoinNodePrepare: what a joining edge node reads.  Any error of the Get  *)
(* of edge-info is taken for "not there".                                  *)
(***************************************************************************)
CreateRole(c) == At(c, "createRole") /\ Create(c, "role", "present", "createRoleBinding")
CreateRoleBinding(c) ==
  At(c, "createRoleBinding") /\ Create(c, "roleBinding", "present", "getEdgeInfo")
GetEdgeInfo(c) == At(c, "getEdgeInfo") /\ Read(c, "edgeInfo", "putEdgeInfo")
PutEdgeInfo(c) ==
  /\ At(c, "putEdgeInfo")
  /\ \/ copy[c].content = Absent /\ Create(c, "edgeInfo", "present", Idle)
     \/ copy[c].content # Absent /\ Update(c, "present", Idle)

----------------------------------------------------------------------------
(***************************************************************************)
(* DeleteEdgeAPPS.  The gate: no edge node may be left, else the command   *)
(* only logs and returns nil.                                              *)
(***************************************************************************)
EdgeNodes == {n \in Node : node[n] = "edge"}

CheckIfEdgeAppDeletable(c) ==
  /\ At(c, "checkNodes")
  /\ \/ EdgeNodes = {} /\ Continue(c, "deleteDS") /\ UNCHANGED <<api, copy>>
     \/ EdgeNodes # {} /\ Return(c, "refused")

\* RecoverKubeProxyKubeconfig
DeleteEdgeProxy(c) == At(c, "deleteDS") /\ Delete(c, "edgeProxy", "deleteCM")
DeleteEdgeCM(c) == At(c, "deleteCM") /\ Delete(c, "edgeCM", "deleteSA")
DeleteEdgeSA(c) == At(c, "deleteSA") /\ Delete(c, "edgeSA", "recoverProxy")
\* RecoverKubeProxy: a JSON patch that removes the affinity, which must be there.
RecoverProxy(c) ==
  At(c, "recoverProxy") /\ Patch(c, "kubeProxy", api["kubeProxy"] # "none", "none", "getBackup")

\* RecoverKubernetesEndpoint
GetBackup(c) == At(c, "getBackup") /\ Get(c, "backup", "deleteEndpoint")
DeleteEndpoint(c) == At(c, "deleteEndpoint") /\ Delete(c, "kubernetes", "createEndpoint")
CreateEndpoint(c) ==
  At(c, "createEndpoint") /\ Create(c, "kubernetes", copy[c].content, "deleteBackup")
DeleteBackup(c) == At(c, "deleteBackup") /\ Delete(c, "backup", "deleteRole")

\* DeleteLiteApiServerCert
DeleteRole(c) == At(c, "deleteRole") /\ Delete(c, "role", "deleteRoleBinding")
DeleteRoleBinding(c) ==
  At(c, "deleteRoleBinding") /\ Delete(c, "roleBinding", "deleteEdgeInfo")
DeleteEdgeInfo(c) == At(c, "deleteEdgeInfo") /\ DeleteIfAny(c, "edgeInfo", Idle)

----------------------------------------------------------------------------
\* DeployEdgeAPPS once the edge apps run, DeleteEdgeAPPS from its first line.  Nothing in the
\* code keeps operators from running two commands at once: Concurrent is what they do.
Start(c, command) ==
  /\ command \in Commands /\ runs < MaxRuns
  /\ \A d \in Clients \ {c} : pc[d] = Idle \/ {command, run[d].command} \subseteq Concurrent
  /\ Begin(c, command, IF command = "addon" THEN "createCM" ELSE "checkNodes")
  /\ runs' = runs + 1
  /\ UNCHANGED <<node, faults, writes>>

UseFault(c) ==
  /\ run[c].command \in FaultyCommands
  /\ faults < MaxFaults /\ faults' = faults + 1
  /\ UNCHANGED <<node, runs, writes>>

\* The next call fails, or edgeadm is killed before it (or, when the call before
\* was the one that went wrong, after it was applied): the command is over.
Abort(c) == pc[c] \notin {Idle, "checkNodes", "deleteEdgeInfo"} /\ UseFault(c) /\ Fail(c)

\* An error of the List in the gate is read as "nodes are left".
ListFails(c) == pc[c] = "checkNodes" /\ UseFault(c) /\ Return(c, "refused")

\* An error of the Delete of edge-info is thrown away: the command succeeds.
DeleteEdgeInfoFails(c) == pc[c] = "deleteEdgeInfo" /\ UseFault(c) /\ Return(c, "ok")

\* The API server's endpoint controller puts back "kubernetes" when it is gone,
\* without annotations; otherwise it (or any controller) rewrites it or the slice
\* and leaves the annotations alone.
ControllerWrites(o) ==
  /\ writes < MaxWrites /\ writes' = writes + 1
  /\ o \in {"kubernetes", "slice"}
  /\ Write(o, IF api[o] = Absent THEN "blank" ELSE api[o])
  /\ UNCHANGED <<pc, run, node, runs, faults>>

\* edgeadm join of a worker: reads edge-info first, labels the node at the very end.
JoinReadsEdgeInfo(n) ==
  /\ node[n] = "plain" /\ api["edgeInfo"] # Absent
  /\ node' = [node EXCEPT ![n] = "joining"]
  /\ UNCHANGED <<apiVars, boundVars>>

JoinLabelsNode(n) ==
  /\ node[n] = "joining"
  /\ node' = [node EXCEPT ![n] = "edge"]
  /\ UNCHANGED <<apiVars, boundVars>>

\* A join that fails, or kubectl delete node.
NodeLeaves(n) ==
  /\ node[n] # "plain"
  /\ node' = [node EXCEPT ![n] = "plain"]
  /\ UNCHANGED <<apiVars, boundVars>>

UpdateKubeConfig(c) ==
  \/ CreateEdgeCM(c) \/ CreateEdgeSA(c) \/ GetKubeProxy(c) \/ CreateEdgeProxy(c)
  \/ PatchProxy(c) \/ PatchEdgeProxy(c)
  \/ GetEndpoint(c) \/ BackupEndpoint(c) \/ UpdateEndpoint(c)
  \/ GetSlice(c) \/ UpdateSlice(c)

JoinNodePrepare(c) ==
  CreateRole(c) \/ CreateRoleBinding(c) \/ GetEdgeInfo(c) \/ PutEdgeInfo(c)

RecoverKubeConfig(c) ==
  \/ DeleteEdgeProxy(c) \/ DeleteEdgeCM(c) \/ DeleteEdgeSA(c) \/ RecoverProxy(c)
  \/ GetBackup(c) \/ DeleteEndpoint(c) \/ CreateEndpoint(c) \/ DeleteBackup(c)

DeleteLiteApiServerCert(c) == DeleteRole(c) \/ DeleteRoleBinding(c) \/ DeleteEdgeInfo(c)

Command(c) ==
  \/ UpdateKubeConfig(c) \/ JoinNodePrepare(c)
  \/ CheckIfEdgeAppDeletable(c) \/ RecoverKubeConfig(c) \/ DeleteLiteApiServerCert(c)

Fault(c) == Abort(c) \/ ListFails(c) \/ DeleteEdgeInfoFails(c)

Next ==
  \/ \E c \in Clients : Command(c) \/ Fault(c) \/ \E command \in Commands : Start(c, command)
  \/ \E o \in {"kubernetes", "slice"} : ControllerWrites(o)
  \/ \E n \in Node : JoinReadsEdgeInfo(n) \/ JoinLabelsNode(n) \/ NodeLeaves(n)

Spec == Init /\ [][Next]_vars

----------------------------------------------------------------------------
\* The original annotations of the "kubernetes" Endpoints are never lost: they are
\* on the Endpoints or in kubernetes-no-edge, and the backup holds nothing else,
\* whatever call of addon or detach failed or was interrupted before
\* (UpdateKubernetesEndpoint, RecoverKubernetesEndpoint).
OriginalKept ==
  /\ api["backup"] \in {Absent, "original"}
  /\ "original" \in {api["kubernetes"], api["backup"]}

\* Once UpdateKubeConfig has returned nil the cluster is wired for edge nodes: the
\* original kube-proxy keeps off them, the copy keeps to them with its own
\* ConfigMap and ServiceAccount, Endpoints and slice carry the edge annotations and
\* the original is backed up.  Whatever half-finished runs went before.
EdgeWired ==
  /\ api["kubeProxy"] = "noedge" /\ api["edgeProxy"] = "edge"
  /\ api["edgeCM"] = "present" /\ api["edgeSA"] = "present"
  /\ api["kubernetes"] = "edge" /\ api["slice"] = "edge" /\ api["backup"] = "original"
UpdateCompletes == \A c \in Clients : pc[c] \in PrepareSteps => EdgeWired

\* Once RecoverKubeConfig has returned nil, kube-proxy and the Endpoints are back as
\* they were and nothing of the edge is left beside them (the slice: see
\* DetachRestoresSlice).
ProxyRestored ==
  /\ api["kubeProxy"] = "none" /\ api["edgeProxy"] = Absent
  /\ api["edgeCM"] = Absent /\ api["edgeSA"] = Absent
  /\ api["kubernetes"] = "original" /\ api["backup"] = Absent
RecoverCompletes == \A c \in Clients : pc[c] \in CertSteps => ProxyRestored

\* Some kube-proxy DaemonSet schedules on node n.
Selects(affinity, n) ==
  \/ affinity = "none"
  \/ affinity = "noedge" /\ node[n] # "edge"
  \/ affinity = "edge" /\ node[n] = "edge"
Served(n) == Selects(api["kubeProxy"], n) \/ Selects(api["edgeProxy"], n)

\* No call of addon takes kube-proxy away from a node that has it: the DaemonSets are
\* switched in an order that never leaves a gap (UpdateKubeProxyKubeconfig).
AddonKeepsProxy ==
  [][\A c \in Clients : pc[c] \in AddonSteps /\ pc'[c] # pc[c]
       => \A n \in Node : Served(n) => Served(n)']_vars

\* Of several addons at once at most one gets past the Create of the edge ConfigMap, and none
\* while a cluster is wired: that Create, which is never retried, is the only lock between
\* them (UpdateKubeProxyKubeconfig).
Updating(c) == pc[c] \in AddonSteps \ {"createCM"}
OneUpdater ==
  [][\A c \in Clients : Updating(c)' /\ ~Updating(c)
       => ~EdgeWired /\ \A d \in Clients : ~Updating(d)]_vars

----------------------------------------------------------------------------
(***************************************************************************)
(* What documents, comments and messages say, and the code does not do.    *)
(***************************************************************************)
DetachEnded(c, outcome) == run[c] = [command |-> "detach", outcome |-> outcome]

\* "backup original ConfigMap": kubernetes-no-edge holds the original Endpoints
\* (UpdateKubernetesEndpoint), also when an addon and a detach overlap.
BackupIsOriginal == api["backup"] \in {Absent, "original"}

\* detach restores the cluster: the annotations of the "kubernetes" EndpointSlice are
\* back once it has returned nil (RecoverKubeConfig).
DetachRestoresSlice == \A c \in Clients : DetachEnded(c, "ok") => api["slice"] = "original"

\* After an addon that stopped half-way, detach (itself undisturbed) uninstalls what
\* the addon did (RecoverKubeProxyKubeconfig).
DetachCleansUp ==
  \A c \in Clients : DetachEnded(c, "ok") \/ DetachEnded(c, "error") =>
    \A o \in Objects \ {"slice"} : api[o] = NativeCluster[o]

\* The edge apps are not deleted while edge nodes remain (DeleteEdgeAPPS).
DetachSparesEdgeNodes == \A c \in Clients : pc[c] \in RecoverSteps => EdgeNodes = {}
=============================================================================
