-------------------------- MODULE ClusterCommands --------------------------
(***************************************************************************)
(* The commands of edgeadm, run one after the other on one cluster, each   *)
(* failing or interrupted anywhere: the plans of Workflows executed by     *)
(* CommandRunner.                                                          *)
(***************************************************************************)
EXTENDS Workflows, SoundPlans

CONSTANT
  LevelSets       \* the sets of --level that the operator of edgex asks for; {} is no flag

Of(a, verb, levels) == [app |-> a, verb |-> verb, levels |-> levels]
\* addon edgex knows no level "completely"; without a level both take them all.
AddonLevels == {levels \in LevelSets : "completely" \notin levels}
RunAddonedgex(levels) ==
  DeployEdgex(IF levels = {} THEN ToSet(Levels) \ {"completely"} ELSE levels)
RunDetachedgex(levels) ==
  DeleteEdgex(IF levels = {} THEN ToSet(Levels) ELSE levels)

PlanOf ==
  ( Of("topolvm", "addon", {}) :> DeployTopolvmAppS
    @@ Of("topolvm", "detach", {}) :> RemoveTopolvmApps
    @@ Of("edge-apps", "addon", {}) :> DeployEdgeAPPS
    @@ Of("edge-apps", "detach", {}) :> DeleteEdgeAPPS
    @@ Of("cluster", "init", {}) :> RunInit
    @@ Of("cluster", "detach", {}) :> DeleteEdgeAPPS
    @@ Of("kubeadm", "change", {}) :> RunKubeadmChange
    @@ Of("kubeadm", "revert", {}) :> RunKubeadmRevert )
  @@ [c \in {Of("edgex", "addon", levels) : levels \in AddonLevels} |-> RunAddonedgex(c.levels)]
  @@ [c \in {Of("edgex", "detach", levels) : levels \in LevelSets} |-> RunDetachedgex(c.levels)]

KubeadmObjects ==
  {call.doc : call \in UNION {CallsIn(DeployEdgePreflight[s]) : s \in DOMAIN DeployEdgePreflight}}
AdministratorConfig ==
  { Document(Edgex, "ConfigMap", "common-variables"),
    Document(KubeSystem, "ConfigMap", "kubeadm-config"),
    Document(KubeSystem, "ConfigMap", "kubelet-config") }
----------------------------------------------------------------------------
\* What the theorems about the properties below rest on; TLC evaluates it on PlanOf.
\* addon topolvm and addon edgex make every namespace before they use it and ask for nothing
\* else, and for nothing not to be there but the CSIDriver, which can only be created; addon
\* topolvm deletes it first if it finds what it deletes in front of it, and creates that again
\* in front of it.
TopolvmWebhook == In(TopolvmSystem, AppTopolvmWebhookYaml)
CSIDriver == TopolvmWebhook[3]
InFront == {TopolvmWebhook[1], TopolvmWebhook[2]}
ASSUME RerunAssumption ==
  \A c \in Command : c.verb = "addon" /\ c.app \in {"topolvm", "edgex"} =>
    /\ \A s \in StrictStages(c) : LET found == InFront \cup {CSIDriver} IN
         /\ Sound(c, {}, s) /\ Fresh(c, {}, s) \subseteq {CSIDriver}
         /\ Sound(c, found, s) /\ Fresh(c, found, s) = {}
    /\ \A x \in PlacesOf(c) : Collides(CallAt(c, x)) /\ CallAt(c, x).doc = CSIDriver =>
         \A d \in InFront : WrittenFirst(c, x, d)
\* The phases of init make every namespace before they use it, and in an empty cluster create
\* nothing twice.
ASSUME InitAssumption ==
  \A c \in Command : c.verb = "init" => \A s \in StrictStages(c) : Sound(c, {}, s)

\* Where tunnel-edge is deployed all of it is, by a stage that asks for nothing else not to
\* be there, and nothing takes it away later.
TunnelEdge == ToSet(In(EdgeSystem, TunnelEdgeYaml))
ASSUME TunnelAssumption ==
  \A c \in Command : Builds(c) =>
    \A d \in TunnelEdge \cap Documents[c.app] : \E x \in PlacesOf(c) :
      /\ CallAt(c, x).op \in Writes /\ CallAt(c, x).doc = d
      /\ Sound(c, {}, x[1]) /\ Fresh(c, {}, x[1]) \subseteq TunnelEdge
      /\ \A y \in PlacesOf(c) : Strikes(CallAt(c, y), d) => Precedes(y, x)
----------------------------------------------------------------------------
\* addon topolvm and addon edgex can be run again after any failure: from every state an
\* interrupted addon or detach leaves, an addon none of whose calls fails by itself does not
\* end in an error ("you can directly reexecute the installation command to update and
\* install", docs/installation/addon_edgex.md:129).  addon topolvm has one exception, for which
\* no document promises anything: where an earlier command deleted the webhook or its Secret
\* and stopped in front of the CSIDriver, its own delete stops there too (csi_plugin.go:34),
\* and the CSIDriver that is left cannot be updated (create_resource.go:373).  Then it has
\* written what it missed, and the next addon gets past the CSIDriver.
CSIDriverStays(documents) == CSIDriver \in documents /\ ~(InFront \subseteq documents)
RerunSucceeds ==
  calm /\ command.app \in {"topolvm", "edgex"} /\ Ended("addon", "error") =>
    CSIDriverStays(before) /\ ~CSIDriverStays(Present)

\* init fills an empty cluster: no phase asks for what only a later one creates
\* (NewEdgeAppsPhase).
InitSucceeds == calm /\ before = {} => ~Ended("init", "error")

\* tunnel-edge, whose deployment is only polled for and whose failure is dropped, is there
\* after an addon edge-apps or an init that reports success if no call failed and no document of it was
\* there before (DeployTunnelAddon).
TunnelEdgeDeployed ==
  LET wanted == TunnelEdge \cap DOMAIN api IN
  outcome = "ok" /\ command.verb \in {"addon", "init"} /\ calm /\ wanted \cap before = {} =>
    wanted \subseteq Present

\* detach edge-apps undoes addon edge-apps: when it reports success no workload of the edge
\* components is left ("uninstall the edge component to restore the cluster",
\* docs/installation/addon_superedge.md:126).
EdgeComponents ==
  {d \in DOMAIN api : d.ns = EdgeSystem /\ d.kind \in {"Deployment", "DaemonSet"}}
DetachLeavesNothing ==
  command.app = "edge-apps" /\ Ended("detach", "ok") => EdgeComponents \cap Present = {}

\* A change none of whose calls fails by itself turns the cluster into an edge cluster ("edgeadm
\* change ... Kubeadm Cluster Change To Edge cluster Success!",
\* docs/installation/install_via_edgeadm.md:73).
ChangeSucceeds == calm => ~Ended("change", "error")
=============================================================================
