------------------------------ MODULE InitJoin ------------------------------
(***************************************************************************)
(* edgeadm init on a master, edgeadm join and edgeadm reset on the hosts   *)
(* that become nodes of its cluster.  All are lists of phases that an error*)
(* ends.  The hosts see of init what it has published in the cluster so    *)
(* far; what a command leaves on a host is what the next one finds there.  *)
(* The phases of kubeadm between those of edgeadm are taken from how       *)
(* edgeadm uses them.                                                      *)
(***************************************************************************)
EXTENDS Integers, Sequences, FiniteSets

CONSTANTS
  Host,
  SANs,          \* what --apiserver-cert-extra-sans names first: "ip" (or nothing), "name",
                 \* or "mixed": a name, then an address
  MaxClusters,   \* bound: clusters initialised one after the other
  MaxCommands,   \* bound: joins and resets
  MaxFaults      \* bound: failures and interruptions

ASSUME SANsAssumption == SANs \subseteq {"ip", "name", "mixed"}
ASSUME BoundsAssumption == MaxClusters \in Nat /\ MaxCommands \in Nat /\ MaxFaults \in Nat

VARIABLES
  cluster,    \* the cluster on the master: which one it is, and how far init is
  host,       \* what is on each host
  node,       \* per host, its Node object, if there is one: labels, and whether it is ready
  run,        \* per host, the command that runs there or ran last
  commands,   \* joins and resets so far
  faults      \* failures so far

vars == <<cluster, host, node, run, commands, faults>>

(***************************************************************************)
(* What there is                                                           *)
(***************************************************************************)
\* The phases a host can tell apart; each stands for kubeadm's in front of it, too.
KubeadmPhases == << "wait-control-plane", "bootstrap-token" >>
\* with a bug: the nodes are let in before the applications for them are there
EdgePhasesJoinFirst == <<
  "join-prepare", "service-group", "tunnel", "edge-health", "site-manager", "edge-coredns",
  "update-config" >>
EdgePhases == <<
  "service-group", "tunnel", "edge-health", "site-manager", "edge-coredns", "join-prepare",
  "update-config" >>
EdgeComponents == {"service-group", "tunnel", "edge-health", "site-manager", "edge-coredns"}
\* RunIf: config.IsEnableEdge
Phases(edge) == IF edge THEN KubeadmPhases \o EdgePhases ELSE KubeadmPhases

Clusters == 0..MaxClusters   \* 0: none
Addresses == {"ip", "name"}
Outcomes == {"none", "running", "ok", "error"}
Labels == {"edge", "hostname", "cloud"}
Nodes == SUBSET (Labels \cup {"registered", "ready"})

\* resolves: /etc/hosts has an entry for AddonAPIServerDomain; lite: the cluster whose
\* certificates the running lite-apiserver has, upstream the name it proxies to; kubelet: the
\* cluster of kubelet.conf, via the server in it.
Hosts ==
  [ resolves : BOOLEAN, lite : Clusters, upstream : {"none", "alias", "own"}, ca : BOOLEAN,
    kubelet : Clusters, via : {"none", "alias", "own", "lite"}, dns : {"default", "edge"} ]
CleanHost ==
  [ resolves |-> FALSE, lite |-> 0, upstream |-> "none", ca |-> FALSE, kubelet |-> 0,
    via |-> "none", dns |-> "default" ]

\* What a join is asked for, and what it has found out so far.  fresh: there was nothing of an
\* earlier command on the host when it began, or, of a reset, it leaves nothing; found: the Node
\* it began with; done: init had ended by then; there: edge-info was published by then, and the
\* join's own Get of it has not failed; calm: no call of it has failed by itself.
JoinSteps == {"hosts", "discover", "edge-info", "lite", "preflight", "kubelet-start", "label"}
ResetSteps == {"cleanup-node", "cleanup-lite"}
Runs ==
  [ command : {"none", "join", "reset"}, worker : BOOLEAN, edge : BOOLEAN, endpoint : Addresses,
    step : {"none"} \cup JoinSteps \cup ResetSteps, outcome : Outcomes,
    cluster : Clusters, server : {"none", "alias", "own", "lite"}, dns : {"default", "edge"},
    fresh : BOOLEAN, found : Nodes, there : BOOLEAN, done : BOOLEAN, calm : BOOLEAN ]
NoRun ==
  [ command |-> "none", worker |-> FALSE, edge |-> FALSE, endpoint |-> "ip", step |-> "none",
    outcome |-> "none", cluster |-> 0, server |-> "none", dns |-> "default", fresh |-> TRUE,
    found |-> {}, there |-> FALSE, done |-> FALSE, calm |-> TRUE ]

Done == {Phases(cluster.edge)[i] : i \in 1..(cluster.next - 1)}
Up == "wait-control-plane" \in Done
EdgeInfo == "join-prepare" \in Done
\* UpdateClusterInfoKubeconfig puts the first address among the SANs into cluster-info, or
\* the first of them if none is one.
ClusterInfo ==
  IF "update-config" \in Done /\ cluster.sans = "name" THEN "name" ELSE "ip"
\* printJoinCommand has the first of the SANs for workers
Endpoints(worker) == IF worker /\ cluster.sans # "ip" THEN Addresses ELSE {"ip"}

Init ==
  /\ cluster = [id |-> 0, edge |-> FALSE, sans |-> "ip", next |-> 1, outcome |-> "none"]
  /\ host = [h \in Host |-> CleanHost]
  /\ node = [h \in Host |-> {}]
  /\ run = [h \in Host |-> NoRun]
  /\ commands = 0
  /\ faults = 0

----------------------------------------------------------------------------
(***************************************************************************)
(* init                                                                    *)
(***************************************************************************)
\* with a bug: the end of the list is not seen
RunPhaseOn ==
  /\ cluster.outcome = "running"
  /\ cluster' = [cluster EXCEPT !.next = @ + 1]
  /\ UNCHANGED <<host, node, run, commands, faults>>
\* kubeadm's preflight refuses a master that was not reset.
StartInit ==
  /\ cluster.outcome = "none"
  /\ cluster.id < MaxClusters
  /\ \E edge \in BOOLEAN : \E sans \in IF edge THEN SANs ELSE {"ip"} :
       cluster' = [id |-> cluster.id + 1, edge |-> edge, sans |-> sans, next |-> 1,
                   outcome |-> "running"]
  /\ UNCHANGED <<host, node, run, commands, faults>>

RunPhase ==
  /\ cluster.outcome = "running"
  /\ cluster' = [cluster EXCEPT !.next = @ + 1,
                   !.outcome = IF cluster.next = Len(Phases(cluster.edge)) THEN "ok" ELSE @]
  /\ UNCHANGED <<host, node, run, commands, faults>>

\* A phase fails, or edgeadm is stopped, before or after the phase has had its effect.
InitFails ==
  /\ cluster.outcome = "running"
  /\ faults < MaxFaults /\ faults' = faults + 1
  /\ \E done \in 0..1 :
       cluster' = [cluster EXCEPT !.outcome = "error", !.next = @ + done]
  /\ UNCHANGED <<host, node, run, commands>>

\* edgeadm reset on the master: etcd is gone, and with it every object.
ResetMaster ==
  /\ cluster.outcome \in {"ok", "error"}
  /\ cluster' = [cluster EXCEPT !.edge = FALSE, !.sans = "ip", !.next = 1, !.outcome = "none"]
  /\ node' = [h \in Host |-> {}]
  /\ UNCHANGED <<host, run, commands, faults>>

----------------------------------------------------------------------------
(***************************************************************************)
(* join                                                                    *)
(***************************************************************************)
Running(h) == run[h].outcome = "running"
At(h, step) == run[h].command = "join" /\ run[h].step = step /\ Running(h)
Worker(h) == run[h].worker
EdgeWorker(h) == run[h].worker /\ run[h].edge

\* The phase after this one, by the RunIf of each.
After(h, step) ==
  CASE step = "hosts" -> "discover"
    [] step = "discover" -> "edge-info"
    [] step = "edge-info" -> IF Worker(h) THEN "lite" ELSE "preflight"
    [] step = "lite" -> "preflight"
    [] step = "preflight" -> "kubelet-start"
    [] OTHER -> "label"
\* r goes on behind its step
Goes(h, r) == [r EXCEPT !.step = After(h, run[h].step)]
Ends(r, how) ==
  [r EXCEPT !.step = "none", !.outcome = how, !.server = "none", !.dns = "default",
            !.endpoint = IF how = "ok" THEN "ip" ELSE @]
Set(h, r) == run' = [run EXCEPT ![h] = r]
\* the host is left like this
Leave(h, x) == host' = [host EXCEPT ![h] = x]
Continue(h) == Set(h, Goes(h, run[h]))
Fail(h) == Set(h, Ends(run[h], "error"))

\* Whether the API server answers a client on this host that uses this server: the cluster
\* must be the one the client trusts, and the name must resolve.
Answers(h, server) ==
  /\ Up
  /\ run[h].cluster = cluster.id
  /\ CASE server = "alias" -> host[h].resolves
       [] server = "lite" ->
            host[h].lite = cluster.id /\ (host[h].upstream = "alias" => host[h].resolves)
       [] OTHER -> TRUE

\* No command ran here, or reset did and nothing it called failed; its Node may be there.
Untouched(h) ==
  run[h].command # "join" /\ run[h].outcome \in {"none", "ok"} /\ run[h].fresh

NewJoin(h, worker, edge, endpoint) ==
  [ command |-> "join", worker |-> worker, edge |-> edge, endpoint |-> endpoint,
    step |-> IF edge THEN "hosts" ELSE "preflight", outcome |-> "running",
    cluster |-> cluster.id, server |-> "own", dns |-> "default",
    fresh |-> Untouched(h), found |-> node[h], there |-> EdgeInfo,
    done |-> cluster.outcome = "ok", calm |-> TRUE ]
\* The operator runs join, for any role, with an address the cluster is known by.
StartJoin(h) ==
  /\ ~Running(h)
  /\ commands < MaxCommands
  /\ commands' = commands + 1
  /\ \E worker, edge \in BOOLEAN : \E endpoint \in IF edge THEN Endpoints(worker) ELSE {"ip"} :
       Set(h, NewJoin(h, worker, edge, endpoint))
  /\ UNCHANGED <<cluster, host, node, faults>>

\* with a bug: the edge nodes' own entries replace that of the API server
NodeHostsOnly(h) == FALSE
\* What ensureHostDNS leaves in /etc/hosts when the endpoint was an address.
NodeHosts(h) == run[h].endpoint = "ip"

\* configControlPlaneInfo: an address is replaced by a name that /etc/hosts resolves.  It
\* ignores what ensureHostDNS returns.
ConfigControlPlane(h) ==
  /\ At(h, "hosts")
  /\ Leave(h, [host[h] EXCEPT !.resolves = @ \/ run[h].endpoint = "ip"])
  /\ Continue(h)
  /\ UNCHANGED <<cluster, node, commands, faults>>

\* The token and the hash on the command line are those of one cluster.
Discoverable(h) ==
  /\ "bootstrap-token" \in Done /\ run[h].cluster = cluster.id
  /\ run[h].edge /\ run[h].endpoint = "ip" => host[h].resolves
\* TLSBootstrapCfg waits for cluster-info; initKubeClient replaces an address in it.
Discover(h) ==
  /\ At(h, "discover")
  /\ Discoverable(h)
  /\ Set(h, Goes(h, [run[h] EXCEPT !.server = IF ClusterInfo = "ip" THEN "alias" ELSE "own"]))
  /\ UNCHANGED <<cluster, host, node, commands, faults>>
\* with a bug: it waits for ever
DiscoverWaits(h) ==
  /\ At(h, "discover")
  /\ ~Discoverable(h)
  /\ UNCHANGED vars
\* kubeadm gives up after five minutes.
DiscoverTimesOut(h) ==
  /\ At(h, "discover")
  /\ ~Discoverable(h)
  /\ Fail(h)
  /\ UNCHANGED <<cluster, host, node, commands, faults>>

\* with a bug: cluster-dns is set in a copy of the configuration
PrepareEdgeNodeCopy(h) ==
  LET found == Worker(h) /\ Answers(h, run[h].server) /\ EdgeInfo IN
  /\ At(h, "edge-info")
  /\ Leave(h, [host[h] EXCEPT !.ca = FALSE,
                             !.resolves = IF found THEN NodeHosts(h) ELSE @])
  /\ Continue(h)
  /\ UNCHANGED <<cluster, node, commands, faults>>
\* prepareJoinEdgeNode, whose error is logged and swallowed; the certificate of the cluster
\* goes at the end of the phase in any case.
PrepareEdgeNode(h) ==
  LET found == Worker(h) /\ Answers(h, run[h].server) /\ EdgeInfo IN
  /\ At(h, "edge-info")
  /\ Leave(h, [host[h] EXCEPT !.ca = FALSE,
                             !.resolves = IF found THEN NodeHosts(h) ELSE @])
  /\ Set(h, Goes(h, [run[h] EXCEPT !.dns = IF found THEN "edge" ELSE @]))
  /\ UNCHANGED <<cluster, node, commands, faults>>

Lite(h) ==
  [host[h] EXCEPT !.lite = cluster.id, !.ca = FALSE,
                  !.upstream = IF run[h].endpoint = "ip" THEN "alias" ELSE "own"]

\* with a bug: the kubelet is not told
InstallLiteOnly(h) ==
  /\ At(h, "lite") /\ host[h].lite = 0
  /\ Answers(h, run[h].server) /\ EdgeInfo
  /\ Leave(h, Lite(h))
  /\ Continue(h)
  /\ UNCHANGED <<cluster, node, commands, faults>>
\* deployLiteAPIServer; from here on the kubelet will use it.
InstallLite(h) ==
  /\ At(h, "lite") /\ host[h].lite = 0
  /\ Answers(h, run[h].server) /\ EdgeInfo
  /\ Leave(h, Lite(h))
  /\ Set(h, Goes(h, [run[h] EXCEPT !.server = "lite"]))
  /\ UNCHANGED <<cluster, node, commands, faults>>
NoEdgeInfo(h) ==
  /\ At(h, "lite") /\ host[h].lite = 0
  /\ ~(Answers(h, run[h].server) /\ EdgeInfo)
  /\ Leave(h, [host[h] EXCEPT !.ca = FALSE])
  /\ Fail(h)
  /\ UNCHANGED <<cluster, node, commands, faults>>
\* isRunningLiteAPIServer: nothing is installed, and nothing is said to the kubelet.
LiteRuns(h) ==
  /\ At(h, "lite") /\ host[h].lite # 0
  /\ Continue(h)
  /\ UNCHANGED <<cluster, host, node, commands, faults>>

\* kubeadm: what an earlier join left stops this one; without --enable-edge cluster-info is
\* discovered here.
Preflight(h) ==
  /\ At(h, "preflight")
  /\ IF /\ host[h].kubelet = 0 /\ (Worker(h) => ~host[h].ca)
        /\ IF run[h].edge THEN Answers(h, run[h].server) ELSE Discoverable(h)
     THEN Continue(h)
     ELSE Fail(h)
  /\ UNCHANGED <<cluster, host, node, commands, faults>>

Joined(h) ==
  [host[h] EXCEPT !.kubelet = cluster.id, !.via = run[h].server, !.dns = run[h].dns, !.ca = TRUE]
\* kubeadm starts the kubelet and waits until it is registered; the Node of an earlier kubelet
\* that still counts as ready stops it.
Startable(h) == Answers(h, run[h].server) /\ "ready" \notin node[h]
Registered(h) == [node EXCEPT ![h] = @ \cup {"registered", "ready"}]
KubeletStart(h) ==
  /\ At(h, "kubelet-start")
  /\ \/ /\ Startable(h)
        /\ Leave(h, Joined(h))
        /\ node' = Registered(h)
        /\ Continue(h)
     \/ /\ ~Startable(h)
        /\ Leave(h, [host[h] EXCEPT !.ca = TRUE])
        /\ Fail(h)
        /\ UNCHANGED node
  /\ UNCHANGED <<cluster, commands, faults>>

\* with a bug: the label the manifests of the edge applications select is forgotten
LabelsOfHostnameOnly(h) == IF EdgeWorker(h) THEN {"hostname"} ELSE {"cloud"}
\* Workers of an edge cluster get the edge labels, all others the cloud label.
LabelsOf(h) == IF EdgeWorker(h) THEN {"edge", "hostname"} ELSE {"cloud"}
\* addEdgeNodeLabel ends the join with its error, addCloudNodeLabel's is ignored.
AddLabel(h) ==
  /\ At(h, "label")
  /\ IF Answers(h, host[h].via)
     THEN /\ node' = [node EXCEPT ![h] = @ \cup LabelsOf(h)]
          /\ Set(h, Ends(run[h], "ok"))
     ELSE /\ Set(h, Ends(run[h], IF EdgeWorker(h) THEN "error" ELSE "ok"))
          /\ UNCHANGED node
  /\ UNCHANGED <<cluster, host, commands, faults>>

----------------------------------------------------------------------------
(***************************************************************************)
(* reset                                                                   *)
(***************************************************************************)
ResetAt(h, step) == run[h].command = "reset" /\ run[h].step = step /\ Running(h)

NewReset == [NoRun EXCEPT !.command = "reset", !.step = "cleanup-node", !.outcome = "running"]
StartReset(h) ==
  /\ ~Running(h) /\ run[h].command # "none"
  /\ commands < MaxCommands
  /\ commands' = commands + 1
  /\ Set(h, NewReset)
  /\ UNCHANGED <<cluster, host, node, faults>>

\* kubeadm stops the kubelet and empties /etc/kubernetes; the Node stays.
CleanupNode(h) ==
  /\ ResetAt(h, "cleanup-node")
  /\ Leave(h, [host[h] EXCEPT !.kubelet = 0, !.via = "none", !.ca = FALSE,
                             !.dns = "default"])
  /\ Set(h, [run[h] EXCEPT !.step = "cleanup-lite"])
  /\ UNCHANGED <<cluster, node, commands, faults>>

\* with a bug: the service goes on
CleanupHostsOnly(h) ==
  /\ ResetAt(h, "cleanup-lite")
  /\ Leave(h, [host[h] EXCEPT !.resolves = FALSE])
  /\ Set(h, Ends(run[h], "ok"))
  /\ UNCHANGED <<cluster, node, commands, faults>>
\* runCleanupLiteAPIServer
CleanupLite(h) ==
  /\ ResetAt(h, "cleanup-lite")
  /\ Leave(h, [host[h] EXCEPT !.resolves = FALSE, !.lite = 0, !.upstream = "none"])
  /\ Set(h, Ends(run[h], "ok"))
  /\ UNCHANGED <<cluster, node, commands, faults>>

----------------------------------------------------------------------------
(***************************************************************************)
(* What can go wrong, and the surroundings                                 *)
(***************************************************************************)
CountFault == faults < MaxFaults /\ faults' = faults + 1
Disturbed(h) == [run[h] EXCEPT !.calm = FALSE]

\* The operator stops the command, or what it calls fails, before it has an effect or after.
Stops(h) ==
  /\ Running(h)
  /\ CountFault
  /\ \/ Leave(h, host[h]) /\ UNCHANGED node
     \/ /\ At(h, "lite") /\ Answers(h, run[h].server) /\ EdgeInfo
        /\ Leave(h, Lite(h)) /\ UNCHANGED node
     \/ /\ At(h, "kubelet-start") /\ Startable(h)
        /\ Leave(h, Joined(h))
        /\ node' \in {node, Registered(h)}
  /\ Set(h, Ends(Disturbed(h), "error"))
  /\ UNCHANGED <<cluster, commands>>

\* The failures that nobody hears of: /etc/hosts is not written, or only its old entry is
\* gone; the Get of edge-info fails; the running lite-apiserver is not seen; it cannot be
\* stopped; the cloud label is not set.
Swallowed(h) ==
  /\ CountFault
  /\ \/ /\ At(h, "hosts") /\ run[h].endpoint = "ip"
        /\ \E b \in {FALSE, host[h].resolves} : Leave(h, [host[h] EXCEPT !.resolves = b])
        /\ Set(h, Goes(h, Disturbed(h)))
     \/ /\ At(h, "edge-info") /\ Worker(h)
        /\ Leave(h, [host[h] EXCEPT !.ca = FALSE])
        /\ Set(h, Goes(h, [Disturbed(h) EXCEPT !.there = FALSE]))
     \/ /\ At(h, "edge-info") /\ Worker(h) /\ Answers(h, run[h].server) /\ EdgeInfo
        /\ \E b \in {FALSE, host[h].resolves} :
             Leave(h, [host[h] EXCEPT !.ca = FALSE, !.resolves = b])
        /\ Set(h, Goes(h, [Disturbed(h) EXCEPT !.dns = "edge"]))
     \/ /\ At(h, "lite") /\ host[h].lite # 0 /\ Answers(h, run[h].server) /\ EdgeInfo
        /\ Leave(h, Lite(h))
        /\ Set(h, Goes(h, [Disturbed(h) EXCEPT !.server = "lite"]))
     \/ /\ At(h, "label") /\ ~EdgeWorker(h)
        /\ Set(h, Ends(Disturbed(h), "ok"))
        /\ UNCHANGED host
     \/ /\ ResetAt(h, "cleanup-lite")
        /\ \E left \in {host[h], [host[h] EXCEPT !.resolves = FALSE],
                        [host[h] EXCEPT !.lite = 0, !.upstream = "none"]} :
             Leave(h, left)
        /\ Set(h, Ends([Disturbed(h) EXCEPT !.fresh = FALSE], "ok"))
  /\ UNCHANGED <<cluster, node, commands>>

\* kubectl delete node
DeleteNode(h) ==
  /\ node[h] # {} /\ ~Running(h)
  /\ node' = [node EXCEPT ![h] = {}]
  /\ UNCHANGED <<cluster, host, run, commands, faults>>

\* The cluster has not heard of the kubelet for a while.
NodeNotReady(h) ==
  /\ "ready" \in node[h] /\ host[h].kubelet # cluster.id
  /\ node' = [node EXCEPT ![h] = @ \ {"ready"}]
  /\ UNCHANGED <<cluster, host, run, commands, faults>>

Join(h) ==
  \/ ConfigControlPlane(h)
  \/ Discover(h)
  \/ DiscoverTimesOut(h)
  \/ PrepareEdgeNode(h)
  \/ InstallLite(h)
  \/ NoEdgeInfo(h)
  \/ LiteRuns(h)
  \/ Preflight(h)
  \/ KubeletStart(h)
  \/ AddLabel(h)
Reset(h) == CleanupNode(h) \/ CleanupLite(h)

Next ==
  \/ StartInit
  \/ RunPhase
  \/ InitFails
  \/ ResetMaster
  \/ \E h \in Host :
       \/ StartJoin(h)
       \/ Join(h)
       \/ StartReset(h)
       \/ Reset(h)
       \/ Stops(h)
       \/ Swallowed(h)
       \/ DeleteNode(h)
       \/ NodeNotReady(h)

\* A command that was started goes on; nobody has to start one.
Spec == Init /\ [][Next]_vars /\ \A h \in Host : WF_vars(Join(h) \/ Reset(h))

----------------------------------------------------------------------------
(***************************************************************************)
(* Properties                                                              *)
(***************************************************************************)
\* Every variable keeps its type; init stops behind its last phase, and a host is at a step
\* exactly while a command runs there.
TypeOK ==
  /\ cluster \in [id : Clusters, edge : BOOLEAN, sans : SANs \cup {"ip"},
                  next : 1..(Len(Phases(cluster.edge)) + 1), outcome : Outcomes]
  /\ host \in [Host -> Hosts]
  /\ node \in [Host -> Nodes]
  /\ run \in [Host -> Runs]
  /\ \A h \in Host : Running(h) <=> run[h].step # "none"
  /\ commands \in 0..MaxCommands
  /\ faults \in 0..MaxFaults

JoinEnded(h, how) == run[h].command = "join" /\ run[h].outcome = how
SameCluster(h) == run[h].cluster = cluster.id /\ cluster.outcome # "none"

\* lite-apiserver runs on a host only when init has been through the phases of the applications
\* of the edge nodes: edge-info is published behind them (NewEdgeAppsPhase,
\* deployLiteAPIServer).  That of the tunnel may be through without tunnel-edge, whose failure
\* it drops (deploy_tunnel.go:115).
EdgeAppsFirst ==
  cluster.outcome # "none" =>
    \A h \in Host : host[h].lite = cluster.id => EdgeComponents \subseteq Done

\* The kubelet of an edge worker that joined on a host without anything of an earlier command
\* reaches the cluster through a lite-apiserver of this cluster which reaches it, also when
\* edge-info appeared while the join ran, and when the join swallowed a failure on the way
\* (installLiteAPIServer, joinPreparePhase, runCleanupLiteAPIServer).
ThroughLite ==
  \A h \in Host : JoinEnded(h, "ok") /\ EdgeWorker(h) /\ run[h].fresh =>
    /\ host[h].via = "lite" /\ host[h].lite = run[h].cluster
    /\ host[h].upstream = "alias" => host[h].resolves

\* An edge worker that joined asks the edge DNS if edge-info was there when the join began, with
\* one exception, in which it has joined with the DNS of a cloud node: its Get of edge-info (or of
\* what prepareJoinEdgeNode reads in front of it) failed by itself, which is logged and swallowed
\* (join_master.go:82).  Nothing else comes to that: whatever was left on the host, whatever
\* other error was swallowed, a join that could not reach the cluster at that point does not
\* succeed later.
DnsOfEdge ==
  \A h \in Host : JoinEnded(h, "ok") /\ EdgeWorker(h) /\ run[h].there => host[h].dns = "edge"

\* A node that joined has the labels of the role it joined in, the edge labels for edge workers
\* whatever failed, the cloud label for all others unless just that call failed and was ignored;
\* and it has no others but those its Node had when the join began: reset leaves the Node and
\* AddNodeLabel only adds, so that a host which joins again in another role without kubectl
\* delete node keeps the labels of the first (NewAddNodeLabelPhase).
LabelledByRole ==
  \A h \in Host : JoinEnded(h, "ok") /\ node[h] # {} =>
    LET labels == IF EdgeWorker(h) THEN {"edge", "hostname"} ELSE {"cloud"} IN
    /\ EdgeWorker(h) \/ run[h].calm => labels \subseteq node[h]
    /\ node[h] \cap Labels \subseteq labels \cup run[h].found

\* A join in a cluster whose init has ended succeeds if no call of it fails by itself, on a host
\* that is new or was reset ("use the ./edgeadm reset command to roll back the operation of
\* joining the node and rejoin", docs/installation/install_edge_kubernetes.md:253).  Three
\* exceptions: --enable-edge in a cluster without it; SANs that are a name and then an address,
\* where the printed command has the name, cluster-info the address, and the alias that replaces
\* the address is in no /etc/hosts; and, of which the docs say nothing, a Node from before the
\* reset that still counted as ready when the join began.
JoinSucceeds ==
  \A h \in Host : JoinEnded(h, "error") /\ run[h].fresh /\ run[h].calm /\ run[h].done
                   /\ SameCluster(h) =>
    \/ run[h].edge /\ (~cluster.edge \/ (run[h].endpoint = "name" /\ cluster.sans = "mixed"))
    \/ "ready" \in run[h].found

\* Every join and reset ends, also when the cluster never appears (TLSBootstrapCfg).
CommandsEnd == \A h \in Host : Running(h) ~> ~Running(h)
=============================================================================
